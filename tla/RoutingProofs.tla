--------------------------- MODULE RoutingProofs ---------------------------
(***************************************************************************)
(* Theorems about sources, catalog, aliases, grants, keys and calls, for   *)
(* any tables to start with and any number of requests.                    *)
(***************************************************************************)
EXTENDS Routing, FiniteSetTheorems, WellFoundedInduction, TLAPS

Ids == Nat \ {0}

\* Rows by id, where some id is above all.
Table(f, S) ==
    /\ DOMAIN f \subseteq Ids
    /\ \E b \in Nat : \A i \in DOMAIN f : i <= b
    /\ \A i \in DOMAIN f : f[i] \in S

LEMMA EmptyTable == ASSUME NEW S PROVE Table(<<>>, S) /\ DOMAIN <<>> = {}
<1>1. DOMAIN <<>> = {}
  OBVIOUS
<1> QED
  BY <1>1 DEF Table

LEMMA ShortSequences ==
    ASSUME NEW S
    PROVE  /\ <<>> \in Seq(S) /\ Len(<<>>) = 0
           /\ \A x \in S : <<x>> \in Seq(S) /\ Len(<<x>>) = 1 /\ <<x>>[1] = x
OBVIOUS

LEMMA TableFinite ==
    ASSUME NEW f, NEW S, Table(f, S)
    PROVE  IsFiniteSet(DOMAIN f)
BY FS_BoundedSetOfNaturals DEF Table, Ids

LEMMA TableOfOne ==
    ASSUME NEW S, NEW i \in Ids, NEW row \in S
    PROVE  Table(Only(i, row), S) /\ DOMAIN Only(i, row) = {i} /\ Only(i, row)[i] = row
<1>1. DOMAIN Only(i, row) = {i} /\ Only(i, row)[i] = row
  BY DEF Only
<1> QED
  BY <1>1 DEF Table, Ids

LEMMA PartOfTable ==
    ASSUME NEW f, NEW S, Table(f, S), NEW D, D \subseteq DOMAIN f
    PROVE  /\ Table(Restrict(f, D), S) /\ DOMAIN Restrict(f, D) = D
           /\ \A i \in D : Restrict(f, D)[i] = f[i]
<1>1. DOMAIN Restrict(f, D) = D /\ \A i \in D : Restrict(f, D)[i] = f[i]
  BY DEF Restrict
<1> QED
  BY <1>1 DEF Table

LEMMA LeastNatural ==
    ASSUME NEW S \in SUBSET Nat, S # {}
    PROVE  \E n \in S : \A m \in S : n <= m
<1> DEFINE Below == OpToRel(<, Nat)
<1>1. Below = {p \in Nat \X Nat : p[1] < p[2]}
  BY DEF OpToRel
<1>2. IsWellFoundedOn(Below, Nat)
  BY NatLessThanWellFounded
<1> HIDE DEF Below
<1>3. PICK n \in S : \A m \in S : <<m, n>> \notin Below
  BY <1>2, WFMin
<1>4. ASSUME NEW m \in S PROVE n <= m
  <2>1. <<m, n>> \in Nat \X Nat /\ ~(m < n)
    BY <1>1, <1>3
  <2> QED
    BY <2>1
<1> QED
  BY <1>4

LEMMA GreatestNatural ==
    ASSUME NEW S \in SUBSET Nat, S # {}, NEW b \in Nat, \A i \in S : i <= b
    PROVE  Max(S) \in S /\ \A i \in S : i <= Max(S)
<1> DEFINE bounds == {c \in Nat : \A i \in S : i <= c}
<1>1. PICK c \in bounds : \A d \in bounds : c <= d
  BY LeastNatural
<1>2. c \in S
  <2>1. CASE c = 0
    <3>1. PICK i \in S : TRUE
      OBVIOUS
    <3>2. i <= c /\ i \in Nat
      BY <1>1
    <3> QED
      BY <2>1, <3>2
  <2>2. CASE c # 0
    <3>1. c - 1 \in Nat /\ c - 1 \notin bounds
      BY <2>2, <1>1
    <3>2. PICK i \in S : ~(i <= c - 1)
      BY <3>1
    <3>3. i = c
      BY <3>2, <1>1
    <3> QED
      BY <3>3
  <2> QED
    BY <2>1, <2>2
<1>3. \A i \in S : c >= i
  BY <1>1
<1>4. Max(S) \in S /\ \A i \in S : Max(S) >= i
  BY <1>2, <1>3 DEF Max
<1> QED
  BY <1>4

\* SQLite's next rowid is above all ids in use.
LEMMA NewIdIsNew ==
    ASSUME NEW f, NEW S, Table(f, S)
    PROVE  NewId(f) \in Ids /\ \A i \in DOMAIN f : i < NewId(f)
<1>1. PICK b \in Nat : \A i \in DOMAIN f : i <= b
  BY DEF Table
<1> DEFINE ids == {0} \cup DOMAIN f
<1>2. ids \in SUBSET Nat /\ ids # {} /\ \A i \in ids : i <= b
  BY <1>1 DEF Table, Ids
<1>3. Max(ids) \in ids /\ \A i \in ids : i <= Max(ids)
  BY <1>2, GreatestNatural
<1>4. NewId(f) = Max(ids) + 1
  BY DEF NewId
<1> QED
  BY <1>2, <1>3, <1>4 DEF Ids

\* INSERT adds rows beside those there are.
LEMMA InsertedRows ==
    ASSUME NEW f, NEW S, Table(f, S), NEW rows \in Seq(S)
    PROVE  /\ Table(Inserted(f, rows), S)
           /\ \A i \in DOMAIN f : i \in DOMAIN Inserted(f, rows) /\ Inserted(f, rows)[i] = f[i]
           /\ \A i \in DOMAIN Inserted(f, rows) \ DOMAIN f :
                 /\ i - NewId(f) + 1 \in 1 .. Len(rows)
                 /\ Inserted(f, rows)[i] = rows[i - NewId(f) + 1]
<1> DEFINE first == NewId(f)
           new == [i \in first .. (first + Len(rows) - 1) |-> rows[i - first + 1]]
<1>1. Inserted(f, rows) = Beside(f, new)
  BY DEF Inserted
<1>2. /\ DOMAIN Beside(f, new) = DOMAIN f \cup DOMAIN new
      /\ \A i \in DOMAIN f \cup DOMAIN new :
            Beside(f, new)[i] = IF i \in DOMAIN f THEN f[i] ELSE new[i]
  BY DEF Beside
<1>3. first \in Ids /\ \A i \in DOMAIN f : i < first
  BY NewIdIsNew
<1>4. Len(rows) \in Nat /\ \A j \in 1 .. Len(rows) : rows[j] \in S
  OBVIOUS
<1>5. \A i \in DOMAIN new : /\ i \in Ids /\ i <= first + Len(rows)
                            /\ i - first + 1 \in 1 .. Len(rows) /\ new[i] = rows[i - first + 1]
  BY <1>3, <1>4 DEF Ids
<1> HIDE DEF new
<1>6. \A i \in DOMAIN f : i <= first + Len(rows)
  BY <1>3, <1>4 DEF Table, Ids
<1>7. first + Len(rows) \in Nat
  BY <1>3, <1>4 DEF Ids
<1>8. Table(Beside(f, new), S)
  BY <1>2, <1>4, <1>5, <1>6, <1>7 DEF Table
<1> QED
  BY <1>1, <1>2, <1>5, <1>8

\* UPDATE changes rows that are there, column by column.
LEMMA UpdatedRows ==
    ASSUME NEW f, NEW old, NEW new
    PROVE  /\ DOMAIN Updated(f, old, new) = DOMAIN f
           /\ \A i \in DOMAIN f : Updated(f, old, new)[i] =
                 IF i \in DOMAIN new THEN Flushed(f[i], old[i], new[i]) ELSE f[i]
BY DEF Updated

LEMMA UpdatedTable ==
    ASSUME NEW f, NEW S, Table(f, S), NEW old, NEW new,
           \A i \in DOMAIN f \cap DOMAIN new : Flushed(f[i], old[i], new[i]) \in S
    PROVE  Table(Updated(f, old, new), S)
BY UpdatedRows DEF Table
------------------------------------------------------------------------------
(* Rows as a flush writes them. *)

LEMMA FlushedSource ==
    ASSUME NEW stored \in Source, NEW old \in Source, NEW new \in Source
    PROVE  /\ Flushed(stored, old, new) \in Source
           /\ Flushed(stored, old, new).name = IF new.name = old.name THEN stored.name ELSE new.name
BY DEF Flushed, Source

LEMMA FlushedEntry ==
    ASSUME NEW stored \in Entry, NEW old \in Entry, NEW new \in Entry
    PROVE  /\ Flushed(stored, old, new) \in Entry
           /\ Flushed(stored, old, new).source =
                IF new.source = old.source THEN stored.source ELSE new.source
           /\ Flushed(stored, old, new).model =
                IF new.model = old.model THEN stored.model ELSE new.model
           /\ Flushed(stored, old, new).disabled_by =
                IF new.disabled_by = old.disabled_by THEN stored.disabled_by ELSE new.disabled_by
BY DEF Flushed, Entry

LEMMA FlushedAlias ==
    ASSUME NEW stored \in Alias, NEW old \in Alias, NEW new \in Alias
    PROVE  Flushed(stored, old, new) \in Alias
BY DEF Flushed, Alias

LEMMA FlushedKey ==
    ASSUME NEW stored \in Key, NEW old \in Key, NEW new \in Key
    PROVE  /\ Flushed(stored, old, new) \in Key
           /\ Flushed(stored, old, new).owner =
                IF new.owner = old.owner THEN stored.owner ELSE new.owner
           /\ Flushed(stored, old, new).team =
                IF new.team = old.team THEN stored.team ELSE new.team
           /\ Flushed(stored, old, new).active =
                IF new.active = old.active THEN stored.active ELSE new.active
BY DEF Flushed, Key
------------------------------------------------------------------------------
(* The inductive invariant: the tables, and what each request has loaded and *)
(* drafted, by its kind and where it is.                                     *)

States == {"new", "shown", "loaded", "posted", "saved", "syncing", "routed", "authorized", "done"}
NewKeys == {"key_new", "key_setup"}
UserGrants == {"grant_add", "grant_remove", "grant_models"}

Control ==
    /\ at \in [Requests -> States]
    /\ loop \in Requests \cup {None}
    /\ DOMAIN read = Requests /\ DOMAIN draft = Requests /\ DOMAIN fresh = Requests
    /\ DOMAIN todo = Requests /\ DOMAIN plan = Requests

UniqueNames == \A i, j \in DOMAIN sources : sources[i].name = sources[j].name => i = j
UniqueRows ==
    \A i, j \in DOMAIN catalog :
        catalog[i].source = catalog[j].source /\ catalog[i].model = catalog[j].model => i = j

Tables ==
    /\ Table(sources, Source) /\ UniqueNames
    /\ Table(catalog, Entry) /\ UniqueRows
    /\ Table(aliases, Alias)
    /\ granted \in [Grantees -> SUBSET Names] /\ allowed \in [Grantees -> SUBSET Pairs]
    /\ default \in [sources : SUBSET Names, pairs : SUBSET Pairs]

\* Who there is: those from the start, and what requests of their kind have made.
KeyRows ==
    \A k \in DOMAIN keys :
        /\ keys[k] \in Key
        /\ keys[k].team \in teams \cup {None} /\ keys[k].owner \in users \cup {None}
        /\ k \in Keys \/ (k \in Requests /\ kind[k] \in NewKeys /\ at[k] = "done")
People ==
    /\ Users \subseteq users
    /\ users \subseteq Users \cup {r \in Requests : kind[r] \in {"user", "register"} /\ at[r] = "done"}
    /\ teams \subseteq Teams \cup {r \in Requests : kind[r] = "team"}
    /\ KeyRows

Empty(r) == read[r] = <<>> /\ draft[r] = <<>> /\ fresh[r] = <<>>

\* Rows of the catalog that a session changes stay rows of their source and model.
CatalogRows(r) ==
    /\ Table(read[r], Entry) /\ Table(draft[r], Entry) /\ DOMAIN draft[r] = DOMAIN read[r]
    /\ \A i \in DOMAIN read[r] : /\ draft[r][i].source = read[r][i].source
                                 /\ draft[r][i].model = read[r][i].model

Synced(r) ==
    /\ CatalogRows(r)
    /\ \A i \in DOMAIN read[r] :
         read[r][i].disabled_by = "admin" => draft[r][i].disabled_by = "admin"
    /\ todo[r] \subseteq Names /\ fresh[r] \in Seq(Entry)
    /\ \A i \in 1 .. Len(fresh[r]) : fresh[r][i].source \notin todo[r]
    /\ \A i, j \in 1 .. Len(fresh[r]) :
         fresh[r][i].source = fresh[r][j].source /\ fresh[r][i].model = fresh[r][j].model => i = j

Boxes(r) ==
    /\ CatalogRows(r) /\ fresh[r] = <<>>
    /\ \A i \in DOMAIN read[r] :
         \/ draft[r][i].disabled_by \in {read[r][i].disabled_by, "admin"}
         \/ draft[r][i].enabled /\ ~read[r][i].enabled

LoadedKey(r) == \E k \in DOMAIN keys : \E row \in Key : read[r] = Only(k, row)

Loaded(r) ==
    \/ kind[r] \in {"update", "delete", "save_all"} /\ draft[r] = <<>> /\ fresh[r] = <<>>
         /\ Table(read[r], Source)
    \/ kind[r] = "create" /\ read[r] = <<>> /\ draft[r] = <<>>
         /\ \E row \in Source : fresh[r] = <<row>>
    \/ kind[r] = "models" /\ Boxes(r)
    \/ kind[r] \in {"alias_save", "alias_delete"} /\ draft[r] = <<>> /\ fresh[r] = <<>>
         /\ Table(read[r], Alias)
    \/ kind[r] \in {"grant_add", "grant_models"} /\ draft[r] = <<>> /\ fresh[r] = <<>>
         /\ \E u \in users \ Admins : \E names \in SUBSET Names : read[r] = Only(u, names)
    \/ kind[r] \in {"key_edit", "key_rotate", "key_revoke"} /\ draft[r] = <<>> /\ fresh[r] = <<>>
         /\ LoadedKey(r)
    \/ kind[r] \in {"key_new", "team"} /\ Empty(r)
    \/ kind[r] = "register" /\ draft[r] = <<>> /\ fresh[r] = <<>>
         /\ \E row \in [sources : SUBSET Names, pairs : SUBSET Pairs] : read[r] = Only(r, row)

PlanFits(r) ==
    /\ plan[r].who \in Grantees \cup {None}
    /\ plan[r].sources \in (SUBSET Names) \cup {None} /\ plan[r].pairs \in SUBSET Pairs

GrantForm(r) ==
    /\ draft[r] = <<>> /\ fresh[r] = <<>> /\ kind[r] # "register"
    /\ kind[r] = "default" => plan[r].who = None /\ plan[r].sources \in SUBSET Names
    /\ kind[r] = "team" => plan[r].who \in Teams \cup {q \in Requests : kind[q] = "team"}
    /\ kind[r] = "user" => plan[r].who = r
    /\ kind[r] \in UserGrants => plan[r].who \in users \ Admins

NewKeyForm(r) ==
    /\ read[r] = <<>> /\ fresh[r] = <<>> /\ plan[r].who = r
    /\ \E new \in Key : draft[r] = Only(r, new) /\ new.owner \in users

EditForm(r) ==
    /\ fresh[r] = <<>>
    /\ \E k \in DOMAIN keys : \E old, new \in Key :
         /\ read[r] = Only(k, old) /\ draft[r] = Only(k, new) /\ plan[r].who = k
         /\ new.team \in {None, old.team} /\ new.owner \in users \cup {None, old.owner}

Posted(r) ==
    \/ kind[r] = "alias_add" /\ read[r] = <<>> /\ draft[r] = <<>> /\ plan[r] = NoPlan
         /\ fresh[r] \in Seq(Alias)
    \/ kind[r] = "alias_save" /\ fresh[r] = <<>> /\ plan[r] = NoPlan
         /\ Table(read[r], Alias) /\ Table(draft[r], Alias) /\ DOMAIN draft[r] \subseteq DOMAIN read[r]
    \/ kind[r] \in GrantKinds /\ PlanFits(r) /\ GrantForm(r)
    \/ kind[r] \in NewKeys /\ PlanFits(r) /\ NewKeyForm(r)
    \/ kind[r] = "key_edit" /\ PlanFits(r) /\ EditForm(r)

Shape(r) ==
    /\ at[r] \in {"new", "saved", "routed", "authorized", "done"} => Empty(r)
    /\ at[r] = "shown" => /\ kind[r] = "models" /\ Table(read[r], Entry)
                          /\ draft[r] = <<>> /\ fresh[r] = <<>>
    /\ at[r] = "loaded" => Loaded(r)
    /\ at[r] = "posted" => loop = r /\ Posted(r)
    /\ at[r] = "syncing" => kind[r] \in {"sync", "auto_sync", "save_all"} /\ Synced(r)
    /\ at[r] # "posted" => plan[r] = NoPlan

Inv == Control /\ Tables /\ People /\ \A r \in Requests : Shape(r)
------------------------------------------------------------------------------
(* A step of one request leaves the others what they have. *)

Frame(r) ==
    /\ kind' = kind
    /\ at' \in [Requests -> States] /\ loop' \in Requests \cup {None}
    /\ DOMAIN read' = Requests /\ DOMAIN draft' = Requests /\ DOMAIN fresh' = Requests
    /\ DOMAIN todo' = Requests /\ DOMAIN plan' = Requests
    /\ \A q \in Requests \ {r} :
         /\ at'[q] = at[q] /\ read'[q] = read[q] /\ draft'[q] = draft[q]
         /\ fresh'[q] = fresh[q] /\ todo'[q] = todo[q] /\ plan'[q] = plan[q]
    /\ loop \in {None, r} \/ loop' = loop
    /\ at[r] # "done"
    /\ users \subseteq users' /\ DOMAIN keys \subseteq DOMAIN keys'

LEMMA OthersKeepShape ==
    ASSUME NEW r \in Requests, Frame(r), NEW q \in Requests \ {r}, Shape(q)
    PROVE  Shape(q)'
<1>1. /\ at'[q] = at[q] /\ read'[q] = read[q] /\ draft'[q] = draft[q]
      /\ fresh'[q] = fresh[q] /\ todo'[q] = todo[q] /\ plan'[q] = plan[q] /\ kind'[q] = kind[q]
      /\ kind' = kind /\ users \subseteq users' /\ DOMAIN keys \subseteq DOMAIN keys'
  BY DEF Frame
<1>2. at[q] = "posted" /\ loop = q => loop' = q
  BY InventoryAssumption DEF Frame, InventoryAssumption
<1>3. Empty(q) => Empty(q)'
  BY <1>1 DEF Empty
<1>4. CatalogRows(q) => CatalogRows(q)'
  BY <1>1 DEF CatalogRows
<1>5. (Synced(q) => Synced(q)') /\ (Boxes(q) => Boxes(q)')
  BY <1>1, <1>4 DEF Synced, Boxes
<1>6. Loaded(q) => Loaded(q)'
  <2>1. LoadedKey(q) => LoadedKey(q)'
    BY <1>1 DEF LoadedKey
  <2> QED
    BY <1>1, <1>3, <1>5, <2>1 DEF Loaded
<1>7. Posted(q) => Posted(q)'
  <2>1. PlanFits(q) => PlanFits(q)'
    BY <1>1 DEF PlanFits
  <2>2. GrantForm(q) => GrantForm(q)'
    BY <1>1 DEF GrantForm
  <2>3. NewKeyForm(q) => NewKeyForm(q)'
    BY <1>1 DEF NewKeyForm
  <2>4. EditForm(q) => EditForm(q)'
    BY <1>1 DEF EditForm
  <2> QED
    BY <1>1, <2>1, <2>2, <2>3, <2>4 DEF Posted
<1> QED
  BY <1>1, <1>2, <1>3, <1>5, <1>6, <1>7 DEF Shape

LEMMA EndFrame ==
    ASSUME Control, NEW r \in Requests, NEW from, End(r, from), from # "done",
           kind' = kind, UNCHANGED todo, plan' = plan \/ \E p : plan' = [plan EXCEPT ![r] = p],
           users \subseteq users', DOMAIN keys \subseteq DOMAIN keys'
    PROVE  Frame(r) /\ at[r] = from /\ at'[r] = "done" /\ Empty(r)'
BY DEF Control, End, Goto, Frame, Empty, States

LEMMA GotoFrame ==
    ASSUME Control, NEW r \in Requests, NEW from, NEW to \in States, Goto(r, from, to), from # "done",
           kind' = kind, UNCHANGED <<people, plan>>, loop' = loop \/ TakeLoop(r),
           read' = read \/ \E x : read' = [read EXCEPT ![r] = x],
           draft' = draft \/ \E x : draft' = [draft EXCEPT ![r] = x],
           fresh' = fresh \/ \E x : fresh' = [fresh EXCEPT ![r] = x],
           todo' = todo \/ \E x : todo' = [todo EXCEPT ![r] = x]
    PROVE  Frame(r) /\ at[r] = from /\ at'[r] = to
BY DEF Control, Goto, TakeLoop, Frame, people

LEMMA InventoryFrame ==
    ASSUME Control, NEW r \in Requests, InventoryStep(r), UNCHANGED setup, kind' = kind
    PROVE  Frame(r)
<1>0. UNCHANGED <<people, users, keys, plan>>
  BY DEF setup, people
<1>1. CASE Refuse(r) \/ UpdateSource(r) \/ DeleteSource(r) \/ Upsert(r) \/ SyncCommit(r) \/ SaveModels(r)
  BY <1>0, <1>1, EndFrame DEF Refuse, UpdateSource, DeleteSource, Upsert, SyncCommit, SaveModels
<1>2. CASE LoadSource(r) \/ CheckName(r) \/ LoadAll(r) \/ ShowModels(r) \/ PostModels(r)
  BY <1>0, <1>2, GotoFrame DEF LoadSource, CheckName, LoadAll, ShowModels, PostModels, States
<1>3. CASE PostSync(r) \/ AutoSync(r) \/ WizardSync(r)
  BY <1>0, <1>3, GotoFrame DEF PostSync, AutoSync, WizardSync, BeginSync, States
<1>4. CASE SaveAll(r)
  BY <1>0, <1>4, GotoFrame, EndFrame DEF SaveAll, States
<1>5. CASE SyncSource(r)
  BY <1>0, <1>5 DEF SyncSource, Frame, Control
<1> QED
  BY <1>1, <1>2, <1>3, <1>4, <1>5 DEF InventoryStep

LEMMA AliasFrame ==
    ASSUME Control, NEW r \in Requests, AliasStep(r), UNCHANGED setup, kind' = kind
    PROVE  Frame(r)
<1>0. UNCHANGED <<people, users, keys, plan>>
  BY DEF setup, people
<1>1. CASE CommitAlias(r) \/ DeleteAlias(r)
  BY <1>0, <1>1, EndFrame DEF CommitAlias, DeleteAlias
<1>2. CASE LoadAlias(r) \/ PostNewAlias(r) \/ PostAlias(r)
  BY <1>0, <1>2, GotoFrame DEF LoadAlias, PostNewAlias, PostAlias, States
<1> QED
  BY <1>1, <1>2 DEF AliasStep

\* A form that has arrived about grants or keys.
LEMMA PostFrame ==
    ASSUME Control, NEW r \in Requests, NEW from, Post(r, from), from # "done", kind' = kind,
           NEW w, NEW t, NEW n, NEW c, NEW p, Planned(r, w, t, n, c, p),
           read' = read \/ \E x : read' = [read EXCEPT ![r] = x],
           draft' = draft \/ \E x : draft' = [draft EXCEPT ![r] = x]
    PROVE  /\ Frame(r) /\ at[r] = from /\ at'[r] = "posted" /\ loop' = r
           /\ UNCHANGED <<inventory, grants, people, fresh>>
           /\ plan'[r] = [who |-> w, ticked |-> {t}, sources |-> n, cut |-> c, pairs |-> p]
BY DEF Control, Post, Planned, Goto, TakeLoop, Frame, people, States

LEMMA CommitDomains ==
    ASSUME NEW r, Commit(r)
    PROVE  users \subseteq users' /\ DOMAIN keys \subseteq DOMAIN keys'
<1>1. CASE UNCHANGED <<grants, people>>
  BY <1>1 DEF people
<1>2. CASE users' = IF kind[r] = "user" THEN users \cup {r} ELSE users
  <2>1. keys' = Beside(Updated(keys, read[r], draft[r]), draft[r]) \/ keys' = keys
    BY DEF Commit, people
  <2> QED
    BY <1>2, <2>1 DEF Beside, Updated
<1> QED
  BY <1>1, <1>2 DEF Commit

LEMMA GrantFrame ==
    ASSUME Control, NEW r \in Requests, GrantStep(r), kind' = kind
    PROVE  Frame(r)
<1>1. CASE Commit(r)
  BY <1>1, CommitDomains, EndFrame DEF Commit
<1>2. CASE DeleteTeam(r)
  BY <1>2, EndFrame DEF DeleteTeam
<1>3. CASE RotateKey(r) \/ RevokeKey(r)
  BY <1>3, EndFrame DEF RotateKey, RevokeKey, SaveKey, Updated
<1>4. CASE SetAccess(r) \/ SetRouting(r)
  BY <1>4, EndFrame DEF SetAccess, SetRouting, people
<1>5. CASE LoadSettings(r) \/ LoadGrants(r) \/ LoadKey(r)
  BY <1>5, GotoFrame DEF LoadSettings, LoadGrants, LoadKey, States
<1>6. CASE PostAdd(r) \/ PostModelList(r) \/ PostRemove(r)
  BY <1>6, PostFrame DEF PostAdd, PostModelList, PostRemove
<1>7. CASE PostUser(r) \/ PostDefault(r) \/ PostTeam(r)
  BY <1>7, PostFrame DEF PostUser, PostDefault, PostTeam
<1>8. CASE PostKey(r) \/ PostSetupKey(r)
  BY <1>8, PostFrame DEF PostKey, PostSetupKey, PlanKey
<1>9. CASE PostTeamKey(r)
  BY <1>9, PostFrame DEF PostTeamKey, PlanKey
<1>10. CASE PostOwnKey(r)
  BY <1>10, PostFrame DEF PostOwnKey, PlanKey
<1>11. CASE Register(r)
  BY <1>11, EndFrame DEF Register
<1> QED
  BY <1>1, <1>2, <1>3, <1>4, <1>5, <1>6, <1>7, <1>8, <1>9, <1>10, <1>11 DEF GrantStep

CallStep(r) == Route(r) \/ RouteNamed(r) \/ Unresolved(r) \/ Authorize(r) \/ Reach(r)

LEMMA CallFrame ==
    ASSUME Control, NEW r \in Requests, CallStep(r), kind' = kind
    PROVE  /\ Frame(r) /\ UNCHANGED <<inventory, grants, aliases, setup>>
           /\ kind[r] = "call" /\ at'[r] \in {"routed", "authorized", "done"}
           /\ UNCHANGED <<read, draft, fresh>> \/ Empty(r)'
<1>1. CASE Route(r) \/ RouteNamed(r)
  BY <1>1, GotoFrame DEF Route, RouteNamed, Prepare, setup, people, States
<1>2. CASE Unresolved(r) \/ Reach(r)
  BY <1>2, EndFrame DEF Unresolved, Reach, setup, people
<1>3. CASE Authorize(r)
  BY <1>3, EndFrame, GotoFrame DEF Authorize, setup, people, States
<1> QED
  BY <1>1, <1>2, <1>3 DEF CallStep

LEMMA StepFrame ==
    ASSUME Control, NEW r \in Requests, Step(r), kind' = kind
    PROVE  Frame(r)
BY InventoryFrame, AliasFrame, GrantFrame, CallFrame DEF Step, CallStep
------------------------------------------------------------------------------
(* Saving the names of sources. *)

\* A form that gives as many names as it has sources gives no name twice.
LEMMA NamesDistinct ==
    ASSUME NEW new, Table(new, Source),
           Cardinality({new[i].name : i \in DOMAIN new}) = Cardinality(DOMAIN new)
    PROVE  \A i, j \in DOMAIN new : new[i].name = new[j].name => i = j
<1> DEFINE names == {new[i].name : i \in DOMAIN new}
           f == [i \in DOMAIN new |-> new[i].name]
<1>1. f \in Surjection(DOMAIN new, names)
  BY DEF Surjection
<1>2. IsFiniteSet(DOMAIN new)
  BY TableFinite
<1>3. f \in Injection(DOMAIN new, names)
  BY <1>1, <1>2, FS_Surjection
<1> QED
  BY <1>3 DEF Injection, IsInjective

\* Names are renamed to what the form has for the sources that had them.
NamesFrom(r, new) ==
    /\ DOMAIN NewNames(r, new) = {read[r][i].name : i \in DOMAIN new}
    /\ \A n \in DOMAIN NewNames(r, new) :
          \E i \in DOMAIN new : read[r][i].name = n /\ NewNames(r, new)[n] = new[i].name

LEMMA NewNameOfSource ==
    ASSUME NEW r, NEW new, Table(new, Source), DOMAIN new \subseteq DOMAIN read[r]
    PROVE  /\ NamesFrom(r, new)
           /\ \A n \in Names : Renamed(NewNames(r, new), n) \in Names
<1>1. DOMAIN NewNames(r, new) = {read[r][i].name : i \in DOMAIN new}
  BY DEF NewNames
<1>2. ASSUME NEW n \in DOMAIN NewNames(r, new)
      PROVE  \E i \in DOMAIN new : read[r][i].name = n /\ NewNames(r, new)[n] = new[i].name
  <2> DEFINE i == CHOOSE i \in DOMAIN new : read[r][i].name = n
  <2>1. i \in DOMAIN new /\ read[r][i].name = n
    BY <1>1
  <2>2. NewNames(r, new)[n] = new[i].name
    BY <1>1 DEF NewNames
  <2> QED
    BY <2>1, <2>2
<1>3. \A i \in DOMAIN new : new[i].name \in Names
  BY DEF Table, Source
<1>4. NamesFrom(r, new)
  BY <1>1, <1>2 DEF NamesFrom
<1>5. \A n \in Names : Renamed(NewNames(r, new), n) \in Names
  BY <1>1, <1>2, <1>3 DEF Renamed
<1> QED
  BY <1>4, <1>5

\* Sources that a form renames get its names, and the others keep theirs.
Changed(r, new) == {i \in DOMAIN new : new[i].name # read[r][i].name}

LEMMA NamesAfterSave ==
    ASSUME Tables, NEW r, NEW new, NEW taken, Table(read[r], Source), Table(new, Source),
           DOMAIN new \subseteq DOMAIN read[r], Savable(r, new, taken), SaveSources(r, new)
    PROVE  /\ DOMAIN sources' = DOMAIN sources /\ Changed(r, new) \subseteq DOMAIN sources
           /\ \A i \in DOMAIN sources :
                /\ sources'[i] \in Source
                /\ sources'[i].name =
                     IF i \in Changed(r, new) THEN new[i].name ELSE sources[i].name
<1>1. sources' = Updated(sources, read[r], new)
  BY DEF SaveSources
<1>2. /\ DOMAIN sources' = DOMAIN sources
      /\ \A i \in DOMAIN sources : sources'[i] =
            IF i \in DOMAIN new THEN Flushed(sources[i], read[r][i], new[i]) ELSE sources[i]
  BY <1>1, UpdatedRows
<1>3. Changed(r, new) \subseteq DOMAIN sources
  BY DEF Savable, Changed
<1>4. ASSUME NEW i \in DOMAIN sources
      PROVE  /\ sources'[i] \in Source
             /\ sources'[i].name = IF i \in Changed(r, new) THEN new[i].name ELSE sources[i].name
  <2>1. sources[i] \in Source /\ (i \in DOMAIN new => read[r][i] \in Source /\ new[i] \in Source)
    BY DEF Tables, Table
  <2> QED
    BY <1>2, <2>1, FlushedSource DEF Changed
<1> QED
  BY <1>2, <1>3, <1>4

LEMMA SaveKeepsTables ==
    ASSUME Tables, NEW r, NEW new, NEW taken, Table(read[r], Source), Table(new, Source),
           DOMAIN new \subseteq DOMAIN read[r], Savable(r, new, taken), SaveSources(r, new),
           UNCHANGED aliases
    PROVE  Tables'
<1> DEFINE f == NewNames(r, new)
<1>1. Table(sources, Source)' /\ UniqueNames'
  <2>1. \A i, j \in DOMAIN new : new[i].name = new[j].name => i = j
    BY NamesDistinct DEF Savable
  <2>2. \A i \in Changed(r, new), j \in DOMAIN sources \ Changed(r, new) : sources[j].name # new[i].name
    BY DEF Savable, Changed
  <2>3. Changed(r, new) \subseteq DOMAIN new
    BY DEF Changed
  <2> QED
    BY <2>1, <2>2, <2>3, NamesAfterSave DEF Tables, Table, UniqueNames
<1>2. \A n \in Names : Renamed(f, n) \in Names
  BY NewNameOfSource
<1>3. /\ catalog' = [i \in DOMAIN catalog |-> [catalog[i] EXCEPT !.source = Renamed(f, @)]]
      /\ granted' = [g \in Grantees |-> {Renamed(f, n) : n \in granted[g]}]
      /\ allowed' = [g \in Grantees |-> RenamePairs(f, allowed[g])]
      /\ default' = [sources |-> {Renamed(f, n) : n \in default.sources},
                     pairs   |-> RenamePairs(f, default.pairs)]
  BY DEF SaveSources, RenameRows
<1> HIDE DEF f
<1>4. \A i \in DOMAIN catalog :
        /\ catalog'[i] \in Entry /\ catalog'[i].source = Renamed(f, catalog[i].source)
        /\ catalog'[i].model = catalog[i].model
  BY <1>2, <1>3 DEF Tables, Table, Entry
<1>5. Table(catalog, Entry)'
  BY <1>3, <1>4 DEF Tables, Table
<1>6. UniqueRows'
  <2>1. ~Clash(f)
    BY DEF Savable, f
  <2>2. SUFFICES ASSUME NEW i \in DOMAIN catalog, NEW j \in DOMAIN catalog,
                        catalog'[i].source = catalog'[j].source, catalog'[i].model = catalog'[j].model
                 PROVE  i = j
    BY <1>3 DEF UniqueRows
  <2>3. Renamed(f, catalog[i].source) = Renamed(f, catalog[j].source) /\ catalog[i].model = catalog[j].model
    BY <1>4, <2>2
  <2> QED
    BY <2>1, <2>3 DEF Clash
<1>7. \A S \in SUBSET Pairs : RenamePairs(f, S) \in SUBSET Pairs
  BY <1>2 DEF RenamePairs, Pairs
<1>8. granted' \in [Grantees -> SUBSET Names] /\ allowed' \in [Grantees -> SUBSET Pairs]
  BY <1>2, <1>3, <1>7 DEF Tables
<1>9. default' \in [sources : SUBSET Names, pairs : SUBSET Pairs]
  BY <1>2, <1>3, <1>7 DEF Tables
<1> QED
  BY <1>1, <1>5, <1>6, <1>8, <1>9 DEF Tables

\* What a save has to do with: the form of one source, or of all that were loaded.
SaveOf(r, new, taken) ==
    /\ at[r] = "loaded" /\ Table(read[r], Source) /\ Table(new, Source)
    /\ DOMAIN new \subseteq DOMAIN read[r] /\ Savable(r, new, taken) /\ SaveSources(r, new)

LEMMA NamesOfSave ==
    ASSUME NEW r, NEW new, NEW taken, SaveOf(r, new, taken) PROVE NamesFrom(r, new)
<1>1. Table(new, Source) /\ DOMAIN new \subseteq DOMAIN read[r]
  BY DEF SaveOf
<1> QED
  BY <1>1, NewNameOfSource

LEMMA UpdateSaves ==
    ASSUME NEW r \in Requests, Shape(r), UpdateSource(r)
    PROVE  /\ at[r] = "loaded" /\ Table(read[r], Source)
           /\ \/ UNCHANGED <<inventory, grants>>
              \/ \E i \in DOMAIN read[r], name \in Names, addressed \in BOOLEAN :
                    SaveOf(r, Only(i, [name |-> name, addressed |-> addressed]),
                           SourceNames \ {read[r][i].name})
<1>1. at[r] = "loaded" /\ Table(read[r], Source)
  BY DEF UpdateSource, End, Goto, Shape, Loaded
<1>2. PICK i \in DOMAIN read[r], name \in Names, addressed \in BOOLEAN :
        LET new == Only(i, [name |-> name, addressed |-> addressed])
        IN  IF Savable(r, new, SourceNames \ {read[r][i].name})
            THEN SaveSources(r, new) ELSE UNCHANGED <<inventory, grants>>
  BY DEF UpdateSource
<1>3. [name |-> name, addressed |-> addressed] \in Source /\ i \in Ids
  BY <1>1 DEF Source, Table
<1>4. /\ Table(Only(i, [name |-> name, addressed |-> addressed]), Source)
      /\ DOMAIN Only(i, [name |-> name, addressed |-> addressed]) = {i}
  BY <1>3, TableOfOne
<1> QED
  BY <1>1, <1>2, <1>4 DEF SaveOf

LEMMA SaveAllSaves ==
    ASSUME NEW r \in Requests, Shape(r), SaveAll(r)
    PROVE  /\ at[r] = "loaded" /\ Table(read[r], Source)
           /\ \/ UNCHANGED <<inventory, grants>> /\ End(r, "loaded")
              \/ \E new : /\ DOMAIN new = DOMAIN read[r]
                          /\ SaveOf(r, new, {sources[i].name : i \in DOMAIN sources \ DOMAIN new})
                          /\ Goto(r, "loaded", "saved") /\ read' = [read EXCEPT ![r] = <<>>]
                          /\ UNCHANGED <<loop, draft, fresh>>
<1>1. at[r] = "loaded" /\ Table(read[r], Source)
  BY DEF SaveAll, Shape, Loaded
<1>2. PICK name \in [DOMAIN read[r] -> Names] :
        LET new == [i \in DOMAIN read[r] |-> [read[r][i] EXCEPT !.name = name[i]]]
            taken == {sources[i].name : i \in DOMAIN sources \ DOMAIN new}
        IN  \/ /\ Savable(r, new, taken) /\ SaveSources(r, new)
               /\ Goto(r, "loaded", "saved") /\ read' = [read EXCEPT ![r] = <<>>]
               /\ UNCHANGED <<loop, draft, fresh>>
            \/ /\ ~Savable(r, new, taken) /\ End(r, "loaded")
               /\ UNCHANGED <<inventory, grants>>
  BY DEF SaveAll
<1> DEFINE new == [i \in DOMAIN read[r] |-> [read[r][i] EXCEPT !.name = name[i]]]
<1>3. DOMAIN new = DOMAIN read[r] /\ \A i \in DOMAIN new : new[i] \in Source
  BY <1>1 DEF Table, Source
<1>4. Table(new, Source)
  BY <1>1, <1>3 DEF Table
<1> QED
  BY <1>1, <1>2, <1>3, <1>4 DEF SaveOf

LEMMA SavedTables ==
    ASSUME Tables, UNCHANGED aliases, NEW r,
           UNCHANGED <<inventory, grants>> \/ \E new, taken : SaveOf(r, new, taken)
    PROVE  Tables'
<1>1. CASE UNCHANGED <<inventory, grants>>
  BY <1>1 DEF Tables, UniqueNames, UniqueRows, inventory, grants
<1>2. CASE \E new, taken : SaveOf(r, new, taken)
  BY <1>2, SaveKeepsTables DEF SaveOf
<1> QED
  BY <1>1, <1>2

LEMMA DeletedTables ==
    ASSUME Tables, UNCHANGED aliases, NEW r \in Requests, DeleteSource(r)
    PROVE  Tables'
<1>1. /\ sources' = Restrict(sources, DOMAIN sources \ DOMAIN read[r])
      /\ UNCHANGED <<catalog, granted, allowed, default>>
  BY DEF DeleteSource, grants
<1>2. Table(sources', Source) /\ UniqueNames'
  BY <1>1, PartOfTable DEF Tables, UniqueNames
<1> QED
  BY <1>1, <1>2 DEF Tables, UniqueRows

LEMMA UpsertedTables ==
    ASSUME Tables, UNCHANGED aliases, NEW r \in Requests, Shape(r), Upsert(r)
    PROVE  Tables'
<1>1. PICK new \in Source : fresh[r] = <<new>>
  BY DEF Upsert, End, Goto, Shape, Loaded
<1> DEFINE same == {i \in DOMAIN sources : sources[i].name = new.name}
<1>2. /\ sources' = IF same = {} THEN Inserted(sources, <<new>>)
                    ELSE [i \in DOMAIN sources |-> IF i \in same THEN new ELSE sources[i]]
      /\ UNCHANGED <<catalog, granted, allowed, default>>
  BY <1>1 DEF Upsert, grants
<1>3. CASE same = {}
  <2>1. PICK rows \in Seq(Source) : rows = <<new>> /\ Len(rows) = 1 /\ rows[1] = new
    BY ShortSequences
  <2>2. Table(sources, Source) /\ sources' = Inserted(sources, rows)
    BY <1>2, <1>3, <2>1 DEF Tables
  <2> DEFINE id == NewId(sources)
  <2>3. id \in Ids
    BY <2>2, NewIdIsNew
  <2>4. /\ Table(sources', Source)
        /\ \A i \in DOMAIN sources : i \in DOMAIN sources' /\ sources'[i] = sources[i]
        /\ \A i \in DOMAIN sources' \ DOMAIN sources :
              i - id + 1 \in 1 .. Len(rows) /\ sources'[i] = rows[i - id + 1]
    BY <2>2, InsertedRows
  <2>5. \A i \in DOMAIN sources' \ DOMAIN sources : i = id /\ sources'[i] = new
    BY <2>1, <2>3, <2>4 DEF Table, Ids
  <2>6. UniqueNames'
    BY <1>3, <2>4, <2>5 DEF Tables, UniqueNames
  <2> QED
    BY <1>2, <2>4, <2>6 DEF Tables, UniqueRows
<1>4. CASE same # {}
  <2>1. /\ DOMAIN sources' = DOMAIN sources
        /\ \A i \in DOMAIN sources : sources'[i] = IF i \in same THEN new ELSE sources[i]
    BY <1>2, <1>4
  <2>2. Table(sources', Source) /\ UniqueNames'
    BY <2>1 DEF Tables, Table, UniqueNames
  <2> QED
    BY <1>2, <2>2 DEF Tables, UniqueRows
<1> QED
  BY <1>3, <1>4

\* A flush of rows of the catalog leaves every row its source and model.
LEMMA FlushedCatalog ==
    ASSUME Tables, NEW r, CatalogRows(r)
    PROVE  LET new == Updated(catalog, read[r], draft[r])
           IN  /\ Table(new, Entry) /\ DOMAIN new = DOMAIN catalog
               /\ \A i \in DOMAIN catalog :
                    /\ new[i].source = catalog[i].source /\ new[i].model = catalog[i].model
                    /\ new[i].disabled_by =
                         IF i \in DOMAIN draft[r] /\ draft[r][i].disabled_by # read[r][i].disabled_by
                         THEN draft[r][i].disabled_by ELSE catalog[i].disabled_by
<1> DEFINE new == Updated(catalog, read[r], draft[r])
<1>1. /\ DOMAIN new = DOMAIN catalog
      /\ \A i \in DOMAIN catalog : new[i] =
            IF i \in DOMAIN draft[r] THEN Flushed(catalog[i], read[r][i], draft[r][i]) ELSE catalog[i]
  BY UpdatedRows
<1>2. \A i \in DOMAIN catalog : catalog[i] \in Entry
  BY DEF Tables, Table
<1>3. \A i \in DOMAIN draft[r] :
        /\ read[r][i] \in Entry /\ draft[r][i] \in Entry
        /\ draft[r][i].source = read[r][i].source /\ draft[r][i].model = read[r][i].model
  BY DEF CatalogRows, Table
<1>4. ASSUME NEW i \in DOMAIN catalog
      PROVE  /\ new[i] \in Entry
             /\ new[i].source = catalog[i].source /\ new[i].model = catalog[i].model
             /\ new[i].disabled_by =
                  IF i \in DOMAIN draft[r] /\ draft[r][i].disabled_by # read[r][i].disabled_by
                  THEN draft[r][i].disabled_by ELSE catalog[i].disabled_by
  BY <1>1, <1>2, <1>3, FlushedEntry
<1> HIDE DEF new
<1>5. Table(new, Entry)
  BY <1>1, <1>4 DEF Table, Tables
<1> QED
  BY <1>1, <1>4, <1>5 DEF new

LEMMA SyncedTables ==
    ASSUME Tables, UNCHANGED aliases, NEW r \in Requests, Synced(r), SyncCommit(r)
    PROVE  Tables'
<1> DEFINE flushed == Updated(catalog, read[r], draft[r])
           known(e) == \E i \in DOMAIN catalog : catalog[i].source = e.source /\ catalog[i].model = e.model
           clash == \E e \in ToSet(fresh[r]) : known(e)
<1>1. /\ catalog' = IF clash THEN catalog ELSE Inserted(flushed, fresh[r])
      /\ UNCHANGED <<sources, granted, allowed, default>>
  BY DEF SyncCommit, grants
<1>2. CASE clash
  BY <1>1, <1>2 DEF Tables, UniqueNames, UniqueRows
<1>3. CASE ~clash
  <2>1. /\ Table(flushed, Entry) /\ DOMAIN flushed = DOMAIN catalog
        /\ \A i \in DOMAIN catalog :
             flushed[i].source = catalog[i].source /\ flushed[i].model = catalog[i].model
    BY FlushedCatalog DEF Synced
  <2>2. fresh[r] \in Seq(Entry)
    BY DEF Synced
  <2> DEFINE id == NewId(flushed)
  <2> HIDE DEF flushed
  <2>3. /\ Table(Inserted(flushed, fresh[r]), Entry)
        /\ \A i \in DOMAIN flushed : /\ i \in DOMAIN Inserted(flushed, fresh[r])
                                     /\ Inserted(flushed, fresh[r])[i] = flushed[i]
        /\ \A i \in DOMAIN Inserted(flushed, fresh[r]) \ DOMAIN flushed :
              /\ i - id + 1 \in 1 .. Len(fresh[r])
              /\ Inserted(flushed, fresh[r])[i] = fresh[r][i - id + 1]
    BY <2>1, <2>2, InsertedRows
  <2>4. catalog' = Inserted(flushed, fresh[r])
    BY <1>1, <1>3
  <2>5. \A j \in 1 .. Len(fresh[r]) : ~known(fresh[r][j])
    <3>1. \A j \in 1 .. Len(fresh[r]) : fresh[r][j] \in ToSet(fresh[r])
      BY <2>2 DEF ToSet
    <3> QED
      BY <1>3, <3>1
  <2>6. ASSUME NEW i \in DOMAIN catalog', NEW j \in DOMAIN catalog',
               catalog'[i].source = catalog'[j].source, catalog'[i].model = catalog'[j].model
        PROVE  i = j
    <3>1. CASE i \in DOMAIN catalog /\ j \in DOMAIN catalog
      BY <3>1, <2>1, <2>3, <2>4, <2>6 DEF Tables, UniqueRows
    <3>2. CASE i \in DOMAIN catalog /\ j \notin DOMAIN catalog
      BY <3>2, <2>1, <2>3, <2>4, <2>5, <2>6
    <3>3. CASE i \notin DOMAIN catalog /\ j \in DOMAIN catalog
      BY <3>3, <2>1, <2>3, <2>4, <2>5, <2>6
    <3>4. CASE i \notin DOMAIN catalog /\ j \notin DOMAIN catalog
      <4>1. /\ i - id + 1 \in 1 .. Len(fresh[r]) /\ catalog'[i] = fresh[r][i - id + 1]
            /\ j - id + 1 \in 1 .. Len(fresh[r]) /\ catalog'[j] = fresh[r][j - id + 1]
        BY <3>4, <2>1, <2>3, <2>4
      <4>2. i - id + 1 = j - id + 1
        BY <4>1, <2>6 DEF Synced
      <4>3. i \in Nat /\ j \in Nat /\ id \in Nat
        BY <2>1, <2>3, <2>4, NewIdIsNew DEF Table, Ids
      <4> QED
        BY <4>2, <4>3
    <3> QED
      BY <3>1, <3>2, <3>3, <3>4
  <2>7. Table(catalog', Entry) /\ UniqueRows'
    BY <2>3, <2>4, <2>6 DEF UniqueRows
  <2> QED
    BY <1>1, <2>7 DEF Tables, UniqueNames
<1> QED
  BY <1>2, <1>3

LEMMA ModelsTables ==
    ASSUME Tables, UNCHANGED aliases, NEW r \in Requests, CatalogRows(r), SaveModels(r)
    PROVE  Tables'
<1>1. /\ catalog' = Updated(catalog, read[r], draft[r])
      /\ UNCHANGED <<sources, granted, allowed, default>>
  BY DEF SaveModels, grants
<1>2. Table(catalog', Entry) /\ UniqueRows'
  BY <1>1, FlushedCatalog DEF Tables, UniqueRows
<1> QED
  BY <1>1, <1>2 DEF Tables, UniqueNames

LEMMA AliasTables ==
    ASSUME Tables, NEW r \in Requests, Shape(r), CommitAlias(r) \/ DeleteAlias(r)
    PROVE  Tables'
<1>1. UNCHANGED <<sources, catalog, granted, allowed, default>>
  BY DEF CommitAlias, DeleteAlias, inventory, grants
<1>2. CASE CommitAlias(r)
  <2>1. at[r] = "posted" /\ kind[r] \in {"alias_add", "alias_save"}
    BY <1>2 DEF CommitAlias, End, Goto
  <2>2. fresh[r] \in Seq(Alias)
    BY <2>1, ShortSequences DEF Shape, Posted, GrantKinds, NewKeys
  <2>3. \A i \in DOMAIN draft[r] : read[r][i] \in Alias /\ draft[r][i] \in Alias
    BY <2>1, EmptyTable DEF Shape, Posted, GrantKinds, NewKeys, Table
  <2>4. Table(Updated(aliases, read[r], draft[r]), Alias)
    <3>1. \A i \in DOMAIN aliases \cap DOMAIN draft[r] :
             Flushed(aliases[i], read[r][i], draft[r][i]) \in Alias
      BY <2>3, FlushedAlias DEF Tables, Table
    <3> QED
      BY <3>1, UpdatedTable DEF Tables
  <2>5. Table(aliases, Alias)'
    BY <1>2, <2>2, <2>4, InsertedRows DEF CommitAlias
  <2> QED
    BY <1>1, <2>5 DEF Tables, UniqueNames, UniqueRows
<1>3. CASE DeleteAlias(r)
  <2>1. Table(aliases, Alias)'
    BY <1>3, PartOfTable DEF DeleteAlias, Tables
  <2> QED
    BY <1>1, <2>1 DEF Tables, UniqueNames, UniqueRows
<1> QED
  BY <1>2, <1>3
------------------------------------------------------------------------------
(* What a request has loaded and drafted about the inventory. *)

LEMMA BesideTable ==
    ASSUME NEW f, NEW g, NEW S, Table(f, S), Table(g, S)
    PROVE  /\ Table(Beside(f, g), S) /\ DOMAIN Beside(f, g) = DOMAIN f \cup DOMAIN g
           /\ \A i \in DOMAIN f \cup DOMAIN g :
                 Beside(f, g)[i] = IF i \in DOMAIN f THEN f[i] ELSE g[i]
<1>1. /\ DOMAIN Beside(f, g) = DOMAIN f \cup DOMAIN g
      /\ \A i \in DOMAIN f \cup DOMAIN g :
            Beside(f, g)[i] = IF i \in DOMAIN f THEN f[i] ELSE g[i]
  BY DEF Beside
<1>2. PICK a \in Nat, b \in Nat :
        (\A i \in DOMAIN f : i <= a) /\ (\A i \in DOMAIN g : i <= b)
  BY DEF Table
<1>3. DOMAIN f \subseteq Nat /\ DOMAIN g \subseteq Nat
  BY DEF Table, Ids
<1>4. a + b \in Nat /\ \A i \in DOMAIN f \cup DOMAIN g : i <= a + b
  BY <1>2, <1>3
<1>5. \A i \in DOMAIN f \cup DOMAIN g : Beside(f, g)[i] \in S /\ i \in Ids
  BY <1>1 DEF Table
<1> QED
  BY <1>1, <1>4, <1>5 DEF Table

LEMMA LeastElement ==
    ASSUME NEW S \in SUBSET Nat, S # {}
    PROVE  Min(S) \in S
BY LeastNatural DEF Min

LEMMA SequenceOfSet ==
    ASSUME NEW S, IsFiniteSet(S)
    PROVE  /\ SetToSeq(S) \in Seq(S) /\ Len(SetToSeq(S)) \in Nat
           /\ \A i, j \in 1 .. Len(SetToSeq(S)) : SetToSeq(S)[i] = SetToSeq(S)[j] => i = j
<1> DEFINE n == Cardinality(S)
<1>1. n \in Nat /\ \E f \in [1 .. n -> S] : IsInjective(f)
  BY FS_CardinalityType DEF ExistsBijection, Bijection, Injection
<1>2. SetToSeq(S) \in [1 .. n -> S] /\ IsInjective(SetToSeq(S))
  BY <1>1 DEF SetToSeq
<1> HIDE DEF n
<1>3. SetToSeq(S) \in Seq(S) /\ Len(SetToSeq(S)) = n
  BY <1>1, <1>2
<1> QED
  BY <1>1, <1>2, <1>3 DEF IsInjective

LEMMA FoundRow ==
    ASSUME NEW row \in Entry
    PROVE  /\ Found(row) \in Entry /\ Found(row).source = row.source /\ Found(row).model = row.model
           /\ row.disabled_by = "admin" => Found(row).disabled_by = "admin"
BY DEF Found, Entry

LEMMA MissingRow ==
    ASSUME NEW row \in Entry
    PROVE  /\ Missing(row) \in Entry /\ Missing(row).source = row.source /\ Missing(row).model = row.model
           /\ row.disabled_by = "admin" => Missing(row).disabled_by = "admin"
BY DEF Missing, Entry

\* The rows a synchronisation adds for one source.
LEMMA NewRows ==
    ASSUME NEW name \in Names, NEW new \in SUBSET Models
    PROVE  LET rows == SetToSeq({[source |-> name, model |-> m, enabled |-> TRUE, disabled_by |-> "",
                                  tags |-> "inferred"] : m \in new})
           IN  /\ rows \in Seq(Entry) /\ \A i \in 1 .. Len(rows) : rows[i].source = name
               /\ \A i, j \in 1 .. Len(rows) : rows[i].model = rows[j].model => i = j
<1> DEFINE Row(m) == [source |-> name, model |-> m, enabled |-> TRUE, disabled_by |-> "", tags |-> "inferred"]
           S == {Row(m) : m \in new}
           f == [m \in new |-> Row(m)]
           rows == SetToSeq(S)
<1>1. IsFiniteSet(new)
  BY InventoryAssumption, FS_Subset DEF InventoryAssumption
<1>2. f \in Surjection(new, S)
  BY DEF Surjection
<1>3. IsFiniteSet(S)
  BY <1>1, <1>2, FS_Surjection
<1>4. \A m \in new : Row(m) \in Entry /\ Row(m).source = name /\ Row(m).model = m
  BY DEF Entry
<1> HIDE DEF Row
<1>5. /\ \A e \in S : e \in Entry /\ e.source = name
      /\ \A e, d \in S : e.model = d.model => e = d
  BY <1>4
<1> HIDE DEF S
<1>6. /\ rows \in Seq(S) /\ Len(rows) \in Nat
      /\ \A i, j \in 1 .. Len(rows) : rows[i] = rows[j] => i = j
  BY <1>3, SequenceOfSet
<1> HIDE DEF rows
<1>7. \A i \in 1 .. Len(rows) : rows[i] \in S
  BY <1>6
<1>8. rows \in Seq(Entry)
  BY <1>5, <1>6, <1>7
<1>9. /\ \A i \in 1 .. Len(rows) : rows[i].source = name
      /\ \A i, j \in 1 .. Len(rows) : rows[i].model = rows[j].model => i = j
  BY <1>5, <1>6, <1>7
<1> QED
  BY <1>8, <1>9 DEF rows, S, Row

LEMMA SyncKeepsShape ==
    ASSUME Inv, NEW r \in Requests, SyncSource(r)
    PROVE  Synced(r)'
<1>1. Synced(r) /\ at[r] = "syncing" /\ todo[r] # {}
  BY DEF SyncSource, Inv, Shape
<1> DEFINE name == Min(todo[r])
           rows == [i \in Rows(name) |-> IF i \in DOMAIN draft[r] THEN draft[r][i] ELSE catalog[i]]
<1>2. PICK l \in Listings :
        LET found == {i \in DOMAIN rows : rows[i].model \in l.models}
            gone == IF switch[r] /\ l.ok THEN {i \in DOMAIN rows \ found : Missing(rows[i]) # rows[i]} ELSE {}
            new == l.models \ {rows[i].model : i \in found}
        IN  /\ draft' = [draft EXCEPT ![r] =
                   Beside([i \in found \cup gone |->
                               IF i \in found THEN Found(rows[i]) ELSE Missing(rows[i])], @)]
            /\ read' = [read EXCEPT ![r] = Beside(@, Restrict(catalog, found \cup gone))]
            /\ fresh' = [fresh EXCEPT ![r] = @ \o SetToSeq(
                   {[source |-> name, model |-> m, enabled |-> TRUE, disabled_by |-> "",
                     tags |-> "inferred"] : m \in new})]
  BY DEF SyncSource
<1> DEFINE found == {i \in DOMAIN rows : rows[i].model \in l.models}
           gone == IF switch[r] /\ l.ok THEN {i \in DOMAIN rows \ found : Missing(rows[i]) # rows[i]} ELSE {}
           new == l.models \ {rows[i].model : i \in found}
           both == found \cup gone
           kept == [i \in both |-> IF i \in found THEN Found(rows[i]) ELSE Missing(rows[i])]
           seen == Restrict(catalog, both)
           more == SetToSeq({[source |-> name, model |-> m, enabled |-> TRUE, disabled_by |-> "",
                              tags |-> "inferred"] : m \in new})
<1>3. /\ draft'[r] = Beside(kept, draft[r]) /\ read'[r] = Beside(read[r], seen)
      /\ fresh'[r] = fresh[r] \o more /\ todo'[r] = todo[r] \ {name}
  BY <1>2 DEF SyncSource, Inv, Control
<1> HIDE DEF more
<1>4. name \in todo[r] /\ name \in Names
  BY <1>1, LeastElement, InventoryAssumption DEF Synced, InventoryAssumption
<1> HIDE DEF name
<1>5. /\ both \subseteq DOMAIN catalog
      /\ \A i \in both : rows[i] = IF i \in DOMAIN draft[r] THEN draft[r][i] ELSE catalog[i]
  BY DEF Rows
<1>6. /\ Table(read[r], Entry) /\ Table(draft[r], Entry) /\ DOMAIN draft[r] = DOMAIN read[r]
      /\ Table(catalog, Entry)
      /\ \A i \in DOMAIN read[r] : /\ draft[r][i].source = read[r][i].source
                                   /\ draft[r][i].model = read[r][i].model
                                   /\ read[r][i].disabled_by = "admin" => draft[r][i].disabled_by = "admin"
  BY <1>1 DEF Synced, CatalogRows, Inv, Tables
<1>7. \A i \in both : rows[i] \in Entry
  BY <1>5, <1>6 DEF Table
<1> HIDE DEF rows, gone
<1>8. /\ DOMAIN kept = both
      /\ \A i \in both :
           /\ kept[i] \in Entry /\ kept[i].source = rows[i].source /\ kept[i].model = rows[i].model
           /\ rows[i].disabled_by = "admin" => kept[i].disabled_by = "admin"
  BY <1>7, FoundRow, MissingRow
<1>9. new \in SUBSET Models
  <2>1. l.models \subseteq Models
    <3>1. CASE l \in [ok : {TRUE}, models : SUBSET Models]
      BY <3>1
    <3>2. CASE l = [ok |-> FALSE, models |-> {}]
      BY <3>2
    <3> QED
      BY <3>1, <3>2 DEF Listings
  <2> QED
    BY <2>1
<1> HIDE DEF found, both, kept, new
<1>10. /\ Table(seen, Entry) /\ DOMAIN seen = both /\ \A i \in both : seen[i] = catalog[i]
  BY <1>5, <1>6, PartOfTable
<1>11. Table(kept, Entry)
  BY <1>8, <1>10 DEF Table
<1> HIDE DEF seen
<1>12. /\ Table(draft'[r], Entry) /\ DOMAIN draft'[r] = both \cup DOMAIN draft[r]
       /\ \A i \in both \cup DOMAIN draft[r] :
            draft'[r][i] = IF i \in both THEN kept[i] ELSE draft[r][i]
  <2>0. Table(draft[r], Entry)
    BY <1>6
  <2>1. /\ Table(Beside(kept, draft[r]), Entry)
        /\ DOMAIN Beside(kept, draft[r]) = DOMAIN kept \cup DOMAIN draft[r]
        /\ \A i \in DOMAIN kept \cup DOMAIN draft[r] :
             Beside(kept, draft[r])[i] = IF i \in DOMAIN kept THEN kept[i] ELSE draft[r][i]
    <3>1. Table(Beside(kept, draft[r]), Entry)
      BY <2>0, <1>11, BesideTable, ZenonT(30)
    <3>2. DOMAIN Beside(kept, draft[r]) = DOMAIN kept \cup DOMAIN draft[r]
      BY DEF Beside
    <3>3. \A i \in DOMAIN kept \cup DOMAIN draft[r] :
             Beside(kept, draft[r])[i] = IF i \in DOMAIN kept THEN kept[i] ELSE draft[r][i]
      BY DEF Beside
    <3> QED
      BY <3>1, <3>2, <3>3
  <2> QED
    BY <1>3, <1>8, <2>1
<1>13. /\ Table(read'[r], Entry) /\ DOMAIN read'[r] = both \cup DOMAIN read[r]
       /\ \A i \in both \cup DOMAIN read[r] :
            read'[r][i] = IF i \in DOMAIN read[r] THEN read[r][i] ELSE catalog[i]
  <2>1. /\ Table(Beside(read[r], seen), Entry)
        /\ DOMAIN Beside(read[r], seen) = DOMAIN read[r] \cup DOMAIN seen
        /\ \A i \in DOMAIN read[r] \cup DOMAIN seen :
             Beside(read[r], seen)[i] = IF i \in DOMAIN read[r] THEN read[r][i] ELSE seen[i]
    <3>1. Table(Beside(read[r], seen), Entry)
      BY <1>6, <1>10, BesideTable, Zenon
    <3> QED
      BY <3>1 DEF Beside
  <2> QED
    BY <1>3, <1>10, <2>1
<1>14. \A i \in DOMAIN read'[r] :
         /\ draft'[r][i].source = read'[r][i].source /\ draft'[r][i].model = read'[r][i].model
         /\ read'[r][i].disabled_by = "admin" => draft'[r][i].disabled_by = "admin"
  BY <1>5, <1>6, <1>8, <1>12, <1>13
<1>15. CatalogRows(r)'
  BY <1>6, <1>12, <1>13, <1>14 DEF CatalogRows
<1>16. /\ more \in Seq(Entry) /\ \A i \in 1 .. Len(more) : more[i].source = name
       /\ \A i, j \in 1 .. Len(more) : more[i].model = more[j].model => i = j
  BY <1>4, <1>9, NewRows DEF more
<1>17. fresh[r] \in Seq(Entry) /\ Len(fresh[r]) \in Nat /\ Len(more) \in Nat
  BY <1>1, <1>16 DEF Synced
<1>18. /\ fresh'[r] \in Seq(Entry) /\ Len(fresh'[r]) = Len(fresh[r]) + Len(more)
       /\ \A i \in 1 .. Len(fresh'[r]) :
            IF i <= Len(fresh[r]) THEN i \in 1 .. Len(fresh[r]) /\ fresh'[r][i] = fresh[r][i]
            ELSE i - Len(fresh[r]) \in 1 .. Len(more) /\ fresh'[r][i] = more[i - Len(fresh[r])]
  BY <1>3, <1>16, <1>17
<1>19. /\ \A i \in 1 .. Len(fresh[r]) : fresh[r][i].source \notin todo[r]
       /\ \A i, j \in 1 .. Len(fresh[r]) :
            fresh[r][i].source = fresh[r][j].source /\ fresh[r][i].model = fresh[r][j].model => i = j
       /\ todo[r] \subseteq Names
  BY <1>1 DEF Synced
<1>20. \A i \in 1 .. Len(fresh'[r]) :
         IF i <= Len(fresh[r]) THEN fresh'[r][i].source \notin todo[r] ELSE fresh'[r][i].source = name
  <2> SUFFICES ASSUME NEW i \in 1 .. Len(fresh'[r])
               PROVE  IF i <= Len(fresh[r]) THEN fresh'[r][i].source \notin todo[r]
                      ELSE fresh'[r][i].source = name
    OBVIOUS
  <2>1. CASE i <= Len(fresh[r])
    <3>1. i \in 1 .. Len(fresh[r]) /\ fresh'[r][i] = fresh[r][i]
      BY <2>1, <1>18
    <3> QED
      BY <2>1, <3>1, <1>19
  <2>2. CASE ~(i <= Len(fresh[r]))
    <3>1. i - Len(fresh[r]) \in 1 .. Len(more) /\ fresh'[r][i] = more[i - Len(fresh[r])]
      BY <2>2, <1>18
    <3> QED
      BY <2>2, <3>1, <1>16
  <2> QED
    BY <2>1, <2>2
<1>21. ASSUME NEW i \in 1 .. Len(fresh'[r]), NEW j \in 1 .. Len(fresh'[r]),
              fresh'[r][i].source = fresh'[r][j].source, fresh'[r][i].model = fresh'[r][j].model
       PROVE  i = j
  <2>1. CASE i <= Len(fresh[r]) /\ j <= Len(fresh[r])
    BY <2>1, <1>18, <1>19, <1>21
  <2>2. CASE i <= Len(fresh[r]) /\ ~(j <= Len(fresh[r]))
    BY <2>2, <1>4, <1>20, <1>21
  <2>3. CASE ~(i <= Len(fresh[r])) /\ j <= Len(fresh[r])
    BY <2>3, <1>4, <1>20, <1>21
  <2>4. CASE ~(i <= Len(fresh[r])) /\ ~(j <= Len(fresh[r]))
    <3>1. i - Len(fresh[r]) = j - Len(fresh[r])
      BY <2>4, <1>16, <1>18, <1>21
    <3> QED
      BY <3>1, <1>17
  <2> QED
    BY <2>1, <2>2, <2>3, <2>4
<1>22. todo'[r] \subseteq Names /\ \A i \in 1 .. Len(fresh'[r]) : fresh'[r][i].source \notin todo'[r]
  BY <1>3, <1>19, <1>20
<1> QED
  BY <1>14, <1>15, <1>18, <1>21, <1>22 DEF Synced

------------------------------------------------------------------------------
(* Each step keeps the shape of its own request. *)

LEMMA DoneShape ==
    ASSUME NEW r, at'[r] = "done", Empty(r)', plan'[r] = NoPlan
    PROVE  Shape(r)'
BY DEF Shape

LEMMA PeopleStay ==
    ASSUME People, NEW r \in Requests, Frame(r), UNCHANGED people
    PROVE  People'
<1>1. UNCHANGED <<users, teams, keys, kind>>
  BY DEF Frame, people
<1>2. KeyRows'
  BY <1>1 DEF KeyRows, People, Frame
<1> QED
  BY <1>1, <1>2 DEF People, Frame

LEMMA SaveAllShape ==
    ASSUME Inv, NEW r \in Requests, SaveAll(r), UNCHANGED setup, kind' = kind
    PROVE  Shape(r)'
<1>1. Shape(r) /\ UNCHANGED plan /\ plan[r] = NoPlan /\ kind[r] = "save_all"
  BY DEF Inv, Shape, setup, SaveAll
<1>2. CASE End(r, "loaded")
  <2>1. at'[r] = "done" /\ Empty(r)'
    BY <1>2 DEF Inv, Control, End, Goto, Empty
  <2> QED
    BY <1>1, <2>1, DoneShape
<1>3. CASE /\ Goto(r, "loaded", "saved") /\ read' = [read EXCEPT ![r] = <<>>]
           /\ UNCHANGED <<loop, draft, fresh>>
  <2>1. at'[r] = "saved" /\ read'[r] = <<>> /\ draft'[r] = draft[r] /\ fresh'[r] = fresh[r]
    BY <1>3 DEF Inv, Control, Goto
  <2>2. draft[r] = <<>> /\ fresh[r] = <<>>
    BY <1>1, <1>3 DEF Shape, Loaded, Goto
  <2> QED
    BY <1>1, <2>1, <2>2 DEF Shape, Empty
<1> QED
  BY <1>1, <1>2, <1>3, SaveAllSaves

LEMMA BeginSyncShape ==
    ASSUME Inv, NEW r \in Requests, NEW from \in {"new", "saved"}, BeginSync(r, from),
           kind[r] \in {"sync", "auto_sync", "save_all"}, UNCHANGED setup, kind' = kind
    PROVE  Shape(r)'
<1>1. /\ at[r] = from /\ at'[r] = "syncing" /\ UNCHANGED <<read, draft, fresh, plan>>
      /\ todo'[r] = {sources[i].name : i \in {j \in DOMAIN sources : sources[j].addressed}}
  BY DEF BeginSync, Inv, Control, Goto, setup
<1>2. Empty(r) /\ plan[r] = NoPlan
  BY <1>1 DEF Inv, Shape
<1>3. \A i \in DOMAIN sources : sources[i].name \in Names
  BY DEF Inv, Tables, Table, Source
<1>4. todo'[r] \subseteq Names
  BY <1>1, <1>3
<1>5. CatalogRows(r)'
  BY <1>1, <1>2, EmptyTable DEF Empty, CatalogRows
<1>6. /\ DOMAIN read'[r] = {} /\ fresh'[r] \in Seq(Entry) /\ 1 .. Len(fresh'[r]) = {}
  BY <1>1, <1>2, EmptyTable, ShortSequences DEF Empty
<1>7. Synced(r)'
  BY <1>4, <1>5, <1>6 DEF Synced
<1> QED
  BY <1>1, <1>2, <1>7 DEF Shape
LEMMA LoadShape ==
    ASSUME Inv, NEW r \in Requests, LoadSource(r) \/ CheckName(r) \/ LoadAll(r) \/ ShowModels(r),
           UNCHANGED setup, kind' = kind
    PROVE  Shape(r)'
<1>1. Empty(r) /\ plan[r] = NoPlan /\ plan' = plan
  BY DEF Inv, Shape, LoadSource, CheckName, LoadAll, ShowModels, Goto, setup
<1>2. CASE LoadSource(r)
  <2>1. PICK i \in DOMAIN sources : read' = [read EXCEPT ![r] = Only(i, sources[i])]
    BY <1>2 DEF LoadSource
  <2>2. i \in Ids /\ sources[i] \in Source
    BY DEF Inv, Tables, Table
  <2>3. /\ read'[r] = Only(i, sources[i]) /\ draft'[r] = <<>> /\ fresh'[r] = <<>> /\ at'[r] = "loaded"
        /\ kind'[r] \in {"update", "delete"}
    BY <1>1, <1>2, <2>1 DEF LoadSource, Goto, Inv, Control, Empty
  <2>4. Loaded(r)'
    <3>1. Table(Only(i, sources[i]), Source)
      BY <2>2, TableOfOne
    <3> QED
      BY <2>3, <3>1 DEF Loaded
  <2> QED
    BY <1>1, <2>3, <2>4 DEF Shape
<1>3. CASE CheckName(r)
  <2>1. PICK name \in Names, addressed \in BOOLEAN :
          fresh' = [fresh EXCEPT ![r] = <<[name |-> name, addressed |-> addressed]>>]
    BY <1>3 DEF CheckName
  <2>2. [name |-> name, addressed |-> addressed] \in Source
    BY DEF Source
  <2>3. /\ read'[r] = <<>> /\ draft'[r] = <<>> /\ at'[r] = "loaded" /\ kind'[r] = "create"
        /\ fresh'[r] = <<[name |-> name, addressed |-> addressed]>>
    BY <1>1, <1>3, <2>1 DEF CheckName, Goto, Inv, Control, Empty
  <2>4. Loaded(r)'
    BY <2>2, <2>3 DEF Loaded
  <2> QED
    BY <1>1, <2>3, <2>4 DEF Shape
<1>4. CASE LoadAll(r)
  <2> DEFINE some == {i \in DOMAIN sources : sources[i].addressed}
  <2>1. Table(Restrict(sources, some), Source)
    BY PartOfTable DEF Inv, Tables
  <2>2. /\ read'[r] = Restrict(sources, some) /\ draft'[r] = <<>> /\ fresh'[r] = <<>>
        /\ at'[r] = "loaded" /\ kind'[r] = "save_all"
    BY <1>1, <1>4 DEF LoadAll, Goto, Inv, Control, Empty
  <2> HIDE DEF some
  <2>3. Loaded(r)'
    BY <2>1, <2>2 DEF Loaded
  <2> QED
    BY <1>1, <2>2, <2>3 DEF Shape
<1>5. CASE ShowModels(r)
  <2>1. /\ read'[r] = catalog /\ draft'[r] = <<>> /\ fresh'[r] = <<>>
        /\ at'[r] = "shown" /\ kind'[r] = "models"
    BY <1>1, <1>5 DEF ShowModels, Goto, Inv, Control, Empty
  <2>2. Table(catalog, Entry)
    BY DEF Inv, Tables
  <2> QED
    BY <1>1, <2>1, <2>2 DEF Shape
<1> QED
  BY <1>2, <1>3, <1>4, <1>5

LEMMA MembershipBoolean == ASSUME NEW x, NEW S PROVE (x \in S) \in BOOLEAN
<1>1. CASE x \in S
  BY <1>1
<1>2. CASE ~(x \in S)
  BY <1>2
<1> QED
  BY <1>1, <1>2

\* The form's boxes: a row stays off for the administrator unless its box was
\* shown empty and is ticked.
LEMMA PostModelsShape ==
    ASSUME Inv, NEW r \in Requests, PostModels(r), UNCHANGED setup, kind' = kind
    PROVE  Shape(r)'
<1>1. /\ plan[r] = NoPlan /\ plan' = plan /\ kind'[r] = "models" /\ at'[r] = "loaded"
      /\ fresh'[r] = <<>> /\ read'[r] = catalog /\ Table(read[r], Entry)
  BY DEF Inv, Shape, PostModels, Goto, setup, Control
<1>2. PICK i \in DOMAIN read[r] \cup {0}, edited \in DOMAIN read[r] \cup {0} :
         LET shown == read[r]
             ticked == SymDiff({j \in DOMAIN shown : shown[j].enabled}, {i})
             saved(j) ==
                [catalog[j] EXCEPT
                    !.enabled = j \in ticked,
                    !.disabled_by = IF (j \in ticked) = catalog[j].enabled THEN @
                                    ELSE IF j \in ticked THEN "" ELSE "admin",
                    !.tags = FormTags(r, j, shown, edited)]
         IN  draft' = [draft EXCEPT ![r] = [j \in DOMAIN catalog |-> saved(j)]]
  BY DEF PostModels
<1> DEFINE shown == read[r]
           ticked == SymDiff({j \in DOMAIN shown : shown[j].enabled}, {i})
           saved(j) ==
              [catalog[j] EXCEPT
                  !.enabled = j \in ticked,
                  !.disabled_by = IF (j \in ticked) = catalog[j].enabled THEN @
                                  ELSE IF j \in ticked THEN "" ELSE "admin",
                  !.tags = FormTags(r, j, shown, edited)]
<1>3. draft'[r] = [j \in DOMAIN catalog |-> saved(j)]
  BY <1>2 DEF Inv, Control
<1>4. /\ \A j \in DOMAIN catalog : catalog[j] \in Entry
      /\ Table(catalog, Entry)
  BY DEF Inv, Tables, Table
<1>5. ASSUME NEW j \in DOMAIN catalog
      PROVE  FormTags(r, j, shown, edited) \in {None, "inferred"} \cup Requests
  <2>1. j \in DOMAIN shown => shown[j].tags \in {None, "inferred"} \cup Requests
    BY <1>1 DEF Table, Entry
  <2> QED
    BY <2>1 DEF FormTags
<1> HIDE DEF shown, ticked
<1>6. ASSUME NEW j \in DOMAIN catalog
      PROVE  /\ saved(j) \in Entry /\ saved(j).source = catalog[j].source
             /\ saved(j).model = catalog[j].model
             /\ \/ saved(j).disabled_by \in {catalog[j].disabled_by, "admin"}
                \/ saved(j).enabled /\ ~catalog[j].enabled
  <2>1. catalog[j] \in Entry /\ FormTags(r, j, shown, edited) \in {None, "inferred"} \cup Requests
    BY <1>4, <1>5
  <2> DEFINE d == IF (j \in ticked) = catalog[j].enabled THEN catalog[j].disabled_by
                  ELSE IF j \in ticked THEN "" ELSE "admin"
             t == FormTags(r, j, shown, edited)
             on == j \in ticked
  <2>2. saved(j) = [catalog[j] EXCEPT !.enabled = on, !.disabled_by = d, !.tags = t]
    OBVIOUS
  <2>3. catalog[j].enabled \in BOOLEAN /\ catalog[j].disabled_by \in {"", "admin", "sync"}
    BY <2>1 DEF Entry
  <2>4. d \in {"", "admin", "sync"} /\ t \in {None, "inferred"} \cup Requests
    BY <2>1, <2>3
  <2>5. on \in BOOLEAN
    BY MembershipBoolean, Zenon
  <2>6. \/ d \in {catalog[j].disabled_by, "admin"}
        \/ on /\ ~catalog[j].enabled
    BY <2>3
  <2> HIDE DEF d, t, on, saved
  <2>7. /\ saved(j) \in Entry /\ saved(j).source = catalog[j].source
        /\ saved(j).model = catalog[j].model
        /\ saved(j).enabled = on /\ saved(j).disabled_by = d
    BY <2>1, <2>2, <2>4, <2>5 DEF Entry
  <2> QED
    BY <2>6, <2>7
<1> HIDE DEF saved
<1>7. /\ DOMAIN draft'[r] = DOMAIN catalog /\ \A j \in DOMAIN catalog : draft'[r][j] = saved(j)
  BY <1>3
<1>8. Table(draft'[r], Entry)
  BY <1>4, <1>6, <1>7 DEF Table
<1>9. Boxes(r)'
  BY <1>1, <1>4, <1>6, <1>7, <1>8 DEF Boxes, CatalogRows
<1> QED
  BY <1>1, <1>9 DEF Shape, Loaded

LEMMA SyncSourceShape ==
    ASSUME Inv, NEW r \in Requests, SyncSource(r), UNCHANGED setup, kind' = kind
    PROVE  Shape(r)'
<1>1. Synced(r)'
  BY SyncKeepsShape
<1>2. at[r] = "syncing" /\ UNCHANGED at /\ UNCHANGED plan /\ Shape(r)
  BY DEF SyncSource, setup, Inv
<1> QED
  BY <1>1, <1>2 DEF Shape

LEMMA InventoryEndShape ==
    ASSUME Inv, NEW r \in Requests, UNCHANGED setup, kind' = kind,
           \/ Refuse(r) \/ UpdateSource(r) \/ DeleteSource(r)
           \/ Upsert(r) \/ SyncCommit(r) \/ SaveModels(r)
    PROVE  Shape(r)'
<1>1. Control /\ UNCHANGED <<plan, users, keys>> /\ Shape(r)
  BY DEF Inv, setup, people
<1>2. PICK from \in {"new", "shown", "loaded", "syncing"} : End(r, from) /\ UNCHANGED todo
  BY DEF Refuse, UpdateSource, DeleteSource, Upsert, SyncCommit, SaveModels
<1>3. Frame(r) /\ at[r] = from /\ at'[r] = "done" /\ Empty(r)'
  BY <1>1, <1>2, EndFrame
<1>4. plan[r] = NoPlan
  BY <1>1, <1>3 DEF Shape
<1> QED
  BY <1>1, <1>3, <1>4, DoneShape

LEMMA InventoryShape ==
    ASSUME Inv, NEW r \in Requests, InventoryStep(r), UNCHANGED setup, kind' = kind
    PROVE  Shape(r)'
<1>1. CASE \/ Refuse(r) \/ UpdateSource(r) \/ DeleteSource(r)
           \/ Upsert(r) \/ SyncCommit(r) \/ SaveModels(r)
  BY <1>1, InventoryEndShape
<1>2. CASE LoadSource(r) \/ CheckName(r) \/ LoadAll(r) \/ ShowModels(r)
  BY <1>2, LoadShape
<1>3. CASE PostModels(r)
  BY <1>3, PostModelsShape
<1>4. CASE PostSync(r) \/ AutoSync(r) \/ WizardSync(r)
  BY <1>4, BeginSyncShape DEF PostSync, AutoSync, WizardSync
<1>5. CASE SaveAll(r)
  BY <1>5, SaveAllShape
<1>6. CASE SyncSource(r)
  BY <1>6, SyncSourceShape
<1> QED
  BY <1>1, <1>2, <1>3, <1>4, <1>5, <1>6 DEF InventoryStep

LEMMA InventoryTables ==
    ASSUME Inv, NEW r \in Requests, InventoryStep(r), UNCHANGED <<aliases, setup>>, kind' = kind
    PROVE  Tables'
<1>1. Tables /\ Shape(r) /\ UNCHANGED aliases
  BY DEF Inv
<1>2. CASE UNCHANGED <<inventory, grants>>
  BY <1>1, <1>2, SavedTables
<1>3. CASE UpdateSource(r)
  BY <1>1, <1>3, UpdateSaves, SavedTables
<1>4. CASE SaveAll(r)
  BY <1>1, <1>4, SaveAllSaves, SavedTables
<1>5. CASE DeleteSource(r)
  BY <1>1, <1>5, DeletedTables
<1>6. CASE Upsert(r)
  BY <1>1, <1>6, UpsertedTables
<1>7. CASE SyncCommit(r)
  <2>1. Synced(r)
    BY <1>1, <1>7 DEF Shape, SyncCommit, End, Goto
  <2> QED
    BY <1>1, <1>7, <2>1, SyncedTables
<1>8. CASE SaveModels(r)
  <2>1. CatalogRows(r)
    BY <1>1, <1>8 DEF Shape, SaveModels, End, Goto, Loaded, Boxes
  <2> QED
    BY <1>1, <1>8, <2>1, ModelsTables
<1>9. CASE \/ Refuse(r) \/ LoadSource(r) \/ CheckName(r) \/ LoadAll(r) \/ ShowModels(r)
           \/ PostModels(r) \/ PostSync(r) \/ AutoSync(r) \/ WizardSync(r) \/ SyncSource(r)
  <2>1. UNCHANGED <<inventory, grants>>
    BY <1>9 DEF Refuse, LoadSource, CheckName, LoadAll, ShowModels, PostModels,
                PostSync, AutoSync, WizardSync, SyncSource, BeginSync
  <2> QED
    BY <1>2, <2>1
<1> QED
  BY <1>3, <1>4, <1>5, <1>6, <1>7, <1>8, <1>9 DEF InventoryStep

\* What all steps have in common.
LEMMA StepKeepsInv ==
    ASSUME Inv, NEW r \in Requests, Frame(r), Tables', People', Shape(r)'
    PROVE  Inv'
<1>1. Control'
  BY DEF Frame, Control
<1>2. \A q \in Requests : Shape(q)'
  BY OthersKeepShape DEF Inv
<1> QED
  BY <1>1, <1>2 DEF Inv

LEMMA InventoryInv ==
    ASSUME Inv, NEW r \in Requests, InventoryStep(r), UNCHANGED <<aliases, setup, calls>>, kind' = kind
    PROVE  Inv'
<1>1. Frame(r) /\ UNCHANGED people
  BY InventoryFrame DEF Inv, setup
<1>2. People'
  BY <1>1, PeopleStay DEF Inv
<1> QED
  BY <1>1, <1>2, InventoryTables, InventoryShape, StepKeepsInv
------------------------------------------------------------------------------
(* Aliases. *)

LEMMA AliasShape ==
    ASSUME Inv, NEW r \in Requests, AliasStep(r), UNCHANGED setup, kind' = kind
    PROVE  Shape(r)'
<1>1. Control /\ UNCHANGED <<plan, users, keys>> /\ Shape(r)
  BY DEF Inv, setup, people
<1>2. CASE LoadAlias(r)
  <2>1. PICK i \in DOMAIN aliases : read' = [read EXCEPT ![r] = Only(i, aliases[i])]
    BY <1>2 DEF LoadAlias
  <2>2. Empty(r) /\ plan[r] = NoPlan
    BY <1>1, <1>2 DEF LoadAlias, Goto, Shape
  <2>3. Table(Only(i, aliases[i]), Alias)
    BY TableOfOne DEF Inv, Tables, Table
  <2>4. /\ read'[r] = Only(i, aliases[i]) /\ draft'[r] = <<>> /\ fresh'[r] = <<>>
        /\ at'[r] = "loaded" /\ kind'[r] \in {"alias_save", "alias_delete"}
    BY <1>1, <1>2, <2>1, <2>2 DEF LoadAlias, Goto, Control, Empty
  <2>5. Loaded(r)'
    BY <2>3, <2>4 DEF Loaded
  <2> QED
    BY <1>1, <2>2, <2>4, <2>5 DEF Shape
<1>3. \A model, pin : pin \in Names \cup {None} => PinFor(model, pin) \in Names \cup {None}
  BY DEF PinFor
<1>4. CASE PostNewAlias(r)
  <2>1. PICK name \in Aliases, target \in Models, pin \in Names \cup {None} :
          fresh' = [fresh EXCEPT ![r] =
             <<[name |-> name, target |-> target, pin |-> PinFor(target, pin), on |-> TRUE]>>]
    BY <1>4 DEF PostNewAlias
  <2>2. Empty(r) /\ plan[r] = NoPlan
    BY <1>1, <1>4 DEF PostNewAlias, Goto, Shape
  <2>3. [name |-> name, target |-> target, pin |-> PinFor(target, pin), on |-> TRUE] \in Alias
    BY <1>3 DEF Alias
  <2>4. /\ read'[r] = <<>> /\ draft'[r] = <<>> /\ fresh'[r] \in Seq(Alias)
        /\ at'[r] = "posted" /\ kind'[r] = "alias_add" /\ loop' = r
    BY <1>1, <1>4, <2>1, <2>2, <2>3, ShortSequences DEF PostNewAlias, Goto, TakeLoop, Control, Empty
  <2> QED
    BY <1>1, <2>2, <2>4 DEF Shape, Posted
<1>5. CASE PostAlias(r)
  <2>1. PICK i \in DOMAIN read[r], name \in Aliases, target \in Models, pin \in Names \cup {None},
             on \in BOOLEAN :
          /\ \A j \in DOMAIN aliases \ {i} : aliases[j].name # name
          /\ draft' = [draft EXCEPT ![r] =
                Only(i, [name |-> name, target |-> target, pin |-> PinFor(target, pin), on |-> on])]
    BY <1>5 DEF PostAlias
  <2> DEFINE row == [name |-> name, target |-> target, pin |-> PinFor(target, pin), on |-> on]
  <2>2. fresh[r] = <<>> /\ Table(read[r], Alias) /\ plan[r] = NoPlan
    BY <1>1, <1>5 DEF PostAlias, Goto, Shape, Loaded
  <2>3. row \in Alias
    BY <1>3 DEF Alias
  <2> HIDE DEF row
  <2>4. Table(Only(i, row), Alias) /\ DOMAIN Only(i, row) = {i}
    BY <2>2, <2>3, TableOfOne DEF Table
  <2>5. /\ read'[r] = read[r] /\ draft'[r] = Only(i, row) /\ fresh'[r] = <<>>
        /\ at'[r] = "posted" /\ kind'[r] = "alias_save" /\ loop' = r
    BY <1>1, <1>5, <2>1, <2>2 DEF PostAlias, Goto, TakeLoop, Control, row
  <2> QED
    BY <1>1, <2>2, <2>4, <2>5 DEF Shape, Posted
<1>6. CASE CommitAlias(r) \/ DeleteAlias(r)
  <2>1. PICK from \in {"posted", "loaded"} : End(r, from) /\ UNCHANGED todo
    BY <1>6 DEF CommitAlias, DeleteAlias
  <2>2. at[r] = from /\ at'[r] = "done" /\ Empty(r)'
    BY <1>1, <2>1, EndFrame
  <2>3. plan[r] = NoPlan
    BY <1>1, <1>6, <2>2 DEF Shape, Posted, GrantKinds, NewKeys, CommitAlias, DeleteAlias
  <2> QED
    BY <1>1, <2>2, <2>3, DoneShape
<1> QED
  BY <1>2, <1>4, <1>5, <1>6 DEF AliasStep

LEMMA AliasInv ==
    ASSUME Inv, NEW r \in Requests, AliasStep(r), UNCHANGED <<setup, calls>>, kind' = kind
    PROVE  Inv'
<1>1. Frame(r) /\ UNCHANGED people
  BY AliasFrame DEF Inv, setup
<1>2. People'
  BY <1>1, PeopleStay DEF Inv
<1>3. Tables'
  <2>1. CASE CommitAlias(r) \/ DeleteAlias(r)
    BY <2>1, AliasTables DEF Inv
  <2>2. CASE LoadAlias(r) \/ PostNewAlias(r) \/ PostAlias(r)
    BY <2>2, SavedTables DEF LoadAlias, PostNewAlias, PostAlias, Inv
  <2> QED
    BY <2>1, <2>2 DEF AliasStep
<1> QED
  BY <1>1, <1>2, <1>3, AliasShape, StepKeepsInv
------------------------------------------------------------------------------
(* Grants and keys: what a form loads and posts. *)

LEMMA TicksTyped ==
    ASSUME NEW t \in Ticks
    PROVE  t.sources \in SUBSET Names /\ t.pairs \in SUBSET Pairs /\ t.pin \in Names \cup {None}
BY GrantsAssumption DEF GrantsAssumption

LEMMA WhoExists ==
    ASSUME People
    PROVE  /\ users \subseteq Users \cup Requests /\ teams \subseteq Teams \cup Requests
           /\ users \subseteq Grantees /\ teams \subseteq Grantees /\ DOMAIN keys \subseteq Grantees
           /\ Admins \subseteq users
BY GrantsAssumption DEF GrantsAssumption, People, KeyRows

LEMMA LoadGrantShape ==
    ASSUME Inv, NEW r \in Requests, LoadSettings(r) \/ LoadGrants(r) \/ LoadKey(r), UNCHANGED aliases,
           kind' = kind
    PROVE  Shape(r)' /\ Tables' /\ UNCHANGED <<people, plan>>
<1>1. UNCHANGED <<inventory, grants, people, plan, users, teams, keys>>
  BY DEF LoadSettings, LoadGrants, LoadKey, people
<1>0. Tables'
  BY <1>1, SavedTables DEF Inv
<1>2. Control /\ Empty(r) /\ plan[r] = NoPlan /\ at[r] = "new" /\ at'[r] = "loaded"
  BY DEF LoadSettings, LoadGrants, LoadKey, Goto, Inv, Shape, Control
<1>3. draft'[r] = <<>> /\ fresh'[r] = <<>>
  BY <1>2 DEF LoadSettings, LoadGrants, LoadKey, Empty
<1>4. CASE LoadGrants(r)
  <2>1. PICK u \in users \ Admins : read' = [read EXCEPT ![r] = Only(u, granted[u])]
    BY <1>4 DEF LoadGrants
  <2>2. u \in Grantees
    BY WhoExists DEF Inv
  <2>3. granted[u] \in SUBSET Names
    BY <2>2 DEF Inv, Tables
  <2>4. read'[r] = Only(u, granted[u]) /\ kind'[r] \in {"grant_add", "grant_models"} /\ users' = users
    BY <1>1, <1>2, <1>4, <2>1 DEF LoadGrants, Control
  <2>5. Loaded(r)'
    BY <1>3, <2>3, <2>4 DEF Loaded
  <2> QED
    BY <1>0, <1>1, <1>2, <2>5 DEF Shape
<1>5. CASE LoadKey(r)
  <2>1. PICK k \in DOMAIN keys : read' = [read EXCEPT ![r] = Only(k, keys[k])]
    BY <1>5 DEF LoadKey
  <2>2. keys[k] \in Key
    BY DEF Inv, People, KeyRows
  <2>3. /\ read'[r] = Only(k, keys[k]) /\ kind'[r] \in {"key_edit", "key_rotate", "key_revoke"}
        /\ keys' = keys
    BY <1>1, <1>2, <1>5, <2>1 DEF LoadKey, Control
  <2>4. LoadedKey(r)'
    BY <2>2, <2>3 DEF LoadedKey
  <2>5. Loaded(r)'
    BY <1>3, <2>3, <2>4 DEF Loaded
  <2> QED
    BY <1>0, <1>1, <1>2, <2>5 DEF Shape
<1>6. CASE LoadSettings(r)
  <2>1. /\ kind'[r] \in {"register", "key_new", "team"}
        /\ read'[r] = IF kind'[r] = "register" THEN Only(r, default) ELSE <<>>
    BY <1>2, <1>6 DEF LoadSettings, Control
  <2>2. default \in [sources : SUBSET Names, pairs : SUBSET Pairs]
    BY DEF Inv, Tables
  <2>3. Loaded(r)'
    BY <1>3, <2>1, <2>2 DEF Loaded, Empty
  <2> QED
    BY <1>0, <1>1, <1>2, <2>3 DEF Shape
<1> QED
  BY <1>4, <1>5, <1>6

\* What a request about grants or keys has before its form is posted.
LEMMA BeforePost ==
    ASSUME Inv, NEW r \in Requests, NEW from \in {"new", "loaded"}, Post(r, from),
           kind[r] \in GrantKinds \cup KeyKinds
    PROVE  /\ at[r] = from /\ draft[r] = <<>> /\ fresh[r] = <<>>
           /\ from = "new" \/ kind[r] \in {"key_new", "team"} => read[r] = <<>>
           /\ kind[r] = "key_edit" /\ from = "loaded" => LoadedKey(r)
           /\ kind[r] \in {"grant_add", "grant_models"} /\ from = "loaded" =>
                \E u \in users \ Admins : \E names \in SUBSET Names : read[r] = Only(u, names)
<1>1. at[r] = from
  BY DEF Post, Goto
<1>2. Shape(r)
  BY DEF Inv
<1>3. CASE from = "new"
  BY <1>1, <1>2, <1>3 DEF Shape, Empty
<1>4. CASE from = "loaded"
  BY <1>1, <1>2, <1>4 DEF Shape, Loaded, Empty, GrantKinds, KeyKinds
<1> QED
  BY <1>1, <1>3, <1>4

\* A plan that a posted form leaves to the transaction.
LEMMA PostedPlan ==
    ASSUME Inv, NEW r \in Requests, NEW from \in {"new", "loaded"}, Post(r, from),
           kind[r] \in GrantKinds \cup KeyKinds, UNCHANGED aliases, kind' = kind,
           NEW w \in Grantees \cup {None}, NEW t, NEW n \in (SUBSET Names) \cup {None}, NEW c,
           NEW p \in SUBSET Pairs, Planned(r, w, t, n, c, p),
           read' = read \/ \E x : read' = [read EXCEPT ![r] = x],
           draft' = draft \/ \E x : draft' = [draft EXCEPT ![r] = x]
    PROVE  /\ Tables' /\ UNCHANGED <<people, users, teams, keys>>
           /\ Frame(r) /\ at'[r] = "posted" /\ loop' = r /\ fresh'[r] = <<>> /\ kind'[r] = kind[r]
           /\ PlanFits(r)' /\ plan'[r] = [who |-> w, ticked |-> {t}, sources |-> n, cut |-> c, pairs |-> p]
<1>1. /\ Frame(r) /\ at'[r] = "posted" /\ loop' = r
      /\ UNCHANGED <<inventory, grants, people, fresh>>
      /\ plan'[r] = [who |-> w, ticked |-> {t}, sources |-> n, cut |-> c, pairs |-> p]
  BY PostFrame DEF Inv
<1>2. fresh[r] = <<>>
  BY BeforePost
<1>3. PlanFits(r)'
  BY <1>1 DEF PlanFits
<1>4. UNCHANGED <<users, teams, keys>>
  BY <1>1 DEF people
<1>5. Tables'
  BY <1>1, SavedTables DEF Inv
<1> QED
  BY <1>1, <1>2, <1>3, <1>4, <1>5
LEMMA PlansTyped ==
    ASSUME Inv, NEW t \in Ticks
    PROVE  /\ TickedSources(t) \in SUBSET Names /\ DefaultSources \in SUBSET Names
           /\ \A S : TickedPairs(t, S) \in SUBSET Pairs
           /\ \A S, T : T \in SUBSET Pairs => NormalPairs(S, T) \in SUBSET Pairs
           /\ \A c : ClampPairs(t.pairs, c) \in SUBSET Pairs
           /\ \A c : ClampSources(TickedSources(t), c) \in SUBSET Names
<1>1. t.sources \in SUBSET Names /\ t.pairs \in SUBSET Pairs
  BY TicksTyped
<1>2. default.sources \in SUBSET Names /\ default.pairs \in SUBSET Pairs
  BY DEF Inv, Tables
<1>3. TickedSources(t) \in SUBSET Names /\ DefaultSources \in SUBSET Names
  BY <1>1, <1>2 DEF TickedSources, DefaultSources
<1>4. \A S : TickedPairs(t, S) \in SUBSET Pairs
  BY <1>1 DEF TickedPairs
<1>5. \A S, T : T \in SUBSET Pairs => NormalPairs(S, T) \in SUBSET Pairs
  BY DEF NormalPairs
<1>6. \A c : ClampPairs(t.pairs, c) \in SUBSET Pairs
  BY <1>1 DEF ClampPairs
<1>7. \A c : ClampSources(TickedSources(t), c) \in SUBSET Names
  BY <1>3 DEF ClampSources
<1> QED
  BY <1>3, <1>4, <1>5, <1>6, <1>7

GrantPosts(r) ==
    \/ PostAdd(r) \/ PostModelList(r) \/ PostRemove(r) \/ PostUser(r)
    \/ PostDefault(r) \/ PostTeam(r)

\* What the forms about grants plan.
LEMMA GrantPostPlans ==
    ASSUME Inv, NEW r \in Requests, GrantPosts(r)
    PROVE  \E from \in {"new", "loaded"}, w \in Grantees \cup {None}, t \in Ticks,
             n \in (SUBSET Names) \cup {None}, p \in SUBSET Pairs : \E c :
               /\ Post(r, from) /\ kind[r] \in GrantKinds \ {"register"} /\ UNCHANGED <<read, draft>>
               /\ Planned(r, w, t, n, c, p)
               /\ kind[r] = "default" => w = None /\ n \in SUBSET Names
               /\ kind[r] = "team" => w \in teams \cup {r}
               /\ kind[r] = "user" => w = r
               /\ kind[r] \in UserGrants => w \in users \ Admins
<1>1. /\ users \subseteq Grantees /\ teams \subseteq Grantees /\ r \in Grantees
      /\ {} \in SUBSET Names /\ {} \in SUBSET Pairs
  BY WhoExists, InventoryAssumption DEF Inv, InventoryAssumption
<1>2. CASE PostAdd(r)
  <2>1. PICK u \in DOMAIN read[r], t \in Ticks :
          /\ TickedSources(t) # {}
          /\ Planned(r, u, t, read[r][u] \cup TickedSources(t), {}, {})
    BY <1>2 DEF PostAdd
  <2>2. kind[r] = "grant_add" /\ Post(r, "loaded") /\ UNCHANGED <<read, draft>>
    BY <1>2 DEF PostAdd
  <2>3. u \in users \ Admins /\ read[r][u] \in SUBSET Names
    <3>1. kind[r] \in GrantKinds \cup KeyKinds
      BY <2>2 DEF GrantKinds
    <3>2. PICK v \in users \ Admins, names \in SUBSET Names : read[r] = Only(v, names)
      BY <2>2, <3>1, BeforePost
    <3> QED
      BY <3>2 DEF Only
  <2>4. read[r][u] \cup TickedSources(t) \in (SUBSET Names) \cup {None}
    BY <2>3, PlansTyped
  <2> QED
    BY <1>1, <2>1, <2>2, <2>3, <2>4 DEF GrantKinds, UserGrants
<1>3. CASE PostModelList(r)
  <2>1. PICK u \in DOMAIN read[r], t \in Ticks : \E n \in SourceNames \cap read[r][u] :
         LET picked == {p \in t.pairs : p[1] = n}
             enabled == EnabledPairs({n})
             full == enabled # {} /\ enabled \subseteq picked
         IN  Planned(r, u, t, None, {n}, IF full THEN {} ELSE picked)
    BY <1>3 DEF PostModelList
  <2>2. PICK n : \E p \in SUBSET Pairs : Planned(r, u, t, None, {n}, p)
    BY <2>1, TicksTyped
  <2>3. kind[r] = "grant_models" /\ Post(r, "loaded") /\ UNCHANGED <<read, draft>>
    BY <1>3 DEF PostModelList
  <2>4. u \in users \ Admins
    <3>1. kind[r] \in GrantKinds \cup KeyKinds
      BY <2>3 DEF GrantKinds
    <3>2. PICK v \in users \ Admins, names \in SUBSET Names : read[r] = Only(v, names)
      BY <2>3, <3>1, BeforePost
    <3> QED
      BY <3>2 DEF Only
  <2> QED
    BY <1>1, <2>2, <2>3, <2>4 DEF GrantKinds, UserGrants
<1>4. CASE PostRemove(r)
  <2>1. PICK u \in users \ Admins, t \in Ticks : \E n \in SourceNames \cap granted[u] :
          t.sources = {n} /\ Planned(r, u, t, granted[u] \ {n}, {n}, {})
    BY <1>4 DEF PostRemove
  <2>2. PICK n : Planned(r, u, t, granted[u] \ {n}, {n}, {})
    BY <2>1
  <2>3. granted[u] \ {n} \in (SUBSET Names) \cup {None}
    BY <1>1 DEF Inv, Tables
  <2> QED
    BY <1>1, <1>4, <2>2, <2>3 DEF PostRemove, GrantKinds, UserGrants
<1>5. CASE PostUser(r)
  <2>1. PICK t \in Ticks :
         LET names == IF TickedSources(t) # {} THEN TickedSources(t) ELSE DefaultSources
         IN  IF teams_on THEN Planned(r, r, t, {}, {}, {})
             ELSE Planned(r, r, t, names, {}, TickedPairs(t, names))
    BY <1>5 DEF PostUser
  <2>2. \E n \in SUBSET Names, p \in SUBSET Pairs : Planned(r, r, t, n, {}, p)
    BY <1>1, <2>1, PlansTyped
  <2> QED
    BY <1>1, <1>5, <2>2 DEF PostUser, GrantKinds, UserGrants
<1>6. CASE PostDefault(r)
  <2>1. PICK t \in Ticks :
         LET names == TickedSources(t)
         IN  Planned(r, None, t, names, {}, NormalPairs(names, TickedPairs(t, names)))
    BY <1>6 DEF PostDefault
  <2>2. \E n \in SUBSET Names, p \in SUBSET Pairs : Planned(r, None, t, n, {}, p)
    BY <1>1, <2>1, PlansTyped
  <2> QED
    BY <1>1, <1>6, <2>2 DEF PostDefault, GrantKinds, UserGrants
<1>7. CASE PostTeam(r)
  <2>1. PICK g \in teams \cup {r}, t \in Ticks : Planned(r, g, t, TickedSources(t), Names, t.pairs)
    BY <1>7 DEF PostTeam
  <2>2. \E n \in SUBSET Names, p \in SUBSET Pairs : Planned(r, g, t, n, Names, p)
    BY <1>1, <2>1, PlansTyped, TicksTyped
  <2> QED
    BY <1>1, <1>7, <2>2 DEF PostTeam, GrantKinds, UserGrants
<1> QED
  BY <1>2, <1>3, <1>4, <1>5, <1>6, <1>7 DEF GrantPosts

LEMMA GrantPostInv ==
    ASSUME Inv, NEW r \in Requests, GrantPosts(r), UNCHANGED aliases, kind' = kind
    PROVE  Inv'
<1>1. PICK from \in {"new", "loaded"}, w \in Grantees \cup {None}, t \in Ticks,
           n \in (SUBSET Names) \cup {None}, p \in SUBSET Pairs : \E c :
               /\ Post(r, from) /\ kind[r] \in GrantKinds \ {"register"} /\ UNCHANGED <<read, draft>>
               /\ Planned(r, w, t, n, c, p)
               /\ kind[r] = "default" => w = None /\ n \in SUBSET Names
               /\ kind[r] = "team" => w \in teams \cup {r}
               /\ kind[r] = "user" => w = r
               /\ kind[r] \in UserGrants => w \in users \ Admins
  BY GrantPostPlans
<1>2. PICK c : Planned(r, w, t, n, c, p)
  BY <1>1
<1>3. /\ Tables' /\ UNCHANGED <<people, users, teams, keys>>
      /\ Frame(r) /\ at'[r] = "posted" /\ loop' = r /\ fresh'[r] = <<>> /\ kind'[r] = kind[r]
      /\ PlanFits(r)' /\ plan'[r] = [who |-> w, ticked |-> {t}, sources |-> n, cut |-> c, pairs |-> p]
  BY <1>1, <1>2, PostedPlan
<1>4. draft'[r] = <<>>
  BY <1>1, BeforePost
<1>5. plan'[r].who = w /\ plan'[r].sources = n
  BY <1>3
<1>6. GrantForm(r)'
  <2>1. kind' = kind /\ users' = users
    BY <1>3 DEF Frame
  <2>2. kind[r] = "team" => w \in Teams \cup {q \in Requests : kind[q] = "team"}
    BY <1>1 DEF Inv, People
  <2> QED
    BY <1>1, <1>3, <1>4, <1>5, <2>1, <2>2 DEF GrantForm
<1>7. Shape(r)'
  BY <1>1, <1>3, <1>6 DEF Shape, Posted
<1>8. People'
  BY <1>3, PeopleStay DEF Inv
<1> QED
  BY <1>3, <1>7, <1>8, StepKeepsInv
------------------------------------------------------------------------------
(* Keys. *)

LEMMA PlanKeyPlans ==
    ASSUME Inv, NEW r, NEW k, NEW t \in Ticks, NEW c, PlanKey(r, k, t, c)
    PROVE  \E n \in SUBSET Names, p \in SUBSET Pairs : Planned(r, k, t, n, Names, p)
<1> DEFINE n == ClampSources(TickedSources(t), c)
           p == NormalPairs(n, ClampPairs(t.pairs, c))
<1>1. Planned(r, k, t, n, Names, p)
  BY DEF PlanKey
<1>2. n \in SUBSET Names /\ p \in SUBSET Pairs
  BY PlansTyped
<1> QED
  BY <1>1, <1>2

\* A form about key k has been posted.
LEMMA PostedKey ==
    ASSUME Inv, NEW r \in Requests, NEW from \in {"new", "loaded"}, Post(r, from),
           kind[r] \in KeyKinds, UNCHANGED aliases, kind' = kind,
           NEW k \in Grantees, NEW t \in Ticks, NEW c, PlanKey(r, k, t, c),
           read' = read \/ \E x : read' = [read EXCEPT ![r] = x],
           draft' = draft \/ \E x : draft' = [draft EXCEPT ![r] = x]
    PROVE  /\ Tables' /\ UNCHANGED <<people, users, teams, keys>>
           /\ Frame(r) /\ at'[r] = "posted" /\ loop' = r /\ fresh'[r] = <<>> /\ kind'[r] = kind[r]
           /\ PlanFits(r)' /\ plan'[r].who = k
<1>1. PICK n \in SUBSET Names, p \in SUBSET Pairs : Planned(r, k, t, n, Names, p)
  BY PlanKeyPlans
<1>2. k \in Grantees \cup {None} /\ n \in (SUBSET Names) \cup {None} /\ kind[r] \in GrantKinds \cup KeyKinds
  OBVIOUS
<1>3. /\ Tables' /\ UNCHANGED <<people, users, teams, keys>>
      /\ Frame(r) /\ at'[r] = "posted" /\ loop' = r /\ fresh'[r] = <<>> /\ kind'[r] = kind[r]
      /\ PlanFits(r)' /\ plan'[r] = [who |-> k, ticked |-> {t}, sources |-> n, cut |-> Names, pairs |-> p]
  BY <1>1, <1>2, PostedPlan
<1> QED
  BY <1>3

LEMMA NewKeyTyped ==
    ASSUME Inv, NEW u \in users, NEW g \in teams \cup {None}, NEW t, t.pin \in Names \cup {None}
    PROVE  NewKey(u, g, t) \in Key /\ NewKey(u, g, t).owner = u
<1>1. users \subseteq Users \cup Requests /\ teams \subseteq Teams \cup Requests
  BY WhoExists DEF Inv
<1> QED
  BY <1>1 DEF NewKey, Key

NewKeyPosts(r) == PostKey(r) \/ PostSetupKey(r)

LEMMA NewKeyPostInv ==
    ASSUME Inv, NEW r \in Requests, NewKeyPosts(r), UNCHANGED aliases, kind' = kind
    PROVE  Inv'
<1>1. \E from \in {"new", "loaded"}, u \in users, t \in Ticks : \E c : \E new \in Key :
        /\ Post(r, from) /\ kind[r] \in NewKeys /\ UNCHANGED read
        /\ from = "new" \/ kind[r] = "key_new"
        /\ PlanKey(r, r, t, c) /\ new.owner = u
        /\ draft' = [draft EXCEPT ![r] = Only(r, new)]
  <2>1. CASE PostKey(r)
    <3>1. PICK u \in users, g \in (IF switch[r] THEN teams \cup {None} ELSE {None}), t \in Ticks :
            /\ PlanKey(r, r, t, IF g # None THEN CeilingFrom(g)
                                ELSE IF switch[r] THEN NoAccess ELSE CeilingFrom(u))
            /\ draft' = [draft EXCEPT ![r] = Only(r, NewKey(u, g, t))]
      BY <2>1 DEF PostKey
    <3>2. g \in teams \cup {None}
      OBVIOUS
    <3>3. NewKey(u, g, t) \in Key /\ NewKey(u, g, t).owner = u
      BY <3>2, NewKeyTyped, TicksTyped
    <3> QED
      BY <2>1, <3>1, <3>3 DEF PostKey, NewKeys
  <2>2. CASE PostSetupKey(r)
    <3>1. PICK u \in Admins, t \in Ticks :
            /\ PlanKey(r, r, t, Unrestricted)
            /\ draft' = [draft EXCEPT ![r] = Only(r, NewKey(u, None, [t EXCEPT !.pin = None]))]
      BY <2>2 DEF PostSetupKey
    <3>2. u \in users
      BY WhoExists DEF Inv
    <3>3. [t EXCEPT !.pin = None].pin \in Names \cup {None}
      BY GrantsAssumption DEF GrantsAssumption
    <3>4. NewKey(u, None, [t EXCEPT !.pin = None]) \in Key /\ NewKey(u, None, [t EXCEPT !.pin = None]).owner = u
      BY <3>2, <3>3, NewKeyTyped
    <3> QED
      BY <2>2, <3>1, <3>2, <3>4 DEF PostSetupKey, NewKeys
  <2> QED
    BY <2>1, <2>2 DEF NewKeyPosts
<1>2. PICK from \in {"new", "loaded"}, u \in users, t \in Ticks : \E c : \E new \in Key :
        /\ Post(r, from) /\ kind[r] \in NewKeys /\ UNCHANGED read
        /\ from = "new" \/ kind[r] = "key_new"
        /\ PlanKey(r, r, t, c) /\ new.owner = u
        /\ draft' = [draft EXCEPT ![r] = Only(r, new)]
  BY <1>1
<1>3. PICK c : \E new \in Key :
        PlanKey(r, r, t, c) /\ new.owner = u /\ draft' = [draft EXCEPT ![r] = Only(r, new)]
  BY <1>2
<1>4. PICK new \in Key : new.owner = u /\ draft' = [draft EXCEPT ![r] = Only(r, new)]
  BY <1>3
<1>5. r \in Grantees /\ kind[r] \in KeyKinds
  BY <1>2, InventoryAssumption DEF InventoryAssumption, NewKeys, KeyKinds
<1>6. /\ Tables' /\ UNCHANGED <<people, users, teams, keys>>
      /\ Frame(r) /\ at'[r] = "posted" /\ loop' = r /\ fresh'[r] = <<>> /\ kind'[r] = kind[r]
      /\ PlanFits(r)' /\ plan'[r].who = r
  BY <1>2, <1>3, <1>4, <1>5, PostedKey
<1>7. draft'[r] = Only(r, new)
  BY <1>4 DEF Inv, Control
<1>8. read'[r] = <<>>
  BY <1>2, <1>5, BeforePost
<1>9. NewKeyForm(r)'
  BY <1>4, <1>6, <1>7, <1>8 DEF NewKeyForm
<1>10. Shape(r)'
  BY <1>2, <1>6, <1>9 DEF Shape, Posted
<1> QED
  BY <1>6, <1>10, PeopleStay, StepKeepsInv DEF Inv

EditPosts(r) == PostTeamKey(r) \/ PostOwnKey(r)

LEMMA EditPostInv ==
    ASSUME Inv, NEW r \in Requests, EditPosts(r), UNCHANGED aliases, kind' = kind
    PROVE  Inv'
<1>1. kind[r] = "key_edit" /\ Post(r, "loaded") /\ kind[r] \in KeyKinds
  BY DEF EditPosts, PostTeamKey, PostOwnKey, KeyKinds
<1>2. PICK k \in DOMAIN keys, row \in Key : read[r] = Only(k, row)
  BY <1>1, BeforePost DEF LoadedKey
<1>3. /\ keys[k] \in Key /\ k \in Grantees /\ keys[k].owner \in users \cup {None}
      /\ users \subseteq Users \cup Requests
  BY WhoExists DEF Inv, People, KeyRows
<1>4. \E t \in Ticks : \E c : \E old, new \in Key :
        /\ PlanKey(r, k, t, c)
        /\ read' = [read EXCEPT ![r] = Only(k, old)] \/ (read' = read /\ read[r] = Only(k, old))
        /\ draft' = [draft EXCEPT ![r] = Only(k, new)]
        /\ new.team \in {None, old.team} /\ new.owner \in users \cup {None, old.owner}
  <2>1. CASE PostTeamKey(r)
    <3>1. PICK l \in DOMAIN read[r], g \in teams, t \in Ticks :
            /\ PlanKey(r, l, t, CeilingFrom(IF keys[l].team # None THEN keys[l].team ELSE g))
            /\ read' = [read EXCEPT ![r] = Only(l, keys[l])]
            /\ draft' = [draft EXCEPT ![r] = Only(l, keys[l])]
      BY <2>1 DEF PostTeamKey
    <3>2. l = k
      BY <1>2 DEF Only
    <3> QED
      BY <1>3, <3>1, <3>2
  <2>2. CASE PostOwnKey(r)
    <3>1. PICK l \in DOMAIN read[r], u \in users \cup {None}, active \in BOOLEAN, t \in Ticks :
            /\ IF switch[r] THEN u = read[r][l].owner ELSE u # None
            /\ PlanKey(r, l, t, IF u = None THEN Unrestricted ELSE CeilingFrom(u))
            /\ draft' = [draft EXCEPT ![r] = Only(l,
                   [read[r][l] EXCEPT !.owner = u, !.team = None, !.active = active,
                                      !.pin = IF t.pin \in SourceNames THEN t.pin ELSE None])]
            /\ UNCHANGED read
      BY <2>2 DEF PostOwnKey
    <3>2. l = k /\ read[r][l] = row
      BY <1>2 DEF Only
    <3> DEFINE pin == IF t.pin \in SourceNames THEN t.pin ELSE None
               new == [row EXCEPT !.owner = u, !.team = None, !.active = active, !.pin = pin]
    <3>3. pin \in Names \cup {None}
      BY TicksTyped
    <3> HIDE DEF pin
    <3>4. new \in Key /\ new.team = None /\ new.owner = u
      BY <1>3, <3>3 DEF Key
    <3>5. draft' = [draft EXCEPT ![r] = Only(k, new)]
      BY <3>1, <3>2 DEF pin
    <3> HIDE DEF new
    <3> QED
      BY <1>2, <3>1, <3>2, <3>4, <3>5
  <2> QED
    BY <2>1, <2>2 DEF EditPosts
<1>5. PICK t \in Ticks : \E c : \E old, new \in Key :
        /\ PlanKey(r, k, t, c)
        /\ read' = [read EXCEPT ![r] = Only(k, old)] \/ (read' = read /\ read[r] = Only(k, old))
        /\ draft' = [draft EXCEPT ![r] = Only(k, new)]
        /\ new.team \in {None, old.team} /\ new.owner \in users \cup {None, old.owner}
  BY <1>4
<1>6. PICK c : \E old, new \in Key :
        /\ PlanKey(r, k, t, c)
        /\ read' = [read EXCEPT ![r] = Only(k, old)] \/ (read' = read /\ read[r] = Only(k, old))
        /\ draft' = [draft EXCEPT ![r] = Only(k, new)]
        /\ new.team \in {None, old.team} /\ new.owner \in users \cup {None, old.owner}
  BY <1>5
<1>7. PICK old \in Key, new \in Key :
        /\ PlanKey(r, k, t, c)
        /\ read' = [read EXCEPT ![r] = Only(k, old)] \/ (read' = read /\ read[r] = Only(k, old))
        /\ draft' = [draft EXCEPT ![r] = Only(k, new)]
        /\ new.team \in {None, old.team} /\ new.owner \in users \cup {None, old.owner}
  BY <1>6
<1>8. /\ Tables' /\ UNCHANGED <<people, users, teams, keys>>
      /\ Frame(r) /\ at'[r] = "posted" /\ loop' = r /\ fresh'[r] = <<>> /\ kind'[r] = kind[r]
      /\ PlanFits(r)' /\ plan'[r].who = k
  BY <1>1, <1>3, <1>7, PostedKey
<1>9. draft'[r] = Only(k, new) /\ read'[r] = Only(k, old)
  BY <1>7 DEF Inv, Control
<1>10. EditForm(r)'
  BY <1>7, <1>8, <1>9 DEF EditForm
<1>11. Shape(r)'
  BY <1>1, <1>8, <1>10 DEF Shape, Posted
<1> QED
  BY <1>8, <1>11, PeopleStay, StepKeepsInv DEF Inv
------------------------------------------------------------------------------
(* What the transactions write about grants and keys. *)

LEMMA SaveKeyRows ==
    ASSUME Inv, NEW r \in Requests, RotateKey(r) \/ RevokeKey(r)
    PROVE  /\ at[r] = "loaded" /\ at'[r] = "done" /\ DOMAIN keys' = DOMAIN keys
           /\ \A k \in DOMAIN keys :
                /\ keys'[k] \in Key /\ keys'[k].owner = keys[k].owner /\ keys'[k].team = keys[k].team
                /\ keys'[k].active => keys[k].active
<1>1. Shape(r) /\ at[r] = "loaded" /\ at'[r] = "done"
  BY DEF Inv, Control, RotateKey, RevokeKey, SaveKey, End, Goto
<1>2. LoadedKey(r)
  BY <1>1 DEF Shape, Loaded, RotateKey, RevokeKey
<1>3. PICK k \in DOMAIN keys, row \in Key : read[r] = Only(k, row)
  BY <1>2 DEF LoadedKey
<1>4. \A l \in DOMAIN keys : keys[l] \in Key
  BY DEF Inv, People, KeyRows
<1>5. DOMAIN read[r] = {k} /\ read[r][k] = row
  BY <1>3 DEF Only
<1>6. \E new : /\ DOMAIN new = {k} /\ keys' = Updated(keys, read[r], new)
               /\ new[k] \in Key /\ new[k].owner = row.owner /\ new[k].team = row.team
               /\ new[k].active \in {row.active, FALSE}
  <2>1. CASE RotateKey(r)
    <3> DEFINE new == [l \in DOMAIN read[r] |-> [read[r][l] EXCEPT !["secret"] = r]]
    <3>1. keys' = Updated(keys, read[r], new)
      BY <2>1 DEF RotateKey, SaveKey
    <3>2. DOMAIN new = {k} /\ new[k] = [row EXCEPT !.secret = r]
      BY <1>5
    <3> HIDE DEF new
    <3>3. /\ new[k] \in Key /\ new[k].owner = row.owner /\ new[k].team = row.team
          /\ new[k].active = row.active
      BY <3>2 DEF Key
    <3> QED
      BY <3>1, <3>2, <3>3
  <2>2. CASE RevokeKey(r)
    <3> DEFINE new == [l \in DOMAIN read[r] |-> [read[r][l] EXCEPT !["active"] = FALSE]]
    <3>1. keys' = Updated(keys, read[r], new)
      BY <2>2 DEF RevokeKey, SaveKey
    <3>2. DOMAIN new = {k} /\ new[k] = [row EXCEPT !.active = FALSE]
      BY <1>5
    <3> HIDE DEF new
    <3>3. /\ new[k] \in Key /\ new[k].owner = row.owner /\ new[k].team = row.team
          /\ new[k].active = FALSE
      BY <3>2 DEF Key
    <3> QED
      BY <3>1, <3>2, <3>3
  <2> QED
    BY <2>1, <2>2
<1>7. PICK new : /\ DOMAIN new = {k} /\ keys' = Updated(keys, read[r], new)
                 /\ new[k] \in Key /\ new[k].owner = row.owner /\ new[k].team = row.team
                 /\ new[k].active \in {row.active, FALSE}
  BY <1>6
<1>8. /\ DOMAIN keys' = DOMAIN keys
      /\ \A l \in DOMAIN keys : keys'[l] = IF l = k THEN Flushed(keys[l], row, new[l]) ELSE keys[l]
  BY <1>5, <1>7, UpdatedRows
<1>9. /\ keys'[k] \in Key /\ keys'[k].owner = keys[k].owner /\ keys'[k].team = keys[k].team
      /\ keys'[k].active => keys[k].active
  <2>1. keys'[k] = Flushed(keys[k], row, new[k]) /\ keys[k] \in Key /\ new[k] \in Key
    BY <1>4, <1>7, <1>8
  <2>2. /\ keys'[k] \in Key
        /\ keys'[k].owner = IF new[k].owner = row.owner THEN keys[k].owner ELSE new[k].owner
        /\ keys'[k].team = IF new[k].team = row.team THEN keys[k].team ELSE new[k].team
        /\ keys'[k].active = IF new[k].active = row.active THEN keys[k].active ELSE new[k].active
    BY <2>1, FlushedKey
  <2> QED
    BY <1>7, <2>2
<1> QED
  BY <1>1, <1>4, <1>8, <1>9

LEMMA DeleteTeamRows ==
    ASSUME Inv, NEW r \in Requests, NEW t \in teams,
           keys' = [k \in DOMAIN keys |-> [keys[k] EXCEPT !.team = IF @ = t THEN None ELSE @]]
    PROVE  /\ DOMAIN keys' = DOMAIN keys
           /\ \A k \in DOMAIN keys :
                /\ keys'[k] \in Key /\ keys'[k].owner = keys[k].owner
                /\ keys'[k].team = IF keys[k].team = t THEN None ELSE keys[k].team
                /\ keys'[k].active = keys[k].active
<1>1. \A k \in DOMAIN keys : keys[k] \in Key
  BY DEF Inv, People, KeyRows
<1> QED
  BY <1>1 DEF Key

\* The rows of keys after the transaction of a form.
CommittedKeys(r) ==
    \/ DOMAIN keys' = DOMAIN keys /\ \A k \in DOMAIN keys : keys'[k] = keys[k]
    \/ /\ kind[r] \in NewKeys /\ r \notin DOMAIN keys /\ DOMAIN keys' = DOMAIN keys \cup {r}
       /\ \A k \in DOMAIN keys : keys'[k] = keys[k]
       /\ keys'[r] \in Key /\ keys'[r].team \in teams \cup {None} /\ keys'[r].owner \in users
       /\ keys'[r] = draft[r][r]
    \/ /\ kind[r] = "key_edit" /\ DOMAIN keys' = DOMAIN keys
       /\ \E k \in DOMAIN keys : \E old, new \in Key :
            /\ read[r] = Only(k, old) /\ draft[r] = Only(k, new) /\ plan[r].who = k
            /\ keys'[k] = Flushed(keys[k], old, new)
            /\ new.team \in {None, old.team} /\ new.owner \in users \cup {None, old.owner}
            /\ \A l \in DOMAIN keys \ {k} : keys'[l] = keys[l]

LEMMA CommitPosted ==
    ASSUME Inv, NEW r \in Requests, Commit(r)
    PROVE  /\ at[r] = "posted" /\ at'[r] = "done" /\ loop = r /\ plan'[r] = NoPlan /\ Empty(r)'
           /\ kind' = kind => Frame(r)
           /\ UNCHANGED <<inventory, teams_on, prune>> /\ PlanFits(r)
           /\ \/ kind[r] \in GrantKinds /\ GrantForm(r)
              \/ kind[r] \in NewKeys /\ NewKeyForm(r)
              \/ kind[r] = "key_edit" /\ EditForm(r)
<1>1. at[r] = "posted" /\ at'[r] = "done" /\ plan[r] # NoPlan /\ plan'[r] = NoPlan /\ Empty(r)'
  BY DEF Commit, Inv, Control, End, Goto, Empty
<1>2. Shape(r)
  BY DEF Inv
<1>3. loop = r /\ Posted(r)
  BY <1>1, <1>2 DEF Shape
<1>4. /\ PlanFits(r)
      /\ \/ kind[r] \in GrantKinds /\ GrantForm(r)
         \/ kind[r] \in NewKeys /\ NewKeyForm(r)
         \/ kind[r] = "key_edit" /\ EditForm(r)
  BY <1>1, <1>3 DEF Posted
<1>5. kind' = kind => Frame(r)
  BY CommitDomains, EndFrame DEF Commit, Inv
<1> QED
  BY <1>1, <1>3, <1>4, <1>5 DEF Commit

LEMMA CommitRows ==
    ASSUME Inv, NEW r \in Requests, Commit(r)
    PROVE  /\ CommittedKeys(r)
           /\ users' \subseteq users \cup {r} /\ teams' \subseteq teams \cup {plan[r].who}
           /\ teams \subseteq teams'
           /\ users' # users => kind[r] = "user"
           /\ teams' # teams => kind[r] = "team"
           /\ \/ UNCHANGED grants
              \/ /\ default' = IF kind[r] = "default"
                               THEN [sources |-> plan[r].sources, pairs |-> plan[r].pairs] ELSE default
                 /\ granted' = [g \in Grantees |-> IF g = plan[r].who /\ plan[r].sources # None
                                                   THEN plan[r].sources ELSE granted[g]]
                 /\ allowed' = [g \in Grantees |->
                                  IF g = plan[r].who
                                  THEN {q \in allowed[g] : q[1] \notin plan[r].cut} \cup plan[r].pairs
                                  ELSE allowed[g]]
<1> DEFINE rows == draft[r]
           orphan == \/ kind[r] = "team" /\ plan[r].who \notin teams \cup {r}
                     \/ \E k \in DOMAIN rows \ DOMAIN keys : rows[k].team \notin teams \cup {None}
<1>1. /\ orphan => UNCHANGED <<grants, people>>
      /\ ~orphan =>
           /\ users' = IF kind[r] = "user" THEN users \cup {r} ELSE users
           /\ teams' = IF kind[r] = "team" THEN teams \cup {plan[r].who} ELSE teams
           /\ keys' = Beside(Updated(keys, read[r], rows), rows)
           /\ default' = IF kind[r] = "default"
                         THEN [sources |-> plan[r].sources, pairs |-> plan[r].pairs] ELSE default
           /\ granted' = [g \in Grantees |-> IF g = plan[r].who /\ plan[r].sources # None
                                             THEN plan[r].sources ELSE granted[g]]
           /\ allowed' = [g \in Grantees |->
                            IF g = plan[r].who
                            THEN {q \in allowed[g] : q[1] \notin plan[r].cut} \cup plan[r].pairs
                            ELSE allowed[g]]
  BY DEF Commit
<1>2. CASE orphan
  <2>1. UNCHANGED <<users, teams, keys>>
    BY <1>1, <1>2 DEF people
  <2> QED
    BY <1>1, <1>2, <2>1 DEF CommittedKeys
<1>3. CASE ~orphan
  <2>1. /\ DOMAIN keys' = DOMAIN keys \cup DOMAIN rows
        /\ \A k \in DOMAIN keys \cup DOMAIN rows : keys'[k] =
             IF k \in DOMAIN keys
             THEN IF k \in DOMAIN rows THEN Flushed(keys[k], read[r][k], rows[k]) ELSE keys[k]
             ELSE rows[k]
    <3>1. keys' = Beside(Updated(keys, read[r], rows), rows)
      BY <1>1, <1>3
    <3> QED
      BY <3>1, UpdatedRows DEF Beside
  <2>2. \A k \in DOMAIN rows \ DOMAIN keys : rows[k].team \in teams \cup {None}
    BY <1>3
  <2> HIDE DEF orphan
  <2>3. CASE kind[r] \in GrantKinds /\ GrantForm(r)
    <3>1. DOMAIN rows = {}
      BY <2>3, EmptyTable DEF GrantForm
    <3> HIDE DEF rows
    <3> QED
      BY <2>1, <3>1, <1>1, <1>3 DEF CommittedKeys
  <2>4. CASE kind[r] \in NewKeys /\ NewKeyForm(r)
    <3>1. PICK new \in Key : rows = Only(r, new) /\ new.owner \in users
      BY <2>4 DEF NewKeyForm
    <3>2. DOMAIN rows = {r} /\ rows[r] = new
      BY <3>1 DEF Only
    <3>3. r \notin DOMAIN keys
      BY CommitPosted, GrantsAssumption DEF Inv, People, KeyRows, GrantsAssumption
    <3> HIDE DEF rows
    <3>4. keys'[r] = rows[r]
      BY <2>1, <3>2, <3>3
    <3>5. keys'[r] = draft[r][r]
      BY <3>4 DEF rows
    <3>6. CommittedKeys(r)
      BY <2>1, <2>2, <2>4, <3>1, <3>2, <3>3, <3>5 DEF CommittedKeys
    <3> QED
      BY <3>6, <1>1, <1>3
  <2>5. CASE kind[r] = "key_edit" /\ EditForm(r)
    <3>1. PICK k \in DOMAIN keys : \E old, new \in Key :
            /\ read[r] = Only(k, old) /\ draft[r] = Only(k, new) /\ plan[r].who = k
            /\ new.team \in {None, old.team} /\ new.owner \in users \cup {None, old.owner}
      BY <2>5 DEF EditForm
    <3>2. PICK old, new \in Key :
            /\ read[r] = Only(k, old) /\ draft[r] = Only(k, new) /\ plan[r].who = k
            /\ new.team \in {None, old.team} /\ new.owner \in users \cup {None, old.owner}
      BY <3>1
    <3>3. DOMAIN rows = {k} /\ rows[k] = new /\ read[r][k] = old
      BY <3>2 DEF Only
    <3>4. DOMAIN keys' = DOMAIN keys /\ keys'[k] = Flushed(keys[k], old, new)
      BY <2>1, <3>3
    <3>5. \A l \in DOMAIN keys \ {k} : keys'[l] = keys[l]
      BY <2>1, <3>3
    <3>6. CommittedKeys(r)
      BY <2>5, <3>2, <3>4, <3>5 DEF CommittedKeys
    <3> QED
      BY <3>6, <1>1, <1>3
  <2> QED
    BY <2>3, <2>4, <2>5, CommitPosted
<1> QED
  BY <1>2, <1>3
LEMMA CommitInv ==
    ASSUME Inv, NEW r \in Requests, Commit(r), UNCHANGED aliases, kind' = kind
    PROVE  Inv'
<1>1. /\ at[r] = "posted" /\ at'[r] = "done" /\ plan'[r] = NoPlan /\ Empty(r)' /\ Frame(r)
      /\ UNCHANGED inventory /\ PlanFits(r)
      /\ \/ kind[r] \in GrantKinds /\ GrantForm(r)
         \/ kind[r] \in NewKeys /\ NewKeyForm(r)
         \/ kind[r] = "key_edit" /\ EditForm(r)
  BY CommitPosted
<1>2. Shape(r)'
  BY <1>1, DoneShape
<1>3. Tables'
  <2>1. /\ granted \in [Grantees -> SUBSET Names] /\ allowed \in [Grantees -> SUBSET Pairs]
        /\ default \in [sources : SUBSET Names, pairs : SUBSET Pairs]
    BY DEF Inv, Tables
  <2>2. CASE UNCHANGED grants
    BY <1>1, <2>2, SavedTables DEF Inv
  <2>3. CASE /\ default' = IF kind[r] = "default"
                           THEN [sources |-> plan[r].sources, pairs |-> plan[r].pairs] ELSE default
             /\ granted' = [g \in Grantees |-> IF g = plan[r].who /\ plan[r].sources # None
                                               THEN plan[r].sources ELSE granted[g]]
             /\ allowed' = [g \in Grantees |->
                              IF g = plan[r].who
                              THEN {q \in allowed[g] : q[1] \notin plan[r].cut} \cup plan[r].pairs
                              ELSE allowed[g]]
    <3>1. granted' \in [Grantees -> SUBSET Names] /\ allowed' \in [Grantees -> SUBSET Pairs]
      BY <1>1, <2>1, <2>3 DEF PlanFits
    <3>2. default' \in [sources : SUBSET Names, pairs : SUBSET Pairs]
      <4>1. CASE kind[r] = "default"
        <5>1. plan[r].sources \in SUBSET Names /\ plan[r].pairs \in SUBSET Pairs
          BY <1>1, <4>1 DEF PlanFits, GrantForm, NewKeys
        <5> QED
          BY <2>3, <4>1, <5>1
      <4>2. CASE kind[r] # "default"
        BY <2>1, <2>3, <4>2
      <4> QED
        BY <4>1, <4>2
    <3> QED
      BY <1>1, <3>1, <3>2 DEF Inv, Tables, UniqueNames, UniqueRows, inventory
  <2> QED
    BY <2>2, <2>3, CommitRows
<1>4. People'
  <2>1. /\ CommittedKeys(r)
        /\ users' \subseteq users \cup {r} /\ teams' \subseteq teams \cup {plan[r].who}
        /\ users \subseteq users' /\ teams \subseteq teams'
        /\ users' # users => kind[r] = "user"
        /\ teams' # teams => kind[r] = "team"
    BY CommitRows, CommitDomains
  <2>2. People
    BY DEF Inv
  <2>3. /\ Users \subseteq users'
        /\ users' \subseteq Users \cup {q \in Requests : kind[q] \in {"user", "register"} /\ at'[q] = "done"}
    BY <1>1, <2>1, <2>2 DEF People, Frame
  <2>4. teams' \subseteq Teams \cup {q \in Requests : kind[q] = "team"}
    <3>1. CASE teams' = teams
      BY <2>2, <3>1 DEF People
    <3>2. CASE teams' # teams
      <4>1. plan[r].who \in Teams \cup {q \in Requests : kind[q] = "team"}
        BY <1>1, <2>1, <3>2 DEF GrantForm, NewKeys
      <4> QED
        BY <2>1, <2>2, <4>1 DEF People
    <3> QED
      BY <3>1, <3>2
  <2>5. ASSUME NEW k \in DOMAIN keys, keys'[k] = keys[k]
        PROVE  /\ keys'[k] \in Key
               /\ keys'[k].team \in teams' \cup {None} /\ keys'[k].owner \in users' \cup {None}
               /\ k \in Keys \/ (k \in Requests /\ kind[k] \in NewKeys /\ at'[k] = "done")
    BY <1>1, <2>1, <2>2, <2>5 DEF People, KeyRows, Frame
  <2>6. \A k \in DOMAIN keys' :
          /\ keys'[k] \in Key
          /\ keys'[k].team \in teams' \cup {None} /\ keys'[k].owner \in users' \cup {None}
          /\ k \in Keys \/ (k \in Requests /\ kind[k] \in NewKeys /\ at'[k] = "done")
    <3>1. CASE DOMAIN keys' = DOMAIN keys /\ \A k \in DOMAIN keys : keys'[k] = keys[k]
      BY <2>5, <3>1
    <3>2. CASE /\ kind[r] \in NewKeys /\ r \notin DOMAIN keys /\ DOMAIN keys' = DOMAIN keys \cup {r}
               /\ \A k \in DOMAIN keys : keys'[k] = keys[k]
               /\ keys'[r] \in Key /\ keys'[r].team \in teams \cup {None} /\ keys'[r].owner \in users
      BY <1>1, <2>1, <2>5, <3>2
    <3>3. CASE /\ kind[r] = "key_edit" /\ DOMAIN keys' = DOMAIN keys
               /\ \E k \in DOMAIN keys : \E old, new \in Key :
                    /\ read[r] = Only(k, old) /\ draft[r] = Only(k, new) /\ plan[r].who = k
                    /\ keys'[k] = Flushed(keys[k], old, new)
                    /\ new.team \in {None, old.team} /\ new.owner \in users \cup {None, old.owner}
                    /\ \A l \in DOMAIN keys \ {k} : keys'[l] = keys[l]
      <4>1. PICK k \in DOMAIN keys, old \in Key, new \in Key :
              /\ keys'[k] = Flushed(keys[k], old, new)
              /\ new.team \in {None, old.team} /\ new.owner \in users \cup {None, old.owner}
              /\ \A l \in DOMAIN keys \ {k} : keys'[l] = keys[l]
        BY <3>3
      <4>2. /\ keys[k] \in Key /\ keys[k].team \in teams \cup {None} /\ keys[k].owner \in users \cup {None}
            /\ k \in Keys \/ (k \in Requests /\ kind[k] \in NewKeys /\ at[k] = "done")
        BY <2>2 DEF People, KeyRows
      <4>3. /\ keys'[k] \in Key
            /\ keys'[k].owner = IF new.owner = old.owner THEN keys[k].owner ELSE new.owner
            /\ keys'[k].team = IF new.team = old.team THEN keys[k].team ELSE new.team
        BY <4>1, <4>2, FlushedKey
      <4>4. keys'[k].team \in teams' \cup {None} /\ keys'[k].owner \in users' \cup {None}
        BY <2>1, <4>1, <4>2, <4>3
      <4>5. k \in Keys \/ (k \in Requests /\ kind[k] \in NewKeys /\ at'[k] = "done")
        BY <1>1, <4>2 DEF Frame
      <4> QED
        BY <2>5, <3>3, <4>1, <4>3, <4>4, <4>5
    <3> QED
      BY <2>1, <3>1, <3>2, <3>3 DEF CommittedKeys
  <2>7. kind' = kind
    BY <1>1 DEF Frame
  <2> QED
    BY <2>3, <2>4, <2>6, <2>7 DEF People, KeyRows
<1> QED
  BY <1>1, <1>2, <1>3, <1>4, StepKeepsInv

LEMMA EndGrantInv ==
    ASSUME Inv, NEW r \in Requests, UNCHANGED aliases, kind' = kind,
           DeleteTeam(r) \/ RotateKey(r) \/ RevokeKey(r) \/ SetAccess(r) \/ SetRouting(r)
    PROVE  Inv'
<1>1. Frame(r)
  BY GrantFrame DEF GrantStep, Inv
<1>2. Control /\ UNCHANGED <<inventory, plan>> /\ Shape(r) /\ Tables /\ People
  BY DEF Inv, DeleteTeam, RotateKey, RevokeKey, SaveKey, SetAccess, SetRouting
<1>3. PICK from \in {"new", "loaded"} : End(r, from)
  BY DEF DeleteTeam, RotateKey, RevokeKey, SaveKey, SetAccess, SetRouting
<1>4. at[r] = from /\ at'[r] = "done" /\ Empty(r)'
  BY <1>2, <1>3 DEF End, Goto, Control, Empty
<1>5. Shape(r)'
  BY <1>2, <1>4, DoneShape DEF Shape
<1>6. Tables'
  <2>1. CASE UNCHANGED grants
    BY <1>2, <2>1, SavedTables
  <2>2. CASE DeleteTeam(r)
    <3>1. /\ granted' \in [Grantees -> SUBSET Names] /\ allowed' \in [Grantees -> SUBSET Pairs]
          /\ default' = default
      BY <1>2, <2>2 DEF DeleteTeam, Tables
    <3> QED
      BY <1>2, <3>1 DEF Tables, UniqueNames, UniqueRows, inventory
  <2> QED
    BY <2>1, <2>2 DEF RotateKey, RevokeKey, SaveKey, SetAccess, SetRouting
<1>7. People'
  <2>1. CASE SetAccess(r) \/ SetRouting(r)
    BY <1>1, <1>2, <2>1, PeopleStay DEF SetAccess, SetRouting
  <2>2. CASE RotateKey(r) \/ RevokeKey(r)
    <3>1. UNCHANGED <<users, teams, kind>>
      BY <2>2 DEF RotateKey, RevokeKey, SaveKey
    <3>2. /\ DOMAIN keys' = DOMAIN keys
          /\ \A k \in DOMAIN keys :
               keys'[k] \in Key /\ keys'[k].owner = keys[k].owner /\ keys'[k].team = keys[k].team
      BY <2>2, SaveKeyRows
    <3> QED
      BY <1>1, <1>2, <3>1, <3>2 DEF People, KeyRows, Frame
  <2>3. CASE DeleteTeam(r)
    <3>1. PICK t \in teams :
            /\ teams' = teams \ {t}
            /\ keys' = [k \in DOMAIN keys |-> [keys[k] EXCEPT !.team = IF @ = t THEN None ELSE @]]
      BY <2>3 DEF DeleteTeam
    <3>2. UNCHANGED <<users, kind>>
      BY <2>3 DEF DeleteTeam
    <3>3. /\ DOMAIN keys' = DOMAIN keys
          /\ \A k \in DOMAIN keys :
               /\ keys'[k] \in Key /\ keys'[k].owner = keys[k].owner
               /\ keys'[k].team = IF keys[k].team = t THEN None ELSE keys[k].team
      BY <3>1, DeleteTeamRows
    <3> QED
      BY <1>1, <1>2, <3>1, <3>2, <3>3 DEF People, KeyRows, Frame
  <2> QED
    BY <2>1, <2>2, <2>3
<1> QED
  BY <1>1, <1>5, <1>6, <1>7, StepKeepsInv

\* A registration makes its user with what the default grant it has loaded names.
LEMMA RegisterRows ==
    ASSUME Inv, NEW r \in Requests, Register(r), kind' = kind
    PROVE  /\ Frame(r) /\ at[r] = "loaded" /\ at'[r] = "done" /\ Empty(r)' /\ kind[r] = "register"
           /\ UNCHANGED <<inventory, default, teams, keys, plan>> /\ users' = users \cup {r}
           /\ r \in Grantees /\ r \notin users
           /\ \E names \in SUBSET Names, pairs \in SUBSET Pairs :
                /\ granted' = [granted EXCEPT ![r] = names] /\ allowed' = [allowed EXCEPT ![r] = pairs]
                /\ names \subseteq read[r][r].sources
<1>1. Frame(r) /\ at[r] = "loaded" /\ at'[r] = "done" /\ Empty(r)' /\ kind[r] = "register"
  BY GrantFrame DEF GrantStep, Register, End, Goto, Inv, Control, Empty
<1>2. UNCHANGED <<inventory, default, teams, keys, plan>> /\ users' = users \cup {r}
  BY DEF Register
<1>3. PICK row \in [sources : SUBSET Names, pairs : SUBSET Pairs] : read[r] = Only(r, row)
  BY <1>1 DEF Inv, Shape, Loaded
<1>4. read[r][r] = row
  BY <1>3 DEF Only
<1> DEFINE names == IF switch[r] THEN {} ELSE row.sources \cap SourceNames
           pairs == {p \in row.pairs : p[1] \in names}
<1>5. granted' = [granted EXCEPT ![r] = names] /\ allowed' = [allowed EXCEPT ![r] = pairs]
  BY <1>4 DEF Register
<1>6. names \in SUBSET Names /\ pairs \in SUBSET Pairs /\ names \subseteq row.sources
  OBVIOUS
<1>7. r \in Grantees /\ r \notin users
  BY <1>1, GrantsAssumption, InventoryAssumption DEF GrantsAssumption, InventoryAssumption, Inv, People
<1> QED
  BY <1>1, <1>2, <1>4, <1>5, <1>6, <1>7

LEMMA RegisterInv ==
    ASSUME Inv, NEW r \in Requests, Register(r), UNCHANGED aliases, kind' = kind
    PROVE  Inv'
<1>1. /\ Frame(r) /\ at[r] = "loaded" /\ at'[r] = "done" /\ Empty(r)' /\ kind[r] = "register"
      /\ UNCHANGED <<inventory, default, teams, keys, plan>> /\ users' = users \cup {r}
      /\ \E names \in SUBSET Names, pairs \in SUBSET Pairs :
           granted' = [granted EXCEPT ![r] = names] /\ allowed' = [allowed EXCEPT ![r] = pairs]
  BY RegisterRows
<1>2. Shape(r)'
  BY <1>1, DoneShape DEF Inv, Shape
<1>3. Tables'
  <2>1. granted' \in [Grantees -> SUBSET Names] /\ allowed' \in [Grantees -> SUBSET Pairs]
    BY <1>1 DEF Inv, Tables
  <2> QED
    BY <1>1, <2>1 DEF Inv, Tables, UniqueNames, UniqueRows, inventory
<1>4. People'
  <2>1. KeyRows'
    BY <1>1 DEF Inv, People, KeyRows, Frame
  <2> QED
    BY <1>1, <2>1 DEF Inv, People, Frame
<1> QED
  BY <1>1, <1>2, <1>3, <1>4, StepKeepsInv

LEMMA GrantInv ==
    ASSUME Inv, NEW r \in Requests, GrantStep(r), UNCHANGED <<aliases, calls>>, kind' = kind
    PROVE  Inv'
<1>1. CASE LoadSettings(r) \/ LoadGrants(r) \/ LoadKey(r)
  <2>1. Shape(r)' /\ Tables' /\ UNCHANGED <<people, plan>>
    BY <1>1, LoadGrantShape
  <2> QED
    BY <2>1, GrantFrame, PeopleStay, StepKeepsInv DEF Inv
<1>2. CASE GrantPosts(r)
  BY <1>2, GrantPostInv
<1>3. CASE NewKeyPosts(r)
  BY <1>3, NewKeyPostInv
<1>4. CASE EditPosts(r)
  BY <1>4, EditPostInv
<1>5. CASE DeleteTeam(r) \/ RotateKey(r) \/ RevokeKey(r) \/ SetAccess(r) \/ SetRouting(r)
  BY <1>5, EndGrantInv
<1>6. CASE Commit(r)
  BY <1>6, CommitInv
<1>7. CASE Register(r)
  BY <1>7, RegisterInv
<1> QED
  BY <1>1, <1>2, <1>3, <1>4, <1>5, <1>6, <1>7 DEF GrantStep, GrantPosts, NewKeyPosts, EditPosts

LEMMA CallInv ==
    ASSUME Inv, NEW r \in Requests, CallStep(r), kind' = kind
    PROVE  Inv'
<1>1. /\ Frame(r) /\ UNCHANGED <<inventory, grants, aliases, setup, people, plan>>
      /\ kind[r] = "call" /\ at'[r] \in {"routed", "authorized", "done"}
      /\ UNCHANGED <<read, draft, fresh>> \/ Empty(r)'
  BY CallFrame DEF Inv, setup
<1>2. at[r] \in {"new", "routed", "authorized"}
  BY DEF CallStep, Route, RouteNamed, Prepare, Unresolved, Authorize, Reach, Goto, End
<1>3. Empty(r) /\ plan[r] = NoPlan
  BY <1>2 DEF Inv, Shape
<1>4. Empty(r)'
  BY <1>1, <1>3 DEF Empty
<1>5. Shape(r)'
  BY <1>1, <1>3, <1>4 DEF Shape
<1> QED
  BY <1>1, <1>5, SavedTables, PeopleStay, StepKeepsInv DEF Inv
------------------------------------------------------------------------------
(* The invariant holds. *)

LEMMA InvStep == ASSUME Inv, [Next]_vars PROVE Inv'
<1>1. CASE UNCHANGED vars
  <2>1. UNCHANGED <<sources, catalog, granted, allowed, default, aliases, kind, loop, at, read,
                    draft, fresh, todo, plan, users, teams, keys>>
    BY <1>1 DEF vars, inventory, grants, setup, people
  <2> QED
    BY <2>1 DEF Inv, Control, Tables, UniqueNames, UniqueRows, People, KeyRows, Shape, Empty,
                Loaded, LoadedKey, Boxes, CatalogRows, Synced, Posted, PlanFits, GrantForm,
                NewKeyForm, EditForm
<1>2. ASSUME NEW r \in Requests, Step(r), kind' = kind PROVE Inv'
  BY <1>2, InventoryInv, AliasInv, GrantInv, CallInv DEF Step, CallStep
<1> QED
  BY <1>1, <1>2 DEF Next, Finished

LEMMA SequenceTable == ASSUME NEW S, NEW s \in Seq(S) PROVE Table(s, S)
<1>1. Len(s) \in Nat /\ DOMAIN s = 1 .. Len(s) /\ \A i \in 1 .. Len(s) : s[i] \in S
  OBVIOUS
<1> QED
  BY <1>1 DEF Table, Ids

LEMMA InvInit == Init => Inv
<1> SUFFICES ASSUME Init PROVE Inv
  OBVIOUS
<1>1. PICK s \in Starts :
         /\ kind = s.kind /\ at = [r \in Requests |-> IF kind[r] = None THEN "done" ELSE "new"]
         /\ sources = s.sources /\ catalog = s.catalog /\ aliases = s.aliases /\ keys = s.keys
         /\ granted = s.granted /\ allowed = s.allowed /\ default = s.default
         /\ teams_on = s.teams_on /\ prune = s.prune
  BY DEF Init
<1>2. Control
  BY <1>1 DEF Init, Control, States
<1>3. Tables
  BY <1>1, SequenceTable, RoutingAssumption DEF RoutingAssumption, Tables, UniqueNames, UniqueRows
<1>4. People
  BY <1>1, RoutingAssumption DEF RoutingAssumption, Init, People, KeyRows
<1>5. \A r \in Requests : Shape(r)
  BY <1>1 DEF Init, Shape, Empty
<1> QED
  BY <1>2, <1>3, <1>4, <1>5 DEF Inv

LEMMA InvHolds == Spec => []Inv
<1>1. Inv /\ [Next]_vars => Inv'
  BY InvStep
<1> QED
  BY InvInit, <1>1, PTL DEF Spec

LEMMA InvTypes == Inv => TypeOK
<1> SUFFICES ASSUME Inv PROVE TypeOK
  OBVIOUS
<1>1. /\ \A i \in DOMAIN sources : i \in Nat \ {0} /\ sources[i] \in Source
      /\ \A i \in DOMAIN catalog : i \in Nat \ {0} /\ catalog[i] \in Entry
      /\ \A i \in DOMAIN aliases : i \in Nat \ {0} /\ aliases[i] \in Alias
  BY DEF Inv, Tables, Table, Ids
<1>2. users \subseteq Users \cup Requests /\ teams \subseteq Teams \cup Requests
  BY WhoExists DEF Inv
<1> QED
  BY <1>1, <1>2 DEF Inv, Tables, UniqueNames, UniqueRows, People, KeyRows, Control, States, TypeOK

\* The rows of all tables are what their columns hold, ids are those of SQLite,
\* names of sources and models of a source are unique, and a key's team exists,
\* whichever forms, synchronisations and calls run beside each other.
THEOREM TablesStayWellFormed == Spec => []TypeOK
BY InvHolds, InvTypes, PTL
------------------------------------------------------------------------------
(* Revoked keys. *)

LEMMA KeysChange ==
    ASSUME NEW r \in Requests, Step(r)
    PROVE  keys' = keys \/ DeleteTeam(r) \/ RotateKey(r) \/ RevokeKey(r) \/ Commit(r)
<1>1. CASE GrantStep(r)
  <2>1. CASE LoadSettings(r) \/ LoadGrants(r) \/ LoadKey(r) \/ SetAccess(r) \/ SetRouting(r) \/ Register(r)
    BY <2>1 DEF LoadSettings, LoadGrants, LoadKey, SetAccess, SetRouting, Register, people
  <2>2. CASE \E from : Post(r, from)
    BY <2>2 DEF Post, people
  <2>3. CASE \/ PostAdd(r) \/ PostModelList(r) \/ PostRemove(r) \/ PostUser(r)
             \/ PostDefault(r) \/ PostTeam(r) \/ PostKey(r) \/ PostSetupKey(r)
             \/ PostTeamKey(r) \/ PostOwnKey(r)
    BY <2>2, <2>3 DEF PostAdd, PostModelList, PostRemove, PostUser, PostDefault, PostTeam,
                      PostKey, PostSetupKey, PostTeamKey, PostOwnKey
  <2> QED
    BY <1>1, <2>1, <2>3 DEF GrantStep
<1>2. CASE UNCHANGED setup
  BY <1>2 DEF setup, people
<1>3. CASE CallStep(r)
  BY <1>2, <1>3 DEF CallStep, Route, RouteNamed, Unresolved, Authorize, Reach
<1> QED
  BY <1>1, <1>2, <1>3 DEF Step, CallStep

\* A form loaded before a key was revoked does not make it active again,
\* whatever else of the key it saves.
THEOREM StaleFormsKeepKeysRevoked == Spec => RevocationsStand
<1> DEFINE Stands == \A k \in DOMAIN keys : ~keys[k].active /\ keys'[k].active =>
                        \E r \in Requests : Saves(r, {"key_edit"}) /\ ~read[r][k].active
<1>1. ASSUME Inv, Next PROVE Stands \/ UNCHANGED vars
  <2>1. CASE Finished
    BY <2>1 DEF Finished
  <2>2. ASSUME NEW r \in Requests, Step(r) PROVE Stands
    <3>1. CASE keys' = keys
      BY <3>1
    <3>2. CASE DeleteTeam(r)
      <4>1. PICK t \in teams :
              keys' = [k \in DOMAIN keys |-> [keys[k] EXCEPT !.team = IF @ = t THEN None ELSE @]]
        BY <3>2 DEF DeleteTeam
      <4> QED
        BY <1>1, <4>1, DeleteTeamRows
    <3>3. CASE RotateKey(r) \/ RevokeKey(r)
      BY <1>1, <3>3, SaveKeyRows
    <3>4. CASE Commit(r)
      <4>1. CommittedKeys(r) /\ at[r] = "posted" /\ at'[r] = "done"
        BY <1>1, <3>4, CommitRows, CommitPosted
      <4>2. CASE \A k \in DOMAIN keys : keys'[k] = keys[k]
        BY <4>2
      <4>3. CASE /\ kind[r] = "key_edit"
                 /\ \E k \in DOMAIN keys : \E old, new \in Key :
                      /\ read[r] = Only(k, old) /\ keys'[k] = Flushed(keys[k], old, new)
                      /\ \A l \in DOMAIN keys \ {k} : keys'[l] = keys[l]
        <5>1. PICK k \in DOMAIN keys, old \in Key, new \in Key :
                /\ read[r] = Only(k, old) /\ keys'[k] = Flushed(keys[k], old, new)
                /\ \A l \in DOMAIN keys \ {k} : keys'[l] = keys[l]
          BY <4>3
        <5>2. keys[k] \in Key
          BY <1>1 DEF Inv, People, KeyRows
        <5>3. keys'[k].active = IF new.active = old.active THEN keys[k].active ELSE new.active
          BY <5>1, <5>2, FlushedKey
        <5>4. read[r][k] = old /\ old.active \in BOOLEAN /\ new.active \in BOOLEAN /\ keys[k].active \in BOOLEAN
          BY <5>1, <5>2 DEF Only, Key
        <5>5. ~keys[k].active /\ keys'[k].active => ~read[r][k].active
          BY <5>3, <5>4
        <5>6. Saves(r, {"key_edit"})
          BY <4>1, <4>3 DEF Saves
        <5> QED
          BY <5>1, <5>5, <5>6
      <4> QED
        BY <4>1, <4>2, <4>3 DEF CommittedKeys
    <3> QED
      BY <2>2, <3>1, <3>2, <3>3, <3>4, KeysChange
  <2> QED
    BY <1>1, <2>1, <2>2 DEF Next
<1>2. Inv /\ [Next]_vars => [Stands]_vars
  BY <1>1
<1> QED
  BY <1>2, InvHolds, PTL DEF Spec, RevocationsStand
------------------------------------------------------------------------------
(* What an administrator has switched off. *)

LEMMA GrantStepKeepsInventory ==
    ASSUME NEW r \in Requests, GrantStep(r) PROVE UNCHANGED inventory
<1>1. CASE \E from : Post(r, from)
  BY <1>1 DEF Post
<1>2. CASE \/ PostAdd(r) \/ PostModelList(r) \/ PostRemove(r) \/ PostUser(r)
           \/ PostDefault(r) \/ PostTeam(r) \/ PostKey(r) \/ PostSetupKey(r)
           \/ PostTeamKey(r) \/ PostOwnKey(r)
  BY <1>1, <1>2 DEF PostAdd, PostModelList, PostRemove, PostUser, PostDefault, PostTeam,
                    PostKey, PostSetupKey, PostTeamKey, PostOwnKey
<1>3. CASE \/ LoadSettings(r) \/ LoadGrants(r) \/ LoadKey(r) \/ SetAccess(r) \/ SetRouting(r)
           \/ Register(r) \/ Commit(r) \/ DeleteTeam(r) \/ RotateKey(r) \/ RevokeKey(r)
  BY <1>3 DEF LoadSettings, LoadGrants, LoadKey, SetAccess, SetRouting, Register, Commit, DeleteTeam,
              RotateKey, RevokeKey, SaveKey
<1> QED
  BY <1>2, <1>3 DEF GrantStep

LEMMA OtherStepsKeepInventory ==
    ASSUME NEW r \in Requests, AliasStep(r) \/ GrantStep(r) \/ CallStep(r) PROVE UNCHANGED inventory
<1>1. CASE AliasStep(r)
  BY <1>1 DEF AliasStep, LoadAlias, PostNewAlias, PostAlias, CommitAlias, DeleteAlias
<1>2. CASE CallStep(r)
  BY <1>2 DEF CallStep, Route, RouteNamed, Unresolved, Authorize, Reach
<1> QED
  BY <1>1, <1>2, GrantStepKeepsInventory

LEMMA CatalogChange ==
    ASSUME NEW r \in Requests, Step(r)
    PROVE  \/ catalog' = catalog
           \/ UpdateSource(r) \/ SaveAll(r) \/ SyncCommit(r) \/ SaveModels(r)
<1>1. CASE InventoryStep(r)
  <2>1. CASE \/ Refuse(r) \/ LoadSource(r) \/ CheckName(r) \/ LoadAll(r) \/ ShowModels(r)
             \/ PostModels(r) \/ PostSync(r) \/ AutoSync(r) \/ WizardSync(r) \/ SyncSource(r)
    BY <2>1 DEF Refuse, LoadSource, CheckName, LoadAll, ShowModels, PostModels,
                PostSync, AutoSync, WizardSync, SyncSource, BeginSync, inventory
  <2>2. CASE DeleteSource(r) \/ Upsert(r)
    BY <2>2 DEF DeleteSource, Upsert
  <2> QED
    BY <1>1, <2>1, <2>2 DEF InventoryStep
<1>2. CASE UNCHANGED inventory
  BY <1>2 DEF inventory
<1> QED
  BY <1>1, <1>2, OtherStepsKeepInventory DEF Step, CallStep

\* A save of sources' names leaves all of a row of the catalog but the name.
LEMMA RenamesKeepRows ==
    ASSUME Inv, NEW r \in Requests, UpdateSource(r) \/ SaveAll(r), NEW i \in DOMAIN catalog
    PROVE  catalog'[i].disabled_by = catalog[i].disabled_by
<1>1. catalog[i] \in Entry
  BY DEF Inv, Tables, Table
<1>2. CASE UNCHANGED <<inventory, grants>>
  BY <1>2 DEF inventory
<1>3. CASE \E new, taken : SaveOf(r, new, taken)
  <2>1. PICK new, taken : SaveOf(r, new, taken)
    BY <1>3
  <2> DEFINE f == NewNames(r, new)
  <2>2. catalog' = [j \in DOMAIN catalog |-> [catalog[j] EXCEPT !.source = Renamed(f, @)]]
    BY <2>1 DEF SaveOf, SaveSources, RenameRows
  <2> HIDE DEF f
  <2>3. catalog'[i] = [catalog[i] EXCEPT !.source = Renamed(f, catalog[i].source)]
    BY <2>2
  <2> QED
    BY <1>1, <2>3 DEF Entry
<1> QED
  BY <1>2, <1>3, UpdateSaves, SaveAllSaves DEF Inv

\* A synchronisation changes no row that was off for the administrator when it
\* read it, nor a form one whose empty box it did not tick, however stale.
THEOREM AdministratorsWordStands == Spec => AdminWordStands
<1> DEFINE Stands ==
        \A i \in DOMAIN catalog : catalog[i].disabled_by = "admin" /\ catalog'[i].disabled_by # "admin" =>
            \E r \in Requests :
                \/ Saves(r, {"models"}) /\ draft[r][i].enabled /\ ~read[r][i].enabled
                \/ at[r] = "syncing" /\ at'[r] = "done" /\ read[r][i].disabled_by # "admin"
<1>1. ASSUME Inv, Next PROVE Stands \/ UNCHANGED vars
  <2>1. CASE Finished
    BY <2>1 DEF Finished
  <2>2. ASSUME NEW r \in Requests, Step(r) PROVE Stands
    <3> SUFFICES ASSUME NEW i \in DOMAIN catalog, catalog[i].disabled_by = "admin",
                        catalog'[i].disabled_by # "admin"
                 PROVE  \/ Saves(r, {"models"}) /\ draft[r][i].enabled /\ ~read[r][i].enabled
                        \/ at[r] = "syncing" /\ at'[r] = "done" /\ read[r][i].disabled_by # "admin"
      OBVIOUS
    <3> DEFINE flushed == Updated(catalog, read[r], draft[r])
    <3>1. ASSUME CatalogRows(r)
          PROVE  /\ Table(flushed, Entry) /\ DOMAIN flushed = DOMAIN catalog
                 /\ flushed[i].disabled_by =
                      IF i \in DOMAIN draft[r] /\ draft[r][i].disabled_by # read[r][i].disabled_by
                      THEN draft[r][i].disabled_by ELSE catalog[i].disabled_by
      BY <1>1, <3>1, FlushedCatalog DEF Inv
    <3>2. CASE SyncCommit(r)
      <4>1. at[r] = "syncing" /\ at'[r] = "done" /\ Synced(r)
        BY <1>1, <3>2 DEF SyncCommit, End, Goto, Inv, Control, Shape
      <4>2. fresh[r] \in Seq(Entry) /\ CatalogRows(r)
        BY <4>1 DEF Synced
      <4>3. catalog' = catalog \/ catalog' = Inserted(flushed, fresh[r])
        BY <3>2 DEF SyncCommit
      <4> HIDE DEF flushed
      <4>4. catalog'[i] = catalog[i] \/ catalog'[i] = flushed[i]
        BY <3>1, <4>2, <4>3, InsertedRows
      <4>5. i \in DOMAIN draft[r] /\ draft[r][i].disabled_by # read[r][i].disabled_by
            /\ draft[r][i].disabled_by # "admin"
        BY <3>1, <4>2, <4>4
      <4>6. i \in DOMAIN read[r]
        BY <4>2, <4>5 DEF CatalogRows
      <4> QED
        BY <4>1, <4>5, <4>6 DEF Synced
    <3>3. CASE SaveModels(r)
      <4>1. at[r] = "loaded" /\ at'[r] = "done" /\ Boxes(r) /\ kind[r] = "models"
        BY <1>1, <3>3 DEF SaveModels, End, Goto, Inv, Control, Shape, Loaded
      <4>2. CatalogRows(r) /\ catalog'[i] = flushed[i]
        BY <3>3, <4>1 DEF SaveModels, Boxes
      <4> HIDE DEF flushed
      <4>3. i \in DOMAIN draft[r] /\ draft[r][i].disabled_by # read[r][i].disabled_by
            /\ draft[r][i].disabled_by # "admin"
        BY <3>1, <4>2
      <4>4. i \in DOMAIN read[r]
        BY <4>2, <4>3 DEF CatalogRows
      <4>5. draft[r][i].enabled /\ ~read[r][i].enabled
        BY <4>1, <4>3, <4>4 DEF Boxes
      <4>6. Saves(r, {"models"})
        BY <4>1 DEF Saves
      <4> QED
        BY <4>5, <4>6
    <3>4. CASE UpdateSource(r) \/ SaveAll(r)
      BY <1>1, <3>4, RenamesKeepRows
    <3> QED
      BY <2>2, <3>2, <3>3, <3>4, CatalogChange
  <2> QED
    BY <1>1, <2>1, <2>2 DEF Next
<1>2. Inv /\ [Next]_vars => [Stands]_vars
  BY <1>1
<1> QED
  BY <1>2, InvHolds, PTL DEF Spec, AdminWordStands
------------------------------------------------------------------------------
(* Calls. *)

LEMMA ListedTyped ==
    ASSUME Inv, NEW g \in Grantees, NEW name
    PROVE  Listed(g, name) \in SUBSET (Models \cup Aliases) /\ Listed(g, name) # None
<1>1. allowed[g] \in SUBSET Pairs
  BY DEF Inv, Tables
<1>2. Listed(g, name) \in SUBSET (Models \cup Aliases)
  BY <1>1 DEF Listed, Pairs
<1> QED
  BY <1>2, GrantsAssumption DEF GrantsAssumption

\* What a key is authorized for through its ceiling is what it may use.
LEMMA AuthorizedUse ==
    ASSUME Inv, NEW k \in DOMAIN keys, NEW i \in DOMAIN sources, NEW model,
           Authorized(k, keys[k], sources[i].name, model)
    PROVE  MayUse(k, i, model)
<1> DEFINE key == keys[k]
           name == sources[i].name
           above == IF key.team # None THEN key.team ELSE key.owner
           c == Ceiling(key)
           allow == EffectiveModels(k, key, name)
<1>1. /\ k \in Grantees /\ above \in Grantees \cup {None} /\ name \in Names
      /\ above = None => key.team = None /\ key.owner = None
  <2>1. key.team \in teams \cup {None} /\ key.owner \in users \cup {None}
    BY DEF Inv, People, KeyRows
  <2>2. sources[i] \in Source
    BY DEF Inv, Tables, Table
  <2> QED
    BY <2>1, <2>2, WhoExists DEF Inv, Source
<1>2. /\ key.active /\ name \in EffectiveSources(k, key) /\ model \in EnabledModels(name)
      /\ ~ModelAllowed(k, key, name, model) => AllowedViaAlias(allow, model)
  BY DEF Authorized
<1>3. granted[k] = {} \/ name \in granted[k]
  BY <1>2 DEF EffectiveSources
<1>4. Listed(k, name) \in SUBSET (Models \cup Aliases) /\ Listed(k, name) # None
  BY <1>1, ListedTyped
<1>5. \A S : S # None /\ (S = allow \/ (allow \subseteq S /\ allow # None)) =>
         \/ model \in S
         \/ \E j \in DOMAIN aliases : aliases[j].target = model /\ aliases[j].name \in S
  BY <1>2 DEF ModelAllowed, AllowedViaAlias
<1>6. allow = IF Listed(k, name) = {} THEN ModelsFor(c, name)
              ELSE IF ModelsFor(c, name) = None THEN Listed(k, name)
              ELSE Listed(k, name) \cap ModelsFor(c, name)
  BY <1>2 DEF EffectiveModels
<1>7. Listed(k, name) \cap ModelsFor(c, name) # None
  <2>1. Listed(k, name) \cap ModelsFor(c, name) \in SUBSET (Models \cup Aliases)
    BY <1>4
  <2> QED
    BY <2>1, GrantsAssumption DEF GrantsAssumption
<1> HIDE DEF allow, name, key
<1>8. Suits(k, name, model)
  <2>1. CASE Listed(k, name) = {}
    BY <2>1 DEF Suits
  <2>2. CASE Listed(k, name) # {}
    <3>1. Listed(k, name) = allow \/ (allow \subseteq Listed(k, name) /\ allow # None)
      BY <1>6, <1>7, <2>2
    <3> QED
      BY <1>4, <1>5, <3>1 DEF Suits
  <2> QED
    BY <2>1, <2>2
<1>9. ASSUME above \notin Admins \cup {None} PROVE name \in granted[above] /\ Suits(above, name, model)
  <2>1. c = CeilingFrom(above)
    BY <1>9 DEF Ceiling
  <2> DEFINE lists == [n \in Names |-> IF Listed(above, n) = {} THEN None ELSE Listed(above, n)]
  <2>2. c = [all |-> FALSE, sources |-> granted[above], models |-> lists]
    BY <1>9, <2>1 DEF CeilingFrom
  <2>3. lists[name] = IF Listed(above, name) = {} THEN None ELSE Listed(above, name)
    BY <1>1
  <2> HIDE DEF lists
  <2>4. ~c.all /\ c.sources = granted[above] /\ c.models = lists
    BY <2>2
  <2>5. name \in granted[above]
    BY <1>2, <2>4 DEF EffectiveSources
  <2>6. ModelsFor(c, name) = IF Listed(above, name) = {} THEN None ELSE Listed(above, name)
    BY <2>3, <2>4, <2>5 DEF ModelsFor
  <2>7. Listed(above, name) # None
    BY <1>1, <1>9, ListedTyped
  <2>8. Suits(above, name, model)
    <3>1. CASE Listed(above, name) = {}
      BY <3>1 DEF Suits
    <3>2. CASE Listed(above, name) # {}
      <4>1. ModelsFor(c, name) = Listed(above, name)
        BY <2>6, <3>2
      <4>2. Listed(above, name) = allow \/ (allow \subseteq Listed(above, name) /\ allow # None)
        BY <1>6, <1>7, <2>7, <4>1
      <4> QED
        BY <1>5, <2>7, <4>2 DEF Suits
    <3> QED
      BY <3>1, <3>2
  <2> QED
    BY <2>5, <2>8
<1> HIDE DEF above
<1> QED
  BY <1>2, <1>3, <1>8, <1>9 DEF MayUse, above, key, name

\* In every state a call is authorized only for what its key, and the team or
\* owner above the key, are granted: the ceilings of grants.py and their empty
\* lists come down to the plain MayUse ("Keys may only use a subset of their
\* ceiling.  Empty key fields inherit the grant").
THEOREM KeysUseTheirGrants ==
    Spec => [](\A k \in DOMAIN keys : \A i \in DOMAIN sources : \A model :
                 Authorized(k, keys[k], sources[i].name, model) => MayUse(k, i, model))
<1>1. Inv => \A k \in DOMAIN keys : \A i \in DOMAIN sources : \A model :
               Authorized(k, keys[k], sources[i].name, model) => MayUse(k, i, model)
  BY AuthorizedUse
<1> QED
  BY <1>1, InvHolds, PTL

\* Calls under way: the name a call is authorized for has changed hands since,
\* or all sources that have it are sources its key might use.
CallsFit ==
    /\ DOMAIN call = Requests /\ DOMAIN cleared = Requests /\ DOMAIN reached = Requests
    /\ \A r \in Requests :
         /\ at[r] \in {"routed", "authorized"} => call[r].source \in Names /\ call[r].key \in DOMAIN keys
         /\ at[r] = "authorized" =>
              call[r].source \in moved[r] \/ Holder(call[r].source) \subseteq cleared[r]

\* Requests of other kinds are never where calls are.
LEMMA OthersAreNoCalls ==
    ASSUME Inv, NEW r \in Requests, InventoryStep(r) \/ AliasStep(r) \/ GrantStep(r)
    PROVE  at'[r] \notin {"routed", "authorized"}
<1>0. at \in [Requests -> States]
  BY DEF Inv, Control
<1>1. ASSUME NEW from, NEW to, Goto(r, from, to) PROVE at'[r] = to
  BY <1>0, <1>1 DEF Goto
<1>2. ASSUME NEW from, End(r, from) PROVE at'[r] = "done"
  BY <1>1, <1>2 DEF End
<1>3. ASSUME NEW from, Post(r, from) PROVE at'[r] = "posted"
  BY <1>1, <1>3 DEF Post
<1>4. CASE InventoryStep(r)
  <2>1. CASE Refuse(r) \/ UpdateSource(r) \/ DeleteSource(r) \/ Upsert(r) \/ SyncCommit(r) \/ SaveModels(r)
    BY <1>2, <2>1 DEF Refuse, UpdateSource, DeleteSource, Upsert, SyncCommit, SaveModels
  <2>2. CASE \/ LoadSource(r) \/ CheckName(r) \/ LoadAll(r) \/ ShowModels(r)
             \/ PostModels(r) \/ PostSync(r) \/ AutoSync(r) \/ WizardSync(r)
    BY <1>1, <2>2 DEF LoadSource, CheckName, LoadAll, ShowModels, PostModels, PostSync, AutoSync,
                      WizardSync, BeginSync
  <2>3. CASE SaveAll(r)
    BY <1>1, <1>2, <2>3 DEF SaveAll
  <2>4. CASE SyncSource(r)
    BY <2>4 DEF SyncSource
  <2> QED
    BY <1>4, <2>1, <2>2, <2>3, <2>4 DEF InventoryStep
<1>5. CASE AliasStep(r)
  BY <1>1, <1>2, <1>5 DEF AliasStep, LoadAlias, PostNewAlias, PostAlias, CommitAlias, DeleteAlias
<1>6. CASE GrantStep(r)
  <2>1. CASE LoadSettings(r) \/ LoadGrants(r) \/ LoadKey(r)
    BY <1>1, <2>1 DEF LoadSettings, LoadGrants, LoadKey
  <2>2. CASE \/ SetAccess(r) \/ SetRouting(r) \/ Register(r) \/ Commit(r) \/ DeleteTeam(r)
             \/ RotateKey(r) \/ RevokeKey(r)
    BY <1>2, <2>2 DEF SetAccess, SetRouting, Register, Commit, DeleteTeam, RotateKey, RevokeKey, SaveKey
  <2>3. CASE \/ PostAdd(r) \/ PostModelList(r) \/ PostRemove(r) \/ PostUser(r)
             \/ PostDefault(r) \/ PostTeam(r) \/ PostKey(r) \/ PostSetupKey(r)
             \/ PostTeamKey(r) \/ PostOwnKey(r)
    BY <1>3, <2>3 DEF PostAdd, PostModelList, PostRemove, PostUser, PostDefault, PostTeam,
                      PostKey, PostSetupKey, PostTeamKey, PostOwnKey
  <2> QED
    BY <1>6, <2>1, <2>2, <2>3 DEF GrantStep
<1> QED
  BY <1>4, <1>5, <1>6
LEMMA CallsOfOthers ==
    ASSUME CallsFit, NEW r \in Requests, Step(r)
    PROVE  /\ DOMAIN call' = Requests /\ DOMAIN cleared' = Requests /\ DOMAIN reached' = Requests
           /\ \A q \in Requests \ {r} :
                call'[q] = call[q] /\ cleared'[q] = cleared[q] /\ reached'[q] = reached[q]
           /\ reached' = reached \/ Reach(r)
<1>1. CASE UNCHANGED calls
  BY <1>1 DEF CallsFit, calls, history
<1>2. CASE Route(r) \/ RouteNamed(r)
  BY <1>2 DEF CallsFit, Route, RouteNamed, Routed, history
<1>3. CASE Unresolved(r)
  BY <1>1, <1>3 DEF Unresolved
<1>4. CASE Authorize(r)
  <2>1. /\ call' = call \/ call' = [call EXCEPT ![r] = NoCall]
        /\ cleared' = cleared \/ \E S : cleared' = [cleared EXCEPT ![r] = S]
        /\ reached' = reached
    BY <1>4 DEF Authorize
  <2> QED
    BY <2>1 DEF CallsFit
<1>5. CASE Reach(r)
  <2>1. /\ call' = [call EXCEPT ![r] = NoCall] /\ cleared' = cleared
        /\ \E n : reached' = [reached EXCEPT ![r] = n]
    BY <1>5 DEF Reach
  <2> QED
    BY <1>5, <2>1 DEF CallsFit
<1> QED
  BY <1>1, <1>2, <1>3, <1>4, <1>5 DEF Step

LEMMA CallsFitStep ==
    ASSUME Inv, CallsFit, NEW r \in Requests, Step(r), Watch, kind' = kind
    PROVE  CallsFit'
<1>1. Frame(r)
  BY StepFrame DEF Inv
<1>2. /\ DOMAIN call' = Requests /\ DOMAIN cleared' = Requests /\ DOMAIN reached' = Requests
      /\ \A q \in Requests \ {r} : call'[q] = call[q] /\ cleared'[q] = cleared[q]
  BY CallsOfOthers
<1> DEFINE changed == {n \in Names : Holder(n)' # Holder(n)}
                      \cup UNION {LeftBy(q) : q \in {p \in Requests : Renames(p)}}
<1>3. \A q \in Requests :
        moved'[q] = IF at[q] = "new" \/ at'[q] = "done" THEN {} ELSE moved[q] \cup changed
  BY DEF Watch
<1>4. \A n \in Names : n \in changed \/ Holder(n)' = Holder(n)
  OBVIOUS
<1> HIDE DEF changed
<1>5. ASSUME NEW q \in Requests \ {r}
      PROVE  /\ at'[q] \in {"routed", "authorized"} => call'[q].source \in Names /\ call'[q].key \in DOMAIN keys'
             /\ at'[q] = "authorized" =>
                  call'[q].source \in moved'[q] \/ Holder(call[q].source)' \subseteq cleared'[q]
  <2>1. at'[q] = at[q] /\ DOMAIN keys \subseteq DOMAIN keys'
    BY <1>1 DEF Frame
  <2> QED
    BY <1>2, <1>3, <1>4, <2>1 DEF CallsFit
<1>6. /\ at'[r] \in {"routed", "authorized"} => call'[r].source \in Names /\ call'[r].key \in DOMAIN keys'
      /\ at'[r] = "authorized" => Holder(call[r].source)' \subseteq cleared'[r]
  <2>1. CASE Route(r) \/ RouteNamed(r)
    <3>1. at'[r] = "routed" /\ keys' = keys
      BY <2>1 DEF Route, RouteNamed, Prepare, Goto, Inv, Control, setup, people
    <3>2. \A i \in DOMAIN sources : sources[i].name \in Names
      BY DEF Inv, Tables, Table, Source
    <3>3. PICK k \in DOMAIN keys, name \in Names : \E model : Routed(r, k, model, name)
      <4>1. CASE Route(r)
        <5>1. PICK k \in DOMAIN keys, asked \in Models \cup AliasNames, name \in Names :
                LET tied == Tied(k, keys[k], Target(asked))
                IN  /\ tied # {} /\ Pick(tied, Target(asked), PinOf(keys[k], asked), name)
                    /\ Routed(r, k, Target(asked), name)
          BY <4>1 DEF Route
        <5> QED
          BY <5>1
      <4>2. CASE RouteNamed(r)
        <5>1. PICK k \in DOMAIN keys, asked \in Models \cup AliasNames, name \in SourceNames :
                Routed(r, k, Target(asked), name)
          BY <4>2 DEF RouteNamed
        <5>2. name \in Names
          BY <3>2 DEF SourceNames
        <5> QED
          BY <5>1, <5>2
      <4> QED
        BY <2>1, <4>1, <4>2
    <3>4. PICK model : Routed(r, k, model, name)
      BY <3>3
    <3>5. call'[r].source = name /\ call'[r].key = k
      BY <3>4 DEF Routed, CallsFit
    <3> QED
      BY <3>1, <3>5
  <2>2. CASE Unresolved(r) \/ Reach(r)
    <3>1. at'[r] = "done"
      BY <2>2 DEF Unresolved, Reach, End, Goto, Inv, Control
    <3> QED
      BY <3>1
  <2>3. CASE Authorize(r)
    <3>1. CASE at'[r] = "authorized"
      <4> DEFINE c == call[r]
      <4>1. at[r] = "routed" /\ UNCHANGED <<sources, catalog, keys>>
        BY <2>3 DEF Authorize, inventory, setup, people
      <4>2. /\ Authorized(c.key, keys[c.key], c.source, c.model)
            /\ cleared' = [cleared EXCEPT ![r] = {i \in DOMAIN sources : MayUse(c.key, i, c.model)}]
            /\ call' = call
        BY <2>3, <3>1 DEF Authorize, End, Goto, Inv, Control
      <4>3. c.source \in Names /\ c.key \in DOMAIN keys
        BY <4>1 DEF CallsFit
      <4>4. \A i \in Holder(c.source) : i \in DOMAIN sources /\ MayUse(c.key, i, c.model)
        BY <4>2, <4>3, AuthorizedUse DEF Holder
      <4>5. cleared'[r] = {i \in DOMAIN sources : MayUse(c.key, i, c.model)}
        BY <4>2 DEF CallsFit
      <4>6. Holder(c.source)' = Holder(c.source)
        BY <4>1, <4>2 DEF Holder
      <4>7. Holder(call[r].source)' \subseteq cleared'[r]
        BY <4>2, <4>4, <4>5, <4>6
      <4> QED
        BY <4>1, <4>2, <4>3, <4>7
    <3>2. CASE at'[r] # "authorized"
      <4>1. at'[r] = "done"
        BY <2>3, <3>2 DEF Authorize, End, Goto, Inv, Control
      <4> QED
        BY <4>1
    <3> QED
      BY <3>1, <3>2
  <2>4. CASE InventoryStep(r) \/ AliasStep(r) \/ GrantStep(r)
    BY <2>4, OthersAreNoCalls
  <2> QED
    BY <2>1, <2>2, <2>3, <2>4 DEF Step
<1>7. ASSUME NEW q \in Requests
      PROVE  /\ at'[q] \in {"routed", "authorized"} => call'[q].source \in Names /\ call'[q].key \in DOMAIN keys'
             /\ at'[q] = "authorized" =>
                  call'[q].source \in moved'[q] \/ Holder(call[q].source)' \subseteq cleared'[q]
  BY <1>5, <1>6
<1> QED
  BY <1>2, <1>7 DEF CallsFit

\* Between authorization and the look-up of the address a call's source may
\* lose its name: only then can the call reach a source its key might not use.
THEOREM CallsReachWhatTheyMay == Spec => CallsStayGranted
<1> DEFINE Granted ==
        \A r \in Requests : reached'[r] # reached[r] /\ reached'[r] # 0 =>
            reached'[r] \in cleared[r] \/ call[r].source \in moved[r]
<1>1. Init => CallsFit
  BY DEF Init, CallsFit
<1>2. Inv /\ CallsFit /\ [Next]_vars => CallsFit'
  <2>1. CASE UNCHANGED vars
    BY <2>1 DEF vars, calls, history, setup, people, inventory, CallsFit, Holder
  <2> QED
    BY <2>1, CallsFitStep DEF Next, Finished
<1>3. ASSUME Inv, CallsFit, Next PROVE Granted \/ UNCHANGED vars
  <2>1. ASSUME NEW r \in Requests, Step(r) PROVE Granted
    <3>1. \A q \in Requests \ {r} : reached'[q] = reached[q]
      BY <1>3, <2>1, CallsOfOthers
    <3>2. CASE reached' = reached
      BY <3>2
    <3>3. CASE Reach(r)
      <4> DEFINE at_name == {i \in DOMAIN sources : sources[i].name = call[r].source /\ sources[i].addressed}
      <4>1. at[r] = "authorized" /\ reached'[r] = Max({0} \cup at_name)
        BY <1>3, <3>3 DEF Reach, End, Goto, CallsFit
      <4>2. at_name \subseteq Holder(call[r].source)
        BY DEF Holder
      <4>3. PICK b \in Nat : \A i \in DOMAIN sources : i <= b
        BY <1>3 DEF Inv, Tables, Table
      <4>4. {0} \cup at_name \in SUBSET Nat /\ \A i \in {0} \cup at_name : i <= b
        BY <1>3, <4>3 DEF Inv, Tables, Table, Ids
      <4>5. Max({0} \cup at_name) \in {0} \cup at_name
        BY <4>4, GreatestNatural
      <4>6. reached'[r] = 0 \/ reached'[r] \in Holder(call[r].source)
        BY <4>1, <4>2, <4>5
      <4>7. reached'[r] # 0 => reached'[r] \in cleared[r] \/ call[r].source \in moved[r]
        BY <1>3, <4>1, <4>6 DEF CallsFit
      <4> QED
        BY <3>1, <4>7
    <3> QED
      BY <1>3, <2>1, <3>2, <3>3, CallsOfOthers
  <2> QED
    BY <1>3, <2>1 DEF Next, Finished
<1>4. Inv /\ CallsFit /\ [Next]_vars => [Granted]_vars
  BY <1>3
<1> QED
  BY <1>1, <1>2, <1>4, InvHolds, PTL DEF Spec, CallsStayGranted
------------------------------------------------------------------------------
(* The limit of keys. *)

\* The transaction of a new key meets the number of keys its form was checked with.
KeysFit ==
    /\ IsFiniteSet(DOMAIN keys)
    /\ \A r \in Requests :
         kind[r] = "key_new" /\ at[r] = "posted" /\ MaxKeys # 0 =>
            \/ draft[r][r].owner \in Admins
            \/ Cardinality(ActiveKeys(draft[r][r].owner)) < MaxKeys

\* A request in the transaction of a new key is a form that was just posted.
LEMMA PostedNewKey ==
    ASSUME Inv, NEW r \in Requests, Step(r), kind' = kind, kind[r] = "key_new", at'[r] = "posted"
    PROVE  /\ UNCHANGED keys
           /\ MaxKeys # 0 =>
                \/ draft'[r][r].owner \in Admins
                \/ Cardinality(ActiveKeys(draft'[r][r].owner)) < MaxKeys
<1>0. at \in [Requests -> States]
  BY DEF Inv, Control
<1>1. CASE PostKey(r)
  <2>1. PICK u \in users, g \in (IF switch[r] THEN teams \cup {None} ELSE {None}), t \in Ticks :
          /\ MayCreate(u) /\ draft' = [draft EXCEPT ![r] = Only(r, NewKey(u, g, t))]
    BY <1>1 DEF PostKey
  <2>2. draft'[r] = Only(r, NewKey(u, g, t))
    BY <2>1 DEF Inv, Control
  <2>3. draft'[r][r].owner = u
    BY <2>2 DEF Only, NewKey
  <2> QED
    BY <1>1, <2>1, <2>3 DEF MayCreate, PostKey, Post, people
<1>2. CASE InventoryStep(r)
  <2>1. CASE \E from : End(r, from)
    BY <1>0, <2>1 DEF End, Goto
  <2>2. CASE ~\E from : End(r, from)
    BY <1>2, <2>2 DEF InventoryStep, Refuse, UpdateSource, DeleteSource, Upsert, SyncCommit, SaveModels,
        LoadSource, CheckName, LoadAll, SaveAll, PostSync, AutoSync, WizardSync, SyncSource,
        ShowModels, PostModels, Inv, Shape
  <2> QED
    BY <2>1, <2>2
<1>3. CASE AliasStep(r)
  BY <1>3 DEF AliasStep, LoadAlias, PostNewAlias, PostAlias, CommitAlias, DeleteAlias
<1>4. CASE CallStep(r)
  BY <1>4, CallFrame DEF Inv
<1>5. CASE GrantStep(r)
  <2>1. CASE Commit(r)
    BY <1>0, <2>1 DEF Commit, End, Goto
  <2>2. CASE LoadSettings(r)
    BY <1>0, <2>2 DEF LoadSettings, Goto
  <2> QED
    BY <1>1, <1>5, <2>1, <2>2 DEF GrantStep, LoadGrants, PostAdd, PostModelList, PostRemove, PostUser, Register,
        PostDefault, PostTeam, DeleteTeam, PostSetupKey, LoadKey, PostTeamKey, PostOwnKey,
        RotateKey, RevokeKey, SetAccess, SetRouting
<1> QED
  BY <1>2, <1>3, <1>4, <1>5 DEF Step, CallStep

\* Other steps than transactions of forms leave nobody with more active keys.
LEMMA OtherStepsAddNoKeys ==
    ASSUME Inv, NEW r \in Requests, Step(r), ~Commit(r)
    PROVE  DOMAIN keys' = DOMAIN keys /\ \A u : ActiveKeys(u)' \subseteq ActiveKeys(u)
<1>1. CASE keys' = keys
  BY <1>1 DEF ActiveKeys
<1>2. CASE RotateKey(r) \/ RevokeKey(r)
  BY <1>2, SaveKeyRows DEF ActiveKeys
<1>3. CASE DeleteTeam(r)
  <2>1. PICK t \in teams :
          keys' = [k \in DOMAIN keys |-> [keys[k] EXCEPT !.team = IF @ = t THEN None ELSE @]]
    BY <1>3 DEF DeleteTeam
  <2>2. DOMAIN keys' = DOMAIN keys /\ \A k \in DOMAIN keys :
          keys'[k].owner = keys[k].owner /\ keys'[k].active = keys[k].active
    BY <2>1, DeleteTeamRows
  <2> QED
    BY <2>2 DEF ActiveKeys
<1> QED
  BY <1>1, <1>2, <1>3, KeysChange

LEMMA KeysFitStep ==
    ASSUME Inv, KeysFit, NEW r \in Requests, Step(r), kind' = kind
    PROVE  KeysFit'
<1>1. Frame(r)
  BY StepFrame DEF Inv
<1>2. CASE Commit(r)
  <2>1. at[r] = "posted" /\ at'[r] = "done" /\ loop = r /\ CommittedKeys(r)
    BY <1>2, CommitPosted, CommitRows
  <2>2. IsFiniteSet(DOMAIN keys')
    <3>1. DOMAIN keys' = DOMAIN keys \/ DOMAIN keys' = DOMAIN keys \cup {r}
      BY <2>1 DEF CommittedKeys
    <3> QED
      BY <3>1, FS_AddElement DEF KeysFit
  <2>3. \A q \in Requests : at'[q] # "posted"
    <3>1. \A q \in Requests \ {r} : at'[q] = at[q]
      BY <1>1 DEF Frame
    <3>2. \A q \in Requests \ {r} : at[q] # "posted"
      BY <2>1 DEF Inv, Shape
    <3> QED
      BY <2>1, <3>1, <3>2
  <2> QED
    BY <2>2, <2>3 DEF KeysFit
<1>3. CASE ~Commit(r)
  <2>1. DOMAIN keys' = DOMAIN keys /\ \A u : ActiveKeys(u)' \subseteq ActiveKeys(u)
    BY <1>3, OtherStepsAddNoKeys
  <2>2. \A u : IsFiniteSet(ActiveKeys(u))
    <3>1. \A u : ActiveKeys(u) \subseteq DOMAIN keys
      BY DEF ActiveKeys
    <3> QED
      BY <3>1, FS_Subset DEF KeysFit
  <2>3. \A u : /\ Cardinality(ActiveKeys(u)) \in Nat /\ Cardinality(ActiveKeys(u)') \in Nat
               /\ Cardinality(ActiveKeys(u)') <= Cardinality(ActiveKeys(u))
    BY <2>1, <2>2, FS_Subset, FS_CardinalityType
  <2>4. ASSUME NEW q \in Requests, kind[q] = "key_new", at'[q] = "posted", MaxKeys # 0
        PROVE  \/ draft'[q][q].owner \in Admins
               \/ Cardinality(ActiveKeys(draft[q][q].owner)') < MaxKeys
    <3>1. CASE q = r
      <4>1. /\ keys' = keys
            /\ \/ draft'[r][r].owner \in Admins
               \/ Cardinality(ActiveKeys(draft'[r][r].owner)) < MaxKeys
        BY <2>4, <3>1, PostedNewKey
      <4> QED
        BY <3>1, <4>1 DEF ActiveKeys
    <3>2. CASE q # r
      <4>1. at'[q] = at[q] /\ draft'[q] = draft[q]
        BY <1>1, <3>2 DEF Frame
      <4>2. \/ draft[q][q].owner \in Admins
            \/ Cardinality(ActiveKeys(draft[q][q].owner)) < MaxKeys
        BY <2>4, <4>1 DEF KeysFit
      <4>3. ActiveKeys(draft[q][q].owner)' = {k \in DOMAIN keys' : keys'[k].owner = draft[q][q].owner /\ keys'[k].active}
        BY <4>1 DEF ActiveKeys
      <4> QED
        BY <2>3, <4>1, <4>2, GrantsAssumption DEF GrantsAssumption
    <3> QED
      BY <3>1, <3>2
  <2> QED
    BY <2>1, <2>4 DEF KeysFit
<1> QED
  BY <1>2, <1>3

\* Requests that ask for keys of one user at the same time do not exceed the
\* limit together: the check and the transaction are on one event loop.
THEOREM KeysStayWithinLimit == Spec => NewKeysWithinLimit
<1> DEFINE Within ==
        \A r \in Requests : Saves(r, {"key_new"}) /\ MaxKeys # 0 =>
            \A u \in users \ Admins : Cardinality(ActiveKeys(u)) < Cardinality(ActiveKeys(u)') =>
                Cardinality(ActiveKeys(u)') <= MaxKeys
<1>1. Init => KeysFit
  <2> SUFFICES ASSUME Init PROVE KeysFit
    OBVIOUS
  <2>1. DOMAIN keys = Keys /\ \A r \in Requests : at[r] # "posted"
    BY RoutingAssumption DEF Init, RoutingAssumption
  <2> QED
    BY <2>1, GrantsAssumption DEF KeysFit, GrantsAssumption
<1>2. Inv /\ KeysFit /\ [Next]_vars => KeysFit'
  <2>1. CASE UNCHANGED vars
    BY <2>1 DEF vars, setup, people, KeysFit, ActiveKeys
  <2> QED
    BY <2>1, KeysFitStep DEF Next, Finished
<1>3. ASSUME Inv, KeysFit, Next PROVE Within \/ UNCHANGED vars
  <2>1. ASSUME NEW r \in Requests, Step(r), kind' = kind PROVE Within
    <3> SUFFICES ASSUME NEW q \in Requests, Saves(q, {"key_new"}), MaxKeys # 0, NEW u \in users \ Admins,
                        Cardinality(ActiveKeys(u)) < Cardinality(ActiveKeys(u)')
                 PROVE  Cardinality(ActiveKeys(u)') <= MaxKeys
      OBVIOUS
    <3>1. IsFiniteSet(ActiveKeys(u)) /\ Cardinality(ActiveKeys(u)) \in Nat /\ MaxKeys \in Nat
      <4>1. ActiveKeys(u) \subseteq DOMAIN keys
        BY DEF ActiveKeys
      <4> QED
        BY <4>1, <1>3, FS_Subset, FS_CardinalityType, GrantsAssumption DEF KeysFit, GrantsAssumption
    <3>2. CASE ~Commit(r)
      <4>1. ActiveKeys(u)' \subseteq ActiveKeys(u)
        BY <1>3, <2>1, <3>2, OtherStepsAddNoKeys
      <4>2. /\ Cardinality(ActiveKeys(u)') \in Nat
            /\ Cardinality(ActiveKeys(u)') <= Cardinality(ActiveKeys(u))
        BY <3>1, <4>1, FS_Subset, FS_CardinalityType
      <4> QED
        BY <3>1, <4>2
    <3>3. CASE Commit(r)
      <4>1. at[r] = "posted" /\ CommittedKeys(r) /\ Frame(r)
        BY <1>3, <2>1, <3>3, CommitPosted, CommitRows
      <4>2. q = r /\ kind[r] = "key_new"
        BY <4>1 DEF Saves, Frame
      <4>3. DOMAIN keys' = DOMAIN keys /\ (\A k \in DOMAIN keys : keys'[k] = keys[k])
               => ActiveKeys(u)' = ActiveKeys(u)
        BY DEF ActiveKeys
      <4>4. /\ DOMAIN keys' = DOMAIN keys \cup {r} /\ \A k \in DOMAIN keys : keys'[k] = keys[k]
            /\ keys'[r] = draft[r][r] /\ r \notin DOMAIN keys
        BY <3>1, <4>1, <4>2, <4>3 DEF CommittedKeys
      <4>5. ActiveKeys(u)' = ActiveKeys(u) \cup {k \in {r} : keys'[r].owner = u /\ keys'[r].active}
        BY <4>4 DEF ActiveKeys
      <4>6. keys'[r].owner = u /\ ActiveKeys(u)' = ActiveKeys(u) \cup {r}
        BY <3>1, <4>5
      <4>7. Cardinality(ActiveKeys(u)) < MaxKeys
        BY <1>3, <4>1, <4>2, <4>4, <4>6 DEF KeysFit
      <4>8. Cardinality(ActiveKeys(u)') <= Cardinality(ActiveKeys(u)) + 1
        <5>1. r \notin ActiveKeys(u)
          BY <4>4 DEF ActiveKeys
        <5>2. Cardinality(ActiveKeys(u) \cup {r}) = Cardinality(ActiveKeys(u)) + 1
          BY <3>1, <5>1, FS_AddElement
        <5> QED
          BY <3>1, <4>6, <5>2
      <4>9. Cardinality(ActiveKeys(u)') \in Nat
        BY <3>1, <4>6, FS_AddElement, FS_CardinalityType
      <4> QED
        BY <3>1, <4>7, <4>8, <4>9
    <3> QED
      BY <3>2, <3>3
  <2> QED
    BY <1>3, <2>1 DEF Next, Finished
<1>4. Inv /\ KeysFit /\ [Next]_vars => [Within]_vars
  BY <1>3
<1> QED
  BY <1>1, <1>2, <1>4, InvHolds, PTL DEF Spec, NewKeysWithinLimit
------------------------------------------------------------------------------
(* What is granted. *)

LEMMA GrantsChange ==
    ASSUME NEW r \in Requests, Step(r)
    PROVE  UNCHANGED grants \/ UpdateSource(r) \/ SaveAll(r) \/ DeleteTeam(r) \/ Register(r) \/ Commit(r)
<1>1. CASE InventoryStep(r)
  <2>1. CASE \/ Refuse(r) \/ LoadSource(r) \/ CheckName(r) \/ LoadAll(r) \/ ShowModels(r)
             \/ PostModels(r) \/ PostSync(r) \/ AutoSync(r) \/ WizardSync(r) \/ SyncSource(r)
    BY <2>1 DEF Refuse, LoadSource, CheckName, LoadAll, ShowModels, PostModels,
                PostSync, AutoSync, WizardSync, SyncSource, BeginSync
  <2>2. CASE DeleteSource(r) \/ Upsert(r) \/ SyncCommit(r) \/ SaveModels(r)
    BY <2>2 DEF DeleteSource, Upsert, SyncCommit, SaveModels
  <2> QED
    BY <1>1, <2>1, <2>2 DEF InventoryStep
<1>2. CASE AliasStep(r)
  BY <1>2 DEF AliasStep, LoadAlias, PostNewAlias, PostAlias, CommitAlias, DeleteAlias
<1>3. CASE CallStep(r)
  BY <1>3 DEF CallStep, Route, RouteNamed, Unresolved, Authorize, Reach
<1>4. CASE GrantStep(r)
  <2>1. CASE \E from : Post(r, from)
    BY <2>1 DEF Post
  <2>2. CASE \/ PostAdd(r) \/ PostModelList(r) \/ PostRemove(r) \/ PostUser(r)
             \/ PostDefault(r) \/ PostTeam(r) \/ PostKey(r) \/ PostSetupKey(r)
             \/ PostTeamKey(r) \/ PostOwnKey(r)
    BY <2>1, <2>2 DEF PostAdd, PostModelList, PostRemove, PostUser, PostDefault, PostTeam,
                      PostKey, PostSetupKey, PostTeamKey, PostOwnKey
  <2>3. CASE \/ LoadSettings(r) \/ LoadGrants(r) \/ LoadKey(r) \/ SetAccess(r) \/ SetRouting(r)
             \/ RotateKey(r) \/ RevokeKey(r)
    BY <2>3 DEF LoadSettings, LoadGrants, LoadKey, SetAccess, SetRouting, RotateKey, RevokeKey, SaveKey
  <2> QED
    BY <1>4, <2>2, <2>3 DEF GrantStep
<1> QED
  BY <1>1, <1>2, <1>3, <1>4 DEF Step, CallStep

\* A name that a save changes is one it leaves, for the name its source gets.
LEMMA RenameStep ==
    ASSUME Inv, NEW r \in Requests, UpdateSource(r) \/ SaveAll(r)
    PROVE  \/ UNCHANGED <<inventory, grants>>
           \/ \E f : /\ RenameRows(f) /\ Renames(r)
                     /\ \A n : Renamed(f, n) # n =>
                          /\ n \in LeftBy(r)
                          /\ \E i \in DOMAIN sources \cap DOMAIN read[r] :
                               read[r][i].name = n /\ sources'[i].name = Renamed(f, n)
<1>1. CASE UNCHANGED <<inventory, grants>>
  BY <1>1
<1>2. CASE \E new, taken : SaveOf(r, new, taken)
  <2>1. PICK new, taken : SaveOf(r, new, taken)
    BY <1>2
  <2>0. NamesFrom(r, new)
    BY <2>1, NamesOfSave
  <2> DEFINE f == NewNames(r, new)
  <2>2. RenameRows(f)
    BY <2>1 DEF SaveOf, SaveSources
  <2>3. Renames(r)
    <3>1. at[r] = "loaded" /\ kind[r] \in {"update", "save_all"} /\ at'[r] \in {"saved", "done"}
      BY <2>1 DEF SaveOf, UpdateSource, SaveAll, End, Goto, Inv, Control
    <3> QED
      BY <3>1 DEF Renames, Saves
  <2>4. ASSUME NEW n, Renamed(f, n) # n
        PROVE  \E i \in DOMAIN sources \cap DOMAIN read[r] :
                 /\ read[r][i].name = n /\ sources'[i].name = Renamed(f, n) /\ sources'[i].name # n
    <3>1. n \in DOMAIN f /\ Renamed(f, n) = f[n]
      BY <2>4 DEF Renamed
    <3>2. PICK i \in DOMAIN new : read[r][i].name = n /\ f[n] = new[i].name
      BY <2>0, <3>1 DEF NamesFrom
    <3>3. i \in Changed(r, new) /\ i \in DOMAIN read[r]
      BY <2>1, <2>4, <3>1, <3>2 DEF Changed, SaveOf
    <3>4. i \in DOMAIN sources /\ sources'[i].name = new[i].name
      BY <2>1, <3>3, NamesAfterSave DEF Inv, SaveOf
    <3> QED
      BY <2>4, <3>1, <3>2, <3>3, <3>4
  <2>5. ASSUME NEW n, Renamed(f, n) # n PROVE n \in LeftBy(r)
    BY <2>4, <2>5 DEF LeftBy
  <2> QED
    BY <2>2, <2>3, <2>4, <2>5
<1> QED
  BY <1>1, <1>2, UpdateSaves, SaveAllSaves DEF Inv

\* A source that a posted form is about to grant has been asked for, or is
\* still granted, unless its name has changed hands.
Asked(r, n) ==
    \/ \E t \in plan[r].ticked : n \in t.sources
    \/ kind[r] = "grant_add" /\ n \in read[r][plan[r].who]
    \/ kind[r] = "user" /\ n \in default.sources
    \/ kind[r] = "grant_remove" /\ n \in granted[plan[r].who]
    \/ n \in moved[r]

PlansFit ==
    \A r \in Requests : plan[r] # NoPlan /\ plan[r].sources # None =>
        \A n \in plan[r].sources : Asked(r, n)

LEMMA WatchedNames ==
    ASSUME Watch, NEW r \in Requests, NEW q \in Requests, at[q] # "new", at'[q] # "done"
    PROVE  moved[q] \subseteq moved'[q] /\ (Renames(r) => LeftBy(r) \subseteq moved'[q])
<1> DEFINE changed == {n \in Names : Holder(n)' # Holder(n)}
                      \cup UNION {LeftBy(p) : p \in {p \in Requests : Renames(p)}}
<1>1. moved'[q] = moved[q] \cup changed
  BY DEF Watch
<1>2. Renames(r) => LeftBy(r) \subseteq changed
  OBVIOUS
<1> QED
  BY <1>1, <1>2

LEMMA PostedAsked ==
    ASSUME Inv, NEW r \in Requests, NEW from \in {"new", "loaded"}, Post(r, from), Watch,
           NEW w, NEW t, NEW n, NEW c, NEW p, Planned(r, w, t, n, c, p),
           kind' = kind, kind[r] = "grant_add" => read' = read,
           \/ n = None
           \/ \A m \in n : \/ m \in t.sources
                           \/ kind[r] = "grant_add" /\ m \in read[r][w]
                           \/ kind[r] = "user" /\ m \in default.sources
                           \/ kind[r] = "grant_remove" /\ m \in granted[w]
    PROVE  plan'[r].sources # None => \A m \in plan'[r].sources : Asked(r, m)'
<1>1. plan'[r] = [who |-> w, ticked |-> {t}, sources |-> n, cut |-> c, pairs |-> p]
  BY DEF Planned, Inv, Control
<1>2. UNCHANGED <<granted, default>>
  BY DEF Post, grants
<1> QED
  BY <1>1, <1>2 DEF Asked
\* What is planned is next what its request commits.
LEMMA PlannedCommits ==
    ASSUME Inv, NEW r \in Requests, Step(r), plan[r] # NoPlan
    PROVE  Commit(r)
<1>1. at[r] = "posted" /\ kind[r] \in GrantKinds \cup KeyKinds
  BY DEF Inv, Shape, Posted, NewKeys, KeyKinds
<1>2. ~InventoryStep(r)
  BY <1>1 DEF InventoryStep, Refuse, UpdateSource, DeleteSource, Upsert, SyncCommit, SaveModels,
      LoadSource, CheckName, LoadAll, SaveAll, PostSync, AutoSync, WizardSync, SyncSource, BeginSync,
      ShowModels, PostModels, End, Goto
<1>3. ~AliasStep(r)
  BY <1>1 DEF AliasStep, LoadAlias, PostNewAlias, PostAlias, CommitAlias, DeleteAlias, End, Goto,
      GrantKinds, KeyKinds
<1>4. ~CallStep(r)
  BY <1>1 DEF CallStep, Route, RouteNamed, Prepare, Unresolved, Authorize, Reach, End, Goto
<1>5. ASSUME NEW from \in {"new", "loaded"} PROVE ~Post(r, from)
  BY <1>1 DEF Post, Goto
<1>6. GrantStep(r)
  BY <1>2, <1>3, <1>4 DEF Step, CallStep
<1> QED
  BY <1>1, <1>5, <1>6 DEF GrantStep, LoadSettings, LoadGrants, PostAdd, PostModelList, PostRemove, PostUser, Register,
      PostDefault, PostTeam, DeleteTeam, PostKey, PostSetupKey, LoadKey, PostTeamKey, PostOwnKey,
      RotateKey, RevokeKey, SaveKey, SetAccess, SetRouting, End, Goto

LEMMA PostsPlan ==
    ASSUME NEW r \in Requests, Step(r), ~Commit(r)
    PROVE  plan' = plan \/ GrantPosts(r) \/ NewKeyPosts(r) \/ EditPosts(r)
<1>1. CASE UNCHANGED setup
  BY <1>1 DEF setup
<1>2. CASE CallStep(r)
  BY <1>1, <1>2 DEF CallStep, Route, RouteNamed, Unresolved, Authorize, Reach
<1>3. CASE GrantStep(r)
  BY <1>3 DEF GrantStep, LoadSettings, LoadGrants, Register, DeleteTeam, LoadKey, RotateKey, RevokeKey,
      SaveKey, SetAccess, SetRouting, GrantPosts, NewKeyPosts, EditPosts
<1> QED
  BY <1>1, <1>2, <1>3 DEF Step, CallStep

LEMMA GrantPostAsked ==
    ASSUME Inv, NEW r \in Requests, GrantPosts(r), Watch, kind' = kind
    PROVE  plan'[r].sources # None => \A m \in plan'[r].sources : Asked(r, m)'
<1>0. \A t : TickedSources(t) \subseteq t.sources
  BY DEF TickedSources
<1>1. CASE PostAdd(r)
  <2>1. PICK u, t : Planned(r, u, t, read[r][u] \cup TickedSources(t), {}, {})
    BY <1>1 DEF PostAdd
  <2> DEFINE names == read[r][u] \cup TickedSources(t)
  <2>2. /\ kind[r] = "grant_add" /\ Post(r, "loaded") /\ read' = read
        /\ \A m \in names : m \in t.sources \/ m \in read[r][u]
    BY <1>0, <1>1 DEF PostAdd
  <2> QED
    BY <2>1, <2>2, PostedAsked
<1>2. CASE PostModelList(r)
  <2>1. PICK u, t : \E n, p : Planned(r, u, t, None, {n}, p)
    BY <1>2 DEF PostModelList
  <2> QED
    BY <1>2, <2>1, PostedAsked DEF PostModelList
<1>3. CASE PostRemove(r)
  <2>1. PICK u, t : \E n : Planned(r, u, t, granted[u] \ {n}, {n}, {})
    BY <1>3 DEF PostRemove
  <2>2. PICK n : Planned(r, u, t, granted[u] \ {n}, {n}, {})
    BY <2>1
  <2> DEFINE names == granted[u] \ {n}
  <2>3. kind[r] = "grant_remove" /\ Post(r, "new") /\ read' = read /\ \A m \in names : m \in granted[u]
    BY <1>3 DEF PostRemove
  <2> QED
    BY <2>2, <2>3, PostedAsked
<1>4. CASE PostUser(r)
  <2>1. PICK t \in Ticks :
          \/ Planned(r, r, t, {}, {}, {})
          \/ \E names : Planned(r, r, t, names, {}, TickedPairs(t, names))
                        /\ names \in {TickedSources(t), DefaultSources}
    BY <1>4 DEF PostUser
  <2>2. kind[r] = "user" /\ Post(r, "new") /\ read' = read
    BY <1>4 DEF PostUser
  <2>3. DefaultSources \subseteq default.sources
    BY DEF DefaultSources
  <2>4. CASE Planned(r, r, t, {}, {}, {})
    BY <2>2, <2>4, PostedAsked
  <2>5. CASE \E names : Planned(r, r, t, names, {}, TickedPairs(t, names))
                        /\ names \in {TickedSources(t), DefaultSources}
    <3>1. PICK names : Planned(r, r, t, names, {}, TickedPairs(t, names))
                       /\ names \in {TickedSources(t), DefaultSources}
      BY <2>5
    <3>2. \A m \in names : m \in t.sources \/ m \in default.sources
      BY <1>0, <2>3, <3>1
    <3> QED
      BY <2>2, <3>1, <3>2, PostedAsked
  <2> QED
    BY <2>1, <2>4, <2>5
<1>5. CASE PostDefault(r)
  <2>1. PICK t \in Ticks : \E p : Planned(r, None, t, TickedSources(t), {}, p)
    BY <1>5 DEF PostDefault
  <2>2. Post(r, "new") /\ read' = read
    BY <1>5 DEF PostDefault
  <2> QED
    BY <1>0, <2>1, <2>2, PostedAsked
<1>6. CASE PostTeam(r)
  <2>1. PICK g, t : Planned(r, g, t, TickedSources(t), Names, t.pairs)
    BY <1>6 DEF PostTeam
  <2>2. Post(r, "loaded") /\ read' = read
    BY <1>6 DEF PostTeam
  <2> QED
    BY <1>0, <2>1, <2>2, PostedAsked
<1> QED
  BY <1>1, <1>2, <1>3, <1>4, <1>5, <1>6 DEF GrantPosts

LEMMA KeyPostAsked ==
    ASSUME Inv, NEW r \in Requests, NewKeyPosts(r) \/ EditPosts(r), Watch, kind' = kind
    PROVE  plan'[r].sources # None => \A m \in plan'[r].sources : Asked(r, m)'
<1>1. PICK from \in {"new", "loaded"} : Post(r, from)
  BY DEF NewKeyPosts, EditPosts, PostKey, PostSetupKey, PostTeamKey, PostOwnKey
<1>2. \E k, t, c : PlanKey(r, k, t, c)
  BY DEF NewKeyPosts, EditPosts, PostKey, PostSetupKey, PostTeamKey, PostOwnKey
<1>3. PICK k, t, c : PlanKey(r, k, t, c)
  BY <1>2
<1>4. kind[r] # "grant_add"
  BY DEF NewKeyPosts, EditPosts, PostKey, PostSetupKey, PostTeamKey, PostOwnKey
<1> DEFINE names == ClampSources(TickedSources(t), c)
<1>5. \A m \in names : m \in t.sources
  BY DEF ClampSources, TickedSources
<1>6. \E p : Planned(r, k, t, names, Names, p)
  BY <1>3 DEF PlanKey
<1> HIDE DEF names
<1> QED
  BY <1>1, <1>4, <1>5, <1>6, PostedAsked
LEMMA PlansFitStep ==
    ASSUME Inv, PlansFit, NEW r \in Requests, Step(r), Watch, kind' = kind
    PROVE  PlansFit'
<1>1. Frame(r)
  BY StepFrame DEF Inv
<1> SUFFICES ASSUME NEW q \in Requests, plan'[q] # NoPlan, plan'[q].sources # None,
                    NEW n \in plan'[q].sources
             PROVE  Asked(q, n)'
  BY DEF PlansFit
<1>2. CASE q = r
  <2>1. ~Commit(r) /\ plan[r] = NoPlan
    BY <1>2, PlannedCommits, CommitPosted
  <2>2. CASE plan' = plan
    BY <1>2, <2>1, <2>2
  <2>3. CASE GrantPosts(r)
    BY <1>2, <2>3, GrantPostAsked
  <2>4. CASE NewKeyPosts(r) \/ EditPosts(r)
    BY <1>2, <2>4, KeyPostAsked
  <2> QED
    BY <2>1, <2>2, <2>3, <2>4, PostsPlan
<1>3. CASE q # r
  <2>1. plan'[q] = plan[q] /\ at'[q] = at[q] /\ read'[q] = read[q] /\ kind'[q] = kind[q]
    BY <1>1, <1>3 DEF Frame
  <2>2. Asked(q, n)
    BY <2>1 DEF PlansFit
  <2>3. at[q] = "posted" /\ loop = q /\ Posted(q) /\ ~Commit(r)
    BY <1>3, <2>1, CommitPosted DEF Inv, Shape
  <2>4. moved[q] \subseteq moved'[q] /\ (Renames(r) => LeftBy(r) \subseteq moved'[q])
    BY <2>1, <2>3, WatchedNames
  <2>5. CASE \/ \E t \in plan[q].ticked : n \in t.sources
             \/ kind[q] = "grant_add" /\ n \in read[q][plan[q].who]
             \/ n \in moved[q]
    BY <2>1, <2>4, <2>5 DEF Asked
  <2>6. CASE UNCHANGED grants
    BY <2>1, <2>2, <2>4, <2>6 DEF Asked, grants
  <2>7. kind[q] = "grant_remove" => plan[q].who \in users /\ plan[q].who \in Grantees
    BY <2>1, <2>3, WhoExists DEF Inv, Posted, GrantForm, UserGrants, NewKeys
  <2>8. CASE DeleteTeam(r)
    <3>1. PICK t \in teams : granted' = [granted EXCEPT ![t] = {}]
      BY <2>8 DEF DeleteTeam
    <3>2. default' = default
      BY <2>8 DEF DeleteTeam
    <3>3. t \notin users
      BY GrantsAssumption DEF GrantsAssumption, Inv, People
    <3>4. kind[q] = "grant_remove" => granted'[plan[q].who] = granted[plan[q].who]
      BY <2>7, <3>1, <3>3 DEF Inv, Tables
    <3> QED
      BY <2>1, <2>2, <2>4, <3>2, <3>4 DEF Asked
  <2>9. CASE \E f : /\ RenameRows(f) /\ Renames(r)
                    /\ \A m : Renamed(f, m) # m => m \in LeftBy(r)
    <3>1. PICK f : /\ RenameRows(f) /\ Renames(r)
                   /\ \A m : Renamed(f, m) # m => m \in LeftBy(r)
      BY <2>9
    <3>2. CASE Renamed(f, n) # n
      BY <2>4, <3>1, <3>2 DEF Asked
    <3>3. CASE Renamed(f, n) = n
      <4>1. n \in default.sources => n \in default'.sources
        BY <3>1, <3>3 DEF RenameRows
      <4>2. kind[q] = "grant_remove" /\ n \in granted[plan[q].who] => n \in granted'[plan[q].who]
        BY <2>7, <3>1, <3>3 DEF RenameRows
      <4> QED
        BY <2>1, <2>2, <2>4, <4>1, <4>2 DEF Asked
    <3> QED
      BY <3>2, <3>3
  <2>10. UNCHANGED grants \/ UpdateSource(r) \/ SaveAll(r) \/ DeleteTeam(r) \/ Register(r)
    BY <2>3, GrantsChange
  <2>11. CASE UpdateSource(r) \/ SaveAll(r)
    <3>1. UNCHANGED grants \/ \E f : /\ RenameRows(f) /\ Renames(r)
                                     /\ \A m : Renamed(f, m) # m => m \in LeftBy(r)
      BY <2>11, RenameStep
    <3> QED
      BY <2>6, <2>9, <3>1
  <2>12. CASE Register(r)
    <3>1. default' = default /\ r \notin users /\ \E names : granted' = [granted EXCEPT ![r] = names]
      BY <2>12, RegisterRows
    <3>2. kind[q] = "grant_remove" => granted'[plan[q].who] = granted[plan[q].who]
      BY <2>7, <3>1 DEF Inv, Tables
    <3> QED
      BY <2>1, <2>2, <2>4, <3>1, <3>2 DEF Asked
  <2> QED
    BY <2>6, <2>8, <2>10, <2>11, <2>12
<1> QED
  BY <1>2, <1>3

\* Somebody is granted a source only if a form about it has ticked it, if it had
\* been granted when the form that adds to its grant was begun, if the default
\* grant named it (for one who registers, when the request began), or if another
\* source has taken its name: neither stale forms nor renames under way grant more.
THEOREM OnlyTheAskedIsGranted == Spec => NothingGrantedUnasked
<1> DEFINE GrantedBy(r, g, n) ==
        \/ /\ Saves(r, GrantKinds \cup KeyKinds) /\ plan[r].who = g
           /\ \/ \E t \in plan[r].ticked : n \in t.sources
              \/ kind[r] = "grant_add" /\ n \in read[r][g]
              \/ kind[r] = "user" /\ n \in default.sources
              \/ n \in moved[r]
        \/ Saves(r, {"register"}) /\ r = g /\ n \in read[r][r].sources
        \/ /\ Renames(r)
           /\ \E i \in DOMAIN sources \cap DOMAIN read[r] :
                read[r][i].name \in granted[g] /\ sources'[i].name = n
<1> DEFINE AskedFor ==
        \A g \in Grantees : \A n \in granted'[g] \ granted[g] :
            \E r \in Requests : GrantedBy(r, g, n)
<1>1. Init => PlansFit
  BY DEF Init, PlansFit
<1>2. Inv /\ PlansFit /\ [Next]_vars => PlansFit'
  <2>1. CASE UNCHANGED vars
    BY <2>1 DEF vars, setup, grants, PlansFit, Asked
  <2> QED
    BY <2>1, PlansFitStep DEF Next, Finished
<1>3. ASSUME Inv, PlansFit, Next PROVE AskedFor \/ UNCHANGED vars
  <2>1. ASSUME NEW r \in Requests, Step(r), Watch, kind' = kind,
               NEW g \in Grantees, NEW n \in granted'[g] \ granted[g]
        PROVE  GrantedBy(r, g, n)
    <3>1. ~UNCHANGED grants
      BY <2>1 DEF grants
    <3>2. ~DeleteTeam(r)
      BY <1>3, <2>1 DEF DeleteTeam, Inv, Tables
    <3>3. CASE UpdateSource(r) \/ SaveAll(r)
      <4>1. PICK f : /\ RenameRows(f) /\ Renames(r)
                     /\ \A m : Renamed(f, m) # m =>
                          \E i \in DOMAIN sources \cap DOMAIN read[r] :
                            read[r][i].name = m /\ sources'[i].name = Renamed(f, m)
        BY <1>3, <3>1, <3>3, RenameStep
      <4>2. PICK m \in granted[g] : n = Renamed(f, m)
        BY <2>1, <4>1 DEF RenameRows
      <4> QED
        BY <2>1, <4>1, <4>2
    <3>4. CASE Commit(r)
      <4>1. /\ at[r] = "posted" /\ at'[r] = "done" /\ kind[r] \in GrantKinds \cup KeyKinds
        BY <1>3, <3>4, CommitPosted DEF NewKeys, KeyKinds
      <4>2. Saves(r, GrantKinds \cup KeyKinds)
        BY <4>1 DEF Saves
      <4>3. granted' = [h \in Grantees |-> IF h = plan[r].who /\ plan[r].sources # None
                                           THEN plan[r].sources ELSE granted[h]]
        BY <1>3, <3>1, <3>4, CommitRows
      <4>4. g = plan[r].who /\ plan[r].sources # None /\ n \in plan[r].sources
        BY <2>1, <4>3
      <4>5. plan[r] # NoPlan
        BY <3>4 DEF Commit
      <4>6. Asked(r, n)
        BY <1>3, <4>4, <4>5 DEF PlansFit
      <4> QED
        BY <2>1, <4>2, <4>4, <4>6 DEF Asked
    <3>5. CASE Register(r)
      <4>1. /\ at[r] = "loaded" /\ at'[r] = "done" /\ kind[r] = "register"
            /\ \E names : granted' = [granted EXCEPT ![r] = names] /\ names \subseteq read[r][r].sources
        BY <1>3, <2>1, <3>5, RegisterRows
      <4>2. Saves(r, {"register"})
        BY <4>1 DEF Saves
      <4>3. g = r /\ n \in read[r][r].sources
        BY <1>3, <2>1, <4>1 DEF Inv, Tables
      <4> QED
        BY <4>2, <4>3
    <3> QED
      BY <2>1, <3>1, <3>2, <3>3, <3>4, <3>5, GrantsChange
  <2>2. CASE Finished
    BY <2>2 DEF Finished
  <2>3. CASE (\E r \in Requests : Step(r)) /\ Watch /\ UNCHANGED kind
    <3>1. PICK r \in Requests : Step(r)
      BY <2>3
    <3>2. kind' = kind /\ Watch
      BY <2>3
    <3>3. AskedFor
      <4> SUFFICES ASSUME NEW g \in Grantees, NEW n \in granted'[g] \ granted[g]
                   PROVE  \E q \in Requests : GrantedBy(q, g, n)
        OBVIOUS
      <4> HIDE DEF GrantedBy
      <4>1. GrantedBy(r, g, n)
        BY <2>1, <3>1, <3>2
      <4> QED
        BY <4>1
    <3> QED
      BY <3>3
  <2> QED
    BY <1>3, <2>2, <2>3 DEF Next
<1>4. Inv /\ PlansFit /\ [Next]_vars => [AskedFor]_vars
  BY <1>3
<1> QED
  BY <1>1, <1>2, <1>4, InvHolds, PTL DEF Spec, NothingGrantedUnasked
------------------------------------------------------------------------------
(* What sources keep when they are renamed. *)

LEMMA RenamesActor ==
    ASSUME Inv, NEW q \in Requests, Step(q), kind' = kind, NEW r \in Requests, Renames(r)
    PROVE  q = r /\ (UpdateSource(r) \/ SaveAll(r) \/ UNCHANGED <<inventory, grants>>)
<1>1. at[r] = "loaded" /\ at'[r] # at[r] /\ kind[r] \in {"update", "save_all"}
  BY DEF Renames, Saves
<1>2. q = r
  BY <1>1, StepFrame DEF Inv, Frame
<1>3. CASE InventoryStep(r)
  <2>1. ~(\/ DeleteSource(r) \/ Upsert(r) \/ SyncCommit(r) \/ SaveModels(r) \/ LoadSource(r) \/ CheckName(r)
          \/ LoadAll(r) \/ PostSync(r) \/ AutoSync(r) \/ WizardSync(r) \/ SyncSource(r)
          \/ ShowModels(r) \/ PostModels(r))
    BY <1>1 DEF DeleteSource, Upsert, SyncCommit, SaveModels, LoadSource, CheckName, LoadAll, PostSync,
        AutoSync, WizardSync, SyncSource, BeginSync, ShowModels, PostModels, End, Goto
  <2>2. CASE Refuse(r)
    BY <1>2, <2>2 DEF Refuse
  <2> QED
    BY <1>2, <1>3, <2>1, <2>2 DEF InventoryStep
<1>4. ~AliasStep(r)
  BY <1>1 DEF AliasStep, LoadAlias, PostNewAlias, PostAlias, CommitAlias, DeleteAlias, End, Goto
<1>5. ~CallStep(r)
  BY <1>1 DEF CallStep, Route, RouteNamed, Prepare, Unresolved, Authorize, Reach, End, Goto
<1>6. ~GrantStep(r)
  BY <1>1 DEF GrantStep, LoadSettings, LoadGrants, PostAdd, PostModelList, PostRemove, PostUser, Register,
      PostDefault, PostTeam, DeleteTeam, PostKey, PostSetupKey, LoadKey, PostTeamKey, PostOwnKey,
      RotateKey, RevokeKey, SaveKey, SetAccess, SetRouting, Commit, End, Goto
<1> QED
  BY <1>2, <1>3, <1>4, <1>5, <1>6 DEF Step, CallStep

\* Each source gets the rows of its old name, and only unused names besides.
LEMMA RenamedOnly ==
    ASSUME Inv, Inv', NEW r \in Requests, NEW new, NEW taken, SaveOf(r, new, taken),
           \A i \in DOMAIN read[r] : i \in DOMAIN sources /\ read[r][i].name = sources[i].name,
           \A n \in Names : n \in SourceNames' \ SourceNames => Unused(n),
           NEW i \in DOMAIN sources
    PROVE  /\ Renamed(NewNames(r, new), sources[i].name) = sources'[i].name
           /\ \A m : Renamed(NewNames(r, new), m) = sources'[i].name =>
                m = sources[i].name \/ (m = sources'[i].name /\ Unused(m))
<1>0. NamesFrom(r, new)
  BY NamesOfSave
<1> DEFINE f == NewNames(r, new)
<1>1. Table(read[r], Source) /\ Table(new, Source) /\ DOMAIN new \subseteq DOMAIN read[r]
  BY DEF SaveOf
<1>2. /\ DOMAIN sources' = DOMAIN sources
      /\ \A j \in DOMAIN sources :
           /\ sources'[j].name \in Names
           /\ sources'[j].name = IF j \in Changed(r, new) THEN new[j].name ELSE sources[j].name
  <2>1. /\ DOMAIN sources' = DOMAIN sources
        /\ \A j \in DOMAIN sources :
             /\ sources'[j] \in Source
             /\ sources'[j].name = IF j \in Changed(r, new) THEN new[j].name ELSE sources[j].name
    BY NamesAfterSave DEF SaveOf, Inv
  <2> QED
    BY <2>1 DEF Source
<1>3. \A j, l \in DOMAIN sources : /\ sources[j].name = sources[l].name => j = l
                                   /\ sources'[j].name = sources'[l].name => j = l
  BY <1>2 DEF Inv, Tables, UniqueNames
<1>4. ASSUME NEW j \in DOMAIN sources PROVE Renamed(f, sources[j].name) = sources'[j].name
  <2>1. CASE j \in DOMAIN new
    <3>1. sources[j].name = read[r][j].name /\ sources[j].name \in DOMAIN f
      BY <1>0, <1>1, <2>1 DEF NamesFrom
    <3>3. PICK l \in DOMAIN new : read[r][l].name = sources[j].name /\ f[sources[j].name] = new[l].name
      BY <1>0, <3>1 DEF NamesFrom
    <3>4. l = j
      BY <1>1, <1>3, <3>3
    <3> QED
      BY <1>2, <2>1, <3>1, <3>3, <3>4 DEF Changed, Renamed
  <2>2. CASE j \notin DOMAIN new
    <3>1. sources[j].name \notin DOMAIN f
      BY <1>0, <1>1, <1>3, <2>2 DEF NamesFrom
    <3> QED
      BY <1>2, <2>2, <3>1 DEF Changed, Renamed
  <2> QED
    BY <2>1, <2>2
<1>5. ASSUME NEW m, Renamed(f, m) = sources'[i].name
      PROVE  m = sources[i].name \/ (m = sources'[i].name /\ Unused(m))
  <2>1. CASE m \in SourceNames
    <3>1. PICK j \in DOMAIN sources : m = sources[j].name
      BY <2>1 DEF SourceNames
    <3> QED
      BY <1>3, <1>4, <1>5, <3>1
  <2>2. CASE m \notin SourceNames
    <3>1. DOMAIN f \subseteq SourceNames
      BY <1>0, <1>1 DEF SourceNames, NamesFrom
    <3>2. m = sources'[i].name
      BY <1>5, <2>2, <3>1 DEF Renamed
    <3>3. m \in SourceNames' /\ m \in Names
      BY <1>2, <3>2 DEF SourceNames
    <3> QED
      BY <2>2, <3>2, <3>3
  <2> QED
    BY <2>1, <2>2
<1> QED
  BY <1>4, <1>5

LEMMA SameMembership ==
    ASSUME NEW x, NEW S, NEW y, NEW T, x \in S <=> y \in T PROVE (x \in S) = (y \in T)
<1>1. (x \in S) \in BOOLEAN /\ (y \in T) \in BOOLEAN
  BY MembershipBoolean
<1> QED
  BY <1>1

\* What is listed for a new name is what was listed for the old one.
ListOf(pairs, n) == {p[2] : p \in {q \in pairs : q[1] = n}}
LEMMA ListedOfRenamed ==
    ASSUME NEW f, NEW S, NEW n, NEW o, \A p \in S : Renamed(f, p[1]) = n <=> p[1] = o
    PROVE  ListOf(RenamePairs(f, S), n) = ListOf(S, o)
<1>1. ASSUME NEW p \in RenamePairs(f, S), p[1] = n PROVE \E q \in S : q[1] = o /\ q[2] = p[2]
  <2>1. PICK q \in S : p = <<Renamed(f, q[1]), q[2]>>
    BY DEF RenamePairs
  <2> QED
    BY <1>1, <2>1
<1>2. ASSUME NEW q \in S, q[1] = o PROVE \E p \in RenamePairs(f, S) : p[1] = n /\ p[2] = q[2]
  <2>1. <<Renamed(f, q[1]), q[2]>> \in RenamePairs(f, S)
    BY DEF RenamePairs
  <2> QED
    BY <1>2, <2>1
<1> QED
  BY <1>1, <1>2 DEF ListOf

\* Sources renamed, also to each other's names, keep their rows of the catalog,
\* their holders, their lists and their part of the default grant.
THEOREM RenamedSourcesKeepGrants == Spec => RenamesKeepGrants
<1> DEFINE Fresh(r) ==
        /\ \A i \in DOMAIN read[r] : i \in DOMAIN sources /\ read[r][i].name = sources[i].name
        /\ \A n \in Names : n \in SourceNames' \ SourceNames => Unused(n)
    Kept ==
        \A r \in Requests :
            /\ Renames(r)
            /\ \A i \in DOMAIN read[r] : i \in DOMAIN sources /\ read[r][i].name = sources[i].name
            /\ \A n \in Names : n \in SourceNames' \ SourceNames => Unused(n)
            => \A i \in DOMAIN sources, n \in Names :
                 n = sources'[i].name => Estate(n)' = Estate(sources[i].name)
<1>1. ASSUME Inv, Inv', NEW q \in Requests, Step(q), kind' = kind PROVE Kept
  <2> SUFFICES ASSUME NEW r \in Requests, Renames(r), Fresh(r),
                      NEW i \in DOMAIN sources, NEW n \in Names, n = sources'[i].name
               PROVE  Estate(n)' = Estate(sources[i].name)
    OBVIOUS
  <2> DEFINE o == sources[i].name
  <2>1. UpdateSource(r) \/ SaveAll(r) \/ UNCHANGED <<inventory, grants>>
    BY <1>1, RenamesActor
  <2>2. CASE UNCHANGED <<inventory, grants>>
    <3>1. n = o /\ UNCHANGED <<catalog, granted, allowed, default>>
      BY <2>2 DEF inventory, grants
    <3> QED
      BY <3>1 DEF Estate, Rows, Listed
  <2>3. CASE \E new, taken : SaveOf(r, new, taken)
    <3>1. PICK new, taken : SaveOf(r, new, taken)
      BY <2>3
    <3> DEFINE f == NewNames(r, new)
    <3>2. /\ Renamed(f, o) = n
          /\ \A m : Renamed(f, m) = n => m = o \/ (m = n /\ Unused(m))
      BY <1>1, <3>1, RenamedOnly
    <3>3. RenameRows(f)
      BY <3>1 DEF SaveOf, SaveSources
    <3> HIDE DEF f, o
    <3>4. Rows(n)' = Rows(o)
      <4>1. /\ DOMAIN catalog' = DOMAIN catalog
            /\ \A j \in DOMAIN catalog : catalog'[j].source = Renamed(f, catalog[j].source)
        <5>1. \A j \in DOMAIN catalog : catalog[j] \in Entry
          BY <1>1 DEF Inv, Tables, Table
        <5> QED
          BY <3>3, <5>1 DEF RenameRows, Entry
      <4>2. \A j \in DOMAIN catalog : Unused(catalog[j].source) => FALSE
        BY DEF Unused, Rows
      <4>3. \A j \in DOMAIN catalog : catalog'[j].source = n <=> catalog[j].source = o
        BY <3>2, <4>1, <4>2
      <4> QED
        BY <4>1, <4>3 DEF Rows
    <3>5. \A g \in Grantees : n \in granted'[g] <=> o \in granted[g]
      <4>1. \A g \in Grantees : granted'[g] = {Renamed(f, m) : m \in granted[g]}
        BY <3>3 DEF RenameRows
      <4>2. \A g \in Grantees : \A m \in granted[g] : ~Unused(m)
        BY DEF Unused
      <4> QED
        BY <3>2, <4>1, <4>2
    <3>6. \A g \in Grantees : Listed(g, n)' = Listed(g, o)
      <4> SUFFICES ASSUME NEW g \in Grantees PROVE Listed(g, n)' = Listed(g, o)
        OBVIOUS
      <4>1. allowed'[g] = RenamePairs(f, allowed[g])
        BY <3>3 DEF RenameRows
      <4>2. \A p \in allowed[g] : ~Unused(p[1])
        BY DEF Unused, Listed
      <4>3. \A p \in allowed[g] : Renamed(f, p[1]) = n <=> p[1] = o
        BY <3>2, <4>2
      <4>5. ListOf(allowed'[g], n) = ListOf(allowed[g], o)
        BY <4>1, <4>3, ListedOfRenamed
      <4> QED
        BY <4>5 DEF Listed, ListOf
    <3>7. n \in default'.sources <=> o \in default.sources
      <4>1. default'.sources = {Renamed(f, m) : m \in default.sources}
        BY <3>3 DEF RenameRows
      <4>2. \A m \in default.sources : ~Unused(m)
        BY DEF Unused
      <4> QED
        BY <3>2, <4>1, <4>2
    <3>8. ListOf(default'.pairs, n) = ListOf(default.pairs, o)
      <4>1. default'.pairs = RenamePairs(f, default.pairs)
        BY <3>3 DEF RenameRows
      <4>2. \A p \in default.pairs : ~Unused(p[1])
        BY DEF Unused
      <4>3. \A p \in default.pairs : Renamed(f, p[1]) = n <=> p[1] = o
        BY <3>2, <4>2
      <4> QED
        BY <4>1, <4>3, ListedOfRenamed
    <3>9. {g \in Grantees : n \in granted'[g]} = {g \in Grantees : o \in granted[g]}
      BY <3>5
    <3>10. [g \in Grantees |-> Listed(g, n)'] = [g \in Grantees |-> Listed(g, o)]
      BY <3>6
    <3>11. (n \in default'.sources) = (o \in default.sources)
      BY <3>7, SameMembership
    <3>12. Estate(n)' = [rows |-> Rows(n)', holders |-> {g \in Grantees : n \in granted'[g]},
                         listed |-> [g \in Grantees |-> Listed(g, n)'],
                         default |-> n \in default'.sources,
                         pairs |-> ListOf(default'.pairs, n)]
      BY DEF Estate, ListOf
    <3>13. Estate(o) = [rows |-> Rows(o), holders |-> {g \in Grantees : o \in granted[g]},
                        listed |-> [g \in Grantees |-> Listed(g, o)],
                        default |-> o \in default.sources,
                        pairs |-> ListOf(default.pairs, o)]
      BY DEF Estate, ListOf
    <3>14. Estate(n)' = Estate(o)
      BY ONLY <3>4, <3>8, <3>9, <3>10, <3>11, <3>12, <3>13, Zenon
    <3> QED
      BY <3>14 DEF o
  <2> QED
    BY <1>1, <2>1, <2>2, <2>3, UpdateSaves, SaveAllSaves DEF Inv
<1>2. Inv /\ [Next]_vars => Inv'
  BY InvStep
<1>3. Inv /\ Inv' /\ [Next]_vars => [Kept]_vars
  BY <1>1 DEF Next, Finished
<1> QED
  BY <1>2, <1>3, InvHolds, PTL DEF Spec, RenamesKeepGrants
------------------------------------------------------------------------------
(* What a key may use, and by what it comes to use more. *)

\* Models of a key's ceiling, where it covers the source.
CeilingOf(g, name) ==
    /\ ~CeilingFrom(g).all /\ CeilingFrom(g).sources = granted[g]
    /\ name \in granted[g] =>
         ModelsFor(CeilingFrom(g), name) = IF Listed(g, name) = {} THEN None ELSE Listed(g, name)
LEMMA CeilingOfGrantee == \A g : \A name \in Names : g \notin Admins => CeilingOf(g, name)
<1> SUFFICES ASSUME NEW g, NEW name \in Names, g \notin Admins PROVE CeilingOf(g, name)
  OBVIOUS
<1> DEFINE lists == [n \in Names |-> IF Listed(g, n) = {} THEN None ELSE Listed(g, n)]
<1>1. CeilingFrom(g) = [all |-> FALSE, sources |-> granted[g], models |-> lists]
  BY DEF CeilingFrom
<1>2. lists[name] = IF Listed(g, name) = {} THEN None ELSE Listed(g, name)
  OBVIOUS
<1> HIDE DEF lists
<1> QED
  BY <1>1, <1>2 DEF ModelsFor, CeilingOf

LEMMA CeilingOfGranteeNext == (\A g : \A name \in Names : g \notin Admins => CeilingOf(g, name))'
BY CeilingOfGrantee, PTL

\* A key reaches no more while it, its team and its owner get nothing more.
LEMMA ReachShrinks ==
    ASSUME Inv, UNCHANGED <<inventory, aliases>>, NEW k \in DOMAIN keys,
           keys'[k].active => keys[k].active,
           keys'[k].team = keys[k].team, keys'[k].owner = keys[k].owner,
           granted'[k] = granted[k], \A n : Listed(k, n)' = Listed(k, n),
           \A g \in {keys[k].team, keys[k].owner} \ (Admins \cup {None}) :
                granted'[g] \subseteq granted[g] /\ \A n \in granted'[g] : Listed(g, n)' = Listed(g, n)
    PROVE  Usable(k)' \subseteq Usable(k)
<1>1. sources' = sources /\ catalog' = catalog /\ aliases' = aliases
  BY DEF inventory
<1>2. ASSUME NEW name \in Names, NEW model, Authorized(k, keys[k], name, model)'
      PROVE  Authorized(k, keys[k], name, model)
  <2>1. /\ keys'[k].active /\ name \in EffectiveSources(k, keys[k])' /\ model \in EnabledModels(name)'
        /\ ~ModelAllowed(k, keys[k], name, model)' => AllowedViaAlias(EffectiveModels(k, keys[k], name), model)'
    BY <1>2 DEF Authorized
  <2>2. EnabledModels(name)' = EnabledModels(name) /\ SourceNames' = SourceNames
    BY <1>1 DEF EnabledModels, Rows, SourceNames
  <2>3. /\ name \in EffectiveSources(k, keys[k])
        /\ ModelsFor(Ceiling(keys[k]), name)' = ModelsFor(Ceiling(keys[k]), name)
    <3>1. CASE \/ keys[k].team = None /\ keys[k].owner = None
               \/ keys[k].team # None /\ keys[k].team \in Admins
               \/ keys[k].team = None /\ keys[k].owner # None /\ keys[k].owner \in Admins
      <4>1. Ceiling(keys[k]) = Unrestricted /\ Ceiling(keys[k])' = Unrestricted
        BY <3>1 DEF Ceiling, CeilingFrom, Unrestricted
      <4>2. Unrestricted.all
        BY DEF Unrestricted
      <4>3. /\ ModelsFor(Ceiling(keys[k]), name) = None
            /\ ModelsFor(Ceiling(keys[k]), name)' = None
        BY <4>1, <4>2 DEF ModelsFor
      <4>4. EffectiveSources(k, keys[k])' = EffectiveSources(k, keys[k])
        BY <2>2, <4>1, <4>2 DEF EffectiveSources
      <4> QED
        BY <2>1, <4>3, <4>4
    <3>2. ASSUME NEW g \in {keys[k].team, keys[k].owner} \ (Admins \cup {None}),
                 Ceiling(keys[k]) = CeilingFrom(g), Ceiling(keys[k])' = CeilingFrom(g)'
          PROVE  /\ name \in EffectiveSources(k, keys[k])
                 /\ ModelsFor(Ceiling(keys[k]), name)' = ModelsFor(Ceiling(keys[k]), name)
      <4>1. /\ ~CeilingFrom(g).all /\ CeilingFrom(g).sources = granted[g]
            /\ name \in granted[g] =>
                 ModelsFor(CeilingFrom(g), name) = IF Listed(g, name) = {} THEN None ELSE Listed(g, name)
        BY CeilingOfGrantee DEF CeilingOf
      <4>2. /\ ~CeilingFrom(g)'.all /\ CeilingFrom(g)'.sources = granted'[g]
            /\ name \in granted'[g] =>
                 ModelsFor(CeilingFrom(g), name)' =
                    IF Listed(g, name)' = {} THEN None ELSE Listed(g, name)'
        <5>1. CeilingOf(g, name)'
          BY CeilingOfGranteeNext
        <5> QED
          BY <5>1 DEF CeilingOf
      <4>3. name \in granted'[g]
        BY <2>1, <3>2, <4>2 DEF EffectiveSources
      <4>4. name \in granted[g] /\ Listed(g, name)' = Listed(g, name)
        BY <4>3
      <4>5. ModelsFor(Ceiling(keys[k]), name)' = ModelsFor(CeilingFrom(g), name)'
        BY <3>2
      <4>6. name \in EffectiveSources(k, keys[k])
        BY <2>1, <3>2, <4>1, <4>2, <4>4 DEF EffectiveSources
      <4> QED
        BY <3>2, <4>1, <4>2, <4>3, <4>4, <4>5, <4>6
    <3> DEFINE g == IF keys[k].team # None THEN keys[k].team ELSE keys[k].owner
    <3>3. CASE g \notin Admins \cup {None}
      <4>1. Ceiling(keys[k]) = CeilingFrom(keys[k].team) \/ Ceiling(keys[k]) = CeilingFrom(keys[k].owner)
        BY <3>3 DEF Ceiling
      <4>2. CASE keys[k].team # None
        <5>1. PICK h : h = keys[k].team
          OBVIOUS
        <5>2. h \in {keys[k].team, keys[k].owner} \ (Admins \cup {None})
          BY <3>3, <4>2, <5>1
        <5>3. Ceiling(keys[k]) = CeilingFrom(h) /\ Ceiling(keys[k])' = CeilingFrom(h)'
          BY <4>2, <5>1 DEF Ceiling
        <5> QED
          BY <3>2, <5>2, <5>3
      <4>3. CASE keys[k].team = None
        <5>1. PICK h : h = keys[k].owner
          OBVIOUS
        <5>2. h \in {keys[k].team, keys[k].owner} \ (Admins \cup {None})
          BY <3>3, <4>3, <5>1
        <5>3. Ceiling(keys[k]) = CeilingFrom(h) /\ Ceiling(keys[k])' = CeilingFrom(h)'
          BY <4>3, <5>1, <5>2 DEF Ceiling
        <5> QED
          BY <3>2, <5>2, <5>3
      <4> QED
        BY <4>2, <4>3
    <3> QED
      BY <3>1, <3>3
  <2>4. EffectiveModels(k, keys[k], name)' = EffectiveModels(k, keys[k], name)
    BY <2>1, <2>3 DEF EffectiveModels
  <2>5. ModelAllowed(k, keys[k], name, model)' <=> ModelAllowed(k, keys[k], name, model)
    BY <2>4 DEF ModelAllowed
  <2>6. AllowedViaAlias(EffectiveModels(k, keys[k], name), model)'
          <=> AllowedViaAlias(EffectiveModels(k, keys[k], name), model)
    BY <1>1, <2>4 DEF AllowedViaAlias
  <2> QED
    BY <2>1, <2>2, <2>3, <2>5, <2>6 DEF Authorized
<1>3. ASSUME NEW p \in Usable(k)' PROVE p \in Usable(k)
  <2>1. p \in (DOMAIN sources) \X Models /\ Authorized(k, keys[k], sources[p[1]].name, p[2])'
    BY <1>1, <1>3 DEF Usable
  <2>2. PICK name : name = sources[p[1]].name
    OBVIOUS
  <2>3. name \in Names
    BY <2>1, <2>2 DEF Inv, Tables, Table, Source
  <2>4. Authorized(k, keys[k], name, p[2])'
    BY <1>1, <2>1, <2>2
  <2>5. Authorized(k, keys[k], name, p[2])
    BY <1>2, <2>3, <2>4
  <2> QED
    BY <2>1, <2>2, <2>5 DEF Usable
<1> QED
  BY <1>3
\* No plan takes a team away; a removal plans to leave what it takes away and
\* writes no list.
FormsFit ==
    \A r \in Requests : plan[r] # NoPlan =>
        /\ kind[r] # "team_delete"
        /\ kind[r] = "grant_remove" =>
             /\ plan[r].pairs = {} /\ plan[r].sources # None
             /\ \E t : /\ plan[r].ticked = {t} /\ plan[r].cut = t.sources
                       /\ plan[r].sources \cap t.sources = {}

LEMMA RemovalPlanned ==
    ASSUME Inv, NEW r \in Requests, PostRemove(r)
    PROVE  /\ plan'[r].pairs = {} /\ plan'[r].sources # None
           /\ \E t : /\ plan'[r].ticked = {t} /\ plan'[r].cut = t.sources
                     /\ plan'[r].sources \cap t.sources = {}
<1>1. \E u \in users \ Admins : \E t : \E n \in granted[u] :
         t.sources = {n} /\ Planned(r, u, t, granted[u] \ {n}, {n}, {})
  BY DEF PostRemove
<1>2. PICK u \in users \ Admins : \E t : \E n \in granted[u] :
         t.sources = {n} /\ Planned(r, u, t, granted[u] \ {n}, {n}, {})
  BY <1>1
<1>3. PICK t : \E n \in granted[u] :
         t.sources = {n} /\ Planned(r, u, t, granted[u] \ {n}, {n}, {})
  BY <1>2
<1>4. PICK n \in granted[u] :
         t.sources = {n} /\ Planned(r, u, t, granted[u] \ {n}, {n}, {})
  BY <1>3
<1>5. plan'[r] = [who |-> u, ticked |-> {t}, sources |-> granted[u] \ {n}, cut |-> {n}, pairs |-> {}]
  BY <1>4 DEF Planned, Inv, Control
<1>6. granted[u] \ {n} # None
  <2>1. u \in Grantees
    BY WhoExists DEF Inv
  <2>2. granted[u] \ {n} \in SUBSET Names
    BY <2>1 DEF Inv, Tables
  <2> QED
    BY <2>2, GrantsAssumption DEF GrantsAssumption
<1> QED
  BY <1>4, <1>5, <1>6

LEMMA FormsFitStep ==
    ASSUME Inv, FormsFit, NEW r \in Requests, Step(r), kind' = kind
    PROVE  FormsFit'
<1>1. Frame(r)
  BY StepFrame DEF Inv
<1>2. ASSUME NEW q \in Requests, plan'[q] # NoPlan
      PROVE  /\ kind'[q] # "team_delete"
             /\ kind'[q] = "grant_remove" =>
                  /\ plan'[q].pairs = {} /\ plan'[q].sources # None
                  /\ \E t : /\ plan'[q].ticked = {t} /\ plan'[q].cut = t.sources
                            /\ plan'[q].sources \cap t.sources = {}
  <2>1. CASE q # r \/ plan' = plan
    <3>1. plan'[q] = plan[q]
      BY <1>1, <2>1 DEF Frame
    <3> QED
      BY <1>2, <3>1 DEF FormsFit
  <2>2. CASE q = r /\ plan' # plan
    <3>1. ~Commit(r)
      BY <1>2, <2>2, CommitPosted
    <3>2. GrantPosts(r) \/ NewKeyPosts(r) \/ EditPosts(r)
      BY <2>2, <3>1, PostsPlan
    <3>3. kind[r] # "team_delete" /\ (kind[r] = "grant_remove" => PostRemove(r))
      BY <3>2 DEF GrantPosts, NewKeyPosts, EditPosts, PostAdd, PostModelList, PostRemove, PostUser,
          PostDefault, PostTeam, PostKey, PostSetupKey, PostTeamKey, PostOwnKey
    <3> QED
      BY <2>2, <3>3, RemovalPlanned
  <2> QED
    BY <2>1, <2>2
<1> QED
  BY <1>2 DEF FormsFit

\* A key, its team and its owner are different from each other, and from the
\* users and keys that a request is about to make.
LEMMA KeyParties ==
    ASSUME Inv, NEW k \in DOMAIN keys
    PROVE  /\ k \notin users \cup teams /\ k \in Grantees /\ users \cap teams = {}
           /\ keys[k].team \in teams \cup {None} /\ keys[k].owner \in users \cup {None}
           /\ None \notin Grantees /\ users \subseteq Grantees /\ teams \subseteq Grantees
           /\ \A r \in Requests : at[r] # "done" /\ kind[r] \in NewKeys \cup {"user", "register"} =>
                r \notin {k, keys[k].team, keys[k].owner}
<1>1. /\ keys[k].team \in teams \cup {None} /\ keys[k].owner \in users \cup {None}
      /\ k \in Keys \/ (k \in Requests /\ kind[k] \in NewKeys /\ at[k] = "done")
  BY DEF Inv, People, KeyRows
<1>2. /\ users \subseteq Users \cup {r \in Requests : kind[r] \in {"user", "register"} /\ at[r] = "done"}
      /\ teams \subseteq Teams \cup {r \in Requests : kind[r] = "team"}
  BY DEF Inv, People
<1>3. /\ Users \cap Teams = {} /\ (Users \cup Teams) \cap Keys = {}
      /\ (Users \cup Teams \cup Keys) \cap Requests = {} /\ None \notin Grantees
      /\ Requests \subseteq Grantees
  BY GrantsAssumption, InventoryAssumption DEF GrantsAssumption, InventoryAssumption
<1>4. k \notin users \cup teams /\ users \cap teams = {}
  BY <1>1, <1>2, <1>3 DEF NewKeys
<1>5. ASSUME NEW r \in Requests, at[r] # "done", kind[r] \in NewKeys \cup {"user", "register"}
      PROVE  r \notin {k, keys[k].team, keys[k].owner}
  <2>1. r # k
    BY <1>1, <1>3, <1>5
  <2>2. r \notin teams /\ r \notin users /\ r # None
    BY <1>2, <1>3, <1>5 DEF NewKeys
  <2> QED
    BY <1>1, <2>1, <2>2
<1> QED
  BY <1>1, <1>3, <1>4, <1>5, WhoExists DEF Inv

\* What becomes of the keys that a form is not about.
LEMMA CommitElsewhere ==
    ASSUME Inv, NEW r \in Requests, Commit(r), UNCHANGED aliases, NEW k \in DOMAIN keys,
           plan[r].who \notin {k, keys[k].team, keys[k].owner} \/ UNCHANGED grants,
           kind[r] = "key_edit" => plan[r].who # k
    PROVE  Usable(k)' \subseteq Usable(k)
<1>1. CommittedKeys(r) /\ UNCHANGED inventory
  BY CommitRows, CommitPosted
<1>2. keys'[k] = keys[k]
  BY <1>1 DEF CommittedKeys
<1>3. \A g \in Grantees : g \in {k, keys[k].team, keys[k].owner} =>
         granted'[g] = granted[g] /\ allowed'[g] = allowed[g]
  <2>1. CASE UNCHANGED grants
    BY <2>1 DEF grants
  <2>2. CASE ~UNCHANGED grants
    BY <2>2, CommitRows
  <2> QED
    BY <2>1, <2>2
<1>4. k \in Grantees /\ \A g \in {keys[k].team, keys[k].owner} \ {None} : g \in Grantees
  BY KeyParties
<1>5. granted'[k] = granted[k] /\ \A n : Listed(k, n)' = Listed(k, n)
  BY <1>3, <1>4 DEF Listed
<1>6. \A g \in {keys[k].team, keys[k].owner} \ (Admins \cup {None}) :
         granted'[g] \subseteq granted[g] /\ \A n \in granted'[g] : Listed(g, n)' = Listed(g, n)
  BY <1>3, <1>4 DEF Listed
<1> QED
  BY <1>1, <1>2, <1>5, <1>6, ReachShrinks
\* A removal takes from keys, though the user's grants are written as a whole.
LEMMA RemovalShrinks ==
    ASSUME Inv, PlansFit, FormsFit, NEW r \in Requests, Commit(r), UNCHANGED aliases,
           kind[r] = "grant_remove", moved[r] = {}, NEW k \in DOMAIN keys
    PROVE  Usable(k)' \subseteq Usable(k)
<1>1. CASE UNCHANGED grants
  BY <1>1, CommitElsewhere
<1>2. CASE ~UNCHANGED grants
  <2>1. /\ CommittedKeys(r) /\ UNCHANGED inventory /\ plan[r] # NoPlan
        /\ plan[r].who \in users
    BY CommitRows, CommitPosted DEF Commit, NewKeys, GrantForm, UserGrants
  <2>2. PICK t : /\ plan[r].ticked = {t} /\ plan[r].cut = t.sources
                 /\ plan[r].sources \cap t.sources = {}
    BY <2>1 DEF FormsFit
  <2>3. plan[r].pairs = {} /\ plan[r].sources # None
    BY <2>1 DEF FormsFit
  <2>4. plan[r].sources \subseteq granted[plan[r].who]
    BY <2>1, <2>2, <2>3 DEF PlansFit, Asked
  <2>5. /\ granted' = [g \in Grantees |-> IF g = plan[r].who THEN plan[r].sources ELSE granted[g]]
        /\ allowed' = [g \in Grantees |-> IF g = plan[r].who
                                          THEN {q \in allowed[g] : q[1] \notin t.sources} ELSE allowed[g]]
    BY <1>2, <2>2, <2>3, CommitRows
  <2>6. keys'[k] = keys[k]
    BY <2>1 DEF CommittedKeys, NewKeys
  <2>7. /\ k \in Grantees /\ k \notin users
        /\ \A g \in {keys[k].team, keys[k].owner} \ {None} : g \in Grantees
    BY KeyParties
  <2>8. granted'[k] = granted[k] /\ \A n : Listed(k, n)' = Listed(k, n)
    BY <2>1, <2>5, <2>7 DEF Listed
  <2>9. ASSUME NEW g \in Grantees
        PROVE  granted'[g] \subseteq granted[g] /\ \A n \in granted'[g] : Listed(g, n)' = Listed(g, n)
    <3>1. CASE g # plan[r].who
      BY <2>5, <3>1 DEF Listed
    <3>2. CASE g = plan[r].who
      <4>1. granted'[g] = plan[r].sources /\ allowed'[g] = {q \in allowed[g] : q[1] \notin t.sources}
        BY <2>5, <3>2
      <4>2. ASSUME NEW n \in plan[r].sources
            PROVE  {q \in {p \in allowed[g] : p[1] \notin t.sources} : q[1] = n} = {q \in allowed[g] : q[1] = n}
        <5>1. n \notin t.sources
          BY <2>2
        <5> QED
          BY <5>1
      <4>3. \A n \in plan[r].sources : Listed(g, n)' = Listed(g, n)
        BY <4>1, <4>2 DEF Listed
      <4> QED
        BY <2>4, <3>2, <4>1, <4>3
    <3> QED
      BY <3>1, <3>2
  <2> QED
    BY <2>1, <2>6, <2>7, <2>8, <2>9, ReachShrinks
<1> QED
  BY <1>1, <1>2

\* Which steps change what keys may use.
LEMMA ReachChange ==
    ASSUME Inv, NEW r \in Requests, Step(r), kind' = kind
    PROVE  \/ UNCHANGED <<inventory, aliases, grants, keys>>
           \/ Saves(r, SourceKinds \cup AliasKinds \cup {"sync", "auto_sync", "models"})
           \/ /\ DeleteTeam(r) \/ RotateKey(r) \/ RevokeKey(r) \/ Register(r) \/ Commit(r)
              /\ UNCHANGED <<inventory, aliases>>
<1> DEFINE Written == Saves(r, SourceKinds \cup AliasKinds \cup {"sync", "auto_sync", "models"})
<1>0. at' \in [Requests -> States] /\ at \in [Requests -> States] /\ Shape(r)
  BY StepFrame DEF Inv, Control, Frame
<1>1. CASE InventoryStep(r) /\ UNCHANGED <<aliases, setup>>
  <2>1. CASE \/ Refuse(r) \/ LoadSource(r) \/ CheckName(r) \/ LoadAll(r) \/ ShowModels(r)
             \/ PostModels(r) \/ PostSync(r) \/ AutoSync(r) \/ WizardSync(r) \/ SyncSource(r)
    BY <1>1, <2>1 DEF Refuse, LoadSource, CheckName, LoadAll, ShowModels, PostModels,
                PostSync, AutoSync, WizardSync, SyncSource, BeginSync, setup, people
  <2>2. CASE UpdateSource(r) \/ DeleteSource(r) \/ Upsert(r) \/ SaveModels(r)
    BY <1>0, <2>2 DEF UpdateSource, DeleteSource, Upsert, SaveModels, End, Goto, Saves, SourceKinds
  <2>3. CASE SyncCommit(r)
    <3>1. at[r] = "syncing" /\ at'[r] = "done"
      BY <1>0, <2>3 DEF SyncCommit, End, Goto
    <3> QED
      BY <1>0, <3>1 DEF Saves, SourceKinds, Shape
  <2>4. CASE SaveAll(r)
    <3>1. at[r] = "loaded" /\ at'[r] \in {"saved", "done"} /\ kind[r] = "save_all"
      BY <1>0, <2>4 DEF SaveAll, End, Goto
    <3> QED
      BY <3>1 DEF Saves, SourceKinds
  <2> QED
    BY <1>1, <2>1, <2>2, <2>3, <2>4 DEF InventoryStep
<1>2. CASE AliasStep(r) /\ UNCHANGED setup
  <2>1. CASE LoadAlias(r) \/ PostNewAlias(r) \/ PostAlias(r)
    BY <1>2, <2>1 DEF LoadAlias, PostNewAlias, PostAlias, setup, people
  <2>2. CASE CommitAlias(r) \/ DeleteAlias(r)
    <3>1. at[r] \in {"posted", "loaded"} /\ at'[r] = "done" /\ kind[r] \in AliasKinds
      BY <1>0, <2>2 DEF CommitAlias, DeleteAlias, End, Goto, AliasKinds
    <3> QED
      BY <3>1 DEF Saves
  <2> QED
    BY <1>2, <2>1, <2>2 DEF AliasStep
<1>3. CASE CallStep(r)
  BY <1>3 DEF CallStep, Route, RouteNamed, Unresolved, Authorize, Reach, setup, people
<1>4. CASE GrantStep(r) /\ UNCHANGED aliases
  <2>1. UNCHANGED inventory
    BY <1>4, GrantStepKeepsInventory
  <2>2. CASE \E from : Post(r, from)
    BY <1>4, <2>1, <2>2 DEF Post, people
  <2>3. CASE \/ PostAdd(r) \/ PostModelList(r) \/ PostRemove(r) \/ PostUser(r)
             \/ PostDefault(r) \/ PostTeam(r) \/ PostKey(r) \/ PostSetupKey(r)
             \/ PostTeamKey(r) \/ PostOwnKey(r)
    BY <2>2, <2>3 DEF PostAdd, PostModelList, PostRemove, PostUser, PostDefault, PostTeam,
                      PostKey, PostSetupKey, PostTeamKey, PostOwnKey
  <2>4. CASE LoadSettings(r) \/ LoadGrants(r) \/ LoadKey(r) \/ SetAccess(r) \/ SetRouting(r)
    BY <1>4, <2>1, <2>4 DEF LoadSettings, LoadGrants, LoadKey, SetAccess, SetRouting, people
  <2> QED
    BY <1>4, <2>1, <2>3, <2>4 DEF GrantStep
<1> QED
  BY <1>1, <1>2, <1>3, <1>4 DEF Step, CallStep

\* Keys come to use more by forms about them, their team or their owner, and by
\* sources, models and aliases: never by what is taken from somebody, or granted
\* to somebody else.
THEOREM KeysStayUnderTheirCeilings == Spec => KeysWidenByOwnForms
<1> DEFINE ByForm(r, k) ==
        \/ Saves(r, SourceKinds \cup AliasKinds \cup {"sync", "auto_sync", "models"})
        \/ /\ Saves(r, {"grant_add", "grant_models", "team", "key_edit"})
           /\ plan[r].who \in {k, keys[k].team, keys[k].owner}
        \/ kind[r] = "team_delete" /\ keys[k].team # None /\ keys'[k].team = None
        \/ Saves(r, GrantKinds) /\ moved[r] # {}
<1> DEFINE ByOwnForms ==
        \A k \in DOMAIN keys : ~(Usable(k)' \subseteq Usable(k)) => \E r \in Requests : ByForm(r, k)
<1>1. Init => FormsFit
  BY DEF Init, FormsFit
<1>2. Init => PlansFit
  BY DEF Init, PlansFit
<1>3. Inv /\ FormsFit /\ [Next]_vars => FormsFit'
  <2>1. CASE UNCHANGED vars
    BY <2>1 DEF vars, setup, FormsFit
  <2> QED
    BY <2>1, FormsFitStep DEF Next, Finished
<1>4. Inv /\ PlansFit /\ [Next]_vars => PlansFit'
  <2>1. CASE UNCHANGED vars
    BY <2>1 DEF vars, setup, grants, PlansFit, Asked
  <2> QED
    BY <2>1, PlansFitStep DEF Next, Finished
<1>5. ASSUME Inv, PlansFit, FormsFit, NEW r \in Requests, Step(r), kind' = kind, NEW k \in DOMAIN keys
      PROVE  Usable(k)' \subseteq Usable(k) \/ ByForm(r, k)
  <2>1. /\ k \in Grantees /\ k \notin users \cup teams /\ users \cap teams = {}
        /\ keys[k].team \in teams \cup {None} /\ keys[k].owner \in users \cup {None}
        /\ None \notin Grantees /\ users \subseteq Grantees /\ teams \subseteq Grantees
    BY <1>5, KeyParties
  <2>2. CASE UNCHANGED <<inventory, aliases, grants, keys>>
    BY <1>5, <2>2, ReachShrinks DEF grants, Listed
  <2>3. CASE (RotateKey(r) \/ RevokeKey(r)) /\ UNCHANGED <<inventory, aliases>>
    <3>1. UNCHANGED grants
      BY <2>3 DEF RotateKey, RevokeKey, SaveKey
    <3> QED
      BY <1>5, <2>3, <3>1, SaveKeyRows, ReachShrinks DEF grants, Listed
  <2>4. CASE DeleteTeam(r) /\ UNCHANGED <<inventory, aliases>>
    <3>1. PICK t \in teams :
            /\ keys' = [l \in DOMAIN keys |-> [keys[l] EXCEPT !.team = IF @ = t THEN None ELSE @]]
            /\ granted' = [granted EXCEPT ![t] = {}] /\ allowed' = [allowed EXCEPT ![t] = {}]
      BY <2>4 DEF DeleteTeam
    <3>2. /\ keys'[k].owner = keys[k].owner /\ keys'[k].active = keys[k].active
          /\ keys'[k].team = IF keys[k].team = t THEN None ELSE keys[k].team
      BY <1>5, <3>1, DeleteTeamRows
    <3>3. CASE keys[k].team = t
      BY <2>1, <2>4, <3>2, <3>3 DEF DeleteTeam
    <3>4. CASE keys[k].team # t
      <4>1. granted \in [Grantees -> SUBSET Names] /\ allowed \in [Grantees -> SUBSET Pairs]
        BY <1>5 DEF Inv, Tables
      <4>2. \A g \in {k, keys[k].team, keys[k].owner} \ {None} :
              granted'[g] = granted[g] /\ allowed'[g] = allowed[g]
        BY <2>1, <3>1, <3>4, <4>1
      <4>3. k # None
        BY <2>1
      <4> QED
        BY <1>5, <2>4, <3>2, <3>4, <4>2, <4>3, ReachShrinks DEF Listed
    <3> QED
      BY <3>3, <3>4
  <2>5. CASE Commit(r) /\ UNCHANGED <<inventory, aliases>>
    <3>1. /\ at[r] = "posted" /\ at'[r] = "done" /\ plan[r] # NoPlan
          /\ \/ kind[r] \in GrantKinds /\ GrantForm(r)
             \/ kind[r] \in NewKeys /\ NewKeyForm(r)
             \/ kind[r] = "key_edit" /\ EditForm(r)
      BY <1>5, <2>5, CommitPosted DEF Commit
    <3>2. kind[r] # "team_delete"
      BY <1>5, <3>1 DEF FormsFit
    <3>3. CASE kind[r] \in {"grant_add", "grant_models", "team", "key_edit"}
      <4>1. Saves(r, {"grant_add", "grant_models", "team", "key_edit"})
        BY <3>1, <3>3 DEF Saves
      <4>2. CASE plan[r].who \in {k, keys[k].team, keys[k].owner}
        BY <4>1, <4>2
      <4>3. CASE ~(plan[r].who \in {k, keys[k].team, keys[k].owner})
        BY <1>5, <2>5, <4>3, CommitElsewhere
      <4> QED
        BY <4>2, <4>3
    <3>4. CASE kind[r] = "default"
      <4>1. plan[r].who = None /\ kind[r] # "key_edit"
        BY <3>1, <3>4 DEF GrantForm, NewKeys
      <4>2. CASE UNCHANGED grants
        BY <1>5, <2>5, <4>1, <4>2, CommitElsewhere
      <4>3. CASE ~UNCHANGED grants
        <5>1. \A g \in Grantees : granted'[g] = granted[g] /\ allowed'[g] = allowed[g]
          BY <1>5, <2>1, <2>5, <4>1, <4>3, CommitRows
        <5>2. keys'[k] = keys[k]
          BY <1>5, <2>5, <3>4, CommitRows DEF CommittedKeys, NewKeys
        <5> QED
          BY <1>5, <2>1, <2>5, <5>1, <5>2, ReachShrinks DEF Listed
      <4> QED
        BY <4>2, <4>3
    <3>5. CASE kind[r] \in NewKeys \cup {"user", "register"}
      <4>1. plan[r].who = r /\ kind[r] # "key_edit"
        BY <3>1, <3>5 DEF GrantForm, NewKeyForm, NewKeys, GrantKinds
      <4>2. r \notin {k, keys[k].team, keys[k].owner}
        BY <1>5, <3>1, <3>5, KeyParties
      <4> QED
        BY <1>5, <2>5, <4>1, <4>2, CommitElsewhere
    <3>6. CASE kind[r] = "grant_remove"
      <4>1. CASE moved[r] = {}
        BY <1>5, <2>5, <3>6, <4>1, RemovalShrinks
      <4>2. CASE moved[r] # {}
        BY <3>1, <3>6, <4>2 DEF Saves, GrantKinds
      <4> QED
        BY <4>1, <4>2
    <3> QED
      BY <3>1, <3>2, <3>3, <3>4, <3>5, <3>6 DEF GrantKinds
  <2>6. CASE Register(r) /\ UNCHANGED <<inventory, aliases>>
    <3>1. /\ at[r] = "loaded" /\ kind[r] = "register" /\ keys' = keys
          /\ \E names, pairs : granted' = [granted EXCEPT ![r] = names] /\ allowed' = [allowed EXCEPT ![r] = pairs]
      BY <1>5, <2>6, RegisterRows
    <3>2. r \notin {k, keys[k].team, keys[k].owner}
      BY <1>5, <3>1, KeyParties
    <3>3. granted \in [Grantees -> SUBSET Names] /\ allowed \in [Grantees -> SUBSET Pairs]
      BY <1>5 DEF Inv, Tables
    <3>4. \A g \in {k, keys[k].team, keys[k].owner} \ {None} :
            granted'[g] = granted[g] /\ allowed'[g] = allowed[g]
      BY <2>1, <3>1, <3>2, <3>3
    <3>5. k # None
      BY <2>1
    <3> QED
      BY <1>5, <2>6, <3>1, <3>4, <3>5, ReachShrinks DEF Listed
  <2> QED
    BY <1>5, <2>2, <2>3, <2>4, <2>5, <2>6, ReachChange
<1>6. ASSUME Inv, PlansFit, FormsFit, Next PROVE ByOwnForms \/ UNCHANGED vars
  <2>1. CASE Finished
    BY <2>1 DEF Finished
  <2>2. ASSUME NEW r \in Requests, Step(r), kind' = kind PROVE ByOwnForms
    <3> SUFFICES ASSUME NEW k \in DOMAIN keys, ~(Usable(k)' \subseteq Usable(k))
                 PROVE  \E q \in Requests : ByForm(q, k)
      OBVIOUS
    <3> HIDE DEF ByForm
    <3>1. ByForm(r, k)
      BY <1>5, <1>6, <2>2
    <3> QED
      BY <3>1
  <2> QED
    BY <1>6, <2>1, <2>2 DEF Next
<1>7. Inv /\ PlansFit /\ FormsFit /\ [Next]_vars => [ByOwnForms]_vars
  BY <1>6
<1> QED
  BY <1>1, <1>2, <1>3, <1>4, <1>7, InvHolds, PTL DEF Spec, KeysWidenByOwnForms
=============================================================================
