------------------------------ MODULE Aliases ------------------------------
(***************************************************************************)
(* Public names of models, which operators point at one of the models of   *)
(* the catalog and may pin to a source (app/model_aliases.py and the forms *)
(* of app/web/platform/models.py).                                         *)
(***************************************************************************)
EXTENDS Inventory

VARIABLE aliases   \* model_aliases, by id

Alias == [name : Aliases, target : Models, pin : Names \cup {None}, on : BOOLEAN]

AliasKinds == {"alias_add", "alias_save", "alias_delete"}

\* normalize_preferred_source: a pin must host the model, if anyone does.
PinFor(model, pin) ==
    LET hosts == {catalog[i].source : i \in {j \in DOMAIN catalog : catalog[j].model = model /\ catalog[j].enabled}}
    IN  IF hosts = {} \/ pin \in hosts THEN pin ELSE None

\* get_alias, and the alias that a call for a model is rewritten by.
Rewrites(model) == {i \in DOMAIN aliases : aliases[i].name = model /\ aliases[i].on}

\* model_allowed_via_alias.
AllowedViaAlias(allow, model) ==
    \E i \in DOMAIN aliases : aliases[i].on /\ aliases[i].name \in allow /\ aliases[i].target = model

AliasNames == {aliases[i].name : i \in DOMAIN aliases}

\* The row is loaded, for one form before that has arrived.
LoadAlias(r) ==
    /\ kind[r] \in {"alias_save", "alias_delete"} /\ Goto(r, "new", "loaded")
    /\ \E i \in DOMAIN aliases : read' = [read EXCEPT ![r] = Only(i, aliases[i])]
    /\ UNCHANGED <<inventory, grants, aliases, prune, loop, draft, fresh, switch, todo>>

\* models_alias_add, up to the commit.
PostNewAlias(r) ==
    /\ kind[r] = "alias_add" /\ TakeLoop(r) /\ Goto(r, "new", "posted")
    /\ \E name \in Aliases \ AliasNames, target \in Models, pin \in Names \cup {None} :
         fresh' = [fresh EXCEPT ![r] =
             <<[name |-> name, target |-> target, pin |-> PinFor(target, pin), on |-> TRUE]>>]
    /\ UNCHANGED <<inventory, grants, aliases, prune, read, draft, switch, todo>>

\* models_alias_save_one, with a name no other alias has.
PostAlias(r) ==
    /\ kind[r] = "alias_save" /\ TakeLoop(r) /\ Goto(r, "loaded", "posted")
    /\ \E i \in DOMAIN read[r], name \in Aliases, target \in Models, pin \in Names \cup {None}, on \in BOOLEAN :
         /\ \A j \in DOMAIN aliases \ {i} : aliases[j].name # name
         /\ draft' = [draft EXCEPT ![r] =
                Only(i, [name |-> name, target |-> target, pin |-> PinFor(target, pin), on |-> on])]
    /\ UNCHANGED <<inventory, grants, aliases, prune, read, fresh, switch, todo>>

\* The row is written, unless it is gone.
CommitAlias(r) ==
    /\ kind[r] \in {"alias_add", "alias_save"} /\ End(r, "posted")
    /\ aliases' = Inserted(Updated(aliases, read[r], draft[r]), fresh[r])
    /\ UNCHANGED <<inventory, grants, prune, todo>>

\* models_alias_delete_one.
DeleteAlias(r) ==
    /\ kind[r] = "alias_delete" /\ End(r, "loaded")
    /\ aliases' = Restrict(aliases, DOMAIN aliases \ DOMAIN read[r])
    /\ UNCHANGED <<inventory, grants, prune, todo>>

AliasStep(r) ==
    \/ LoadAlias(r) \/ PostNewAlias(r) \/ PostAlias(r) \/ CommitAlias(r) \/ DeleteAlias(r)
=============================================================================
