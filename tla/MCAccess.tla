------------------------------ MODULE MCAccess ------------------------------
(* An operator and a user, a team, a key of the user and one of the team; two *)
(* sources with room for a third name; up to three requests.                  *)
EXTENDS Routing

CONSTANTS ann, bob, team, own_key, team_key, m1, m2, a, r1, r2, r3

MCNames == 1..3
MCModels == {m1, m2}
MCAliases == {a}
MCRequests == {r1, r2, r3}
MCUsers == {ann, bob}
MCAdmins == {ann}
MCTeams == {team}
MCKeys == {own_key, team_key}
MCGrantees == MCUsers \cup MCTeams \cup MCKeys \cup MCRequests

MCTicks ==
    {[sources |-> {}, pairs |-> {}, pin |-> None],
     [sources |-> {1}, pairs |-> {<<1, m1>>}, pin |-> None],
     [sources |-> {2}, pairs |-> {}, pin |-> None],
     [sources |-> {1, 2}, pairs |-> {<<2, m2>>, <<2, a>>}, pin |-> 2]}

Row(source, model, disabled_by) ==
    [source |-> source, model |-> model, enabled |-> disabled_by = "",
     disabled_by |-> disabled_by, tags |-> None]

GrantedTo(u, t, k1, k2) ==
    [g \in MCGrantees |-> CASE g = bob -> u [] g = team -> t [] g = own_key -> k1
                            [] g = team_key -> k2 [] OTHER -> {}]

\* The tables before the requests kinds[1], kinds[2] and kinds[3].
Start(kinds, with_teams, pruning) ==
    [kind |-> (r1 :> kinds[1]) @@ (r2 :> kinds[2]) @@ (r3 :> kinds[3]),
     sources |-> <<[name |-> 1, addressed |-> TRUE], [name |-> 2, addressed |-> TRUE]>>,
     catalog |-> <<Row(1, m1, ""), Row(2, m1, ""), Row(2, m2, "admin")>>,
     aliases |-> <<[name |-> a, target |-> m1, pin |-> 2, on |-> TRUE]>>,
     keys |-> (own_key :> [owner |-> bob, team |-> None, active |-> TRUE, secret |-> None, pin |-> None])
           @@ (team_key :> [owner |-> bob, team |-> team, active |-> TRUE, secret |-> None, pin |-> 1]),
     granted |-> GrantedTo({1, 2}, {1, 2}, {1}, {}),
     allowed |-> [g \in MCGrantees |-> CASE g = bob -> {<<2, a>>} [] g = team -> {<<2, m1>>} [] OTHER -> {}],
     default |-> [sources |-> {1}, pairs |-> {<<1, m1>>}],
     teams_on |-> with_teams, prune |-> pruning]

\* Any two requests, with teams on where one of them needs it.
Both(s) == LET q == SetToSeq(s) IN <<q[1], q[2], None>>
Paired == Kinds \ {"auto_sync"}
Pairs2 == {Both(s) : s \in kSubset(2, Paired)} \cup {<<k, k, None>> : k \in Paired}
OfTeams == {"team", "team_delete"}

\* Three requests: a name given on, rows that change twice, calls beside both.
Threes ==
    {<<"delete", "create", "call">>, <<"update", "create", "call">>,
     <<"delete", "create", "grant_add">>, <<"update", "update", "grant_models">>,
     <<"key_new", "key_new", "key_edit">>, <<"key_revoke", "key_rotate", "key_edit">>,
     <<"grant_add", "grant_remove", "call">>, <<"user", "default", "update">>,
     <<"update", "save_all", "grant_remove">>, <<"update", "save_all", "user">>,
     <<"alias_save", "alias_delete", "call">>, <<"models", "models", "auto_sync">>}

MCStarts ==
    {Start(k, ToSet(k) \cap OfTeams # {}, TRUE) : k \in Pairs2 \cup Threes}
    \cup {Start(k, TRUE, FALSE) :
            k \in {<<"key_new", "key_edit", "team_delete">>, <<"sync", "models", None>>,
                   <<"key_edit", "key_edit", None>>, <<"key_new", "call", None>>}}
=============================================================================
