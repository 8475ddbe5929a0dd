----------------------------- MODULE MCAccounts -----------------------------
(* Two operators, who are alike, and a user; two requests of each kind that *)
(* can meet its own kind.                                                    *)
EXTENDS Accounts, TLC

CONSTANTS ann, bob, cyd
CONSTANTS toggle1, toggle2, update1, password1, forgot1, forgot2, send1,
          reset1, invite1, revoke1, register1, register2

MCUsers == {ann, bob, cyd}
MCOperators == {ann, bob}

MCKind ==
    (toggle1 :> "toggle") @@ (toggle2 :> "toggle") @@
    (update1 :> "update") @@ (password1 :> "password") @@
    (forgot1 :> "forgot") @@ (forgot2 :> "forgot") @@ (send1 :> "send_reset") @@
    (reset1 :> "reset") @@
    (invite1 :> "invite") @@ (revoke1 :> "revoke") @@
    (register1 :> "register") @@ (register2 :> "register")

MCRequests == DOMAIN MCKind

\* Requests of one kind are alike: the first of two starts first.
InOrder ==
    /\ at[toggle2] # "new" => at[toggle1] # "new"
    /\ at[forgot2] # "new" => at[forgot1] # "new"
    /\ at[register2] # "new" => at[register1] # "new"

SameOperators == Permutations(MCOperators)

\* Bound: three requests ever start, or all four about an invitation, or three
\* that mail a link and one that is posted with a link.
FewStart ==
    LET started == {r \in Requests : at[r] # "new"}
    IN  \/ Cardinality(started) <= 3
        \/ started = {invite1, revoke1, register1, register2}
        \/ started = {forgot1, forgot2, send1, reset1}
=============================================================================
