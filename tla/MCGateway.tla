----------------------------- MODULE MCGateway -----------------------------
(* One request on each path; the early and the plain one share a key. *)
EXTENDS Gateway, TLC

CONSTANTS plain1, early1, ticket1, k1, k2

MCRequests == {plain1, early1, ticket1}
MCPathOf == (plain1 :> "plain") @@ (early1 :> "early") @@ (ticket1 :> "ticket")
MCKeyOf == (plain1 :> k1) @@ (early1 :> k1) @@ (ticket1 :> k2)
=============================================================================
