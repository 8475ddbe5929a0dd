-------------------------- MODULE MCSourceAdmission --------------------------
(* Up to four calls by two keys; the second key has the higher priority. *)
EXTENDS SourceAdmission

CONSTANTS c1, c2, c3, c4, k1, k2

MCCalls == {c1, c2, c3, c4}
MCThreeCalls == {c1, c2, c3}
MCKeyOf == [c \in Calls |-> IF c \in {c1, c2} THEN k1 ELSE k2]
MCPrio == [c \in Calls |-> IF MCKeyOf[c] = k2 THEN 5 ELSE 0]
=============================================================================
