------------------------------ MODULE SlotPool ------------------------------
(***************************************************************************)
(* What a counting semaphore with an adjustable capacity promises: the     *)
(* abstract specification that the upstream admission gate implements.     *)
(* Slots are handed out only while they fit under the capacity in force,   *)
(* capacity may be changed at any time without evicting anybody, and slots *)
(* come back one at a time.                                                *)
(***************************************************************************)
EXTENDS Integers, FiniteSets

CONSTANTS Users,   \* whoever may own a slot
          Caps     \* the capacities an administrator may configure

VARIABLES owners,  \* the users that own a slot
          cap      \* the capacity in force; 0 until the first user arrives

poolVars == <<owners, cap>>

Init ==
    /\ owners = {}
    /\ cap = 0

\* A user arrives with the capacity now configured and finds a slot free.
Take(u) ==
    /\ u \notin owners
    /\ cap' \in Caps
    /\ owners' = owners \cup {u}
    /\ Cardinality(owners') <= cap'

\* A user arrives with the capacity now configured and has to wait.
Resize ==
    /\ cap' \in Caps
    /\ UNCHANGED owners

\* One slot comes back; it and any other spare slot may go to users waiting.
Return(u) ==
    /\ u \in owners
    /\ \E next \in SUBSET (Users \ owners) :
          /\ owners' = (owners \ {u}) \cup next
          /\ next # {} => Cardinality(owners') <= cap
    /\ UNCHANGED cap

Next ==
    \/ \E u \in Users : Take(u) \/ Return(u)
    \/ Resize

Spec == Init /\ [][Next]_poolVars
=============================================================================
