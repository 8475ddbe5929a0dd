-------------------------- MODULE MessageProtocol --------------------------
(***************************************************************************)
(* What a client of the Messages dialect may be sent: one message, made of *)
(* content blocks with consecutive indices, each started, filled while it  *)
(* is open and stopped; a message ends with every block stopped and at     *)
(* least one block in it.  A client that did not ask for a stream may get  *)
(* the whole message as one body instead.                                  *)
(***************************************************************************)
EXTENDS Integers

VARIABLES message,   \* "none", "open" or "stopped"
          begun,     \* indices of the content blocks started so far
          live,      \* those not stopped yet
          last       \* the last event sent

sent == <<message, begun, live, last>>

Event(kind, i) == [kind |-> kind, index |-> i]
NoIndex == -1

Init ==
    /\ message = "none" /\ begun = {} /\ live = {}
    /\ last = Event("nothing", NoIndex)

Begin ==
    /\ message = "none" /\ message' = "open"
    /\ last' = Event("message_start", NoIndex)
    /\ UNCHANGED <<begun, live>>

StartBlock(i) ==
    /\ message = "open"
    /\ i \in Nat /\ begun = 0 .. i - 1
    /\ begun' = begun \cup {i} /\ live' = live \cup {i}
    /\ last' = Event("content_block_start", i)
    /\ UNCHANGED message

Delta(i) ==
    /\ message = "open" /\ i \in live
    /\ last' = Event("content_block_delta", i)
    /\ UNCHANGED <<message, begun, live>>

StopBlock(i) ==
    /\ message = "open" /\ i \in live
    /\ live' = live \ {i}
    /\ last' = Event("content_block_stop", i)
    /\ UNCHANGED <<message, begun>>

End ==
    /\ message = "open" /\ live = {} /\ begun # {}
    /\ message' = "stopped"
    /\ last' = Event("message_stop", NoIndex)
    /\ UNCHANGED <<begun, live>>

Whole ==
    /\ message = "none" /\ message' = "stopped"
    /\ last' = Event("body", NoIndex)
    /\ UNCHANGED <<begun, live>>

\* Pings and error events do not belong to the message.
Aside ==
    /\ last' \in {Event("ping", NoIndex), Event("error", NoIndex)}
    /\ UNCHANGED <<message, begun, live>>

Next ==
    \/ Begin \/ End \/ Whole \/ Aside
    \/ \E i \in begun' \ begun : StartBlock(i)
    \/ \E i \in live : Delta(i) \/ StopBlock(i)

Spec == Init /\ [][Next]_sent
=============================================================================
