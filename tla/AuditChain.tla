---------------------------- MODULE AuditChain ----------------------------
(***************************************************************************)
(* The hash chain over the audit log (app/audit.py).  Rows are kept in the *)
(* order of their ids.  hash_audit_chain(prev, payload) is taken to be     *)
(* injective and a payload is named by its author, so a hash is the        *)
(* sequence of the authors it covers and GENESIS covers none.              *)
(***************************************************************************)
EXTENDS Naturals, Sequences

GENESIS == << >>

hash_audit_chain(prev, who) == Append(prev, who)

\* Mutant: the log is read in ascending order.
FirstHash(chain) == IF chain = << >> THEN GENESIS ELSE chain[1].hash

\* The entry_hash of the last row that is committed.
LastHash(chain) == IF chain = << >> THEN GENESIS ELSE chain[Len(chain)].hash

\* write_audit inserts a row on top of the hash it has read before.
write_audit(chain, prev, who) ==
    Append(chain, [by |-> who, prev |-> prev, hash |-> hash_audit_chain(prev, who)])

HashBefore(chain, i) == IF i = 1 THEN GENESIS ELSE chain[i - 1].hash

\* The rows at which verify_audit_chain reports "chain break".
Breaks(chain) == {i \in DOMAIN chain : chain[i].prev # HashBefore(chain, i)}
=============================================================================
