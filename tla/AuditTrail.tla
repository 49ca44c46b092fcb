----------------------------- MODULE AuditTrail -----------------------------
(***************************************************************************)
(* What both audit writers of the repository promise their callers: one    *)
(* append-only trail in which every record carries the hash of the record  *)
(* just before it.  The hash of a record is abstracted to the record's     *)
(* identity, which is what a collision-free digest of its whole content    *)
(* amounts to.                                                             *)
(***************************************************************************)
EXTENDS Naturals, Sequences

CONSTANTS
    Ids,                    \* the records that may be appended
    Genesis                 \* GENESIS_HASH: the predecessor of the first record

VARIABLE trail              \* the records, oldest first

Tip == IF trail = <<>> THEN Genesis ELSE trail[Len(trail)].id

Init == trail = <<>>

Extend(id) == trail' = Append(trail, [id |-> id, prev |-> Tip])

Next == \E id \in Ids : Extend(id)

Spec == Init /\ [][Next]_trail
=============================================================================
