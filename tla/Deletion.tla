------------------------------ MODULE Deletion ------------------------------
(***************************************************************************)
(* Cascade deletion across the database and the object store: the Deleter  *)
(* of explorer/storage/deletion.py over the repositories of postgres.py    *)
(* and the adapters of object_store.py, in one workspace.                  *)
(*                                                                         *)
(* Every repository call is a committed transaction of its own and every   *)
(* object-store call is a request of its own, so concurrent deletions (the *)
(* retention sweeper, a user, a workspace deletion) interleave at each of  *)
(* them.  A key names a payload: the original of a document or the text of *)
(* a chunk.                                                                *)
(***************************************************************************)
EXTENDS Naturals, FiniteSets

CONSTANTS
    Docs,           \* documents of the workspace
    Keys,           \* object-store keys
    OriginalOf,     \* payload_ref of each document
    TextsOf,        \* keys the chunk texts of each document may have
    Deleters,       \* callers of delete_document and delete_workspace
    Workspace,      \* the subject of delete_workspace
    Indexed,        \* documents whose chunks are indexed anew meanwhile
    Faults,         \* what may happen besides, a subset of FaultKinds
    MaxFaults       \* refusals, exceptions and crashes in a behaviour (bound)

FaultKinds ==
    {"store",       \* the object store raises ObjectStoreError
     "raise",       \* a call raises anything else: OSError, botocore, psycopg
     "crash"}       \* the process dies

ContentOf(d) == {OriginalOf[d]} \cup TextsOf[d]

ASSUME KeysAssumption ==
    /\ OriginalOf \in [Docs -> Keys]
    /\ TextsOf \in [Docs -> SUBSET Keys]
    /\ \A d \in Docs : OriginalOf[d] \notin TextsOf[d]
    /\ \A d, e \in Docs : d # e => ContentOf(d) \cap ContentOf(e) = {}
    /\ Keys = UNION {ContentOf(d) : d \in Docs}
ASSUME WorkspaceAssumption == Workspace \notin Docs /\ Indexed \subseteq Docs
ASSUME FaultsAssumption == Faults \subseteq FaultKinds /\ MaxFaults \in Nat

VARIABLES
    rows,           \* documents with a row
    chunks,         \* chunks[d]: the text_refs of the chunk rows of d
    payloads,       \* keys with an object behind them
    pc,             \* where each deleter is
    subject,        \* what it deletes
    todo,           \* the keys it has still to delete
    failed,         \* whether the object store refused one
    log,            \* the deletion records of the audit chain
    faults,         \* how many faults there have been
    fresh           \* chunk texts put for a document whose rows are not there yet

vars == <<rows, chunks, payloads, pc, subject, todo, failed, log, faults, fresh>>

Subjects == Docs \cup {Workspace}
Records == [subject : Subjects, complete : BOOLEAN, absent : BOOLEAN]

Init ==
    /\ rows = Docs
    /\ chunks \in {f \in [Docs -> SUBSET Keys] : \A d \in Docs : f[d] \subseteq TextsOf[d]}
    /\ payloads = UNION {{OriginalOf[d]} \cup chunks[d] : d \in Docs}
    /\ pc = [w \in Deleters |-> "idle"]
    /\ subject = [w \in Deleters |-> Workspace]
    /\ todo = [w \in Deleters |-> {}]
    /\ failed = [w \in Deleters |-> FALSE]
    /\ log = {}
    /\ faults = 0
    /\ fresh = [d \in Docs |-> {}]

Goto(w, label) == pc' = [pc EXCEPT ![w] = label]
Stores == <<rows, chunks, payloads>>

\* The call returned or raised, and its local variables with it.
Leave(w) ==
    /\ Goto(w, "idle")
    /\ subject' = [subject EXCEPT ![w] = Workspace]
    /\ todo' = [todo EXCEPT ![w] = {}]
    /\ failed' = [failed EXCEPT ![w] = FALSE]

Fault(kind) ==
    /\ kind \in Faults
    /\ faults < MaxFaults
    /\ faults' = faults + 1

-----------------------------------------------------------------------------
\* delete_document: the row is read; a document that is not there is reported
\* as already absent.
Lookup(w, d) ==
    /\ pc[w] = "idle"
    /\ Goto(w, IF d \in rows THEN "listing" ELSE "absent")
    /\ subject' = [subject EXCEPT ![w] = d]
    /\ todo' = [todo EXCEPT ![w] = {}]
    /\ failed' = [failed EXCEPT ![w] = FALSE]
    /\ UNCHANGED <<Stores, log, faults, fresh>>

\* Mutant: the texts of the chunks are left to the database cascade.
ListKeys_OriginalOnly(w) ==
    /\ pc[w] = "listing"
    /\ todo' = [todo EXCEPT ![w] = {OriginalOf[subject[w]]}]
    /\ Goto(w, "payloads")
    /\ UNCHANGED <<Stores, subject, failed, log, faults, fresh>>

\* The keys to delete: the original and the text of every chunk.
ListKeys(w) ==
    /\ pc[w] = "listing"
    /\ todo' = [todo EXCEPT ![w] = {OriginalOf[subject[w]]} \cup chunks[subject[w]]]
    /\ Goto(w, "payloads")
    /\ UNCHANGED <<Stores, subject, failed, log, faults, fresh>>

\* delete_workspace: everything under the prefix is listed.
ListPrefix(w) ==
    /\ pc[w] = "idle"
    /\ subject' = [subject EXCEPT ![w] = Workspace]
    /\ todo' = [todo EXCEPT ![w] = payloads]
    /\ failed' = [failed EXCEPT ![w] = FALSE]
    /\ Goto(w, "payloads")
    /\ UNCHANGED <<Stores, log, faults, fresh>>

\* Keys go one by one, the original of a document before its texts.
Pending(w) ==
    IF subject[w] \in Docs /\ OriginalOf[subject[w]] \in todo[w]
    THEN {OriginalOf[subject[w]]} ELSE todo[w]

\* Mutant: a second deletion of the same key is an error.
RemovePayload_NotIdempotent(w) ==
    /\ pc[w] = "payloads"
    /\ \E k \in Pending(w) \cap payloads :
          /\ payloads' = payloads \ {k}
          /\ todo' = [todo EXCEPT ![w] = @ \ {k}]
    /\ UNCHANGED <<rows, chunks, pc, subject, failed, log, faults, fresh>>

\* The object is gone, now or since before.
RemovePayload(w) ==
    /\ pc[w] = "payloads"
    /\ \E k \in Pending(w) :
          /\ payloads' = payloads \ {k}
          /\ todo' = [todo EXCEPT ![w] = @ \ {k}]
    /\ UNCHANGED <<rows, chunks, pc, subject, failed, log, faults, fresh>>

\* Mutant: the exception is logged and nothing else.
PayloadRefused_Ignored(w) ==
    /\ Fault("store")
    /\ pc[w] = "payloads"
    /\ \E k \in Pending(w) :
          todo' = [todo EXCEPT ![w] = IF subject[w] = Workspace THEN {} ELSE @ \ {k}]
    /\ UNCHANGED <<Stores, pc, subject, failed, log, fresh>>

\* ObjectStoreError: noted, and the next key is tried; a prefix is given up.
PayloadRefused(w) ==
    /\ Fault("store")
    /\ pc[w] = "payloads"
    /\ \E k \in Pending(w) :
          todo' = [todo EXCEPT ![w] = IF subject[w] = Workspace THEN {} ELSE @ \ {k}]
    /\ failed' = [failed EXCEPT ![w] = TRUE]
    /\ UNCHANGED <<Stores, pc, subject, log, fresh>>

\* What the DELETE of the subject's row cascades over.
Rows(s) == IF s = Workspace THEN Docs ELSE {s}

\* Mutant: the rows go whether or not the payloads went.
DeleteRows_Anyway(w) ==
    /\ pc[w] = "payloads"
    /\ todo[w] = {}
    /\ rows' = rows \ Rows(subject[w])
    /\ chunks' = [d \in Docs |-> IF d \in Rows(subject[w]) THEN {} ELSE chunks[d]]
    /\ Goto(w, "recording")
    /\ UNCHANGED <<payloads, subject, todo, failed, log, faults, fresh>>

\* With every payload removed, the row goes and the chunk rows with it.
DeleteRows(w) ==
    /\ pc[w] = "payloads"
    /\ todo[w] = {} /\ ~failed[w]
    /\ rows' = rows \ Rows(subject[w])
    /\ chunks' = [d \in Docs |-> IF d \in Rows(subject[w]) THEN {} ELSE chunks[d]]
    /\ Goto(w, "recording")
    /\ UNCHANGED <<payloads, subject, todo, failed, log, faults, fresh>>

\* A payload could not be removed: the rows are left in place.
KeepRows(w) ==
    /\ pc[w] = "payloads"
    /\ todo[w] = {} /\ failed[w]
    /\ Goto(w, "recording")
    /\ UNCHANGED <<Stores, subject, todo, failed, log, faults, fresh>>

\* Mutant: an incomplete deletion returns without its record.
Record_CompleteOnly(w) ==
    /\ pc[w] \in {"recording", "absent"}
    /\ log' = IF failed[w] THEN log
              ELSE log \cup {[subject |-> subject[w], complete |-> TRUE,
                              absent |-> pc[w] = "absent"]}
    /\ Leave(w)
    /\ UNCHANGED <<Stores, faults, fresh>>

\* _record: the audit record of what happened.
Record(w) ==
    /\ pc[w] \in {"recording", "absent"}
    /\ log' = log \cup {[subject |-> subject[w], complete |-> ~failed[w],
                         absent |-> pc[w] = "absent"]}
    /\ Leave(w)
    /\ UNCHANGED <<Stores, faults, fresh>>

\* An exception that is not ObjectStoreError leaves the deletion, from a
\* repository, from the object store or from the audit chain itself.
Raise(w) ==
    /\ Fault("raise")
    /\ pc[w] # "idle"
    /\ Leave(w)
    /\ UNCHANGED <<Stores, log, fresh>>

\* The process dies, and every deletion in it.
Crash ==
    /\ Fault("crash")
    /\ pc' = [w \in Deleters |-> "idle"]
    /\ subject' = [w \in Deleters |-> Workspace]
    /\ todo' = [w \in Deleters |-> {}]
    /\ failed' = [w \in Deleters |-> FALSE]
    /\ UNCHANGED <<Stores, log, fresh>>

-----------------------------------------------------------------------------
(* Indexing, external: src/ has the calls and their tests, not yet the
   component that makes them. *)

\* put of the text of a chunk that has no row yet.
PutText(d, k) ==
    /\ d \in Indexed \cap rows
    /\ k \in TextsOf[d] \ (payloads \cup chunks[d])
    /\ payloads' = payloads \cup {k}
    /\ fresh' = [fresh EXCEPT ![d] = @ \cup {k}]
    /\ UNCHANGED <<rows, chunks, pc, subject, todo, failed, log, faults>>

\* replace_for_document: the chunk rows go and the new ones come, in one
\* transaction, which the foreign key fails once the document row is gone.
ReplaceChunks(d) ==
    /\ fresh[d] # {}
    /\ chunks' = IF d \in rows THEN [chunks EXCEPT ![d] = fresh[d]] ELSE chunks
    /\ fresh' = [fresh EXCEPT ![d] = {}]
    /\ UNCHANGED <<rows, payloads, pc, subject, todo, failed, log, faults>>

-----------------------------------------------------------------------------
Next ==
    \/ \E w \in Deleters :
          \/ \E d \in Docs : Lookup(w, d)
          \/ ListKeys(w) \/ ListPrefix(w)
          \/ RemovePayload(w) \/ PayloadRefused(w)
          \/ DeleteRows(w) \/ KeepRows(w) \/ Record(w) \/ Raise(w)
    \/ Crash
    \/ \E d \in Docs : ReplaceChunks(d) \/ \E k \in TextsOf[d] : PutText(d, k)

Spec == Init /\ [][Next]_vars

\* A deletion that began runs on, and its caller comes back to every document
\* that still has a row, as sweep_workspace does on each of its rounds.
Fairness ==
    \A w \in Deleters :
        /\ WF_vars(\/ ListKeys(w) \/ RemovePayload(w) \/ DeleteRows(w)
                   \/ KeepRows(w) \/ Record(w))
        /\ \A d \in Docs : SF_vars(d \in rows /\ Lookup(w, d))
FairSpec == Spec /\ Fairness

-----------------------------------------------------------------------------
TypeOK ==
    /\ rows \subseteq Docs
    /\ chunks \in [Docs -> SUBSET Keys]
    /\ \A d \in Docs : chunks[d] \cup fresh[d] \subseteq TextsOf[d]
    /\ payloads \subseteq Keys
    /\ pc \in [Deleters -> {"idle", "listing", "payloads", "absent", "recording"}]
    /\ subject \in [Deleters -> Subjects]
    /\ todo \in [Deleters -> SUBSET Keys]
    /\ failed \in [Deleters -> BOOLEAN]
    /\ log \subseteq Records
    /\ faults \in 0..MaxFaults
    /\ fresh \in [Docs -> SUBSET Keys]

\* What is claimed of the texts is claimed of the documents nobody indexes
\* while they are deleted; the code has nothing that keeps the two apart.
Settled == Docs \ Indexed

\* No content survives its own deletion: an object in the store is named by a
\* row, whatever failed or crashed and however many deletions overlap.
NoOrphan ==
    \A d \in Settled :
        payloads \cap ContentOf(d) \subseteq
            IF d \in rows THEN {OriginalOf[d]} \cup chunks[d] ELSE {}

\* Even while a document is indexed its original never outlives its row.
OriginalGoesFirst == \A d \in Docs \ rows : OriginalOf[d] \notin payloads

Gone(d) == d \notin rows /\ payloads \cap ContentOf(d) = {}

\* A record that claims a complete deletion is true, also when it only found
\* the document already absent.
CompleteIsGone ==
    \A r \in log : r.complete => \A d \in Rows(r.subject) \cap Settled : Gone(d)

Whole(d) == d \in rows /\ {OriginalOf[d]} \cup chunks[d] \subseteq payloads

\* Two stores and several callers look like one erasure that never runs
\* backwards and never leaves content behind.
Outside == INSTANCE Erasure WITH
    Docs <- Settled,
    phase <- [d \in Settled |->
        IF d \in rows THEN IF Whole(d) THEN "kept" ELSE "dangling"
        ELSE IF payloads \cap ContentOf(d) = {} THEN "gone" ELSE "orphaned"]
ImplementsErasure == Outside!Spec

\* Re-running the deletion of a dangling document finishes it.
Converges ==
    \A d \in Settled : (d \in rows /\ ~Whole(d)) ~> Gone(d)
=============================================================================
