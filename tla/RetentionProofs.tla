-------------------------- MODULE RetentionProofs --------------------------
(***************************************************************************)
(* What cascade deletion guarantees for any number of documents, keys and  *)
(* overlapping deletions, and any failures: no original outlives its row,  *)
(* and for the documents nobody indexes meanwhile no content does, records *)
(* are true, and the two stores implement the abstract Erasure.  Then what *)
(* a sweep adds: for any workspace, periods and limit it takes nothing     *)
(* before its time, what goes is on record, and the deletions it starts    *)
(* keep what deletions guarantee.  The first part cites nothing of         *)
(* Retention.                                                              *)
(***************************************************************************)
EXTENDS Retention, Integers, TLAPS

-----------------------------------------------------------------------------
(* Deletion. *)

\* No text of a settled document waits for its chunk row.
NothingFresh == \A d \in Settled : fresh[d] = {}

\* What a deletion is answerable for: the original, and the texts too of a
\* settled document.
Watched(d) == IF d \in Settled THEN ContentOf(d) ELSE {OriginalOf[d]}

\* A deletion that met no refusal still has in front of it all that is left of
\* its subject.
TodoCovers ==
    \A w \in Deleters : pc[w] = "payloads" /\ ~failed[w] =>
        \A d \in Rows(subject[w]) : payloads \cap Watched(d) \subseteq todo[w]

\* A deletion about to write a record of success has succeeded.
RecordIsDue ==
    \A w \in Deleters :
        /\ pc[w] \in {"listing", "absent"} => subject[w] \in Docs
        /\ pc[w] = "absent" \/ (pc[w] = "recording" /\ ~failed[w]) =>
              \A d \in Rows(subject[w]) \cap Settled : Gone(d)

IInv ==
    /\ TypeOK /\ NothingFresh
    /\ NoOrphan /\ OriginalGoesFirst
    /\ TodoCovers /\ RecordIsDue /\ CompleteIsGone

-----------------------------------------------------------------------------
LEMMA InitIsGood == Init => IInv
<1> SUFFICES ASSUME Init PROVE IInv
  OBVIOUS
<1> USE KeysAssumption DEF Init
<1>1. TypeOK
  BY FaultsAssumption DEF TypeOK, Subjects, ContentOf
<1>2. NothingFresh /\ TodoCovers /\ RecordIsDue /\ CompleteIsGone
  BY DEF NothingFresh, TodoCovers, RecordIsDue, CompleteIsGone, Settled
<1>3. NoOrphan /\ OriginalGoesFirst
  BY DEF NoOrphan, OriginalGoesFirst, ContentOf, Settled
<1>4. QED
  BY <1>1, <1>2, <1>3 DEF IInv

\* A document that is gone stays gone while nothing is put.
LEMMA GoneForGood ==
    ASSUME rows' \subseteq rows, payloads' \subseteq payloads, NEW d, Gone(d)
    PROVE  Gone(d)'
BY DEF Gone, ContentOf

\* A step that leaves both stores alone and touches one deleter at most.
LEMMA LocalStep ==
    ASSUME IInv, TypeOK', UNCHANGED <<Stores, fresh>>,
           NEW w \in Deleters,
           \A v \in Deleters \ {w} :
              pc'[v] = pc[v] /\ subject'[v] = subject[v] /\ todo'[v] = todo[v]
              /\ failed'[v] = failed[v],
           \/ pc'[w] = "idle"
           \/ pc'[w] = "listing" /\ subject'[w] \in Docs
           \/ /\ pc'[w] = "absent" /\ subject'[w] \in Docs
              /\ subject'[w] \in Settled => Gone(subject'[w])
           \/ pc'[w] = "payloads" /\
              (failed'[w] \/ \A d \in Rows(subject'[w]) :
                                payloads \cap Watched(d) \subseteq todo'[w])
           \/ pc'[w] = "recording" /\ failed'[w],
           CompleteIsGone'
    PROVE  IInv'
<1> USE DEF Stores
<1>1. NothingFresh' /\ NoOrphan' /\ OriginalGoesFirst'
  BY DEF IInv, NothingFresh, NoOrphan, OriginalGoesFirst
<1>2. TodoCovers'
  <2> SUFFICES ASSUME NEW v \in Deleters, pc'[v] = "payloads", ~failed'[v],
                      NEW d \in Rows(subject'[v])
               PROVE  payloads' \cap Watched(d) \subseteq todo'[v]
    BY DEF TodoCovers, Watched
  <2>1. CASE v = w
    BY <2>1
  <2>2. CASE v # w
    BY <2>2 DEF IInv, TodoCovers
  <2>3. QED
    BY <2>1, <2>2
<1>3. RecordIsDue'
  <2> SUFFICES ASSUME NEW v \in Deleters
               PROVE  /\ pc'[v] \in {"listing", "absent"} => subject'[v] \in Docs
                      /\ pc'[v] = "absent" \/ (pc'[v] = "recording" /\ ~failed'[v]) =>
                            \A d \in Rows(subject'[v]) \cap Settled : Gone(d)'
    BY DEF RecordIsDue, Rows, Settled
  <2>1. ASSUME NEW d, Gone(d) PROVE Gone(d)'
    BY <2>1, GoneForGood
  <2>2. CASE v = w
    BY <2>1, <2>2, WorkspaceAssumption DEF Rows
  <2>3. CASE v # w
    BY <2>1, <2>3 DEF IInv, RecordIsDue
  <2>4. QED
    BY <2>2, <2>3
<1>4. QED
  BY <1>1, <1>2, <1>3 DEF IInv

LEMMA TypeStep == IInv /\ [Next]_vars => TypeOK'
<1> SUFFICES ASSUME IInv, [Next]_vars PROVE TypeOK'
  OBVIOUS
<1> USE KeysAssumption, FaultsAssumption
<1>1. ASSUME NEW w \in Deleters, NEW d \in Docs, Lookup(w, d) PROVE TypeOK'
  BY <1>1 DEF Lookup, IInv, TypeOK, Goto, Stores, Subjects
<1>2. ASSUME NEW w \in Deleters, ListKeys(w) PROVE TypeOK'
  <2>1. subject[w] \in Docs
    BY <1>2 DEF ListKeys, IInv, RecordIsDue
  <2>2. {OriginalOf[subject[w]]} \cup chunks[subject[w]] \subseteq Keys
    BY <2>1 DEF IInv, TypeOK
  <2>3. QED
    BY <1>2, <2>2 DEF ListKeys, IInv, TypeOK, Goto, Stores
<1>3. ASSUME NEW w \in Deleters, ListPrefix(w) PROVE TypeOK'
  BY <1>3 DEF ListPrefix, IInv, TypeOK, Goto, Stores, Subjects
<1>4. ASSUME NEW w \in Deleters, RemovePayload(w) PROVE TypeOK'
  BY <1>4 DEF RemovePayload, IInv, TypeOK
<1>5. ASSUME NEW w \in Deleters, PayloadRefused(w) PROVE TypeOK'
  BY <1>5 DEF PayloadRefused, Fault, IInv, TypeOK, Stores
<1>6. ASSUME NEW w \in Deleters, DeleteRows(w) PROVE TypeOK'
  <2>1. chunks' \in [Docs -> SUBSET Keys]
    BY <1>6 DEF DeleteRows, IInv, TypeOK
  <2>2. \A d \in Docs : chunks'[d] \cup fresh'[d] \subseteq TextsOf[d]
    BY <1>6 DEF DeleteRows, IInv, TypeOK
  <2>3. rows' \subseteq Docs
    BY <1>6 DEF DeleteRows, IInv, TypeOK
  <2>4. QED
    BY <1>6, <2>1, <2>2, <2>3 DEF DeleteRows, IInv, TypeOK, Goto
<1>7. ASSUME NEW w \in Deleters, KeepRows(w) PROVE TypeOK'
  BY <1>7 DEF KeepRows, IInv, TypeOK, Goto, Stores
<1>8. ASSUME NEW w \in Deleters, Record(w) PROVE TypeOK'
  <2>1. subject[w] \in Subjects /\ (~failed[w]) \in BOOLEAN /\ (pc[w] = "absent") \in BOOLEAN
    BY DEF IInv, TypeOK
  <2>2. [subject |-> subject[w], complete |-> ~failed[w],
         absent |-> pc[w] = "absent"] \in Records
    BY <2>1 DEF Records
  <2>3. log' \subseteq Records
    BY <1>8, <2>2 DEF Record, IInv, TypeOK
  <2>4. QED
    BY <1>8, <2>3 DEF Record, Leave, IInv, TypeOK, Goto, Stores, Subjects
<1>9. ASSUME NEW w \in Deleters, Raise(w) PROVE TypeOK'
  BY <1>9 DEF Raise, Leave, Fault, IInv, TypeOK, Goto, Stores, Subjects
<1>10. CASE Crash
  BY <1>10 DEF Crash, Fault, IInv, TypeOK, Stores, Subjects
<1>11. ASSUME NEW d \in Docs, ReplaceChunks(d) PROVE TypeOK'
  <2>1. chunks' \in [Docs -> SUBSET Keys] /\ fresh' \in [Docs -> SUBSET Keys]
    BY <1>11 DEF ReplaceChunks, IInv, TypeOK
  <2>2. \A e \in Docs : chunks'[e] \cup fresh'[e] \subseteq TextsOf[e]
    BY <1>11 DEF ReplaceChunks, IInv, TypeOK
  <2>3. QED
    BY <1>11, <2>1, <2>2 DEF ReplaceChunks, IInv, TypeOK
<1>12. ASSUME NEW d \in Docs, NEW k \in TextsOf[d], PutText(d, k) PROVE TypeOK'
  <2>1. k \in Keys
    BY <1>12
  <2>2. fresh' \in [Docs -> SUBSET Keys] /\ payloads' \subseteq Keys
    BY <1>12, <2>1 DEF PutText, IInv, TypeOK
  <2>3. \A e \in Docs : chunks'[e] \cup fresh'[e] \subseteq TextsOf[e]
    BY <1>12 DEF PutText, IInv, TypeOK
  <2>4. QED
    BY <1>12, <2>2, <2>3 DEF PutText, IInv, TypeOK
<1>13. CASE UNCHANGED vars
  BY <1>13 DEF vars, IInv, TypeOK
<1>14. QED
  BY <1>1, <1>2, <1>3, <1>4, <1>5, <1>6, <1>7, <1>8, <1>9, <1>10, <1>11,
     <1>12, <1>13 DEF Next

-----------------------------------------------------------------------------
\* Removing a payload takes it from the store and from the list of its deleter.
LEMMA RemoveStep ==
    ASSUME IInv, TypeOK', NEW w \in Deleters, RemovePayload(w)
    PROVE  IInv'
<1>1. PICK k \in Pending(w) :
         payloads' = payloads \ {k} /\ todo' = [todo EXCEPT ![w] = @ \ {k}]
  BY DEF RemovePayload
<1>2. UNCHANGED <<rows, chunks, pc, subject, failed, log, faults, fresh>>
  BY DEF RemovePayload
<1>3. NothingFresh' /\ NoOrphan' /\ OriginalGoesFirst'
  BY <1>1, <1>2 DEF IInv, NothingFresh, NoOrphan, OriginalGoesFirst
<1>4. ASSUME NEW d, Gone(d) PROVE Gone(d)'
  BY <1>1, <1>2, <1>4, GoneForGood
<1>5. TodoCovers'
  <2> SUFFICES ASSUME NEW v \in Deleters, pc'[v] = "payloads", ~failed'[v],
                      NEW d \in Rows(subject'[v])
               PROVE  payloads' \cap Watched(d) \subseteq todo'[v]
    BY DEF TodoCovers, Watched
  <2>1. payloads \cap Watched(d) \subseteq todo[v]
    BY <1>2 DEF IInv, TodoCovers
  <2>2. todo[v] \ {k} \subseteq todo'[v]
    BY <1>1 DEF IInv, TypeOK
  <2>3. QED
    BY <1>1, <2>1, <2>2
<1>6. RecordIsDue'
  BY <1>2, <1>4 DEF IInv, RecordIsDue
<1>7. CompleteIsGone'
  BY <1>2, <1>4 DEF IInv, CompleteIsGone
<1>8. QED
  BY <1>3, <1>5, <1>6, <1>7 DEF IInv

\* Deleting the rows happens over an empty list, so nothing is left to orphan.
LEMMA DeleteRowsStep ==
    ASSUME IInv, TypeOK', NEW w \in Deleters, DeleteRows(w)
    PROVE  IInv'
<1> DEFINE S == Rows(subject[w])
<1>1. /\ pc[w] = "payloads" /\ todo[w] = {} /\ ~failed[w]
      /\ rows' = rows \ S
      /\ chunks' = [d \in Docs |-> IF d \in S THEN {} ELSE chunks[d]]
      /\ pc' = [pc EXCEPT ![w] = "recording"]
      /\ UNCHANGED <<payloads, subject, todo, failed, log, faults, fresh>>
  BY DEF DeleteRows, Goto
<1>2. \A d \in S : payloads \cap Watched(d) = {}
  BY <1>1 DEF IInv, TodoCovers
<1>3. ASSUME NEW d, Gone(d) PROVE Gone(d)'
  BY <1>1, <1>3, GoneForGood
<1>4. \A d \in S \cap Settled : Gone(d)'
  BY <1>1, <1>2 DEF Gone, ContentOf, Watched
<1>5. NothingFresh'
  BY <1>1 DEF IInv, NothingFresh
<1>6. NoOrphan' /\ OriginalGoesFirst'
  <2>1. ASSUME NEW d \in Docs \ rows' PROVE OriginalOf[d] \notin payloads'
    BY <1>1, <1>2, <2>1 DEF IInv, OriginalGoesFirst, Watched, ContentOf
  <2>2. ASSUME NEW d \in Settled
        PROVE  payloads' \cap ContentOf(d) \subseteq
                  IF d \in rows' THEN {OriginalOf[d]} \cup chunks'[d] ELSE {}
    <3>1. CASE d \in S
      BY <1>1, <1>2, <2>2, <3>1 DEF Watched
    <3>2. CASE d \notin S
      BY <1>1, <2>2, <3>2 DEF IInv, NoOrphan, Settled
    <3>3. QED
      BY <3>1, <3>2
  <2>3. QED
    BY <2>1, <2>2 DEF NoOrphan, OriginalGoesFirst, ContentOf, Settled
<1>7. TodoCovers'
  BY <1>1 DEF IInv, TypeOK, TodoCovers, Watched, ContentOf
<1>8. RecordIsDue'
  <2> SUFFICES ASSUME NEW v \in Deleters
               PROVE  /\ pc'[v] \in {"listing", "absent"} => subject'[v] \in Docs
                      /\ pc'[v] = "absent" \/ (pc'[v] = "recording" /\ ~failed'[v]) =>
                            \A d \in Rows(subject'[v]) \cap Settled : Gone(d)'
    BY DEF RecordIsDue, Rows, Settled
  <2>1. CASE v = w
    BY <1>1, <1>4, <2>1 DEF IInv, TypeOK
  <2>2. CASE v # w
    BY <1>1, <1>3, <2>2 DEF IInv, TypeOK, RecordIsDue
  <2>3. QED
    BY <2>1, <2>2
<1>9. CompleteIsGone'
  BY <1>1, <1>3 DEF IInv, CompleteIsGone
<1>10. QED
  BY <1>5, <1>6, <1>7, <1>8, <1>9 DEF IInv

\* The rows of a settled document are out of the indexer's reach, and so are
\* its keys.
LEMMA IndexStep ==
    ASSUME IInv, TypeOK', NEW d \in Docs,
           ReplaceChunks(d) \/ \E k \in TextsOf[d] : PutText(d, k)
    PROVE  /\ IInv' /\ d \in Indexed /\ rows' = rows
           /\ \A e \in Docs \ {d} : chunks'[e] = chunks[e]
           /\ \A e \in Docs \ {d} : payloads' \cap ContentOf(e) = payloads \cap ContentOf(e)
<1>1. d \in Indexed
  BY DEF ReplaceChunks, PutText, IInv, NothingFresh, Settled
<1>2. UNCHANGED <<rows, pc, subject, todo, failed, log>>
  BY DEF ReplaceChunks, PutText
<1>3. \A e \in Docs \ {d} : chunks'[e] = chunks[e] /\ fresh'[e] = fresh[e]
  BY DEF ReplaceChunks, PutText, IInv, TypeOK
<1>4. payloads \subseteq payloads' /\ payloads' \ payloads \subseteq TextsOf[d]
  BY DEF ReplaceChunks, PutText
<1>5. \A e \in Docs \ {d} : payloads' \cap ContentOf(e) = payloads \cap ContentOf(e)
  BY <1>4, KeysAssumption DEF ContentOf
<1>6. \A e \in Docs : OriginalOf[e] \in payloads' => OriginalOf[e] \in payloads
  BY <1>4, <1>5, KeysAssumption DEF ContentOf
<1>7. \A e \in Settled : e \in Docs \ {d}
  BY <1>1 DEF Settled
<1>8. \A e \in Settled : Gone(e) => Gone(e)'
  BY <1>2, <1>5, <1>7 DEF Gone, ContentOf
<1>9. \A e \in Docs : payloads' \cap Watched(e) = payloads \cap Watched(e)
  BY <1>4, <1>5, <1>6, <1>7 DEF Watched
<1>10. NothingFresh' /\ NoOrphan' /\ OriginalGoesFirst'
  BY <1>2, <1>3, <1>5, <1>6, <1>7
     DEF IInv, NothingFresh, NoOrphan, OriginalGoesFirst, ContentOf, Settled
<1>11. TodoCovers'
  <2> SUFFICES ASSUME NEW v \in Deleters, pc'[v] = "payloads", ~failed'[v],
                      NEW e \in Rows(subject'[v])
               PROVE  payloads' \cap Watched(e) \subseteq todo'[v]
    BY DEF TodoCovers, Watched
  <2>1. payloads \cap Watched(e) \subseteq todo[v]
    BY <1>2 DEF IInv, TodoCovers
  <2>2. e \in Docs
    BY <1>2 DEF IInv, TypeOK, Subjects, Rows
  <2>3. QED
    BY <1>2, <1>9, <2>1, <2>2
<1>12. RecordIsDue' /\ CompleteIsGone'
  BY <1>2, <1>8 DEF IInv, RecordIsDue, CompleteIsGone, Rows, Settled
<1>13. QED
  BY <1>1, <1>2, <1>3, <1>5, <1>10, <1>11, <1>12 DEF IInv

LEMMA StepIsGood == IInv /\ [Next]_vars => IInv'
<1> SUFFICES ASSUME IInv, [Next]_vars PROVE IInv'
  OBVIOUS
<1>0. TypeOK'
  BY TypeStep
<1>1. ASSUME NEW w \in Deleters, NEW d \in Docs, Lookup(w, d) PROVE IInv'
  <2>1. /\ pc' = [pc EXCEPT ![w] = IF d \in rows THEN "listing" ELSE "absent"]
        /\ subject' = [subject EXCEPT ![w] = d]
        /\ todo' = [todo EXCEPT ![w] = {}]
        /\ failed' = [failed EXCEPT ![w] = FALSE]
        /\ UNCHANGED <<Stores, log, fresh>>
    BY <1>1 DEF Lookup, Goto
  <2>2. d \notin rows /\ d \in Settled => Gone(d)
    BY DEF IInv, NoOrphan, Gone
  <2>3. CompleteIsGone'
    BY <2>1 DEF Stores, IInv, CompleteIsGone, Gone, ContentOf
  <2>4. QED
    BY <1>0, <2>1, <2>2, <2>3, LocalStep DEF IInv, TypeOK
<1>2. ASSUME NEW w \in Deleters, ListKeys(w) PROVE IInv'
  <2>1. /\ pc[w] = "listing"
        /\ todo' = [todo EXCEPT ![w] = {OriginalOf[subject[w]]} \cup chunks[subject[w]]]
        /\ pc' = [pc EXCEPT ![w] = "payloads"]
        /\ UNCHANGED <<Stores, subject, failed, log, fresh>>
    BY <1>2 DEF ListKeys, Goto
  <2>2. subject[w] \in Docs
    BY <2>1 DEF IInv, RecordIsDue
  <2>3. \A d \in Rows(subject'[w]) : payloads \cap Watched(d) \subseteq todo'[w]
    <3>1. Rows(subject'[w]) = {subject[w]}
      BY <2>1, <2>2, WorkspaceAssumption DEF Rows
    <3>2. todo'[w] = {OriginalOf[subject[w]]} \cup chunks[subject[w]]
      BY <2>1 DEF IInv, TypeOK
    <3>3. QED
      BY <2>2, <3>1, <3>2 DEF IInv, NoOrphan, Watched
  <2>4. CompleteIsGone'
    BY <2>1 DEF Stores, IInv, CompleteIsGone, Gone, ContentOf
  <2>5. QED
    BY <1>0, <2>1, <2>3, <2>4, LocalStep DEF IInv, TypeOK
<1>3. ASSUME NEW w \in Deleters, ListPrefix(w) PROVE IInv'
  <2>1. /\ todo' = [todo EXCEPT ![w] = payloads]
        /\ pc' = [pc EXCEPT ![w] = "payloads"]
        /\ subject' = [subject EXCEPT ![w] = Workspace]
        /\ failed' = [failed EXCEPT ![w] = FALSE]
        /\ UNCHANGED <<Stores, log, fresh>>
    BY <1>3 DEF ListPrefix, Goto
  <2>2. CompleteIsGone'
    BY <2>1 DEF Stores, IInv, CompleteIsGone, Gone, ContentOf
  <2>3. QED
    BY <1>0, <2>1, <2>2, LocalStep DEF IInv, TypeOK
<1>4. ASSUME NEW w \in Deleters, RemovePayload(w) PROVE IInv'
  BY <1>0, <1>4, RemoveStep
<1>5. ASSUME NEW w \in Deleters, PayloadRefused(w) PROVE IInv'
  <2>1. /\ pc[w] = "payloads"
        /\ failed' = [failed EXCEPT ![w] = TRUE]
        /\ \A v \in Deleters \ {w} : todo'[v] = todo[v]
        /\ UNCHANGED <<Stores, pc, subject, log, fresh>>
    BY <1>5 DEF PayloadRefused, IInv, TypeOK
  <2>2. CompleteIsGone'
    BY <2>1 DEF Stores, IInv, CompleteIsGone, Gone, ContentOf
  <2>3. pc'[w] = "payloads" /\ failed'[w]
    BY <2>1 DEF IInv, TypeOK
  <2>4. \A v \in Deleters \ {w} :
           pc'[v] = pc[v] /\ subject'[v] = subject[v] /\ todo'[v] = todo[v]
           /\ failed'[v] = failed[v]
    BY <2>1 DEF IInv, TypeOK
  <2>5. UNCHANGED <<Stores, fresh>>
    BY <2>1
  <2>6. QED
    BY <1>0, <2>2, <2>3, <2>4, <2>5, LocalStep
<1>6. ASSUME NEW w \in Deleters, DeleteRows(w) PROVE IInv'
  BY <1>0, <1>6, DeleteRowsStep
<1>7. ASSUME NEW w \in Deleters, KeepRows(w) PROVE IInv'
  <2>1. /\ failed[w]
        /\ pc' = [pc EXCEPT ![w] = "recording"]
        /\ UNCHANGED <<Stores, subject, todo, failed, log, fresh>>
    BY <1>7 DEF KeepRows, Goto
  <2>2. CompleteIsGone'
    BY <2>1 DEF Stores, IInv, CompleteIsGone, Gone, ContentOf
  <2>3. QED
    BY <1>0, <2>1, <2>2, LocalStep DEF IInv, TypeOK
<1>8. ASSUME NEW w \in Deleters, Record(w) PROVE IInv'
  <2>1. /\ pc[w] \in {"recording", "absent"}
        /\ log' = log \cup {[subject |-> subject[w], complete |-> ~failed[w],
                             absent |-> pc[w] = "absent"]}
        /\ pc' = [pc EXCEPT ![w] = "idle"]
        /\ \A v \in Deleters \ {w} :
              subject'[v] = subject[v] /\ todo'[v] = todo[v] /\ failed'[v] = failed[v]
        /\ UNCHANGED <<Stores, fresh>>
    BY <1>8 DEF Record, Leave, Goto, IInv, TypeOK
  <2>2. CompleteIsGone'
    <3> SUFFICES ASSUME NEW r \in log', r.complete, NEW d \in Rows(r.subject) \cap Settled
                 PROVE  Gone(d)'
      BY DEF CompleteIsGone, Rows, Settled
    <3>1. r \in log => Gone(d)
      BY DEF IInv, CompleteIsGone
    <3>2. ASSUME r = [subject |-> subject[w], complete |-> ~failed[w],
                      absent |-> pc[w] = "absent"]
          PROVE  Gone(d)
      <4>1. d \in Rows(subject[w]) /\ ~failed[w]
        BY <3>2
      <4>2. QED
        BY <2>1, <4>1 DEF IInv, RecordIsDue
    <3>3. Gone(d)
      BY <2>1, <3>1, <3>2
    <3>4. QED
      BY <2>1, <3>3 DEF Stores, Gone, ContentOf
  <2>3. QED
    BY <1>0, <2>1, <2>2, LocalStep DEF IInv, TypeOK
<1>9. ASSUME NEW w \in Deleters, Raise(w) PROVE IInv'
  <2>1. /\ pc' = [pc EXCEPT ![w] = "idle"]
        /\ \A v \in Deleters \ {w} :
              subject'[v] = subject[v] /\ todo'[v] = todo[v] /\ failed'[v] = failed[v]
        /\ UNCHANGED <<Stores, log, fresh>>
    BY <1>9 DEF Raise, Leave, Goto, IInv, TypeOK
  <2>2. CompleteIsGone'
    BY <2>1 DEF Stores, IInv, CompleteIsGone, Gone, ContentOf
  <2>3. QED
    BY <1>0, <2>1, <2>2, LocalStep DEF IInv, TypeOK
<1>10. CASE Crash
  BY <1>0, <1>10 DEF Crash, Stores, IInv, NothingFresh, NoOrphan, OriginalGoesFirst,
                     TodoCovers, RecordIsDue, CompleteIsGone, Gone, ContentOf
<1>11. ASSUME NEW d \in Docs, ReplaceChunks(d) PROVE IInv'
  BY <1>0, <1>11, IndexStep
<1>12. ASSUME NEW d \in Docs, NEW k \in TextsOf[d], PutText(d, k) PROVE IInv'
  BY <1>0, <1>12, IndexStep
<1>13. CASE UNCHANGED vars
  BY <1>0, <1>13 DEF vars, IInv, NothingFresh, NoOrphan, OriginalGoesFirst, TodoCovers,
                     RecordIsDue, CompleteIsGone, Gone, ContentOf, Watched
<1>14. QED
  BY <1>1, <1>2, <1>3, <1>4, <1>5, <1>6, <1>7, <1>8, <1>9, <1>10, <1>11,
     <1>12, <1>13 DEF Next

-----------------------------------------------------------------------------
LEMMA Inductive == Spec => []IInv
BY InitIsGood, StepIsGood, PTL DEF Spec

(***************************************************************************)
(* Every variable of a deletion keeps its type, whatever fails             *)
(* (deletion.py:104-180, 202-268).                                         *)
(***************************************************************************)
THEOREM TypeCorrect == Spec => []TypeOK
<1>1. IInv => TypeOK
  BY DEF IInv
<1>2. QED
  BY <1>1, Inductive, PTL

(***************************************************************************)
(* No content of a settled document survives its own deletion, whatever    *)
(* failed or crashed and however many deletions overlap                    *)
(* (deletion.py:143-171).                                                  *)
(***************************************************************************)
THEOREM NoContentOrphaned == Spec => []NoOrphan
<1>1. IInv => NoOrphan
  BY DEF IInv
<1>2. QED
  BY <1>1, Inductive, PTL

(***************************************************************************)
(* No original outlives its row, not even while the document is indexed    *)
(* (deletion.py:136-171, 222-251).                                         *)
(***************************************************************************)
THEOREM OriginalsGoFirst == Spec => []OriginalGoesFirst
<1>1. IInv => OriginalGoesFirst
  BY DEF IInv
<1>2. QED
  BY <1>1, Inductive, PTL

(***************************************************************************)
(* Every record of a complete deletion stays true (deletion.py:172-180,    *)
(* 117-134, 270-322).                                                      *)
(***************************************************************************)
THEOREM RecordsAreTrue == Spec => []CompleteIsGone
<1>1. IInv => CompleteIsGone
  BY DEF IInv
<1>2. QED
  BY <1>1, Inductive, PTL

-----------------------------------------------------------------------------
\* The phase of each document, as Outside sees it.
Phase == [d \in Settled |->
    IF d \in rows THEN IF Whole(d) THEN "kept" ELSE "dangling"
    ELSE IF payloads \cap ContentOf(d) = {} THEN "gone" ELSE "orphaned"]

\* A document whose rows and content stay has the phase it had.
LEMMA SamePhase ==
    ASSUME NEW d, d \in rows' <=> d \in rows, chunks'[d] = chunks[d],
           payloads' \cap ContentOf(d) = payloads \cap ContentOf(d),
           {OriginalOf[d]} \cup chunks[d] \subseteq ContentOf(d), d \in Settled
    PROVE  Phase'[d] = Phase[d]
<1>1. Whole(d)' <=> Whole(d)
  BY DEF Whole
<1>2. (payloads \cap ContentOf(d) = {})' <=> payloads \cap ContentOf(d) = {}
  BY DEF ContentOf
<1>3. QED
  BY <1>1, <1>2 DEF Phase

\* Removing a payload tears a document that was whole, or shows nothing.
LEMMA RemoveTears ==
    ASSUME IInv, NEW w \in Deleters, RemovePayload(w)
    PROVE  UNCHANGED Phase \/ \E d \in Settled :
              Phase[d] = "kept" /\ Phase' = [Phase EXCEPT ![d] = "dangling"]
<1>1. PICK k \in Pending(w) : payloads' = payloads \ {k}
  BY DEF RemovePayload
<1>2. rows' = rows /\ chunks' = chunks
  BY DEF RemovePayload
<1>3. ASSUME NEW d \in Docs PROVE {OriginalOf[d]} \cup chunks[d] \subseteq ContentOf(d)
  BY DEF IInv, TypeOK, ContentOf
<1>4. CASE k \notin payloads
  <2>1. payloads' = payloads
    BY <1>1, <1>4
  <2>2. QED
    BY <1>2, <2>1 DEF Phase, Whole, ContentOf
<1>5. ASSUME NEW e \in Settled, k \notin ContentOf(e) PROVE Phase'[e] = Phase[e]
  <2>1. payloads' \cap ContentOf(e) = payloads \cap ContentOf(e)
    BY <1>1, <1>5
  <2>2. QED
    BY <1>2, <1>3, <1>5, <2>1, SamePhase DEF Settled
<1>6. Phase = [e \in Settled |-> Phase[e]] /\ Phase' = [e \in Settled |-> Phase'[e]]
  BY DEF Phase
<1>7. CASE k \in payloads /\ \E d \in Settled : k \in ContentOf(d)
  <2>1. PICK d \in Settled : k \in ContentOf(d)
    BY <1>7
  <2>2. ASSUME NEW e \in Settled, e # d PROVE Phase'[e] = Phase[e]
    BY <1>5, <2>1, <2>2, KeysAssumption DEF Settled
  <2>3. d \in rows /\ k \in {OriginalOf[d]} \cup chunks[d]
    BY <1>7, <2>1 DEF IInv, NoOrphan
  <2>4. Phase'[d] = "dangling"
    BY <1>1, <1>2, <2>3 DEF Phase, Whole
  <2>5. Phase[d] \in {"kept", "dangling"}
    BY <2>3 DEF Phase
  <2>6. Phase' = [Phase EXCEPT ![d] = "dangling"]
    BY <1>6, <2>2, <2>4
  <2>7. Phase[d] = "dangling" => Phase' = Phase
    BY <1>6, <2>2, <2>4
  <2>8. QED
    BY <2>5, <2>6, <2>7
<1>8. CASE \A d \in Settled : k \notin ContentOf(d)
  BY <1>5, <1>6, <1>8
<1>9. QED
  BY <1>4, <1>7, <1>8

\* Deleting rows erases documents whose content is gone already.
LEMMA DeleteRowsErases ==
    ASSUME IInv, NEW w \in Deleters, DeleteRows(w)
    PROVE  \E S \in SUBSET Settled :
              /\ \A d \in S : Phase[d] \in {"dangling", "gone"}
              /\ Phase' = [d \in Settled |-> IF d \in S THEN "gone" ELSE Phase[d]]
<1> DEFINE S == Rows(subject[w]) \cap Settled
<1>1. /\ rows' = rows \ Rows(subject[w])
      /\ chunks' = [d \in Docs |-> IF d \in Rows(subject[w]) THEN {} ELSE chunks[d]]
      /\ payloads' = payloads
  BY DEF DeleteRows
<1>2. \A d \in S : payloads \cap ContentOf(d) = {}
  BY DEF DeleteRows, IInv, TodoCovers, Watched
<1>3. Settled \subseteq Docs
  BY DEF Settled
<1>4. ASSUME NEW d \in S PROVE Phase[d] \in {"dangling", "gone"} /\ Phase'[d] = "gone"
  <2>1. OriginalOf[d] \notin payloads
    BY <1>2 DEF ContentOf
  <2>2. ~Whole(d)
    BY <2>1 DEF Whole
  <2>3. d \notin rows' /\ payloads' \cap ContentOf(d) = {}
    BY <1>1, <1>2
  <2>4. QED
    BY <1>2, <2>2, <2>3 DEF Phase, ContentOf
<1>5. ASSUME NEW d \in Settled, d \notin S PROVE Phase'[d] = Phase[d]
  <2>1. {OriginalOf[d]} \cup chunks[d] \subseteq ContentOf(d)
    BY <1>3 DEF IInv, TypeOK, ContentOf
  <2>2. chunks'[d] = chunks[d] /\ (d \in rows' <=> d \in rows)
    BY <1>1, <1>3, <1>5
  <2>3. QED
    BY <1>1, <2>1, <2>2, SamePhase
<1>6. Phase' = [d \in Settled |-> Phase'[d]]
  BY DEF Phase
<1>7. Phase' = [d \in Settled |-> IF d \in S THEN "gone" ELSE Phase[d]]
  BY <1>4, <1>5, <1>6
<1>8. QED
  BY <1>4, <1>7

\* The indexer moves no settled document.
LEMMA IndexerUnseen ==
    ASSUME IInv, TypeOK', NEW d \in Docs,
           ReplaceChunks(d) \/ \E k \in TextsOf[d] : PutText(d, k)
    PROVE  UNCHANGED Phase
<1>1. ASSUME NEW e \in Settled PROVE Phase'[e] = Phase[e]
  <2>1. e \in Docs \ {d} /\ {OriginalOf[e]} \cup chunks[e] \subseteq ContentOf(e)
    BY IndexStep DEF IInv, TypeOK, Settled, ContentOf
  <2>2. QED
    BY <2>1, IndexStep, SamePhase
<1>2. Phase = [e \in Settled |-> Phase[e]] /\ Phase' = [e \in Settled |-> Phase'[e]]
  BY DEF Phase
<1>3. QED
  BY <1>1, <1>2

(***************************************************************************)
(* The two stores and the overlapping deletions implement Erasure: content *)
(* goes first and rows last, and nothing runs backwards                    *)
(* (deletion.py:136-171, 222-251).                                         *)
(***************************************************************************)
THEOREM DeletionImplementsErasure == Spec => ImplementsErasure
<1>1. Init => Outside!Init
  BY KeysAssumption DEF Init, Outside!Init, Whole, Settled
<1>2. IInv /\ [Next]_vars => [Outside!Next]_Phase
  <2> SUFFICES ASSUME IInv, [Next]_vars PROVE [Outside!Next]_Phase
    OBVIOUS
  <2>1. ASSUME NEW w \in Deleters, RemovePayload(w) PROVE [Outside!Next]_Phase
    <3>1. CASE UNCHANGED Phase
      BY <3>1
    <3>2. ASSUME NEW d \in Settled, Phase[d] = "kept", Phase' = [Phase EXCEPT ![d] = "dangling"]
          PROVE  Outside!Tear(d)
      BY <3>2 DEF Outside!Tear, Phase
    <3>3. QED
      BY <2>1, <3>1, <3>2, RemoveTears DEF Outside!Next
  <2>2. ASSUME NEW w \in Deleters, DeleteRows(w) PROVE Outside!Next
    <3>1. PICK S \in SUBSET Settled :
             /\ \A d \in S : Phase[d] \in {"dangling", "gone"}
             /\ Phase' = [d \in Settled |-> IF d \in S THEN "gone" ELSE Phase[d]]
      BY <2>2, DeleteRowsErases
    <3>2. Outside!Erase(S)
      BY <3>1 DEF Outside!Erase, Phase
    <3>3. QED
      BY <3>2 DEF Outside!Next
  <2>3. ASSUME UNCHANGED Stores PROVE UNCHANGED Phase
    BY <2>3 DEF Stores, Phase, Whole, ContentOf
  <2>4. TypeOK'
    BY TypeStep
  <2>5. ASSUME NEW d \in Docs, ReplaceChunks(d) \/ \E k \in TextsOf[d] : PutText(d, k)
        PROVE  UNCHANGED Phase
    BY <2>4, <2>5, IndexerUnseen
  <2>6. CASE Next
    <3>1. \/ UNCHANGED Stores
          \/ \E w \in Deleters : RemovePayload(w) \/ DeleteRows(w)
          \/ \E d \in Docs : ReplaceChunks(d) \/ \E k \in TextsOf[d] : PutText(d, k)
      BY <2>6 DEF Next, Lookup, ListKeys, ListPrefix, PayloadRefused,
                  KeepRows, Record, Raise, Crash
    <3>2. QED
      BY <2>1, <2>2, <2>3, <2>5, <3>1
  <2>7. CASE UNCHANGED vars
    BY <2>3, <2>7 DEF vars, Stores
  <2>8. QED
    BY <2>6, <2>7
<1>3. QED
  BY <1>1, <1>2, Inductive, PTL DEF Spec, ImplementsErasure, Outside!Spec, Phase

-----------------------------------------------------------------------------
(* The sweeper. *)

PolicyTypes ==
    /\ day \in Nat
    /\ policy \in [Categories -> Periods \cup {None}]
    /\ inforce \in [Categories -> SUBSET Periods]
    /\ runs \subseteq Runs /\ signed \subseteq Sessions

\* The places a sweep can be at.
Sweeping ==
    {Off}
    \cup [at : {"cutoff"}, moment : 0..day, category : 1..3]
    \cup [at : {"list"}, moment : 0..day, category : 1..3, cutoff : Int]
    \cup [at : {"each"}, moment : 0..day, category : 1..2, left : SUBSET (Docs \cup Runs)]
    \cup [at : {"record"}, moment : 0..day, category : {2}, left : SUBSET Runs, run : Runs]

\* A sweep knows every period there has been since it began.
PeriodsKnown ==
    sweep # Off => \A c \in Categories :
        inforce[c] # {} /\ (policy[c] # None => policy[c] \in inforce[c])

\* Its cutoff is that of one of them.
CutoffEarned ==
    sweep.at = "list" =>
        \E days \in inforce[Swept[sweep.category]] : sweep.cutoff = sweep.moment - days

\* What a category may lose.
Old(x, n) ==
    IF n = 1 THEN x \in Docs /\ Past(Born[x], "document")
    ELSE x \in Runs /\ Past(Started[x], "trace_event")

\* What is left to the loop is old, and so is what the sweeper's deletion is at.
LeftIsOld ==
    /\ sweep.at \in {"each", "record"} => \A x \in sweep.left : Old(x, sweep.category)
    /\ pc[Sweeper] # "idle" =>
          sweep.at = "each" /\ sweep.category = 1 /\ Old(subject[Sweeper], 1)

SInv == PolicyTypes /\ sweep \in Sweeping /\ PeriodsKnown /\ CutoffEarned /\ LeftIsOld

RInv == IInv /\ SInv

-----------------------------------------------------------------------------
LEMMA SweptAreCategories ==
    /\ Swept[1] = "document" /\ Swept[2] = "trace_event" /\ Swept[3] = "session"
    /\ \A n \in 1..3 : Swept[n] \in Categories
BY RetentionAssumption DEF Swept

LEMMA RInitHolds == RetentionInit => RInv
<1> SUFFICES ASSUME RetentionInit PROVE RInv
  OBVIOUS
<1>1. IInv
  BY InitIsGood DEF RetentionInit
<1>2. PolicyTypes
  BY RetentionAssumption DEF RetentionInit, PolicyTypes
<1>3. sweep = Off /\ sweep.at = "off" /\ pc[Sweeper] = "idle"
  BY RetentionAssumption DEF RetentionInit, Init, Off
<1>4. QED
  BY <1>1, <1>2, <1>3 DEF RInv, SInv, Sweeping, PeriodsKnown, CutoffEarned, LeftIsOld

\* Every step is a step of the deletions or leaves them alone.
LEMMA StepsAreDeletions == RInv /\ [RetentionNext]_allVars => [Next]_vars
<1> SUFFICES ASSUME RInv, RetentionNext PROVE [Next]_vars
  BY DEF allVars, vars
<1>1. CASE UNCHANGED vars
  BY <1>1
<1>2. ASSUME NEW w \in Deleters, Work(w) \/ TakeRows(w) \/ CutShort(w) PROVE Next
  BY <1>2 DEF Work, TakeRows, CutShort, Next
<1>3. ASSUME NEW w \in Deleters, NEW x \in Subjects, SetAbout(w, x) PROVE Next
  <2>1. CASE x = Workspace
    BY <1>3, <2>1 DEF SetAbout, Next
  <2>2. CASE x # Workspace
    BY <1>3, <2>2 DEF SetAbout, Subjects, Next
  <2>3. QED
    BY <2>1, <2>2
<1>4. CASE SweepDocument
  <2>1. PICK d \in sweep.left : SetAbout(Sweeper, d) /\ sweep.at = "each" /\ sweep.category = 1
    BY <1>4 DEF SweepDocument
  <2>2. d \in Subjects
    BY <2>1 DEF RInv, SInv, LeftIsOld, Old, Subjects
  <2>3. QED
    BY <1>3, <2>1, <2>2, RetentionAssumption
<1>5. CASE Others
  BY <1>3, <1>5, RetentionAssumption DEF Others, Next
<1>6. CASE SweepCrash
  BY <1>6 DEF SweepCrash, Next
<1>7. QED
  BY <1>1, <1>2, <1>4, <1>5, <1>6
     DEF RetentionNext, SweepStep, SetPolicy, NextDay, BeginSweep, ReadCutoff, ListDocuments,
         ListRuns, SweepRun, RecordRun, EndLoop, SweepSessions, SweepFails

\* What is past its period stays so while the sweep lasts.
LEMMA StaysOld ==
    ASSUME PolicyTypes, day' \in Nat, day' >= day,
           \A c \in Categories : inforce[c] \subseteq inforce'[c],
           NEW n \in 1..2, NEW x, Old(x, n)
    PROVE  Old(x, n)'
<1>1. "document" \in Categories /\ "trace_event" \in Categories /\ Periods \subseteq Nat
  BY SweptAreCategories, RetentionAssumption
<1>2. \A c \in Categories : inforce[c] \subseteq Nat
  BY <1>1 DEF PolicyTypes
<1>3. CASE n = 1
  <2>1. Born[x] \in Nat
    BY <1>3, RetentionAssumption DEF Old
  <2>2. PICK days \in inforce["document"] \cap Periods : day - Born[x] > days
    BY <1>3 DEF Old, Past
  <2>3. days \in inforce'["document"] \cap Periods /\ day' - Born[x] > days
    BY <1>1, <1>2, <2>1, <2>2 DEF PolicyTypes
  <2>4. QED
    BY <1>3, <2>3 DEF Old, Past
<1>4. CASE n = 2
  <2>1. Started[x] \in Nat
    BY <1>4, RetentionAssumption DEF Old
  <2>2. PICK days \in inforce["trace_event"] \cap Periods : day - Started[x] > days
    BY <1>4 DEF Old, Past
  <2>3. days \in inforce'["trace_event"] \cap Periods /\ day' - Started[x] > days
    BY <1>1, <1>2, <2>1, <2>2 DEF PolicyTypes
  <2>4. QED
    BY <1>4, <2>3 DEF Old, Past
<1>5. QED
  BY <1>3, <1>4

\* What is due by the cutoff of a sweep is past a period it knows.
LEMMA DueIsPast ==
    ASSUME PolicyTypes, sweep \in Sweeping, CutoffEarned, sweep.at = "list",
           NEW time \in Nat, Due(time, sweep.cutoff)
    PROVE  Past(time, Swept[sweep.category])
<1>1. sweep.moment \in 0..day /\ sweep.category \in 1..3
  BY DEF Sweeping, Off
<1>2. PICK days \in inforce[Swept[sweep.category]] : sweep.cutoff = sweep.moment - days
  BY DEF CutoffEarned
<1>3. days \in Nat /\ days \in Periods
  BY <1>1, <1>2, SweptAreCategories, RetentionAssumption DEF PolicyTypes
<1>4. day - time > days
  BY <1>1, <1>2, <1>3 DEF Due, PolicyTypes
<1>5. QED
  BY <1>2, <1>3, <1>4 DEF Past

-----------------------------------------------------------------------------
\* A sweep that stays where it is loses nothing it knows.
LEMMA SweepStays ==
    ASSUME SInv, PolicyTypes', sweep' = sweep, day' >= day,
           \A c \in Categories : inforce[c] \subseteq inforce'[c],
           sweep # Off => \A c \in Categories :
              policy'[c] \in {None, policy[c]} \cup inforce'[c],
           pc'[Sweeper] = "idle"
              \/ (pc[Sweeper] # "idle" /\ subject'[Sweeper] = subject[Sweeper])
    PROVE  SInv'
<1>1. day \in Nat /\ day' \in Nat
  BY DEF SInv, PolicyTypes
<1>2. sweep' \in Sweeping'
  <2>1. 0..day \subseteq 0..day'
    BY <1>1
  <2>2. QED
    BY <2>1 DEF SInv, Sweeping, Off
<1>3. PeriodsKnown'
  BY DEF SInv, PeriodsKnown
<1>4. CutoffEarned'
  <2> SUFFICES ASSUME sweep.at = "list"
               PROVE  \E days \in inforce'[Swept[sweep.category]] :
                         sweep.cutoff = sweep.moment - days
    BY DEF CutoffEarned
  <2>1. sweep.category \in 1..3
    BY DEF SInv, Sweeping, Off
  <2>2. QED
    BY <2>1, SweptAreCategories DEF SInv, CutoffEarned
<1>5. \A n \in 1..2 : \A x : Old(x, n) => Old(x, n)'
  BY <1>1, StaysOld DEF SInv
<1>6. LeftIsOld'
  <2>1. sweep.at \in {"each", "record"} => sweep.category \in 1..2
    BY DEF SInv, Sweeping, Off
  <2>2. ASSUME sweep'.at \in {"each", "record"}, NEW x \in sweep'.left
        PROVE  Old(x, sweep.category)'
    BY <1>5, <2>1, <2>2 DEF SInv, LeftIsOld
  <2>3. ASSUME NEW x, x = subject[Sweeper], pc'[Sweeper] # "idle"
        PROVE  sweep'.at = "each" /\ sweep'.category = 1 /\ Old(x, 1)'
    BY <1>5, <2>3 DEF SInv, LeftIsOld
  <2>4. pc'[Sweeper] # "idle" => sweep'.at = "each" /\ sweep'.category = 1
                                  /\ Old(subject[Sweeper], 1)'
    BY <2>3
  <2>5. QED
    BY <2>2, <2>4 DEF LeftIsOld
<1>7. QED
  BY <1>2, <1>3, <1>4, <1>6 DEF SInv

\* A sweep that goes on to a category or home has nothing left to be old.
LEMMA TurnKeeps ==
    ASSUME SInv, sweep # Off, NEW n \in 1..4, Turn(n),
           UNCHANGED <<day, policy, runs>>, signed' \subseteq signed, pc'[Sweeper] = "idle"
    PROVE  SInv'
<1>1. sweep.moment \in 0..day
  BY DEF SInv, Sweeping
<1>2. CASE n <= 3
  <2>1. sweep' = [at |-> "cutoff", moment |-> sweep.moment, category |-> n]
        /\ inforce' = inforce
    BY <1>2 DEF Turn
  <2>2. sweep' \in Sweeping' /\ sweep'.at = "cutoff"
    BY <1>1, <1>2, <2>1 DEF Sweeping
  <2>3. PolicyTypes'
    BY <2>1 DEF SInv, PolicyTypes
  <2>4. QED
    BY <2>1, <2>2, <2>3 DEF SInv, PeriodsKnown, CutoffEarned, LeftIsOld
<1>3. CASE n = 4
  <2>1. sweep' = Off /\ inforce' = [c \in Categories |-> {}]
    BY <1>3 DEF Turn, Home
  <2>2. sweep'.at = "off" /\ sweep' \in Sweeping'
    BY <2>1 DEF Off, Sweeping
  <2>3. PolicyTypes'
    BY <2>1 DEF SInv, PolicyTypes
  <2>4. QED
    BY <2>1, <2>2, <2>3 DEF SInv, PeriodsKnown, CutoffEarned, LeftIsOld, Off
<1>4. QED
  BY <1>2, <1>3

\* Beside its own deletions a sweep is idle.
LEMMA SweeperIdle ==
    ASSUME SInv, sweep.at # "each" \/ sweep.category # 1
    PROVE  pc[Sweeper] = "idle"
BY DEF SInv, LeftIsOld

LEMMA ReadCutoffKeeps == ASSUME SInv, ReadCutoff PROVE SInv'
<1>1. /\ sweep.at = "cutoff" /\ sweep # Off
      /\ sweep.moment \in 0..day /\ sweep.category \in 1..3
  BY DEF ReadCutoff, SInv, Sweeping, Off
<1>2. pc'[Sweeper] = "idle" /\ UNCHANGED <<day, policy, runs, signed>>
  BY <1>1, SweeperIdle DEF ReadCutoff, vars
<1> DEFINE days == policy[Swept[sweep.category]]
<1>3. CASE days = None
  BY <1>1, <1>2, <1>3, TurnKeeps DEF ReadCutoff
<1>4. CASE days # None
  <2>1. sweep' = [at |-> "list", moment |-> sweep.moment, category |-> sweep.category,
                  cutoff |-> sweep.moment - days] /\ inforce' = inforce
    BY <1>4 DEF ReadCutoff
  <2>2. Swept[sweep.category] \in Categories
    BY <1>1, SweptAreCategories
  <2>3. days \in inforce[Swept[sweep.category]] /\ days \in Nat
    BY <1>1, <1>4, <2>2, RetentionAssumption DEF SInv, PeriodsKnown, PolicyTypes
  <2>4. sweep' \in Sweeping'
    BY <1>1, <1>2, <2>1, <2>3 DEF Sweeping, SInv, PolicyTypes
  <2>5. CutoffEarned'
    BY <2>1, <2>3 DEF CutoffEarned
  <2>6. PolicyTypes'
    BY <1>2, <2>1 DEF SInv, PolicyTypes
  <2>7. PeriodsKnown' /\ LeftIsOld'
    BY <1>1, <1>2, <2>1 DEF SInv, PeriodsKnown, LeftIsOld
  <2>8. QED
    BY <2>4, <2>5, <2>6, <2>7 DEF SInv
<1>5. QED
  BY <1>3, <1>4

\* What is found due is old.
LEMMA FoundKeeps ==
    ASSUME SInv, sweep.at = "list", UNCHANGED <<vars, day, policy, runs, signed, inforce>>,
           sweep.category \in 1..2, NEW L, Found(L), \A x \in L : Old(x, sweep.category)
    PROVE  SInv'
<1>1. sweep # Off /\ sweep.moment \in 0..day
  BY DEF SInv, Sweeping, Off
<1>2. sweep' = [at |-> "each", moment |-> sweep.moment, category |-> sweep.category, left |-> L]
  BY DEF Found
<1>3. L \subseteq Docs \cup Runs
  BY DEF Old
<1>4. sweep' \in Sweeping'
  BY <1>1, <1>2, <1>3 DEF Sweeping
<1>5. pc'[Sweeper] = "idle"
  BY SweeperIdle DEF vars
<1>6. PolicyTypes' /\ PeriodsKnown' /\ CutoffEarned'
  BY <1>1, <1>2 DEF SInv, PolicyTypes, PeriodsKnown, CutoffEarned
<1>7. \A x, n : Old(x, n) => Old(x, n)'
  BY DEF Old, Past
<1>8. LeftIsOld'
  BY <1>2, <1>5, <1>7 DEF LeftIsOld
<1>9. QED
  BY <1>4, <1>6, <1>8 DEF SInv

LEMMA ListKeeps == ASSUME RInv, ListDocuments \/ ListRuns PROVE SInv'
<1>1. PolicyTypes /\ sweep \in Sweeping /\ CutoffEarned /\ rows \subseteq Docs
  BY DEF RInv, SInv, IInv, TypeOK
<1>2. CASE ListDocuments
  <2>1. PICK T \in Newest(rows, Born) : Found({d \in T : Due(Born[d], sweep.cutoff)})
    BY <1>2 DEF ListDocuments
  <2>2. T \subseteq Docs
    BY <1>1, <2>1 DEF Newest
  <2>3. ASSUME NEW d \in T, Due(Born[d], sweep.cutoff) PROVE Old(d, 1)
    <3>1. Born[d] \in Nat
      BY <2>2, RetentionAssumption
    <3>2. Past(Born[d], Swept[1])
      BY <1>1, <1>2, <2>3, <3>1, DueIsPast DEF ListDocuments
    <3>3. QED
      BY <2>2, <3>2, SweptAreCategories DEF Old
  <2>4. QED
    BY <1>2, <2>1, <2>3, FoundKeeps DEF ListDocuments, RInv
<1>3. CASE ListRuns
  <2>1. PICK T \in Newest(runs, Started) : Found({r \in T : Due(Started[r], sweep.cutoff)})
    BY <1>3 DEF ListRuns
  <2>2. T \subseteq Runs
    BY <1>1, <2>1 DEF Newest, PolicyTypes
  <2>3. ASSUME NEW r \in T, Due(Started[r], sweep.cutoff) PROVE Old(r, 2)
    <3>1. Started[r] \in Nat
      BY <2>2, RetentionAssumption
    <3>2. Past(Started[r], Swept[2])
      BY <1>1, <1>3, <2>3, <3>1, DueIsPast DEF ListRuns
    <3>3. QED
      BY <2>2, <3>2, SweptAreCategories DEF Old
  <2>4. QED
    BY <1>3, <2>1, <2>3, FoundKeeps DEF ListRuns, RInv
<1>4. QED
  BY <1>2, <1>3

LEMMA LoopKeeps == ASSUME RInv, SweepDocument \/ SweepRun \/ RecordRun PROVE SInv'
<1> USE DEF RInv
<1>1. /\ sweep # Off /\ sweep.moment \in 0..day
      /\ sweep.at \in {"each", "record"} /\ \A x \in sweep.left : Old(x, sweep.category)
  BY DEF SInv, Sweeping, Off, LeftIsOld, SweepDocument, SweepRun, RecordRun
<1>2. UNCHANGED <<day, policy, signed, inforce>> /\ runs' \subseteq runs
  BY DEF SweepDocument, SweepRun, RecordRun
<1>3. PolicyTypes'
  BY <1>2 DEF SInv, PolicyTypes
<1>4. \A x, n : Old(x, n) => Old(x, n)'
  BY <1>2 DEF Old, Past
<1>5. CASE SweepDocument
  <2>1. PICK d \in sweep.left : SetAbout(Sweeper, d) /\ sweep' = [sweep EXCEPT !.left = @ \ {d}]
    BY <1>5 DEF SweepDocument
  <2>2. sweep.at = "each" /\ sweep.category = 1
    BY <1>5 DEF SweepDocument
  <2>3. sweep \in [at : {"each"}, moment : 0..day, category : 1..2, left : SUBSET (Docs \cup Runs)]
    BY <2>2 DEF SInv, Sweeping, Off
  <2>4. sweep' \in [at : {"each"}, moment : 0..day, category : 1..2, left : SUBSET (Docs \cup Runs)]
        /\ sweep'.at = "each" /\ sweep'.category = 1 /\ sweep'.left = sweep.left \ {d}
    BY <2>1, <2>2, <2>3
  <2>5. sweep' \in Sweeping'
    BY <1>2, <2>4 DEF Sweeping
  <2>6. subject'[Sweeper] = d
    BY <2>1, RetentionAssumption DEF SetAbout, Lookup, ListPrefix, IInv, TypeOK
  <2>7. LeftIsOld'
    BY <1>1, <1>4, <2>2, <2>4, <2>6 DEF LeftIsOld
  <2>8. PeriodsKnown' /\ CutoffEarned'
    BY <1>1, <1>2, <2>4 DEF SInv, PeriodsKnown, CutoffEarned
  <2>9. QED
    BY <1>3, <2>5, <2>7, <2>8 DEF SInv
<1>6. CASE SweepRun
  <2>1. PICK r \in sweep.left :
           sweep' = [at |-> "record", moment |-> sweep.moment, category |-> 2,
                     left |-> sweep.left \ {r}, run |-> r]
    BY <1>6 DEF SweepRun
  <2>2. sweep.at = "each" /\ sweep.category = 2 /\ UNCHANGED vars
    BY <1>6 DEF SweepRun
  <2>3. \A x \in sweep.left : x \in Runs
    BY <1>1, <2>2 DEF Old
  <2>4. sweep' \in Sweeping'
    BY <1>1, <1>2, <2>1, <2>3 DEF Sweeping
  <2>5. pc'[Sweeper] = "idle"
    BY <2>2, SweeperIdle DEF vars
  <2>6. LeftIsOld'
    BY <1>1, <1>4, <2>1, <2>2, <2>5 DEF LeftIsOld
  <2>7. PeriodsKnown' /\ CutoffEarned'
    BY <1>1, <1>2, <2>1 DEF SInv, PeriodsKnown, CutoffEarned
  <2>8. QED
    BY <1>3, <2>4, <2>6, <2>7 DEF SInv
<1>7. CASE RecordRun
  <2>1. sweep' = [at |-> "each", moment |-> sweep.moment, category |-> 2, left |-> sweep.left]
    BY <1>7 DEF RecordRun
  <2>2. sweep.at = "record" /\ sweep.category = 2 /\ sweep.left \subseteq Runs /\ UNCHANGED vars
    BY <1>7 DEF RecordRun, SInv, Sweeping, Off
  <2>3. sweep' \in Sweeping'
    BY <1>1, <1>2, <2>1, <2>2 DEF Sweeping
  <2>4. pc'[Sweeper] = "idle"
    BY <2>2, SweeperIdle DEF vars
  <2>5. LeftIsOld'
    BY <1>1, <1>4, <2>1, <2>2, <2>4 DEF LeftIsOld
  <2>6. PeriodsKnown' /\ CutoffEarned'
    BY <1>1, <1>2, <2>1 DEF SInv, PeriodsKnown, CutoffEarned
  <2>7. QED
    BY <1>3, <2>3, <2>5, <2>6 DEF SInv
<1>8. QED
  BY <1>5, <1>6, <1>7

LEMMA EndKeeps == ASSUME RInv, EndLoop \/ SweepSessions PROVE SInv'
<1>1. CASE EndLoop
  <2>1. sweep # Off /\ sweep.category + 1 \in 1..4 /\ Turn(sweep.category + 1)
    BY <1>1 DEF RInv, SInv, Sweeping, Off, EndLoop
  <2>2. QED
    BY <1>1, <2>1, TurnKeeps DEF EndLoop, RInv, vars
<1>2. CASE SweepSessions
  <2>1. sweep # Off /\ Turn(4) /\ signed' \subseteq signed
    BY <1>2 DEF Off, SweepSessions
  <2>2. pc'[Sweeper] = "idle"
    BY <1>2, SweeperIdle DEF SweepSessions, vars, RInv
  <2>3. QED
    BY <1>2, <2>1, <2>2, TurnKeeps DEF SweepSessions, RInv
<1>3. QED
  BY <1>1, <1>2

LEMMA BeginKeeps == ASSUME RInv, BeginSweep PROVE SInv'
<1>1. /\ sweep' = [at |-> "cutoff", moment |-> day, category |-> 1]
      /\ inforce' = [c \in Categories |-> {policy[c]}]
      /\ pc'[Sweeper] = "idle"
      /\ UNCHANGED <<day, policy, runs, signed>>
  BY DEF BeginSweep, vars
<1>2. \A c \in Categories : policy[c] \in Periods
  BY DEF BeginSweep, Missing, RInv, SInv, PolicyTypes
<1>3. PolicyTypes'
  BY <1>1, <1>2 DEF RInv, SInv, PolicyTypes
<1>4. sweep' \in Sweeping'
  BY <1>1 DEF RInv, SInv, PolicyTypes, Sweeping
<1>5. PeriodsKnown' /\ CutoffEarned' /\ LeftIsOld'
  BY <1>1 DEF PeriodsKnown, CutoffEarned, LeftIsOld
<1>6. QED
  BY <1>3, <1>4, <1>5 DEF SInv

\* The deletions, of the sweeper and of others, leave the sweep where it is.
LEMMA WorkKeeps ==
    ASSUME RInv, NEW w \in Deleters, Work(w) \/ TakeRows(w)
    PROVE  SInv'
<1>1. /\ sweep' = sweep /\ inforce' = inforce /\ day' = day /\ signed' = signed
      /\ runs' \subseteq runs
      /\ policy' = policy \/ policy' = [c \in Categories |-> None]
  BY DEF Work, TakeRows, sweepVars, RInv, SInv, PolicyTypes
<1>2. PolicyTypes'
  BY <1>1 DEF RInv, SInv, PolicyTypes
<1>3. \A c \in Categories : policy'[c] \in {None, policy[c]}
  BY <1>1
<1>4. pc[w] # "idle" /\ \A v \in Deleters \ {w} : pc'[v] = pc[v] /\ subject'[v] = subject[v]
  BY DEF Work, TakeRows, ListKeys, RemovePayload, PayloadRefused, KeepRows, Record, DeleteRows,
         Leave, Goto, RInv, IInv, TypeOK
<1>5. pc'[w] = "idle" \/ subject'[w] = subject[w]
  BY DEF Work, TakeRows, ListKeys, RemovePayload, PayloadRefused, KeepRows, Record, DeleteRows,
         Leave, Goto, RInv, IInv, TypeOK
<1>6. pc'[Sweeper] = "idle"
         \/ (pc[Sweeper] # "idle" /\ subject'[Sweeper] = subject[Sweeper])
  BY <1>4, <1>5, RetentionAssumption
<1>7. day' >= day
  BY <1>1 DEF RInv, SInv, PolicyTypes
<1>8. QED
  BY <1>1, <1>2, <1>3, <1>6, <1>7, SweepStays DEF RInv

LEMMA CutShortKeeps == ASSUME RInv, NEW w \in Deleters, CutShort(w) PROVE SInv'
<1>1. UNCHANGED <<day, policy, runs, signed>> /\ PolicyTypes /\ day' >= day
  BY DEF CutShort, RInv, SInv, PolicyTypes
<1>2. CASE w = Sweeper
  <2>1. sweep' = Off /\ inforce' = [c \in Categories |-> {}] /\ pc'[Sweeper] = "idle"
    BY <1>2 DEF CutShort, Home, Raise, Leave, Goto, RInv, IInv, TypeOK
  <2>2. sweep'.at = "off" /\ sweep' \in Sweeping'
    BY <2>1 DEF Off, Sweeping
  <2>3. PolicyTypes'
    BY <1>1, <2>1 DEF PolicyTypes
  <2>4. QED
    BY <2>1, <2>2, <2>3 DEF SInv, PeriodsKnown, CutoffEarned, LeftIsOld
<1>3. CASE w # Sweeper
  <2>1. UNCHANGED <<sweep, inforce>> /\ pc'[Sweeper] = pc[Sweeper]
        /\ subject'[Sweeper] = subject[Sweeper]
    BY <1>3, RetentionAssumption DEF CutShort, Raise, Leave, Goto, RInv, IInv, TypeOK
  <2>2. PolicyTypes'
    BY <1>1, <2>1 DEF PolicyTypes
  <2>3. QED
    BY <1>1, <2>1, <2>2, SweepStays DEF RInv
<1>4. QED
  BY <1>2, <1>3

\* A sweep that an exception or a crash ends leaves nothing behind to be old.
LEMMA BreakKeeps == ASSUME RInv, SweepFails \/ SweepCrash PROVE SInv'
<1>1. UNCHANGED <<day, policy, runs, signed>> /\ PolicyTypes
  BY DEF SweepFails, SweepCrash, RInv, SInv
<1>2. sweep' = Off /\ inforce' = [c \in Categories |-> {}] /\ pc'[Sweeper] = "idle"
  BY RetentionAssumption DEF SweepFails, SweepCrash, Crash, Home, vars
<1>3. sweep'.at = "off" /\ sweep' \in Sweeping'
  BY <1>2 DEF Off, Sweeping
<1>4. PolicyTypes'
  BY <1>1, <1>2 DEF PolicyTypes
<1>5. QED
  BY <1>2, <1>3, <1>4 DEF SInv, PeriodsKnown, CutoffEarned, LeftIsOld

LEMMA AroundKeeps ==
    ASSUME RInv, \/ \E u \in Upserts : SetPolicy(u[1], u[2])
                 \/ NextDay \/ Others \/ UNCHANGED allVars
    PROVE  SInv'
<1>1. CASE \E u \in Upserts : SetPolicy(u[1], u[2])
  <2>1. PICK c \in Categories, days \in Periods : SetPolicy(c, days)
    BY <1>1, RetentionAssumption
  <2>2. /\ policy' = [policy EXCEPT ![c] = days]
        /\ inforce' = IF sweep = Off THEN inforce ELSE [inforce EXCEPT ![c] = @ \cup {days}]
        /\ UNCHANGED <<day, runs, signed, sweep, pc, subject>>
    BY <2>1 DEF SetPolicy, vars
  <2>3. PolicyTypes'
    BY <2>2 DEF RInv, SInv, PolicyTypes
  <2>4. \A k \in Categories : inforce[k] \subseteq inforce'[k]
    BY <2>2 DEF RInv, SInv, PolicyTypes
  <2>5. sweep # Off => \A k \in Categories : policy'[k] \in {None, policy[k]} \cup inforce'[k]
    BY <2>2 DEF RInv, SInv, PolicyTypes
  <2>6. day' >= day
    BY <2>2 DEF RInv, SInv, PolicyTypes
  <2>7. QED
    BY <2>2, <2>3, <2>4, <2>5, <2>6, SweepStays DEF RInv
<1>2. CASE NextDay \/ UNCHANGED allVars
  <2>1. UNCHANGED <<vars, policy, runs, signed, sweep, inforce>>
    BY <1>2 DEF NextDay, allVars, sweepVars
  <2>2. day' >= day /\ PolicyTypes'
    BY <1>2, <2>1 DEF NextDay, allVars, sweepVars, RInv, SInv, PolicyTypes
  <2>3. QED
    BY <2>1, <2>2, SweepStays DEF RInv, vars
<1>3. CASE Others
  <2>1. UNCHANGED <<day, policy, runs, signed, sweep, inforce>>
    BY <1>3 DEF Others
  <2>2. pc'[Sweeper] = pc[Sweeper] /\ subject'[Sweeper] = subject[Sweeper]
    BY <1>3, RetentionAssumption
       DEF Others, SetAbout, ListPrefix, Lookup, ReplaceChunks, PutText, Goto, RInv, IInv, TypeOK
  <2>3. day' >= day /\ PolicyTypes'
    BY <2>1 DEF RInv, SInv, PolicyTypes
  <2>4. QED
    BY <2>1, <2>2, <2>3, SweepStays DEF RInv
<1>4. QED
  BY <1>1, <1>2, <1>3

LEMMA RStepHolds == RInv /\ [RetentionNext]_allVars => RInv'
<1> SUFFICES ASSUME RInv, [RetentionNext]_allVars PROVE RInv'
  OBVIOUS
<1>1. IInv'
  BY StepsAreDeletions, StepIsGood DEF RInv
<1>2. SInv'
  BY ReadCutoffKeeps, ListKeeps, LoopKeeps, EndKeeps, BeginKeeps, WorkKeeps, CutShortKeeps,
     BreakKeeps, AroundKeeps DEF RetentionNext, SweepStep, RInv
<1>3. QED
  BY <1>1, <1>2 DEF RInv

LEMMA RInductive == RetentionSpec => []RInv
BY RInitHolds, RStepHolds, PTL DEF RetentionSpec

-----------------------------------------------------------------------------
(***************************************************************************)
(* The deletions of a sweep, of users and of the workspace leave no        *)
(* original behind its row (retention.py:175-191, deletion.py:136-171).    *)
(***************************************************************************)
THEOREM SweepsLeaveNoOriginal == RetentionSpec => []OriginalGoesFirst
<1>1. RInv => OriginalGoesFirst
  BY DEF RInv, IInv
<1>2. QED
  BY <1>1, RInductive, PTL

\* What a step takes away beside the deletions of others was due.
LEMMA StepSparesYoung ==
    RInv /\ [RetentionNext]_allVars =>
        [/\ \A d \in rows \ rows' :
               \/ \E w \in Deleters \ {Sweeper} : pc[w] # pc'[w]
               \/ Past(Born[d], "document") /\ Covered
         /\ sweep # sweep' =>
               /\ \A r \in runs \ runs' : Past(Started[r], "trace_event") /\ Covered
               /\ \A s \in signed \ signed' : Past(Expires[s], "session") /\ Covered]_allVars
<1> SUFFICES ASSUME RInv, RetentionNext
             PROVE  /\ \A d \in rows \ rows' :
                          \/ \E w \in Deleters \ {Sweeper} : pc[w] # pc'[w]
                          \/ Past(Born[d], "document") /\ Covered
                    /\ sweep # sweep' =>
                          /\ \A r \in runs \ runs' : Past(Started[r], "trace_event") /\ Covered
                          /\ \A s \in signed \ signed' : Past(Expires[s], "session") /\ Covered
  OBVIOUS
<1>0. sweep # Off => Covered
  BY DEF RInv, SInv, PolicyTypes, PeriodsKnown, Covered
<1>1. ASSUME NEW d \in rows \ rows'
      PROVE  \/ \E w \in Deleters \ {Sweeper} : pc[w] # pc'[w]
             \/ Past(Born[d], "document") /\ Covered
  <2>1. PICK w \in Deleters : DeleteRows(w)
    BY <1>1, StepsAreDeletions
       DEF Next, vars, Stores, Lookup, ListKeys, ListPrefix, RemovePayload, PayloadRefused,
           KeepRows, Record, Raise, Crash, ReplaceChunks, PutText
  <2>2. pc[w] = "payloads" /\ pc'[w] = "recording" /\ d \in Rows(subject[w])
    BY <1>1, <2>1 DEF DeleteRows, Goto, RInv, IInv, TypeOK
  <2>3. CASE w = Sweeper
    <3>1. sweep.at = "each" /\ Old(subject[Sweeper], 1)
      BY <2>2, <2>3 DEF RInv, SInv, LeftIsOld
    <3>2. d = subject[Sweeper]
      BY <2>2, <2>3, <3>1, WorkspaceAssumption DEF Rows, Old
    <3>3. Past(Born[d], "document")
      BY <3>1, <3>2 DEF Old
    <3>4. Covered
      BY <1>0, <3>1 DEF Off
    <3>5. QED
      BY <3>3, <3>4
  <2>4. CASE w # Sweeper
    BY <2>2, <2>4
  <2>5. QED
    BY <2>3, <2>4
<1>2. ASSUME sweep # sweep', NEW r \in runs \ runs'
      PROVE  Past(Started[r], "trace_event") /\ Covered
  <2>1. SweepRun /\ r \in sweep.left
    BY <1>2 DEF RetentionNext, SweepStep, SetPolicy, NextDay, BeginSweep, ReadCutoff,
                ListDocuments, ListRuns, SweepDocument, SweepRun, RecordRun, EndLoop,
                SweepSessions, Others, Work, TakeRows, CutShort, SweepFails, SweepCrash,
                sweepVars
  <2>2. Old(r, 2)
    BY <2>1 DEF SweepRun, RInv, SInv, LeftIsOld
  <2>3. sweep # Off
    BY <2>1 DEF SweepRun, Off
  <2>4. QED
    BY <1>0, <2>2, <2>3 DEF Old
<1>3. ASSUME sweep # sweep', NEW x \in signed \ signed'
      PROVE  Past(Expires[x], "session") /\ Covered
  <2>1. SweepSessions
    BY <1>3 DEF RetentionNext, SweepStep, SetPolicy, NextDay, BeginSweep, ReadCutoff,
                ListDocuments, ListRuns, SweepDocument, SweepRun, RecordRun, EndLoop,
                SweepSessions, Others, Work, TakeRows, CutShort, SweepFails, SweepCrash,
                sweepVars
  <2>2. sweep.at = "list" /\ sweep.category = 3 /\ Due(Expires[x], sweep.cutoff)
    BY <1>3, <2>1 DEF SweepSessions
  <2>3. Expires[x] \in Nat
    BY RetentionAssumption DEF RInv, SInv, PolicyTypes
  <2>4. Past(Expires[x], Swept[3])
    BY <2>2, <2>3, DueIsPast DEF RInv, SInv
  <2>5. QED
    BY <1>0, <2>2, <2>4, SweptAreCategories DEF Off
<1>4. QED
  BY <1>1, <1>2, <1>3

(***************************************************************************)
(* Nothing inside its retention window is ever removed by the sweeper, nor *)
(* anything of a workspace without every required period, for any limit,   *)
(* periods and failures (retention.py:69-86, 147-215).                     *)
(***************************************************************************)
THEOREM NothingYoungIsSwept == RetentionSpec => NothingYoung
BY RInductive, StepSparesYoung, PTL DEF RetentionSpec, NothingYoung

-----------------------------------------------------------------------------
(* Removals are logged. *)

\* Somebody is at work on it.
Busy(d) == \E w \in Deleters : pc[w] # "idle" /\ d \in Rows(subject[w])

\* A document that lost nothing, nor anything of what its index waits to name.
Intact(d) == Whole(d) /\ fresh[d] \subseteq payloads

\* RemovalsAreLogged of the documents, with the texts put for their chunk rows
\* to come: the replacement of those rows would tear a document that has lost
\* one of these.
DocsAccounted == \A d \in Docs : Intact(d) \/ Noted(d) \/ Busy(d)

RunAccounted(r) ==
    \/ r \in runlog \/ Noted(r)
    \/ sweep.at = "record" /\ sweep.run = r
    \/ \E w \in Deleters : pc[w] # "idle" /\ subject[w] = Workspace
RunsAccounted == \A r \in Runs \ runs : RunAccounted(r)

\* What a deletion has in front of it is content of its subject.
TodoIsContent ==
    \A w \in Deleters : pc[w] = "payloads" =>
        \A d \in Docs \ Rows(subject[w]) : todo[w] \cap ContentOf(d) = {}

LInv == TodoIsContent /\ DocsAccounted /\ RunsAccounted

LEMMA ContentStays ==
    ASSUME RInv, TodoIsContent, [Next]_vars
    PROVE  TodoIsContent'
<1> SUFFICES ASSUME NEW w \in Deleters, pc'[w] = "payloads", NEW d \in Docs \ Rows(subject'[w]),
                    NEW k \in todo'[w], k \in ContentOf(d)
             PROVE  FALSE
  BY DEF TodoIsContent, ContentOf, Rows
<1> USE DEF RInv, IInv, TypeOK
<1>1. CASE pc[w] = "payloads" /\ subject'[w] = subject[w] /\ todo'[w] \subseteq todo[w]
  BY <1>1 DEF TodoIsContent
<1>2. CASE ListKeys(w)
  <2>1. subject[w] \in Docs /\ subject'[w] = subject[w]
    BY <1>2 DEF ListKeys, RecordIsDue
  <2>2. k \in ContentOf(subject[w])
    BY <1>2, <2>1 DEF ListKeys, ContentOf
  <2>3. d # subject[w] /\ d \in Docs
    BY <2>1, WorkspaceAssumption DEF Rows
  <2>4. QED
    BY <2>1, <2>2, <2>3, KeysAssumption
<1>3. CASE ListPrefix(w)
  BY <1>3 DEF ListPrefix, Rows
<1>4. CASE ~ListKeys(w) /\ ~ListPrefix(w)
  <2>1. CASE RemovePayload(w) \/ PayloadRefused(w)
    <3>1. todo'[w] \subseteq todo[w]
      BY <2>1 DEF RemovePayload, PayloadRefused
    <3>2. QED
      BY <2>1, <3>1, <1>1 DEF RemovePayload, PayloadRefused
  <2>2. CASE ~RemovePayload(w) /\ ~PayloadRefused(w)
    <3>1. pc[w] = "payloads" /\ subject'[w] = subject[w] /\ todo'[w] = todo[w]
      BY <1>4, <2>2
         DEF Next, vars, Stores, Lookup, ListKeys, ListPrefix, RemovePayload, PayloadRefused,
             DeleteRows, KeepRows, Record, Raise, Crash, ReplaceChunks, PutText, Goto, Leave
    <3>2. QED
      BY <3>1, <1>1
  <2>3. QED
    BY <2>1, <2>2
<1>5. QED
  BY <1>2, <1>3, <1>4

\* Nothing tears a document but a deletion that is answerable for it.
LEMMA IntactStays ==
    ASSUME RInv, TodoIsContent, [Next]_vars, NEW d \in Docs, Intact(d), ~Busy(d)
    PROVE  Intact(d)'
<1> USE DEF RInv, IInv, TypeOK
<1>1. d \in rows /\ {OriginalOf[d]} \cup chunks[d] \cup fresh[d] \subseteq payloads
  BY DEF Intact, Whole
<1>2. {OriginalOf[d]} \cup chunks[d] \cup fresh[d] \subseteq ContentOf(d)
  BY DEF ContentOf
<1>3. CASE \E w \in Deleters : RemovePayload(w)
  <2>0. PICK w \in Deleters : \E k \in todo[w] :
           pc[w] = "payloads" /\ payloads' = payloads \ {k} /\ UNCHANGED <<rows, chunks, fresh>>
    BY <1>3 DEF RemovePayload, Pending
  <2>1. PICK k \in todo[w] :
           pc[w] = "payloads" /\ payloads' = payloads \ {k} /\ UNCHANGED <<rows, chunks, fresh>>
    BY <2>0
  <2>2. d \notin Rows(subject[w])
    BY <2>1 DEF Busy
  <2>3. k \notin ContentOf(d)
    BY <2>1, <2>2 DEF TodoIsContent
  <2>4. QED
    BY <1>1, <1>2, <2>1, <2>3 DEF Intact, Whole
<1>4. CASE \E w \in Deleters : DeleteRows(w)
  <2>1. PICK w \in Deleters : DeleteRows(w)
    BY <1>4
  <2>2. d \notin Rows(subject[w])
    BY <2>1 DEF Busy, DeleteRows
  <2>3. d \in rows' /\ chunks'[d] = chunks[d] /\ fresh' = fresh /\ payloads' = payloads
    BY <1>1, <2>1, <2>2 DEF DeleteRows
  <2>4. QED
    BY <1>1, <2>3 DEF Intact, Whole
<1>5. CASE \E e \in Docs : ReplaceChunks(e)
  <2>1. PICK e \in Docs : ReplaceChunks(e)
    BY <1>5
  <2>2. /\ chunks'[d] \in {chunks[d], fresh[d]} /\ fresh'[d] \in {fresh[d], {}}
        /\ rows' = rows /\ payloads' = payloads
    BY <2>1 DEF ReplaceChunks
  <2>3. QED
    BY <1>1, <2>2 DEF Intact, Whole
<1>6. CASE \E e \in Docs : \E k \in TextsOf[e] : PutText(e, k)
  <2>1. PICK e \in Docs : \E k \in TextsOf[e] : PutText(e, k)
    BY <1>6
  <2>2. PICK k \in TextsOf[e] : PutText(e, k)
    BY <2>1
  <2>3. /\ payloads' = payloads \cup {k} /\ fresh'[d] \subseteq fresh[d] \cup {k}
        /\ rows' = rows /\ chunks' = chunks
    BY <2>2 DEF PutText
  <2>4. QED
    BY <1>1, <2>3 DEF Intact, Whole
<1>7. CASE UNCHANGED <<rows, chunks, payloads, fresh>>
  BY <1>7 DEF Intact, Whole
<1>8. QED
  BY <1>3, <1>4, <1>5, <1>6, <1>7
     DEF Next, vars, Stores, Lookup, ListKeys, ListPrefix, PayloadRefused, KeepRows, Record,
         Raise, Crash

-----------------------------------------------------------------------------
LEMMA LogsGrow ==
    ASSUME RInv, [RetentionNext]_allVars
    PROVE  /\ log \subseteq log' /\ runlog \subseteq runlog'
           /\ \A x \in cut \ cut' : \E w \in Deleters : pc'[w] # "idle" /\ subject'[w] = x
<1>1. CASE \E w \in Deleters : Work(w) \/ TakeRows(w) \/ CutShort(w)
  BY <1>1 DEF Work, TakeRows, CutShort, sweepVars, marks, ListKeys, RemovePayload, PayloadRefused,
              KeepRows, Record, DeleteRows, Raise
<1>2. ASSUME NEW w \in Deleters, NEW x, SetAbout(w, x)
      PROVE  log' = log /\ cut' = cut \ {x} /\ pc'[w] # "idle" /\ subject'[w] = x
  BY <1>2 DEF SetAbout, ListPrefix, Lookup, Goto, RInv, IInv, TypeOK
<1>3. CASE SweepDocument \/ Others
  BY <1>2, <1>3, RetentionAssumption DEF SweepDocument, Others, marks, ReplaceChunks, PutText
<1>4. CASE SweepFails \/ SweepCrash
  BY <1>4 DEF SweepFails, SweepCrash, Crash, vars
<1>5. CASE SweepStep /\ ~SweepDocument
  BY <1>5 DEF SweepStep, ReadCutoff, ListDocuments, ListRuns, SweepRun, RecordRun,
              EndLoop, SweepSessions, vars, marks
<1>6. CASE \/ BeginSweep \/ NextDay \/ \E u \in Upserts : SetPolicy(u[1], u[2])
           \/ UNCHANGED allVars
  BY <1>6 DEF SetPolicy, NextDay, BeginSweep, allVars, sweepVars, vars, marks
<1>7. QED
  BY <1>1, <1>3, <1>4, <1>5, <1>6 DEF RetentionNext

\* A deletion ends with its record, or with what cut it short.
LEMMA EndsAreNoted ==
    ASSUME RInv, [RetentionNext]_allVars, NEW w \in Deleters, pc[w] # "idle"
    PROVE  \/ pc'[w] # "idle" /\ subject'[w] = subject[w]
           \/ subject[w] \in cut' \/ \E r \in log' : r.subject = subject[w]
<1> USE DEF RInv, IInv, TypeOK
<1>1. CASE \E v \in Deleters : Work(v) \/ TakeRows(v) \/ CutShort(v)
  <2>1. PICK v \in Deleters : Work(v) \/ TakeRows(v) \/ CutShort(v)
    BY <1>1
  <2>2. CASE v # w
    BY <2>1, <2>2
       DEF Work, TakeRows, CutShort, ListKeys, RemovePayload, PayloadRefused, KeepRows, Record,
           DeleteRows, Raise, Leave, Goto
  <2>3. CASE v = w /\ (Record(w) \/ CutShort(w))
    <3>1. ASSUME Record(w) PROVE \E r \in log' : r.subject = subject[w]
      <4> DEFINE r == [subject |-> subject[w], complete |-> ~failed[w], absent |-> pc[w] = "absent"]
      <4>1. r \in log' /\ r.subject = subject[w]
        BY <3>1 DEF Record
      <4>2. QED
        BY <4>1
    <3>2. CutShort(w) => subject[w] \in cut'
      BY DEF CutShort
    <3>3. QED
      BY <2>3, <3>1, <3>2
  <2>4. CASE v = w /\ ~Record(w) /\ ~CutShort(w)
    BY <2>1, <2>4
       DEF Work, TakeRows, ListKeys, RemovePayload, PayloadRefused, KeepRows, DeleteRows, Goto
  <2>5. QED
    BY <2>2, <2>3, <2>4
<1>2. CASE SweepStep \/ Others
  BY <1>2 DEF SweepStep, ReadCutoff, ListDocuments, ListRuns, SweepDocument, SweepRun, RecordRun,
              EndLoop, SweepSessions, Others, SetAbout, vars, Lookup, ListPrefix, ReplaceChunks,
              PutText, Goto
<1>3. CASE SweepFails \/ SweepCrash
  <2>1. SweepCrash => subject[w] \in cut'
    BY DEF SweepCrash
  <2>2. QED
    BY <1>3, <2>1 DEF SweepFails, vars
<1>4. CASE /\ ~(\E v \in Deleters : Work(v) \/ TakeRows(v) \/ CutShort(v))
           /\ ~SweepStep /\ ~Others /\ ~SweepFails /\ ~SweepCrash
  BY <1>4 DEF RetentionNext, SetPolicy, NextDay, BeginSweep, allVars, vars
<1>5. QED
  BY <1>1, <1>2, <1>3, <1>4

LEMMA DocsStayAccounted ==
    ASSUME RInv, LInv, [RetentionNext]_allVars
    PROVE  DocsAccounted'
<1> SUFFICES ASSUME NEW d \in Docs PROVE Intact(d)' \/ Noted(d)' \/ Busy(d)'
  BY DEF DocsAccounted
<1>1. CASE Busy(d)
  <2>1. PICK w \in Deleters : pc[w] # "idle" /\ d \in Rows(subject[w])
    BY <1>1 DEF Busy
  <2>2. subject[w] \in {d, Workspace}
    BY <2>1 DEF Rows
  <2>3. CASE pc'[w] # "idle" /\ subject'[w] = subject[w]
    BY <2>1, <2>3 DEF Busy, Rows
  <2>4. CASE subject[w] \in cut' \/ \E r \in log' : r.subject = subject[w]
    BY <2>2, <2>4 DEF Noted
  <2>5. QED
    BY <2>1, <2>3, <2>4, EndsAreNoted
<1>2. CASE Noted(d)
  <2>1. \A x \in {d, Workspace} : x \in cut \ cut' => Busy(d)'
    BY LogsGrow DEF Busy, Rows
  <2>2. QED
    BY <1>2, <2>1, LogsGrow DEF Noted
<1>3. CASE Intact(d) /\ ~Busy(d)
  BY <1>3, IntactStays, StepsAreDeletions DEF LInv
<1>4. QED
  BY <1>1, <1>2, <1>3 DEF LInv, DocsAccounted

LEMMA RunsStayAccounted ==
    ASSUME RInv, LInv, [RetentionNext]_allVars
    PROVE  RunsAccounted'
<1> SUFFICES ASSUME NEW r \in Runs, r \notin runs' PROVE RunAccounted(r)'
  BY DEF RunsAccounted
<1>0. \A w \in Deleters : subject'[w] \in Subjects
  BY RStepHolds DEF RInv, IInv, TypeOK
<1>1. CASE r \in runs
  <2>1. SweepRun \/ \E w \in Deleters : TakeRows(w) /\ subject[w] = Workspace
    BY <1>1 DEF RetentionNext, SweepStep, SetPolicy, NextDay, BeginSweep, ReadCutoff,
                ListDocuments, ListRuns, SweepDocument, RecordRun, EndLoop, SweepSessions,
                Others, Work, TakeRows, CutShort, SweepFails, SweepCrash, allVars, sweepVars
  <2>2. CASE SweepRun
    BY <1>1, <2>2 DEF SweepRun, RunAccounted
  <2>3. CASE \E w \in Deleters : TakeRows(w) /\ subject[w] = Workspace
    <3>1. PICK w \in Deleters : TakeRows(w) /\ subject[w] = Workspace
      BY <2>3
    <3>2. pc'[w] # "idle" /\ subject'[w] = Workspace
      BY <3>1 DEF TakeRows, DeleteRows, Goto, RInv, IInv, TypeOK
    <3>3. QED
      BY <3>2 DEF RunAccounted
  <2>4. QED
    BY <2>1, <2>2, <2>3
<1>2. CASE r \notin runs
  <2>1. RunAccounted(r)
    BY <1>2 DEF LInv, RunsAccounted
  <2>2. CASE r \in runlog \/ Noted(r)
    <3>1. r \notin Subjects
      BY RetentionAssumption
    <3>2. r \in cut => r \in cut'
      BY <3>1, LogsGrow, <1>0
    <3>3. Workspace \in cut \ cut' => RunAccounted(r)'
      BY LogsGrow DEF RunAccounted
    <3>4. QED
      BY <2>2, <3>2, <3>3, LogsGrow DEF RunAccounted, Noted
  <2>3. CASE sweep.at = "record" /\ sweep.run = r
    <3>1. CASE RecordRun
      BY <2>3, <3>1 DEF RecordRun, RunAccounted
    <3>2. CASE SweepFails \/ SweepCrash
      BY <2>3, <3>2 DEF SweepFails, SweepCrash, Unrecorded, RunAccounted, Noted
    <3>3. CASE ~RecordRun /\ ~SweepFails /\ ~SweepCrash
      <4>1. sweep # Off /\ pc[Sweeper] = "idle"
        BY <2>3, SweeperIdle DEF Off, RInv
      <4>2. sweep' = sweep
        BY <2>3, <3>3, <4>1
           DEF RetentionNext, SweepStep, SetPolicy, NextDay, BeginSweep, ReadCutoff, ListDocuments,
               ListRuns, SweepDocument, SweepRun, EndLoop, SweepSessions, Others, Work, TakeRows,
               CutShort, Raise, allVars, sweepVars
      <4>3. QED
        BY <2>3, <4>2 DEF RunAccounted
    <3>4. QED
      BY <3>1, <3>2, <3>3
  <2>4. CASE \E w \in Deleters : pc[w] # "idle" /\ subject[w] = Workspace
    <3>1. PICK w \in Deleters : pc[w] # "idle" /\ subject[w] = Workspace
      BY <2>4
    <3>2. CASE pc'[w] # "idle" /\ subject'[w] = Workspace
      BY <3>2 DEF RunAccounted
    <3>3. CASE Workspace \in cut' \/ \E n \in log' : n.subject = Workspace
      BY <3>3 DEF RunAccounted, Noted
    <3>4. QED
      BY <3>1, <3>2, <3>3, EndsAreNoted
  <2>5. QED
    BY <2>1, <2>2, <2>3, <2>4 DEF RunAccounted
<1>3. QED
  BY <1>1, <1>2

(***************************************************************************)
(* "The audit record is written last, and always": whatever deletions      *)
(* overlap, fail halfway or find the document indexed meanwhile, a         *)
(* document that lost its row or any of its content, and a run that went,  *)
(* has its record, or the one of its workspace; or the deletion is still   *)
(* at work, or an exception or a crash cut it short before the record and  *)
(* nobody has begun it again (deletion.py:136-241, 190-217, 303,           *)
(* retention.py:175-205).                                                  *)
(***************************************************************************)
THEOREM RemovalsHaveRecords == RetentionSpec => []RemovalsAreLogged
<1>1. RetentionInit => LInv
  <2> SUFFICES ASSUME RetentionInit PROVE LInv
    OBVIOUS
  <2>1. TodoIsContent
    BY DEF RetentionInit, Init, TodoIsContent
  <2>2. DocsAccounted
    BY DEF RetentionInit, Init, DocsAccounted, Intact, Whole
  <2>3. RunsAccounted
    BY DEF RetentionInit, RunsAccounted
  <2>4. QED
    BY <2>1, <2>2, <2>3 DEF LInv
<1>2. RInv /\ LInv /\ [RetentionNext]_allVars => LInv'
  BY ContentStays, StepsAreDeletions, DocsStayAccounted, RunsStayAccounted DEF LInv
<1>3. LInv => RemovalsAreLogged
  BY DEF LInv, DocsAccounted, RunsAccounted, RunAccounted, Intact, Busy, RemovalsAreLogged
<1>4. QED
  BY <1>1, <1>2, <1>3, RInductive, PTL DEF RetentionSpec
=============================================================================
