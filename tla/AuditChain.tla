----------------------------- MODULE AuditChain -----------------------------
(***************************************************************************)
(* The hash-chained JSONL audit writer: AuditSink                          *)
(* (pii_agent/session/audit_sink.py) and its twin AuditChain               *)
(* (explorer/observability/audit_chain.py), which are pinned to the same   *)
(* format and take the same steps.                                         *)
(*                                                                         *)
(* A sink is an object with a lock of its own; every sink in Sinks writes  *)
(* to the same directory.  A writer is a thread (of this process or of     *)
(* another one) inside append() of its sink.  The directory is kept as it  *)
(* is read: the lines of audit-<day>.jsonl, files in the order of their    *)
(* names, each line tagged with its file.                                  *)
(***************************************************************************)
EXTENDS Naturals, Sequences, FiniteSets

CONSTANTS
    Writers,        \* threads that call append()
    Sinks,          \* sink objects that share one audit directory
    SinkOf,         \* the sink each writer calls
    Days,           \* UTC days the clock can show: 1..Days   (bound)
    MaxRecords,     \* calls of append() in a behaviour       (bound)
    Faults,         \* what the environment may do, a subset of FaultKinds
    Genesis,        \* GENESIS_HASH
    Free            \* the value of a lock nobody holds

FaultKinds ==
    {"clock",       \* the wall clock is set back to an earlier day
     "torn",        \* a write stops short (full disk, killed process)
     "unreadable"}  \* a file cannot be opened for reading

ASSUME SinksAssumption == SinkOf \in [Writers -> Sinks]
ASSUME BoundsAssumption == Days \in Nat \ {0} /\ MaxRecords \in Nat
ASSUME FaultsAssumption == Faults \subseteq FaultKinds
ASSUME FreeAssumption == Free \notin Writers

VARIABLES
    lines,          \* the directory in reading order
    today,          \* the UTC day of the wall clock
    lock,           \* lock[s]: the writer that holds the lock of sink s, or Free
    pc,             \* where each writer is in append()
    when,           \* the day each writer read from the clock
    rid,            \* the record each writer is appending
    prev,           \* the prev_hash each writer put in its entry
    issued,         \* how many calls of append() have begun
    acked           \* records whose append() returned to its caller

writerVars == <<pc, when, rid, prev>>
vars == <<lines, today, lock, pc, when, rid, prev, issued, acked>>

\* "whole": parses and ends in a newline.  "bare": parses, the newline is
\* missing.  "torn": does not parse, no newline.  "garbage": does not parse,
\* ends in a newline.
Forms == {"whole", "bare", "torn", "garbage"}
Ids == 1..MaxRecords
Hashes == Ids \cup {Genesis}
Line == [file : 1..Days, id : Ids, prev : Hashes, form : Forms]

Parses(line) == line.form \in {"whole", "bare"}
Terminated(line) == line.form \in {"whole", "garbage"}

-----------------------------------------------------------------------------
\* _last_hash: the hash of the last line of the last file that has one and can
\* be opened.  A line that is not JSON yields the genesis hash.
LastHash(ls, skipped) ==
    LET readable == {i \in DOMAIN ls : ls[i].file \notin skipped}
        last == CHOOSE i \in readable : \A j \in readable : j <= i
    IN  IF readable # {} /\ Parses(ls[last]) THEN ls[last].id ELSE Genesis

\* How many lines are read before the end of the file of day d.
EndOf(ls, d) == Cardinality({i \in DOMAIN ls : ls[i].file <= d})

\* Mutant: open("w"), which empties the day's file first.
WriteAt_Truncates(ls, new) ==
    Append(SelectSeq(ls, LAMBDA line : line.file # new.file), new)

\* open("a") and write: the text lands at the end of its file.  Behind a line
\* that was never terminated it becomes part of that line.
WriteAt(ls, new) ==
    LET k == EndOf(ls, new.file) IN
    IF k > 0 /\ ls[k].file = new.file /\ ~Terminated(ls[k])
    THEN [ls EXCEPT ![k].form = IF Terminated(new) THEN "garbage" ELSE "torn"]
    ELSE [i \in 1..(Len(ls) + 1) |->
            IF i <= k THEN ls[i] ELSE IF i = k + 1 THEN new ELSE ls[i - 1]]

\* verify_chain: every line parses and names the record read before it.
Verifies(ls) ==
    \A i \in 1..Len(ls) :
        /\ Parses(ls[i])
        /\ ls[i].prev = IF i = 1 THEN Genesis ELSE ls[i - 1].id

-----------------------------------------------------------------------------
Init ==
    /\ lines = <<>>
    /\ today = 1
    /\ lock = [s \in Sinks |-> Free]
    /\ pc = [w \in Writers |-> "idle"]
    /\ when = [w \in Writers |-> 1]
    /\ rid = [w \in Writers |-> 0]
    /\ prev = [w \in Writers |-> Genesis]
    /\ issued = 0
    /\ acked = {}

Goto(w, label) == pc' = [pc EXCEPT ![w] = label]
Release(w) == lock' = [lock EXCEPT ![SinkOf[w]] = Free]
Entry(w, form) ==
    [file |-> when[w], id |-> rid[w], prev |-> prev[w], form |-> form]

\* Mutant: append() without the lock.
Begin_NoLock(w) ==
    /\ pc[w] = "idle"
    /\ issued < MaxRecords
    /\ issued' = issued + 1
    /\ rid' = [rid EXCEPT ![w] = issued + 1]
    /\ when' = [when EXCEPT ![w] = today]
    /\ Goto(w, "locked")
    /\ UNCHANGED <<lines, today, lock, prev, acked>>

\* with self._lock: now = datetime.now(UTC)
Begin(w) ==
    /\ pc[w] = "idle"
    /\ issued < MaxRecords
    /\ lock[SinkOf[w]] = Free
    /\ lock' = [lock EXCEPT ![SinkOf[w]] = w]
    /\ issued' = issued + 1
    /\ rid' = [rid EXCEPT ![w] = issued + 1]
    /\ when' = [when EXCEPT ![w] = today]
    /\ Goto(w, "locked")
    /\ UNCHANGED <<lines, today, prev, acked>>

\* Mutant: the tail is kept in memory and advanced before the write succeeds.
LinkToTail_Cached(w) ==
    /\ pc[w] = "locked"
    /\ prev' = [prev EXCEPT ![w] = IF rid[w] = 1 THEN Genesis ELSE rid[w] - 1]
    /\ Goto(w, "linked")
    /\ UNCHANGED <<lines, today, lock, when, rid, issued, acked>>

\* entry["prev_hash"] = self._last_hash()
LinkToTail(w) ==
    /\ pc[w] = "locked"
    /\ \E skipped \in SUBSET (1..Days) :
          /\ skipped # {} => "unreadable" \in Faults
          /\ prev' = [prev EXCEPT ![w] = LastHash(lines, skipped)]
    /\ Goto(w, "linked")
    /\ UNCHANGED <<lines, today, lock, when, rid, issued, acked>>

\* fh.write(...); fh.flush(): the line reaches the file.
Write(w) ==
    /\ pc[w] = "linked"
    /\ lines' = WriteAt(lines, Entry(w, "whole"))
    /\ Goto(w, "written")
    /\ UNCHANGED <<today, lock, when, rid, prev, issued, acked>>

\* fsync returned: the lock is released and the caller gets the hash.
Return(w) ==
    /\ pc[w] = "written"
    /\ Release(w)
    /\ acked' = acked \cup {rid[w]}
    /\ Goto(w, "idle")
    /\ UNCHANGED <<lines, today, when, rid, prev, issued>>

\* Mutant: the exception is swallowed and the hash is returned all the same.
WriteRaises_Acked(w) ==
    /\ pc[w] = "linked"
    /\ Release(w)
    /\ acked' = acked \cup {rid[w]}
    /\ Goto(w, "idle")
    /\ UNCHANGED <<lines, today, when, rid, prev, issued>>

\* Mutant: acquire() and release() around the write, without a finally.
WriteRaises_KeepsLock(w) ==
    /\ pc[w] = "linked"
    /\ Goto(w, "idle")
    /\ UNCHANGED <<lines, lock, today, when, rid, prev, issued, acked>>

\* open or write raised OSError; the with statement still releases the lock.
\* A part of the line may have reached the file.
WriteRaises(w) ==
    /\ pc[w] = "linked"
    /\ \/ lines' = lines
       \/ /\ "torn" \in Faults
          /\ \E form \in {"bare", "torn"} : lines' = WriteAt(lines, Entry(w, form))
    /\ Release(w)
    /\ Goto(w, "idle")
    /\ UNCHANGED <<today, when, rid, prev, issued, acked>>

\* fsync raised: the line is in the file, the caller gets an exception.
SyncRaises(w) ==
    /\ pc[w] = "written"
    /\ Release(w)
    /\ Goto(w, "idle")
    /\ UNCHANGED <<lines, today, when, rid, prev, issued, acked>>

\* Every process dies and starts again with new sink objects.
Restart ==
    /\ lock' = [s \in Sinks |-> Free]
    /\ pc' = [w \in Writers |-> "idle"]
    /\ UNCHANGED <<lines, today, when, rid, prev, issued, acked>>

Midnight ==
    /\ today < Days
    /\ today' = today + 1
    /\ UNCHANGED <<lines, lock, writerVars, issued, acked>>

ClockSetBack ==
    /\ "clock" \in Faults
    /\ today > 1
    /\ today' = today - 1
    /\ UNCHANGED <<lines, lock, writerVars, issued, acked>>

Next ==
    \/ \E w \in Writers :
          \/ Begin(w) \/ LinkToTail(w) \/ Write(w) \/ Return(w)
          \/ WriteRaises(w) \/ SyncRaises(w)
    \/ Restart
    \/ Midnight
    \/ ClockSetBack

\* A thread inside append() runs on; nothing obliges anyone to call append().
Fairness ==
    \A w \in Writers : WF_vars(LinkToTail(w) \/ Write(w) \/ Return(w))

Spec == Init /\ [][Next]_vars
FairSpec == Spec /\ Fairness

-----------------------------------------------------------------------------
TypeOK ==
    /\ lines \in Seq(Line)
    /\ today \in 1..Days
    /\ lock \in [Sinks -> Writers \cup {Free}]
    /\ pc \in [Writers -> {"idle", "locked", "linked", "written"}]
    /\ when \in [Writers -> 1..Days]
    /\ rid \in [Writers -> 0..MaxRecords]
    /\ prev \in [Writers -> Hashes]
    /\ issued \in 0..MaxRecords
    /\ acked \subseteq Ids

\* The trail verifies at every moment, whoever is half-way through an append:
\* verify_chain() of the sidebar never reports a break that is not tampering.
ChainIntact == Verifies(lines)

\* An append() that returned left a record that can be read back: the caller
\* is told "audited" only of what an auditor will find.
AckedReadable ==
    \A id \in acked : \E i \in DOMAIN lines : lines[i].id = id /\ Parses(lines[i])

\* A break in the trail is a fork, never a lost record: whatever a record names
\* as its predecessor was written.
NoDanglingLink ==
    \A i \in DOMAIN lines :
        lines[i].prev = Genesis \/ \E j \in DOMAIN lines : lines[i].prev = lines[j].id

\* One interrupted write costs at most one later record that was reported as
\* durable: the one glued to the remains.
LossBounded ==
    Cardinality({id \in acked : \A i \in DOMAIN lines :
                                   lines[i].id = id => ~Parses(lines[i])})
        <= Cardinality({i \in DOMAIN lines : lines[i].form = "garbage"})

\* Every append() returns or raises, and however it ends, by OSError of the write
\* or of fsync too, its thread has let go of the lock the others wait for.
AppendEnds ==
    \A w \in Writers :
        (pc[w] # "idle" \/ lock[SinkOf[w]] = w)
            ~> (pc[w] = "idle" /\ lock[SinkOf[w]] # w)

\* With one sink the directory, read in file order, is the abstract trail.
Promise == INSTANCE AuditTrail WITH
    Ids <- Ids,
    Genesis <- Genesis,
    trail <- [i \in 1..Len(lines) |-> [id |-> lines[i].id, prev |-> lines[i].prev]]
ImplementsTrail == Promise!Spec
=============================================================================
