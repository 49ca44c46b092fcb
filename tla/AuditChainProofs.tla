-------------------------- MODULE AuditChainProofs --------------------------
(***************************************************************************)
(* What the audit writer guarantees when one sink object owns the          *)
(* directory and the environment stays clean, and what is left of that     *)
(* when neither holds, for any number of threads, sinks, days and records. *)
(***************************************************************************)
EXTENDS AuditChain, FiniteSetTheorems, SequenceTheorems, WellFoundedInduction, TLAPS

\* Every thread calls the same sink.
OneSink == \A v, w \in Writers : SinkOf[v] = SinkOf[w]

\* A thread inside append() holds the lock of its sink.
Exclusive == \A w \in Writers : pc[w] # "idle" => lock[SinkOf[w]] = w

\* A thread inside append() has a record to append.
HasRecord == \A w \in Writers : pc[w] # "idle" => rid[w] \in Ids

\* Every line was written to its newline.
AllWhole == \A i \in 1..Len(lines) : lines[i].form = "whole"

\* No line is from a day the clock has not reached.
NoFutureLine == \A i \in 1..Len(lines) : lines[i].file <= today

\* The thread about to write will write behind every line there is.
WriterIsLatest ==
    \A w \in Writers : pc[w] \in {"locked", "linked"} =>
        /\ when[w] <= today
        /\ \A i \in 1..Len(lines) : lines[i].file <= when[w]

\* The predecessor it read is still the last record when it writes.
LinkIsFresh ==
    \A w \in Writers : pc[w] = "linked" => prev[w] = LastHash(lines, {})

IInv ==
    /\ TypeOK
    /\ Exclusive
    /\ HasRecord
    /\ AllWhole
    /\ NoFutureLine
    /\ WriterIsLatest
    /\ LinkIsFresh
    /\ ChainIntact

-----------------------------------------------------------------------------
\* _last_hash over a directory it can read in full is the hash of the last line.
LEMMA LastHashIsTip ==
    ASSUME NEW ls \in Seq(Line), \A i \in 1..Len(ls) : ls[i].form = "whole"
    PROVE  LastHash(ls, {}) = IF ls = <<>> THEN Genesis ELSE ls[Len(ls)].id
<1> DEFINE readable == {i \in DOMAIN ls : ls[i].file \notin {}}
<1> DEFINE last == CHOOSE i \in readable : \A j \in readable : j <= i
<1>1. readable = 1..Len(ls)
  OBVIOUS
<1>2. CASE ls = <<>>
  <2>1. readable = {}
    BY <1>1, <1>2
  <2>2. QED
    BY <2>1, <1>2 DEF LastHash
<1>3. CASE ls # <<>>
  <2>1. Len(ls) \in Nat \ {0}
    BY <1>3
  <2>2. Len(ls) \in readable /\ \A j \in readable : j <= Len(ls)
    BY <1>1, <2>1
  <2>3. last \in readable /\ \A j \in readable : j <= last
    BY <2>2
  <2>4. last = Len(ls)
    BY <2>1, <2>2, <2>3, <1>1
  <2>5. Parses(ls[Len(ls)])
    BY <2>1 DEF Parses
  <2>6. QED
    BY <2>2, <2>4, <2>5, <1>3 DEF LastHash
<1>4. QED
  BY <1>2, <1>3

\* Writing a whole line to a file no line is ahead of adds it at the end.
LEMMA WriteAtEnd ==
    ASSUME NEW ls \in Seq(Line), NEW new \in Line,
           \A i \in 1..Len(ls) : ls[i].form = "whole" /\ ls[i].file <= new.file
    PROVE  WriteAt(ls, new) = Append(ls, new)
<1>1. Len(ls) \in Nat /\ DOMAIN ls = 1..Len(ls)
  OBVIOUS
<1>2. EndOf(ls, new.file) = Len(ls)
  <2>1. {i \in DOMAIN ls : ls[i].file <= new.file} = 1..Len(ls)
    BY <1>1
  <2>2. EndOf(ls, new.file) = Cardinality(1..Len(ls))
    BY <2>1, Zenon DEF EndOf
  <2>3. Cardinality(1..Len(ls)) = Len(ls)
    <3>1. Len(ls) \in Int /\ 1 \in Int
      BY <1>1
    <3>2. Cardinality(1..Len(ls)) = IF 1 > Len(ls) THEN 0 ELSE Len(ls) - 1 + 1
      BY <3>1, FS_Interval, Zenon
    <3>3. QED
      BY <1>1, <3>2
  <2>4. QED
    BY <2>2, <2>3
<1> DEFINE n == Len(ls)
<1>3. n > 0 => Terminated(ls[n])
  BY <1>1 DEF Terminated
<1>4. WriteAt(ls, new) =
        [i \in 1..(n + 1) |->
            IF i <= n THEN ls[i] ELSE IF i = n + 1 THEN new ELSE ls[i - 1]]
  BY <1>2, <1>3 DEF WriteAt
<1>5. \A i \in 1..(n + 1) : ~(i <= n) => i = n + 1
  BY <1>1
<1>6. WriteAt(ls, new) = [i \in 1..(n + 1) |-> IF i <= n THEN ls[i] ELSE new]
  BY <1>4, <1>5
<1> DEFINE longer == Append(ls, new)
<1>7. /\ longer \in Seq(Line)
      /\ Len(longer) = n + 1
      /\ \A i \in 1..n : longer[i] = ls[i]
      /\ longer[n + 1] = new
  BY AppendProperties
<1> HIDE DEF longer
<1>8. longer = [i \in 1..(n + 1) |-> longer[i]]
  BY <1>7
<1>9. \A i \in 1..(n + 1) : longer[i] = IF i <= n THEN ls[i] ELSE new
  BY <1>1, <1>5, <1>7
<1>10. longer = [i \in 1..(n + 1) |-> IF i <= n THEN ls[i] ELSE new]
  BY <1>8, <1>9
<1>11. QED
  BY <1>6, <1>10 DEF longer

-----------------------------------------------------------------------------
LEMMA InitIInv == Init => IInv
<1> SUFFICES ASSUME Init PROVE IInv
  OBVIOUS
<1>1. lines \in Seq(Line) /\ Len(lines) = 0
  BY DEF Init
<1>2. TypeOK
  BY <1>1, BoundsAssumption DEF Init, TypeOK, Hashes
<1>3. Exclusive /\ HasRecord /\ WriterIsLatest /\ LinkIsFresh
  BY DEF Init, Exclusive, HasRecord, WriterIsLatest, LinkIsFresh
<1>4. AllWhole /\ NoFutureLine /\ ChainIntact
  BY <1>1 DEF AllWhole, NoFutureLine, ChainIntact, Verifies
<1>5. QED
  BY <1>2, <1>3, <1>4 DEF IInv

\* Inside append() of the only sink a thread is alone.
LEMMA Alone ==
    ASSUME OneSink, TypeOK, Exclusive,
           NEW v \in Writers, NEW w \in Writers, pc[v] # "idle", pc[w] # "idle"
    PROVE  v = w
BY DEF OneSink, Exclusive

\* A write adds one line at the end of the directory, and that line names the
\* record before it.
LEMMA WriteAppends ==
    ASSUME IInv, NEW w \in Writers, Write(w)
    PROVE  /\ Entry(w, "whole") \in Line
           /\ lines' = Append(lines, Entry(w, "whole"))
           /\ prev[w] = IF lines = <<>> THEN Genesis ELSE lines[Len(lines)].id
<1>1. Entry(w, "whole") \in Line
  BY DEF IInv, TypeOK, HasRecord, Write, Entry, Line, Forms
<1>2. \A i \in 1..Len(lines) :
         lines[i].form = "whole" /\ lines[i].file <= Entry(w, "whole").file
  BY DEF IInv, AllWhole, WriterIsLatest, Write, Entry
<1>3. lines \in Seq(Line)
  BY DEF IInv, TypeOK
<1>4. WriteAt(lines, Entry(w, "whole")) = Append(lines, Entry(w, "whole"))
  BY <1>1, <1>2, <1>3, WriteAtEnd
<1>5. LastHash(lines, {}) = IF lines = <<>> THEN Genesis ELSE lines[Len(lines)].id
  BY <1>2, <1>3, LastHashIsTip
<1>6. prev[w] = LastHash(lines, {})
  BY DEF IInv, LinkIsFresh, Write
<1>7. QED
  BY <1>1, <1>4, <1>5, <1>6 DEF Write

LEMMA BeginKeeps ==
    ASSUME OneSink, IInv, NEW w \in Writers, Begin(w)
    PROVE  IInv'
<1> USE DEF IInv, Begin, Goto
<1>1. \A v \in Writers : pc[v] = "idle"
  BY FreeAssumption DEF OneSink, Exclusive
<1>2. issued + 1 \in Ids /\ issued + 1 \in 0..MaxRecords
  BY BoundsAssumption DEF TypeOK, Ids
<1>3. TypeOK'
  BY <1>2, SinksAssumption DEF TypeOK
<1>4. Exclusive' /\ HasRecord'
  BY <1>1, <1>2, SinksAssumption DEF TypeOK, Exclusive, HasRecord
<1>5. AllWhole' /\ NoFutureLine' /\ ChainIntact'
  BY DEF AllWhole, NoFutureLine, ChainIntact
<1>6. WriterIsLatest' /\ LinkIsFresh'
  BY <1>1 DEF TypeOK, WriterIsLatest, LinkIsFresh, NoFutureLine
<1>7. QED
  BY <1>3, <1>4, <1>5, <1>6

LEMMA LinkKeeps ==
    ASSUME OneSink, Faults = {}, IInv, NEW w \in Writers, LinkToTail(w)
    PROVE  IInv'
<1> USE DEF IInv, Goto
<1>1. prev' = [prev EXCEPT ![w] = LastHash(lines, {})]
  BY DEF LinkToTail
<1>2. LastHash(lines, {}) \in Hashes
  <2>1. lines \in Seq(Line) /\ \A i \in 1..Len(lines) : lines[i].form = "whole"
    BY DEF TypeOK, AllWhole
  <2>2. lines # <<>> => lines[Len(lines)] \in Line
    BY <2>1
  <2>3. QED
    BY <2>1, <2>2, LastHashIsTip DEF Hashes, Line
<1>3. TypeOK'
  BY <1>1, <1>2 DEF TypeOK, LinkToTail
<1>4. Exclusive' /\ HasRecord' /\ AllWhole' /\ NoFutureLine' /\ ChainIntact'
  BY DEF LinkToTail, TypeOK, Exclusive, HasRecord, AllWhole, NoFutureLine, ChainIntact
<1>5. WriterIsLatest'
  BY DEF LinkToTail, TypeOK, WriterIsLatest
<1>6. LinkIsFresh'
  BY <1>1 DEF LinkToTail, TypeOK, LinkIsFresh
<1>7. QED
  BY <1>3, <1>4, <1>5, <1>6

LEMMA WriteKeeps ==
    ASSUME OneSink, IInv, NEW w \in Writers, Write(w)
    PROVE  IInv'
<1> DEFINE new == Entry(w, "whole")
<1>1. /\ new \in Line
      /\ lines' = Append(lines, new)
      /\ lines \in Seq(Line)
      /\ prev[w] = IF lines = <<>> THEN Genesis ELSE lines[Len(lines)].id
  BY WriteAppends DEF IInv, TypeOK
<1>2. /\ lines' \in Seq(Line)
      /\ Len(lines') = Len(lines) + 1
      /\ \A i \in 1..Len(lines) : lines'[i] = lines[i]
      /\ lines'[Len(lines) + 1] = new
      /\ Len(lines) \in Nat
  BY <1>1, AppendProperties
<1>3. new.form = "whole" /\ new.file = when[w] /\ new.prev = prev[w]
  BY DEF Entry
<1>4. \A v \in Writers : pc[v] # "idle" => v = w
  BY Alone DEF IInv, Write
<1>5. TypeOK'
  BY <1>2 DEF IInv, TypeOK, Write, Goto
<1>6. Exclusive' /\ HasRecord'
  BY DEF IInv, TypeOK, Write, Goto, Exclusive, HasRecord
<1>7. AllWhole' /\ NoFutureLine'
  BY <1>2, <1>3 DEF IInv, Write, AllWhole, NoFutureLine, WriterIsLatest
<1>8. WriterIsLatest' /\ LinkIsFresh'
  BY <1>4 DEF IInv, TypeOK, Write, Goto, WriterIsLatest, LinkIsFresh
<1>9. ChainIntact'
  <2> SUFFICES ASSUME NEW i \in 1..Len(lines')
               PROVE  /\ Parses(lines'[i])
                      /\ lines'[i].prev = IF i = 1 THEN Genesis ELSE lines'[i - 1].id
    BY DEF ChainIntact, Verifies
  <2>1. CASE i \in 1..Len(lines)
    BY <2>1, <1>2 DEF IInv, ChainIntact, Verifies
  <2>2. CASE i = Len(lines) + 1
    <3>1. lines = <<>> <=> i = 1
      BY <2>2, <1>1, <1>2
    <3>2. i # 1 => lines'[i - 1] = lines[Len(lines)]
      BY <2>2, <1>2
    <3>3. QED
      BY <3>1, <3>2, <2>2, <1>1, <1>2, <1>3 DEF Parses
  <2>3. QED
    BY <2>1, <2>2, <1>2
<1>10. QED
  BY <1>5, <1>6, <1>7, <1>8, <1>9 DEF IInv

\* Leaving append(), by return or by exception, and a restart change nothing
\* but who is inside.
LEMMA LeaveKeeps ==
    ASSUME OneSink, Faults = {}, IInv,
           Restart \/ \E w \in Writers : Return(w) \/ WriteRaises(w) \/ SyncRaises(w)
    PROVE  IInv'
<1> USE DEF IInv
<1>1. lines' = lines /\ today' = today /\ when' = when /\ rid' = rid /\ prev' = prev
  BY DEF Restart, Return, WriteRaises, SyncRaises
<1>2. CASE Restart
  <2>1. TypeOK'
    BY <1>1, <1>2 DEF TypeOK, Restart
  <2>2. Exclusive' /\ HasRecord' /\ WriterIsLatest' /\ LinkIsFresh'
    BY <1>2 DEF Restart, Exclusive, HasRecord, WriterIsLatest, LinkIsFresh
  <2>3. QED
    BY <1>1, <2>1, <2>2 DEF AllWhole, NoFutureLine, ChainIntact
<1>3. ASSUME NEW w \in Writers, Return(w) \/ WriteRaises(w) \/ SyncRaises(w)
      PROVE  IInv'
  <2>1. /\ pc[w] # "idle"
        /\ pc' = [pc EXCEPT ![w] = "idle"]
        /\ lock' = [lock EXCEPT ![SinkOf[w]] = Free]
        /\ issued' = issued
    BY <1>3 DEF Return, WriteRaises, SyncRaises, Goto, Release
  <2>2. acked' \subseteq Ids
    BY <1>3 DEF Return, WriteRaises, SyncRaises, TypeOK, HasRecord
  <2>3. \A v \in Writers : pc'[v] = "idle"
    BY <2>1, Alone DEF TypeOK
  <2>4. TypeOK'
    BY <1>1, <2>1, <2>2 DEF TypeOK
  <2>5. Exclusive' /\ HasRecord' /\ WriterIsLatest' /\ LinkIsFresh'
    BY <2>3 DEF Exclusive, HasRecord, WriterIsLatest, LinkIsFresh
  <2>6. QED
    BY <1>1, <2>4, <2>5 DEF AllWhole, NoFutureLine, ChainIntact
<1>4. QED
  BY <1>2, <1>3

LEMMA ClockKeeps ==
    ASSUME Faults = {}, IInv, Midnight \/ ClockSetBack
    PROVE  IInv'
<1> USE DEF IInv
<1>1. Midnight
  BY DEF ClockSetBack
<1>2. TypeOK'
  BY <1>1, BoundsAssumption DEF Midnight, TypeOK, writerVars
<1>3. today \in Nat /\ today' = today + 1
  BY <1>1, BoundsAssumption DEF Midnight, TypeOK
<1>4. lines \in Seq(Line) /\ \A i \in 1..Len(lines) : lines[i].file \in Nat
  <2>1. lines \in Seq(Line)
    BY DEF TypeOK
  <2>2. \A i \in 1..Len(lines) : lines[i] \in Line
    BY <2>1
  <2>3. QED
    BY <2>1, <2>2, BoundsAssumption DEF Line
<1>5. NoFutureLine' /\ WriterIsLatest'
  BY <1>1, <1>3, <1>4 DEF Midnight, writerVars, NoFutureLine, WriterIsLatest, TypeOK
<1>6. Exclusive' /\ HasRecord' /\ AllWhole' /\ LinkIsFresh' /\ ChainIntact'
  BY <1>1 DEF Midnight, writerVars, Exclusive, HasRecord, AllWhole, LinkIsFresh, ChainIntact
<1>7. QED
  BY <1>2, <1>5, <1>6

LEMMA StepIInv == OneSink /\ Faults = {} /\ IInv /\ [Next]_vars => IInv'
<1> SUFFICES ASSUME OneSink, Faults = {}, IInv, [Next]_vars PROVE IInv'
  OBVIOUS
<1>1. CASE Next
  BY <1>1, BeginKeeps, LinkKeeps, WriteKeeps, LeaveKeeps, ClockKeeps DEF Next
<1>2. CASE UNCHANGED vars
  BY <1>2 DEF vars, IInv, TypeOK, Exclusive, HasRecord, AllWhole, NoFutureLine,
              WriterIsLatest, LinkIsFresh, ChainIntact
<1>3. QED
  BY <1>1, <1>2

-----------------------------------------------------------------------------
LEMMA InvariantHolds ==
    ASSUME OneSink, Faults = {}
    PROVE  Spec => []IInv
BY InitIInv, StepIInv, PTL DEF Spec

\* With one sink and a clean environment the trail verifies at every moment,
\* for any number of threads: verify_chain() reports a break only if someone
\* else touched the directory.
THEOREM OneSinkKeepsChain ==
    ASSUME OneSink, Faults = {}
    PROVE  Spec => []ChainIntact
<1>1. IInv => ChainIntact
  BY DEF IInv
<1>2. QED
  BY <1>1, InvariantHolds, PTL

-----------------------------------------------------------------------------
\* The record of a writer that has written, and of every call that returned, is
\* in the directory.
Recorded(id) == \E i \in 1..Len(lines) : lines[i].id = id
AckInv ==
    /\ \A id \in acked : Recorded(id)
    /\ \A w \in Writers : pc[w] = "written" => Recorded(rid[w])

LEMMA StepAckInv ==
    ASSUME OneSink, Faults = {}, IInv, AckInv, [Next]_vars
    PROVE  AckInv'
<1> USE DEF AckInv
<1>1. CASE lines' = lines
  <2>1. \A id : Recorded(id) => Recorded(id)'
    BY <1>1 DEF Recorded
  <2>2. \A id \in acked' : id \in acked \/ \E w \in Writers : pc[w] = "written" /\ id = rid[w]
    BY DEF Next, vars, writerVars, Begin, LinkToTail, Write, Return, WriteRaises,
           SyncRaises, Restart, Midnight, ClockSetBack
  <2>3. \A w \in Writers : pc'[w] = "written" =>
           (pc[w] = "written" /\ rid'[w] = rid[w]) \/ Write(w)
    BY DEF Next, vars, writerVars, Begin, LinkToTail, Write, Return, WriteRaises,
           SyncRaises, Restart, Midnight, ClockSetBack, Goto, IInv, TypeOK
  <2>4. \A w \in Writers : ~Write(w)
    <3> SUFFICES ASSUME NEW w \in Writers, Write(w) PROVE FALSE
      OBVIOUS
    <3>1. lines' = Append(lines, Entry(w, "whole")) /\ Entry(w, "whole") \in Line
      BY WriteAppends
    <3>2. lines \in Seq(Line)
      BY DEF IInv, TypeOK
    <3>3. Len(lines') = Len(lines) + 1
      BY <3>1, <3>2, AppendProperties
    <3>4. QED
      BY <3>2, <3>3, <1>1
  <2>5. QED
    BY <2>1, <2>2, <2>3, <2>4
<1>2. CASE lines' # lines
  <2>1. PICK w \in Writers : Write(w)
    BY <1>2 DEF Next, vars, Begin, LinkToTail, Return, WriteRaises, SyncRaises,
                Restart, Midnight, ClockSetBack
  <2>2. /\ lines' = Append(lines, Entry(w, "whole"))
        /\ Entry(w, "whole") \in Line
        /\ lines \in Seq(Line)
    BY <2>1, WriteAppends DEF IInv, TypeOK
  <2>3. /\ Len(lines') = Len(lines) + 1
        /\ \A i \in 1..Len(lines) : lines'[i] = lines[i]
        /\ lines'[Len(lines) + 1].id = rid[w]
        /\ Len(lines) \in Nat
    BY <2>2, AppendProperties DEF Entry
  <2>4. \A id : Recorded(id) \/ id = rid[w] => Recorded(id)'
    BY <2>3 DEF Recorded
  <2>5. /\ acked' = acked
        /\ rid' = rid
        /\ \A v \in Writers : pc'[v] = "written" => v = w \/ pc[v] = "written"
    BY <2>1 DEF Write, Goto, IInv, TypeOK
  <2>6. QED
    BY <2>4, <2>5
<1>3. QED
  BY <1>1, <1>2

\* With one sink and a clean environment an append() that returned left a
\* record an auditor can read, whatever the other threads did since.
THEOREM AcknowledgedIsReadable ==
    ASSUME OneSink, Faults = {}
    PROVE  Spec => []AckedReadable
<1>1. Init => AckInv
  BY DEF Init, AckInv
<1>2. OneSink /\ Faults = {} /\ IInv /\ AckInv /\ [Next]_vars => AckInv'
  BY StepAckInv
<1>3. IInv /\ AckInv => AckedReadable
  <2>1. IInv => lines \in Seq(Line)
    BY DEF IInv, TypeOK
  <2>2. QED
    BY <2>1 DEF IInv, AckInv, Recorded, AllWhole, AckedReadable, Parses
<1>4. QED
  BY <1>1, <1>2, <1>3, InvariantHolds, PTL DEF Spec

-----------------------------------------------------------------------------
\* With one sink and a clean environment the directory, read in file order, is
\* the abstract trail: each step leaves it alone or adds one linked record.
THEOREM SinkImplementsTrail ==
    ASSUME OneSink, Faults = {}
    PROVE  Spec => ImplementsTrail
<1> DEFINE view(ls) == [i \in 1..Len(ls) |-> [id |-> ls[i].id, prev |-> ls[i].prev]]
<1>1. Init => Promise!Init
  BY DEF Init, Promise!Init
<1>2. IInv /\ [Next]_vars => [Promise!Next]_(view(lines))
  <2> SUFFICES ASSUME IInv, [Next]_vars, lines' # lines
               PROVE  Promise!Next
    OBVIOUS
  <2>1. PICK w \in Writers : Write(w)
    BY DEF Next, vars, Begin, LinkToTail, Return, WriteRaises, SyncRaises,
           Restart, Midnight, ClockSetBack
  <2> DEFINE new == Entry(w, "whole")
  <2> DEFINE n == Len(lines)
  <2>2. /\ lines' = Append(lines, new)
        /\ new \in Line
        /\ lines \in Seq(Line)
        /\ new.prev = IF lines = <<>> THEN Genesis ELSE lines[n].id
    BY <2>1, WriteAppends DEF IInv, TypeOK, Entry
  <2> HIDE DEF new
  <2>3. /\ n \in Nat
        /\ Len(lines') = n + 1
        /\ \A i \in 1..n : lines'[i] = lines[i]
        /\ lines'[n + 1] = new
    BY <2>2, AppendProperties
  <2> DEFINE link == [id |-> new.id, prev |-> new.prev]
  <2> DEFINE Link == [id : Ids, prev : Hashes]
  <2>4. view(lines) \in Seq(Link) /\ Len(view(lines)) = n /\ link \in Link
    <3>1. \A i \in 1..n : lines[i] \in Line
      BY <2>2
    <3>2. \A line \in Line : [id |-> line.id, prev |-> line.prev] \in Link
      BY DEF Line
    <3>3. view(lines) \in [1..n -> Link] /\ link \in Link
      BY <2>2, <3>1, <3>2
    <3>4. QED
      BY <2>3, <3>3
  <2> DEFINE longer == Append(view(lines), link)
  <2>5. /\ longer \in Seq(Link)
        /\ Len(longer) = n + 1
        /\ \A i \in 1..n : longer[i] = view(lines)[i]
        /\ longer[n + 1] = link
    <3> HIDE DEF view, link, Link, n
    <3>1. QED
      BY <2>4, AppendProperties
  <2> HIDE DEF longer
  <2>6. longer = [i \in 1..(n + 1) |-> longer[i]]
    BY <2>5
  <2>7. \A i \in 1..(n + 1) :
           longer[i] = [id |-> lines'[i].id, prev |-> lines'[i].prev]
    <3> SUFFICES ASSUME NEW i \in 1..(n + 1)
                 PROVE  longer[i] = [id |-> lines'[i].id, prev |-> lines'[i].prev]
      OBVIOUS
    <3>1. CASE i \in 1..n
      <4>1. lines'[i] = lines[i] /\ longer[i] = view(lines)[i]
        BY <3>1, <2>3, <2>5
      <4>2. view(lines)[i] = [id |-> lines[i].id, prev |-> lines[i].prev]
        BY <3>1
      <4>3. QED
        BY <4>1, <4>2
    <3>2. CASE i = n + 1
      BY <3>2, <2>3, <2>5
    <3>3. QED
      BY <3>1, <3>2, <2>3
  <2>8. longer = view(lines')
    BY <2>3, <2>6, <2>7
  <2>9. link.prev = IF view(lines) = <<>> THEN Genesis ELSE view(lines)[Len(view(lines))].id
    <3>1. view(lines) = <<>> <=> lines = <<>>
      <4>1. lines = <<>> <=> n = 0
        BY <2>2
      <4> HIDE DEF view, Link, n
      <4>2. view(lines) = <<>> <=> n = 0
        BY <2>4
      <4>3. QED
        BY <4>1, <4>2
    <3>2. lines # <<>> => n \in 1..n
      BY <2>2, <2>3
    <3>3. n \in 1..n => view(lines)[n].id = lines[n].id
      OBVIOUS
    <3>4. QED
      BY <2>2, <2>4, <3>1, <3>2, <3>3
  <2>10. view(lines') = Append(view(lines), [id |-> new.id, prev |-> link.prev])
    BY <2>8 DEF longer
  <2>11. new.id \in Ids
    BY <2>2 DEF Line
  <2>12. QED
    BY <2>9, <2>10, <2>11 DEF Promise!Next, Promise!Extend, Promise!Tip
<1>3. QED
  BY <1>1, <1>2, InvariantHolds, PTL DEF Spec, ImplementsTrail, Promise!Spec

-----------------------------------------------------------------------------
(* With any number of sinks over the directory and a clock, a disk and files
   that fail. *)

\* A record that is being appended is that of one call, and not reported yet.
Numbered ==
    /\ acked \subseteq 1..issued
    /\ \A w \in Writers : rid[w] <= issued
    /\ \A w \in Writers : pc[w] # "idle" =>
          /\ rid[w] \in Ids \ acked
          /\ \A v \in Writers \ {w} : pc[v] # "idle" => rid[v] # rid[w]

Written(ls) == {ls[i].id : i \in DOMAIN ls}
Links(ls) == {Genesis} \cup Written(ls)

\* What a thread is going to name as the record before was written.
LinkIsWritten == \A w \in Writers : pc[w] = "linked" => prev[w] \in Links(lines)

\* A line that lacks only its newline was never reported and will not be.
BareIsUnreported ==
    \A i \in DOMAIN lines : lines[i].form = "bare" =>
        /\ lines[i].id \in (1..issued) \ acked
        /\ \A w \in Writers : pc[w] # "idle" => rid[w] # lines[i].id

\* Records that are reported as durable, or about to be.
Reported == acked \cup {rid[w] : w \in {v \in Writers : pc[v] = "written"}}

Readable(ls) == {ls[i].id : i \in {j \in DOMAIN ls : Parses(ls[j])}}
Glued(ls) == {i \in DOMAIN ls : ls[i].form = "garbage"}

\* Each of them that cannot be read back has a line of its own that was glued.
LostAreGlued == Cardinality(Reported \ Readable(lines)) <= Cardinality(Glued(lines))

FaultInv ==
    /\ TypeOK /\ Numbered
    /\ LinkIsWritten /\ NoDanglingLink
    /\ BareIsUnreported /\ LostAreGlued

LEMMA GluedAreFinite ==
    ASSUME NEW ls \in Seq(Line)
    PROVE  IsFiniteSet(Glued(ls)) /\ Cardinality(Glued(ls)) \in Nat
<1>1. IsFiniteSet(1..Len(ls)) /\ DOMAIN ls = 1..Len(ls)
  BY FS_Interval
<1>2. Glued(ls) \in SUBSET (1..Len(ls))
  BY <1>1 DEF Glued
<1>3. QED
  BY <1>1, <1>2, FS_Subset, FS_CardinalityType

\* A write goes behind an unfinished line or between two lines.
LEMMA WriteAtPlaces ==
    ASSUME NEW ls \in Seq(Line), NEW new \in Line
    PROVE  \/ \E k \in 1..Len(ls) :
                 /\ ~Terminated(ls[k])
                 /\ WriteAt(ls, new) =
                      [ls EXCEPT ![k].form = IF Terminated(new) THEN "garbage" ELSE "torn"]
           \/ \E k \in 0..Len(ls) :
                 WriteAt(ls, new) =
                   [i \in 1..(Len(ls) + 1) |->
                      IF i <= k THEN ls[i] ELSE IF i = k + 1 THEN new ELSE ls[i - 1]]
<1> DEFINE S == {i \in DOMAIN ls : ls[i].file <= new.file}
<1>1. Len(ls) \in Nat /\ DOMAIN ls = 1..Len(ls)
  OBVIOUS
<1>2. IsFiniteSet(1..Len(ls)) /\ Cardinality(1..Len(ls)) = Len(ls)
  BY <1>1, FS_Interval
<1>3. S \in SUBSET (1..Len(ls))
  BY <1>1
<1>4. Cardinality(S) \in Nat /\ Cardinality(S) <= Len(ls)
  BY <1>2, <1>3, FS_Subset, FS_CardinalityType
<1>5. EndOf(ls, new.file) = Cardinality(S)
  BY DEF EndOf
<1> HIDE DEF S
<1>6. PICK k \in 0..Len(ls) : k = EndOf(ls, new.file)
  <2>1. Cardinality(S) \in 0..Len(ls)
    BY <1>1, <1>4
  <2>2. QED
    BY <1>5, <2>1
<1>7. CASE k > 0 /\ ls[k].file = new.file /\ ~Terminated(ls[k])
  <2>1. k \in 1..Len(ls)
    BY <1>1, <1>6, <1>7
  <2>2. WriteAt(ls, new) =
          [ls EXCEPT ![k].form = IF Terminated(new) THEN "garbage" ELSE "torn"]
    BY <1>6, <1>7 DEF WriteAt
  <2>3. QED
    BY <1>7, <2>1, <2>2
<1>8. CASE ~(k > 0 /\ ls[k].file = new.file /\ ~Terminated(ls[k]))
  <2>1. WriteAt(ls, new) =
          [i \in 1..(Len(ls) + 1) |->
             IF i <= k THEN ls[i] ELSE IF i = k + 1 THEN new ELSE ls[i - 1]]
    BY <1>6, <1>8 DEF WriteAt
  <2>2. QED
    BY <1>6, <2>1
<1>9. QED
  BY <1>7, <1>8

\* Whatever a write does to the directory: every record stays written, what can
\* no longer be read lacked its newline, and an entry that went in whole can be
\* read or has cost one glued line.
Stems(line, ls) ==
    \E j \in DOMAIN ls : /\ line.id = ls[j].id /\ line.prev = ls[j].prev
                         /\ line.form = "bare" => ls[j].form = "bare"
IsBare(id, ls) == \E j \in DOMAIN ls : ls[j].form = "bare" /\ ls[j].id = id

WriteDoes(ls, new, then) ==
    /\ then \in Seq(Line)
    /\ Written(ls) \subseteq Written(then)
    /\ \A i \in DOMAIN then : then[i] = new \/ Stems(then[i], ls)
    /\ \A id \in Readable(ls) \ Readable(then) : IsBare(id, ls)
    /\ Cardinality(Glued(ls)) <= Cardinality(Glued(then))
    /\ new.form = "whole" =>
          \/ new.id \in Readable(then)
          \/ Cardinality(Glued(then)) = Cardinality(Glued(ls)) + 1

LEMMA GlueDoes ==
    ASSUME NEW ls \in Seq(Line), NEW new \in Line, NEW k \in 1..Len(ls), ~Terminated(ls[k]),
           NEW then,
           then = [ls EXCEPT ![k].form = IF Terminated(new) THEN "garbage" ELSE "torn"]
    PROVE  WriteDoes(ls, new, then)
<1> DEFINE n == Len(ls)
<1>1. PICK g \in {"garbage", "torn"} :
         /\ g = IF Terminated(new) THEN "garbage" ELSE "torn"
         /\ then = [ls EXCEPT ![k].form = g]
  OBVIOUS
<1>2. n \in Nat /\ DOMAIN ls = 1..n /\ \A i \in 1..n : ls[i] \in Line
  OBVIOUS
<1>3. /\ DOMAIN then = 1..n /\ then = [i \in 1..n |-> then[i]]
      /\ then[k] = [ls[k] EXCEPT !.form = g]
      /\ \A i \in 1..n : i # k => then[i] = ls[i]
  BY <1>1, <1>2
<1>4. ls[k] \in Line
  BY <1>2
<1>5. then[k] \in Line /\ then[k].form = g /\ then[k].id = ls[k].id /\ then[k].prev = ls[k].prev
  BY <1>3, <1>4 DEF Line, Forms
<1>6. then \in Seq(Line) /\ Len(then) = n
  <2>1. then \in [1..n -> Line]
    BY <1>2, <1>3, <1>5
  <2>2. QED
    BY <1>2, <2>1
<1>7. ls[k].form \in {"bare", "torn"}
  BY <1>2 DEF Terminated, Line, Forms
<1>8. \A i \in 1..n : then[i].id = ls[i].id /\ then[i].prev = ls[i].prev
  BY <1>3, <1>5
<1>9. Written(ls) \subseteq Written(then)
  BY <1>2, <1>3, <1>8 DEF Written
<1>10. \A i \in DOMAIN then : Stems(then[i], ls)
  BY <1>2, <1>3, <1>5, <1>8 DEF Stems
<1>11. ASSUME NEW id \in Readable(ls) \ Readable(then)
       PROVE  IsBare(id, ls)
  <2>1. PICK j \in 1..n : Parses(ls[j]) /\ ls[j].id = id
    BY <1>2 DEF Readable
  <2>2. j = k
    BY <1>3, <1>11, <2>1 DEF Readable
  <2>3. QED
    BY <1>2, <1>7, <2>1, <2>2 DEF Parses, IsBare
<1>12. CASE g = "garbage"
  <2>1. Glued(then) = Glued(ls) \cup {k} /\ k \notin Glued(ls)
    BY <1>2, <1>3, <1>5, <1>7, <1>12 DEF Glued
  <2>2. Cardinality(Glued(then)) = Cardinality(Glued(ls)) + 1
    BY <2>1, GluedAreFinite, FS_AddElement
  <2>3. Cardinality(Glued(ls)) <= Cardinality(Glued(then))
    BY <2>2, GluedAreFinite
  <2>4. QED
    BY <1>6, <1>9, <1>10, <1>11, <2>2, <2>3 DEF WriteDoes
<1>13. CASE g = "torn"
  <2>1. Glued(then) = Glued(ls)
    BY <1>2, <1>3, <1>5, <1>7, <1>13 DEF Glued
  <2>2. new.form # "whole"
    BY <1>1, <1>13 DEF Terminated
  <2>3. Cardinality(Glued(ls)) <= Cardinality(Glued(then))
    BY <2>1, GluedAreFinite
  <2>4. QED
    BY <1>6, <1>9, <1>10, <1>11, <2>2, <2>3 DEF WriteDoes
<1>14. QED
  BY <1>12, <1>13

LEMMA InsertDoes ==
    ASSUME NEW ls \in Seq(Line), NEW new \in Line, NEW k \in 0..Len(ls), NEW then,
           then = [i \in 1..(Len(ls) + 1) |->
                     IF i <= k THEN ls[i] ELSE IF i = k + 1 THEN new ELSE ls[i - 1]]
    PROVE  WriteDoes(ls, new, then)
<1>1. PICK n : n = Len(ls) /\ n \in Nat /\ DOMAIN ls = 1..n /\ \A i \in 1..n : ls[i] \in Line
  OBVIOUS
<1>2. DOMAIN then = 1..(n + 1)
  BY <1>1
<1>3. /\ \A i \in 1..n : i <= k => i \in 1..(n + 1) /\ then[i] = ls[i]
      /\ \A i \in 1..n : ~(i <= k) => i + 1 \in 1..(n + 1) /\ then[i + 1] = ls[i]
      /\ k + 1 \in 1..(n + 1) /\ then[k + 1] = new
  BY <1>1
<1>4. \A i \in 1..(n + 1) : \/ then[i] = new
                            \/ \E j \in 1..n : then[i] = ls[j]
  <2> SUFFICES ASSUME NEW i \in 1..(n + 1), then[i] # new
               PROVE  \E j \in 1..n : then[i] = ls[j]
    OBVIOUS
  <2>1. CASE i <= k
    BY <1>1, <2>1
  <2>2. CASE ~(i <= k)
    <3>1. i # k + 1
      BY <1>3
    <3>2. i - 1 \in 1..n /\ then[i] = ls[i - 1]
      BY <1>1, <2>2, <3>1
    <3>3. QED
      BY <3>2
  <2>3. QED
    BY <2>1, <2>2
<1>5. then \in Seq(Line)
  <2>1. \A i \in 1..(n + 1) : then[i] \in Line
    BY <1>1, <1>4
  <2>2. then \in [1..(n + 1) -> Line]
    BY <1>1, <2>1
  <2>3. QED
    BY <1>1, <2>2
<1>6. \A j \in 1..n : \E i \in 1..(n + 1) : then[i] = ls[j]
  BY <1>1, <1>3
<1>7. Written(ls) \subseteq Written(then)
  BY <1>1, <1>2, <1>6 DEF Written
<1>8. Readable(ls) \subseteq Readable(then)
  <2> SUFFICES ASSUME NEW id \in Readable(ls) PROVE id \in Readable(then)
    OBVIOUS
  <2>1. PICK j \in 1..n : Parses(ls[j]) /\ ls[j].id = id
    BY <1>1 DEF Readable
  <2>2. PICK i \in 1..(n + 1) : then[i] = ls[j]
    BY <1>6
  <2>3. QED
    BY <1>2, <2>1, <2>2 DEF Readable
<1>9. Cardinality(Glued(ls)) <= Cardinality(Glued(then))
  <2> DEFINE f == [i \in Glued(ls) |-> IF i <= k THEN i ELSE i + 1]
  <2>1. \A i \in Glued(ls) : i \in 1..n
    BY <1>1 DEF Glued
  <2>2. \A i \in Glued(ls) : f[i] \in Glued(then)
    BY <1>1, <1>2, <1>3 DEF Glued
  <2>3. \A i, j \in Glued(ls) : f[i] = f[j] => i = j
    BY <1>1, <2>1
  <2>4. f \in Injection(Glued(ls), Glued(then))
    BY <2>2, <2>3 DEF Injection, IsInjective
  <2>5. QED
    BY <1>5, <2>4, GluedAreFinite, FS_Injection
<1>10. new.form = "whole" => new.id \in Readable(then)
  BY <1>2, <1>3 DEF Readable, Parses
<1>11. \A i \in DOMAIN then : then[i] = new \/ Stems(then[i], ls)
  BY <1>1, <1>2, <1>4 DEF Stems
<1>12. QED
  BY <1>5, <1>7, <1>8, <1>9, <1>10, <1>11 DEF WriteDoes

LEMMA WriteAtDoes ==
    ASSUME NEW ls \in Seq(Line), NEW new \in Line
    PROVE  WriteDoes(ls, new, WriteAt(ls, new))
BY WriteAtPlaces, GlueDoes, InsertDoes

-----------------------------------------------------------------------------
\* A nonempty set of places has a last one.
LEMMA LastPlace ==
    ASSUME NEW n \in Nat, NEW S \in SUBSET (1..n), S # {}
    PROVE  \E m \in S : \A i \in S : i <= m
<1> DEFINE Tails == {i..n : i \in S}
<1> DEFINE Less == StrictSubsetOrdering(Nat)
<1>1. Tails \subseteq FiniteSubsetsOf(Nat) /\ Tails # {}
  <2>1. ASSUME NEW i \in S PROVE i..n \in FiniteSubsetsOf(Nat)
    <3>1. IsFiniteSet(i..n) /\ i..n \in SUBSET Nat
      BY FS_Interval
    <3>2. QED
      BY <3>1 DEF FiniteSubsetsOf
  <2>2. QED
    BY <2>1
<1>2. PICK x \in Tails : \A y \in Tails : <<y, x>> \notin Less
  <2>1. IsWellFoundedOn(Less, FiniteSubsetsOf(Nat))
    BY FS_StrictSubsetOrderingWellFounded
  <2> HIDE DEF Tails, Less
  <2>2. QED
    BY <1>1, <2>1, WFMin
<1>3. PICK m \in S : x = m..n
  OBVIOUS
<1>4. ASSUME NEW i \in S, i > m PROVE FALSE
  <2>1. i..n \subseteq m..n /\ m \notin i..n /\ m \in m..n
    BY <1>4
  <2>2. i..n \in SUBSET Nat /\ m..n \in SUBSET Nat /\ i..n # m..n
    BY <2>1
  <2>3. <<i..n, m..n>> \in Less
    BY <2>1, <2>2 DEF StrictSubsetOrdering
  <2>4. QED
    BY <1>2, <1>3, <2>3
<1>5. QED
  BY <1>4

\* Whichever files cannot be opened, _last_hash names a record there is.
LEMMA LastHashIsWritten ==
    ASSUME NEW ls \in Seq(Line), NEW skipped
    PROVE  LastHash(ls, skipped) \in Links(ls)
<1> DEFINE readable == {i \in DOMAIN ls : ls[i].file \notin skipped}
<1> DEFINE last == CHOOSE i \in readable : \A j \in readable : j <= i
<1>1. Len(ls) \in Nat /\ readable \in SUBSET (1..Len(ls))
  OBVIOUS
<1>2. CASE readable # {} /\ Parses(ls[last])
  <2>1. \E m \in readable : \A i \in readable : i <= m
    BY <1>1, <1>2, LastPlace
  <2>2. last \in readable
    BY <2>1
  <2>3. LastHash(ls, skipped) = ls[last].id
    BY <1>2 DEF LastHash
  <2>4. QED
    BY <2>2, <2>3 DEF Links, Written
<1>3. CASE ~(readable # {} /\ Parses(ls[last]))
  BY <1>3 DEF LastHash, Links
<1>4. QED
  BY <1>2, <1>3

LEMMA WrittenAre ==
    ASSUME NEW ls \in Seq(Line)
    PROVE  Links(ls) \subseteq Hashes
<1>1. \A i \in DOMAIN ls : ls[i] \in Line
  OBVIOUS
<1>2. \A line \in Line : line.id \in Ids
  BY DEF Line
<1>3. QED
  BY <1>1, <1>2 DEF Links, Written, Hashes

LEMMA ReportedAreFinite ==
    ASSUME TypeOK, Numbered
    PROVE  IsFiniteSet(Reported) /\ Reported \subseteq Ids
<1>1. Reported \in SUBSET Ids
  BY DEF Reported, Numbered, TypeOK
<1>2. IsFiniteSet(Ids)
  BY BoundsAssumption, FS_Interval DEF Ids
<1>3. QED
  BY <1>1, <1>2, FS_Subset

LEMMA FaultInit == Init => FaultInv
<1> SUFFICES ASSUME Init PROVE FaultInv
  OBVIOUS
<1>1. TypeOK
  BY InitIInv DEF IInv
<1>2. lines = <<>> /\ DOMAIN lines = {}
  BY DEF Init
<1>3. Numbered /\ LinkIsWritten
  BY DEF Init, Numbered, LinkIsWritten
<1>4. NoDanglingLink /\ BareIsUnreported
  BY <1>2 DEF NoDanglingLink, BareIsUnreported
<1>5. Reported = {} /\ Glued(lines) = {}
  BY <1>2 DEF Reported, Glued, Init
<1>6. Reported \ Readable(lines) = {}
  BY <1>5
<1>7. LostAreGlued
  BY <1>5, <1>6, FS_EmptySet DEF LostAreGlued
<1>8. QED
  BY <1>1, <1>3, <1>4, <1>7 DEF FaultInv

\* A step that writes nothing and reports nothing but what was about to be.
LEMMA QuietKeeps ==
    ASSUME FaultInv, UNCHANGED lines, TypeOK', Numbered', LinkIsWritten',
           Reported' \subseteq Reported, acked' \subseteq Reported, issued <= issued',
           \A w \in Writers : pc'[w] # "idle" =>
              (pc[w] # "idle" /\ rid'[w] = rid[w]) \/ rid'[w] = issued + 1
    PROVE  FaultInv'
<1>1. lines \in Seq(Line) /\ issued \in Nat /\ issued' \in Nat
  BY DEF FaultInv, TypeOK
<1>2. NoDanglingLink'
  BY DEF FaultInv, NoDanglingLink
<1>3. BareIsUnreported'
  <2> SUFFICES ASSUME NEW i \in DOMAIN lines, lines[i].form = "bare"
               PROVE  /\ lines[i].id \in (1..issued') \ acked'
                      /\ \A w \in Writers : pc'[w] # "idle" => rid'[w] # lines[i].id
    BY DEF BareIsUnreported
  <2>1. /\ lines[i].id \in (1..issued) \ acked
        /\ \A w \in Writers : pc[w] # "idle" => rid[w] # lines[i].id
    BY DEF FaultInv, BareIsUnreported
  <2>2. lines[i].id \notin Reported
    BY <2>1 DEF Reported
  <2>3. QED
    BY <1>1, <2>1, <2>2
<1>4. LostAreGlued'
  <2>1. IsFiniteSet(Reported \ Readable(lines))
    BY ReportedAreFinite, FS_Subset DEF FaultInv
  <2>2. Readable(lines)' = Readable(lines) /\ Glued(lines)' = Glued(lines)
    BY DEF Readable, Glued
  <2>3. PICK S, T : S = Reported \ Readable(lines) /\ T = Reported' \ Readable(lines)
    OBVIOUS
  <2>4. T \in SUBSET S /\ IsFiniteSet(S)
    BY <2>1, <2>3
  <2>5. /\ Cardinality(T) <= Cardinality(S)
        /\ Cardinality(T) \in Nat /\ Cardinality(S) \in Nat
    BY <2>4, FS_Subset, FS_CardinalityType
  <2>6. /\ Cardinality(S) <= Cardinality(Glued(lines))
        /\ Cardinality(Glued(lines)) \in Nat
    BY <1>1, <2>3, GluedAreFinite DEF FaultInv, LostAreGlued
  <2>7. Cardinality(T) <= Cardinality(Glued(lines))
    BY <2>5, <2>6
  <2>8. QED
    BY <2>2, <2>3, <2>7 DEF LostAreGlued
<1>5. QED
  BY <1>2, <1>3, <1>4 DEF FaultInv

\* A step that writes, whole or in part.
LEMMA WritingKeeps ==
    ASSUME FaultInv, NEW w \in Writers, pc[w] = "linked",
           NEW form \in {"whole", "bare", "torn"},
           lines' = WriteAt(lines, Entry(w, form)),
           NEW at, pc' = [pc EXCEPT ![w] = at],
           form = "whole" => at = "written", form # "whole" => at = "idle",
           lock' \in [Sinks -> Writers \cup {Free}],
           UNCHANGED <<today, when, rid, prev, issued, acked>>
    PROVE  FaultInv'
<1>1. PICK new : new = Entry(w, form)
  OBVIOUS
<1>2. /\ new.id = rid[w] /\ new.prev = prev[w] /\ new.form = form /\ new.file = when[w]
      /\ new = [file |-> when[w], id |-> rid[w], prev |-> prev[w], form |-> form]
  BY <1>1 DEF Entry
<1>3. new \in Line /\ lines \in Seq(Line)
  BY <1>2 DEF FaultInv, TypeOK, Numbered, Line, Forms
<1>4. PICK then : then = lines' /\ WriteDoes(lines, new, then)
  BY <1>1, <1>3, WriteAtDoes
<1>5. TypeOK'
  BY <1>4 DEF FaultInv, TypeOK, WriteDoes
<1>6. /\ pc'[w] = at /\ \A v \in Writers \ {w} : pc'[v] = pc[v]
      /\ at \in {"written", "idle"}
  BY DEF FaultInv, TypeOK
<1>7. Numbered'
  BY <1>6 DEF FaultInv, Numbered
<1>8. Links(lines) \subseteq Links(then)
  BY <1>4 DEF WriteDoes, Links
<1>9. LinkIsWritten'
  BY <1>4, <1>6, <1>8 DEF FaultInv, LinkIsWritten
<1>10. NoDanglingLink'
  <2>1. \A i \in DOMAIN lines : lines[i].prev \in Links(lines)
    BY DEF FaultInv, NoDanglingLink, Links, Written
  <2>2. new.prev \in Links(lines)
    BY <1>2 DEF FaultInv, LinkIsWritten
  <2>3. \A i \in DOMAIN then : then[i].prev \in Links(lines)
    BY <1>4, <2>1, <2>2 DEF WriteDoes, Stems
  <2>4. \A i \in DOMAIN then : then[i].prev \in Links(then)
    BY <1>8, <2>3
  <2>5. QED
    BY <1>4, <2>4 DEF NoDanglingLink, Links, Written
<1>11. BareIsUnreported'
  <2> SUFFICES ASSUME NEW i \in DOMAIN then, then[i].form = "bare"
               PROVE  /\ then[i].id \in (1..issued) \ acked
                      /\ \A v \in Writers : pc'[v] # "idle" => rid[v] # then[i].id
    BY <1>4 DEF BareIsUnreported
  <2>1. CASE then[i] = new
    BY <1>2, <1>6, <2>1 DEF FaultInv, Numbered, Ids, TypeOK
  <2>2. CASE Stems(then[i], lines)
    <3>1. PICK j \in DOMAIN lines : then[i].id = lines[j].id /\ lines[j].form = "bare"
      BY <2>2 DEF Stems
    <3>2. QED
      BY <1>6, <3>1 DEF FaultInv, BareIsUnreported
  <2>3. QED
    BY <1>4, <2>1, <2>2 DEF WriteDoes
<1>12. LostAreGlued'
  <2>1. PICK S, T, R, B, C :
           /\ S = Reported \ Readable(lines) /\ T = Reported' \ Readable(then)
           /\ R = Readable(then) /\ B = Cardinality(Glued(lines))
           /\ C = Cardinality(Glued(then))
    OBVIOUS
  <2>2. /\ IsFiniteSet(S) /\ Cardinality(S) \in Nat /\ Cardinality(S) <= B
        /\ B \in Nat /\ C \in Nat
    <3>1. S \in SUBSET Reported
      BY <2>1
    <3>2. IsFiniteSet(S)
      BY <3>1, ReportedAreFinite, FS_Subset DEF FaultInv
    <3>3. QED
      BY <1>3, <1>4, <2>1, <3>2, FS_CardinalityType, GluedAreFinite
        DEF FaultInv, LostAreGlued, WriteDoes
  <2>3. Reported' \subseteq Reported \cup {rid[w]}
    BY <1>6 DEF Reported
  <2>4. form # "whole" => Reported' \subseteq Reported
    BY <1>6 DEF Reported
  <2>5. ASSUME NEW id \in Reported, id \in Readable(lines) PROVE id \in R
    <3>1. ASSUME IsBare(id, lines) PROVE FALSE
      BY <2>5, <3>1 DEF IsBare, Reported, FaultInv, BareIsUnreported
    <3>2. QED
      BY <1>4, <2>1, <2>5, <3>1 DEF WriteDoes
  <2>6. T \subseteq S \cup {rid[w]} /\ (form # "whole" => T \subseteq S)
    BY <2>1, <2>3, <2>4, <2>5
  <2>7. B <= C /\ (form = "whole" => rid[w] \in R \/ C = B + 1)
    BY <1>2, <1>4, <2>1 DEF WriteDoes
  <2>8. CASE T \subseteq S
    <3>1. Cardinality(T) <= Cardinality(S) /\ Cardinality(T) \in Nat
      BY <2>2, <2>8, FS_Subset, FS_CardinalityType
    <3>2. QED
      BY <1>4, <2>1, <2>2, <2>7, <3>1 DEF LostAreGlued
  <2>9. CASE ~(T \subseteq S)
    <3>1. form = "whole" /\ rid[w] \in T /\ rid[w] \notin R
      BY <2>1, <2>6, <2>9
    <3>2. C = B + 1
      BY <2>7, <3>1
    <3>3. IsFiniteSet(S \cup {rid[w]}) /\ Cardinality(S \cup {rid[w]}) <= Cardinality(S) + 1
          /\ Cardinality(S \cup {rid[w]}) \in Nat
      BY <2>2, FS_AddElement, FS_CardinalityType
    <3>4. Cardinality(T) <= Cardinality(S \cup {rid[w]}) /\ Cardinality(T) \in Nat
      BY <2>6, <3>3, FS_Subset, FS_CardinalityType
    <3>5. QED
      BY <1>4, <2>1, <2>2, <3>2, <3>3, <3>4 DEF LostAreGlued
  <2>10. QED
    BY <2>8, <2>9
<1>13. QED
  BY <1>5, <1>7, <1>9, <1>10, <1>11, <1>12 DEF FaultInv

\* A thread that leaves append(), as it should or not, or that is at the clock.
LEMMA FaultStep == FaultInv /\ [Next]_vars => FaultInv'
<1> SUFFICES ASSUME FaultInv, [Next]_vars PROVE FaultInv'
  OBVIOUS
<1>0. /\ TypeOK /\ Numbered /\ LinkIsWritten /\ issued \in Nat /\ lines \in Seq(Line)
      /\ acked \subseteq Reported
  BY DEF FaultInv, TypeOK, Reported
<1>1. ASSUME NEW w \in Writers, Begin(w) PROVE FaultInv'
  <2>1. /\ pc[w] = "idle" /\ issued < MaxRecords /\ issued' = issued + 1
        /\ lock' = [lock EXCEPT ![SinkOf[w]] = w]
        /\ rid' = [rid EXCEPT ![w] = issued + 1] /\ when' = [when EXCEPT ![w] = today]
        /\ pc' = [pc EXCEPT ![w] = "locked"]
        /\ UNCHANGED <<lines, today, prev, acked>>
    BY <1>1 DEF Begin, Goto
  <2>2. TypeOK'
    <3>1. issued + 1 \in 0..MaxRecords /\ SinkOf[w] \in Sinks
      BY <1>0, <2>1, SinksAssumption, BoundsAssumption
    <3>2. /\ rid' \in [Writers -> 0..MaxRecords] /\ lock' \in [Sinks -> Writers \cup {Free}]
          /\ when' \in [Writers -> 1..Days]
      BY <1>0, <2>1, <3>1 DEF TypeOK
    <3>3. QED
      BY <1>0, <2>1, <3>1, <3>2 DEF TypeOK
  <2>3. /\ rid'[w] = issued + 1 /\ pc'[w] = "locked"
        /\ \A v \in Writers \ {w} : rid'[v] = rid[v] /\ pc'[v] = pc[v]
    BY <1>0, <2>1 DEF TypeOK
  <2>4. \A v \in Writers : rid[v] \in Nat
    BY <1>0 DEF TypeOK
  <2>5. issued + 1 \in Ids \ acked /\ acked \subseteq 1..issued'
    BY <1>0, <2>1, BoundsAssumption DEF Numbered, Ids
  <2>6. Numbered'
    BY <1>0, <2>1, <2>3, <2>4, <2>5 DEF Numbered
  <2>7. LinkIsWritten'
    BY <1>0, <2>1, <2>3 DEF LinkIsWritten
  <2>8. Reported' \subseteq Reported
    BY <2>1, <2>3 DEF Reported
  <2>9. QED
    BY <1>0, <2>1, <2>2, <2>3, <2>6, <2>7, <2>8, QuietKeeps
<1>2. ASSUME NEW w \in Writers, LinkToTail(w) PROVE FaultInv'
  <2>1. PICK skipped : prev' = [prev EXCEPT ![w] = LastHash(lines, skipped)]
    BY <1>2 DEF LinkToTail
  <2>2. /\ pc[w] = "locked" /\ pc' = [pc EXCEPT ![w] = "linked"]
        /\ UNCHANGED <<lines, today, lock, when, rid, issued, acked>>
    BY <1>2 DEF LinkToTail, Goto
  <2>3. LastHash(lines, skipped) \in Links(lines) /\ Links(lines) \subseteq Hashes
    BY <1>0, LastHashIsWritten, WrittenAre
  <2>4. TypeOK'
    BY <1>0, <2>1, <2>2, <2>3 DEF TypeOK
  <2>5. /\ prev'[w] = LastHash(lines, skipped) /\ pc'[w] = "linked"
        /\ \A v \in Writers \ {w} : prev'[v] = prev[v] /\ pc'[v] = pc[v]
    BY <1>0, <2>1, <2>2 DEF TypeOK
  <2>6. Numbered'
    BY <1>0, <2>2, <2>5 DEF Numbered
  <2>7. LinkIsWritten'
    BY <1>0, <2>2, <2>3, <2>5 DEF LinkIsWritten
  <2>8. Reported' \subseteq Reported
    BY <2>2, <2>5 DEF Reported
  <2>9. QED
    BY <1>0, <2>2, <2>4, <2>5, <2>6, <2>7, <2>8, QuietKeeps
<1>3. ASSUME NEW w \in Writers, pc[w] # "idle", Release(w), pc' = [pc EXCEPT ![w] = "idle"],
             UNCHANGED <<lines, today, when, rid, prev, issued>>,
             acked' \in {acked, acked \cup {rid[w]}},
             acked' # acked => pc[w] = "written"
      PROVE  FaultInv'
  <2>1. acked' \subseteq Reported
    BY <1>0, <1>3 DEF Reported
  <2>2. TypeOK'
    BY <1>0, <1>3, SinksAssumption DEF TypeOK, Release, Numbered
  <2>3. pc'[w] = "idle" /\ \A v \in Writers \ {w} : pc'[v] = pc[v]
    BY <1>0, <1>3 DEF TypeOK
  <2>4. rid[w] \in 1..issued
    BY <1>0, <1>3 DEF Numbered, Ids, TypeOK
  <2>5. Numbered'
    BY <1>0, <1>3, <2>3, <2>4 DEF Numbered
  <2>6. LinkIsWritten'
    BY <1>0, <1>3, <2>3 DEF LinkIsWritten
  <2>7. Reported' \subseteq Reported
    BY <1>3, <2>1, <2>3 DEF Reported
  <2>8. QED
    BY <1>0, <1>3, <2>1, <2>2, <2>3, <2>5, <2>6, <2>7, QuietKeeps
<1>4. ASSUME NEW w \in Writers, Return(w) PROVE FaultInv'
  BY <1>3, <1>4 DEF Return, Goto
<1>5. ASSUME NEW w \in Writers, SyncRaises(w) PROVE FaultInv'
  BY <1>3, <1>5 DEF SyncRaises, Goto
<1>6. ASSUME NEW w \in Writers, Write(w) PROVE FaultInv'
  BY <1>0, <1>6, WritingKeeps DEF Write, Goto, TypeOK
<1>7. ASSUME NEW w \in Writers, WriteRaises(w) PROVE FaultInv'
  <2>1. CASE lines' = lines
    BY <1>3, <1>7, <2>1 DEF WriteRaises, Goto
  <2>2. ASSUME NEW form \in {"bare", "torn"}, lines' = WriteAt(lines, Entry(w, form))
        PROVE  FaultInv'
    <3>1. lock' \in [Sinks -> Writers \cup {Free}]
      BY <1>0, <1>7 DEF WriteRaises, Release, TypeOK
    <3>2. /\ pc[w] = "linked" /\ pc' = [pc EXCEPT ![w] = "idle"]
          /\ UNCHANGED <<today, when, rid, prev, issued, acked>>
      BY <1>7 DEF WriteRaises, Goto
    <3>3. QED
      BY <2>2, <3>1, <3>2, WritingKeeps
  <2>3. QED
    BY <1>7, <2>1, <2>2 DEF WriteRaises
<1>8. CASE Restart
  <2>1. /\ lock' = [s \in Sinks |-> Free] /\ pc' = [w \in Writers |-> "idle"]
        /\ UNCHANGED <<lines, today, when, rid, prev, issued, acked>>
    BY <1>8 DEF Restart
  <2>2. TypeOK' /\ Numbered' /\ LinkIsWritten'
    BY <1>0, <2>1 DEF TypeOK, Numbered, LinkIsWritten
  <2>3. Reported' \subseteq Reported
    BY <2>1 DEF Reported
  <2>4. QED
    BY <1>0, <2>1, <2>2, <2>3, QuietKeeps
<1>9. CASE Midnight \/ ClockSetBack \/ UNCHANGED vars
  <2>1. /\ UNCHANGED <<lines, lock, pc, when, rid, prev, issued, acked>>
        /\ today' \in 1..Days
    BY <1>0, <1>9, BoundsAssumption DEF Midnight, ClockSetBack, vars, writerVars, TypeOK
  <2>2. TypeOK' /\ Numbered' /\ LinkIsWritten'
    BY <1>0, <2>1 DEF TypeOK, Numbered, LinkIsWritten
  <2>3. Reported' = Reported
    BY <2>1 DEF Reported
  <2>4. QED
    BY <1>0, <2>1, <2>2, <2>3, QuietKeeps
<1>10. QED
  BY <1>1, <1>2, <1>4, <1>5, <1>6, <1>7, <1>8, <1>9 DEF Next

LEMMA FaultsHold == Spec => []FaultInv
BY FaultInit, FaultStep, PTL DEF Spec

\* Whatever fails, and however many sinks write to the directory, a record
\* names as its predecessor one that was written: a break is a fork, never a
\* record that went (audit_sink.py:63-120).
THEOREM BreaksAreForks == Spec => []NoDanglingLink
<1>1. FaultInv => NoDanglingLink
  BY DEF FaultInv
<1>2. QED
  BY <1>1, FaultsHold, PTL

\* Whatever fails, the records that were reported and cannot be read back are
\* no more than the lines onto which one was glued.
THEOREM LossIsBounded == Spec => []LossBounded
<1>1. FaultInv => LossBounded
  <2> SUFFICES ASSUME FaultInv PROVE LossBounded
    OBVIOUS
  <2>1. PICK S, T :
           /\ S = {id \in acked : \A i \in DOMAIN lines : lines[i].id = id => ~Parses(lines[i])}
           /\ T = Reported \ Readable(lines)
    OBVIOUS
  <2>2. S \in SUBSET T
    BY <2>1 DEF Reported, Readable
  <2>3. IsFiniteSet(T)
    <3>1. T \in SUBSET Reported
      BY <2>1
    <3>2. QED
      BY <3>1, ReportedAreFinite, FS_Subset DEF FaultInv
  <2>4. /\ Cardinality(S) <= Cardinality(T)
        /\ Cardinality(S) \in Nat /\ Cardinality(T) \in Nat
    BY <2>2, <2>3, FS_Subset, FS_CardinalityType
  <2>5. /\ Cardinality(T) <= Cardinality(Glued(lines)) /\ Cardinality(Glued(lines)) \in Nat
    BY <2>1, GluedAreFinite DEF FaultInv, LostAreGlued, TypeOK
  <2>6. Cardinality(S) <= Cardinality(Glued(lines))
    BY <2>4, <2>5
  <2>7. QED
    BY <2>1, <2>6 DEF LossBounded, Glued
<1>2. QED
  BY <1>1, FaultsHold, PTL

\* Every variable keeps its type, whatever fails.
THEOREM TypeCorrect == Spec => []TypeOK
<1>1. FaultInv => TypeOK
  BY DEF FaultInv
<1>2. QED
  BY <1>1, FaultsHold, PTL

=============================================================================
