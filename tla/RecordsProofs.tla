--------------------------- MODULE RecordsProofs ---------------------------
(***************************************************************************)
(* What the repositories keep, for any number of workspaces, writers, rows *)
(* and open transactions; and the schema they find, whoever migrates.      *)
(* The inductive invariant of the rows, TablesInv, says of every open      *)
(* replace_for_document what it holds, what it will add, and that no other *)
(* stands in its way.                                                      *)
(***************************************************************************)
EXTENDS Records, TLAPS

Tables == DOMAIN Parents \cup {"workspace", "app_user", "price_table"}
Shared == {"app_user", "price_table"}

\* How far up the references a table is: they all point to a higher one.
Rank ==
    [workspace |-> 6, prompt_template |-> 5, prompt_template_version |-> 4, app_user |-> 4,
     price_table |-> 4, experiment |-> 3, run |-> 2, document |-> 2, tool_invocation |-> 1,
     chunk |-> 1, membership |-> 0, retention_policy |-> 0, embedding |-> 0,
     trace_event |-> 0, approval |-> 0]

\* The totals of a run, and whether it has come to its end.
RunValue(v) ==
    /\ v = [f \in {"status", "reason", "tokens", "estimated"} |-> v[f]]
    /\ v.tokens \in Nat /\ v.estimated \in BOOLEAN
    /\ v.status = "terminal" <=> v.reason # None

GoodRow(r) ==
    /\ r = Row(r.table, r.id, r.workspace, r.up, r.key, r.val)
    /\ r.table \in Tables
    /\ IF r.table \in Shared THEN r.workspace = Global ELSE r.workspace \in Workspaces
    /\ \A u \in r.up : r.table \in DOMAIN Parents /\ u[1] \in Parents[r.table]
    /\ r.table = "workspace" => r.id = r.workspace
    /\ r.table = "chunk" => r.up = {<<"document", 1>>} /\ r.key \in Nat /\ r.val.count \in Nat
    /\ r.table = "run" => RunValue(r.val)

GoodRows == \A r \in db : GoodRow(r)

\* An id, and a key within a workspace, is that of one row.
Unique == \A r, s \in db : Clashes(r, s) => r = s

Closed(S) == \A r \in db : r.up \cap {Names(s) : s \in S} # {} => r \in S

AllOrNone(S, w) == S \cap ChunksOf(w) \in {{}, ChunksOf(w)}

Given(t) == [batch |-> t.batch, count |-> t.count]
ChunkRow(t, n) == Row("chunk", <<t.batch, n>>, t.workspace, {<<"document", 1>>}, n, Given(t))
BatchesOf(S) == {r.val.batch : r \in S}
Chunks == {r \in db : r.table = "chunk"}

Fields == {"workspace", "batch", "at", "doomed", "gone", "added", "next", "count"}
Shaped(t) == t = [f \in Fields |-> t[f]]

TxType(t) ==
    /\ Shaped(t)
    /\ t.workspace \in Workspaces /\ t.at \in {"delete", "insert"}
    /\ t.next \in Nat /\ t.count \in Nat /\ t.next <= t.count
    /\ t.added = {ChunkRow(t, n) : n \in {n \in Nat : n < t.next}}
    /\ t.at = "delete" => t.gone = {} /\ t.next = 0
    /\ \A r \in t.doomed : r.table = "chunk"

\* What a transaction that has deleted holds is there, with all that refers to
\* it; what it has added has what it refers to, and fits beside the rest.
TxHolds(t) ==
    /\ t.gone \subseteq db /\ Closed(t.gone)
    /\ \A r \in t.gone : r.table \in {"chunk", "embedding"} /\ r.workspace = t.workspace
    /\ \A r \in t.added : Refers(db, r) /\ \A s \in db \ t.gone : ~Clashes(s, r)
    /\ t.batch \notin BatchesOf(Chunks)

\* It takes all chunks of the document or none.
TxTakes(t) ==
    /\ AllOrNone(t.gone, t.workspace)
    /\ t.doomed \cap db \in {{}, ChunksOf(t.workspace)} \/ t.at = "insert"

TxInv == \A p \in Open : TxType(tx[p]) /\ TxHolds(tx[p]) /\ TxTakes(tx[p])

\* Two transactions that overlap give their chunks different batches, hold
\* nothing in common and add nothing that clashes.
Beside(t, u) ==
    /\ t.batch # u.batch /\ u.batch \notin BatchesOf(t.doomed)
    /\ t.gone \cap u.gone = {}
    /\ \A r \in t.added, s \in u.gone \cup u.added : ~Clashes(s, r)

TxApart == \A p, q \in Open : p # q => Beside(tx[p], tx[q])

TablesInv ==
    /\ GoodRows /\ Unique /\ ReferencesHold /\ OneStrategy
    /\ tx = [p \in Writers |-> tx[p]]
    /\ TxInv /\ TxApart

-----------------------------------------------------------------------------
LEMMA RankTypes == DOMAIN Rank = Tables /\ \A t \in Tables : Rank[t] \in 0..6
BY DEF Rank, Tables, Parents

\* References point up.
LEMMA ReferencesPointUp ==
    ASSUME NEW t \in DOMAIN Parents, NEW u \in Parents[t]
    PROVE  u \in Tables /\ Rank[u] > Rank[t]
<1>1. CASE t \in {"membership", "retention_policy", "experiment", "prompt_template"}
  BY <1>1 DEF Parents, Tables, Rank
<1>2. CASE t \in {"prompt_template_version", "run", "document", "chunk"}
  BY <1>2 DEF Parents, Tables, Rank
<1>3. CASE t \in {"embedding", "trace_event", "tool_invocation", "approval"}
  BY <1>3 DEF Parents, Tables, Rank
<1>4. QED
  BY <1>1, <1>2, <1>3 DEF Parents

LEMMA NamesOf == \A r : Names(r)[1] = r.table /\ Names(r)[2] = r.id
BY DEF Names

\* Who refers to a row is of a lower table than it.
LEMMA ReferrersAreLower ==
    ASSUME NEW r, GoodRow(r), NEW s, Names(s) \in r.up
    PROVE  Rank[s.table] > Rank[r.table] /\ s.table \in Tables
BY ReferencesPointUp, NamesOf DEF GoodRow

LEMMA ClashesBothWays == \A r, s : Clashes(r, s) <=> Clashes(s, r)
BY DEF Clashes

-----------------------------------------------------------------------------
Referrers(S) == S \cup {r \in db : r.up \cap {Names(s) : s \in S} # {}}

LEMMA CascadeIs ==
    ASSUME NEW gone
    PROVE  Cascade(gone) = Referrers(Referrers(Referrers(gone)))
<1> DEFINE step(f, n) ==
             IF n = 0 THEN gone
             ELSE f[n - 1] \cup {r \in db : r.up \cap {Names(s) : s \in f[n - 1]} # {}}
           f == CHOOSE f : f = [n \in 0..3 |-> step(f, n)]
           g == [n \in 0..3 |-> CASE n = 0 -> gone [] n = 1 -> Referrers(gone)
                                  [] n = 2 -> Referrers(Referrers(gone))
                                  [] n = 3 -> Referrers(Referrers(Referrers(gone)))]
<1>1. g = [n \in 0..3 |-> step(g, n)]
  BY DEF Referrers
<1>2. f = [n \in 0..3 |-> step(f, n)]
  <2> HIDE DEF g, step
  <2>1. QED
    BY <1>1
<1>3. Cascade(gone) = f[3]
  BY DEF Cascade
<1> HIDE DEF f
<1>4. f[0] = gone
  BY <1>2
<1>5. f[1] = Referrers(f[0]) /\ f[2] = Referrers(f[1]) /\ f[3] = Referrers(f[2])
  BY <1>2 DEF Referrers
<1>6. QED
  BY <1>3, <1>4, <1>5

LEMMA ReferrersGrow ==
    ASSUME NEW S
    PROVE  /\ S \subseteq Referrers(S) /\ Referrers(S) \subseteq S \cup db
           /\ \A r \in Referrers(S) \ S : \E s \in S : Names(s) \in r.up
           /\ \A r \in db, s \in S : Names(s) \in r.up => r \in Referrers(S)
BY DEF Referrers

\* Whatever is true of what goes and of what refers to what it is true of, is
\* true of the cascade.
LEMMA CascadeSpreads ==
    ASSUME NEW gone, NEW P,
           gone \subseteq P, \A r \in db, s \in P : Names(s) \in r.up => r \in P
    PROVE  Cascade(gone) \subseteq P
<1>1. ASSUME NEW S, S \subseteq P PROVE Referrers(S) \subseteq P
  BY <1>1 DEF Referrers
<1>2. QED
  BY <1>1, CascadeIs

LEMMA CascadeGrows ==
    ASSUME NEW gone, gone \subseteq db
    PROVE  /\ gone \subseteq Cascade(gone) /\ Cascade(gone) \subseteq db
           /\ \A r \in Cascade(gone) \ gone : \E s \in Cascade(gone) : Names(s) \in r.up
<1> DEFINE A == Referrers(gone)
           B == Referrers(A)
           C == Referrers(B)
<1>1. gone \subseteq A /\ A \subseteq B /\ B \subseteq C /\ C \subseteq db
  BY ReferrersGrow
<1>2. \A r \in A \ gone : \E s \in gone : Names(s) \in r.up
  BY ReferrersGrow
<1>3. \A r \in B \ A : \E s \in A : Names(s) \in r.up
  BY ReferrersGrow
<1>4. \A r \in C \ B : \E s \in B : Names(s) \in r.up
  BY ReferrersGrow
<1>5. Cascade(gone) = C
  BY CascadeIs
<1> HIDE DEF A, B, C
<1>6. QED
  BY <1>1, <1>2, <1>3, <1>4, <1>5

\* A cascade from tables at most three steps above the lowest takes everything
\* that refers to what it takes.
LEMMA CascadeCloses ==
    ASSUME GoodRows, NEW gone, gone \subseteq db, \A r \in gone : Rank[r.table] <= 3
    PROVE  Closed(Cascade(gone))
<1> DEFINE A == Referrers(gone)
           B == Referrers(A)
           C == Referrers(B)
<1>1. gone \subseteq A /\ A \subseteq B /\ B \subseteq C /\ C \subseteq db
  BY ReferrersGrow
<1>2. \A r \in db : Rank[r.table] \in 0..6
  BY RankTypes DEF GoodRows, GoodRow
<1>3. \A r \in A \ gone : Rank[r.table] <= 2
  <2>1. ASSUME NEW r \in A \ gone PROVE Rank[r.table] <= 2
    <3>1. PICK s \in gone : Names(s) \in r.up
      BY <2>1, ReferrersGrow
    <3>2. Rank[s.table] > Rank[r.table]
      BY <1>1, <2>1, <3>1, ReferrersAreLower DEF GoodRows
    <3>3. QED
      BY <1>1, <1>2, <2>1, <3>1, <3>2
  <2>2. QED
    BY <2>1
<1>4. \A r \in B \ A : Rank[r.table] <= 1
  <2>1. ASSUME NEW r \in B \ A PROVE Rank[r.table] <= 1
    <3>1. PICK s \in A : Names(s) \in r.up
      BY <2>1, ReferrersGrow
    <3>2. s \notin gone
      BY <1>1, <2>1, <3>1, ReferrersGrow
    <3>3. Rank[s.table] > Rank[r.table]
      BY <1>1, <2>1, <3>1, ReferrersAreLower DEF GoodRows
    <3>4. QED
      BY <1>1, <1>2, <1>3, <2>1, <3>1, <3>2, <3>3
  <2>2. QED
    BY <2>1
<1>5. \A r \in C \ B : Rank[r.table] <= 0
  <2>1. ASSUME NEW r \in C \ B PROVE Rank[r.table] <= 0
    <3>1. PICK s \in B : Names(s) \in r.up
      BY <2>1, ReferrersGrow
    <3>2. s \notin A
      BY <1>1, <2>1, <3>1, ReferrersGrow
    <3>3. Rank[s.table] > Rank[r.table]
      BY <1>1, <2>1, <3>1, ReferrersAreLower DEF GoodRows
    <3>4. QED
      BY <1>1, <1>2, <1>4, <2>1, <3>1, <3>2, <3>3
  <2>2. QED
    BY <2>1
<1>6. ASSUME NEW r \in db, NEW s \in C, Names(s) \in r.up PROVE r \in C
  <2>1. CASE s \in B
    BY <1>6, <2>1, ReferrersGrow
  <2>2. CASE s \notin B
    <3>1. Rank[s.table] > Rank[r.table]
      BY <1>6, ReferrersAreLower DEF GoodRows
    <3>2. QED
      BY <1>1, <1>2, <1>5, <1>6, <2>2, <3>1
  <2>3. QED
    BY <2>1, <2>2
<1>7. Cascade(gone) = C
  BY CascadeIs
<1> HIDE DEF C
<1>8. QED
  BY <1>6, <1>7 DEF Closed

\* What nothing else refers to goes alone.
LEMMA ClosedGoesAlone ==
    ASSUME NEW gone, gone \subseteq db, Closed(gone)
    PROVE  Cascade(gone) = gone
BY CascadeSpreads, CascadeGrows DEF Closed

\* Where references hold, what refers to the rows of a workspace is of it.
LEMMA ReferrersStayInside ==
    ASSUME GoodRows, Unique, ReferencesHold, NEW w \in Workspaces,
           NEW s \in db, s.workspace = w, NEW r \in db, Names(s) \in r.up
    PROVE  r.workspace = w
<1>1. PICK x \in db : Names(x) = Names(s) /\ x.workspace \in {r.workspace, Global}
  BY DEF ReferencesHold, Refers
<1>2. x.table = s.table /\ x.id = s.id
  BY <1>1, NamesOf
<1>3. x = s
  BY <1>2 DEF Unique, Clashes
<1>4. QED
  BY <1>1, <1>3, RecordsAssumption

LEMMA CascadeStaysInside ==
    ASSUME GoodRows, Unique, ReferencesHold, NEW w \in Workspaces,
           NEW gone, gone \subseteq db, \A r \in gone : r.workspace = w
    PROVE  \A r \in Cascade(gone) : r.workspace = w
<1> DEFINE P == {r \in db : r.workspace = w}
<1>1. gone \subseteq P /\ \A r \in db, s \in P : Names(s) \in r.up => r \in P
  BY ReferrersStayInside
<1> HIDE DEF P
<1>2. Cascade(gone) \subseteq P
  BY <1>1, CascadeSpreads
<1>3. QED
  BY <1>2 DEF P

\* All the rows of a workspace are a cascade of their own.
LEMMA WorkspaceCloses ==
    ASSUME GoodRows, Unique, ReferencesHold, NEW w \in Workspaces
    PROVE  Closed({r \in db : r.workspace = w})
BY ReferrersStayInside DEF Closed

\* From chunks it takes their embeddings.
LEMMA CascadeOfChunks ==
    ASSUME GoodRows, NEW gone, gone \subseteq db, \A r \in gone : r.table = "chunk"
    PROVE  /\ \A r \in Cascade(gone) : r.table \in {"chunk", "embedding"}
           /\ \A r \in Cascade(gone) : r.table = "chunk" => r \in gone
           /\ Closed(Cascade(gone))
<1> DEFINE P == gone \cup {r \in db : r.table = "embedding"}
<1>1. ASSUME NEW r \in db, NEW s \in P, Names(s) \in r.up PROVE r.table = "embedding"
  <2>1. s.table \in Parents[r.table] /\ r.table \in DOMAIN Parents /\ s.table \in {"chunk", "embedding"}
    BY <1>1, NamesOf DEF GoodRows, GoodRow
  <2>2. QED
    BY <2>1 DEF Parents
<1>2. Cascade(gone) \subseteq P
  BY <1>1, CascadeSpreads
<1>3. Rank["chunk"] <= 3
  BY DEF Rank
<1>4. QED
  BY <1>2, <1>3, CascadeCloses

-----------------------------------------------------------------------------
LEMMA InHeld ==
    ASSUME NEW p \in Open
    PROVE  tx[p].gone \subseteq Held /\ tx[p].added \subseteq Held
BY DEF Held

LEMMA ChunksAre ==
    ASSUME GoodRows
    PROVE  \A w : \A r : r \in ChunksOf(w) <=> r \in db /\ r.table = "chunk" /\ r.workspace = w
BY DEF ChunksOf, Where, GoodRows, GoodRow

LEMMA RefersMore ==
    ASSUME NEW S, NEW T, S \subseteq T, NEW r, Refers(S, r)
    PROVE  Refers(T, r)
BY DEF Refers

\* The rows of an open transaction.
LEMMA AddedAre ==
    ASSUME NEW t, TxType(t), NEW r \in t.added
    PROVE  /\ r.table = "chunk" /\ r.workspace = t.workspace /\ r.up = {<<"document", 1>>}
           /\ r.val = Given(t) /\ r.val.batch = t.batch /\ r.val.count = t.count
           /\ r.key \in Nat /\ r.key < t.next /\ GoodRow(r)
<1>1. PICK n \in Nat : n < t.next /\ r = ChunkRow(t, n)
  BY DEF TxType
<1>2. "chunk" \notin Shared /\ "chunk" \in Tables /\ "document" \in Parents["chunk"]
      /\ "chunk" \in DOMAIN Parents
  BY DEF Shared, Tables, Parents
<1>3. /\ r.table = "chunk" /\ r.workspace = t.workspace /\ r.up = {<<"document", 1>>}
      /\ r.val = Given(t) /\ r.key = n /\ r = Row(r.table, r.id, r.workspace, r.up, r.key, r.val)
  BY <1>1 DEF ChunkRow, Row
<1>4. r.val.batch = t.batch /\ r.val.count = t.count /\ t.count \in Nat
  BY <1>3 DEF Given, TxType
<1>5. QED
  BY <1>1, <1>2, <1>3, <1>4 DEF GoodRow, TxType

\* Where the transactions stay as they are.
LEMMA TxStays ==
    ASSUME TxInv, TxApart, tx = [p \in Writers |-> tx[p]], UNCHANGED tx,
           \A t : (\E p \in Open : t = tx[p]) => TxHolds(t)' /\ TxTakes(t)'
    PROVE  (tx = [p \in Writers |-> tx[p]])' /\ TxInv' /\ TxApart'
<1>1. Open' = Open
  BY DEF Open
<1>2. TxApart'
  BY <1>1 DEF TxApart
<1>3. TxInv'
  <2>1. ASSUME NEW p \in Open, NEW t, t = tx[p] PROVE TxType(t) /\ TxHolds(t)' /\ TxTakes(t)'
    BY <2>1 DEF TxInv
  <2>2. QED
    BY <1>1, <2>1 DEF TxInv
<1>4. QED
  BY <1>2, <1>3

\* Where the chunks stay as they are.
LEMMA ChunksStay ==
    ASSUME OneStrategy, \A w : ChunksOf(w)' = ChunksOf(w)
    PROVE  OneStrategy'
BY DEF OneStrategy

LEMMA CreateKeeps ==
    ASSUME TablesInv, NEW r, GoodRow(r), r.table # "chunk", Create(r)
    PROVE  TablesInv'
<1>1. /\ db' = db \cup {r} /\ tx' = tx
      /\ Refers(db, r) /\ \A s \in db : ~Clashes(s, r)
      /\ \A s \in Held : ~Clashes(s, r) /\ Names(s) \notin r.up
  BY DEF Create, Fits
<1>2. GoodRows'
  BY <1>1 DEF TablesInv, GoodRows
<1>3. Unique'
  BY <1>1, ClashesBothWays DEF TablesInv, Unique
<1>4. ReferencesHold'
  BY <1>1, RefersMore DEF TablesInv, ReferencesHold
<1>5. \A w : ChunksOf(w)' = ChunksOf(w)
  BY <1>1 DEF ChunksOf, Where
<1>6. OneStrategy'
  BY <1>5, ChunksStay DEF TablesInv
<1>7. ASSUME NEW p \in Open, NEW t, t = tx[p] PROVE TxHolds(t)' /\ TxTakes(t)'
  <2>1. TxType(t) /\ TxHolds(t) /\ TxTakes(t)
    BY <1>7 DEF TablesInv, TxInv
  <2>2. t.gone \subseteq Held /\ t.added \subseteq Held
    BY <1>7, InHeld
  <2>3. Closed(t.gone)'
    BY <1>1, <2>1, <2>2 DEF TxHolds, Closed
  <2>4. \A a \in t.added : Refers(db', a) /\ \A s \in db' \ t.gone : ~Clashes(s, a)
    BY <1>1, <2>1, <2>2, RefersMore, ClashesBothWays DEF TxHolds
  <2>5. t.batch \notin BatchesOf(Chunks)'
    BY <1>1, <2>1 DEF TxHolds, BatchesOf, Chunks
  <2>6. TxHolds(t)'
    BY <1>1, <2>1, <2>3, <2>4, <2>5 DEF TxHolds
  <2>7. TxTakes(t)'
    BY <1>1, <1>5, <2>1 DEF TxTakes, AllOrNone, TxType
  <2>8. QED
    BY <2>6, <2>7
<1>8. QED
  BY <1>1, <1>2, <1>3, <1>4, <1>6, <1>7, TxStays DEF TablesInv

LEMMA UpdateKeeps ==
    ASSUME TablesInv, NEW old \in db \ Held, NEW val,
           old.table \in {"run", "embedding", "retention_policy"},
           old.table = "run" => RunValue(val),
           db' = (db \ {old}) \cup {[old EXCEPT !.val = val]}, UNCHANGED tx
    PROVE  TablesInv'
<1> DEFINE new == [old EXCEPT !.val = val]
<1>1. old = Row(old.table, old.id, old.workspace, old.up, old.key, old.val) /\ GoodRow(old)
  BY DEF TablesInv, GoodRows, GoodRow
<1>2. /\ new.table = old.table /\ new.id = old.id /\ new.workspace = old.workspace
      /\ new.up = old.up /\ new.key = old.key /\ new.val = val
      /\ new = Row(new.table, new.id, new.workspace, new.up, new.key, new.val)
  BY <1>1 DEF Row
<1> HIDE DEF new
<1>3. db' = (db \ {old}) \cup {new} /\ tx' = tx
  BY DEF new
<1>4. Names(new) = Names(old) /\ \A s : Clashes(new, s) <=> Clashes(old, s)
  BY <1>2 DEF Names, Clashes
<1>5. GoodRows'
  BY <1>1, <1>2, <1>3 DEF TablesInv, GoodRows, GoodRow
<1>6. Unique'
  BY <1>3, <1>4, ClashesBothWays DEF TablesInv, Unique
<1>7. ASSUME NEW a, Refers(db, a) PROVE Refers(db', a)
  <2>1. \A s \in db : \E x \in db' : Names(x) = Names(s) /\ x.workspace = s.workspace
    BY <1>2, <1>3, <1>4
  <2>2. QED
    BY <1>7, <2>1 DEF Refers
<1>8. Refers(db, old) => Refers(db, new)
  BY <1>2 DEF Refers
<1>9. ReferencesHold'
  BY <1>3, <1>7, <1>8 DEF TablesInv, ReferencesHold
<1>10. \A w : ChunksOf(w)' = ChunksOf(w)
  BY <1>2, <1>3 DEF ChunksOf, Where
<1>11. OneStrategy'
  BY <1>10, ChunksStay DEF TablesInv
<1>12. ASSUME NEW p \in Open, NEW t, t = tx[p] PROVE TxHolds(t)' /\ TxTakes(t)'
  <2>1. TxType(t) /\ TxHolds(t) /\ TxTakes(t)
    BY <1>12 DEF TablesInv, TxInv
  <2>2. old \notin t.gone
    BY <1>12, InHeld
  <2>3. Closed(t.gone)'
    BY <1>2, <1>3, <2>1, <2>2 DEF TxHolds, Closed
  <2>4. \A a \in t.added : Refers(db', a) /\ \A s \in db' \ t.gone : ~Clashes(s, a)
    BY <1>3, <1>4, <1>7, <2>1, <2>2 DEF TxHolds
  <2>5. t.batch \notin BatchesOf(Chunks)'
    BY <1>2, <1>3, <2>1 DEF TxHolds, BatchesOf, Chunks
  <2>6. TxHolds(t)'
    BY <1>3, <2>1, <2>2, <2>3, <2>4, <2>5 DEF TxHolds
  <2>7. t.doomed \cap db' = t.doomed \cap db
    BY <1>2, <1>3, <2>1 DEF TxType
  <2>8. TxTakes(t)'
    BY <1>3, <1>10, <2>1, <2>7 DEF TxTakes, AllOrNone
  <2>9. QED
    BY <2>6, <2>8
<1>13. QED
  BY <1>3, <1>5, <1>6, <1>9, <1>11, <1>12, TxStays DEF TablesInv

\* The deletions the repositories make: of rows that are not chunks and not high
\* up, or of all a workspace has.
Ordinary(gone, w) ==
    /\ gone \subseteq {r \in db : r.workspace = w}
    /\ \/ \A r \in gone : Rank[r.table] <= 3 /\ r.table # "chunk"
       \/ gone = {r \in db : r.workspace = w}

\* What such a deletion takes.
LEMMA DeletionTakes ==
    ASSUME TablesInv, NEW w \in Workspaces, NEW gone, Ordinary(gone, w), NEW X, X = Cascade(gone)
    PROVE  /\ X \subseteq {r \in db : r.workspace = w} /\ Closed(X)
           /\ \A v : X \cap ChunksOf(v) \in {{}, ChunksOf(v)}
           /\ \A x \in X : x.table = "workspace" => X = {r \in db : r.workspace = w}
           /\ \A v : X \cap ChunksOf(v) # {} => X \cap Get("document", 1, v) # {} \/ X = {r \in db : r.workspace = w}
<1>1. gone \subseteq db /\ gone \subseteq X /\ X \subseteq db
      /\ \A r \in X \ gone : \E s \in X : Names(s) \in r.up
  BY CascadeGrows DEF Ordinary
<1>2. \A r \in X : r.workspace = w
  BY CascadeStaysInside DEF TablesInv, Ordinary
<1>3. CASE gone = {r \in db : r.workspace = w}
  <2>1. X = gone /\ Closed(X)
    BY <1>1, <1>3, WorkspaceCloses, ClosedGoesAlone DEF TablesInv
  <2>2. \A v, c : c \in ChunksOf(v) => c \in db /\ c.workspace = v
    BY DEF ChunksOf, Where
  <2>3. \A v : X \cap ChunksOf(v) \in {{}, ChunksOf(v)}
    BY <1>3, <2>1, <2>2
  <2>4. QED
    BY <1>1, <1>2, <1>3, <2>1, <2>3
<1>4. CASE \A r \in gone : Rank[r.table] <= 3 /\ r.table # "chunk"
  <2>1. Closed(X)
    BY <1>1, <1>4, CascadeCloses DEF TablesInv
  <2>2. ASSUME NEW x \in X PROVE x.table # "workspace"
    <3>1. CASE x \in gone
      BY <1>4, <3>1 DEF Rank
    <3>2. CASE x \notin gone
      <4>1. x.up # {} /\ x \in db
        BY <1>1, <2>2, <3>2
      <4>2. x.table \in DOMAIN Parents
        BY <4>1 DEF TablesInv, GoodRows, GoodRow
      <4>3. QED
        BY <4>2 DEF Parents
    <3>3. QED
      BY <3>1, <3>2
  <2>3. ASSUME NEW v, NEW c \in X \cap ChunksOf(v)
        PROVE  /\ \A e \in ChunksOf(v) : e \in X
               /\ X \cap Get("document", 1, v) # {}
    <3>1. c \in db /\ c.table = "chunk" /\ c.workspace = v /\ c.up = {<<"document", 1>>} /\ v = w
      BY <1>2, <2>3, ChunksAre DEF TablesInv, GoodRows, GoodRow
    <3>2. PICK s \in X : Names(s) \in c.up
      BY <1>1, <1>4, <2>3, <3>1
    <3>3. Names(s) = <<"document", 1>> /\ s.table = "document" /\ s.id = 1
      BY <3>1, <3>2, NamesOf
    <3>4. \A e \in ChunksOf(v) : e \in db /\ e.up = {<<"document", 1>>}
      BY ChunksAre DEF TablesInv, GoodRows, GoodRow
    <3>5. \A e \in ChunksOf(v) : e \in X
      BY <2>1, <3>2, <3>3, <3>4 DEF Closed
    <3>6. s \in Get("document", 1, v)
      BY <1>1, <1>2, <3>1, <3>2, <3>3 DEF Get, Where
    <3>7. QED
      BY <3>2, <3>5, <3>6
  <2>4. \A v : X \cap ChunksOf(v) \in {{}, ChunksOf(v)}
    BY <2>3
  <2>5. QED
    BY <1>1, <1>2, <2>1, <2>2, <2>3, <2>4
<1>5. QED
  BY <1>3, <1>4 DEF Ordinary

LEMMA DeleteKeeps ==
    ASSUME TablesInv, NEW w \in Workspaces, NEW gone, Ordinary(gone, w), Delete(gone, w)
    PROVE  TablesInv'
<1> DEFINE X == Cascade(gone)
           All == {r \in db : r.workspace = w}
<1>1. /\ db' = db \ X /\ tx' = tx
      /\ Held \cap X = {} /\ \A r \in Held : r.up \cap {Names(s) : s \in X} = {}
  BY DEF Delete
<1>2. /\ X \subseteq All /\ Closed(X)
      /\ \A v : X \cap ChunksOf(v) \in {{}, ChunksOf(v)}
      /\ \A x \in X : x.table = "workspace" => X = All
  BY DeletionTakes
<1> HIDE DEF X
<1>3. \A v : ChunksOf(v)' = ChunksOf(v) \ X
  BY <1>1 DEF ChunksOf, Where
<1>4. GoodRows' /\ Unique'
  BY <1>1 DEF TablesInv, GoodRows, Unique
\* Who names no row that goes, and has a row of its workspace beside it that
\* stays, keeps all it refers to.
<1>5. ASSUME NEW r, Refers(db, r), r.up \cap {Names(s) : s \in X} = {},
             r.workspace \in Workspaces => \E s \in db \ X : s.workspace = r.workspace
      PROVE  Refers(db', r)
  <2>1. ASSUME r.workspace \in Workspaces, r.table # "workspace"
        PROVE  \E s \in db' : Names(s) = <<"workspace", r.workspace>>
    <3>1. PICK x \in db : Names(x) = <<"workspace", r.workspace>>
      BY <1>5, <2>1 DEF Refers
    <3>2. x.table = "workspace" /\ x.workspace = r.workspace
      BY <3>1, NamesOf DEF TablesInv, GoodRows, GoodRow
    <3>3. x \notin X
      BY <1>2, <1>5, <2>1, <3>2
    <3>4. QED
      BY <1>1, <3>1, <3>3
  <2>2. ASSUME NEW u \in r.up
        PROVE  \E s \in db' : Names(s) = u /\ s.workspace \in {r.workspace, Global}
    <3>1. PICK s \in db : Names(s) = u /\ s.workspace \in {r.workspace, Global}
      BY <1>5, <2>2 DEF Refers
    <3>2. s \notin X
      BY <1>5, <2>2, <3>1
    <3>3. QED
      BY <1>1, <3>1, <3>2
  <2>3. QED
    BY <2>1, <2>2 DEF Refers
<1>6. ReferencesHold'
  <2>1. ASSUME NEW r \in db \ X PROVE Refers(db', r)
    <3>1. r.up \cap {Names(s) : s \in X} = {}
      BY <1>2, <2>1 DEF Closed
    <3>2. Refers(db, r)
      BY DEF TablesInv, ReferencesHold
    <3>3. QED
      BY <1>5, <2>1, <3>1, <3>2
  <2>2. QED
    BY <1>1, <2>1 DEF ReferencesHold
<1>7. OneStrategy'
  <2>1. \A v : ChunksOf(v)' \in {{}, ChunksOf(v)}
    BY <1>2, <1>3
  <2>2. QED
    BY <2>1 DEF TablesInv, OneStrategy
<1>8. ASSUME NEW p \in Open, NEW t, t = tx[p] PROVE TxHolds(t)' /\ TxTakes(t)'
  <2>1. TxType(t) /\ TxHolds(t) /\ TxTakes(t)
    BY <1>8 DEF TablesInv, TxInv
  <2>2. t.gone \cap X = {} /\ \A a \in t.added : a.up \cap {Names(s) : s \in X} = {}
    BY <1>1, <1>8, InHeld
  <2>3. Closed(t.gone)'
    BY <1>1, <2>1 DEF TxHolds, Closed
  <2>4. ASSUME NEW a \in t.added PROVE Refers(db', a)
    <3>1. Refers(db, a) /\ a.up = {<<"document", 1>>} /\ a.workspace \in Workspaces
      BY <2>1, AddedAre DEF TxHolds, TxType
    <3>2. PICK s \in db : Names(s) = <<"document", 1>> /\ s.workspace \in {a.workspace, Global}
      BY <3>1 DEF Refers
    <3>3. s.table = "document" /\ s \notin X
      BY <2>2, <3>1, <3>2, NamesOf
    <3>4. s.workspace = a.workspace
      BY <3>2, <3>3, RecordsAssumption DEF TablesInv, GoodRows, GoodRow, Shared
    <3>5. QED
      BY <1>5, <2>2, <3>1, <3>3, <3>4
  <2>5. t.batch \notin BatchesOf(Chunks)'
    BY <1>1, <2>1 DEF TxHolds, BatchesOf, Chunks
  <2>6. TxHolds(t)'
    BY <1>1, <2>1, <2>2, <2>3, <2>4, <2>5 DEF TxHolds
  <2>7. TxTakes(t)'
    BY <1>1, <1>2, <1>3, <2>1, <2>2 DEF TxTakes, AllOrNone
  <2>8. QED
    BY <2>6, <2>7
<1>9. QED
  BY <1>1, <1>4, <1>6, <1>7, <1>8, TxStays DEF TablesInv

-----------------------------------------------------------------------------
\* Where only one transaction changes.
LEMMA OneTransaction ==
    ASSUME TablesInv, NEW p \in Writers, NEW t, tx' = [tx EXCEPT ![p] = t], UNCHANGED db,
           t # None => /\ TxType(t) /\ TxHolds(t) /\ TxTakes(t)
                       /\ \A q \in Open \ {p} : Beside(t, tx[q]) /\ Beside(tx[q], t)
    PROVE  TablesInv'
<1>1. GoodRows' /\ Unique' /\ ReferencesHold' /\ OneStrategy'
  BY DEF TablesInv, GoodRows, Unique, ReferencesHold, OneStrategy, ChunksOf, Where
<1>2. tx = [q \in Writers |-> tx[q]]
  BY DEF TablesInv
<1>3. tx'[p] = t /\ \A q \in Writers \ {p} : tx'[q] = tx[q]
  BY <1>2
<1>4. tx' = [q \in Writers |-> tx'[q]]
  BY <1>2
<1>5. ASSUME NEW q \in Writers, tx'[q] # None, NEW u, u = tx'[q]
      PROVE  TxType(u) /\ TxHolds(u)' /\ TxTakes(u)'
  <2>1. TxType(u) /\ TxHolds(u) /\ TxTakes(u)
    BY <1>3, <1>5 DEF TablesInv, TxInv, Open
  <2>2. QED
    BY <2>1 DEF TxHolds, TxTakes, Closed, Chunks, AllOrNone, ChunksOf, Where
<1>6. TxInv'
  BY <1>5 DEF TxInv, Open
<1>7. TxApart'
  <2>1. ASSUME NEW q \in Writers, NEW r \in Writers, q # r, tx'[q] # None, tx'[r] # None
        PROVE  Beside(tx'[q], tx'[r])
    BY <1>3, <2>1 DEF TablesInv, TxApart, Open
  <2>2. QED
    BY <2>1 DEF TxApart, Open
<1>8. QED
  BY <1>1, <1>4, <1>6, <1>7 DEF TablesInv

LEMMA AbortKeeps == ASSUME TablesInv, NEW p \in Writers, Abort(p) PROVE TablesInv'
BY OneTransaction DEF Abort

LEMMA BeginKeeps ==
    ASSUME TablesInv, NEW p \in Writers, NEW w \in Workspaces, NEW n \in 0..MaxChunks,
           Begin(p, w, n)
    PROVE  TablesInv'
<1>1. PICK b \in Batches \ Used :
         tx' = [tx EXCEPT ![p] = [workspace |-> w, batch |-> b, at |-> "delete",
                                  doomed |-> ChunksOf(w), gone |-> {}, added |-> {},
                                  next |-> 0, count |-> n]]
  BY DEF Begin
<1> DEFINE t == [workspace |-> w, batch |-> b, at |-> "delete", doomed |-> ChunksOf(w),
                 gone |-> {}, added |-> {}, next |-> 0, count |-> n]
<1>2. TxType(t)
  <2>1. {ChunkRow(t, k) : k \in {k \in Nat : k < t.next}} = {}
    OBVIOUS
  <2>2. \A r \in ChunksOf(w) : r.table = "chunk"
    BY DEF ChunksOf, Where
  <2>3. Shaped(t) /\ t.next \in Nat /\ t.count \in Nat /\ t.next <= t.count
    BY RecordsAssumption DEF Shaped, Fields
  <2>4. t.added = {ChunkRow(t, k) : k \in {k \in Nat : k < t.next}}
    BY <2>1
  <2>5. QED
    BY <2>2, <2>3, <2>4 DEF TxType
<1>3. b \notin BatchesOf(Chunks) /\ \A q \in Open : b # tx[q].batch /\ b \notin BatchesOf(tx[q].doomed)
  BY DEF Used, BatchesOf, Chunks
<1>4. TxHolds(t)
  BY <1>3 DEF TxHolds, Closed
<1>5. TxTakes(t)
  <2>1. ChunksOf(w) \cap db = ChunksOf(w)
    BY DEF ChunksOf, Where
  <2>2. QED
    BY <2>1 DEF TxTakes, AllOrNone
<1>6. ASSUME NEW q \in Open PROVE Beside(t, tx[q]) /\ Beside(tx[q], t)
  <2>1. tx[q].batch \notin BatchesOf(ChunksOf(w))
    BY <1>6 DEF TablesInv, TxInv, TxHolds, BatchesOf, Chunks, ChunksOf, Where
  <2>2. QED
    BY <1>3, <2>1 DEF Beside
<1> HIDE DEF t
<1>7. tx' = [tx EXCEPT ![p] = t] /\ db' = db
  BY <1>1 DEF Begin, t
<1>8. QED
  BY <1>2, <1>4, <1>5, <1>6, <1>7, OneTransaction

LEMMA DeleteOldKeeps == ASSUME TablesInv, NEW p \in Writers, DeleteOld(p) PROVE TablesInv'
<1>1. PICK t : t = tx[p]
  OBVIOUS
<1>2. p \in Open /\ t.at = "delete" /\ TxType(t) /\ TxHolds(t) /\ TxTakes(t)
  BY <1>1 DEF DeleteOld, Open, TablesInv, TxInv
<1>3. PICK X : X = Cascade(t.doomed \cap db)
  OBVIOUS
<1> DEFINE u == [t EXCEPT !.at = "insert", !.doomed = {}, !.gone = X]
<1>4. /\ u.workspace = t.workspace /\ u.batch = t.batch /\ u.at = "insert" /\ u.doomed = {}
      /\ u.gone = X /\ u.added = t.added /\ u.next = t.next /\ u.count = t.count
      /\ Shaped(u)
  <2>1. Shaped(t)
    BY <1>2 DEF TxType
  <2>2. QED
    BY <2>1 DEF Shaped, Fields
<1>5. tx' = [tx EXCEPT ![p] = u] /\ db' = db /\ Held \cap X = {}
  BY <1>1, <1>3 DEF DeleteOld, TablesInv
<1> HIDE DEF u
<1>6. t.added = {}
  BY <1>2 DEF TxType
<1>7. /\ t.doomed \cap db \in {{}, ChunksOf(t.workspace)} /\ t.workspace \in Workspaces
      /\ \A r \in t.doomed \cap db : r.workspace = t.workspace /\ r.table = "chunk"
  BY <1>2 DEF TxTakes, TxType, ChunksOf, Where
<1>8. X \subseteq db /\ t.doomed \cap db \subseteq X
  BY <1>3, CascadeGrows
<1>9. /\ \A r \in X : r.table \in {"chunk", "embedding"}
      /\ \A r \in X : r.table = "chunk" => r \in t.doomed \cap db
      /\ Closed(X)
  BY <1>3, <1>7, CascadeOfChunks DEF TablesInv
<1>10. \A r \in X : r.workspace = t.workspace
  BY <1>3, <1>7, CascadeStaysInside DEF TablesInv
<1>11. TxType(u)
  <2>1. \A n : ChunkRow(u, n) = ChunkRow(t, n)
    BY <1>4 DEF ChunkRow, Given
  <2>2. u.added = {ChunkRow(u, n) : n \in {n \in Nat : n < u.next}}
    BY <1>2, <1>4, <2>1 DEF TxType
  <2>3. QED
    BY <1>2, <1>4, <2>2 DEF TxType
<1>12. TxHolds(u)
  BY <1>2, <1>4, <1>6, <1>8, <1>9, <1>10 DEF TxHolds
<1>13. TxTakes(u)
  <2>1. X \cap ChunksOf(t.workspace) = t.doomed \cap db
    BY <1>7, <1>8, <1>9, ChunksAre DEF TablesInv
  <2>2. QED
    BY <1>4, <1>7, <2>1 DEF TxTakes, AllOrNone
<1>14. ASSUME NEW q \in Open \ {p} PROVE Beside(u, tx[q]) /\ Beside(tx[q], u)
  <2>1. Beside(t, tx[q]) /\ Beside(tx[q], t) /\ TxHolds(tx[q])
    BY <1>1, <1>2 DEF TablesInv, TxApart, TxInv
  <2>2. tx[q].gone \cap X = {} /\ X \subseteq db \ tx[q].gone
    BY <1>5, <1>8, InHeld
  <2>3. \A r \in tx[q].added, s \in X : ~Clashes(s, r)
    BY <2>1, <2>2 DEF TxHolds
  <2>4. BatchesOf({}) = {}
    BY DEF BatchesOf
  <2>5. QED
    BY <1>4, <1>6, <2>1, <2>2, <2>3, <2>4 DEF Beside
<1>15. QED
  BY <1>5, <1>11, <1>12, <1>13, <1>14, OneTransaction

LEMMA InsertKeeps == ASSUME TablesInv, NEW p \in Writers, InsertNext(p) PROVE TablesInv'
<1>1. PICK t : t = tx[p]
  OBVIOUS
<1>2. p \in Open /\ t.at = "insert" /\ TxType(t) /\ TxHolds(t) /\ TxTakes(t) /\ t.next < t.count
  BY <1>1 DEF InsertNext, Open, TablesInv, TxInv
<1>3. PICK c : c = ChunkRow(t, t.next)
  OBVIOUS
<1>4. Chunk(p, tx[p].next) = c
  BY <1>1, <1>3 DEF Chunk, ChunkRow, Given
<1>5. /\ \A q \in Open \ {p} : \A s \in tx[q].gone \cup tx[q].added : ~Clashes(s, c)
      /\ IF Fits(Seen(p), c)
         THEN tx' = [tx EXCEPT ![p] = [t EXCEPT !.added = @ \cup {c}, !.next = @ + 1]]
         ELSE tx' = [tx EXCEPT ![p] = None]
      /\ db' = db
  <2>1. \A q \in Open \ {p} : \A s \in tx[q].gone \cup tx[q].added : ~Clashes(s, c)
    BY <1>4 DEF InsertNext
  <2>2. CASE Fits(Seen(p), c)
    BY <1>1, <1>4, <2>1, <2>2 DEF InsertNext
  <2>3. CASE ~Fits(Seen(p), c)
    BY <1>1, <1>4, <2>1, <2>3 DEF InsertNext
  <2>4. QED
    BY <2>2, <2>3
<1>6. CASE ~Fits(Seen(p), c)
  BY <1>5, <1>6, OneTransaction
<1>7. CASE Fits(Seen(p), c)
  <2> DEFINE u == [t EXCEPT !.added = @ \cup {c}, !.next = @ + 1]
  <2>1. /\ u.workspace = t.workspace /\ u.batch = t.batch /\ u.at = t.at /\ u.doomed = t.doomed
        /\ u.gone = t.gone /\ u.added = t.added \cup {c} /\ u.next = t.next + 1
        /\ u.count = t.count /\ Shaped(u)
    <3>1. Shaped(t)
      BY <1>2 DEF TxType
    <3>2. QED
      BY <3>1 DEF Shaped, Fields
  <2>2. tx' = [tx EXCEPT ![p] = u]
    BY <1>5, <1>7
  <2> HIDE DEF u
  <2>3. TxType(u)
    <3>1. \A n : ChunkRow(u, n) = ChunkRow(t, n)
      BY <2>1 DEF ChunkRow, Given
    <3>2. \A n \in Nat : n < u.next <=> n < t.next \/ n = t.next
      BY <1>2, <2>1 DEF TxType
    <3>3. t.added = {ChunkRow(t, n) : n \in {n \in Nat : n < t.next}} /\ t.next \in Nat
      BY <1>2 DEF TxType
    <3>4. u.added = {ChunkRow(u, n) : n \in {n \in Nat : n < u.next}}
      BY <1>3, <2>1, <3>1, <3>2, <3>3
    <3>5. QED
      BY <1>2, <2>1, <3>4 DEF TxType
  <2>4. c \in u.added
    BY <2>1
  <2>5. c.table = "chunk" /\ c.up = {<<"document", 1>>}
    BY <2>3, <2>4, AddedAre
  <2>6. Refers(db, c)
    <3>1. Refers(Seen(p), c)
      BY <1>7 DEF Fits
    <3>2. \A s \in Seen(p) : s \in db \/ s.table = "chunk"
      BY <1>1, <1>2, AddedAre DEF Seen
    <3>3. \A s \in Seen(p) : Names(s)[1] # "chunk" => s \in db
      BY <3>2, NamesOf
    <3>4. QED
      BY <2>5, <3>1, <3>3 DEF Refers
  <2>7. \A s \in db \ t.gone : ~Clashes(s, c)
    BY <1>1, <1>7 DEF Fits, Seen
  <2>8. TxHolds(u)
    BY <1>2, <2>1, <2>6, <2>7 DEF TxHolds
  <2>9. TxTakes(u)
    BY <1>2, <2>1 DEF TxTakes, AllOrNone
  <2>10. ASSUME NEW q \in Open \ {p} PROVE Beside(u, tx[q]) /\ Beside(tx[q], u)
    <3>1. Beside(t, tx[q]) /\ Beside(tx[q], t)
      BY <1>1, <1>2 DEF TablesInv, TxApart
    <3>2. \A s \in tx[q].gone \cup tx[q].added : ~Clashes(s, c) /\ ~Clashes(c, s)
      BY <1>5, ClashesBothWays
    <3>3. QED
      BY <2>1, <3>1, <3>2 DEF Beside
  <2>11. QED
    BY <1>5, <2>2, <2>3, <2>8, <2>9, <2>10, OneTransaction
<1>8. QED
  BY <1>6, <1>7

-----------------------------------------------------------------------------
\* The chunks a transaction has added do not clash with each other, and have the
\* keys from 0 on.
LEMMA AddedApart ==
    ASSUME NEW t, TxType(t)
    PROVE  /\ \A r, s \in t.added : Clashes(r, s) => r = s
           /\ t.added # {} => \E r \in t.added : r.key = 0
           /\ {r.key : r \in t.added} = 0..(t.next - 1)
<1>1. t.added = {ChunkRow(t, n) : n \in {n \in Nat : n < t.next}} /\ t.next \in Nat
  BY DEF TxType
<1>2. \A n : /\ ChunkRow(t, n).key = n /\ ChunkRow(t, n).id = <<t.batch, n>>
             /\ ChunkRow(t, n).id[2] = n
  BY DEF ChunkRow, Row
<1>3. \A r \in t.added : r.key \in Nat /\ r.key < t.next /\ r = ChunkRow(t, r.key) /\ r.id[2] = r.key
  BY <1>1, <1>2
<1>4. \A n \in Nat : n < t.next => ChunkRow(t, n) \in t.added
  BY <1>1
<1>5. \A r, s \in t.added : Clashes(r, s) => r = s
  BY <1>3 DEF Clashes
<1>6. ASSUME NEW r \in t.added, NEW n \in 0..r.key PROVE \E s \in t.added : s.key = n
  <2>1. n \in Nat /\ n < t.next
    BY <1>1, <1>3, <1>6
  <2>2. QED
    BY <1>2, <1>4, <2>1
<1>7. t.added # {} => \E r \in t.added : r.key = 0
  BY <1>3, <1>6
<1>8. {r.key : r \in t.added} = 0..(t.next - 1)
  <2>1. ASSUME NEW n \in 0..(t.next - 1) PROVE \E r \in t.added : r.key = n
    <3>1. n \in Nat /\ n < t.next
      BY <1>1, <2>1
    <3>2. QED
      BY <1>2, <1>4, <3>1
  <2>2. ASSUME NEW r \in t.added PROVE r.key \in 0..(t.next - 1)
    BY <1>1, <1>3, <2>2
  <2>3. QED
    BY <2>1, <2>2
<1>9. QED
  BY <1>5, <1>7, <1>8

\* A transaction that has added chunks has deleted all there were: the first it
\* adds would clash with the first of them.
LEMMA AddsToNone ==
    ASSUME TablesInv, NEW t, TxType(t), TxHolds(t), TxTakes(t), t.added # {}
    PROVE  ChunksOf(t.workspace) \subseteq t.gone
<1>1. PICK a \in t.added : a.key = 0
  BY AddedApart
<1>2. a.table = "chunk" /\ a.workspace = t.workspace
  BY AddedAre
<1>3. ASSUME NEW c \in ChunksOf(t.workspace), t.gone \cap ChunksOf(t.workspace) = {} PROVE FALSE
  <2>1. c.key \in Nat /\ c.val.count \in Nat
    BY <1>3, ChunksAre DEF TablesInv, GoodRows, GoodRow
  <2>2. PICK b \in ChunksOf(t.workspace) : b.key = 0
    <3>1. {b.key : b \in ChunksOf(t.workspace)} = 0..(c.val.count - 1)
      BY <1>3 DEF TablesInv, OneStrategy, TxType
    <3>2. c.key \in 0..(c.val.count - 1)
      BY <1>3, <3>1
    <3>3. 0 \in 0..(c.val.count - 1)
      BY <2>1, <3>2
    <3>4. QED
      BY <3>1, <3>3
  <2>3. b \in db \ t.gone /\ b.table = "chunk" /\ b.workspace = t.workspace
    BY <1>3, <2>2, ChunksAre DEF TablesInv
  <2>4. Clashes(b, a)
    BY <1>1, <1>2, <2>2, <2>3 DEF Clashes
  <2>5. QED
    BY <2>3, <2>4 DEF TxHolds
<1>4. QED
  BY <1>3 DEF TxTakes, AllOrNone

LEMMA CommitIs ==
    ASSUME TablesInv, NEW p \in Writers, Commit(p), NEW t, t = tx[p]
    PROVE  /\ p \in Open /\ TxType(t) /\ TxHolds(t) /\ TxTakes(t)
           /\ t.next = t.count /\ scope' = t.workspace
           /\ db' = (db \ t.gone) \cup t.added
           /\ tx' = [tx EXCEPT ![p] = None]
BY DEF Commit, Open, TablesInv, TxInv, Seen

\* The chunks there are after a commit.
LEMMA CommitReplaces ==
    ASSUME TablesInv, NEW p \in Writers, Commit(p), NEW t, t = tx[p]
    PROVE  /\ \A v : v # t.workspace => ChunksOf(v)' = ChunksOf(v)
           /\ ChunksOf(t.workspace)' = (ChunksOf(t.workspace) \ t.gone) \cup t.added
           /\ t.added # {} => ChunksOf(t.workspace)' = t.added
           /\ ChunksOf(t.workspace) \ t.gone \in {{}, ChunksOf(t.workspace)}
<1>1. /\ TxType(t) /\ TxHolds(t) /\ TxTakes(t)
      /\ db' = (db \ t.gone) \cup t.added
  BY CommitIs
<1>2. \A r \in t.added : r.table = "chunk" /\ r.workspace = t.workspace /\ <<"document", 1>> \in r.up
  BY <1>1, AddedAre
<1>3. \A r \in t.gone : r.workspace = t.workspace
  BY <1>1 DEF TxHolds
<1>4. \A v : v # t.workspace => ChunksOf(v)' = ChunksOf(v)
  BY <1>1, <1>2, <1>3 DEF ChunksOf, Where
<1>5. ChunksOf(t.workspace)' = (ChunksOf(t.workspace) \ t.gone) \cup t.added
  BY <1>1, <1>2 DEF ChunksOf, Where
<1>6. t.added # {} => ChunksOf(t.workspace) \subseteq t.gone
  BY <1>1, AddsToNone
<1>7. QED
  BY <1>1, <1>4, <1>5, <1>6 DEF TxTakes, AllOrNone

LEMMA CommitKeeps == ASSUME TablesInv, NEW p \in Writers, Commit(p) PROVE TablesInv'
<1>1. PICK t : t = tx[p]
  OBVIOUS
<1>2. /\ p \in Open /\ TxType(t) /\ TxHolds(t) /\ TxTakes(t)
      /\ db' = (db \ t.gone) \cup t.added
      /\ tx' = [tx EXCEPT ![p] = None]
  BY <1>1, CommitIs
<1>3. \A r \in t.added : /\ r.table = "chunk" /\ r.workspace = t.workspace /\ r.val = Given(t)
                         /\ r.val.batch = t.batch /\ r.val.count = t.count
                         /\ r.up = {<<"document", 1>>} /\ GoodRow(r)
  BY <1>2, AddedAre
<1>4. GoodRows'
  BY <1>2, <1>3 DEF TablesInv, GoodRows
<1>5. Unique'
  <2>1. \A r \in t.added, s \in db \ t.gone : ~Clashes(s, r) /\ ~Clashes(r, s)
    BY <1>2, ClashesBothWays DEF TxHolds
  <2>2. QED
    BY <1>2, <2>1, AddedApart DEF TablesInv, Unique
\* The rows that go are chunks and embeddings, which what stays does not name.
<1>6. ASSUME NEW r, Refers(db, r), r.up \cap {Names(s) : s \in t.gone} = {}
      PROVE  Refers(db', r)
  <2>1. \A s \in db : Names(s)[1] = "workspace" => s \in db'
    BY <1>2, NamesOf DEF TxHolds
  <2>2. \A s \in db : Names(s) \in r.up => s \in db'
    BY <1>2, <1>6
  <2>3. QED
    BY <1>6, <2>1, <2>2 DEF Refers
<1>7. ASSUME NEW r, r.up = {<<"document", 1>>} PROVE r.up \cap {Names(s) : s \in t.gone} = {}
  BY <1>2, <1>7, NamesOf DEF TxHolds
<1>8. ReferencesHold'
  <2>1. ASSUME NEW r \in db \ t.gone PROVE Refers(db', r)
    BY <1>2, <1>6, <2>1 DEF TablesInv, ReferencesHold, TxHolds, Closed
  <2>2. ASSUME NEW r \in t.added PROVE Refers(db', r)
    BY <1>2, <1>3, <1>6, <1>7, <2>2 DEF TxHolds
  <2>3. QED
    BY <1>2, <2>1, <2>2 DEF ReferencesHold
<1>9. PICK v : v = t.workspace
  OBVIOUS
<1>10. /\ \A w : w # v => ChunksOf(w)' = ChunksOf(w)
       /\ ChunksOf(v)' = (ChunksOf(v) \ t.gone) \cup t.added
       /\ t.added # {} => ChunksOf(v)' = t.added
       /\ ChunksOf(v) \ t.gone \in {{}, ChunksOf(v)}
  BY <1>1, <1>9, CommitReplaces
<1>11. OneStrategy'
  <2>1. ASSUME NEW w \in Workspaces, NEW c \in ChunksOf(w)', NEW e \in ChunksOf(w)'
        PROVE  c.val = e.val /\ {b.key : b \in ChunksOf(w)'} = 0..(c.val.count - 1)
    <3>1. CASE w = v /\ t.added # {}
      <4>1. ChunksOf(w)' = t.added
        BY <1>10, <3>1
      <4>2. c.val = Given(t) /\ e.val = Given(t) /\ c.val.count = t.next
        BY <1>1, <1>3, <2>1, <4>1, CommitIs
      <4>3. QED
        BY <1>2, <4>1, <4>2, AddedApart
    <3>2. CASE w # v \/ t.added = {}
      <4>1. ChunksOf(w)' = ChunksOf(w)
        BY <1>10, <2>1, <3>2
      <4>2. QED
        BY <2>1, <4>1 DEF TablesInv, OneStrategy
    <3>3. QED
      BY <3>1, <3>2
  <2>2. QED
    BY <2>1 DEF OneStrategy
<1>12. tx = [q \in Writers |-> tx[q]]
  BY DEF TablesInv
<1>13. tx'[p] = None /\ \A q \in Writers \ {p} : tx'[q] = tx[q]
  BY <1>12, <1>2
<1>14. tx' = [q \in Writers |-> tx'[q]]
  BY <1>12, <1>2
<1>15. ASSUME NEW q \in Open \ {p}, NEW u, u = tx[q] PROVE TxType(u) /\ TxHolds(u)' /\ TxTakes(u)'
  <2>1. TxType(u) /\ TxHolds(u) /\ TxTakes(u) /\ Beside(t, u) /\ Beside(u, t)
    BY <1>1, <1>2, <1>15 DEF TablesInv, TxInv, TxApart
  <2>2. u.gone \cap t.gone = {} /\ u.gone \subseteq db' /\ u.gone \subseteq db
    BY <1>2, <2>1 DEF Beside, TxHolds
  <2>3. Closed(u.gone)'
    <3>1. ASSUME NEW r \in db', r.up \cap {Names(s) : s \in u.gone} # {} PROVE r \in u.gone
      <4>1. CASE r \in db
        BY <2>1, <3>1, <4>1 DEF TxHolds, Closed
      <4>2. CASE r \in t.added
        <5>1. r.up = {<<"document", 1>>}
          BY <1>3, <4>2
        <5>2. \A s \in u.gone : Names(s)[1] # "document"
          BY <2>1, NamesOf DEF TxHolds
        <5>3. QED
          BY <3>1, <5>1, <5>2
      <4>3. QED
        BY <1>2, <3>1, <4>1, <4>2
    <3>2. QED
      BY <3>1 DEF Closed
  <2>4. ASSUME NEW a \in u.added PROVE Refers(db', a) /\ \A s \in db' \ u.gone : ~Clashes(s, a)
    <3>1. a.up = {<<"document", 1>>} /\ Refers(db, a)
      BY <2>1, AddedAre DEF TxHolds
    <3>2. Refers(db', a)
      BY <1>6, <1>7, <3>1
    <3>3. \A s \in db \ u.gone : ~Clashes(s, a)
      BY <2>1 DEF TxHolds
    <3>4. \A s \in t.added : ~Clashes(s, a)
      BY <2>1, ClashesBothWays DEF Beside
    <3>5. QED
      BY <1>2, <3>2, <3>3, <3>4
  <2>5. u.batch \notin BatchesOf(Chunks)'
    BY <1>2, <1>3, <2>1 DEF TxHolds, Beside, BatchesOf, Chunks
  <2>6. TxHolds(u)'
    BY <2>1, <2>2, <2>3, <2>4, <2>5 DEF TxHolds
  <2>7. PICK w : w = u.workspace
    OBVIOUS
  <2>8. u.gone \cap t.added = {}
    <3>1. \A r : Clashes(r, r)
      BY DEF Clashes
    <3>2. QED
      BY <2>1, <3>1 DEF Beside
  <2>9. u.doomed \cap t.added = {}
    BY <1>3, <2>1 DEF Beside, BatchesOf
  <2>10. AllOrNone(u.gone, w) /\ (u.doomed \cap db \in {{}, ChunksOf(w)} \/ u.at = "insert")
    BY <2>1, <2>7 DEF TxTakes
  <2>11. CASE w # v
    <3>1. ChunksOf(w)' = ChunksOf(w)
      BY <1>10, <2>11
    <3>2. \A r \in t.gone : r.workspace = v
      BY <1>2, <1>9 DEF TxHolds
    <3>3. \A r \in ChunksOf(w) : r \notin t.gone
      BY <2>11, <3>2 DEF ChunksOf, Where
    <3>4. u.doomed \cap db' \in {{}, ChunksOf(w)} \/ u.at = "insert"
      BY <1>2, <2>9, <2>10, <3>3
    <3>5. QED
      BY <2>6, <2>1, <2>7, <2>10, <3>1, <3>4 DEF TxTakes, AllOrNone
  <2>12. CASE w = v
    <3>1. AllOrNone(u.gone, w)'
      <4>1. CASE u.gone \cap ChunksOf(w) = {}
        BY <1>10, <2>8, <2>12, <4>1 DEF AllOrNone
      <4>2. CASE u.gone \cap ChunksOf(w) = ChunksOf(w) /\ ChunksOf(w) # {}
        <5>1. ChunksOf(w) \ t.gone = ChunksOf(w)
          BY <2>2, <4>2
        <5>2. t.added = {}
          BY <1>1, <1>2, <1>9, <2>12, <4>2, <5>1, AddsToNone
        <5>3. ChunksOf(w)' = ChunksOf(w)
          BY <1>10, <2>12, <5>1, <5>2
        <5>4. QED
          BY <4>2, <5>3 DEF AllOrNone
      <4>3. QED
        BY <2>10, <4>1, <4>2 DEF AllOrNone
    <3>2. u.doomed \cap db' \in {{}, ChunksOf(w)'} \/ u.at = "insert"
      <4>1. u.doomed \cap db' = (u.doomed \cap db) \ t.gone
        BY <1>2, <2>9
      <4>2. CASE u.doomed \cap db = {}
        BY <4>1, <4>2
      <4>3. CASE u.doomed \cap db = ChunksOf(w)
        <5>1. u.doomed \cap db' = ChunksOf(v) \ t.gone
          BY <2>12, <4>1, <4>3
        <5>2. CASE t.added = {}
          BY <1>10, <2>12, <5>1, <5>2
        <5>3. CASE t.added # {}
          BY <1>2, <1>9, <5>1, <5>3, AddsToNone
        <5>4. QED
          BY <5>2, <5>3
      <4>4. QED
        BY <2>10, <4>2, <4>3
    <3>3. QED
      BY <2>6, <2>1, <2>7, <3>1, <3>2 DEF TxTakes
  <2>13. QED
    BY <2>11, <2>12
<1>16. TxInv'
  <2>1. ASSUME NEW q \in Writers, tx'[q] # None, NEW u, u = tx'[q]
        PROVE  TxType(u) /\ TxHolds(u)' /\ TxTakes(u)'
    BY <1>13, <1>15, <2>1 DEF Open
  <2>2. QED
    BY <2>1 DEF TxInv, Open
<1>17. TxApart'
  <2>1. ASSUME NEW q \in Writers, NEW r \in Writers, q # r, tx'[q] # None, tx'[r] # None
        PROVE  Beside(tx'[q], tx'[r])
    BY <1>13, <2>1 DEF TablesInv, TxApart, Open
  <2>2. QED
    BY <2>1 DEF TxApart, Open
<1>18. QED
  BY <1>4, <1>5, <1>8, <1>11, <1>14, <1>16, <1>17 DEF TablesInv

-----------------------------------------------------------------------------
\* A row of a table that is not "chunk", "run" or "workspace".
LEMMA PlainRow ==
    ASSUME NEW t \in Tables \ {"chunk", "run", "workspace"}, NEW i, NEW w, NEW up, NEW k, NEW v,
           IF t \in Shared THEN w = Global /\ up = {} ELSE w \in Workspaces,
           \A u \in up : u[1] \in Parents[t]
    PROVE  LET r == Row(t, i, w, up, k, v) IN GoodRow(r) /\ r.table = t
<1> DEFINE r == Row(t, i, w, up, k, v)
<1>1. /\ r.table = t /\ r.id = i /\ r.workspace = w /\ r.up = up /\ r.key = k /\ r.val = v
  BY DEF Row
<1> HIDE DEF r
<1>2. r = Row(r.table, r.id, r.workspace, r.up, r.key, r.val)
  BY <1>1 DEF r
<1>3. t \notin Shared => t \in DOMAIN Parents
  BY DEF Tables, Shared
<1>4. QED
  BY <1>1, <1>2, <1>3 DEF GoodRow, r

LEMMA HeldRows ==
    ASSUME TablesInv, NEW r \in Held
    PROVE  r.table \in {"chunk", "embedding"}
BY AddedAre DEF TablesInv, TxInv, TxHolds, Held

\* What a call may write over a row.
Advances(v, x) ==
    /\ RunValue(x) /\ v.tokens <= x.tokens /\ (v.estimated => x.estimated)
    /\ v.status = "terminal" => x.status = "terminal"

Adds == \E r : GoodRow(r) /\ r.table # "chunk" /\ Create(r)
Removes == \E w \in Workspaces : \E gone : Ordinary(gone, w) /\ Delete(gone, w)
Changes ==
    \E w \in Workspaces : \E old \in db \ Held : \E x :
        /\ old.table \in {"run", "embedding", "retention_policy"}
        /\ old.workspace = w \/ old.table = "embedding"
        /\ old.table = "run" => Advances(old.val, x)
        /\ Update(old, x, w)

LEMMA AddsARow ==
    ASSUME NEW t \in Tables \ {"chunk", "run", "workspace"}, NEW i, NEW w, NEW up, NEW k, NEW v,
           IF t \in Shared THEN w = Global /\ up = {} ELSE w \in Workspaces,
           \A u \in up : u[1] \in Parents[t], Create(Row(t, i, w, up, k, v))
    PROVE  Adds
<1>1. PICK r : r = Row(t, i, w, up, k, v)
  OBVIOUS
<1>2. GoodRow(r) /\ r.table = t
  BY <1>1, PlainRow
<1>3. QED
  BY <1>1, <1>2 DEF Adds

LEMMA RemovesRows ==
    ASSUME NEW w \in Workspaces, NEW gone, Delete(gone, w),
           NEW t \in {"membership", "experiment", "run", "document", "embedding", "trace_event"},
           gone \subseteq Where(t, w)
    PROVE  Removes
<1>1. Rank[t] <= 3 /\ t # "chunk"
  BY DEF Rank
<1>2. Ordinary(gone, w)
  BY <1>1 DEF Ordinary, Where
<1>3. QED
  BY <1>2 DEF Removes

LEMMA ChangesARow ==
    ASSUME TablesInv, NEW w \in Workspaces, NEW t \in {"run", "retention_policy"},
           NEW old \in Where(t, w), NEW x, t = "run" => Advances(old.val, x), Update(old, x, w)
    PROVE  Changes
<1>1. old \in db /\ old.table = t /\ old.workspace = w
  BY DEF Where
<1>2. old \notin Held
  BY <1>1, HeldRows
<1>3. QED
  BY <1>1, <1>2 DEF Changes

LEMMA AccountsCall == ASSUME TablesInv, NEW w \in Workspaces, Accounts(w) PROVE Adds \/ Removes
<1>1. CASE CreateWorkspace(w)
  <2>1. PICK r : r = Row("workspace", w, w, {}, None, None)
    OBVIOUS
  <2>2. /\ r.table = "workspace" /\ r.id = w /\ r.workspace = w /\ r.up = {}
        /\ r.key = None /\ r.val = None
    BY <2>1 DEF Row
  <2>3. "workspace" \in Tables \ Shared
    BY DEF Tables, Shared
  <2>4. GoodRow(r)
    BY <2>1, <2>2, <2>3 DEF GoodRow
  <2>5. QED
    BY <1>1, <2>1, <2>2, <2>4 DEF CreateWorkspace, Adds
<1>2. CASE DeleteWorkspace(w)
  BY <1>2 DEF DeleteWorkspace, Removes, Ordinary
<1>3. ASSUME NEW u \in Users, CreateUser(u) PROVE Adds
  <2>1. "app_user" \in (Tables \ {"chunk", "run", "workspace"}) \cap Shared
    BY DEF Tables, Shared
  <2>2. QED
    BY <1>3, <2>1, AddsARow DEF CreateUser
<1>4. ASSUME NEW u \in Users, RemoveMember(w, u) PROVE Removes
  BY <1>4, RemovesRows DEF RemoveMember
<1>5. ASSUME NEW u \in Users, NEW role, AddMember(w, u, role) PROVE Adds
  <2>1. "membership" \in Tables \ ({"chunk", "run", "workspace"} \cup Shared)
    BY DEF Tables, Shared, Parents
  <2>2. \A x \in {<<"app_user", u>>} : x[1] \in Parents["membership"]
    BY DEF Parents
  <2>3. QED
    BY <1>5, <2>1, <2>2, AddsARow DEF AddMember
<1>6. ASSUME NEW u \in Users, NEW decision, RecordApproval(w, u, decision) PROVE Adds
  <2>1. "approval" \in Tables \ ({"chunk", "run", "workspace"} \cup Shared)
    BY DEF Tables, Shared, Parents
  <2>2. \A x \in {<<"tool_invocation", 1>>, <<"app_user", u>>} : x[1] \in Parents["approval"]
    BY DEF Parents
  <2>3. QED
    BY <1>6, <2>1, <2>2, AddsARow DEF RecordApproval
<1>7. QED
  BY <1>1, <1>2, <1>3, <1>4, <1>5, <1>6 DEF Accounts

LEMMA CreateRunAdds ==
    ASSUME NEW w \in Workspaces, NEW x, NEW v, NEW q, CreateRun(w, x, v, q)
    PROVE  Adds
<1> DEFINE up == {<<"experiment", y>> : y \in x} \cup {<<"prompt_template_version", y>> : y \in v}
                    \cup {<<"price_table", y>> : y \in q}
<1>1. PICK r : r = Row("run", 1, w, up, 1, Running)
  OBVIOUS
<1>2. r.table = "run" /\ r.workspace = w /\ r.up = up /\ r.val = Running
      /\ r.id = 1 /\ r.key = 1
  BY <1>1 DEF Row
<1>3. "run" \in Tables \ Shared /\ "run" \in DOMAIN Parents
  BY DEF Tables, Shared, Parents
<1>4. \A u \in up : u[1] \in Parents["run"]
  BY DEF Parents
<1>5. RunValue(Running)
  BY DEF RunValue, Running
<1>6. r = Row(r.table, r.id, r.workspace, r.up, r.key, r.val)
  BY <1>1, <1>2
<1> HIDE DEF up
<1>7. GoodRow(r)
  BY <1>2, <1>3, <1>4, <1>5, <1>6 DEF GoodRow
<1>8. Create(r)
  BY <1>1 DEF CreateRun, up
<1>9. QED
  BY <1>2, <1>7, <1>8 DEF Adds

LEMMA FinishAdvances ==
    ASSUME NEW v, RunValue(v), NEW reason \in {"completed", "cancelled"}
    PROVE  Advances(v, [v EXCEPT !.status = "terminal", !.reason = reason])
<1> DEFINE x == [v EXCEPT !.status = "terminal", !.reason = reason]
<1>1. /\ x.status = "terminal" /\ x.reason = reason /\ x.tokens = v.tokens
      /\ x.estimated = v.estimated
      /\ x = [f \in {"status", "reason", "tokens", "estimated"} |-> x[f]]
  BY DEF RunValue
<1>2. reason # None
  BY RecordsAssumption
<1> HIDE DEF x
<1>3. Advances(v, x)
  BY <1>1, <1>2 DEF Advances, RunValue
<1>4. QED
  BY <1>3 DEF x

LEMMA UsageAdvances ==
    ASSUME NEW v, RunValue(v), NEW n \in 0..1, NEW e \in BOOLEAN
    PROVE  Advances(v, [v EXCEPT !.tokens = @ + n, !.estimated = @ \/ e])
<1> DEFINE x == [v EXCEPT !.tokens = @ + n, !.estimated = @ \/ e]
<1>1. /\ x.status = v.status /\ x.reason = v.reason /\ x.tokens = v.tokens + n
      /\ x.estimated = (v.estimated \/ e)
      /\ x = [f \in {"status", "reason", "tokens", "estimated"} |-> x[f]]
  BY DEF RunValue
<1> HIDE DEF x
<1>2. Advances(v, x)
  BY <1>1 DEF Advances, RunValue
<1>3. QED
  BY <1>2 DEF x

LEMMA RunsCall ==
    ASSUME TablesInv, NEW w \in Workspaces, Runs(w)
    PROVE  Adds \/ Removes \/ Changes
<1> DEFINE Plain == Tables \ ({"chunk", "run", "workspace"} \cup Shared)
<1>1. /\ {"experiment", "trace_event", "tool_invocation", "prompt_template",
          "prompt_template_version"} \subseteq Plain
      /\ "price_table" \in Shared /\ "price_table" \in Tables
      /\ Parents["trace_event"] = {"run"} /\ Parents["tool_invocation"] = {"run"}
      /\ Parents["prompt_template_version"] = {"prompt_template"}
  BY DEF Tables, Shared, Parents
<1>2. CASE CreateExperiment(w)
  BY <1>1, <1>2, AddsARow DEF CreateExperiment
<1>3. CASE DeleteExperiment(w)
  BY <1>3, RemovesRows DEF DeleteExperiment
<1>4. CASE DeleteRun(w)
  BY <1>4, RemovesRows DEF DeleteRun
<1>5. \A r \in Where("run", w) : RunValue(r.val)
  BY DEF Where, TablesInv, GoodRows, GoodRow
<1>6. ASSUME NEW reason \in {"completed", "cancelled"}, Finish(w, reason) PROVE Changes
  <2>1. PICK r \in Where("run", w) :
           Update(r, [r.val EXCEPT !.status = "terminal", !.reason = reason], w)
    BY <1>6 DEF Finish
  <2>2. QED
    BY <1>5, <2>1, FinishAdvances, ChangesARow
<1>7. ASSUME NEW n \in 0..1, NEW e \in BOOLEAN, RecordUsage(w, n, e) PROVE Changes
  <2>1. PICK r \in Where("run", w) :
           Update(r, [r.val EXCEPT !.tokens = @ + n, !.estimated = @ \/ e], w)
    BY <1>7 DEF RecordUsage
  <2>2. QED
    BY <1>5, <2>1, UsageAdvances, ChangesARow
<1>8. CASE AppendEvent(w)
  BY <1>1, <1>8, AddsARow DEF AppendEvent
<1>9. CASE DeleteForRun(w)
  BY <1>9, RemovesRows DEF DeleteForRun
<1>10. CASE CreateInvocation(w)
  BY <1>1, <1>10, AddsARow DEF CreateInvocation
<1>11. CASE CreateTemplate(w)
  BY <1>1, <1>11, AddsARow DEF CreateTemplate
<1>12. ASSUME NEW v, AddVersion(w, v) PROVE Adds
  BY <1>1, <1>12, AddsARow DEF AddVersion
<1>13. ASSUME NEW v, AddPriceVersion(v) PROVE Adds
  BY <1>1, <1>13, AddsARow DEF AddPriceVersion
<1>14. QED
  BY <1>2, <1>3, <1>4, <1>6, <1>7, <1>8, <1>9, <1>10, <1>11, <1>12, <1>13, CreateRunAdds DEF Runs

LEMMA UpsertCall ==
    ASSUME TablesInv, NEW w \in Workspaces, NEW c \in Chunks, UpsertEmbedding(w, c)
    PROVE  Adds \/ Changes
<1>1. PICK new : new = Row("embedding", 1, w, {Names(c)} \cup c.up, Names(c), 1)
  OBVIOUS
<1>2. PICK old : old = {r \in db : r.table = "embedding" /\ r.key = new.key}
  OBVIOUS
<1>3. \/ Create(new)
      \/ \E r \in old \ Held : Update(r, 1 - r.val, w)
  BY <1>1, <1>2 DEF UpsertEmbedding
<1>4. CASE Create(new)
  <2>1. "embedding" \in Tables \ ({"chunk", "run", "workspace"} \cup Shared)
        /\ Parents["embedding"] = {"chunk", "document"}
    BY DEF Tables, Shared, Parents
  <2>2. c.up = {<<"document", 1>>} /\ Names(c)[1] = "chunk"
    BY DEF Names, Chunks, TablesInv, GoodRows, GoodRow
  <2>3. \A u \in {Names(c)} \cup c.up : u[1] \in Parents["embedding"]
    BY <2>1, <2>2
  <2>4. QED
    BY <1>1, <1>4, <2>1, <2>3, AddsARow
<1>5. ASSUME NEW r \in old \ Held, Update(r, 1 - r.val, w) PROVE Changes
  BY <1>2, <1>5 DEF Changes
<1>6. QED
  BY <1>3, <1>4, <1>5

LEMMA DocumentsCall ==
    ASSUME TablesInv, NEW w \in Workspaces, Documents(w)
    PROVE  \/ Adds \/ Removes \/ Changes
           \/ \E p \in Writers, n \in 0..MaxChunks : Begin(p, w, n)
<1> DEFINE Plain == Tables \ ({"chunk", "run", "workspace"} \cup Shared)
<1>1. {"document", "retention_policy"} \subseteq Plain
  BY DEF Tables, Shared, Parents
<1>2. CASE CreateDocument(w)
  BY <1>1, <1>2, AddsARow DEF CreateDocument
<1>3. CASE DeleteDocument(w)
  BY <1>3, RemovesRows DEF DeleteDocument
<1>4. CASE DeleteByDocument(w)
  BY <1>4, RemovesRows DEF DeleteByDocument
<1>5. ASSUME NEW days, UpsertPolicy(w, days) PROVE Adds \/ Changes
  <2>1. CASE Create(Row("retention_policy", w, w, {}, "document", days))
    BY <1>1, <2>1, AddsARow
  <2>2. ASSUME NEW r \in Where("retention_policy", w), Update(r, days, w) PROVE Changes
    BY <2>2, ChangesARow
  <2>3. QED
    BY <1>5, <2>1, <2>2 DEF UpsertPolicy
<1>6. QED
  BY <1>2, <1>3, <1>4, <1>5, UpsertCall DEF Documents, Chunks

-----------------------------------------------------------------------------
(* The schema: however many processes migrate at the same time, from
   whatever working trees. *)

\* The places a process can be at with the working tree t.
At(t) ==
    [at : {"reading", "serving"}, tree : {t}]
        \cup [at : {"applying"}, tree : {t}, done : SUBSET Files(t), left : SUBSET DOMAIN t]

SchemaTypes ==
    /\ boot = [p \in Processes |-> boot[p]]
    /\ \A p \in Processes :
          boot[p] = Down \/ \E t \in Trees : Consecutive(t) /\ boot[p] \in At(t)

OneOfEach == \A x, y \in made : x # y => ~Collides(x, y)

\* What a process found recorded is the part of its files it neither made nor
\* has left, and is still there.
Base(p) == {x \in Files(boot[p].tree) : x[1] \notin boot[p].left \cup Numbers(boot[p].done)}
Based == \A p \in Processes : boot[p].at = "applying" => Base(p) \subseteq made

\* What is made and not committed collides with nothing that is there, nor with
\* anything made beside it.
Separate ==
    /\ \A p \in Processes : \A x \in Uncommitted(p) :
          /\ \A y \in made : ~Collides(x, y)
          /\ \A y \in Uncommitted(p) : x # y => ~Collides(x, y)
    /\ \A p, q \in Processes : p # q =>
          \A x \in Uncommitted(p), y \in Uncommitted(q) : ~Collides(x, y)

SchemaInv ==
    /\ SchemaTypes
    /\ made = recorded /\ OneOfEach /\ Gapless(Numbers(made))
    /\ Based /\ Separate /\ ServesItsFiles

-----------------------------------------------------------------------------
\* The files of a tree have one text for each number.
LEMMA FilesAreNumbered ==
    ASSUME NEW t
    PROVE  /\ \A x, y \in Files(t) : x[1] = y[1] => x = y
           /\ Numbers(Files(t)) = DOMAIN t
           /\ \A x \in Files(t) : x[1] \in DOMAIN t
<1>1. \A x \in Files(t) : x[1] \in DOMAIN t /\ x = <<x[1], t[x[1]]>>
  BY DEF Files
<1>2. \A n \in DOMAIN t : <<n, t[n]>> \in Files(t) /\ <<n, t[n]>>[1] = n
  BY DEF Files
<1>3. QED  BY <1>1, <1>2 DEF Numbers

LEMMA CollidesBothWays == \A x, y : Collides(x, y) => Collides(y, x)
BY DEF Collides

LEMMA SchemaHolds == SchemaInv => AsItsFiles
BY DEF SchemaInv, OneOfEach, RecordedAsMade, AsItsFiles

\* Before any process has started.
LEMMA AllDown ==
    ASSUME made = recorded, OneOfEach, Gapless(Numbers(made)),
           boot = [p \in Processes |-> Down]
    PROVE  SchemaInv
<1>1. \A p \in Processes : boot[p] = Down /\ boot[p].at = "down" /\ Uncommitted(p) = {}
  BY DEF Down, Uncommitted
<1>2. SchemaTypes
  BY <1>1 DEF SchemaTypes
<1>3. Based /\ Separate /\ ServesItsFiles
  BY <1>1 DEF Based, Separate, ServesItsFiles
<1>4. QED  BY <1>2, <1>3 DEF SchemaInv

LEMMA SchemaInit == MigrationsInit => SchemaInv
<1> SUFFICES ASSUME MigrationsInit PROVE SchemaInv
  OBVIOUS
<1>1. made = {} /\ recorded = {} /\ Numbers(made) = {} /\ boot = [p \in Processes |-> Down]
  BY DEF MigrationsInit, Numbers
<1>2. QED  BY <1>1, AllDown DEF OneOfEach, Gapless

\* Where one process goes to s, the others and the schema stay as they are.
LEMMA OneGoes ==
    ASSUME SchemaInv, NEW p \in Processes, NEW s, boot' = [boot EXCEPT ![p] = s],
           UNCHANGED <<made, recorded>>,
           s = Down \/ \E t \in Trees : Consecutive(t) /\ s \in At(t),
           s.at = "applying" => Base(p)' \subseteq made,
           \A x \in Uncommitted(p)' :
              /\ \A y \in made : ~Collides(x, y)
              /\ \A y \in Uncommitted(p)' : x # y => ~Collides(x, y)
              /\ \A q \in Processes \ {p} : \A y \in Uncommitted(q) : ~Collides(x, y),
           s.at = "serving" => Files(s.tree) \subseteq made
    PROVE  SchemaInv'
<1>1. boot'[p] = s /\ \A q \in Processes \ {p} : boot'[q] = boot[q]
  BY DEF SchemaInv, SchemaTypes
<1>2. boot' = [q \in Processes |-> boot'[q]]
  BY DEF SchemaInv, SchemaTypes
<1>3. SchemaTypes'
  BY <1>1, <1>2 DEF SchemaInv, SchemaTypes
<1>4. \A q \in Processes \ {p} : Base(q)' = Base(q) /\ Uncommitted(q)' = Uncommitted(q)
  BY <1>1 DEF Base, Uncommitted
<1>5. Based'
  BY <1>1, <1>4 DEF SchemaInv, Based
<1>6. Separate'
  <2>1. ASSUME NEW q \in Processes, NEW x \in Uncommitted(q)'
        PROVE  /\ \A y \in made' : ~Collides(x, y)
               /\ \A y \in Uncommitted(q)' : x # y => ~Collides(x, y)
    <3>1. CASE q = p
      BY <2>1, <3>1
    <3>2. CASE q # p
      BY <1>4, <2>1, <3>2 DEF SchemaInv, Separate
    <3>3. QED  BY <3>1, <3>2
  <2>2. ASSUME NEW q \in Processes, NEW r \in Processes, q # r,
               NEW x \in Uncommitted(q)', NEW y \in Uncommitted(r)'
        PROVE  ~Collides(x, y)
    <3>1. CASE q = p
      BY <1>4, <2>2, <3>1
    <3>2. CASE r = p
      BY <1>4, <2>2, <3>2, CollidesBothWays
    <3>3. CASE q # p /\ r # p
      BY <1>4, <2>2, <3>3 DEF SchemaInv, Separate
    <3>4. QED  BY <3>1, <3>2, <3>3
  <2>3. QED  BY <2>1, <2>2 DEF Separate
<1>7. ServesItsFiles'
  BY <1>1 DEF SchemaInv, ServesItsFiles
<1>8. (made = recorded /\ OneOfEach /\ Gapless(Numbers(made)))'
  BY DEF SchemaInv, OneOfEach, Gapless, Numbers
<1>9. QED  BY <1>3, <1>5, <1>6, <1>7, <1>8 DEF SchemaInv

\* A process that goes where nothing is made disturbs nobody.
LEMMA GoesQuietly ==
    ASSUME SchemaInv, NEW p \in Processes, NEW s, boot' = [boot EXCEPT ![p] = s],
           UNCHANGED <<made, recorded>>,
           s = Down \/ \E t \in Trees : Consecutive(t) /\ s \in At(t),
           s.at # "applying", s.at = "serving" => Files(s.tree) \subseteq made
    PROVE  SchemaInv'
<1>1. boot'[p] = s
  BY DEF SchemaInv, SchemaTypes
<1>2. Uncommitted(p)' = {}
  BY <1>1 DEF Uncommitted
<1>3. QED  BY <1>2, OneGoes

LEMMA GoesDown ==
    ASSUME SchemaInv, NEW p \in Processes, boot' = [boot EXCEPT ![p] = Down],
           UNCHANGED <<made, recorded>>
    PROVE  SchemaInv'
<1>1. Down.at # "applying" /\ Down.at # "serving"
  BY DEF Down
<1>2. QED  BY <1>1, GoesQuietly

\* What is let in has all that is there among its files, and starts from it.
LEMMA ReadIs ==
    ASSUME SchemaInv, NEW p \in Processes, ReadRecorded(p)
    PROVE  \/ boot' = [boot EXCEPT ![p] = Down]
           \/ \E t \in Trees : \E L \in SUBSET DOMAIN t :
                /\ Consecutive(t) /\ made \subseteq Files(boot[p].tree)
                /\ \A x \in Files(t) : x[1] \notin L => x \in made
                /\ boot' = [boot EXCEPT ![p] = [at |-> "applying", tree |-> t, done |-> {},
                                                left |-> L]]
<1>1. PICK t \in Trees : Consecutive(t) /\ boot[p] \in At(t)
  BY DEF SchemaInv, SchemaTypes, ReadRecorded, Down
<1>2. boot[p].at = "reading" /\ boot[p].tree = t
  BY <1>1 DEF At, ReadRecorded
<1>3. PICK L : L = {n \in DOMAIN t : Identifier(<<n, t[n]>>) \notin Identifiers(recorded)}
  OBVIOUS
<1>4. CASE Refused(t, recorded)
  BY <1>2, <1>4 DEF ReadRecorded, Becomes
<1>5. CASE ~Refused(t, recorded)
  <2>1. boot' = [boot EXCEPT ![p] = [at |-> "applying", tree |-> t, done |-> {}, left |-> L]]
    BY <1>2, <1>3, <1>5 DEF ReadRecorded, Becomes
  <2>2. made \subseteq Files(t)
    BY <1>5 DEF Refused, SchemaInv
  <2>3. ASSUME NEW x \in Files(t), x[1] \notin L PROVE x \in made
    <3>1. x[1] \in DOMAIN t /\ x = <<x[1], t[x[1]]>>
      BY DEF Files
    <3>2. PICK y \in recorded : Identifier(y) = Identifier(x)
      BY <1>3, <2>3, <3>1 DEF Identifiers
    <3>3. y[1] = x[1] /\ y \in made /\ y \in Files(t)
      BY <2>2, <3>2 DEF Identifier, SchemaInv
    <3>4. QED  BY <3>3, FilesAreNumbered
  <2>4. L \in SUBSET DOMAIN t
    BY <1>3
  <2>5. QED  BY <1>1, <1>2, <2>1, <2>2, <2>3, <2>4
<1>6. QED  BY <1>4, <1>5

LEMMA ReadKeeps == ASSUME SchemaInv, NEW p \in Processes, ReadRecorded(p) PROVE SchemaInv'
<1>1. UNCHANGED <<made, recorded>>
  BY DEF ReadRecorded
<1>2. CASE boot' = [boot EXCEPT ![p] = Down]
  BY <1>1, <1>2, GoesDown
<1>3. ASSUME NEW t \in Trees, NEW L \in SUBSET DOMAIN t, Consecutive(t),
             \A x \in Files(t) : x[1] \notin L => x \in made,
             boot' = [boot EXCEPT ![p] = [at |-> "applying", tree |-> t, done |-> {}, left |-> L]]
      PROVE  SchemaInv'
  <2> DEFINE s == [at |-> "applying", tree |-> t, done |-> {}, left |-> L]
  <2>1. s \in At(t) /\ s.at # "serving"
    BY DEF At
  <2>2. boot'[p] = s
    BY <1>3 DEF SchemaInv, SchemaTypes
  <2>3. Uncommitted(p)' = {}
    BY <2>2 DEF Uncommitted
  <2>4. Base(p)' \subseteq made
    BY <1>3, <2>2 DEF Base
  <2>5. boot' = [boot EXCEPT ![p] = s]
    BY <1>3
  <2> HIDE DEF s
  <2>6. QED  BY <1>1, <1>3, <2>1, <2>3, <2>4, <2>5, OneGoes
<1>4. QED  BY <1>2, <1>3, ReadIs

LEMMA ApplyKeeps == ASSUME SchemaInv, NEW p \in Processes, ApplyNext(p) PROVE SchemaInv'
<1>1. PICK t \in Trees : Consecutive(t) /\ boot[p] \in At(t)
  BY DEF SchemaInv, SchemaTypes, ApplyNext, Down
<1> DEFINE D == boot[p].done
           L == boot[p].left
<1>2. /\ boot[p].at = "applying" /\ boot[p].tree = t
      /\ D \subseteq Files(t) /\ L \subseteq DOMAIN t /\ Uncommitted(p) = D
  BY <1>1 DEF At, ApplyNext, Uncommitted
<1>3. PICK x \in Pending(p) :
         /\ ~Waits(p, x)
         /\ Becomes(p, IF \E y \in made \cup boot[p].done : Collides(x, y) THEN Down
                       ELSE [at |-> "applying", tree |-> boot[p].tree,
                             left |-> boot[p].left \ {x[1]}, done |-> boot[p].done \cup {x}])
  BY DEF ApplyNext
<1>4. x \in Files(t) /\ x[1] \in L /\ UNCHANGED <<made, recorded>>
  BY <1>2, <1>3 DEF Pending, ApplyNext
<1>5. CASE \E y \in made \cup D : Collides(x, y)
  BY <1>3, <1>4, <1>5, GoesDown DEF Becomes
<1>6. CASE ~ \E y \in made \cup D : Collides(x, y)
  <2> DEFINE s == [at |-> "applying", tree |-> t, left |-> L \ {x[1]}, done |-> D \cup {x}]
  <2>1. boot' = [boot EXCEPT ![p] = s]
    BY <1>2, <1>3, <1>6 DEF Becomes
  <2>2. s \in At(t) /\ s.at # "serving"
    BY <1>2, <1>4 DEF At
  <2>3. boot'[p] = s
    BY <2>1 DEF SchemaInv, SchemaTypes
  <2>4. Uncommitted(p)' = D \cup {x}
    BY <2>3 DEF Uncommitted
  <2>5. Base(p)' \subseteq made
    <3>1. Numbers(D \cup {x}) = Numbers(D) \cup {x[1]}
      BY DEF Numbers
    <3>2. /\ boot'[p].tree = t /\ boot'[p].left = L \ {x[1]} /\ boot'[p].done = D \cup {x}
      BY <2>3
    <3>3. Base(p)' \subseteq Base(p)
      BY <1>2, <3>1, <3>2 DEF Base
    <3>4. QED  BY <1>2, <3>3 DEF SchemaInv, Based
  <2>6. ASSUME NEW y \in D \cup {x}
        PROVE  /\ \A z \in made : ~Collides(y, z)
               /\ \A z \in D \cup {x} : y # z => ~Collides(y, z)
               /\ \A q \in Processes \ {p} : \A z \in Uncommitted(q) : ~Collides(y, z)
    <3>1. CASE y = x
      BY <1>3, <1>6, <3>1 DEF Waits
    <3>2. CASE y \in D
      <4>1. ~Collides(y, x)
        BY <1>6, <3>2, CollidesBothWays
      <4>2. QED  BY <1>2, <3>2, <4>1 DEF SchemaInv, Separate
    <3>3. QED  BY <2>6, <3>1, <3>2
  <2> HIDE DEF s
  <2>7. QED  BY <1>1, <1>4, <2>1, <2>2, <2>4, <2>5, <2>6, OneGoes
<1>7. QED  BY <1>5, <1>6

\* With nothing left, what a process found and what it made are all its files.
LEMMA ServesAll ==
    ASSUME SchemaInv, NEW p \in Processes, Serve(p)
    PROVE  \E t \in Trees :
             /\ Consecutive(t)
             /\ made' = made \cup Uncommitted(p) /\ recorded' = made'
             /\ Files(t) \subseteq made' /\ Uncommitted(p) \subseteq Files(t)
             /\ boot' = [boot EXCEPT ![p] = [at |-> "serving", tree |-> t]]
<1>1. PICK t \in Trees : Consecutive(t) /\ boot[p] \in At(t)
  BY DEF SchemaInv, SchemaTypes, Serve, Down
<1>2. /\ boot[p].at = "applying" /\ boot[p].tree = t /\ boot[p].left = {}
      /\ boot[p].done \subseteq Files(t) /\ Uncommitted(p) = boot[p].done
  BY <1>1 DEF At, Serve, Uncommitted
<1>3. ASSUME NEW x \in Files(t), x[1] \in Numbers(boot[p].done) PROVE x \in boot[p].done
  <2>1. PICK y \in boot[p].done : y[1] = x[1]
    BY <1>3 DEF Numbers
  <2>2. y = x
    BY <1>2, <2>1, FilesAreNumbered
  <2>3. QED  BY <2>1, <2>2
<1>4. Files(t) \subseteq Base(p) \cup boot[p].done
  BY <1>2, <1>3 DEF Base
<1>5. Base(p) \subseteq made
  BY <1>2 DEF SchemaInv, Based
<1>6. made' = made \cup boot[p].done /\ recorded' = made'
  BY DEF Serve, SchemaInv
<1>7. boot' = [boot EXCEPT ![p] = [at |-> "serving", tree |-> t]]
  BY <1>2 DEF Serve, Becomes
<1>8. QED  BY <1>1, <1>2, <1>4, <1>5, <1>6, <1>7

LEMMA ServeKeeps == ASSUME SchemaInv, NEW p \in Processes, Serve(p) PROVE SchemaInv'
<1>1. PICK t \in Trees :
        /\ Consecutive(t)
        /\ made' = made \cup Uncommitted(p) /\ recorded' = made'
        /\ Files(t) \subseteq made' /\ Uncommitted(p) \subseteq Files(t)
        /\ boot' = [boot EXCEPT ![p] = [at |-> "serving", tree |-> t]]
  BY ServesAll
<1> DEFINE s == [at |-> "serving", tree |-> t]
<1>2. boot'[p] = s /\ \A q \in Processes \ {p} : boot'[q] = boot[q]
  BY <1>1 DEF SchemaInv, SchemaTypes
<1>3. s \in At(t)
  BY DEF At
<1>4. SchemaTypes'
  BY <1>1, <1>2, <1>3 DEF SchemaInv, SchemaTypes
<1>5. \A q \in Processes \ {p} : Base(q)' = Base(q) /\ Uncommitted(q)' = Uncommitted(q)
  BY <1>2 DEF Base, Uncommitted
<1>6. Uncommitted(p)' = {}
  BY <1>2 DEF Uncommitted
<1>7. OneOfEach'
  BY <1>1, CollidesBothWays DEF SchemaInv, OneOfEach, Separate
\* Two sets of numbers without a gap have none together.
<1>8. Gapless(Numbers(made))'
  <2>1. made' = made \cup Files(t)
    BY <1>1
  <2>2. Numbers(made') = Numbers(made) \cup Numbers(Files(t))
    BY <2>1 DEF Numbers
  <2>3. Numbers(made') = Numbers(made) \cup DOMAIN t
    BY <2>2, FilesAreNumbered
  <2>4. Gapless(Numbers(made)) /\ Gapless(DOMAIN t)
    BY <1>1 DEF SchemaInv, Consecutive
  <2>5. QED  BY <2>3, <2>4 DEF Gapless
<1>9. Based'
  <2>1. boot'[p].at = "serving"
    BY <1>2
  <2>2. QED  BY <1>1, <1>2, <1>5, <2>1 DEF SchemaInv, Based
<1>10. Separate'
  <2>1. ASSUME NEW q \in Processes \ {p}, NEW x \in Uncommitted(q)
        PROVE  \A y \in made' : ~Collides(x, y)
    BY <1>1, <2>1 DEF SchemaInv, Separate
  <2>2. QED  BY <1>5, <1>6, <2>1 DEF SchemaInv, Separate
<1>11. ServesItsFiles'
  BY <1>1, <1>2 DEF SchemaInv, ServesItsFiles
<1>12. QED  BY <1>1, <1>4, <1>7, <1>8, <1>9, <1>10, <1>11 DEF SchemaInv

LEMMA SchemaStep == SchemaInv /\ [MigrationsNext]_migrationVars => SchemaInv'
<1> SUFFICES ASSUME SchemaInv, [MigrationsNext]_migrationVars PROVE SchemaInv'
  OBVIOUS
<1>1. ASSUME NEW p \in Processes, NEW t \in Trees, Discover(p, t) PROVE SchemaInv'
  <2> DEFINE s == [at |-> "reading", tree |-> t]
  <2>1. boot' = [boot EXCEPT ![p] = s] /\ UNCHANGED <<made, recorded>> /\ Consecutive(t)
    BY <1>1 DEF Discover, Becomes
  <2>2. s \in At(t) /\ s.at # "applying" /\ s.at # "serving"
    BY DEF At
  <2> HIDE DEF s
  <2>3. QED  BY <2>1, <2>2, GoesQuietly
<1>2. ASSUME NEW p \in Processes, Stop(p) PROVE SchemaInv'
  BY <1>2, GoesDown DEF Stop, Becomes
<1>3. CASE UNCHANGED migrationVars
  <2>1. UNCHANGED <<made, recorded, boot>>
    BY <1>3 DEF migrationVars
  <2>2. SchemaTypes' /\ OneOfEach' /\ Gapless(Numbers(made))' /\ ServesItsFiles'
    BY <2>1 DEF SchemaInv, SchemaTypes, OneOfEach, Numbers, Gapless, ServesItsFiles
  <2>3. \A p \in Processes : Base(p)' = Base(p) /\ Uncommitted(p)' = Uncommitted(p)
    BY <2>1 DEF Base, Uncommitted
  <2>4. Based' /\ Separate'
    BY <2>1, <2>3 DEF SchemaInv, Based, Separate
  <2>5. QED  BY <2>1, <2>2, <2>4 DEF SchemaInv
<1>4. QED
  BY <1>1, <1>2, <1>3, ReadKeeps, ApplyKeeps, ServeKeeps DEF MigrationsNext

\* Who is let in has checked what is recorded, which is what is there.
LEMMA StepLetsIn ==
    SchemaInv /\ [MigrationsNext]_migrationVars
        => [\A p \in Processes : LetIn(p)]_migrationVars
<1> SUFFICES ASSUME SchemaInv, MigrationsNext, NEW p \in Processes,
                    boot[p].at = "reading", boot'[p].at = "applying"
             PROVE  made \subseteq Files(boot[p].tree)
  BY DEF LetIn
<1>1. PICK q \in Processes :
         (\E t \in Trees : Discover(q, t)) \/ ReadRecorded(q) \/ ApplyNext(q) \/ Serve(q) \/ Stop(q)
  BY DEF MigrationsNext
<1>2. q = p
  BY <1>1 DEF SchemaInv, SchemaTypes, Discover, ReadRecorded, ApplyNext, Serve, Stop, Becomes
<1>3. ~Stop(p)
  BY DEF Stop, Becomes, Down, SchemaInv, SchemaTypes
<1>4. ReadRecorded(p)
  BY <1>1, <1>2, <1>3 DEF Discover, ApplyNext, Serve
<1>5. boot' # [boot EXCEPT ![p] = Down]
  BY DEF Down, SchemaInv, SchemaTypes
<1>6. QED  BY <1>4, <1>5, ReadIs

(***************************************************************************)
(* What is recorded is what is there, each table and identifier once and   *)
(* without gaps in the numbers; a process serves only while every file it  *)
(* has is applied, and is let in only on what it has files for             *)
(* (engine.py:80-157).                                                     *)
(***************************************************************************)
THEOREM SchemaIsServed == MigrationsSpec => ServesItsSchema
<1>1. SchemaInv' => AsItsFiles'
  BY SchemaHolds, PTL
<1>2. SchemaInv /\ SchemaInv' /\ [MigrationsNext]_migrationVars
        => [AsItsFiles' /\ \A p \in Processes : LetIn(p)]_migrationVars
  BY <1>1, StepLetsIn
<1>3. QED
  BY <1>2, SchemaHolds, SchemaInit, SchemaStep, PTL DEF MigrationsSpec, ServesItsSchema

-----------------------------------------------------------------------------
(* The whole. *)

Inv == TablesInv /\ SchemaInv

\* The steps of the writers, as far as the rows are concerned.
Writes ==
    \E p \in Writers :
        \/ \E w \in Workspaces, n \in 0..MaxChunks : Begin(p, w, n)
        \/ DeleteOld(p) \/ InsertNext(p) \/ Abort(p)

\* Every step is one of these.
LEMMA CallsAre ==
    ASSUME TablesInv, Calls
    PROVE  Adds \/ Removes \/ Changes \/ Writes \/ \E p \in Writers : Commit(p)
<1>1. ASSUME NEW w \in Workspaces, Accounts(w) \/ Runs(w) \/ Documents(w)
      PROVE  Adds \/ Removes \/ Changes \/ Writes
  BY <1>1, AccountsCall, RunsCall, DocumentsCall DEF Writes
<1>2. QED
  BY <1>1 DEF Calls, Writes

LEMMA StepsAre ==
    ASSUME TablesInv, [Next]_vars
    PROVE  \/ Adds \/ Removes \/ Changes \/ Writes \/ \E p \in Writers : Commit(p)
           \/ UNCHANGED <<db, tx>>
BY CallsAre DEF Next, vars, recordVars

LEMMA WritesChangeNoRow == Writes => UNCHANGED db
BY DEF Writes, Begin, DeleteOld, InsertNext, Abort

LEMMA TablesInit == Init => TablesInv
<1> SUFFICES ASSUME Init PROVE TablesInv
  OBVIOUS
<1> DEFINE home(w) == Row("workspace", w, w, {}, None, None)
<1>1. /\ db = {home(w) : w \in Workspaces}
      /\ tx = [p \in Writers |-> None]
  BY DEF Init
<1>2. \A w : /\ home(w).table = "workspace" /\ home(w).id = w /\ home(w).workspace = w
             /\ home(w).up = {} /\ home(w).key = None /\ home(w).val = None
  BY DEF Row
<1>3. "workspace" \in Tables \ Shared
  BY DEF Tables, Shared
<1>4. \A w \in Workspaces : GoodRow(home(w))
  BY <1>2, <1>3 DEF GoodRow
<1> HIDE DEF home
<1>5. GoodRows
  BY <1>1, <1>4 DEF GoodRows
<1>6. Unique
  <2> SUFFICES ASSUME NEW v \in Workspaces, NEW w \in Workspaces, Clashes(home(v), home(w))
               PROVE  v = w
    BY <1>1 DEF Unique
  <2>1. QED
    BY <1>2 DEF Clashes
<1>7. ReferencesHold
  BY <1>1, <1>2 DEF ReferencesHold, Refers
<1>8. OneStrategy
  BY <1>1, <1>2 DEF OneStrategy, ChunksOf, Where
<1>9. Open = {}
  BY <1>1 DEF Open
<1>10. QED
  BY <1>1, <1>5, <1>6, <1>7, <1>8, <1>9 DEF TablesInv, TxInv, TxApart

LEMMA SchemaFirst == Init => SchemaInv
<1>1. CASE area = {}
  BY <1>1, SchemaInit DEF Init
<1>2. ASSUME Init, area # {} PROVE SchemaInv
  <2>1. /\ made = Files(Deployed) /\ recorded = Files(Deployed)
        /\ boot = [p \in Processes |-> Down]
    BY <1>2 DEF Init
  <2>2. OneOfEach /\ Numbers(made) = DOMAIN Deployed
    BY <2>1, FilesAreNumbered, RecordsAssumption DEF OneOfEach
  <2>3. Gapless(Numbers(made))
    BY <2>2, RecordsAssumption DEF Consecutive
  <2>4. QED
    BY <2>1, <2>2, <2>3, AllDown
<1>3. QED
  BY <1>1, <1>2

LEMMA TablesStep == TablesInv /\ [Next]_vars => TablesInv'
<1> SUFFICES ASSUME TablesInv, [Next]_vars PROVE TablesInv'
  OBVIOUS
<1>1. CASE Adds
  BY <1>1, CreateKeeps DEF Adds
<1>2. CASE Removes
  BY <1>2, DeleteKeeps DEF Removes
<1>3. CASE Changes
  <2>1. PICK w, old, x :
          /\ w \in Workspaces /\ old \in db \ Held
          /\ old.table \in {"run", "embedding", "retention_policy"}
          /\ old.table = "run" => Advances(old.val, x)
          /\ Update(old, x, w)
    BY <1>3 DEF Changes
  <2>2. QED
    BY <2>1, UpdateKeeps DEF Update, Advances
<1>4. CASE Writes
  BY <1>4, BeginKeeps, DeleteOldKeeps, InsertKeeps, AbortKeeps DEF Writes
<1>5. CASE UNCHANGED <<db, tx>>
  <2>1. /\ Open' = Open /\ db' = db /\ tx' = tx
    BY <1>5 DEF Open
  <2>2. GoodRows' /\ Unique' /\ ReferencesHold' /\ OneStrategy'
    BY <2>1 DEF TablesInv, GoodRows, Unique, ReferencesHold, OneStrategy, ChunksOf, Where
  <2>3. ASSUME NEW t, TxHolds(t) /\ TxTakes(t) PROVE TxHolds(t)' /\ TxTakes(t)'
    BY <2>1, <2>3 DEF TxHolds, TxTakes, Closed, BatchesOf, Chunks, AllOrNone, ChunksOf, Where
  <2>4. (tx = [p \in Writers |-> tx[p]])' /\ TxInv' /\ TxApart'
    BY <2>1, <2>3, TxStays DEF TablesInv, TxInv
  <2>5. QED
    BY <2>2, <2>4 DEF TablesInv
<1>6. QED
  BY <1>1, <1>2, <1>3, <1>4, <1>5, CommitKeeps, StepsAre

LEMMA SchemaMoves == [Next]_vars => [MigrationsNext]_migrationVars
BY DEF Next, vars, migrationVars

\* The rows, the open transactions and the schema keep their invariants, also
\* while the schema is still being made.
THEOREM RecordsInv == Spec => []Inv
<1>1. Init => Inv
  BY TablesInit, SchemaFirst DEF Inv
<1>2. Inv /\ [Next]_vars => Inv'
  BY TablesStep, SchemaStep, SchemaMoves DEF Inv
<1>3. QED
  BY <1>1, <1>2, PTL DEF Spec

(***************************************************************************)
(* Whatever calls come together, no row is left that refers to one that is *)
(* gone or of another workspace: the composite foreign keys of             *)
(* 0001_initial.sql and its cascades, with replace_for_document open       *)
(* beside them.                                                            *)
(***************************************************************************)
THEOREM ReferencesAreKept == Spec => []ReferencesHold
<1>1. Inv => ReferencesHold
  BY DEF Inv, TablesInv
<1>2. QED
  BY <1>1, RecordsInv, PTL

\* How each step changes the rows.
LEMMA ChunksVanish ==
    ASSUME TablesInv, [Next]_vars, NEW w \in Workspaces
    PROVE  NeverEmptied(w)
<1> SUFFICES ASSUME ChunksOf(w) # {}, Get("document", 1, w)' # {}, ChunksOf(w)' = {}
             PROVE  \E p \in Open : tx'[p] = None /\ tx[p].count = 0
  BY DEF NeverEmptied
<1>1. PICK c \in ChunksOf(w) : c \in db /\ c.workspace = w /\ c.table = "chunk"
  BY ChunksAre DEF TablesInv
<1>2. c \notin db'
  BY <1>1 DEF ChunksOf, Where
<1>3. PICK d \in db' : d.table = "document" /\ d.id = 1 /\ d.workspace = w
  BY DEF Get, Where
<1>4. ~Adds
  BY <1>1, <1>2 DEF Adds, Create
<1>5. ~Changes
  BY <1>1, <1>2 DEF Changes, Update
<1>6. ASSUME NEW v \in Workspaces, NEW gone, Ordinary(gone, v), Delete(gone, v) PROVE FALSE
  <2>1. PICK X : X = Cascade(gone)
    OBVIOUS
  <2>2. db' = db \ X
    BY <1>6, <2>1 DEF Delete
  <2>3. X \cap ChunksOf(w) # {}
    BY <1>1, <1>2, <2>2
  <2>4. /\ X \subseteq {r \in db : r.workspace = v}
        /\ X \cap Get("document", 1, w) # {} \/ X = {r \in db : r.workspace = v}
    BY <1>6, <2>1, <2>3, DeletionTakes
  <2>5. v = w
    BY <1>1, <1>2, <2>2, <2>4
  <2>6. d \in db /\ d \notin X
    BY <1>3, <2>2
  <2>7. PICK e \in X : e \in db /\ e.table = "document" /\ e.id = 1
    BY <1>3, <2>4, <2>5, <2>6 DEF Get, Where
  <2>8. e = d
    BY <1>3, <2>6, <2>7 DEF TablesInv, Unique, Clashes
  <2>9. QED
    BY <2>6, <2>7, <2>8
<1>7. ASSUME NEW p \in Writers, Commit(p)
      PROVE  p \in Open /\ tx'[p] = None /\ tx[p].count = 0
  <2>1. PICK t : t = tx[p]
    OBVIOUS
  <2>2. /\ p \in Open /\ TxType(t) /\ TxHolds(t)
        /\ t.next = t.count /\ db' = (db \ t.gone) \cup t.added
        /\ tx' = [tx EXCEPT ![p] = None]
    BY <1>7, <2>1, CommitIs
  <2>3. c \in t.gone
    BY <1>1, <1>2, <2>2
  <2>4. t.workspace = w
    BY <1>1, <2>2, <2>3 DEF TxHolds
  <2>5. t.added = {}
    BY <1>7, <2>1, <2>4, CommitReplaces
  <2>6. t.next = 0
    <3>1. t.next \in Nat /\ t.added = {ChunkRow(t, n) : n \in {n \in Nat : n < t.next}}
      BY <2>2 DEF TxType
    <3>2. t.next # 0 => ChunkRow(t, 0) \in t.added
      BY <3>1
    <3>3. QED
      BY <2>5, <3>2
  <2>7. tx'[p] = None
    BY <2>2 DEF TablesInv
  <2>8. QED
    BY <2>1, <2>2, <2>6, <2>7
<1>8. QED
  BY <1>1, <1>2, <1>4, <1>5, <1>6, <1>7, StepsAre, WritesChangeNoRow DEF Removes

(***************************************************************************)
(* The chunks of a document are those of one call of replace_for_document, *)
(* all of them, also when two calls overlap, and only a call that gave     *)
(* none leaves a document that stays without.                              *)
(***************************************************************************)
THEOREM ChunksAreReplacedWhole == Spec => ReplacedWhole
<1>1. Inv => OneStrategy
  BY DEF Inv, TablesInv
<1>2. Inv /\ Inv' /\ [Next]_vars
        => [OneStrategy' /\ \A w \in Workspaces : NeverEmptied(w)]_vars
  BY <1>1, ChunksVanish DEF Inv, TablesInv
<1>3. QED
  BY <1>1, <1>2, RecordsInv, PTL DEF Spec, ReplacedWhole

LEMMA RunsAdvance ==
    ASSUME TablesInv, [Next]_vars, NEW w \in Workspaces,
           NEW r \in Get("run", 1, w), NEW s \in Get("run", 1, w)'
    PROVE  /\ r.val.tokens <= s.val.tokens
           /\ r.val.estimated => s.val.estimated
           /\ r.val.status = "terminal" => s.val.status = "terminal"
<1>1. r \in db /\ r.table = "run" /\ r.id = 1 /\ s \in db' /\ s.table = "run" /\ s.id = 1
  BY DEF Get, Where
<1>2. \A x \in db : x.table = "run" /\ x.id = 1 => x = r
  BY <1>1 DEF TablesInv, Unique, Clashes
<1>3. r.val.tokens \in Nat
  BY <1>1 DEF TablesInv, GoodRows, GoodRow, RunValue
<1>4. CASE s \in db
  BY <1>1, <1>2, <1>3, <1>4
<1>5. CASE s \notin db
  <2>1. ~Adds
    BY <1>1, <1>5 DEF Adds, Create, Fits, Clashes
  <2>2. ~Removes
    BY <1>1, <1>5 DEF Removes, Delete
  <2>3. \A p \in Writers : ~Commit(p)
    <3> SUFFICES ASSUME NEW p \in Writers, Commit(p) PROVE FALSE
      OBVIOUS
    <3>1. PICK t : t = tx[p]
      OBVIOUS
    <3>2. TxType(t) /\ db' = (db \ t.gone) \cup t.added
      BY <3>1, CommitIs
    <3>3. QED
      BY <1>1, <1>5, <3>2, AddedAre
  <2>4. Changes
    BY <1>1, <1>5, <2>1, <2>2, <2>3, StepsAre, WritesChangeNoRow
  <2>5. PICK old, x :
          /\ old \in db
          /\ old.table = "run" => Advances(old.val, x)
          /\ db' = (db \ {old}) \cup {[old EXCEPT !.val = x]}
    BY <2>4 DEF Changes, Update
  <2>6. s = [old EXCEPT !.val = x]
    BY <1>1, <1>5, <2>5
  <2>7. s.table = old.table /\ s.id = old.id /\ s.val = x
    BY <2>5, <2>6 DEF TablesInv, GoodRows, GoodRow, Row
  <2>8. QED
    BY <1>1, <1>2, <2>5, <2>7 DEF Advances
<1>6. QED
  BY <1>4, <1>5

(***************************************************************************)
(* However record_usage and finish come, the totals of a run only grow, an *)
(* estimate stays one, the end is the end, and a run is at its end exactly *)
(* when it has a reason.                                                   *)
(***************************************************************************)
THEOREM RunsAdvanceOnly == Spec => RunsOnlyAdvance
<1>1. Inv => \A w \in Workspaces : \A r \in Get("run", 1, w) :
                (r.val.status = "terminal") <=> (r.val.reason # None)
  BY DEF Inv, TablesInv, GoodRows, GoodRow, RunValue, Get, Where
<1>2. Inv /\ [Next]_vars =>
        [\A w \in Workspaces : \A r \in Get("run", 1, w), s \in Get("run", 1, w)' :
            /\ r.val.tokens <= s.val.tokens
            /\ r.val.estimated => s.val.estimated
            /\ r.val.status = "terminal" => s.val.status = "terminal"]_vars
  BY RunsAdvance DEF Inv
<1>3. QED
  BY <1>1, <1>2, RecordsInv, PTL DEF Spec, RunsOnlyAdvance

LEMMA StaysInside ==
    ASSUME TablesInv, [Next]_vars, NEW r \in (db \ db') \cup (db' \ db)
    PROVE  r.workspace = scope' \/ Overwrites(r)
<1>1. db' # db
  OBVIOUS
<1>2. CASE Adds
  BY <1>2 DEF Adds, Create
<1>3. ASSUME NEW w \in Workspaces, NEW gone, Ordinary(gone, w), Delete(gone, w)
      PROVE  r.workspace = scope'
  <2>1. PICK X : X = Cascade(gone)
    OBVIOUS
  <2>2. db' = db \ X /\ scope' = w
    BY <1>3, <2>1 DEF Delete
  <2>3. X \subseteq {x \in db : x.workspace = w}
    BY <1>3, <2>1, DeletionTakes
  <2>4. QED
    BY <2>2, <2>3
<1>4. CASE Changes
  <2>1. PICK w, old, x :
          /\ w \in Workspaces /\ old \in db
          /\ old.workspace = w \/ old.table = "embedding"
          /\ scope' = w
          /\ db' = (db \ {old}) \cup {[old EXCEPT !.val = x]}
    BY <1>4 DEF Changes, Update
  <2>2. PICK new : new = [old EXCEPT !.val = x]
    OBVIOUS
  <2>3. /\ new.workspace = old.workspace /\ new.table = old.table /\ new.val = x
        /\ new = [old EXCEPT !.val = new.val]
    BY <2>1, <2>2 DEF TablesInv, GoodRows, GoodRow, Row
  <2>4. r \in {old, new} /\ old \in db /\ new \in db'
    BY <2>1, <2>2
  <2>5. CASE old.workspace = w
    BY <2>1, <2>3, <2>4, <2>5
  <2>6. CASE old.table = "embedding"
    BY <2>3, <2>4, <2>6 DEF Overwrites
  <2>7. QED
    BY <2>1, <2>5, <2>6
<1>5. ASSUME NEW p \in Writers, Commit(p) PROVE r.workspace = scope'
  <2>1. PICK t : t = tx[p]
    OBVIOUS
  <2>2. /\ TxType(t) /\ TxHolds(t) /\ scope' = t.workspace
        /\ db' = (db \ t.gone) \cup t.added
    BY <1>5, <2>1, CommitIs
  <2>3. QED
    BY <2>2, AddedAre DEF TxHolds
<1>6. QED
  BY <1>1, <1>2, <1>3, <1>4, <1>5, StepsAre, WritesChangeNoRow DEF Removes

(***************************************************************************)
(* A call made for one workspace, with all that cascades from it and all a *)
(* transaction of it commits, leaves the rows of every other as they are   *)
(* and adds none to it, but that it may write over the vector of an        *)
(* embedding (the WHERE clauses and composite keys of postgres.py and      *)
(* 0001_initial.sql, and the conflict of an upsert, which names none).     *)
(***************************************************************************)
THEOREM TenantsAreIsolated == Spec => TenantIsolation
<1>1. Inv /\ [Next]_vars =>
        [\A r \in (db \ db') \cup (db' \ db) : r.workspace = scope' \/ Overwrites(r)]_vars
  BY StaysInside DEF Inv
<1>2. QED
  BY <1>1, RecordsInv, PTL DEF Spec, TenantIsolation

(***************************************************************************)
(* The same of the schema in a behaviour of the whole, where the calls     *)
(* find it made.                                                           *)
(***************************************************************************)
THEOREM SchemaStaysServed == Spec => ServesItsSchema
<1>1. Inv => AsItsFiles
  BY SchemaHolds DEF Inv
<1>2. Inv' => AsItsFiles'
  BY <1>1, PTL
<1>3. Inv /\ Inv' /\ [Next]_vars
        => [AsItsFiles' /\ \A p \in Processes : LetIn(p)]_migrationVars
  BY <1>2, StepLetsIn, SchemaMoves DEF Inv
<1>4. QED
  BY <1>1, <1>3, RecordsInv, PTL DEF Spec, ServesItsSchema

=============================================================================
