------------------------------ MODULE Records ------------------------------
(***************************************************************************)
(* The repositories of explorer/storage/postgres.py over the tables of     *)
(* 0001_initial.sql, which the processes of module Migrations put there.   *)
(* A repository call is one committed statement, but for                   *)
(* replace_for_document, whose statements interleave with everything else  *)
(* at READ COMMITTED: a statement sees what was committed when it began,   *)
(* waits for a transaction that holds a row it wants, and a key or a       *)
(* reference the schema refuses takes the whole transaction back.          *)
(***************************************************************************)
EXTENDS Integers, FiniteSets, Migrations

Classified == INSTANCE Classification

CONSTANTS
    Workspaces, Users,
    Writers,        \* callers of replace_for_document
    Batches,        \* what they give it: the chunks of one chunking of a document
    Versions,       \* prompt and price versions
    MaxTokens,      \* bound on the tokens of a run
    MaxChunks,      \* bound on the chunks of a document
    MaxRows,        \* bound on the rows of the database
    Deployed,       \* the working tree the repositories are of
    Areas,          \* bound: the sets of tables a behaviour may write to, none
                    \* for one in which the schema itself is made
    Global, None    \* not a workspace; no value

ASSUME RecordsAssumption ==
    /\ Global \notin Workspaces /\ Workspaces \cap Users = {}
    /\ MaxTokens \in Nat /\ MaxChunks \in Nat /\ MaxRows \in Nat
    /\ Versions \subseteq Nat
    /\ Deployed \in Trees /\ Consecutive(Deployed)
    /\ \A x, y \in Files(Deployed) : x # y => ~Collides(x, y)
    /\ None \notin {"completed", "cancelled"}

\* The tables a workspace owns, each with those it refers to.
Parents ==
    [membership |-> {"app_user"}, retention_policy |-> {}, experiment |-> {},
     prompt_template |-> {}, prompt_template_version |-> {"prompt_template"},
     run |-> {"experiment", "prompt_template_version", "price_table"}, document |-> {},
     chunk |-> {"document"}, embedding |-> {"chunk", "document"},
     trace_event |-> {"run"}, tool_invocation |-> {"run"},
     approval |-> {"tool_invocation", "app_user"}]

\* Every table is classified before anything is kept in it.
ASSUME TablesAssumption ==
    /\ DOMAIN Parents \subseteq DOMAIN Classified!TableCategory
    /\ UNION Areas \subseteq DOMAIN Classified!TableCategory

\* A row: its key is what UNIQUE ranges over, up are the rows it refers to.
Row(table, id, workspace, up, key, val) ==
    [table |-> table, id |-> id, workspace |-> workspace, up |-> up, key |-> key, val |-> val]

VARIABLES
    db,     \* the committed rows
    tx,     \* the transaction of each writer
    area,   \* the tables this behaviour writes to
    scope   \* history: the workspace the last call was made for

recordVars == <<db, tx, area, scope>>
vars == <<recordVars, migrationVars>>

Open == {p \in Writers : tx[p] # None}

\* Rows that some transaction has deleted or added and not committed.
Held == UNION {tx[p].gone \cup tx[p].added : p \in Open}

Names(r) == <<r.table, r.id>>
Where(t, w) == {r \in db : r.table = t /\ r.workspace = w}

-----------------------------------------------------------------------------
(* What the database makes of a statement. *)

\* The workspace of a row and the rows it names are there, in that workspace.
Refers(rows, r) ==
    /\ r.workspace \in Workspaces =>
          \/ r.table = "workspace"
          \/ \E s \in rows : Names(s) = <<"workspace", r.workspace>>
    /\ \A u \in r.up : \E s \in rows : Names(s) = u /\ s.workspace \in {r.workspace, Global}

\* A row that has its id, or its key within the workspace.
Clashes(s, r) ==
    s.table = r.table /\ (s.id = r.id \/ (s.workspace = r.workspace /\ s.key = r.key))

Fits(rows, r) == Refers(rows, r) /\ \A s \in rows : ~Clashes(s, r)

\* Mutant: what refers to a row that went by cascade is left.
Cascade_OneLevel(gone) == gone \cup {r \in db : r.up \cap {Names(s) : s \in gone} # {}}

\* ON DELETE CASCADE: what refers to a row that goes, goes with it.
Cascade(gone) ==
    LET reach[n \in 0..3] ==
            IF n = 0 THEN gone
            ELSE reach[n - 1] \cup {r \in db : r.up \cap {Names(s) : s \in reach[n - 1]} # {}}
    IN reach[3]

\* INSERT, and the commit of _write.
Create(r) ==
    /\ Cardinality(db) < MaxRows /\ r.table \in area
    /\ Fits(db, r) /\ \A s \in Held : ~Clashes(s, r) /\ Names(s) \notin r.up
    /\ db' = db \cup {r}
    /\ scope' = r.workspace
    /\ UNCHANGED <<tx, area>>

\* DELETE waits for a transaction that has written to a row it takes or to a
\* chunk of a document it takes.
Delete(gone, w) ==
    /\ gone # {} /\ gone \subseteq db
    /\ Held \cap Cascade(gone) = {}
    /\ \A r \in Held : r.up \cap {Names(s) : s \in Cascade(gone)} = {}
    /\ db' = db \ Cascade(gone)
    /\ scope' = w
    /\ UNCHANGED <<tx, area>>

\* UPDATE of one row.
Update(old, val, w) ==
    /\ db' = (db \ {old}) \cup {[old EXCEPT !.val = val]}
    /\ scope' = w
    /\ UNCHANGED <<tx, area>>

-----------------------------------------------------------------------------
(* Every repository but chunks; a table has one id to give where no more are
   needed, so that two workspaces contend for it. *)

CreateWorkspace(w) == Create(Row("workspace", w, w, {}, None, None))
DeleteWorkspace(w) == Delete({r \in db : r.workspace = w}, w)

CreateUser(u) == Create(Row("app_user", u, Global, {}, u, None))

AddMember(w, u, role) ==
    Create(Row("membership", <<w, u>>, w, {<<"app_user", u>>}, u, role))
RemoveMember(w, u) == Delete({r \in Where("membership", w) : r.key = u}, w)

CreateExperiment(w) == Create(Row("experiment", 1, w, {}, 1, None))
DeleteExperiment(w) == Delete({r \in Where("experiment", w) : r.id = 1}, w)

Running == [status |-> "running", reason |-> None, tokens |-> 0, estimated |-> FALSE]
CreateRun(w, experiment, version, price) ==
    Create(Row("run", 1, w,
               {<<"experiment", x>> : x \in experiment}
                  \cup {<<"prompt_template_version", v>> : v \in version}
                  \cup {<<"price_table", p>> : p \in price},
               1, Running))

\* The status and the reason in one statement, whatever they were.
Finish(w, reason) ==
    \E r \in Where("run", w) :
        Update(r, [r.val EXCEPT !.status = "terminal", !.reason = reason], w)

\* Mutant: an exact count clears the flag.
RecordUsage_LastWins(w, tokens, estimated) ==
    \E r \in Where("run", w) :
        /\ r.val.tokens + tokens <= MaxTokens
        /\ Update(r, [r.val EXCEPT !.tokens = @ + tokens, !.estimated = estimated], w)

RecordUsage(w, tokens, estimated) ==
    \E r \in Where("run", w) :
        /\ r.val.tokens + tokens <= MaxTokens
        /\ Update(r, [r.val EXCEPT !.tokens = @ + tokens, !.estimated = @ \/ estimated], w)

\* Mutant: the row is found by its id alone.
DeleteRun_ById(w) == Delete({r \in db : r.table = "run" /\ r.id = 1}, w)

DeleteRun(w) == Delete({r \in Where("run", w) : r.id = 1}, w)

CreateDocument(w) == Create(Row("document", 1, w, {}, 1, None))
DeleteDocument(w) == Delete({r \in Where("document", w) : r.id = 1}, w)

\* upsert: a vector for a chunk. A new one needs its chunk in the workspace; the
\* one that is there for the chunk already is looked up by the chunk alone, and
\* only its vector is written, which checks no reference.
UpsertEmbedding(w, c) ==
    LET new == Row("embedding", 1, w, {Names(c)} \cup c.up, Names(c), 1)
        old == {r \in db : r.table = "embedding" /\ r.key = new.key}
    IN \/ old = {} /\ Create(new)
       \/ \E r \in old \ Held : Update(r, 1 - r.val, w)
DeleteByDocument(w) == Delete({r \in Where("embedding", w) : <<"document", 1>> \in r.up}, w)

AppendEvent(w) == Create(Row("trace_event", 1, w, {<<"run", 1>>}, 0, None))
DeleteForRun(w) == Delete({r \in Where("trace_event", w) : <<"run", 1>> \in r.up}, w)

CreateInvocation(w) == Create(Row("tool_invocation", 1, w, {<<"run", 1>>}, 0, None))
RecordApproval(w, u, decision) ==
    Create(Row("approval", 1, w, {<<"tool_invocation", 1>>, <<"app_user", u>>}, 1, decision))

CreateTemplate(w) == Create(Row("prompt_template", 1, w, {}, 1, None))
AddVersion(w, v) ==
    Create(Row("prompt_template_version", v, w, {<<"prompt_template", 1>>}, v, None))

UpsertPolicy(w, days) ==
    \/ Create(Row("retention_policy", w, w, {}, "document", days))
    \/ \E r \in Where("retention_policy", w) : Update(r, days, w)

AddPriceVersion(v) == Create(Row("price_table", v, Global, {}, v, None))

-----------------------------------------------------------------------------
(* PgChunkRepository.replace_for_document, statement by statement. *)

Get(t, i, w) == {r \in Where(t, w) : r.id = i}

ChunksOf(w) == {r \in Where("chunk", w) : <<"document", 1>> \in r.up}

\* The value of a chunk is what it is a part of: the chunks of one call.
Chunk(p, n) ==
    Row("chunk", <<tx[p].batch, n>>, tx[p].workspace, {<<"document", 1>>}, n,
        [batch |-> tx[p].batch, count |-> tx[p].count])

\* Every call makes its chunks anew.
Used == {r.val.batch : r \in {r \in db : r.table = "chunk"}}
           \cup UNION {{tx[p].batch} \cup {r.val.batch : r \in tx[p].doomed} : p \in Open}

Begin(p, w, n) ==
    /\ tx[p] = None /\ Get("document", 1, w) # {}
    /\ \E b \in Batches \ Used :
       tx' = [tx EXCEPT ![p] = [workspace |-> w, batch |-> b, at |-> "delete", doomed |-> ChunksOf(w),
                                gone |-> {}, added |-> {}, next |-> 0, count |-> n]]
    /\ UNCHANGED <<db, area, scope>>

\* The rows the statement saw and that are still there when it gets to them.
DeleteOld(p) ==
    /\ tx[p] # None /\ tx[p].at = "delete"
    /\ LET gone == Cascade(tx[p].doomed \cap db)
       IN /\ Held \cap gone = {}
          /\ tx' = [tx EXCEPT ![p].at = "insert", ![p].doomed = {}, ![p].gone = gone]
    /\ UNCHANGED <<db, area, scope>>

\* What the transaction sees of the database.
Seen(p) == (db \ tx[p].gone) \cup tx[p].added

\* The next chunk, once no other transaction holds a row with its key; what the
\* schema refuses ends the transaction.
InsertNext(p) ==
    /\ tx[p] # None /\ tx[p].at = "insert" /\ tx[p].next < tx[p].count
    /\ LET c == Chunk(p, tx[p].next)
       IN /\ \A q \in Open \ {p} : \A s \in tx[q].gone \cup tx[q].added : ~Clashes(s, c)
          /\ tx' = [tx EXCEPT ![p] =
                      IF Fits(Seen(p), c)
                      THEN [tx[p] EXCEPT !.added = @ \cup {c}, !.next = @ + 1] ELSE None]
    /\ UNCHANGED <<db, area, scope>>

Commit(p) ==
    /\ tx[p] # None /\ tx[p].at = "insert" /\ tx[p].next = tx[p].count
    /\ db' = Seen(p)
    /\ tx' = [tx EXCEPT ![p] = None]
    /\ scope' = tx[p].workspace /\ UNCHANGED area

\* Mutant: a call that fails commits what it has done.
Abort_Commits(p) ==
    /\ tx[p] # None
    /\ db' = Seen(p)
    /\ tx' = [tx EXCEPT ![p] = None]
    /\ scope' = tx[p].workspace /\ UNCHANGED area

\* The connection is lost, the process dies or the database picks it to break a
\* deadlock.
Abort(p) ==
    /\ tx[p] # None
    /\ tx' = [tx EXCEPT ![p] = None]
    /\ UNCHANGED <<db, area, scope>>

-----------------------------------------------------------------------------
Init ==
    /\ db = {Row("workspace", w, w, {}, None, None) : w \in Workspaces}
    /\ tx = [p \in Writers |-> None]
    /\ area \in Areas
    /\ scope = Global
    /\ IF area = {} THEN MigrationsInit
       ELSE /\ made = Files(Deployed) /\ recorded = Files(Deployed)
            /\ boot = [p \in Processes |-> Down]

Optional(S) == {{}} \cup {{x} : x \in S}

Accounts(w) ==
    \/ CreateWorkspace(w) \/ DeleteWorkspace(w)
    \/ \E u \in Users :
          \/ CreateUser(u) \/ RemoveMember(w, u)
          \/ \E role \in {"approver"} : AddMember(w, u, role)
          \/ \E decision \in {"approved"} : RecordApproval(w, u, decision)

Runs(w) ==
    \/ CreateExperiment(w) \/ DeleteExperiment(w) \/ DeleteRun(w)
    \/ \E x \in Optional({1}), v, p \in Optional(Versions) : CreateRun(w, x, v, p)
    \/ \E reason \in {"completed", "cancelled"} : Finish(w, reason)
    \/ \E tokens \in 0..1, estimated \in BOOLEAN : RecordUsage(w, tokens, estimated)
    \/ AppendEvent(w) \/ DeleteForRun(w) \/ CreateInvocation(w)
    \/ CreateTemplate(w)
    \/ \E v \in Versions : AddVersion(w, v) \/ AddPriceVersion(v)

Documents(w) ==
    \/ CreateDocument(w) \/ DeleteDocument(w) \/ DeleteByDocument(w)
    \/ \E c \in {r \in db : r.table = "chunk"} : UpsertEmbedding(w, c)
    \/ \E days \in 1..2 : UpsertPolicy(w, days)
    \/ \E p \in Writers, n \in 0..MaxChunks : Begin(p, w, n)

Calls ==
    \/ \E w \in Workspaces : Accounts(w) \/ Runs(w) \/ Documents(w)
    \/ \E p \in Writers : DeleteOld(p) \/ InsertNext(p) \/ Commit(p) \/ Abort(p)

Next ==
    \/ area # {} /\ Calls /\ UNCHANGED migrationVars
    \/ area = {} /\ MigrationsNext /\ UNCHANGED recordVars

Spec == Init /\ [][Next]_vars

-----------------------------------------------------------------------------
\* A row never outlives what it refers to, nor refers into another workspace,
\* whichever calls, cascades and open transactions came together (the composite
\* foreign keys of 0001_initial.sql).
ReferencesHold == \A r \in db : Refers(db, r)

\* The chunks of a document come from one call of replace_for_document and are
\* all of those it was given, never the first few of them, also when two overlap
\* ("two strategies' chunks in this table for one document would give retrieval
\* overlapping duplicates"); and only a call that was given none, or the end of
\* the document, leaves it without ("a failure does not leave the document with
\* no chunks at all").
OneStrategy ==
    \A w \in Workspaces : \A c, e \in ChunksOf(w) :
        c.val = e.val /\ {b.key : b \in ChunksOf(w)} = 0..(c.val.count - 1)
NeverEmptied(w) ==
    ChunksOf(w) # {} /\ Get("document", 1, w)' # {} /\ Get("document", 1, w) # {} =>
        ChunksOf(w)' # {} \/ \E p \in Open : tx'[p] = None /\ tx[p].count = 0
ReplacedWhole ==
    OneStrategy /\ [][OneStrategy' /\ \A w \in Workspaces : NeverEmptied(w)]_vars

\* While a run has a row, its totals only grow, an estimate stays an estimate
\* and the end is the end; and it is terminal exactly when it has a reason
\* (record_usage, finish).
RunsOnlyAdvance ==
    /\ [][\A w \in Workspaces : \A r \in Get("run", 1, w), s \in Get("run", 1, w)' :
            /\ r.val.tokens <= s.val.tokens
            /\ r.val.estimated => s.val.estimated
            /\ r.val.status = "terminal" => s.val.status = "terminal"]_vars
    /\ [](\A w \in Workspaces : \A r \in Get("run", 1, w) :
            (r.val.status = "terminal") <=> (r.val.reason # None))

\* A call made for one workspace leaves the rows of every other as they are,
\* cascades included (every WHERE of postgres.py), and adds none to it. The one
\* thing it can do to another is to write over the vector of an embedding, whose
\* conflict names no workspace: the row stays what it is a vector for.
Overwrites(r) ==
    r.table = "embedding"
        /\ \E s \in db, t \in db' : r \in {s, t} /\ t = [s EXCEPT !.val = t.val]
TenantIsolation ==
    [][\A r \in (db \ db') \cup (db' \ db) : r.workspace = scope' \/ Overwrites(r)]_vars
=============================================================================
