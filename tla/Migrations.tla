----------------------------- MODULE Migrations -----------------------------
(***************************************************************************)
(* Database.migrate of explorer/storage/engine.py, by several processes    *)
(* over one database, each with the migration files of its working tree.   *)
(* Reading the records opens a transaction, so that each migration is a    *)
(* savepoint in it and all are committed when the connection closes.       *)
(***************************************************************************)
EXTENDS Naturals

CONSTANTS
    Processes,
    Trees       \* working trees: the file at each number, a record of its name,
                \* of the tables it makes and of the rest of its text

ASSUME TreesAssumption == \A t \in Trees : DOMAIN t \subseteq Nat

VARIABLES
    made,       \* the migrations whose tables are there, as <<number, file>>
    recorded,   \* the rows of schema_migration, each for a number and a file
    boot        \* what each process is at

migrationVars == <<made, recorded, boot>>

Down == [at |-> "down"]

\* Consecutive from 1, without a gap.
Gapless(S) == \A n \in S : n # 0 /\ 1..n \subseteq S

\* discover: a gap is an error, and so is a file without a number.
Consecutive(t) == Gapless(DOMAIN t)

Files(t) == {<<n, t[n]>> : n \in DOMAIN t}
Numbers(S) == {x[1] : x \in S}

\* NNNN_name, the key of schema_migration: two branches may give one number to
\* two migrations.
Identifier(x) == <<x[1], x[2].name>>
Identifiers(S) == {Identifier(x) : x \in S}

\* One of two is refused by the database: a table is made once, and an
\* identifier recorded once.
Collides(x, y) == Identifier(x) = Identifier(y) \/ x[2].makes \cap y[2].makes # {}

\* _verify_checksums: a file that changed after it was applied, or a record
\* without a file.
Refused(t, rows) == \E r \in rows : r \notin Files(t)

-----------------------------------------------------------------------------
MigrationsInit ==
    /\ made = {} /\ recorded = {}
    /\ boot = [p \in Processes |-> Down]

Becomes(p, state) == boot' = [boot EXCEPT ![p] = state]

\* CREATE TABLE IF NOT EXISTS for the records, committed on its own.
Discover(p, t) ==
    /\ boot[p].at = "down" /\ Consecutive(t)
    /\ Becomes(p, [at |-> "reading", tree |-> t])
    /\ UNCHANGED <<made, recorded>>

\* _recorded and the checks.
ReadRecorded(p) ==
    /\ boot[p].at = "reading"
    /\ LET t == boot[p].tree
       IN Becomes(p, IF Refused(t, recorded) THEN Down
                     ELSE [at |-> "applying", tree |-> t, done |-> {},
                           left |-> {n \in DOMAIN t :
                                       Identifier(<<n, t[n]>>) \notin Identifiers(recorded)}])
    /\ UNCHANGED <<made, recorded>>

\* What a process has applied and not committed.
Uncommitted(p) == IF boot[p].at = "applying" THEN boot[p].done ELSE {}

\* The lowest migration left to a process.
Pending(p) ==
    {x \in Files(boot[p].tree) : x[1] \in boot[p].left /\ \A k \in boot[p].left : x[1] <= k}

\* It waits for a process that has made the same table, or recorded the same
\* identifier, and not committed.
Waits(p, x) == \E q \in Processes \ {p} : \E y \in Uncommitted(q) : Collides(x, y)

\* Mutant: CREATE TABLE IF NOT EXISTS, and ON CONFLICT DO NOTHING.
ApplyNext_IfNotExists(p) ==
    /\ boot[p].at = "applying"
    /\ \E x \in Pending(p) :
          /\ ~Waits(p, x)
          /\ Becomes(p, [boot[p] EXCEPT !.left = @ \ {x[1]},
                           !.done = IF \E y \in made \cup boot[p].done : Collides(x, y)
                                    THEN @ ELSE @ \cup {x}])
    /\ UNCHANGED <<made, recorded>>

\* The next migration and its record: it fails where its tables or its record
\* are there, which takes back everything this call has applied.
ApplyNext(p) ==
    /\ boot[p].at = "applying"
    /\ \E x \in Pending(p) :
          /\ ~Waits(p, x)
          /\ Becomes(p, IF \E y \in made \cup boot[p].done : Collides(x, y) THEN Down
                        ELSE [at |-> "applying", tree |-> boot[p].tree,
                              left |-> boot[p].left \ {x[1]}, done |-> boot[p].done \cup {x}])
    /\ UNCHANGED <<made, recorded>>

\* The connection closes, and commits.
Serve(p) ==
    /\ boot[p].at = "applying" /\ boot[p].left = {}
    /\ made' = made \cup boot[p].done
    /\ recorded' = recorded \cup boot[p].done
    /\ Becomes(p, [at |-> "serving", tree |-> boot[p].tree])

\* A migration fails, the process dies, or it is stopped to be deployed anew.
Stop(p) ==
    /\ boot[p].at # "down"
    /\ Becomes(p, Down)
    /\ UNCHANGED <<made, recorded>>

MigrationsNext ==
    \E p \in Processes :
        \/ \E t \in Trees : Discover(p, t)
        \/ ReadRecorded(p) \/ ApplyNext(p) \/ Serve(p) \/ Stop(p)

MigrationsSpec == MigrationsInit /\ [][MigrationsNext]_migrationVars

-----------------------------------------------------------------------------
\* "A failure halfway leaves neither the schema change nor the claim that it
\* happened": what is recorded is what is there, each table and each identifier
\* once and without a gap in the numbers, whoever migrates beside it.
RecordedAsMade ==
    /\ made = recorded
    /\ \A x, y \in made : x # y => ~Collides(x, y)
    /\ Gapless(Numbers(made))

\* While a process serves, every file it has is applied as it is, whoever else
\* migrates, from another branch or from an edited file ...
ServesItsFiles ==
    \A p \in Processes : boot[p].at = "serving" => Files(boot[p].tree) \subseteq made

\* ... and one that reads the records after the branches of two others met in
\* one database goes no further ("this database is ahead of the working tree").
LetIn(p) ==
    boot[p].at = "reading" /\ boot'[p].at = "applying" => made \subseteq Files(boot[p].tree)

\* The first two of every state, the third of every step.
AsItsFiles == RecordedAsMade /\ ServesItsFiles
ServesItsSchema ==
    AsItsFiles /\ [][AsItsFiles' /\ \A p \in Processes : LetIn(p)]_migrationVars
=============================================================================
