# PII Scrub: a verification project

TLA+ specifications of the PII scrubbing agent and of the storage and audit
code of the explorer that is being built beside it.  Each module is translated
from the Python source; `PROJECT.json` says which lines each definition stands
for.  TLC checks the modules on small instances, TLAPS proves the theorems in
the `*Proofs` modules for every value of the constants.

* [1. The system](#1-the-system)
* [2. Modules and code](#2-modules-and-code)
* [3. What the runs check](#3-what-the-runs-check)
* [4. Bounds](#4-bounds)
* [5. Fairness](#5-fairness)
* [6. What is proved](#6-what-is-proved)
* [7. Where the code and its documents disagree](#7-where-the-code-and-its-documents-disagree)
* [8. What is not modelled](#8-what-is-not-modelled)
* [9. Plan](#9-plan)

## 1. The system

Two programs share the repository.  `pii_agent` with `apps/pii_agent_app.py` is
a Streamlit chat app: a user uploads a file or names one, an LLM agent calls a
scan or scrub tool, and the cleaned copy is offered for download.  `explorer` is
the storage layer of a second application: documents, chunks and runs in
Postgres, payloads in an object store, deletion across both, retention, login
sessions, and an audit chain of the same format as the agent's.

| Component | State it keeps | Operations | Talks to | What is hard | What makes it correct |
|---|---|---|---|---|---|
| Audit chain: `session/audit_sink.py`, twin `explorer/observability/audit_chain.py` | one JSONL file per UTC day, a lock per sink object | `append`, `verify_chain`, `_last_hash` | pipeline, tools, deleter call `append` | several sinks over one directory, a crash or a full disk in the middle of a write, clock | each record names the one before it; what was acknowledged can be read; nothing written is lost |
| Pipeline: `core/pipeline.py`, `detector.py`, `verifier.py`, `applier.py`, `models/coverage.py` | the coverage ledger and the result of one call; engines loaded by the process | `scan`, `scrub` | content store, detectors, policy, audit sink | detectors fail, time out, come back between chunks and again in the re-scan; early returns | complete coverage is never a lie; no artifact passes a closed gate; no call ends unaudited in silence; nothing but what was acted on is changed |
| Chunker, normalization: `core/chunker.py`, `utils/normalization.py` | none | split a document, fold and collapse its text, map positions back | pipeline | a value at the edge of a chunk; characters that were dropped | whatever a rule can match is whole in one chunk; spans go back to the right characters |
| Reconciler: `core/reconciler.py` | none | settle overlaps, filter by profile | pipeline | a pair-wise rule applied to chains of overlaps | entities overlap only where nesting is permitted, and none with a checksum loses to a guess |
| Policy: `core/policy.py`, `profile_resolver.py`, `profiles/schema.py` | a cache of definitions | load, merge and resolve profiles, an action for each finding | pipeline | inheritance, overrides by destination, requests, exceptions | the strictest rule wins |
| Token vault: `session/token_vault.py` | value → token, tokens in use | mint, clear | applier, teardown | a teardown between two writes of a scrub | one value, one token |
| Session registry and stores: `session/context.py`, `content_store.py`, app, `core/file_source.py`, `tools/agent_tools.py` | `_contexts`, per context a content store, the last results, a token vault; the app's cached runtimes | get, sweep, drop, put, record result, reset | every script run sweeps; tools work in the cached runtime's context | a sweep of one browser session beside the scan of another | live content is spared, idle content goes, downloads on offer exist |
| Agent loop: `agent/graph.py`, `utils/budgets.py` | `TurnBudget`, messages | start turn, reasoning, tool and respond nodes, cancel | LLM, tools | limits that are checked at different places, aborts, batches of calls | turns end within all limits, each call is answered |
| Deletion: `explorer/storage/deletion.py`, `object_store.py` | rows, payloads, audit records | `delete_document`, `delete_workspace`, `delete_run` | repositories, object store, audit chain | two stores without a common transaction, crashes, overlap | no payload without a row, receipts are true |
| Retention sweeper: `retention.py`; classification: `classification.py` | none; the registry of categories | `sweep_workspace`, `validate_retention` | repositories, deleter | the limit of a sweep, exceptions and crashes between any two calls, periods that change | nothing goes before its time or without every required period, what is overdue goes in the end, every removal that runs to its end is recorded |
| Identity: `security/identity/*` | login sessions, memberships | log in, resolve, touch, revoke, authorize, require | repositories | a request reads, judges and writes a session in three steps | an ended session stays ended; a call is made only with a capability its user was given |
| Repositories: `postgres.py`, `protocols.py`, `records.py` | the tables of `0001_initial.sql` | one transaction per call; `replace_for_document` is one of several statements | engine | cascades over many tables, constraints across workspaces, overlapping replacements | references hold, tenants are apart, a replacement is whole, a run only advances |
| Migrations: `engine.py`, `migrations/` | the recorded migrations | `discover`, `migrate` | Postgres | several processes at start-up, different branches, two files with one number | what is recorded is what is there, once; who serves has all of its files applied |
| Parsers, recognizers, content gate, prompt safety, UI, start-up checks | none | pure functions, rendering | pipeline, app | text | see section 8 |

The parts of the agent run in one process: Streamlit reruns a script per browser
session, one run at a time, and the runs of different browser sessions are
threads.  The explorer's deleter and sweeper may run in several processes.  There
is no other message passing; what interferes is shared state.

## 2. Modules and code

| Module | Models | Instances | Proofs |
|---|---|---|---|
| `AuditTrail` | the promise of both audit writers: an append-only trail | | |
| `AuditChain` | `append()` step by step over a shared directory; implements `AuditTrail` | `MCAuditChain` | `AuditChainProofs` |
| `ScrubPipeline` | the control of one call of `scan()` or `scrub()`, with every fault | `MCScrubPipeline` | `ScrubPipelineProofs` |
| `Spans` | chunking, normalization and their positions, as operators | `MCDataPath` | `DataPathProofs` |
| `Reconciler` | settling of overlaps, as operators; extends `Spans` | `MCDataPath` | `DataPathProofs` |
| `Policy` | profiles, their chain and merge, the action of an entity, as operators | `MCDataPath` | `DataPathProofs` |
| `DataPath` | the data of one call: composes `Reconciler` and `Policy` with the applier and the token vault | `MCDataPath` | `DataPathProofs` |
| `Erasure` | the promise of deletion: content first, rows last, nothing returns | | |
| `Deletion` | concurrent deletions over both stores; implements `Erasure` | `MCDeletion` | `RetentionProofs` |
| `Classification` | the registry of categories and the map from tables to them | `MCRetention`, `MCRecords` | |
| `Retention` | the sweeper, on top of `Deletion`, with `Classification` | `MCRetention` | `RetentionProofs` |
| `Migrations` | `migrate()` by processes with different working trees | `MCRecords` | `RecordsProofs` |
| `Records` | the tables with their constraints and every repository; a process that writes has migrated (`Migrations`) and each table is classified (`Classification`) | `MCRecords` | `RecordsProofs` |
| `Identity` | login sessions and authorization, statement by statement | `MCIdentity` | `IdentityProofs` |
| `Sessions` | registry, sweep, caches, stores, tools of the app | `MCSessions` | `SessionsProofs` |
| `AgentLoop` | an agent runtime over the turns of its session | `MCAgentLoop` | `AgentLoopProofs` |

Operators that end in `_Something` right before a definition are variants of it
with a plausible bug; `PROJECT.json` pairs each property with a variant that
breaks it, which shows that the property depends on the code.

### AuditChain
`lines` is the directory as a reader sees it: the lines of all files in the
order of the file names, each with its file (`audit-<day>`), the record on it,
the record it links to (`prev_hash`; a hash is identified with the record it is
the hash of) and its form: whole, without its newline, or torn.  A writer is a
thread inside `append()`: `Begin` (lock, clock), `LinkToTail` (`_last_hash`),
`Write`, `Return` or `WriteRaises`, `SyncRaises`.  The `with` statement releases
the lock on every way out.  The environment may restart all processes, let
midnight pass and, as chosen by `Faults`, set the clock back, cut a write short
or make a file unreadable.  `Verifies` is `verify_chain`.

### ScrubPipeline
The document is a set of sensitive values, each lying in a chunk, having a type
and being recognised by one pass (`presidio`, `custom_security`, `spacy`, or the
second pass over text written with spaces).  `ScanChunk` is one turn of the chunk
loop with all of `detect_chunk`: the shared spaCy pass, the pattern engine,
spaCy, the second pass, each of which may work, overrun, raise or be missing; and
what each tells the `CoverageLedger` (`Report`).  `FinishScan` ends the loop and
resolves policy, `RefuseDegraded`, `EndDryRun`, `RefuseBlocked` and
`ApplyDecisions` are the gates, `Verify` is the re-scan with what follows it.
`EndAudited` is the end of a call that publishes or refuses: `_write_audit`
writes the record, or the sink raises and the result carries a warning.
`inspected`, `overran` and `rechecked` record what really happened, for the
properties to compare with what the ledger and the result say.

### DataPath, with Spans, Reconciler and Policy
The other view of the same call: no faults, but characters and offsets.  A text
is a sequence of kinds of character: letters, a foreign letter that looks like
one, separators, blanks, line ends and zero-width characters.  `Init` draws a
call from `Families`: a document with the patterns in it (values a regular
expression with a checksum matches) and findings of other detectors (`noise`),
the profiles there are, and what was asked for.  `Cut` resolves the profile
(`Resolve`, with `Chain` and `MergeRule`) and cuts the text (`ChunkText`);
`Detect` goes through one chunk, matches all patterns in its normalized text and
those of `SpacedPass`, the types of the second pass, in its collapsed text
(`Matches`), goes back through the maps (`ToOriginal`) and shifts to the document;
`Settle` filters and reconciles; `Decide` resolves an action for each entity
(`ResolveOne`), or asks for a destination, or is blocked; `Apply` replaces one
span after another in the order of `DecisionSet.actionable`, `Reuse`, `Mint` and
`Remember` are the steps of `tokenize()`, and `ClearForward` and `ClearSeen`
those of a teardown that may come between any two of them.  `Spans`,
`Reconciler` and `Policy` hold the operators; a profile's definition is a record
of its parents and its rules.  A sort of the code is `InOrder`, a sequence of the
set in which nobody stands behind one it comes before, and a loop over a sequence
is a function over its prefixes (`Without`, `MergedRule`, `kept` in `Reconcile`):
the proofs of section 6 reason about these forms, where a fold or a sort of the
library takes an operator as its argument and is closed to the provers.

### Deletion
`rows` and `chunks` are the database, `payloads` the object store, `log` the
audit records.  Each repository call and each object-store call is one step of a
deleter: `Lookup`, `ListKeys` or `ListPrefix`, `RemovePayload` or
`PayloadRefused` per key, `DeleteRows` or `KeepRows`, `Record`.  Any call may
raise something else (`Raise`), the process may die (`Crash`), and for the
documents in `Indexed` texts are put and chunk rows replaced meanwhile
(`PutText`, `ReplaceChunks`).  The component that will index is not in `src/`
yet; both actions follow `replace_for_document` and its tests.

### Retention and Classification
`Retention` extends `Deletion`: one deleter is the one the sweeper works through.
A sweep is `BeginSweep` (the clock is read, a workspace without every required
period is skipped), then for documents, runs and sessions in turn `ReadCutoff`,
`ListDocuments`, `ListRuns` or `SweepSessions`, and a loop of `SweepDocument`
(`delete_document`, all steps of it), or `SweepRun` and `RecordRun`; `EndLoop`
goes on.  Beside it periods change (`SetPolicy`), days pass, users delete and
documents are indexed (`Others`), a deleted workspace takes its policies and runs
along (`TakeRows`).  An exception ends a deletion, and the sweeper's ends the
sweep (`CutShort`); one of any other call of the sweep ends it too, also between
the row of a run and its record (`SweepFails`); and the process may die anywhere
(`SweepCrash`).  `inforce` and `cut` are history: the periods there have been
since the sweep began, and the subjects whose deletion was cut short and not
begun again (`SetAbout`).  `upsets` counts the sweeps that ended between two
deletions, for the bound.  `Classification` is the
registry as data; `Retention` assumes, and TLC evaluates, what
`Classification.__post_init__` enforces, that every table is classified and that
what is swept has a required period.

### Records and Migrations
A row is its table, id, workspace, key (what `UNIQUE` ranges over), the rows it
refers to and a value.  `Create`, `Delete` and `Update` are the statements of
`_Base`, with the constraints (`Fits`), the cascades (`Cascade`) and the locks of
open transactions (`Held`).  Every write of every repository is one of them with
the `WHERE` of its SQL.  `replace_for_document` is a transaction of several
statements: `Begin`, `DeleteOld`, `InsertNext`, `Commit`, or `Abort` anywhere.
A chunk carries its call and the number of chunks the call was given, which is
history.  `UpsertEmbedding` is `INSERT ... ON CONFLICT`: the insert checks the
references, the conflict is met by chunk, model and version in any workspace and
changes the vector alone.  A call with several records is several of these in one
transaction; the model takes them one by one.  The columns that only the
application fills are left out where no constraint and no property looks at them,
and so are the reads.  A call needs a process that serves.

`Migrations`: a file has a number, a name, tables it makes and a text.  Number
and name together are its identifier, the key of the records (`NNNN_name`), so
that two branches may give one number to different migrations.  `Discover` reads
the files of a working tree, `ReadRecorded` compares checksums, `ApplyNext`
applies and records the lowest pending one inside the transaction that the read
has opened, `Serve` commits by leaving `connect()`.  `ApplyNext` waits for an
uncommitted migration and fails on a committed one that it collides with
(`Collides`): one with a table of its own or with its identifier.

### Identity
`session` is the table `user_session`; a token is identified with its digest.
A request is `Authenticate` and `CreateSession`, or `Arrive` (the clock is read),
`Find` (the row is read and judged by that time), `Touch` (`UPDATE` of
`last_seen_at`), then `AuthorizeWorkspace`, `Require` and `Return`.  `Revoke`,
`RevokeAllForUser`, `DeleteExpired`, `SetRole`, `Disable` and `Tick` come between
any two of these.  `acts` and `held` are history: when requests of a session were
let pass, and what roles the user of a request has had since.

### Sessions
`registry` is `_contexts`, `cache` what `st.cache_resource` keeps, `store` and
`results` are parts of each context.  A script run is `Enter`
(`get_session_context`), `PopStale` and then `TearStore`, `TearResults` per
victim (`sweep_idle_sessions` and `teardown`, outside the lock), `Bind`
(`_runtime_for`), then uploads and tools: `StartTool`, `Refetch`, `Publish`,
`RecordResult` or `ToolFails`; it ends with `Finish`, or with `Reset` and
`EndReset`.  `Collect` stands for the garbage collector: what nobody refers to
holds nothing.

### AgentLoop
`node` is the node of the LangGraph graph, with the places inside a node where
another thread or the clock may act.  `Refuse`, `Ask`, `Answer`, `Fail` are
the reasoning node, `Route` is `_should_continue`, `SkipCall`, `StartTool`,
`ScanChunk`, `EndTool`, `EndTools` the tool node.  `steps` counts nodes as
LangGraph does.  `Cancel`, `Expire`, `Abort` (Streamlit stops the script) and
`Rebuild` (a reset in another browser clears the cached runtimes) are the
environment.

## 3. What the runs check

Runs that pass:

| Run | Question | Properties |
|---|---|---|
| `audit_one_sink` | Do three threads on one sink keep the trail, past midnight and restarts, and does every append end with the lock free for the next, also when a write raises? | `ChainIntact` `AckedReadable` `ImplementsTrail` `AppendEnds` |
| `audit_many_sinks` | With two sinks and every fault, how bad can it get?  A fork, never a lost predecessor; one lost record per torn write. | `NoDanglingLink` `LossBounded` |
| `scrub_call` | For every request, under any faults or none: is complete coverage true, are all three gates shut, is a call audited, or warned that it could not be, exactly when it comes to its end, does a re-scan that works find what the scan missed, and is everything published that policy lets pass when nothing fails? | `CoverageIsTrue` `AuditedOrWarned` `GatesHold` `NoActionedSurvivor` `CleanScrubPublishes` |
| `data_path` | Do values survive the edges of chunks, invisible characters, overlapping guesses and filters?  Are spans settled, does replacement change just what was decided, is a token one to one, does the strictest profile win? | `ChunksCover` `NoValueSurvives` `SpansSettled` `ExactRemoval` `TokensConsistent` `StrictestWins` |
| `delete_overlap` | Two overlapping deleters with a refusal, an exception or a crash, beside the indexing of one document: is a receipt false or content orphaned, and does repetition get rid of a document? | `CompleteIsGone` `ImplementsErasure` `Converges` |
| `retention_sweep` | A sweep beside a user who deletes the same document or the workspace, an indexer and changing periods, with a refusal, an exception or a crash at any step: does anything go before its time, or without every required period, or unrecorded, or an original after its row, and does the overdue go? | `OriginalGoesFirst` `RemovalsAreLogged` `NothingYoung` `OverdueGoes` |
| `records` | All calls of all repositories of two workspaces with two overlapping replacements, on a database that two processes migrate: do rows refer to rows that are there, does a call write in its own workspace only (but for the vectors of section 7), are the chunks of a document all that one call was given, does a run only advance, and does everybody serve with his files applied? | `ReferencesHold` `ServesItsSchema` `TenantIsolation` `ReplacedWhole` `RunsOnlyAdvance` |
| `access` | Two requests with one session beside revocation, expiry and changes of membership: does an ended session stay ended, and is every call backed by a role? | `NoIdleGap` `EndIsFinal` `ScopeIsEarned` |
| `session_sweep` | Sessions that work, sweep each other and reset: are offered downloads there, is no copy kept unseen, does a sweep spare live content? | `ListedIsThere` `NoHiddenCopy` `SweepSparesLive` |
| `session_forgotten` | While one session is in use, does the content of an idle one go? | `IdleIsForgotten` |
| `loop_turns` | With the real limits of 10 iterations and 25 graph steps: is the recursion limit out of reach, the spend bounded, a cancel obeyed, and does every turn end? | `WithinRecursionLimit` `SpendBounded` `CancelStopsTurn` `TurnEnds` |

The run `audit_fork` expects a violation of `ChainIntact` (section 7).

`CHECK_DEADLOCK FALSE` appears where the system may stop: a call or a turn is
over, all documents are gone, all resources of the instance are used, the last
day has come, and nobody has to ask for more.  The other modules need no such
line: something of the environment is always possible, or (`DataPath`) a call
that is done says so.

## 4. Bounds

| Module | Bound | Value | Why it is enough |
|---|---|---|---|
| AuditChain | `MaxRecords` | 2 to 4 | a fork needs two records, a loss by gluing three; four records give every file zero to four lines |
| | `Days` | 1, 2 | midnight and the clock going back need two |
| | writers | 1 to 3 | two that interfere and one that waits |
| ScrubPipeline | `N` chunks | 2 | a detector that fails on one chunk and works on the other, in both orders; approved and unapproved truncation to 0 or 1 chunks |
| | values | 3 | one for each of three passes, two of them of one type, which the allowance per type tells apart |
| DataPath | length of a text | 1 to 18 characters | 18 give three to five chunks of the smallest size, with the value before, across and after each edge; six are enough for three findings in every relative position |
| | findings of one call | 3 | a loser trimmed around a winner that a third one beats; the interactions of four are chains of these |
| | `MinOverlap`, `MinTrim`, `MinRun`, `LabelWidth`, `FixedMask` | 1, 2, 2, 2, 3 | the constants of the code, scaled down with the texts; the relations between them stay |
| | profiles | 2 and BASE_SECURITY | a parent and a child, in both orders and with every pair of rules; a cycle and a missing parent |
| | `ProfileNames` | 4 | the names there are, one of them without a profile; a name outside them is like that one |
| | tokens | 4 | one more than there are values, so that minting may hit a token in use |
| Deletion | documents, keys | 2, 4 keys | a document with a text that goes with its workspace or alone, and one whose text is indexed meanwhile |
| | `MaxFaults` | 1 | a refusal, exception or crash at every step, and the recovery from it; the theorems of section 6 hold for any number |
| | deleters | 2 | every interference is between two |
| Retention | days, `Periods` | 2 and 3, 1 and 2 | a document on its last day, past it, and one whose period changes during a sweep; the old document is only the sweeper's, the new one is indexed and deleted by a user as well |
| | `Requested` | the workspace, a document | a user's deletion of what the sweep is at, or of all of it |
| | `MaxFaults` | 1 | a refusal, an exception or a crash at every step of a deletion or of the sweep; the theorems hold for any number |
| | `Settings`, `Upserts` | 2, 2 | every period set, or one missing that nothing is swept by, so that only the check keeps the sweep away; it is set later |
| | `Limit` | 1 | two documents are more than a sweep lists |
| | runs, sessions | 1, 1 | the loops over them are those over documents without a second store |
| Records | ids per table | 1 per workspace | the rows of two workspaces have the same ids, so a forgotten workspace shows; constraints compare two rows |
| | `MaxRows`, `Areas` | 7; four sets of tables | rows of one behaviour, and which tables it fills: each area holds the tables that a chain of references or cascades connects, with both ends of each |
| | `Batches`, `MaxChunks` | 4, 2 | two replacements by each of two writers, of zero to two chunks |
| Migrations | processes, trees | 2, 6 | two that start together; with one file, two, another second one that makes another table or the same one, an edited first one, a gap |
| Identity | requests, `Ids` | 2, 1 | two requests on one session interfere, sessions do not meet |
| | `Lifetime`, `IdleTimeout`, `MaxTime` | 4, 2, 5 | idle expiry several times within a lifetime, and a tick after its end |
| | `MaxChanges` | 1 | a membership changed during a request |
| Sessions | browser sessions | 2 | the sweeper and the swept; both play both parts |
| | `MaxContexts` | 3, 4 | two sessions refer to at most four contexts at a time; with 3 a run that needs a fourth waits, which safety runs may do and `session_forgotten` may not |
| | `MaxRaw`, `MaxClean` | 1, 0 to 2 | with `MaxResults` = 1 the second cleaned copy evicts the first; a session without a free handle publishes nothing |
| | `MaxIdle` | 0 ticks | the next tick makes an untouched session stale; the length of a tick does not matter |
| | `Resetters`, `Scanners` | none, one or both | who may reset, and whose agent works while the other session only uploads: one is enough, since tools meet only through sweeps and resets |
| AgentLoop | `MaxIterations`, `RecursionLimit` | 10, 25 | the real ones |
| | `MaxTokens`, `MaxUsage`, `MaxEstimate` | 3, 2, 2 | every relation of estimate, bill and remaining allowance |
| | `MaxCalls` | 2 | a batch that passes the iteration limit |
| | `Chunks` | 2 | a cancel between chunks |
| | `MaxResets` | 1 | turns before and after a runtime is rebuilt |

`Faults` of each configuration lists what may go wrong in it.  Symmetry is used
only in `access` and `records`, which check safety and action properties.

## 5. Fairness

* **AuditChain**: weak fairness of each thread inside `append()`; nobody has to call it.
* **Deletion**: a deletion that began goes on (weak), and `Lookup` of a document
  that still has a row recurs (strong): `sweep_workspace` goes through all
  expired documents on every round.  Faults are bounded by `MaxFaults`; a store
  that refuses for ever is not expected to converge.
* **Retention**: days pass, a sweep begins when none runs and the workspace is
  fit for one, and the sweep and the deletions it started go on (all weak).
  Nobody else has to do anything: no user comes back to a document, and a
  deletion of somebody else may stop half-way.
* **Sessions**: a run that began goes on (weak, `Run`), and it finishes (strong,
  `Finish`) because the turn it serves has a bounded number of tool calls, which
  `loop_turns` shows.  New runs begin again and again only for the sessions in
  `Active`; no other user, and no clock, is assumed to do anything.
* **AgentLoop**: a node that runs comes to its end (weak, `Runs`): the model
  answers or raises, a tool returns.  No fairness of the user, of cancel, or of
  the clock.

`ScrubPipeline`, `DataPath`, `Records`, `Migrations` and `Identity` are checked
for safety only and state no fairness.

## 6. What is proved

TLAPS checks these theorems for all values of the constants that satisfy the
named assumptions of the modules.

**AuditChainProofs**.  Assuming `OneSink` (every thread uses the same sink) and
`Faults = {}`: `OneSinkKeepsChain`, `AcknowledgedIsReadable`,
`SinkImplementsTrail`.  That the chain is intact is not inductive: the record
about to be written must link to the record that is last *when it is written*.
The invariant adds that a thread inside `append()` holds the lock (`Exclusive`),
that the predecessor it read is still the last (`LinkIsFresh`), and that its line
will land at the end of the directory and not in the middle, because no file is
from a later day than its own (`NoFutureLine`, `WriterIsLatest`).  `OneSink` is
just what the run `audit_fork` takes away, and a clock that is set back would
break `NoFutureLine`.  Without either assumption: `TypeCorrect`, `BreaksAreForks`
and `LossIsBounded`, which say what is left when sinks share the directory and
the disk tears writes.  Their invariant, `FaultInv`, adds that a line without its
newline was never reported (`BareIsUnreported`), so that the record glued to it
is the only one that can be lost with it (`LostAreGlued`).

**ScrubPipelineProofs** (no assumption on faults): `TypeCorrect`,
`CoverageNeverLies`, `GatesNeverLeak`, `OutcomesAreAudited`,
`CleanScrubsPublish`.  `GatesHold` is judged by what happened, not by what the
result says of itself: gate 1 by what was inspected, gate 3 by what the re-scan
saw.  `Accounted` is the
strengthening: at each point of the loop a detector that is not marked failed
went through all the chunks so far.  The lemma `ReportKeepsFailures` shows that
no report of a chunk takes an earlier failure back.  `Gated` says what is known
at each gate.  `Settled` reads the ledger the other way: what was looked at was
found (`Recorded`), what stays is all but what policy removes (`Removed`), and
each refusal has its reason (`Refused`).  `SurvivorsAreCaught` assumes
`Abuts = {}`, that no value stands right beside another: the re-scan drops what
touches a marker (`_touches_marker`), and the property is false there, as
section 7 shows.

**RetentionProofs**.  First of deletions alone (any number of deleters and
faults, any documents indexed meanwhile), in proofs that cite nothing of
`Retention`: `TypeCorrect`, `NoContentOrphaned`, `OriginalsGoFirst`,
`RecordsAreTrue`, `DeletionImplementsErasure`.  What they say of texts they say
of the documents in `Settled`, those nobody indexes; `OriginalsGoFirst` is about
all documents.  `TodoCovers` is the heart: a deletion that met no refusal still
has before it all it is answerable for (`Watched`), so that it may delete the
rows when its list is empty.  `IndexStep` shows that indexing one document leaves
the keys of every other one alone.  For an indexed document `RecordsAreTrue` is
false (section 7).

Then of the sweeper (any limit, periods and deleters beside it):
`SweepsLeaveNoOriginal`, `NothingYoungIsSwept`, `RemovalsHaveRecords`.
`StepsAreDeletions` shows that every step of `Retention` is a step of `Deletion`
or leaves its variables alone, so that the invariant of deletions carries over.
What the sweeper adds is that it knows every period in force since it began
(`PeriodsKnown`), that its cutoff is that of one of them (`CutoffEarned`), and
that what it still has to take is therefore past such a period (`LeftIsOld`).
An exception or a crash ends the sweep and leaves nothing behind to be old
(`BreakKeeps`); what it cuts off is in `cut` until somebody begins again.
For `RemovalsHaveRecords` the documents the index is at work on need more than
the property says: a text put for a chunk row to come may be gone before the row
names it, so the invariant counts it to the document from the start (`Intact`).

**RecordsProofs** (any number of processes, working trees, workspaces, rows and
open transactions).  `SchemaIsServed` is the whole of `ServesItsSchema`.  The
invariant says of a process that is applying that what it found recorded is a part
of its files and still there (`Based`), that what is made and not committed
collides with nothing that is there and with nothing made beside it (`Separate`),
and that no two migrations that are there collide (`OneOfEach`).  Two processes
may hold uncommitted migrations of one number, as long as they share no table and
no identifier; that the numbers have no gap even so is because the files of a tree
have none (`Consecutive`, also assumed of the tree that is deployed), which is why
`discover()` must refuse gaps.  `StepLetsIn` is the check of the records: who
reads them from a database that is ahead of its files goes no further.
`RecordsInv` is the invariant of the rows and of the schema together.  Of an open
`replace_for_document` it says what it holds with all that refers to it, and that
what it will add has what it refers to (`TxHolds`), that it adds the chunks it was
given from the first on (`TxType`), that it takes all old ones or none
(`TxTakes`), and of two of them that they hold nothing in common (`Beside`).  From
it follow `ReferencesAreKept`, `ChunksAreReplacedWhole`, `RunsAdvanceOnly`,
`TenantsAreIsolated` and `SchemaStaysServed`.  `Cascade` is shown to be three
rounds of referrers (`CascadeIs`), and these to be enough because references point
to a table of higher `Rank`.

**IdentityProofs** (any number of users, sessions and requests): `EndsAreFinal`,
`IdleSessionsEnd`, `ScopesAreEarned`.  A request is judged by a clock read before
the row and noted after it, so the times a session was used come in any order.
What carries `IdleSessionsEnd` is that a request about to touch came, with its
own time, within the timeout of some time already noted (`Near`), after the
session began (`Begun`), and that a time put into such a sequence leaves no gap
on either side of it (`NoGapBefore`).  `Judged` and `Tracked` carry what was read
to the step that uses it.

**SessionsProofs** (any number of browser sessions, contexts and records):
`ListedContentIsThere`, `NoCopyIsHidden`, `SweepsSpareTheLive`.  The invariant
adds that no two browser sessions share a context (`Apart`), that what is swept
or reset has left the registry and does not return (`Doomed`), that a cleaned
copy is listed once (`Once`) and that the one about to be listed is in the store
(`Pending`).

**AgentLoopProofs**: `TypeCorrect`, `TurnFitsTheGraph` (assuming
`2 * MaxIterations + 2 <= RecursionLimit`; 22 ≤ 25 in the code),
`AllowanceHolds`, `AnswersComplete`, `CancelIsHeeded`.  `StepsCounted`
relates the nodes run to the iterations, with a second bound for the last
iteration, in which a batch of calls takes the count past its limit.
`TokensKnown` bounds the bill by one allowance and one response for each earlier
runtime and what the present one knows of.

**DataPathProofs** (any documents, findings, profiles and surrogates; what may be
asked is `Askable`).  The library's induction theorems take an operator, which the
provers cannot instantiate.  `UpTo` and `OneByOne` are induction for a set in
place of a predicate; from the first follows `Recursion`, that a function defined
over an interval by a step exists, and with it what each recursive definition of
`Spans`, `Reconciler` and `Policy` returns for every input.

* `ChunksAlwaysCover`.  A boundary lies beyond the one before (`BoundaryAdvances`),
  so the split points ascend to the end of the text (`PointsAscend`) and the
  chunks have no gap (`ChunkTextCovers`).  For a span that starts at `s`, the chunk
  that holds it whole is the one up to the least split point no nearer than its
  end: the one before is nearer, and the overlap reaches back over the span.  That
  the overlap is long enough is `SpanIsLargest`: no rule of the effective profile
  has a longer pattern than `PatternSpan` says.
* `EntitiesAlwaysSettled`.  `Admit` is shown to keep what is kept free of
  unpermitted overlaps (`Clean`) whatever candidate comes (`AdmitSettles`).  The
  step to see is that a rest stays what it is: several losers are trimmed around
  one winner, their rests lie beside it (`RestIsBeside`), two of them overlap only
  where the losers did, and nested losers leave nested rests (`RestNests`), because
  the separators stripped from a rest are those at its end and the outer one keeps
  the character the inner one ends with (`Solid`, the condition in `SpansSettled`).
  `FoundAndSettled` carries it through the steps: findings are spans of the
  document, since a map back from a normalized text stays within it (`TakenBack`).
* `StrictestAlwaysWins`.  The effective rule of a type is the merge of all rules
  there are for it (`MergeOf`): no weaker than any, with the override of every
  destination any of them names.  `MergeStep` keeps that for one rule more,
  `MergedIsMerge` for a chain, `ChainLoads` says what a chain consists of, and
  `EntityIsActedOn` takes it to the action.
* `RemovalIsExact`.  While decisions are applied there is a place `b` before which
  the text is untouched and at or before which all further spans end, and what was
  acted on so far is gone and nothing else (`Cleared`).  `SpliceClears` shows that
  replacing such a span, by whatever width, moves `b` to its start.  That no other
  span is reached needs both the order of the decisions and that the spans lie
  apart (`ReplaceKeeps`); nested ones are the case of section 7.
* `TokensAreOneToOne`.  Between the two writes of `tokenize()`, and between the two
  clears of a teardown, the dictionaries disagree.  The invariant says in which
  way: until the teardown begins the first has all of the second
  (`SeenIsForward`), a token on its way is in the first only (`MintingIsDue`), and
  of a token given out it says in which of them it still is (`GivenIsKept`).
* `ValuesAreRemoved`.  The longest argument of the project, in three parts.
  *It is found* (`PlantedIsFound`): some chunk holds the value whole
  (`OneHoldsIt`, from `ChunksAlwaysCover`), and what matches in the document
  matches in each chunk that holds it (`MatchInChunk`).  Normalizing a part gives
  what normalizing the text gives there, moved by a constant (`PartShifts`), so
  that holds at once for text that is not written apart.  A match in a collapsed
  text is letters that follow each other in the text, or a run of single
  characters, or a piece of one (`PlainOrRun`, `RunTaken`).  What a chunk's edge
  leaves of a run is a run as long as it has `MinRun` characters
  (`SinglesInPart`): the edge ends it as the character beside it does
  (`RunInPart`).
  *It is kept* (`ValueIsKept`): in every turn of `reconcile` no finding with a
  checksum overlaps the value but itself, and once it is kept whatever overlaps it
  covers it (`Guarded`); `AdmitGuards` shows this of all four outcomes of a turn.
  A checksum outranks every guess (`ChecksumFirst`), so a loser that contained the
  value is cut beside it, and a loser cut beside another winner keeps all of it
  (`RestStillCovers`), since the value does not end in a separator.
  *It is removed*: among what is acted on, all that overlaps the value covers it
  (`Upfront`), and nested replacements, where `RemovalIsExact` says nothing, are
  applied inner first or start further left.  Such a span is therefore untouched
  until its turn, and no replacement after it brings anything back (`Sweeping`,
  `TurnSweeps`).
  `LInv` is the inductive invariant: what is found so far (`Gathered`), what the
  entities guard (`Held`) and what is gone (`Swept`), with `RInv` of
  `RemovalIsExact`.

The type invariants of these modules are proved and no run repeats them; the
same holds for `AskedWhenAnswered` of `AgentLoop` and `NoOrphan` of `Deletion`.

Every safety property a run checks is proved.  Model-checked only are the
liveness properties (`AppendEnds`, `Converges`, `OverdueGoes`, `IdleIsForgotten`,
`TurnEnds`), which are beyond the prover, as is `ENABLED`.

## 7. Where the code and its documents disagree

The run `audit_fork` shows that every session has a sink with its own lock over
the same directory; two appends link to the same record and the chain no longer
verifies.  `findings` in `PROJECT.json` quotes the sentence it contradicts.

The others of the modules of the core are stated as properties that the code does
not have.  Checked in the configuration given, in place of its own properties,
each shows a counterexample.

| Property | Configuration | What happens |
|---|---|---|
| `ImplementsTrail` | `audit_one_sink` with `Faults = {"clock"}` | `_last_hash` takes the last file by name ("most recent record", `audit_sink.py:106`); after the clock goes back over midnight the new record is inserted in the middle. |
| `AckedReadable` | `audit_one_sink` with `Faults = {"torn"}` | A record whose append returned (`audit_sink.py:129`) is glued to the remains of a torn write. |
| `VerifiedMeansRechecked` | `scrub_call` | The re-scan does not look at whether its detectors failed: the text counts as verified (`pipeline.py:259`, against "Fails closed at three gates", `pipeline.py:205`). |
| `NoActionedSurvivor` | `scrub_call` with `Abuts <- SpacedBehindSsn` | A value only whitespace away from a mask is taken for part of the mask (`verifier.py:113`). |
| `PublishedIsAudited` | `scrub_call` | An exception of the audit sink becomes a warning; the artifact is handed out unrecorded (`audit_sink.py:129`). |
| `EveryRequestAudited` | `scrub_call` | A scan, a dry run and a missing destination leave no record (`.kiro/specs/pii-scrubbing-agent/design.md:1839`). |
| `SecondPassReported` | `scrub_call` | A second pass that raises is not reported to the ledger (`detector.py:543`). |
| `OverrunIsIncomplete` | `scrub_call` | spaCy's time is measured around reading its finished document (`coverage.py:71`). |
| `SharedPassNotFatal` | `scrub_call` | An exception of the shared spaCy pass leaves `scan()` (`detector.py:445`). |
| `NoContentRetained` | `session_sweep` | A cached runtime goes on in a context that was swept (`pii_agent_app.py:122`); what it stores there no later sweep finds (`context.py:191`). |
| `LongScanStaysAlive` | `session_sweep` | A long scan does not touch its session, which another session sweeps (`context.py:164`). |
| `LimitIsReported` | `loop_turns` | A turn cut short by a cancel or the clock with tool calls pending says nothing of it (`requirements.md:506` of the agent's specification). |
| `CancelStopsScan` | `loop_turns` | A cancel is not looked at between the chunks of a scan (`budgets.py:10`). |

The remaining ones are conditions in a property or a choice of the model.  Where
a property excludes a case, the case is one in which the code does not have it.

* **Nested spans** (`ExactRemoval`): decisions are applied from the last start to
  the first (`decision.py:126`); a span nested in another one that is also acted
  on changes the text under the outer one's end, and the outer replacement takes
  too much or too little.
* **Trimming** (`SpansSettled`, `NoValueSurvives`): a finding that ends in a
  separator sticks out of an outer one trimmed before it; and an entity that was
  dropped for a winner stays dropped when the winner is trimmed away from it
  later.
* **Values** (`NoValueSurvives`): the property is about a value that no other
  finding with a checksum overlaps, for of two checksums the weaker is trimmed.
  One such finding the code makes itself: the second pass takes the edge of a
  chunk for the end of a run, and joins characters there that the whole document
  does not join.  Written apart a value counts if it consists of the characters a
  run is made of (`_SPACED_RUN`, `normalization.py:232`; the hyphen it also allows
  is no kind of its own in the model) and has as many as a run needs: of a shorter
  one the edge of a chunk may leave less than a run, so that it is joined in the
  document and in no chunk.  It ends in no separator, and it is, blanks
  included, no longer than `PatternSpan`.
* **Overrides by destination** (`StrictestWins`): `profile_resolver.py:136` says
  a destination cannot be a loophole, but an override only one of two rules has
  is taken as it is, under the action of the other rule; and the guardrail on
  types of low entropy looks at the action only.
* **Equal keys**: the precedence key ends with eight characters of the type; two
  types that agree in them are ranked by the order of arrival.
* **Tokens** (`TokensConsistent`): uniqueness is drawn from one of the two
  dictionaries, so a vault half cleared by a teardown may give one surrogate twice.
* **Indexing beside deletion** (`Settled` in `Deletion`): texts put between the
  listing and the deletion of rows stay in the store, and the receipt says
  complete (`deletion.py:109`).
* **Records of deletion** (`RemovalsAreLogged`): "the audit record is written
  either way" (`deletion.py:58`), but it is written last.  An exception or a crash
  between the loss and the record, of a document (`deletion.py:153`) or of a run
  (`deletion.py:204`), or a sink that raises (`deletion.py:303`) leaves none.  A
  document that still has its row is recorded when its deletion is repeated; to a
  document or run without one no sweep comes back.  Such a subject is in `cut`.
* **Required periods** (`NothingYoung`): that every required category has a period
  is asked once, as a sweep begins; `Covered` speaks of the periods there have
  been since then.  A workspace that is deleted meanwhile takes its policies along.
* **Sweeps** (`OverdueGoes`): a sweep lists the 10,000 newest documents and runs
  and deletes the old ones among them, so what is older than the newest 10,000
  is never reached; an exception in one deletion ends the sweep; and
  `documents_deleted` counts a deletion whose receipt is incomplete
  (`retention.py:184`), `trace_events_deleted` nothing at all.  Runs go whatever
  their status, and `delete_expired` goes by one workspace's period over the
  sessions of all (`retention.py:207`).
* **Migrations** (`ApplyNext`): "Each migration runs inside its own transaction"
  (`engine.py:83`), but the read before has opened one, so that they are
  savepoints of it and are committed together.  The key of a record is
  `NNNN_name` (`migrations/__init__.py:48`), not the number: two processes from
  different branches whose migrations share a number but no table both commit and
  both serve (`engine.py:93`), and the next start of either is refused because
  the other's record has no file (`engine.py:150`).  `ServesItsSchema` therefore
  says that who serves has all its files applied, not that the schema has nothing
  more, and that who reads the records later goes no further.
* **Runs** (`RunsOnlyAdvance`): a second `finish` overwrites the reason of the
  first (`postgres.py:281`); the property fixes that an ended run stays ended,
  not how.
* **Embeddings** (`TenantIsolation`): `upsert` meets its conflict by chunk, model
  and version without naming the workspace, and changes no key, so that no foreign
  key is checked on that path (`postgres.py:531`).  A call for one workspace with
  the id of another one's chunk overwrites the vector there, where
  `0001_initial.sql:33` says that isolation does not depend on every future
  caller getting it right.  The property makes an exception of just this
  (`Overwrites`).
* **Prompts**: the composite key of a run's prompt version with
  `ON DELETE SET NULL` would set the workspace too; no call deletes a version
  alone.
* **Disabled accounts**: a login that has read the account before it is disabled
  still gets its session, and neither `resolve_session` (`scope.py:116`) nor
  `Find` looks at `disabled`: the session works until it is revoked or expires.
* **Token counts**: "Session-level, carried across turns" (`budgets.py:44`), but
  a reset in any browser clears every cached runtime and with it the counts of
  all sessions, so `SpendBounded` is a bound per runtime.

## 8. What is not modelled

* **Recognizers, injection scan**: regular expressions and validators.  A pass of
  `ScrubPipeline` recognises a value or does not; `DataPath` has patterns that
  stand for expressions with a checksum, and arbitrary findings for the rest.
* **Content gate, prompt safety, safe parsers, paths and settings**: pure
  functions of one text; constants of the settings appear as `CONSTANTS`.
* **Faults in `DataPath`, offsets in `ScrubPipeline`**: the two views of a call
  are checked apart; their product is too large, and they share no state but the
  list of entities.
* **`.partial` files** of the object store, which `iter_keys` does not list: a
  crash inside `put` leaves one, and nothing in the code looks for it.
* **The allowlist and the temporary directory** that a teardown also clears;
  nothing in `src/` outside the tests adds to the allowlist.
* **`detokenize`, `forget` and `stats`** of the vault, `list`, `export` and
  preferences among the tools: no caller, or no state another session sees.
* **The cache of profile definitions**: in the model a profile is read when it is
  resolved.
* **Reads, columns, ordering and limits** of repositories that no constraint and
  no property looks at, and the row mappers.  The `WHERE` of a read names its
  workspace; a property of the model could only repeat it.
* **`ScanOptions.use_spacy`** (`pipeline.py:55`, `detector.py:476`): no caller of
  the pipeline sets it.
* **The deduplication of results by `request_id`** (`context.py:94`): a result gets
  a fresh id, so `Keep` never meets one twice.
* **The clock of a revocation**: the caller of `revoke` reads it before the
  statement (`postgres.py:1105`); `Revoke` does both in one step.
* **Start-up checks, password derivation, rendering, prompts, memory summaries,
  developer tools**: code that runs once and alone, a function without state, or
  presentation.  Of `validate_retention` there is only the condition, which is
  that of `BeginSweep`.
* **Explorer packages without code** (`agents`, `api`, `retrieval` and others).
* `_assert_pii_free` of the audit sink is a check of field names, which pass.

## 9. Plan

The modules planned are there, and every safety property a run checks is proved.
What could follow: faults in `DataPath`, so that a value missed by a detector that
failed meets the re-scan of `ScrubPipeline` in one model; and the code that is not
written yet, the indexing of documents and retrieval over them, for which
`Deletion` and `Records` state what it must keep.
