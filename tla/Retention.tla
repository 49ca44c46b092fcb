----------------------------- MODULE Retention -----------------------------
(***************************************************************************)
(* RetentionSweeper of explorer/storage/retention.py in one workspace, on  *)
(* top of the deletions of module Deletion: it reads the periods the       *)
(* workspace has configured, lists what there is, and deletes what is past *)
(* its period, while users delete, documents are indexed, periods change   *)
(* and the workspace itself may go.  Each repository call is a transaction *)
(* of its own.  Times are days.                                            *)
(***************************************************************************)
EXTENDS Deletion

C == INSTANCE Classification

CONSTANTS
    Sweeper,        \* the deleter the sweep works through
    Runs, Sessions, \* runs of the workspace, sessions of anybody
    Born,           \* created_at of each document
    Started,        \* started_at of each run
    Expires,        \* expires_at of each session
    Limit,          \* the newest documents and runs a sweep lists
    Periods,        \* retention_days a policy may have
    Settings,       \* bound: the policies a behaviour may begin with
    Requested,      \* bound: what the others delete
    Upserts,        \* bound: the <<category, days>> that may be set meanwhile
    FirstDay, LastDay,  \* bounds of the clock
    None            \* no policy

Categories == C!Required
Swept == <<"document", "trace_event", "session">>

ASSUME RetentionAssumption ==
    /\ Sweeper \in Deleters /\ Requested \subseteq Subjects
    /\ Limit \in Nat \ {0} /\ Periods \subseteq Nat /\ None \notin Periods
    /\ FirstDay \in Nat /\ LastDay \in Nat
    /\ Born \in [Docs -> 0..FirstDay] /\ Started \in [Runs -> 0..FirstDay]
    /\ Expires \in [Sessions -> Nat]
    /\ Settings \subseteq [Categories -> Periods \cup {None}]
    /\ \A s \in Settings : \E c \in Categories : s[c] # None
    /\ Upserts \subseteq Categories \X Periods
    /\ Runs \cap Subjects = {}
    /\ {Swept[i] : i \in 1..3} \subseteq Categories
    /\ \A c \in DOMAIN C!Registry : C!Allowed(C!Registry[c])
    /\ \A t \in DOMAIN C!TableCategory : C!TableCategory[t] \in DOMAIN C!Registry

VARIABLES
    day,        \* the clock
    policy,     \* retention_policy: days for each category
    runs,       \* runs with a row
    signed,     \* user_session: sessions with a row
    sweep,      \* the sweep under way
    runlog,     \* the deletion records of runs
    inforce,    \* history: the periods there have been since the sweep began
    cut,        \* history: subjects whose deletion an exception or a crash cut
                \* short, and nobody has set about again since
    upsets      \* how many sweeps an exception between two deletions has ended

marks == <<cut, upsets>>
sweepVars == <<day, policy, runs, signed, sweep, runlog, inforce, marks>>
allVars == <<vars, sweepVars>>

Off == [at |-> "off"]
Missing == {c \in Categories : policy[c] = None}

RetentionInit ==
    /\ Init
    /\ day = FirstDay
    /\ policy \in Settings
    /\ runs = Runs /\ signed = Sessions
    /\ sweep = Off
    /\ runlog = {} /\ cut = {} /\ upsets = 0
    /\ inforce = [c \in Categories |-> {}]

-----------------------------------------------------------------------------
\* The policies there are went with their workspace, and none comes without it.
There == \E c \in Categories : policy[c] # None

\* upsert of a period, by the operator.
SetPolicy(c, days) ==
    /\ There /\ policy[c] # days
    /\ policy' = [policy EXCEPT ![c] = days]
    /\ inforce' = IF sweep = Off THEN inforce ELSE [inforce EXCEPT ![c] = @ \cup {days}]
    /\ UNCHANGED <<vars, day, runs, signed, sweep, runlog, marks>>

NextDay ==
    /\ day < LastDay
    /\ day' = day + 1
    /\ UNCHANGED <<vars, policy, runs, signed, sweep, runlog, inforce, marks>>

\* Mutant: the clock is read once, when the sweeper is made.
BeginSweep_OldClock ==
    /\ sweep = Off /\ pc[Sweeper] = "idle"
    /\ Missing = {}
    /\ sweep' = [at |-> "cutoff", moment |-> FirstDay, category |-> 1]
    /\ inforce' = [c \in Categories |-> {policy[c]}]
    /\ UNCHANGED <<vars, day, policy, runs, signed, runlog, marks>>

\* Mutant: the sweep does not ask for the missing categories.
BeginSweep_Unconfigured ==
    /\ sweep = Off /\ pc[Sweeper] = "idle"
    /\ sweep' = [at |-> "cutoff", moment |-> day, category |-> 1]
    /\ inforce' = [c \in Categories |-> {policy[c]}]
    /\ UNCHANGED <<vars, day, policy, runs, signed, runlog, marks>>

\* A workspace without every required period is skipped.
BeginSweep ==
    /\ sweep = Off /\ pc[Sweeper] = "idle"
    /\ Missing = {}
    /\ sweep' = [at |-> "cutoff", moment |-> day, category |-> 1]
    /\ inforce' = [c \in Categories |-> {policy[c]}]
    /\ UNCHANGED <<vars, day, policy, runs, signed, runlog, marks>>

\* Nothing is remembered of a sweep.
Home == sweep' = Off /\ inforce' = [c \in Categories |-> {}]

\* On to the next category, or home.
Turn(n) ==
    IF n <= 3
    THEN /\ sweep' = [at |-> "cutoff", moment |-> sweep.moment, category |-> n]
         /\ UNCHANGED inforce
    ELSE Home

\* cutoff_for: without a policy, which went with its workspace, the category is
\* left alone.
ReadCutoff ==
    /\ sweep.at = "cutoff"
    /\ LET days == policy[Swept[sweep.category]]
       IN IF days = None THEN Turn(sweep.category + 1)
          ELSE /\ sweep' = [at |-> "list", moment |-> sweep.moment,
                            category |-> sweep.category, cutoff |-> sweep.moment - days]
               /\ UNCHANGED inforce
    /\ UNCHANGED <<vars, day, policy, runs, signed, runlog, marks>>

Due(created, cutoff) == created < cutoff

\* ORDER BY created_at DESC LIMIT.
Newest(S, time) ==
    {T \in SUBSET S : Cardinality(T) = (IF Cardinality(S) < Limit THEN Cardinality(S) ELSE Limit)
                      /\ \A x \in T, y \in S \ T : time[x] >= time[y]}

\* What is listed is looked at; what is due is what the loop will delete.
Found(due) ==
    sweep' = [at |-> "each", moment |-> sweep.moment, category |-> sweep.category, left |-> due]

ListDocuments ==
    /\ sweep.at = "list" /\ sweep.category = 1
    /\ \E T \in Newest(rows, Born) : Found({d \in T : Due(Born[d], sweep.cutoff)})
    /\ UNCHANGED <<vars, day, policy, runs, signed, runlog, inforce, marks>>

ListRuns ==
    /\ sweep.at = "list" /\ sweep.category = 2
    /\ \E T \in Newest(runs, Started) : Found({r \in T : Due(Started[r], sweep.cutoff)})
    /\ UNCHANGED <<vars, day, policy, runs, signed, runlog, inforce, marks>>

\* A deletion of x begins.
SetAbout(w, x) ==
    /\ IF x = Workspace THEN ListPrefix(w) ELSE Lookup(w, x)
    /\ cut' = cut \ {x}
    /\ UNCHANGED upsets

\* delete_document of the next one, newest first.
SweepDocument ==
    /\ sweep.at = "each" /\ sweep.category = 1 /\ pc[Sweeper] = "idle"
    /\ \E d \in sweep.left :
          /\ \A e \in sweep.left : Born[d] >= Born[e]
          /\ SetAbout(Sweeper, d)
          /\ sweep' = [sweep EXCEPT !.left = @ \ {d}]
    /\ UNCHANGED <<day, policy, runs, signed, runlog, inforce>>

\* delete_run: the row, whatever the status of the run ...
SweepRun ==
    /\ sweep.at = "each" /\ sweep.category = 2
    /\ \E r \in sweep.left :
          /\ \A e \in sweep.left : Started[r] >= Started[e]
          /\ runs' = runs \ {r}
          /\ sweep' = [at |-> "record", moment |-> sweep.moment, category |-> 2,
                       left |-> sweep.left \ {r}, run |-> r]
    /\ UNCHANGED <<vars, day, policy, signed, runlog, inforce, marks>>

\* ... and its record.
RecordRun ==
    /\ sweep.at = "record"
    /\ runlog' = runlog \cup {sweep.run}
    /\ sweep' = [at |-> "each", moment |-> sweep.moment, category |-> 2, left |-> sweep.left]
    /\ UNCHANGED <<vars, day, policy, runs, signed, inforce, marks>>

\* The loop is through: a deletion the store refused is not tried again in this
\* sweep.
EndLoop ==
    /\ sweep.at = "each" /\ sweep.left = {} /\ pc[Sweeper] = "idle"
    /\ Turn(sweep.category + 1)
    /\ UNCHANGED <<vars, day, policy, runs, signed, runlog, marks>>

\* delete_expired, of every workspace's users.
SweepSessions ==
    /\ sweep.at = "list" /\ sweep.category = 3
    /\ signed' = {s \in signed : ~Due(Expires[s], sweep.cutoff)}
    /\ Turn(4)
    /\ UNCHANGED <<vars, day, policy, runs, runlog, marks>>

-----------------------------------------------------------------------------
\* The bound on what goes wrong, in deletions and between them.
Mishap == faults + upsets < MaxFaults

\* A deleter at work; a workspace takes its policies and runs with it.
Work(w) ==
    /\ \/ ListKeys(w) \/ RemovePayload(w) \/ KeepRows(w) \/ Record(w)
       \/ Mishap /\ PayloadRefused(w)
    /\ UNCHANGED sweepVars

TakeRows(w) ==
    /\ DeleteRows(w)
    /\ IF subject[w] = Workspace
       THEN /\ policy' = [c \in Categories |-> None]
            /\ runs' = {}
       ELSE UNCHANGED <<policy, runs>>
    /\ UNCHANGED <<day, signed, sweep, runlog, inforce, marks>>

Others ==
    /\ \/ \E w \in Deleters \ {Sweeper}, x \in Requested : SetAbout(w, x)
       \/ /\ \E d \in Docs : ReplaceChunks(d) \/ \E k \in TextsOf[d] : PutText(d, k)
          /\ UNCHANGED marks
    /\ UNCHANGED <<day, policy, runs, signed, sweep, runlog, inforce>>

\* An exception that is no ObjectStoreError ends a deletion, and with the
\* sweeper's the sweep: the documents behind it, the runs and the sessions.
CutShort(w) ==
    /\ Mishap /\ Raise(w)
    /\ cut' = cut \cup {subject[w]}
    /\ IF w = Sweeper THEN Home ELSE UNCHANGED <<sweep, inforce>>
    /\ UNCHANGED <<day, policy, runs, signed, runlog, upsets>>

\* A run that is gone and has no record yet.
Unrecorded == IF sweep.at = "record" THEN {sweep.run} ELSE {}

\* Any other call of the sweep raises: reading a period, a list, the row of a
\* run, the record of it, the sessions.  Nothing in the sweep catches it.
SweepFails ==
    /\ "raise" \in Faults /\ Mishap
    /\ sweep # Off /\ pc[Sweeper] = "idle"
    /\ upsets' = upsets + 1
    /\ cut' = cut \cup Unrecorded
    /\ Home
    /\ UNCHANGED <<vars, day, policy, runs, signed, runlog>>

\* The process dies, with the sweep and every deletion in it.
SweepCrash ==
    /\ Mishap /\ Crash
    /\ sweep # Off \/ \E w \in Deleters : pc[w] # "idle"
    /\ cut' = cut \cup {subject[w] : w \in {v \in Deleters : pc[v] # "idle"}} \cup Unrecorded
    /\ Home
    /\ UNCHANGED <<day, policy, runs, signed, runlog, upsets>>

SweepStep ==
    \/ ReadCutoff \/ ListDocuments \/ ListRuns \/ SweepDocument \/ SweepRun \/ RecordRun
    \/ EndLoop \/ SweepSessions

RetentionNext ==
    \/ \E u \in Upserts : SetPolicy(u[1], u[2])
    \/ NextDay \/ BeginSweep \/ SweepStep \/ Others \/ SweepFails \/ SweepCrash
    \/ \E w \in Deleters : Work(w) \/ TakeRows(w) \/ CutShort(w)

\* Days go by, the sweep comes round, and what has begun runs on.
RetentionFairness ==
    /\ WF_allVars(NextDay) /\ WF_allVars(BeginSweep) /\ WF_allVars(SweepStep)
    /\ WF_allVars(Work(Sweeper) \/ TakeRows(Sweeper))

RetentionSpec == RetentionInit /\ [][RetentionNext]_allVars /\ RetentionFairness

-----------------------------------------------------------------------------
\* "Nothing inside its retention window is ever removed": what the sweeper
\* takes, documents, runs and sessions, was past a period in force since the
\* sweep began, in a workspace that had a period for every required category;
\* also where periods change, days pass and the workspace goes meanwhile.
Past(time, c) == \E days \in inforce[c] \cap Periods : day - time > days
Covered == \A c \in Categories : inforce[c] \cap Periods # {}
NothingYoung ==
    [][/\ \A d \in rows \ rows' :
             \/ \E w \in Deleters \ {Sweeper} : pc[w] # pc'[w]
             \/ Past(Born[d], "document") /\ Covered
       /\ sweep # sweep' =>
             /\ \A r \in runs \ runs' : Past(Started[r], "trace_event") /\ Covered
             /\ \A s \in signed \ signed' : Past(Expires[s], "session") /\ Covered]_allVars

\* "The audit record is written last, and always", as far as that goes: whatever
\* has lost anything has a record of its own or of the workspace, unless somebody
\* works on it, or its deletion was cut short, by an exception or a crash between
\* the loss and the record, and has not been begun again: no deletion that runs
\* to its end, refused payloads and deletions of what is half gone included,
\* leaves a loss unrecorded.
Noted(x) == x \in cut \/ Workspace \in cut \/ \E r \in log : r.subject \in {x, Workspace}
RemovalsAreLogged ==
    /\ \A d \in Docs :
          \/ Whole(d) \/ Noted(d)
          \/ \E w \in Deleters : pc[w] # "idle" /\ d \in Rows(subject[w])
    /\ \A r \in Runs \ runs :
          \/ r \in runlog \/ Noted(r)
          \/ sweep.at = "record" /\ sweep.run = r
          \/ \E w \in Deleters : pc[w] # "idle" /\ subject[w] = Workspace

\* Retention is enforced: a document older than every period anybody may choose
\* goes, whatever fails on the way, as long as no more than Limit documents are
\* as new as it or newer.
Overdue(d) ==
    /\ d \in rows /\ Missing = {}
    /\ \A days \in Periods : day - Born[d] > days
    /\ Cardinality({e \in rows : Born[e] >= Born[d]}) <= Limit
OverdueGoes == \A d \in Docs : Overdue(d) ~> d \notin rows
=============================================================================
