-------------------------- MODULE MCScrubPipeline --------------------------
(***************************************************************************)
(* Instances of ScrubPipeline: documents of two chunks that may hold two   *)
(* SSNs (one written with spaces, which only the second pass recognises),  *)
(* a name and an API key.                                                  *)
(***************************************************************************)
EXTENDS ScrubPipeline, TLC

CONSTANTS ssn, spaced, name, key

TypesOf == (ssn :> "US_SSN") @@ (spaced :> "US_SSN") @@ (name :> "PERSON") @@ (key :> "API_KEY")
Recognisers ==
    (ssn :> "presidio") @@ (spaced :> "second") @@ (name :> "spacy")
    @@ (key :> "custom_security")
Places == (ssn :> 1) @@ (spaced :> 2) @@ (name :> 2) @@ (key :> 1)

ValueTypes == [v \in Values |-> TypesOf[v]]
ValuePasses == [v \in Values |-> Recognisers[v]]
ValueChunks == [v \in Values |-> Places[v]]

NoNeighbours == {}
SpacedBehindSsn == {<<ssn, spaced>>}

\* Documents over Values with every policy, and the chunks they leave empty
\* either blank or full of ordinary text.
Documents ==
    UNION {
        {[present |-> p, blank |-> b,
          policy |-> [v \in Values |-> IF v \in p THEN f[v] ELSE "ALLOW"]] :
            b \in {{}, {c \in Chunks : \A v \in p : ChunkOf[v] # c}},
            f \in [p -> Actions]} :
        p \in SUBSET Values}

Ask(d, mode, sensitive, destination, dryRun, limit, approved) ==
    [mode |-> mode, present |-> d.present, blank |-> d.blank, policy |-> d.policy,
     sensitive |-> sensitive, destination |-> destination, dryRun |-> dryRun,
     limit |-> limit, approved |-> approved]

\* The requests without a limit: scans, scrubs and dry runs, with and without a
\* destination.
WholeRequests ==
    {Ask(d, "scan", s, dest, FALSE, N, FALSE) :
        d \in Documents, s \in {{}, {"US_SSN"}}, dest \in BOOLEAN}
    \cup {Ask(d, "scrub", s, dest, dry, N, FALSE) :
        d \in Documents, s \in {{}, {"US_SSN"}}, dest \in BOOLEAN, dry \in BOOLEAN}

\* The same and partial scans, approved or not.
AllRequests ==
    WholeRequests \cup
    {Ask(d, "scrub", {}, TRUE, FALSE, k, ok) : d \in Documents, k \in 0..(N - 1),
                                             ok \in BOOLEAN}
=============================================================================
