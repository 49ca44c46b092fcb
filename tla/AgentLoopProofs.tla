-------------------------- MODULE AgentLoopProofs --------------------------
(***************************************************************************)
(* For all limits: a turn stays within the recursion limit of the graph    *)
(* when that leaves room for two nodes per iteration and two more; with    *)
(* each of its runtimes a session exceeds its allowance by less than one   *)
(* response; no tool call is without an answer when the model is asked.    *)
(***************************************************************************)
EXTENDS AgentLoop, TLAPS

Room == 2 * MaxIterations + 2 <= RecursionLimit

\* Where the turn is fixes how many nodes it has run.  The calls of a response
\* may take iterations past the limit, so the count of iterations alone bounds
\* nothing once the last one is reached; the second bound of a line does.
StepsCounted ==
    /\ node \in {"reasoning", "asking", "routing"} =>
          steps <= 2 * iterations + 1 /\ steps <= 2 * MaxIterations + 1
    /\ node \in {"tools", "scanning"} =>
          /\ calls > 0
          /\ steps <= 2 * MaxIterations
          /\ steps <= 2 * iterations + 2
          /\ handled > 0 => steps <= 2 * iterations
    /\ node \in {"respond", "idle"} => steps <= 2 * MaxIterations + 2

\* An iteration in which tools run began below the limit and counts its calls.
IterationsBounded ==
    /\ node = "asking" => iterations < MaxIterations
    /\ node \in {"tools", "scanning"} => iterations < MaxIterations + handled
    /\ node = "scanning" => handled > 0

\* The call being run is the only one without an answer.
Answers ==
    /\ node \in {"reasoning", "asking"} => answered = calls /\ handled = calls
    /\ node = "tools" => answered = handled
    /\ node = "scanning" => handled = answered + 1
    /\ node = "routing" => answered = 0 /\ handled = 0

\* The most one runtime bills, and the most the earlier ones have billed.
Allowance == MaxTokens + MaxUsage
Before == resets * Allowance

\* The budget knows of every token since the last rebuild, and was not exceeded
\* when the model was asked.
TokensKnown ==
    /\ spent <= Before + used
    /\ used < Allowance
    /\ node = "asking" => used < MaxTokens

\* The induction.
IInv == TypeOK /\ StepsCounted /\ IterationsBounded /\ Answers /\ TokensKnown

\* The numbers of TypeOK; its other parts are plain sets, for another prover.
Numbers ==
    /\ iterations \in 0..(MaxIterations + MaxCalls)
    /\ used \in Nat /\ spent \in Nat /\ resets \in 0..MaxResets
    /\ calls \in 0..MaxCalls /\ answered \in 0..calls /\ handled \in 0..calls
    /\ chunk \in 0..Chunks
    /\ steps \in Nat
Labels ==
    /\ node \in {"idle", "reasoning", "asking", "routing", "tools", "scanning", "respond"}
    /\ cancelled \in BOOLEAN /\ late \in BOOLEAN
    /\ reply \in {"none", "text", "limit", "error"}

\* Where the iterations start again from nothing, the count of nodes does not
\* depend on the rest of the invariant.
LEMMA InitSteps == Init => StepsCounted
BY LimitsAssumption DEF LimitsAssumption, Init, StepsCounted

LEMMA StartSteps == StartTurn => StepsCounted'
BY LimitsAssumption DEF LimitsAssumption, StartTurn, StepsCounted

LEMMA RebuildSteps == StepsCounted /\ Rebuild => StepsCounted'
BY LimitsAssumption DEF LimitsAssumption, Rebuild, StepsCounted, batch

\* The products, apart from the induction.
LEMMA BeforeIsNat ==
    ASSUME NEW n \in Nat
    PROVE  /\ Allowance \in Nat /\ Allowance > 0
           /\ n * Allowance \in Nat
           /\ (n + 1) * Allowance = n * Allowance + Allowance
           /\ 0 * Allowance = 0
<1>1. Allowance \in Nat /\ Allowance > 0
    BY LimitsAssumption DEF LimitsAssumption, Allowance
<1> HIDE DEF Allowance
<1> QED
    BY <1>1

LEMMA InitIInv == Init => IInv
<1> SUFFICES ASSUME Init PROVE IInv
    OBVIOUS
<1>1. TypeOK
  <2>1. Numbers
    BY LimitsAssumption DEF LimitsAssumption, Init, Numbers
  <2>2. Labels
    BY DEF Init, Labels
  <2> QED
    BY <2>1, <2>2 DEF Numbers, Labels, TypeOK
<1>2. IterationsBounded /\ Answers
    BY DEF Init, IterationsBounded, Answers
<1>3. TokensKnown
  <2>1. Before = 0 /\ Allowance > 0 /\ Allowance \in Nat
    BY BeforeIsNat DEF Init, Before
  <2> QED
    BY <2>1 DEF Init, TokensKnown
<1> QED
    BY <1>1, <1>2, <1>3, InitSteps DEF IInv

\* A response is the only thing that costs, a rebuild the only thing forgotten.
LEMMA TokensStep ==
    ASSUME TypeOK, TokensKnown, [Next]_vars
    PROVE  TokensKnown'
<1>1. Before \in Nat /\ Allowance \in Nat /\ Allowance > 0 /\ Allowance' = Allowance
    BY BeforeIsNat, LimitsAssumption DEF LimitsAssumption, TypeOK, Before, Allowance
<1>2. CASE Answer
  <2>1. Before' = Before
    BY <1>2 DEF Answer, Before, Allowance
  <2>2. PICK cost \in 0..MaxUsage : used' = used + cost /\ spent' = spent + cost
    BY <1>2 DEF Answer
  <2>3. used < MaxTokens /\ node' # "asking"
    BY <1>2 DEF Answer, TokensKnown
  <2>4. used' < Allowance
    BY <2>2, <2>3, LimitsAssumption DEF LimitsAssumption, TypeOK, Allowance
  <2> QED
    BY <1>1, <2>1, <2>2, <2>3, <2>4, LimitsAssumption
       DEF LimitsAssumption, TypeOK, TokensKnown
<1>3. CASE Rebuild
  <2>1. Before' = Before + Allowance
    BY <1>3, BeforeIsNat DEF Rebuild, TypeOK, Before, Allowance
  <2>2. used' = 0 /\ spent' = spent /\ node' # "asking"
    BY <1>3 DEF Rebuild
  <2> QED
    BY <1>1, <2>1, <2>2 DEF TypeOK, TokensKnown
<1>4. CASE ~Answer /\ ~Rebuild
  <2>1. UNCHANGED <<used, spent, resets>>
    BY <1>4 DEF Next, Runs, vars, bill, budget, StartTurn, Refuse, Ask, Fail, Route, Enter,
       SkipCall, StartTool, ScanChunk, EndTool, EndTools, Respond, Cancel, Expire, Abort
  <2>2. node' = "asking" => node = "asking" \/ Ask
    BY <1>4 DEF Next, Runs, vars, bill, budget, StartTurn, Refuse, Fail, Route, Enter,
       SkipCall, StartTool, ScanChunk, EndTool, EndTools, Respond, Cancel, Expire, Abort
  <2>3. Ask => used < MaxTokens
    BY LimitsAssumption DEF LimitsAssumption, Ask, Exhausted, TypeOK
  <2>4. Before' = Before
    BY <2>1 DEF Before, Allowance
  <2> QED
    BY <1>1, <2>1, <2>2, <2>3, <2>4 DEF TokensKnown
<1> QED
    BY <1>2, <1>3, <1>4

LEMMA StepIInv == IInv /\ [Next]_vars => IInv'
<1> SUFFICES ASSUME IInv, [Next]_vars PROVE IInv'
    OBVIOUS
<1>0. TokensKnown'
    BY TokensStep DEF IInv
<1> USE LimitsAssumption
        DEF LimitsAssumption, IInv, TypeOK, IterationsBounded, Answers, budget, bill, batch
<1>1. CASE StartTurn
  <2>1. TypeOK'
    <3>1. Numbers'
      BY <1>1 DEF StartTurn, Numbers
    <3>2. Labels'
      BY <1>1 DEF StartTurn, Labels
    <3> QED
      BY <3>1, <3>2 DEF Numbers, Labels
  <2>2. IterationsBounded' /\ Answers'
    BY <1>1 DEF StartTurn
  <2> QED
    BY <1>1, <2>1, <2>2, <1>0, StartSteps DEF IInv
<1>2. CASE Rebuild
  <2>1. TypeOK'
    <3>1. Numbers'
      BY <1>2 DEF Rebuild, Numbers
    <3>2. Labels'
      BY <1>2 DEF Rebuild, Labels
    <3> QED
      BY <3>1, <3>2 DEF Numbers, Labels
  <2>2. IterationsBounded' /\ Answers'
    BY <1>2 DEF Rebuild
  <2> QED
    BY <1>2, <2>1, <2>2, <1>0, RebuildSteps DEF IInv
<1> USE DEF StepsCounted
<1>3. CASE Refuse
    BY <1>0, <1>3 DEF Refuse
<1>4. CASE Ask
    BY <1>0, <1>4 DEF Ask, Exhausted
<1>5. CASE Answer
    BY <1>0, <1>5 DEF Answer
<1>6. CASE Fail
    BY <1>0, <1>6 DEF Fail
<1>7. CASE Route
    BY <1>0, <1>7 DEF Route, Enter
<1>8. CASE SkipCall
    BY <1>0, <1>8 DEF SkipCall
<1>9. CASE StartTool
    BY <1>0, <1>9 DEF StartTool
<1>10. CASE ScanChunk
    BY <1>0, <1>10 DEF ScanChunk
<1>11. CASE EndTool
    BY <1>0, <1>11 DEF EndTool
<1>12. CASE EndTools
    BY <1>0, <1>12 DEF EndTools, Enter
<1>13. CASE Respond
    BY <1>0, <1>13 DEF Respond
<1>14. CASE Cancel
    BY <1>0, <1>14 DEF Cancel, InTurn
<1>15. CASE Expire
    BY <1>0, <1>15 DEF Expire, InTurn
<1>16. CASE Abort
    BY <1>0, <1>16 DEF Abort
<1>17. CASE UNCHANGED vars
    BY <1>0, <1>17 DEF vars
<1> QED
    BY <1>1, <1>2, <1>3, <1>4, <1>5, <1>6, <1>7, <1>8, <1>9,
       <1>10, <1>11, <1>12, <1>13, <1>14, <1>15, <1>16, <1>17 DEF Next, Runs

LEMMA Inductive == Spec => []IInv
BY InitIInv, StepIInv, PTL DEF Spec

-----------------------------------------------------------------------------
\* Every variable keeps its type; a batch of calls takes the iteration count
\* past its limit by less than the batch.
THEOREM TypeCorrect == Spec => []TypeOK
BY Inductive, PTL DEF IInv

\* Given room for two nodes per iteration and two more, no turn reaches the
\* recursion limit, at which LangGraph raises instead of replying.
THEOREM TurnFitsTheGraph ==
    ASSUME Room PROVE Spec => []WithinRecursionLimit
<1>1. IInv => WithinRecursionLimit
    BY LimitsAssumption, Room
       DEF LimitsAssumption, IInv, TypeOK, StepsCounted, WithinRecursionLimit, Room
<1> QED
    BY <1>1, Inductive, PTL

\* However often its runtime is rebuilt, a session is billed less than the
\* allowance and one response together for each of its runtimes.
THEOREM AllowanceHolds == Spec => []SpendBounded
<1>1. IInv => SpendBounded
  <2> SUFFICES ASSUME IInv PROVE SpendBounded
    OBVIOUS
  <2>1. Before \in Nat /\ Allowance \in Nat /\ (resets + 1) * Allowance = Before + Allowance
    BY BeforeIsNat DEF IInv, TypeOK, Before
  <2>2. spent < (resets + 1) * Allowance
    BY <2>1 DEF IInv, TypeOK, TokensKnown
  <2> QED
    BY <2>2 DEF SpendBounded, Allowance
<1> QED
    BY <1>1, Inductive, PTL

\* The model is asked only with every call of its last response answered.
THEOREM AnswersComplete == Spec => []AskedWhenAnswered
<1>1. IInv => AskedWhenAnswered
    BY DEF IInv, Answers, AskedWhenAnswered
<1> QED
    BY <1>1, Inductive, PTL

\* A cancelled turn asks the model nothing more and starts no further tool, from
\* wherever the cancel finds it: _reasoning_node and _tool_node look at the flag
\* before they act.
THEOREM CancelIsHeeded == Spec => CancelStopsTurn
<1>1. [Next]_vars => [cancelled /\ node' # node => node' \notin {"asking", "scanning"}]_vars
  <2> SUFFICES ASSUME Next, cancelled, node' # node, node' \in {"asking", "scanning"} PROVE FALSE
    OBVIOUS
  <2>1. Ask \/ StartTool
    BY DEF Next, Runs, StartTurn, Refuse, Answer, Fail, Route, Enter, SkipCall, ScanChunk,
           EndTool, EndTools, Respond, Cancel, Expire, Abort, Rebuild
  <2>2. ~Ask
    BY DEF Ask, Exhausted
  <2>3. ~StartTool
    BY DEF StartTool
  <2> QED
    BY <2>1, <2>2, <2>3
<1> QED
    BY <1>1, PTL DEF Spec, CancelStopsTurn
=============================================================================
