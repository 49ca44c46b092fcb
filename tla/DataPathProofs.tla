--------------------------- MODULE DataPathProofs ---------------------------
(***************************************************************************)
(* What holds of the way of a document through the pipeline for every      *)
(* document, set of findings, profile and set of surrogates.               *)
(***************************************************************************)
EXTENDS DataPath, FiniteSetTheorems, SequenceTheorems, WellFoundedInduction, TLAPS

-----------------------------------------------------------------------------
(* Induction. *)

\* Induction over an interval, for a set instead of a predicate.
LEMMA UpTo ==
    ASSUME NEW m \in Int, NEW n \in Int, NEW S, m \in S,
           \A i \in m..(n - 1) : i \in S => i + 1 \in S
    PROVE  m..n \subseteq S
<1> SUFFICES ASSUME NEW q \in m..n, q \notin S PROVE FALSE
  OBVIOUS
<1> DEFINE T == {i \in Nat : m + i \in m..n /\ m + i \notin S}
           Less == OpToRel(<, Nat)
<1>1. q - m \in T
  OBVIOUS
<1>2. PICK x \in T : \A y \in T : <<y, x>> \notin Less
  <2>1. IsWellFoundedOn(Less, Nat) /\ T \subseteq Nat /\ T # {}
    BY <1>1, NatLessThanWellFounded
  <2> HIDE DEF T, Less
  <2>2. QED
    BY <2>1, WFMin
<1>3. x # 0
  OBVIOUS
<1>4. x - 1 \in T
  <2>1. x \in Nat /\ x > 0 /\ m + x \in m..n /\ m + x \notin S
    BY <1>3
  <2>2. m + (x - 1) \in m..(n - 1) /\ (m + (x - 1)) + 1 = m + x
    BY <2>1
  <2>3. m + (x - 1) \notin S
    BY <2>1, <2>2
  <2>4. QED
    BY <2>1, <2>2, <2>3
<1>5. <<x - 1, x>> \in Less
  BY <1>4 DEF OpToRel
<1>6. QED
  BY <1>2, <1>4, <1>5

\* A recursion over an interval, each step of which stays in a set, has a
\* solution.  The two operators give the provers something to match.
Recursive(m, n, V, base, step) ==
    m \in Int /\ n \in Int /\ m <= n /\ base \in V /\ step \in [m..n -> [V -> V]]
Solution(m, n, V, base, step, f) ==
    /\ f \in [m..n -> V] /\ f[m] = base
    /\ \A i \in (m + 1)..n : f[i] = step[i][f[i - 1]]

LEMMA Recursion ==
    \A m, n, V, base, step :
        Recursive(m, n, V, base, step) => \E f : Solution(m, n, V, base, step, f)
<1> SUFFICES ASSUME NEW m \in Int, NEW n \in Int, m <= n, NEW V, NEW base \in V,
                    NEW step \in [m..n -> [V -> V]]
             PROVE  \E f : Solution(m, n, V, base, step, f)
  BY DEF Recursive
<1> DEFINE Solves(q, f) == /\ f \in [m..q -> V] /\ f[m] = base
                           /\ \A i \in (m + 1)..q : f[i] = step[i][f[i - 1]]
           S == {q \in m..n : \E f : Solves(q, f)}
<1>1. m \in S
  <2>1. PICK f : f = [i \in m..m |-> base]
    OBVIOUS
  <2>2. f \in [m..m -> V] /\ f[m] = base /\ (m + 1)..m = {}
    BY <2>1
  <2>3. QED
    BY <2>2
<1>2. ASSUME NEW q \in m..(n - 1), q \in S PROVE q + 1 \in S
  <2>1. PICK f : Solves(q, f)
    BY <1>2
  <2> DEFINE g == [i \in m..(q + 1) |-> IF i = q + 1 THEN step[q + 1][f[q]] ELSE f[i]]
  <2>2. q + 1 \in (m + 1)..n /\ f[q] \in V /\ q + 1 # m
    BY <2>1
  <2>3. g \in [m..(q + 1) -> V]
    BY <2>1, <2>2
  <2>4. g[m] = base
    BY <2>1, <2>2
  <2>5. ASSUME NEW i \in (m + 1)..(q + 1) PROVE g[i] = step[i][g[i - 1]]
    <3>1. i - 1 \in m..q /\ i \in m..(q + 1) /\ i - 1 \in m..(q + 1) /\ i - 1 # q + 1
      OBVIOUS
    <3>2. g[i - 1] = f[i - 1]
      BY <3>1
    <3>3. CASE i = q + 1
      BY <3>1, <3>2, <3>3
    <3>4. CASE i # q + 1
      BY <3>1, <3>2, <3>4, <2>1
    <3>5. QED
      BY <3>3, <3>4
  <2> HIDE DEF g
  <2>6. Solves(q + 1, g)
    BY <2>3, <2>4, <2>5
  <2>7. \E h : Solves(q + 1, h)
    BY <2>6
  <2>8. q + 1 \in m..n
    OBVIOUS
  <2> HIDE DEF Solves
  <2>9. QED
    BY <2>7, <2>8
<1>3. n \in S
  <2>1. m..n \subseteq S
    <3> HIDE DEF S
    <3>1. QED
      BY <1>1, <1>2, UpTo
  <2>2. QED
    BY <2>1
<1>4. QED
  <2>1. PICK f : Solves(n, f)
    BY <1>3
  <2>2. QED
    BY <2>1 DEF Solution

\* What an interval holds has a greatest member.
LEMMA Greatest ==
    ASSUME NEW m \in Int, NEW n \in Int, NEW S \in SUBSET (m..n), S # {}
    PROVE  \E x \in S : \A y \in S : y <= x
<1> DEFINE Below(q) == {y \in S : y <= q}
           P == {q \in m..n : Below(q) = {} \/ \E x \in Below(q) : \A y \in Below(q) : y <= x}
<1>1. \A y \in S : y \in m..n /\ y \in Int /\ y <= n
  OBVIOUS
<1>2. m \in m..n /\ n \in m..n
  <2>1. PICK x \in S : x \in m..n
    OBVIOUS
  <2>2. QED
    BY <2>1
<1>3. m \in P
  <2>1. \A y \in Below(m) : y = m
    OBVIOUS
  <2>2. Below(m) = {} \/ \E x \in Below(m) : \A y \in Below(m) : y <= x
    BY <2>1
  <2>3. QED
    BY <1>2, <2>2
<1>4. ASSUME NEW q \in m..(n - 1), q \in P PROVE q + 1 \in P
  <2>1. CASE q + 1 \in S
    <3>1. q + 1 \in Below(q + 1) /\ \A y \in Below(q + 1) : y <= q + 1
      BY <2>1
    <3>2. q + 1 \in m..n
      OBVIOUS
    <3> HIDE DEF Below
    <3>3. QED
      BY <3>1, <3>2
  <2>2. CASE q + 1 \notin S
    <3>1. Below(q + 1) = Below(q)
      <4>1. \A y \in S : y <= q + 1 <=> y <= q
        BY <1>1, <2>2
      <4>2. QED
        BY <4>1
    <3>2. q + 1 \in m..n
      OBVIOUS
    <3> HIDE DEF Below
    <3>3. QED
      BY <1>4, <3>1, <3>2
  <2>3. QED
    BY <2>1, <2>2
<1>5. m..n \subseteq P
  <2> HIDE DEF P
  <2>1. QED
    BY <1>3, <1>4, UpTo
<1>6. n \in P
  <2> HIDE DEF P
  <2>1. QED
    BY <1>2, <1>5
<1>7. Below(n) = S
  BY <1>1
<1>8. QED
  BY <1>6, <1>7

\* What an interval holds has a least member.
LEMMA Least ==
    ASSUME NEW m \in Int, NEW n \in Int, NEW S \in SUBSET (m..n), S # {}
    PROVE  \E x \in S : \A y \in S : x <= y
<1> DEFINE T == {-x : x \in S}
<1>1. T \in SUBSET ((-n)..(-m)) /\ T # {}
  <2>1. ASSUME NEW x \in S PROVE -x \in (-n)..(-m)
    <3>1. x \in m..n
      OBVIOUS
    <3>2. QED
      BY <3>1
  <2>2. QED
    BY <2>1
<1>2. PICK z \in T : \A y \in T : y <= z
  <2> HIDE DEF T
  <2>1. -n \in Int /\ -m \in Int
    OBVIOUS
  <2>2. QED
    BY <1>1, <2>1, Greatest
<1>3. PICK x \in S : z = -x
  BY <1>2
<1>4. \A y \in S : -y <= -x
  BY <1>2, <1>3
<1>5. \A y \in S : x <= y
  BY <1>4
<1>6. QED
  BY <1>5

-----------------------------------------------------------------------------
(* Chunks. *)

\* A chunk that begins within a text ends later and within it.
LEMMA BoundaryAdvances ==
    ASSUME NEW text, Len(text) \in Nat, NEW size \in Nat \ {0}, NEW p \in 0..Len(text)
    PROVE  /\ Boundary(text, size, p) \in 0..Len(text)
           /\ IF p = Len(text) THEN Boundary(text, size, p) = p
              ELSE Boundary(text, size, p) > p
<1> DEFINE target == p + size
           first == Larger(p + 1, target - Larger(1, size \div 5))
           lines == {i \in first..(target - 1) : text[i + 1] = LineEnd}
           last == CHOOSE i \in lines : \A j \in lines : j <= i
<1>1. Boundary(text, size, p) =
         IF target >= Len(text) THEN Len(text) ELSE IF lines = {} THEN target ELSE 1 + last
  BY DEF Boundary
<1>2. size \div 5 \in Int
  OBVIOUS
<1>3. first \in Int /\ first > p /\ target \in Int /\ target > p
  BY <1>2 DEF Larger
<1>4. ASSUME lines # {} PROVE last \in first..(target - 1)
  <2>1. \E x \in lines : \A y \in lines : y <= x
    <3>1. lines \in SUBSET (first..(target - 1)) /\ target - 1 \in Int
      BY <1>3
    <3> HIDE DEF lines, first, target
    <3>2. QED
      BY <1>3, <1>4, <3>1, Greatest
  <2>2. last \in lines
    BY <2>1
  <2>3. QED
    BY <2>2
<1> HIDE DEF last, lines, first, target
<1>5. target = p + size
  BY DEF target
<1>6. QED
  BY <1>1, <1>3, <1>4, <1>5

\* The points at which a text is cut, up to its end.
LEMMA PointsAscend ==
    ASSUME NEW text, Len(text) \in Nat \ {0}, NEW size \in Nat \ {0}
    PROVE  \E n \in 1..Len(text) :
              /\ SplitPoints(text, size) \in [1..n -> 1..Len(text)]
              /\ SplitPoints(text, size)[n] = Len(text)
<1> DEFINE len == Len(text)
           V == 0..len
           Eq(f) == f = [q \in 0..len |-> IF q = 0 THEN 0 ELSE Boundary(text, size, f[q - 1])]
           end == CHOOSE f : Eq(f)
           step == [q \in 0..len |-> [p \in V |-> Boundary(text, size, p)]]
           Reached(q) == end[q] = len /\ \A j \in 1..(q - 1) : end[j] < len
           count == CHOOSE q \in 1..len : Reached(q)
<1>1. SplitPoints(text, size) = [q \in 1..count |-> end[q]]
  BY DEF SplitPoints
<1>2. \A p \in V : /\ Boundary(text, size, p) \in V
                   /\ IF p = len THEN Boundary(text, size, p) = p
                      ELSE Boundary(text, size, p) > p
  BY BoundaryAdvances
<1> USE DEF V
<1>3. Recursive(0, len, V, 0, step)
  BY <1>2 DEF Recursive
<1>4. PICK f : Solution(0, len, V, 0, step, f)
  <2> HIDE DEF step, V, len
  <2>1. QED
    BY <1>3, Recursion
<1>5. Eq(f)
  <2>1. f \in [0..len -> V] /\ f[0] = 0
    BY <1>4 DEF Solution
  <2>2. ASSUME NEW q \in 0..len, q # 0 PROVE f[q] = Boundary(text, size, f[q - 1])
    <3>1. q \in (0 + 1)..len /\ q - 1 \in 0..len
      BY <2>2
    <3>2. f[q] = step[q][f[q - 1]] /\ f[q - 1] \in V
      BY <1>4, <3>1 DEF Solution
    <3>3. QED
      BY <3>2
  <2>3. QED
    BY <2>1, <2>2
<1>6. Eq(end)
  <2> HIDE DEF Eq
  <2>1. QED
    BY <1>5
<1> HIDE DEF end, step
<1>7. \A q \in 0..len : end[q] \in V /\ (end[q] = len \/ end[q] >= q)
  <2> DEFINE S == {q \in 0..len : end[q] \in V /\ (end[q] = len \/ end[q] >= q)}
  <2>1. 0 \in S
    BY <1>6
  <2>2. ASSUME NEW q \in 0..(len - 1), q \in S PROVE q + 1 \in S
    <3>1. end[q + 1] = Boundary(text, size, end[q])
      BY <1>6
    <3>2. end[q] \in V /\ (end[q] = len \/ end[q] >= q) /\ q + 1 \in 0..len
      BY <2>2
    <3>3. CASE end[q] = len
      BY <1>2, <3>1, <3>2, <3>3
    <3>4. CASE end[q] # len
      BY <1>2, <3>1, <3>2, <3>4, SMTT(30)
    <3>5. QED
      BY <3>3, <3>4
  <2>3. 0..len \subseteq S
    <3> HIDE DEF S
    <3>1. len \in Int /\ 0 \in Int
      OBVIOUS
    <3> HIDE DEF len
    <3>2. QED
      BY <2>1, <2>2, <3>1, UpTo
  <2>4. QED
    BY <2>3
<1>8. \E q \in 1..len : Reached(q)
  <2> DEFINE S == {q \in 1..len : end[q] = len}
  <2>1. len \in S /\ S \in SUBSET (1..len)
    BY <1>7
  <2>2. PICK q \in S : \A j \in S : q <= j
    <3> HIDE DEF S
    <3>1. len \in Int /\ 1 \in Int /\ S # {}
      BY <2>1
    <3> HIDE DEF len
    <3>2. QED
      BY <2>1, <3>1, Least
  <2>3. ASSUME NEW j \in 1..(q - 1) PROVE end[j] < len
    <3>1. j \in 1..len /\ j \notin S /\ j \in 0..len
      BY <2>2
    <3>2. QED
      BY <1>7, <3>1
  <2>4. QED
    BY <2>2, <2>3
<1>9. count \in 1..len /\ Reached(count)
  <2> HIDE DEF Reached
  <2>1. QED
    BY <1>8
<1> HIDE DEF count
<1>10. \A q \in 1..count : end[q] \in 1..len
  <2>1. ASSUME NEW q \in 1..count PROVE end[q] \in 1..len
    <3>1. q \in 0..len
      BY <1>9
    <3>2. QED
      BY <1>7, <3>1
  <2>2. QED
    BY <2>1
<1>11. QED
  BY <1>1, <1>9, <1>10

-----------------------------------------------------------------------------
(* Profiles. *)

\* The stricter of two actions is no weaker than either (_merge_rule).
LEMMA Stricter ==
    ASSUME NEW a \in Actions, NEW b \in Actions
    PROVE  /\ MostRestrictive(a, b) \in Actions
           /\ Priority[MostRestrictive(a, b)] >= Priority[a]
           /\ Priority[MostRestrictive(a, b)] >= Priority[b]
           /\ Priority[a] \in 1..7
BY DEF Actions, Priority, MostRestrictive

\* The absence of a rule is no rule.
LEMMA NoRuleIsNone == NoRule \notin Rules /\ ~NoRule.enabled
<1>1. \A r \in Rules : r.action \in Actions
  BY DEF Rules
<1>2. NoRule.action = "none" /\ "none" \notin Actions
  BY DEF NoRule, Actions
<1>3. QED
  BY <1>1, <1>2 DEF NoRule

\* What a merged rule keeps of each it was made of.
AtLeast(m, r) ==
    /\ Priority[m.action] >= Priority[r.action]
    /\ \A d \in DOMAIN r.over : d \in DOMAIN m.over /\ Priority[m.over[d]] >= Priority[r.over[d]]

\* A rule made of all the rules R: it gives nothing up, and makes nothing up.
MergeOf(m, R) ==
    /\ m \in Rules \cup {NoRule} /\ R \subseteq Rules
    /\ m = NoRule <=> R = {}
    /\ \A r \in R : AtLeast(m, r)
    /\ m # NoRule =>
          /\ m.exempt => \E r \in R : r.exempt
          /\ \A d \in DOMAIN m.over : \E r \in R : d \in DOMAIN r.over

Overrides(f) == f \in [DOMAIN f -> Actions] /\ DOMAIN f \subseteq Destinations

\* What a rule is made of.
LEMMA RuleTypes ==
    ASSUME NEW r \in Rules
    PROVE  /\ r.enabled \in BOOLEAN /\ r.action \in Actions /\ r.exempt \in BOOLEAN
           /\ Overrides(r.over) /\ \A d \in DOMAIN r.over : r.over[d] \in Actions
           /\ r.threshold \in {Unset} \cup 0..MaxScore /\ r.span \in Nat /\ r.approved \in BOOLEAN
<1>1. r.over \in UNION {[D -> Actions] : D \in SUBSET Destinations}
  BY DEF Rules
<1>2. PICK D \in SUBSET Destinations : r.over \in [D -> Actions]
  BY <1>1
<1>3. QED
  BY <1>2 DEF Rules, Overrides

\* Merged overrides speak of every destination either spoke of, no weaker.
LEMMA OverridesMerge ==
    ASSUME NEW old, NEW new, Overrides(old), Overrides(new)
    PROVE  /\ Overrides(MergeOverrides(old, new))
           /\ DOMAIN MergeOverrides(old, new) = DOMAIN old \cup DOMAIN new
           /\ \A d \in DOMAIN old : Priority[MergeOverrides(old, new)[d]] >= Priority[old[d]]
           /\ \A d \in DOMAIN new : Priority[MergeOverrides(old, new)[d]] >= Priority[new[d]]
<1> DEFINE over == MergeOverrides(old, new)
           D == DOMAIN old \cup DOMAIN new
<1> USE DEF Overrides
<1>1. \A d \in DOMAIN old : old[d] \in Actions /\ Priority[old[d]] \in Int
  BY Stricter
<1>2. \A d \in DOMAIN new : new[d] \in Actions /\ Priority[new[d]] \in Int
  BY Stricter
<1>3. \A d \in D : over[d] = IF d \notin DOMAIN new THEN old[d]
                             ELSE IF d \notin DOMAIN old THEN new[d]
                             ELSE MostRestrictive(old[d], new[d])
  BY DEF MergeOverrides
<1>4. over \in [D -> Actions]
  <2>1. \A d \in D : over[d] \in Actions
    BY <1>1, <1>2, <1>3, Stricter
  <2>2. over = [d \in D |-> over[d]]
    BY DEF MergeOverrides
  <2> HIDE DEF over, D
  <2>3. QED
    BY <2>1, <2>2
<1> HIDE DEF over
<1>5. \A d \in DOMAIN old : Priority[over[d]] >= Priority[old[d]]
  BY <1>1, <1>2, <1>3, Stricter
<1>6. \A d \in DOMAIN new : Priority[over[d]] >= Priority[new[d]]
  BY <1>1, <1>2, <1>3, Stricter
<1>7. D \in SUBSET Destinations
  OBVIOUS
<1>8. QED
  BY <1>4, <1>5, <1>6, <1>7 DEF over

\* One rule more makes the merge of one rule more.
LEMMA MergeStep ==
    ASSUME NEW m, NEW R, MergeOf(m, R), NEW r \in Rules
    PROVE  MergeOf(MergeRule(m, r), R \cup {r})
<1> DEFINE n == MergeRule(m, r)
<1>1. CASE m = NoRule
  <2>1. n = r /\ R = {}
    BY <1>1 DEF MergeRule, MergeOf
  <2>2. AtLeast(r, r) /\ r # NoRule
    <3>1. \A a \in Actions : Priority[a] >= Priority[a]
      BY Stricter
    <3>2. QED
      BY <3>1, RuleTypes, NoRuleIsNone DEF AtLeast
  <2>3. QED
    BY <2>1, <2>2 DEF MergeOf
<1>2. CASE m # NoRule
  <2>1. m \in Rules
    BY <1>2 DEF MergeOf
  <2>2. /\ n.enabled = (m.enabled \/ r.enabled) /\ n.exempt = (m.exempt \/ r.exempt)
        /\ n.action = MostRestrictive(m.action, r.action)
        /\ n.over = MergeOverrides(m.over, r.over)
        /\ n.threshold = Lowest(m.threshold, r.threshold)
        /\ n.span = Larger(m.span, r.span) /\ n.approved = r.approved
        /\ n = [enabled |-> n.enabled, action |-> n.action, over |-> n.over,
                exempt |-> n.exempt, threshold |-> n.threshold, span |-> n.span,
                approved |-> n.approved]
    BY <1>2 DEF MergeRule
  <2> HIDE DEF n
  <2>3. /\ Overrides(n.over)
        /\ DOMAIN n.over = DOMAIN m.over \cup DOMAIN r.over
        /\ \A d \in DOMAIN m.over : Priority[n.over[d]] >= Priority[m.over[d]]
        /\ \A d \in DOMAIN r.over : Priority[n.over[d]] >= Priority[r.over[d]]
    <3>1. Overrides(m.over) /\ Overrides(r.over)
      BY <2>1, RuleTypes
    <3>2. QED
      BY <2>2, <3>1, OverridesMerge
  <2>4. /\ n.action \in Actions /\ Priority[n.action] \in Int
        /\ Priority[n.action] >= Priority[m.action] /\ Priority[n.action] >= Priority[r.action]
    <3>1. m.action \in Actions /\ r.action \in Actions
      BY <2>1, RuleTypes
    <3>2. n.action \in Actions
      BY <2>2, <3>1, Stricter
    <3>3. QED
      BY <2>2, <3>1, <3>2, Stricter
  <2>5. n \in Rules
    <3>1. n.threshold \in {Unset} \cup 0..MaxScore /\ n.span \in Nat
      BY <2>1, <2>2, RuleTypes DEF Lowest, Larger
    <3>2. n.enabled \in BOOLEAN /\ n.exempt \in BOOLEAN /\ n.approved \in BOOLEAN
      BY <2>1, <2>2, RuleTypes
    <3>3. n.over \in UNION {[D -> Actions] : D \in SUBSET Destinations}
      BY <2>3 DEF Overrides
    <3>4. QED
      BY <2>2, <2>4, <3>1, <3>2, <3>3 DEF Rules
  <2>6. \A q \in R \cup {r} : AtLeast(n, q)
    <3>1. AtLeast(n, r)
      BY <2>3, <2>4 DEF AtLeast
    <3>2. ASSUME NEW q \in R PROVE AtLeast(n, q)
      <4>1. AtLeast(m, q) /\ q \in Rules
        BY DEF MergeOf
      <4>2. Priority[n.action] >= Priority[q.action]
        BY <2>1, <2>4, <4>1, RuleTypes, Stricter DEF AtLeast
      <4>3. ASSUME NEW d \in DOMAIN q.over
            PROVE  d \in DOMAIN n.over /\ Priority[n.over[d]] >= Priority[q.over[d]]
        <5>1. d \in DOMAIN m.over /\ Priority[m.over[d]] >= Priority[q.over[d]]
          BY <4>1 DEF AtLeast
        <5>2. q.over[d] \in Actions /\ m.over[d] \in Actions /\ n.over[d] \in Actions
          BY <2>1, <2>3, <2>5, <4>1, <5>1, RuleTypes
        <5>3. Priority[n.over[d]] >= Priority[m.over[d]]
          BY <2>3, <5>1
        <5>4. QED
          BY <2>3, <5>1, <5>2, <5>3, Stricter
      <4>4. QED
        BY <4>2, <4>3 DEF AtLeast
    <3>3. QED
      BY <3>1, <3>2
  <2>7. n # NoRule
    BY <2>5, NoRuleIsNone
  <2>8. n.exempt => \E q \in R \cup {r} : q.exempt
    BY <1>2, <2>2 DEF MergeOf
  <2>9. \A d \in DOMAIN n.over : \E q \in R \cup {r} : d \in DOMAIN q.over
    BY <1>2, <2>3 DEF MergeOf
  <2>10. QED
    BY <2>5, <2>6, <2>7, <2>8, <2>9 DEF MergeOf, n
<1>3. QED
  BY <1>1, <1>2

\* The rules a type has in the profiles named.
RulesOf(profiles, names, type) == {profiles[names[i]].rules[type] : i \in DOMAIN names} \ {NoRule}

\* The rules of a type, taken one after the other, make their merge.
LEMMA MergedIsMerge ==
    ASSUME NEW profiles, NEW names \in Seq(DOMAIN profiles), NEW type,
           \A i \in DOMAIN names : profiles[names[i]].rules[type] \in Rules \cup {NoRule}
    PROVE  MergeOf(MergedRule(profiles, names, type), RulesOf(profiles, names, type))
<1> DEFINE len == Len(names)
           rule(n) == profiles[n].rules[type]
           V == Rules \cup {NoRule}
           Eq(f) == f = [i \in 0..len |->
                            IF i = 0 THEN NoRule
                            ELSE IF rule(names[i]) = NoRule THEN f[i - 1]
                            ELSE MergeRule(f[i - 1], rule(names[i]))]
           merged == CHOOSE f : Eq(f)
           next(i, m) == IF rule(names[i]) = NoRule THEN m ELSE MergeRule(m, rule(names[i]))
           step == [i \in 0..len |-> [m \in V |-> IF i = 0 THEN m ELSE next(i, m)]]
           R(i) == {rule(names[j]) : j \in 1..i} \ {NoRule}
<1>1. MergedRule(profiles, names, type) = merged[len]
  BY DEF MergedRule
<1>2. len \in Nat /\ DOMAIN names = 1..len
  OBVIOUS
<1>3. ASSUME NEW i \in 1..len, NEW m, NEW S, MergeOf(m, S)
      PROVE  MergeOf(next(i, m), S \cup ({rule(names[i])} \ {NoRule}))
  <2>1. CASE rule(names[i]) = NoRule
    <3>1. S \cup ({rule(names[i])} \ {NoRule}) = S
      BY <2>1
    <3>2. QED
      BY <1>3, <2>1, <3>1
  <2>2. CASE rule(names[i]) # NoRule
    <3>1. rule(names[i]) \in Rules
      BY <1>2, <2>2
    <3>2. S \cup ({rule(names[i])} \ {NoRule}) = S \cup {rule(names[i])}
      BY <2>2
    <3>3. QED
      BY <1>3, <2>2, <3>1, <3>2, MergeStep
  <2>3. QED
    BY <2>1, <2>2
<1>4. \A i \in 1..len, m \in V : next(i, m) \in V
  <2> SUFFICES ASSUME NEW i \in 1..len, NEW m \in V PROVE next(i, m) \in V
    OBVIOUS
  <2>1. MergeOf(m, IF m = NoRule THEN {} ELSE {m})
    <3>1. CASE m = NoRule
      BY <3>1 DEF MergeOf
    <3>2. CASE m # NoRule
      <4>1. m \in Rules /\ m.action \in Actions /\ \A d \in DOMAIN m.over : m.over[d] \in Actions
        BY <3>2, RuleTypes
      <4>2. AtLeast(m, m)
        <5>1. \A a \in Actions : Priority[a] >= Priority[a]
          BY Stricter
        <5>2. QED
          BY <4>1, <5>1 DEF AtLeast
      <4>3. QED
        BY <3>2, <4>1, <4>2 DEF MergeOf
    <3>3. QED
      BY <3>1, <3>2
  <2> HIDE DEF next, rule
  <2>2. QED
    BY <1>3, <2>1 DEF MergeOf
<1> HIDE DEF next, V
<1>5. Recursive(0, len, V, NoRule, step)
  BY <1>2, <1>4 DEF Recursive, V
<1>6. PICK f : Solution(0, len, V, NoRule, step, f)
  <2> HIDE DEF step, len
  <2>1. QED
    BY <1>5, Recursion
<1>7. Eq(f)
  <2>1. f \in [0..len -> V] /\ f[0] = NoRule
    BY <1>6 DEF Solution
  <2>2. ASSUME NEW i \in 0..len, i # 0 PROVE f[i] = next(i, f[i - 1])
    <3>1. i \in (0 + 1)..len /\ i - 1 \in 0..len
      BY <1>2, <2>2
    <3>2. f[i] = step[i][f[i - 1]] /\ f[i - 1] \in V
      BY <1>6, <3>1 DEF Solution
    <3>3. QED
      BY <2>2, <3>2
  <2>3. QED
    BY <2>1, <2>2 DEF next
<1>8. Eq(merged)
  <2> HIDE DEF Eq
  <2>1. QED
    BY <1>7
<1> HIDE DEF merged, step, rule
<1>9. merged[0] = NoRule /\ \A i \in 1..len : merged[i] = next(i, merged[i - 1])
  <2>1. \A i \in 1..len : i \in 0..len /\ i # 0
    BY <1>2
  <2>2. 0 \in 0..len
    BY <1>2
  <2>3. QED
    BY <1>8, <2>1, <2>2 DEF next
<1>10. \A i \in 0..len : MergeOf(merged[i], R(i))
  <2> DEFINE S == {i \in 0..len : MergeOf(merged[i], R(i))}
  <2>1. 0 \in S
    <3>1. R(0) = {}
      OBVIOUS
    <3>2. QED
      BY <1>2, <1>9, <3>1 DEF MergeOf
  <2>2. ASSUME NEW i \in 0..(len - 1), i \in S PROVE i + 1 \in S
    <3>1. R(i + 1) = R(i) \cup ({rule(names[i + 1])} \ {NoRule})
      <4>1. 1..(i + 1) = (1..i) \cup {i + 1}
        OBVIOUS
      <4>2. QED
        BY <4>1
    <3>2. i + 1 \in 1..len /\ i + 1 \in 0..len /\ (i + 1) - 1 = i
      BY <1>2
    <3>3. MergeOf(merged[i], R(i))
      BY <2>2
    <3> HIDE DEF R
    <3>4. QED
      BY <1>3, <1>9, <3>1, <3>2, <3>3
  <2>3. 0..len \subseteq S
    <3>1. len \in Int /\ 0 \in Int
      BY <1>2
    <3> HIDE DEF S, len
    <3>2. QED
      BY <2>1, <2>2, <3>1, UpTo
  <2>4. QED
    BY <2>3
<1>11. R(len) = RulesOf(profiles, names, type)
  BY <1>2 DEF RulesOf, rule
<1> HIDE DEF R, len
<1>12. MergeOf(merged[len], R(len))
  <2>1. len \in 0..len
    BY <1>2
  <2>2. QED
    BY <1>10, <2>1
<1>13. QED
  BY <1>1, <1>11, <1>12

\* Sequences of names in a row are a sequence of names.
LEMMA Flattened ==
    ASSUME NEW V, NEW seqs \in Seq(Seq(V))
    PROVE  FlattenSeq(seqs) \in Seq(V)
<1>1. CASE Len(seqs) = 0
  BY <1>1 DEF FlattenSeq
<1>2. CASE Len(seqs) # 0
  <2> DEFINE n == Len(seqs)
             W == Seq(V)
             Eq(f) == f = [i \in 1..n |-> IF i = 1 THEN seqs[i] ELSE f[i - 1] \o seqs[i]]
             g == CHOOSE f : Eq(f)
             step == [i \in 1..n |-> [s \in W |-> s \o seqs[i]]]
  <2>1. n \in Nat /\ 1 <= n /\ \A i \in 1..n : seqs[i] \in W
    BY <1>2
  <2>2. FlattenSeq(seqs) = g[n]
    BY <1>2 DEF FlattenSeq
  <2>3. \A s, t \in W : s \o t \in W
    OBVIOUS
  <2> HIDE DEF W, n, g
  <2>4. Recursive(1, n, W, seqs[1], step)
    <3>1. 1 \in 1..n
      BY <2>1
    <3>2. QED
      BY <2>1, <2>3, <3>1 DEF Recursive
  <2>5. PICK f : Solution(1, n, W, seqs[1], step, f)
    <3> HIDE DEF step
    <3>1. QED
      BY <2>4, Recursion
  <2>6. Eq(f)
    <3>1. f \in [1..n -> W] /\ f[1] = seqs[1]
      BY <2>5 DEF Solution
    <3>2. ASSUME NEW i \in 1..n, i # 1 PROVE f[i] = f[i - 1] \o seqs[i]
      <4>1. i \in (1 + 1)..n /\ i - 1 \in 1..n
        BY <2>1, <3>2
      <4>2. f[i] = step[i][f[i - 1]] /\ f[i - 1] \in W
        BY <2>5, <4>1 DEF Solution
      <4>3. QED
        BY <4>2
    <3>3. QED
      BY <3>1, <3>2
  <2>7. Eq(g)
    <3> HIDE DEF Eq
    <3>1. QED
      BY <2>6 DEF g
  <2> DEFINE S == {i \in 1..n : g[i] \in W}
  <2>8. 1 \in S
    BY <2>1, <2>7
  <2>9. ASSUME NEW i \in 1..(n - 1), i \in S PROVE i + 1 \in S
    <3>1. i + 1 \in 1..n /\ i + 1 # 1 /\ (i + 1) - 1 = i
      BY <2>1
    <3>2. g[i + 1] = g[i] \o seqs[i + 1]
      BY <2>7, <3>1
    <3>3. QED
      BY <2>1, <2>3, <2>9, <3>1, <3>2
  <2>10. n \in S
    <3>1. n \in Int /\ 1 \in Int /\ n \in 1..n
      BY <2>1
    <3> HIDE DEF S
    <3>2. QED
      BY <2>8, <2>9, <3>1, UpTo
  <2>11. QED
    BY <2>2, <2>10 DEF W
<1>3. QED
  BY <1>1, <1>2

\* A directory of profiles, the names in it that load, and what a chain may be.
Directory(profiles) ==
    /\ IsFiniteSet(DOMAIN profiles) /\ DOMAIN profiles \subseteq ProfileNames
    /\ \A n \in DOMAIN profiles : profiles[n] \in Definitions(ProfileNames)
Good(profiles) == {n \in DOMAIN profiles : ValidProfile(profiles[n])}
Chains(profiles) == [ok : BOOLEAN, names : Seq(Good(profiles))]

\* The chain of a profile is refused or names profiles that load.
LEMMA ChainLoads ==
    ASSUME NEW profiles, Directory(profiles), NEW name \in ProfileNames
    PROVE  Chain(profiles, name) \in Chains(profiles)
<1> DEFINE Refusal == [ok |-> FALSE, names |-> <<>>]
           depth == Cardinality(DOMAIN profiles)
           Above(n, f) == [i \in DOMAIN profiles[n].inherits |-> f[profiles[n].inherits[i]]]
           Names(n, f) == [i \in DOMAIN Above(n, f) |-> Above(n, f)[i].names]
           Turn(f) == [n \in ProfileNames |->
                IF ~Loads(profiles, n) THEN Refusal
                ELSE IF \E i \in DOMAIN Above(n, f) : ~Above(n, f)[i].ok THEN Refusal
                ELSE [ok |-> TRUE, names |-> FlattenSeq(Names(n, f)) \o <<n>>]]
           V == [ProfileNames -> Chains(profiles)]
           none == [n \in ProfileNames |-> Refusal]
           Eq(f) == f = [d \in 0..depth |->
               [n \in ProfileNames |->
                IF d = 0 \/ ~Loads(profiles, n) THEN Refusal
                ELSE LET parents == profiles[n].inherits
                         above == [i \in DOMAIN parents |-> f[d - 1][parents[i]]]
                     IN IF \E i \in DOMAIN above : ~above[i].ok THEN Refusal
                        ELSE [ok |-> TRUE,
                              names |-> FlattenSeq([i \in DOMAIN above |-> above[i].names])
                                        \o <<n>>]]]
           collect == CHOOSE f : Eq(f)
           step == [d \in 0..depth |-> [f \in V |-> Turn(f)]]
<1>1. Chain(profiles, name) = collect[depth][name]
  BY DEF Chain
<1>2. depth \in Nat
  BY FS_CardinalityType DEF Directory
<1> HIDE DEF depth, collect
<1>3. Refusal \in Chains(profiles)
  BY DEF Chains
<1>4. ASSUME NEW f \in V PROVE Turn(f) \in V
  <2> SUFFICES ASSUME NEW n \in ProfileNames, Loads(profiles, n),
                      \A i \in DOMAIN Above(n, f) : Above(n, f)[i].ok
               PROVE  [ok |-> TRUE, names |-> FlattenSeq(Names(n, f)) \o <<n>>] \in Chains(profiles)
    BY <1>3
  <2>1. n \in Good(profiles) /\ profiles[n].inherits \in Seq(ProfileNames)
    BY DEF Loads, Good, Directory, Definitions
  <2>2. /\ DOMAIN Above(n, f) = 1..Len(profiles[n].inherits)
        /\ \A i \in DOMAIN Above(n, f) : Above(n, f)[i] \in Chains(profiles)
    <3>1. \A i \in 1..Len(profiles[n].inherits) : profiles[n].inherits[i] \in ProfileNames
      BY <2>1
    <3>2. DOMAIN profiles[n].inherits = 1..Len(profiles[n].inherits)
      BY <2>1
    <3>3. DOMAIN Above(n, f) = 1..Len(profiles[n].inherits)
      BY <3>2
    <3>4. \A i \in DOMAIN Above(n, f) : Above(n, f)[i] = f[profiles[n].inherits[i]]
      BY <3>2
    <3> HIDE DEF Above
    <3>5. QED
      BY <3>1, <3>3, <3>4
  <2>3. Names(n, f) \in Seq(Seq(Good(profiles)))
    <3>1. DOMAIN Names(n, f) = 1..Len(profiles[n].inherits)
      BY <2>2
    <3>2. \A i \in DOMAIN Names(n, f) : Names(n, f)[i] \in Seq(Good(profiles))
      BY <2>2 DEF Chains
    <3>3. Names(n, f) = [i \in 1..Len(profiles[n].inherits) |-> Names(n, f)[i]]
      BY <2>2
    <3>4. Len(profiles[n].inherits) \in Nat
      BY <2>1
    <3> HIDE DEF Names, Above
    <3>5. Names(n, f) \in [1..Len(profiles[n].inherits) -> Seq(Good(profiles))]
      BY <3>1, <3>2, <3>3
    <3>6. QED
      BY <3>4, <3>5
  <2> HIDE DEF Names, Above
  <2>4. FlattenSeq(Names(n, f)) \in Seq(Good(profiles))
    BY <2>3, Flattened
  <2>5. QED
    BY <2>1, <2>4 DEF Chains
<1>5. none \in V
  BY <1>3
<1> HIDE DEF V
<1>6. Recursive(0, depth, V, none, step)
  <2> HIDE DEF Turn, none
  <2>1. QED
    BY <1>2, <1>4, <1>5 DEF Recursive
<1>7. PICK f : Solution(0, depth, V, none, step, f)
  <2> HIDE DEF step, none
  <2>1. QED
    BY <1>6, Recursion
<1>8. f \in [0..depth -> V] /\ f[0] = none
  BY <1>7 DEF Solution
<1>9. \A d \in 0..depth : d # 0 => f[d] = Turn(f[d - 1])
  <2> SUFFICES ASSUME NEW d \in 0..depth, d # 0 PROVE f[d] = Turn(f[d - 1])
    OBVIOUS
  <2>1. d \in (0 + 1)..depth /\ d - 1 \in 0..depth
    BY <1>2
  <2>2. f[d] = step[d][f[d - 1]] /\ f[d - 1] \in V
    BY <1>7, <2>1 DEF Solution
  <2> HIDE DEF Turn
  <2>3. QED
    BY <2>2
<1>10. Eq(f)
  <2> DEFINE T(d, n) ==
                IF d = 0 \/ ~Loads(profiles, n) THEN Refusal
                ELSE LET parents == profiles[n].inherits
                         above == [i \in DOMAIN parents |-> f[d - 1][parents[i]]]
                     IN IF \E i \in DOMAIN above : ~above[i].ok THEN Refusal
                        ELSE [ok |-> TRUE,
                              names |-> FlattenSeq([i \in DOMAIN above |-> above[i].names])
                                        \o <<n>>]
  <2>1. \A d \in 0..depth : f[d] = [n \in ProfileNames |-> T(d, n)]
    <3>1. f[0] = [n \in ProfileNames |-> T(0, n)]
      BY <1>8
    <3>2. ASSUME NEW d \in 0..depth, d # 0 PROVE f[d] = [n \in ProfileNames |-> T(d, n)]
      <4>1. Turn(f[d - 1]) = [n \in ProfileNames |-> T(d, n)]
        BY <3>2
      <4>2. QED
        BY <1>9, <3>2, <4>1
    <3>3. QED
      BY <3>1, <3>2
  <2>2. f = [d \in 0..depth |-> f[d]]
    BY <1>8
  <2>3. f = [d \in 0..depth |-> [n \in ProfileNames |-> T(d, n)]]
    BY <2>1, <2>2
  <2>4. QED
    BY <2>3
<1>11. Eq(collect)
  <2> HIDE DEF Eq
  <2>1. QED
    BY <1>10 DEF collect
<1>12. collect[0] = none /\ \A d \in 1..depth : collect[d] = Turn(collect[d - 1])
  <2>1. \A d \in 1..depth : d # 0 /\ d \in 0..depth
    BY <1>2
  <2>2. 0 \in 0..depth
    BY <1>2
  <2>3. collect[0] = none
    BY <1>11, <2>2
  <2>4. ASSUME NEW d \in 1..depth PROVE collect[d] = Turn(collect[d - 1])
    <3>1. collect[d] =
            [n \in ProfileNames |->
                IF d = 0 \/ ~Loads(profiles, n) THEN Refusal
                ELSE LET parents == profiles[n].inherits
                         above == [i \in DOMAIN parents |-> collect[d - 1][parents[i]]]
                     IN IF \E i \in DOMAIN above : ~above[i].ok THEN Refusal
                        ELSE [ok |-> TRUE,
                              names |-> FlattenSeq([i \in DOMAIN above |-> above[i].names])
                                        \o <<n>>]]
      BY <1>11, <2>1
    <3>2. d # 0
      BY <2>1
    <3>3. QED
      BY <3>1, <3>2
  <2>5. QED
    BY <2>3, <2>4
<1> DEFINE S == {d \in 0..depth : collect[d] \in V}
<1> HIDE DEF Eq, Turn, none
<1>13. 0 \in S
  BY <1>2, <1>5, <1>12
<1>14. ASSUME NEW d \in 0..(depth - 1), d \in S PROVE d + 1 \in S
  <2>1. d + 1 \in 1..depth /\ d + 1 \in 0..depth /\ (d + 1) - 1 = d
    BY <1>2
  <2>2. QED
    BY <1>4, <1>12, <1>14, <2>1
<1>15. collect[depth] \in V
  <2>1. depth \in Int /\ 0 \in Int /\ depth \in 0..depth
    BY <1>2
  <2>2. 0..depth \subseteq S
    <3> HIDE DEF S
    <3>1. QED
      BY <1>13, <1>14, <2>1, UpTo
  <2>3. QED
    BY <2>1, <2>2
<1>16. QED
  BY <1>1, <1>15 DEF V

\* Induction over a finite set, for a set instead of a predicate.
LEMMA OneByOne ==
    ASSUME NEW S, IsFiniteSet(S), NEW P, {} \in P,
           \A T \in SUBSET S : \A x \in S : T \in P => T \cup {x} \in P
    PROVE  S \in P
<1> SUFFICES ASSUME S \notin P PROVE FALSE
  OBVIOUS
<1> DEFINE Bad == {T \in SUBSET S : T \notin P}
           Less == StrictSubsetOrdering(S)
<1>1. Bad \subseteq FiniteSubsetsOf(S) /\ S \in Bad
  BY FS_Subset DEF FiniteSubsetsOf
<1>2. PICK T \in Bad : \A U \in Bad : <<U, T>> \notin Less
  <2>1. IsWellFoundedOn(Less, FiniteSubsetsOf(S))
    BY FS_StrictSubsetOrderingWellFounded
  <2> HIDE DEF Bad, Less
  <2>2. QED
    BY <1>1, <2>1, WFMin
<1>3. PICK x \in T : TRUE
  OBVIOUS
<1>4. T \ {x} \in SUBSET S /\ T \ {x} # T /\ T \ {x} \subseteq T /\ (T \ {x}) \cup {x} = T /\ x \in S
  BY <1>3
<1>5. <<T \ {x}, T>> \in Less
  BY <1>4 DEF StrictSubsetOrdering
<1>6. T \ {x} \in P
  BY <1>2, <1>4, <1>5
<1>7. (T \ {x}) \cup {x} \in P
  BY <1>4, <1>6
<1>8. QED
  BY <1>4, <1>7

\* One that none comes before.
LEMMA First ==
    ASSUME NEW S, IsFiniteSet(S), S # {}, NEW before,
           \A x \in S : <<x, x>> \notin before,
           \A x, y, z \in S : <<x, y>> \in before /\ <<y, z>> \in before => <<x, z>> \in before
    PROVE  \E x \in S : \A y \in S : <<y, x>> \notin before
<1> DEFINE P == {T \in SUBSET S : T = {} \/ \E x \in T : \A y \in T : <<y, x>> \notin before}
<1>1. {} \in P
  OBVIOUS
<1>2. ASSUME NEW T \in SUBSET S, NEW n \in S, T \in P PROVE T \cup {n} \in P
  <2>1. CASE T = {}
    <3>1. \A y \in T \cup {n} : <<y, n>> \notin before
      BY <2>1
    <3>2. QED
      BY <3>1
  <2>2. CASE T # {}
    <3>1. PICK x \in T : \A y \in T : <<y, x>> \notin before
      BY <1>2, <2>2
    <3>2. CASE <<n, x>> \in before
      <4>1. \A y \in T \cup {n} : <<y, n>> \notin before
        BY <3>1, <3>2
      <4>2. QED
        BY <4>1
    <3>3. CASE <<n, x>> \notin before
      <4>1. \A y \in T \cup {n} : <<y, x>> \notin before
        BY <3>1, <3>3
      <4>2. QED
        BY <3>1, <4>1
    <3>4. QED
      BY <3>2, <3>3
  <2>3. QED
    BY <2>1, <2>2
<1>3. S \in P
  <2> HIDE DEF P
  <2>1. QED
    BY <1>1, <1>2, OneByOne
<1>4. QED
  BY <1>3

\* Of finitely many numbers one is the largest.
LEMMA Largest ==
    ASSUME NEW S \in SUBSET Int, IsFiniteSet(S), S # {}
    PROVE  \E x \in S : \A y \in S : y <= x
<1> DEFINE before == {p \in S \X S : p[1] > p[2]}
<1>1. \A x, y \in S : <<x, y>> \in before <=> x > y
  OBVIOUS
<1>2. \A x, y, z \in S : <<x, y>> \in before /\ <<y, z>> \in before => <<x, z>> \in before
  BY <1>1
<1>3. \A x \in S : <<x, x>> \notin before
  BY <1>1
<1>4. PICK x \in S : \A y \in S : <<y, x>> \notin before
  <2> HIDE DEF before
  <2>1. QED
    BY <1>2, <1>3, First
<1>5. \A y \in S : y \in Int /\ x \in Int /\ ~(y > x)
  BY <1>1, <1>4
<1>6. QED
  BY <1>5

\* Of finitely many numbers one is the smallest.
LEMMA Smallest ==
    ASSUME NEW S \in SUBSET Int, IsFiniteSet(S), S # {}
    PROVE  \E x \in S : \A y \in S : x <= y
<1> DEFINE before == {p \in S \X S : p[1] < p[2]}
<1>1. \A x, y \in S : <<x, y>> \in before <=> x < y
  OBVIOUS
<1>2. \A x, y, z \in S : <<x, y>> \in before /\ <<y, z>> \in before => <<x, z>> \in before
  BY <1>1
<1>3. \A x \in S : <<x, x>> \notin before
  BY <1>1
<1>4. PICK x \in S : \A y \in S : <<y, x>> \notin before
  <2> HIDE DEF before
  <2>1. QED
    BY <1>2, <1>3, First
<1>5. \A y \in S : y \in Int /\ x \in Int /\ ~(y < x)
  BY <1>1, <1>4
<1>6. QED
  BY <1>5

\* Finitely many finite sets make a finite set.
LEMMA UnionIsFinite ==
    ASSUME NEW S, IsFiniteSet(S), NEW f, \A x \in S : IsFiniteSet(f[x])
    PROVE  IsFiniteSet(UNION {f[x] : x \in S})
<1> DEFINE P == {T \in SUBSET S : IsFiniteSet(UNION {f[x] : x \in T})}
<1>1. {} \in P
  <2>1. UNION {f[x] : x \in {}} = {}
    OBVIOUS
  <2>2. QED
    BY <2>1, FS_EmptySet
<1>2. ASSUME NEW T \in SUBSET S, NEW y \in S, T \in P PROVE T \cup {y} \in P
  <2>1. UNION {f[x] : x \in T \cup {y}} = (UNION {f[x] : x \in T}) \cup f[y]
    OBVIOUS
  <2>2. IsFiniteSet(UNION {f[x] : x \in T}) /\ IsFiniteSet(f[y])
    BY <1>2
  <2>3. IsFiniteSet((UNION {f[x] : x \in T}) \cup f[y])
    BY <2>2, FS_Union
  <2>4. QED
    BY <2>1, <2>3
<1>3. S \in P
  <2> HIDE DEF P
  <2>1. QED
    BY <1>1, <1>2, OneByOne
<1>4. QED
  BY <1>3

\* Finitely many things have finitely many images.
LEMMA ImageIsFinite ==
    ASSUME NEW S, IsFiniteSet(S), NEW f
    PROVE  IsFiniteSet({f[x] : x \in S})
<1>1. [x \in S |-> f[x]] \in Surjection(S, {f[x] : x \in S})
  BY DEF Surjection
<1>2. QED
  BY <1>1, FS_Surjection

\* The profiles that apply load, or are refused.
LEMMA AppliedLoads ==
    ASSUME NEW profiles, Directory(profiles), NEW requested \in Seq(ProfileNames)
    PROVE  Applied(profiles, requested) \in Chains(profiles)
<1> DEFINE n == Len(requested) + 1
           chains == [i \in 1..n |->
                         IF i = 1 THEN Chain(profiles, BaseSecurity)
                         ELSE IF requested[i - 1] = BaseSecurity THEN [ok |-> TRUE, names |-> <<>>]
                         ELSE Chain(profiles, requested[i - 1])]
           names == [i \in DOMAIN chains |-> chains[i].names]
<1>1. Applied(profiles, requested) =
         [ok |-> \A i \in DOMAIN chains : chains[i].ok, names |-> FlattenSeq(names)]
  BY DEF Applied
<1>2. n \in Nat /\ DOMAIN chains = 1..n
  OBVIOUS
<1>3. ASSUME NEW i \in 1..n PROVE chains[i] \in Chains(profiles)
  <2>1. CASE i = 1
    <3>1. BaseSecurity \in ProfileNames
      BY PolicyAssumption
    <3>2. Chain(profiles, BaseSecurity) \in Chains(profiles)
      BY <3>1, ChainLoads
    <3>3. QED
      BY <2>1, <3>2
  <2>2. CASE i # 1
    <3>1. requested[i - 1] \in ProfileNames
      BY <2>2
    <3>2. Chain(profiles, requested[i - 1]) \in Chains(profiles)
      BY <3>1, ChainLoads
    <3>3. [ok |-> TRUE, names |-> <<>>] \in Chains(profiles)
      BY DEF Chains
    <3>4. QED
      BY <2>2, <3>2, <3>3
  <2>3. QED
    BY <2>1, <2>2
<1>4. names \in Seq(Seq(Good(profiles)))
  <2>1. \A i \in 1..n : chains[i].names \in Seq(Good(profiles))
    BY <1>3 DEF Chains
  <2> HIDE DEF chains, n
  <2>2. names \in [1..n -> Seq(Good(profiles))]
    BY <1>2, <2>1
  <2>3. QED
    BY <1>2, <2>2
<1> HIDE DEF names
<1>5. FlattenSeq(names) \in Seq(Good(profiles))
  BY <1>4, Flattened
<1>6. QED
  BY <1>1, <1>5 DEF Chains

\* The effective rule of a type is the merge of all there are for it.
LEMMA ResolveIs ==
    ASSUME NEW profiles, Directory(profiles), NEW requested \in Seq(ProfileNames)
    PROVE  LET resolved == Resolve(profiles, requested)
           IN /\ resolved.names \in Seq(Good(profiles))
              /\ resolved.rules \in [Types -> Rules \cup {NoRule}]
              /\ \A t \in Types :
                    MergeOf(resolved.rules[t], RulesOf(profiles, resolved.names, t))
<1> DEFINE names == Applied(profiles, requested).names
           rules == [t \in Types |-> MergedRule(profiles, names, t)]
<1>1. names \in Seq(Good(profiles))
  BY AppliedLoads DEF Chains
<1>2. Resolve(profiles, requested).names = names /\ Resolve(profiles, requested).rules = rules
  BY DEF Resolve
<1> HIDE DEF names
<1>3. ASSUME NEW t \in Types PROVE MergeOf(rules[t], RulesOf(profiles, names, t))
  <2>1. names \in Seq(DOMAIN profiles)
    BY <1>1 DEF Good
  <2>2. ASSUME NEW i \in DOMAIN names PROVE profiles[names[i]].rules[t] \in Rules \cup {NoRule}
    <3>1. names[i] \in DOMAIN profiles
      BY <2>1
    <3>2. QED
      BY <3>1 DEF Directory, Definitions
  <2>3. MergeOf(MergedRule(profiles, names, t), RulesOf(profiles, names, t))
    BY <2>1, <2>2, MergedIsMerge
  <2>4. QED
    BY <2>3
<1>4. rules \in [Types -> Rules \cup {NoRule}]
  <2>1. \A t \in Types : rules[t] \in Rules \cup {NoRule}
    BY <1>3 DEF MergeOf
  <2>2. QED
    BY <2>1
<1>5. QED
  BY <1>1, <1>2, <1>3, <1>4

\* How far chunks have to overlap.
LEMMA SpanIsLargest ==
    ASSUME NEW rules \in [Types -> Rules \cup {NoRule}]
    PROVE  /\ PatternSpan(rules) \in Nat \ {0}
           /\ \A t \in Types : Enabled(rules, t) => rules[t].span <= PatternSpan(rules)
<1> DEFINE on == {u \in Types : Enabled(rules, u)}
           wide == {rules[t].span : t \in on}
           spans == {MinOverlap} \cup wide
<1>1. \A t \in on : rules[t] \in Rules /\ rules[t].span \in Nat
  BY NoRuleIsNone, RuleTypes DEF Enabled
<1>2. MinOverlap \in Nat \ {0} /\ IsFiniteSet(Types)
  BY SpansAssumption
<1>3. spans \in SUBSET Nat
  BY <1>1, <1>2
<1>4. IsFiniteSet(spans)
  <2>1. IsFiniteSet(on)
    BY <1>2, FS_Subset
  <2>2. IsFiniteSet(wide)
    <3> HIDE DEF on
    <3>1. [t \in on |-> rules[t].span] \in Surjection(on, wide)
      BY DEF Surjection
    <3>2. QED
      BY <2>1, <3>1, FS_Surjection
  <2> HIDE DEF wide
  <2>3. IsFiniteSet({MinOverlap})
    BY FS_Singleton
  <2>4. QED
    BY <2>2, <2>3, FS_Union
<1>5. \E s \in spans : \A r \in spans : r <= s
  <2>1. MinOverlap \in spans
    OBVIOUS
  <2> HIDE DEF spans
  <2>2. QED
    BY <1>3, <1>4, <2>1, Largest
<1>6. PatternSpan(rules) \in spans /\ \A r \in spans : r <= PatternSpan(rules)
  <2>1. PatternSpan(rules) = CHOOSE s \in spans : \A r \in spans : r <= s
    BY DEF PatternSpan
  <2> HIDE DEF spans
  <2>2. QED
    BY <1>5, <2>1
<1>7. PatternSpan(rules) \in Nat /\ MinOverlap <= PatternSpan(rules)
  BY <1>3, <1>6
<1>8. \A t \in Types : Enabled(rules, t) => rules[t].span \in spans
  OBVIOUS
<1> HIDE DEF spans
<1>9. QED
  BY <1>2, <1>6, <1>7, <1>8

-----------------------------------------------------------------------------
(* Coverage. *)

\* What the chunks of a text of that length are, for a pattern of that span.
Covering(pieces, length, span) ==
    /\ pieces[1].base + pieces[1].prefix = 0
    /\ pieces[Len(pieces)].end = length
    /\ \A i \in 1..(Len(pieces) - 1) : pieces[i + 1].base + pieces[i + 1].prefix = pieces[i].end
    /\ \A s \in 0..(length - span) :
          \E i \in DOMAIN pieces : pieces[i].base <= s /\ s + span <= pieces[i].end
    /\ length <= span => pieces[1].base = 0 /\ pieces[1].end = length
    /\ Len(pieces) \in Nat \ {0} /\ DOMAIN pieces = 1..Len(pieces)
    /\ \A i \in DOMAIN pieces : pieces[i].base \in Nat /\ pieces[i].end \in 0..length

\* Chunks leave out nothing and hold every span of the given length (chunk_text).
LEMMA ChunkTextCovers ==
    ASSUME NEW text, Len(text) \in Nat, NEW span \in Nat \ {0}, NEW requested \in Nat
    PROVE  Covering(ChunkText(text, span, requested), Len(text), span)
<1> DEFINE len == Len(text)
           overlap == ResolveOverlap(span)
           size == ResolveChunkSize(overlap, requested)
           points == SplitPoints(text, size)
           previous(i) == IF i = 1 THEN 0 ELSE points[i - 1]
           base(i) == Larger(0, previous(i) - overlap)
           pieces == ChunkText(text, span, requested)
<1>1. overlap \in Nat /\ overlap >= span /\ size \in Nat /\ size >= span
  <2>1. (5 * span) \div 4 \in Nat /\ (5 * span) \div 4 >= span
    OBVIOUS
  <2>2. MinOverlap \in Nat
    BY SpansAssumption
  <2>3. overlap \in Nat /\ overlap >= span
    BY <2>1, <2>2 DEF ResolveOverlap, Larger
  <2> HIDE DEF overlap
  <2>4. QED
    BY <2>3 DEF ResolveChunkSize, Larger
<1>2. pieces = IF len <= size
               THEN <<[base |-> 0, prefix |-> 0, end |-> len]>>
               ELSE [i \in 1..Len(points) |->
                        [base |-> base(i), prefix |-> previous(i) - base(i), end |-> points[i]]]
  BY DEF ChunkText
<1> HIDE DEF overlap, size, pieces
<1>3. CASE len <= size
  <2>1. pieces = <<[base |-> 0, prefix |-> 0, end |-> len]>>
    BY <1>2, <1>3
  <2>2. /\ Len(pieces) = 1 /\ DOMAIN pieces = {1}
        /\ pieces[1].base = 0 /\ pieces[1].prefix = 0 /\ pieces[1].end = len
        /\ len \in 0..len
    BY <2>1
  <2>3. \A s \in 0..(len - span) : 0 <= s /\ s + span <= len
    OBVIOUS
  <2>4. QED
    BY <2>2, <2>3 DEF Covering, pieces
<1>4. CASE len > size
  <2>1. PICK n \in 1..len : points \in [1..n -> 1..len] /\ points[n] = len
    <3>1. len \in Nat \ {0} /\ size \in Nat \ {0}
      BY <1>1, <1>4
    <3>2. QED
      BY <3>1, PointsAscend
  <2> HIDE DEF points
  <2>2. n \in Nat \ {0} /\ Len(points) = n
    BY <2>1
  <2>3. pieces = [i \in 1..n |->
                    [base |-> base(i), prefix |-> previous(i) - base(i), end |-> points[i]]]
    BY <1>1, <1>2, <1>4, <2>2
  <2>4. \A i \in 1..n : previous(i) \in Nat /\ base(i) \in Nat /\ points[i] \in Nat
    <3>1. \A i \in 1..n : points[i] \in Nat
      BY <2>1
    <3>2. \A i \in 1..n : previous(i) \in Nat
      <4>1. \A i \in 1..n : i # 1 => i - 1 \in 1..n
        BY <2>2
      <4>2. QED
        BY <3>1, <4>1
    <3> HIDE DEF previous
    <3>3. QED
      BY <1>1, <3>1, <3>2 DEF Larger
  <2> HIDE DEF base, previous
  <2>5. /\ DOMAIN pieces = 1..n /\ Len(pieces) = n
        /\ \A i \in 1..n : /\ pieces[i].base = base(i) /\ pieces[i].end = points[i]
                           /\ pieces[i].prefix = previous(i) - base(i)
    BY <2>2, <2>3
  <2>6. \A i \in 1..n : pieces[i].base + pieces[i].prefix = previous(i)
    BY <2>4, <2>5
  <2>7. \A i \in 1..(n - 1) : pieces[i + 1].base + pieces[i + 1].prefix = pieces[i].end
    <3> SUFFICES ASSUME NEW i \in 1..(n - 1) PROVE previous(i + 1) = points[i]
      BY <2>2, <2>5, <2>6
    <3>1. i + 1 # 1 /\ (i + 1) - 1 = i
      OBVIOUS
    <3>2. QED
      BY <3>1 DEF previous
  <2>8. ASSUME NEW s \in 0..(len - span)
        PROVE  \E i \in 1..n : base(i) <= s /\ s + span <= points[i]
    <3> DEFINE P == {i \in 1..n : s + span <= points[i]}
    <3>1. n \in P
      BY <2>1, <2>2
    <3>2. PICK i \in P : \A j \in P : i <= j
      <4>1. P \in SUBSET (1..n) /\ P # {} /\ 1 \in Int /\ n \in Int
        BY <2>2, <3>1
      <4> HIDE DEF P
      <4>2. QED
        BY <4>1, Least
    <3>3. base(i) <= s
      <4>1. CASE i = 1
        BY <1>1, <4>1 DEF base, previous, Larger
      <4>2. CASE i # 1
        <5>1. i - 1 \in 1..n /\ i - 1 \notin P
          BY <3>2, <4>2
        <5>2. points[i - 1] < s + span /\ points[i - 1] \in Nat
          BY <2>4, <5>1, SMTT(30)
        <5>3. QED
          BY <1>1, <4>2, <5>2 DEF base, previous, Larger
      <4>3. QED
        BY <4>1, <4>2
    <3>4. QED
      BY <3>2, <3>3
  <2>9. pieces[1].base + pieces[1].prefix = 0 /\ pieces[n].end = len
    <3>1. 1 \in 1..n /\ n \in 1..n /\ previous(1) = 0
      BY <2>2 DEF previous
    <3>2. QED
      BY <2>1, <2>5, <2>6, <3>1
  <2>10. \A i \in 1..n : pieces[i].base \in Nat /\ pieces[i].end \in 0..len
    <3>1. \A i \in 1..n : points[i] \in 1..len
      BY <2>1
    <3>2. QED
      BY <2>4, <2>5, <3>1, SMTT(30)
  <2>11. ~(len <= span)
    BY <1>1, <1>4
  <2>12. Covering(pieces, len, span)
    BY <2>2, <2>5, <2>7, <2>8, <2>9, <2>10, <2>11 DEF Covering
  <2>13. QED
    BY <2>12 DEF pieces
<1>5. QED
  BY <1>1, <1>3, <1>4

\* Of what is not longer than the pattern one chunk holds the whole.
LEMMA OneHoldsIt ==
    ASSUME NEW pieces, NEW length \in Nat, NEW span \in Nat \ {0}, Covering(pieces, length, span),
           NEW from \in 0..length, NEW to \in 0..length, from < to, to - from <= span
    PROVE  \E i \in 1..Len(pieces) : pieces[i].base <= from /\ to <= pieces[i].end
<1> DEFINE last == Len(pieces)
<1>1. /\ last \in Nat \ {0}
      /\ \A i \in 1..last : pieces[i].base \in Nat /\ pieces[i].end \in 0..length
      /\ length <= span => pieces[1].base = 0 /\ pieces[1].end = length
      /\ \A s \in 0..(length - span) :
            \E i \in 1..last : pieces[i].base <= s /\ s + span <= pieces[i].end
  BY DEF Covering
<1> HIDE DEF last
<1>2. CASE length <= span
  <2>1. 1 \in 1..last /\ pieces[1].base <= from /\ to <= pieces[1].end
    BY <1>1, <1>2
  <2>2. QED
    BY <2>1 DEF last
<1>3. CASE length > span /\ from + span <= length
  <2>1. from \in 0..(length - span)
    BY <1>3
  <2>2. PICK i \in 1..last : pieces[i].base <= from /\ from + span <= pieces[i].end
    BY <1>1, <2>1
  <2>3. to <= pieces[i].end
    BY <1>1, <2>2
  <2>4. QED
    BY <2>2, <2>3 DEF last
<1>4. CASE length > span /\ from + span > length
  <2>1. length - span \in 0..(length - span)
    BY <1>4
  <2>2. PICK i \in 1..last : /\ pieces[i].base <= length - span
                             /\ (length - span) + span <= pieces[i].end
    BY <1>1, <2>1
  <2>3. pieces[i].base <= from /\ to <= pieces[i].end
    BY <1>1, <1>4, <2>2
  <2>4. QED
    BY <2>3 DEF last
<1>5. QED
  BY <1>2, <1>3, <1>4

\* Once the profile is resolved it stays what was resolved, and the chunks
\* stay those it asks for; nothing is found before.
CutOnce ==
    /\ Askable(case)
    /\ stage = "resolve" => chunks = <<>> /\ found = {} /\ entities = {}
    /\ stage # "resolve" => profile = Resolve(case.profiles, case.requested)
    /\ chunks # <<>> => chunks = ChunkText(Text, PatternSpan(profile.rules), case.doc.size)

LEMMA InitCut == Init => CutOnce
<1> SUFFICES ASSUME Init PROVE CutOnce
  OBVIOUS
<1>1. Askable(case)
  BY DataPathAssumption DEF Init
<1>2. QED
  BY <1>1 DEF Init, CutOnce

LEMMA CutStep == CutOnce /\ [Next]_vars => CutOnce'
<1> SUFFICES ASSUME CutOnce, [Next]_vars PROVE CutOnce'
  OBVIOUS
<1>1. CASE Cut
  BY <1>1 DEF Cut, CutOnce, Text
<1>2. CASE Detect
  BY <1>2 DEF Detect, CutOnce, Text
<1>3. CASE Settle \/ Decide
  BY <1>3 DEF Settle, Decide, CutOnce, Text
<1>4. CASE Apply \/ Finish \/ ClearForward \/ ClearSeen \/ Done \/ UNCHANGED vars
  BY <1>4 DEF Apply, Finish, ClearForward, ClearSeen, Done, CutOnce, Text, vars
<1>5. CASE Reuse \/ Mint \/ Remember
  BY <1>5 DEF Reuse, Mint, Remember, CutOnce, Text
<1>6. QED
  BY <1>1, <1>2, <1>3, <1>4, <1>5 DEF Next

\* A call that may be asked, once it is resolved.
LEMMA Resolved ==
    ASSUME CutOnce, stage # "resolve"
    PROVE  /\ profile.rules \in [Types -> Rules \cup {NoRule}]
           /\ profile.names \in Seq(Good(case.profiles))
           /\ \A t \in Types :
                 MergeOf(profile.rules[t], RulesOf(case.profiles, profile.names, t))
           /\ PatternSpan(profile.rules) \in Nat \ {0}
<1>1. Directory(case.profiles) /\ case.requested \in Seq(ProfileNames)
  BY DEF CutOnce, Askable, Directory
<1>2. profile = Resolve(case.profiles, case.requested)
  BY DEF CutOnce
<1>3. QED
  BY <1>1, <1>2, ResolveIs, SpanIsLargest

(***************************************************************************)
(* The chunks of a document make it up without a gap or an overlap, and    *)
(* whatever is as short as the longest pattern of the profile is whole in  *)
(* one of them, for every text, chunk size, directory of profiles and      *)
(* place of the line ends (core/chunker.py, chunk_text).                   *)
(***************************************************************************)
THEOREM ChunksAlwaysCover == Spec => []ChunksCover
<1>1. CutOnce => ChunksCover
  <2> SUFFICES ASSUME CutOnce, chunks # <<>> PROVE ChunksCover
    BY DEF ChunksCover
  <2>1. stage # "resolve" /\ Len(Text) \in Nat /\ case.doc.size \in Nat
    BY DEF CutOnce, Askable, Text
  <2>2. Covering(chunks, Len(Text), PatternSpan(profile.rules))
    BY <2>1, Resolved, ChunkTextCovers DEF CutOnce
  <2>3. QED
    BY <2>2 DEF Covering, ChunksCover
<1>2. QED
  BY <1>1, InitCut, CutStep, PTL DEF Spec

-----------------------------------------------------------------------------
(* Order. *)

StrictOrder(S, before) ==
    /\ \A x \in S : <<x, x>> \notin before
    /\ \A x, y, z \in S : <<x, y>> \in before /\ <<y, z>> \in before => <<x, z>> \in before

InOrderOf(s, S, before) ==
    /\ s \in [1..Cardinality(S) -> S] /\ Range(s) = S
    /\ \A i, j \in DOMAIN s : i < j => <<s[j], s[i]>> \notin before

\* Every finite set can be put in order.
LEMMA SomeOrder ==
    ASSUME NEW S, IsFiniteSet(S), NEW before, StrictOrder(S, before)
    PROVE  \E s : InOrderOf(s, S, before)
<1> DEFINE n == Cardinality(S)
           Sorts(T) == \E s : InOrderOf(s, T, before)
           P == {i \in 0..n : \A T \in SUBSET S : Cardinality(T) = i => Sorts(T)}
<1>1. n \in Nat
  BY FS_CardinalityType
<1>2. 0 \in P
  <2> SUFFICES ASSUME NEW T \in SUBSET S, Cardinality(T) = 0 PROVE Sorts(T)
    BY <1>1
  <2>1. T = {}
    BY FS_Subset, FS_EmptySet
  <2>2. PICK s : s = [i \in 1..0 |-> i]
    OBVIOUS
  <2>3. 1..0 = {}
    OBVIOUS
  <2>4. s \in [1..0 -> T] /\ Range(s) = T /\ DOMAIN s = {}
    BY <2>1, <2>2, <2>3 DEF Range
  <2>5. QED
    BY <2>4 DEF InOrderOf
<1>3. ASSUME NEW i \in 0..(n - 1), i \in P PROVE i + 1 \in P
  <2> SUFFICES ASSUME NEW T \in SUBSET S, Cardinality(T) = i + 1 PROVE Sorts(T)
    BY <1>1
  <2>1. IsFiniteSet(T) /\ T # {}
    BY FS_Subset, FS_EmptySet
  <2> DEFINE after == {p \in S \X S : <<p[2], p[1]>> \in before}
  <2>2. \A x, y \in S : <<x, y>> \in after <=> <<y, x>> \in before
    OBVIOUS
  <2>3. PICK x \in T : \A y \in T : <<y, x>> \notin after
    <3>1. /\ \A a \in T : <<a, a>> \notin after
          /\ \A a, b, c \in T : <<a, b>> \in after /\ <<b, c>> \in after => <<a, c>> \in after
      BY <2>2 DEF StrictOrder
    <3> HIDE DEF after
    <3>2. QED
      BY <2>1, <3>1, First
  <2>4. \A y \in T : <<x, y>> \notin before
    BY <2>2, <2>3
  <2>5. PICK s : InOrderOf(s, T \ {x}, before)
    <3>1. Cardinality(T \ {x}) = i
      BY <2>1, FS_RemoveElement
    <3>2. T \ {x} \in SUBSET S
      OBVIOUS
    <3> HIDE DEF Sorts
    <3>3. Sorts(T \ {x})
      BY <1>3, <3>1, <3>2
    <3>4. QED
      BY <3>3 DEF Sorts
  <2>6. Cardinality(T \ {x}) = i
    BY <2>1, FS_RemoveElement
  <2> DEFINE r == [j \in 1..(i + 1) |-> IF j = i + 1 THEN x ELSE s[j]]
  <2>7. s \in [1..i -> T \ {x}] /\ Range(s) = T \ {x}
    BY <2>5, <2>6 DEF InOrderOf
  <2>8. \A j \in 1..(i + 1) : j # i + 1 => j \in 1..i
    OBVIOUS
  <2>9. r \in [1..(i + 1) -> T]
    BY <2>7, <2>8
  <2>10. Range(r) = T
    <3>1. \A y \in T : y # x => \E j \in 1..i : s[j] = y
      BY <2>7 DEF Range
    <3>2. \A j \in 1..i : j \in 1..(i + 1) /\ j # i + 1 /\ r[j] = s[j]
      OBVIOUS
    <3>3. i + 1 \in 1..(i + 1) /\ r[i + 1] = x
      OBVIOUS
    <3>4. \A y \in T : \E j \in 1..(i + 1) : r[j] = y
      BY <3>1, <3>2, <3>3
    <3> HIDE DEF r
    <3>5. QED
      BY <2>9, <3>4 DEF Range
  <2>11. ASSUME NEW j \in 1..(i + 1), NEW l \in 1..(i + 1), j < l
         PROVE  <<r[l], r[j]>> \notin before
    <3>1. j \in 1..i /\ r[j] = s[j] /\ s[j] \in T
      BY <2>7, <2>8, <2>11
    <3>2. CASE l = i + 1
      BY <2>4, <3>1, <3>2
    <3>3. CASE l # i + 1
      <4>1. l \in 1..i /\ r[l] = s[l]
        BY <2>8, <3>3
      <4>2. <<s[l], s[j]>> \notin before
        BY <2>5, <2>7, <2>11, <3>1, <4>1 DEF InOrderOf
      <4>3. QED
        BY <3>1, <4>1, <4>2
    <3>4. QED
      BY <3>2, <3>3
  <2> HIDE DEF r
  <2>12. InOrderOf(r, T, before)
    <3>1. DOMAIN r = 1..(i + 1) /\ r \in [1..Cardinality(T) -> T]
      BY <2>9
    <3>2. \A j, l \in DOMAIN r : j < l => <<r[l], r[j]>> \notin before
      BY <2>11, <3>1
    <3>3. QED
      BY <2>10, <3>1, <3>2 DEF InOrderOf
  <2>13. QED
    BY <2>12
<1>4. n \in P
  <2>1. 0 \in Int /\ n \in Int /\ n \in 0..n
    BY <1>1
  <2> HIDE DEF P
  <2>2. 0..n \subseteq P
    <3> HIDE DEF n
    <3>1. QED
      BY <1>2, <1>3, <2>1, UpTo
  <2>3. QED
    BY <2>1, <2>2
<1>5. QED
  BY <1>4

\* Where there is an order, a set in it is the set, each member once.
LEMMA InOrderIs ==
    ASSUME NEW S, IsFiniteSet(S), NEW before, StrictOrder(S, before)
    PROVE  /\ InOrder(S, before) \in Seq(S) /\ Range(InOrder(S, before)) = S
           /\ \A i, j \in DOMAIN InOrder(S, before) :
                 i < j => <<InOrder(S, before)[j], InOrder(S, before)[i]>> \notin before
           /\ \A i, j \in DOMAIN InOrder(S, before) :
                 InOrder(S, before)[i] = InOrder(S, before)[j] => i = j
<1> DEFINE s == InOrder(S, before)
<1>1. PICK r : InOrderOf(r, S, before)
  BY SomeOrder
<1>2. InOrderOf(s, S, before)
  <2>1. s = CHOOSE q \in [1..Cardinality(S) -> S] :
               /\ Range(q) = S
               /\ \A i, j \in DOMAIN q : i < j => <<q[j], q[i]>> \notin before
    BY DEF InOrder
  <2> HIDE DEF s
  <2>2. QED
    BY <1>1, <2>1 DEF InOrderOf
<1> HIDE DEF s
<1>3. Cardinality(S) \in Nat
  BY FS_CardinalityType
<1>4. s \in Seq(S)
  BY <1>2, <1>3 DEF InOrderOf
<1>5. s \in Injection(1..Cardinality(S), S)
  <2> DEFINE I == 1..Cardinality(S)
  <2>1. IsFiniteSet(I) /\ Cardinality(I) = Cardinality(S)
    BY <1>3, FS_Interval
  <2>2. s \in Surjection(I, S)
    <3>1. s \in [I -> S]
      BY <1>2 DEF InOrderOf
    <3>2. Range(s) = S
      BY <1>2 DEF InOrderOf
    <3> HIDE DEF I
    <3>3. QED
      BY <3>1, <3>2 DEF Range, Surjection
  <2> HIDE DEF I
  <2>3. s \in Injection(I, S)
    BY <2>1, <2>2, FS_SurjSameCardinalityImpliesInj
  <2>4. QED
    BY <2>3 DEF I
<1>6. \A i, j \in DOMAIN s : s[i] = s[j] => i = j
  BY <1>5 DEF Injection, IsInjective
<1>7. QED
  BY <1>2, <1>4, <1>6 DEF InOrderOf, s

-----------------------------------------------------------------------------
(* Findings. *)

\* What a finding is made of.
LEMMA FindingIs ==
    ASSUME NEW length \in Nat, NEW e \in Findings(length)
    PROVE  /\ e.type \in Types /\ e.start \in 0..length /\ e.end \in 0..length /\ e.start < e.end
           /\ e.by \in SUBSET Detectors /\ e.by # {}
BY DEF Findings

\* A finding cut shorter, or found once more, is a finding.
LEMMA FindingStays ==
    ASSUME NEW length \in Nat, NEW e \in Findings(length)
    PROVE  /\ \A start, end \in 0..length :
                 start < end => [e EXCEPT !.start = start, !.end = end] \in Findings(length)
           /\ \A by \in SUBSET Detectors : [e EXCEPT !.by = @ \cup by] \in Findings(length)
BY DEF Findings

\* The key by which findings are compared is six numbers.
LEMMA KeyIs ==
    ASSUME NEW length \in Nat, NEW e \in Findings(length)
    PROVE  PrecedenceKey(e) \in [1..6 -> Int]
<1> DEFINE ranks == {Precedence[d] : d \in e.by}
           key == PrecedenceKey(e)
<1>1. Rank(e) \in Int
  <2>1. \A d \in Detectors : Precedence[d] \in 1..3
    BY DEF Detectors, Precedence
  <2>2. ranks \in SUBSET (1..3) /\ ranks # {}
    BY <2>1, FindingIs
  <2>3. \E x \in ranks : \A y \in ranks : y <= x
    <3> HIDE DEF ranks
    <3>1. QED
      BY <2>2, Greatest
  <2>4. \E x \in ranks : \A d \in e.by : Precedence[d] <= x
    BY <2>3
  <2>5. Rank(e) \in ranks
    BY <2>4 DEF Rank
  <2>6. QED
    BY <2>2, <2>5
<1>2. Severity[e.type] \in Int /\ NameOrder[e.type] \in Int
  BY FindingIs, SpansAssumption
<1>3. e.end - e.start \in Int
  BY FindingIs
<1>4. key = <<IF e.type \in Backed THEN 1 ELSE 0, IF Calibrated(e) THEN 1 ELSE 0,
              Severity[e.type], e.end - e.start, Rank(e), NameOrder[e.type]>>
  BY DEF PrecedenceKey
<1> HIDE DEF key
<1>5. /\ key \in Seq(Int) /\ Len(key) = 6
  BY <1>1, <1>2, <1>3, <1>4
<1>6. key \in [1..6 -> Int]
  BY <1>5, LenProperties
<1>7. QED
  BY <1>6 DEF key

\* The order of credibility.
Lower(q, r) == \E i \in 1..6 : q[i] < r[i] /\ \A j \in 1..(i - 1) : q[j] = r[j]

\* Comparing keys from the first number on is an order.
LEMMA LowerOrder ==
    ASSUME NEW q \in [1..6 -> Int], NEW r \in [1..6 -> Int], NEW s \in [1..6 -> Int]
    PROVE  ~Lower(q, q) /\ (Lower(q, r) /\ Lower(r, s) => Lower(q, s))
<1>1. ~Lower(q, q)
  BY DEF Lower
<1>2. ASSUME Lower(q, r), Lower(r, s) PROVE Lower(q, s)
  <2>1. PICK i \in 1..6 : q[i] < r[i] /\ \A j \in 1..(i - 1) : q[j] = r[j]
    BY <1>2 DEF Lower
  <2>2. PICK l \in 1..6 : r[l] < s[l] /\ \A j \in 1..(l - 1) : r[j] = s[j]
    BY <1>2 DEF Lower
  <2>3. CASE i <= l
    <3>1. q[i] < s[i]
      BY <2>1, <2>2, <2>3
    <3>2. \A j \in 1..(i - 1) : q[j] = s[j]
      BY <2>1, <2>2, <2>3
    <3>3. QED
      BY <3>1, <3>2 DEF Lower
  <2>4. CASE l < i
    <3>1. q[l] < s[l]
      BY <2>1, <2>2, <2>4
    <3>2. \A j \in 1..(l - 1) : q[j] = s[j]
      BY <2>1, <2>2, <2>4
    <3>3. QED
      BY <3>1, <3>2 DEF Lower
  <2>5. QED
    BY <2>3, <2>4
<1>3. QED
  BY <1>1, <1>2

\* Being weaker is an order of findings.
LEMMA WeakerOrder ==
    ASSUME NEW length \in Nat, NEW S \in SUBSET Findings(length)
    PROVE  StrictOrder(S, {p \in S \X S : Weaker(p[2], p[1])})
<1> DEFINE before == {p \in S \X S : Weaker(p[2], p[1])}
<1>1. ASSUME NEW e \in S, NEW f \in S
      PROVE  Weaker(e, f) <=> Lower(PrecedenceKey(e), PrecedenceKey(f))
  <2>1. DOMAIN PrecedenceKey(e) = 1..6
    BY KeyIs
  <2>2. QED
    BY <2>1 DEF Weaker, Lower
<1>2. \A e, f \in S : <<e, f>> \in before <=> Lower(PrecedenceKey(f), PrecedenceKey(e))
  BY <1>1
<1>3. \A e \in S : PrecedenceKey(e) \in [1..6 -> Int]
  BY KeyIs
<1> HIDE DEF before
<1>4. \A e \in S : <<e, e>> \notin before
  BY <1>2, <1>3, LowerOrder
<1>5. \A e, f, g \in S : <<e, f>> \in before /\ <<f, g>> \in before => <<e, g>> \in before
  BY <1>2, <1>3, LowerOrder
<1>6. QED
  BY <1>4, <1>5 DEF StrictOrder, before

\* Of some findings one is the strongest.
LEMMA Strongest ==
    ASSUME NEW length \in Nat, NEW S \in SUBSET Findings(length), IsFiniteSet(S), S # {}
    PROVE  (CHOOSE e \in S : \A f \in S : ~Weaker(e, f)) \in S
<1> DEFINE before == {p \in S \X S : Weaker(p[2], p[1])}
<1>1. \A e, f \in S : <<e, f>> \in before <=> Weaker(f, e)
  OBVIOUS
<1>2. \E x \in S : \A y \in S : <<y, x>> \notin before
  <2>1. StrictOrder(S, before)
    BY WeakerOrder
  <2> HIDE DEF before
  <2>2. QED
    BY <2>1, First DEF StrictOrder
<1>3. \E e \in S : \A f \in S : ~Weaker(e, f)
  BY <1>1, <1>2
<1>4. QED
  BY <1>3

\* A character that no detector leaves at the end of a value.
Solid(text, e) == text[e.end] \notin StripChars

\* What is left of a finding beside what lies from "from" to "to".
Rest(t, loser, from, to, text) ==
    /\ t.type = loser.type /\ Covers(loser, t) /\ Solid(text, t)
    /\ \/ /\ t.start = loser.start /\ t.end <= from
          /\ \A i \in loser.start..(from - 1) : text[i + 1] \notin StripChars => i < t.end
       \/ /\ t.start = to
          /\ \A i \in to..(loser.end - 1) : text[i + 1] \notin StripChars => i < t.end

\* A loser keeps at most one rest, beside all the winners (_trim_around).
LEMMA TrimLeavesRest ==
    ASSUME NEW text, Len(text) \in Nat, NEW loser \in Findings(Len(text)),
           NEW winners \in SUBSET Findings(Len(text)), winners # {},
           \A w \in winners : Overlaps(w, loser)
    PROVE  /\ TrimAround(loser, winners, text) \in SUBSET Findings(Len(text))
           /\ IsFiniteSet(TrimAround(loser, winners, text))
           /\ \A t, u \in TrimAround(loser, winners, text) : t = u
           /\ \E from, to \in 0..Len(text) :
                 /\ from < to
                 /\ \A w \in winners : from <= w.start /\ w.end <= to
                 /\ (\E w \in winners : from = w.start) /\ (\E w \in winners : to = w.end)
                 /\ \A t \in TrimAround(loser, winners, text) : Rest(t, loser, from, to, text)
<1> DEFINE len == Len(text)
           starts == {w.start : w \in winners}
           ends == {w.end : w \in winners}
           from == CHOOSE s \in starts : \A w \in winners : s <= w.start
           to == CHOOSE e \in ends : \A w \in winners : w.end <= e
           before == from - loser.start >= loser.end - to /\ from - loser.start >= MinTrim
           start == IF before THEN loser.start ELSE to
           stop == IF before THEN from ELSE loser.end
           solid == {i \in start..(stop - 1) : text[i + 1] \notin StripChars}
           last == CHOOSE i \in solid : \A j \in solid : j <= i
           end == IF solid = {} THEN start ELSE 1 + last
           rest == [loser EXCEPT !.start = start, !.end = end]
           trim == TrimAround(loser, winners, text)
           long == Cardinality({i \in solid : Folded(text[i + 1]) \in Alnum}) >= MinTrim
<1>1. trim = IF /\ before \/ loser.end - to >= MinTrim
                /\ end - start >= MinTrim
                /\ long
             THEN {rest} ELSE {}
  BY DEF TrimAround
<1>2. trim # {} => /\ trim = {rest} /\ end - start >= MinTrim
                   /\ before \/ loser.end - to >= MinTrim
  <2> HIDE DEF trim, rest, end, start, before, to, long
  <2>1. QED
    BY <1>1
<1>3. MinTrim \in Nat \ {0}
  BY SpansAssumption
<1>4. /\ loser.start \in 0..len /\ loser.end \in 0..len /\ loser.start < loser.end
      /\ \A w \in winners : /\ w.start \in 0..len /\ w.end \in 0..len /\ w.start < w.end
                            /\ w.start < loser.end /\ loser.start < w.end
  BY FindingIs DEF Overlaps
<1>5. from \in starts /\ \A w \in winners : from <= w.start
  <2>1. starts \in SUBSET (0..len) /\ starts # {} /\ 0 \in Int /\ len \in Int
    BY <1>4
  <2>2. \E s \in starts : \A r \in starts : s <= r
    <3> HIDE DEF starts, len
    <3>1. QED
      BY <2>1, Least
  <2>3. \E s \in starts : \A w \in winners : s <= w.start
    BY <2>2
  <2>4. QED
    BY <2>3
<1>6. to \in ends /\ \A w \in winners : w.end <= to
  <2>1. ends \in SUBSET (0..len) /\ ends # {} /\ 0 \in Int /\ len \in Int
    BY <1>4
  <2>2. \E s \in ends : \A r \in ends : r <= s
    <3> HIDE DEF ends, len
    <3>1. QED
      BY <2>1, Greatest
  <2>3. \E s \in ends : \A w \in winners : w.end <= s
    BY <2>2
  <2>4. QED
    BY <2>3
<1> HIDE DEF from, to
<1>7. /\ from \in 0..len /\ to \in 0..len /\ from < to /\ from < loser.end /\ loser.start < to
      /\ (\E w \in winners : from = w.start) /\ (\E w \in winners : to = w.end)
  <2>1. PICK w \in winners : from = w.start
    BY <1>5
  <2>2. PICK v \in winners : to = v.end
    BY <1>6
  <2>3. w.end <= to
    BY <1>6
  <2>4. QED
    BY <1>4, <2>1, <2>2, <2>3
<1> HIDE DEF starts, ends
<1>8. ASSUME trim # {}
      PROVE  /\ rest \in Findings(len) /\ Rest(rest, loser, from, to, text)
  <2>1. end - start >= MinTrim /\ start \in 0..len /\ stop \in 0..len
    BY <1>2, <1>4, <1>7, <1>8
  <2>2. before => start = loser.start /\ stop = from
    OBVIOUS
  <2>3. ~before => start = to /\ stop = loser.end
    OBVIOUS
  <2> HIDE DEF start, stop, before
  <2>4. solid # {}
    <3>1. solid = {} => end = start
      OBVIOUS
    <3> HIDE DEF solid, end
    <3>2. QED
      BY <1>3, <2>1, <3>1
  <2>5. last \in solid /\ \A j \in solid : j <= last
    <3>1. solid \in SUBSET (start..(stop - 1)) /\ start \in Int /\ stop - 1 \in Int
      BY <2>1
    <3> HIDE DEF solid
    <3>2. \E i \in solid : \A j \in solid : j <= i
      BY <2>4, <3>1, Greatest
    <3>3. QED
      BY <3>2
  <2>6. end = last + 1 /\ last \in start..(stop - 1) /\ text[last + 1] \notin StripChars
    BY <2>1, <2>4, <2>5
  <2>7. \A i \in start..(stop - 1) : text[i + 1] \notin StripChars => i <= last
    BY <2>5
  <2> HIDE DEF last, end, solid
  <2>8. end \in 0..len /\ start < end /\ end <= stop
    BY <2>1, <2>6
  <2>9. rest \in Findings(len)
    BY <2>1, <2>8, FindingStays
  <2>10. rest.start = start /\ rest.end = end /\ rest.type = loser.type
    BY DEF Findings
  <2> HIDE DEF rest
  <2>11. Covers(loser, rest)
    BY <1>4, <1>7, <2>2, <2>3, <2>8, <2>10 DEF Covers
  <2>12. Solid(text, rest)
    BY <2>6, <2>10 DEF Solid
  <2>13. \A i \in start..(stop - 1) : text[i + 1] \notin StripChars => i < end
    BY <2>1, <2>6, <2>7
  <2>14. Rest(rest, loser, from, to, text)
    <3>1. CASE before
      BY <2>2, <2>8, <2>10, <2>11, <2>12, <2>13, <3>1 DEF Rest
    <3>2. CASE ~before
      BY <2>3, <2>8, <2>10, <2>11, <2>12, <2>13, <3>2 DEF Rest
    <3>3. QED
      BY <3>1, <3>2
  <2>15. QED
    BY <2>9, <2>14, SMTT(30)
<1> HIDE DEF rest, trim, end, solid, before, stop, start
<1>9. IsFiniteSet(trim) /\ trim \in SUBSET Findings(len) /\ \A t, u \in trim : t = u
  BY <1>2, <1>8, FS_EmptySet, FS_Singleton
<1>10. \A t \in trim : Rest(t, loser, from, to, text)
  BY <1>2, <1>8
<1>11. QED
  BY <1>5, <1>6, <1>7, <1>9, <1>10 DEF trim

-----------------------------------------------------------------------------
(* Reconciling. *)

Nested(e, f) == Overlaps(e, f) => MayNest(e, f) \/ MayNest(f, e)
Beside(e, from, to) == e.end <= from \/ to <= e.start

\* Whether findings may nest depends on their types and places alone.
LEMMA SameNests ==
    ASSUME NEW e, NEW f, NEW g, e.type = f.type, SameSpan(e, f)
    PROVE  (Nested(f, g) => Nested(e, g)) /\ (Nested(g, f) => Nested(g, e))
BY DEF Nested, MayNest, Overlaps, Covers, SameSpan

\* A rest lies beside what it was trimmed around.
LEMMA RestIsBeside ==
    ASSUME NEW length \in Nat, NEW t \in Findings(length), NEW loser, NEW text,
           NEW from, NEW to, Rest(t, loser, from, to, text)
    PROVE  Beside(t, from, to)
<1>1. t.start \in Int /\ t.end \in Int
  BY FindingIs
<1>2. QED
  BY <1>1 DEF Rest, Beside

\* One that nested with the loser and does not touch the winners nests with
\* what is left of the loser.
LEMMA RestNests ==
    ASSUME NEW text, NEW length \in Nat, NEW loser \in Findings(length),
           NEW t \in Findings(length), NEW u \in Findings(length),
           NEW from \in Int, NEW to \in Int, from < to,
           Rest(t, loser, from, to, text), Beside(u, from, to), Solid(text, u), Nested(loser, u)
    PROVE  Nested(t, u) /\ Nested(u, t)
<1>1. /\ loser.start \in Int /\ loser.end \in Int /\ loser.start < loser.end
      /\ t.start \in Int /\ t.end \in Int /\ t.start < t.end
      /\ u.start \in Int /\ u.end \in Int /\ u.start < u.end
  BY FindingIs
<1>2. t.type = loser.type /\ Covers(loser, t)
  BY DEF Rest
<1> SUFFICES ASSUME Overlaps(t, u) PROVE MayNest(t, u) \/ MayNest(u, t)
  BY <1>1 DEF Nested, Overlaps
<1>3. Overlaps(loser, u)
  BY <1>1, <1>2 DEF Overlaps, Covers
<1>4. CASE MayNest(u, loser)
  BY <1>1, <1>2, <1>4 DEF MayNest, Covers
<1>5. CASE MayNest(loser, u)
  <2>1. Covers(loser, u) /\ <<t.type, u.type>> \in Nestable
    BY <1>2, <1>5 DEF MayNest
  <2>2. text[(u.end - 1) + 1] \notin StripChars /\ u.end - 1 \in Int
    <3>1. (u.end - 1) + 1 = u.end
      BY <1>1
    <3>2. QED
      BY <1>1, <3>1 DEF Solid
  <2>3. Covers(t, u)
    <3>1. CASE /\ t.start = loser.start /\ t.end <= from
               /\ \A i \in loser.start..(from - 1) : text[i + 1] \notin StripChars => i < t.end
      <4>1. u.end <= from
        BY <1>1, <3>1 DEF Overlaps, Beside
      <4>2. u.end - 1 \in loser.start..(from - 1)
        BY <1>1, <2>1, <4>1 DEF Covers
      <4>3. u.end - 1 < t.end
        BY <2>2, <3>1, <4>2
      <4>4. QED
        BY <1>1, <2>1, <3>1, <4>3 DEF Covers
    <3>2. CASE /\ t.start = to
               /\ \A i \in to..(loser.end - 1) : text[i + 1] \notin StripChars => i < t.end
      <4>1. to <= u.start
        BY <1>1, <3>2 DEF Overlaps, Beside
      <4>2. u.end - 1 \in to..(loser.end - 1)
        BY <1>1, <2>1, <4>1 DEF Covers
      <4>3. u.end - 1 < t.end
        BY <2>2, <3>2, <4>2
      <4>4. QED
        BY <1>1, <2>1, <3>2, <4>1, <4>3 DEF Covers
    <3>3. QED
      BY <3>1, <3>2 DEF Rest
  <2>4. QED
    BY <2>1, <2>3 DEF MayNest
<1>6. QED
  BY <1>3, <1>4, <1>5 DEF Nested

\* What is left of two losers on one side of the winner lies like they did.
LEMMA RestCovers ==
    ASSUME NEW text, NEW length \in Nat, NEW e \in Findings(length), NEW f \in Findings(length),
           NEW t \in Findings(length), NEW u \in Findings(length),
           NEW from \in Int, NEW to \in Int, from < to,
           Rest(t, e, from, to, text), Rest(u, f, from, to, text),
           MayNest(e, f), Overlaps(t, u)
    PROVE  MayNest(t, u)
<1>1. /\ e.start \in Int /\ e.end \in Int /\ f.start \in Int /\ f.end \in Int
      /\ t.start \in Int /\ t.end \in Int /\ t.start < t.end
      /\ u.start \in Int /\ u.end \in Int /\ u.start < u.end
  BY FindingIs
<1>2. Covers(e, f) /\ <<t.type, u.type>> \in Nestable /\ Covers(f, u)
  BY DEF MayNest, Rest
<1>3. text[(u.end - 1) + 1] \notin StripChars /\ u.end - 1 \in Int
  <2>1. (u.end - 1) + 1 = u.end
    BY <1>1
  <2>2. QED
    BY <1>1, <2>1 DEF Rest, Solid
<1>4. Beside(u, from, to)
  BY RestIsBeside
<1>5. CASE /\ t.start = e.start /\ t.end <= from
           /\ \A i \in e.start..(from - 1) : text[i + 1] \notin StripChars => i < t.end
  <2>1. u.end <= from
    BY <1>1, <1>4, <1>5 DEF Overlaps, Beside
  <2>2. u.end - 1 \in e.start..(from - 1)
    BY <1>1, <1>2, <2>1 DEF Covers
  <2>3. u.end - 1 < t.end
    BY <1>3, <1>5, <2>2
  <2>4. QED
    BY <1>1, <1>2, <1>5, <2>3 DEF Covers, MayNest
<1>6. CASE /\ t.start = to
           /\ \A i \in to..(e.end - 1) : text[i + 1] \notin StripChars => i < t.end
  <2>1. to <= u.start
    BY <1>1, <1>4, <1>6 DEF Overlaps, Beside
  <2>2. u.end - 1 \in to..(e.end - 1)
    BY <1>1, <1>2, <2>1 DEF Covers
  <2>3. u.end - 1 < t.end
    BY <1>3, <1>6, <2>2
  <2>4. QED
    BY <1>1, <1>2, <1>6, <2>1, <2>3 DEF Covers, MayNest
<1>7. QED
  BY <1>5, <1>6 DEF Rest

\* Rests of nested findings, around the same winner, are nested.
LEMMA RestsNest ==
    ASSUME NEW text, NEW length \in Nat, NEW e \in Findings(length), NEW f \in Findings(length),
           NEW t \in Findings(length), NEW u \in Findings(length),
           NEW from \in Int, NEW to \in Int, from < to,
           Rest(t, e, from, to, text), Rest(u, f, from, to, text), Nested(e, f)
    PROVE  Nested(t, u)
<1> SUFFICES ASSUME Overlaps(t, u) PROVE MayNest(t, u) \/ MayNest(u, t)
  BY DEF Nested
<1>1. /\ e.start \in Int /\ e.end \in Int /\ f.start \in Int /\ f.end \in Int
      /\ t.start \in Int /\ t.end \in Int /\ u.start \in Int /\ u.end \in Int
  BY FindingIs
<1>2. Covers(e, t) /\ Covers(f, u)
  BY DEF Rest
<1>3. Overlaps(e, f) /\ Overlaps(u, t)
  BY <1>1, <1>2 DEF Overlaps, Covers
<1>4. MayNest(e, f) \/ MayNest(f, e)
  BY <1>3 DEF Nested
<1>5. CASE MayNest(e, f)
  BY <1>5, RestCovers
<1>6. CASE MayNest(f, e)
  BY <1>3, <1>6, RestCovers
<1>7. QED
  BY <1>4, <1>5, <1>6

Conflicts(kept, c) == {e \in kept : Overlaps(e, c)}

\* The four outcomes of a turn.
LEMMA AdmitIs ==
    ASSUME NEW text, Len(text) \in Nat, NEW kept \in SUBSET Findings(Len(text)),
           IsFiniteSet(kept), NEW c
    PROVE  LET con == Conflicts(kept, c)
           IN \/ /\ \A e \in con : MayNest(e, c) \/ MayNest(c, e)
                 /\ Admit(kept, c, text) = kept \cup {c}
              \/ /\ Admit(kept, c, text) =
                       ((kept \ con) \cup {c}) \cup UNION {TrimAround(e, {c}, text) : e \in con}
              \/ /\ \E s \in con :
                       /\ SameSpan(s, c)
                       /\ Admit(kept, c, text) =
                             (kept \ {s}) \cup {[s EXCEPT !.by = @ \cup c.by]}
              \/ /\ con # {}
                 /\ Admit(kept, c, text) = kept \cup TrimAround(c, con, text)
<1> DEFINE con == Conflicts(kept, c)
           s == CHOOSE e \in con : \A f \in con : ~Weaker(e, f)
           nest == \A e \in con : MayNest(e, c) \/ MayNest(c, e)
           weak == Weaker(s, c)
           same == SameSpan(s, c)
           result == Admit(kept, c, text)
           one == kept \cup {c}
           two == ((kept \ con) \cup {c}) \cup UNION {TrimAround(e, {c}, text) : e \in con}
           three == (kept \ {s}) \cup {[s EXCEPT !.by = @ \cup c.by]}
           four == kept \cup TrimAround(c, con, text)
<1>1. result = IF nest THEN one ELSE IF weak THEN two ELSE IF same THEN three ELSE four
  BY DEF Admit, Conflicts
<1>2. ~nest => con # {}
  OBVIOUS
<1>3. con # {} => s \in con
  <2>1. con \in SUBSET Findings(Len(text)) /\ IsFiniteSet(con)
    BY FS_Subset DEF Conflicts
  <2> HIDE DEF con
  <2>2. QED
    BY <2>1, Strongest
<1> HIDE DEF con
<1>4. same /\ s \in con => \E e \in con : SameSpan(e, c) /\ three =
         (kept \ {e}) \cup {[e EXCEPT !.by = @ \cup c.by]}
  OBVIOUS
<1> HIDE DEF nest, weak, same, one, two, three, four, result, s
<1>5. \/ nest /\ result = one
      \/ result = two
      \/ same /\ s \in con /\ result = three
      \/ con # {} /\ result = four
  BY <1>1, <1>2, <1>3
<1>6. CASE nest /\ result = one
  BY <1>6 DEF nest, one, result, con
<1>7. CASE result = two
  BY <1>7 DEF two, result, con
<1>8. CASE same /\ s \in con /\ result = three
  <2>1. \E e \in con : SameSpan(e, c) /\ result = (kept \ {e}) \cup {[e EXCEPT !.by = @ \cup c.by]}
    BY <1>4, <1>8
  <2>2. QED
    BY <2>1 DEF result, con
<1>9. CASE con # {} /\ result = four
  BY <1>9 DEF four, result, con
<1>10. QED
  BY <1>5, <1>6, <1>7, <1>8, <1>9

\* What remains of those in conflict.
Rests(con, c, text) == UNION {TrimAround(e, {c}, text) : e \in con}

\* What is left of several losers is findings of them.
LEMMA RestsAre ==
    ASSUME NEW text, Len(text) \in Nat, NEW con \in SUBSET Findings(Len(text)),
           IsFiniteSet(con), NEW c \in Findings(Len(text)), \A e \in con : Overlaps(e, c)
    PROVE  /\ IsFiniteSet(Rests(con, c, text))
           /\ Rests(con, c, text) \in SUBSET Findings(Len(text))
           /\ \A t \in Rests(con, c, text) :
                 \E e \in con : Rest(t, e, c.start, c.end, text)
           /\ \A t, u \in Rests(con, c, text) : t # u =>
                 \E e, f \in con : /\ e # f /\ Rest(t, e, c.start, c.end, text)
                                   /\ Rest(u, f, c.start, c.end, text)
<1> DEFINE Trim(e) == TrimAround(e, {c}, text)
<1>1. ASSUME NEW e \in con
      PROVE  /\ Trim(e) \in SUBSET Findings(Len(text)) /\ IsFiniteSet(Trim(e))
             /\ \A t, u \in Trim(e) : t = u
             /\ \A t \in Trim(e) : Rest(t, e, c.start, c.end, text)
  <2> DEFINE winners == {c}
  <2>1. /\ winners \in SUBSET Findings(Len(text)) /\ winners # {}
        /\ \A w \in winners : Overlaps(w, e)
    BY DEF Overlaps
  <2>2. e \in Findings(Len(text))
    OBVIOUS
  <2>3. \A w \in winners : w = c
    OBVIOUS
  <2>4. TrimAround(e, winners, text) = Trim(e)
    OBVIOUS
  <2> HIDE DEF winners, Trim
  <2>5. /\ TrimAround(e, winners, text) \in SUBSET Findings(Len(text))
        /\ IsFiniteSet(TrimAround(e, winners, text))
        /\ \A t, u \in TrimAround(e, winners, text) : t = u
        /\ \E from, to \in 0..Len(text) :
              /\ (\E w \in winners : from = w.start) /\ (\E w \in winners : to = w.end)
              /\ \A t \in TrimAround(e, winners, text) : Rest(t, e, from, to, text)
    BY <2>1, <2>2, TrimLeavesRest
  <2>6. QED
    BY <2>3, <2>4, <2>5
<1>2. Rests(con, c, text) = UNION {Trim(e) : e \in con}
  BY DEF Rests
<1> HIDE DEF Trim
<1>3. IsFiniteSet(UNION {Trim(e) : e \in con})
  <2> DEFINE f == [e \in con |-> Trim(e)]
  <2>1. \A e \in con : f[e] = Trim(e)
    OBVIOUS
  <2> HIDE DEF f
  <2>2. {f[e] : e \in con} = {Trim(e) : e \in con}
    BY <2>1
  <2>3. \A e \in con : IsFiniteSet(f[e])
    BY <1>1, <2>1
  <2>4. IsFiniteSet(UNION {f[e] : e \in con})
    BY <2>3, UnionIsFinite
  <2>5. QED
    BY <2>2, <2>4
<1>4. \A t \in Rests(con, c, text) : \E e \in con : t \in Trim(e)
  BY <1>2
<1>5. \A t \in Rests(con, c, text) : t \in Findings(Len(text))
  BY <1>1, <1>4
<1>6. ASSUME NEW t \in Rests(con, c, text), NEW u \in Rests(con, c, text), t # u
      PROVE  \E e, f \in con : /\ e # f /\ Rest(t, e, c.start, c.end, text)
                               /\ Rest(u, f, c.start, c.end, text)
  <2>1. PICK e \in con, f \in con : t \in Trim(e) /\ u \in Trim(f)
    BY <1>4
  <2>2. e # f
    BY <1>1, <1>6, <2>1
  <2>3. QED
    BY <1>1, <2>1, <2>2
<1>7. QED
  BY <1>1, <1>2, <1>3, <1>4, <1>5, <1>6

\* Findings of the types T.
Proper(kept, T, text) ==
    /\ kept \in SUBSET Findings(Len(text)) /\ IsFiniteSet(kept)
    /\ \A e \in kept : e.type \in T

\* What is kept stays made of findings, however one more is dealt with.
LEMMA AdmitIsProper ==
    ASSUME NEW text, Len(text) \in Nat, NEW T, NEW kept, Proper(kept, T, text),
           NEW c \in Findings(Len(text)), c.type \in T
    PROVE  Proper(Admit(kept, c, text), T, text)
<1> DEFINE con == Conflicts(kept, c)
           result == Admit(kept, c, text)
<1>1. /\ kept \in SUBSET Findings(Len(text)) /\ IsFiniteSet(kept)
      /\ \A e \in kept : e.type \in T
  BY DEF Proper
<1>2. /\ con \in SUBSET Findings(Len(text)) /\ IsFiniteSet(con) /\ con \subseteq kept
      /\ \A e \in con : Overlaps(e, c) /\ Overlaps(c, e)
  BY <1>1, FS_Subset DEF Conflicts, Overlaps
<1>3. \A S, e : Proper(S, T, text) /\ e \in Findings(Len(text)) /\ e.type \in T
                   => Proper(S \cup {e}, T, text)
  BY FS_AddElement DEF Proper
<1>4. \A S, R : Proper(S, T, text) /\ Proper(R, T, text) => Proper(S \cup R, T, text)
  BY FS_Union DEF Proper
<1>5. \A R : Proper(kept \ R, T, text)
  <2> SUFFICES ASSUME NEW R PROVE Proper(kept \ R, T, text)
    OBVIOUS
  <2>1. IsFiniteSet(kept \ R)
    BY <1>1, FS_Subset
  <2>2. QED
    BY <1>1, <2>1 DEF Proper
<1> HIDE DEF con, result
<1>6. CASE result = kept \cup {c}
  BY <1>3, <1>6 DEF result
<1>7. CASE result = ((kept \ con) \cup {c}) \cup Rests(con, c, text)
  <2>1. \A t \in Rests(con, c, text) : t.type \in T
    BY <1>1, <1>2, RestsAre DEF Rest
  <2>2. Proper(Rests(con, c, text), T, text)
    BY <1>2, <2>1, RestsAre DEF Proper
  <2>3. QED
    BY <1>3, <1>4, <1>5, <1>7, <2>2, ZenonT(40) DEF result
<1>8. ASSUME NEW s \in con,
             result = (kept \ {s}) \cup {[s EXCEPT !.by = @ \cup c.by]}
      PROVE  Proper(result, T, text)
  <2> DEFINE more == [s EXCEPT !.by = @ \cup c.by]
  <2>1. s \in Findings(Len(text)) /\ s.type \in T
    BY <1>1, <1>2
  <2>2. more \in Findings(Len(text))
    BY <2>1, FindingIs, FindingStays
  <2>3. more.type = s.type
    BY <2>1 DEF Findings
  <2> HIDE DEF more
  <2>4. QED
    BY <1>3, <1>5, <1>8, <2>1, <2>2, <2>3 DEF more
<1>9. CASE con # {} /\ result = kept \cup TrimAround(c, con, text)
  <2> DEFINE rest == TrimAround(c, con, text)
  <2>1. /\ rest \in SUBSET Findings(Len(text)) /\ IsFiniteSet(rest)
        /\ \A t \in rest : t.type = c.type
    BY <1>2, <1>9, TrimLeavesRest DEF Rest
  <2> HIDE DEF rest
  <2>2. Proper(rest, T, text)
    BY <2>1 DEF Proper
  <2>3. QED
    BY <1>4, <1>9, <2>2 DEF rest, result
<1>10. \/ result = kept \cup {c}
       \/ result = ((kept \ con) \cup {c}) \cup Rests(con, c, text)
       \/ \E s \in con : result = (kept \ {s}) \cup {[s EXCEPT !.by = @ \cup c.by]}
       \/ con # {} /\ result = kept \cup TrimAround(c, con, text)
  BY <1>1, AdmitIs DEF con, result, Rests
<1>11. QED
  BY <1>6, <1>7, <1>8, <1>9, <1>10 DEF result

\* No separator at the end, and one overlaps another only where they nest.
Settles(kept) == \A e \in kept : \A f \in kept \ {e} : Nested(e, f)
Clean(kept, text) == (\A e \in kept : Solid(text, e)) /\ Settles(kept)

\* One more candidate leaves no two overlapping beyond what is permitted (reconcile).
LEMMA AdmitSettles ==
    ASSUME NEW text, Len(text) \in Nat, NEW T, NEW kept, Proper(kept, T, text),
           Clean(kept, text), NEW c \in Findings(Len(text)), Solid(text, c)
    PROVE  Clean(Admit(kept, c, text), text)
<1> DEFINE len == Len(text)
           con == Conflicts(kept, c)
           result == Admit(kept, c, text)
<1>1. kept \in SUBSET Findings(len) /\ IsFiniteSet(kept)
  BY DEF Proper
<1>2. /\ con \in SUBSET Findings(len) /\ IsFiniteSet(con) /\ con \subseteq kept
      /\ \A e \in con : Overlaps(e, c) /\ Overlaps(c, e)
      /\ \A e \in kept \ con : ~Overlaps(e, c) /\ ~Overlaps(c, e)
  BY <1>1, FS_Subset DEF Conflicts, Overlaps
<1>3. \A e \in kept : Solid(text, e) /\ \A f \in kept \ {e} : Nested(e, f)
  BY DEF Clean, Settles
<1>4. \A e, f : Nested(e, f) => Nested(f, e)
  BY DEF Nested, Overlaps
<1>5. \A e, f : ~Overlaps(e, f) => Nested(e, f)
  BY DEF Nested
<1> HIDE DEF con, result
<1> SUFFICES Clean(result, text)
  BY DEF result
<1>6. CASE (\A e \in con : MayNest(e, c) \/ MayNest(c, e)) /\ result = kept \cup {c}
  <2>1. \A e \in kept : Nested(e, c)
    BY <1>2, <1>5, <1>6 DEF Nested
  <2>2. QED
    BY <1>3, <1>4, <1>6, <2>1 DEF Clean, Settles
<1>7. CASE result = ((kept \ con) \cup {c}) \cup Rests(con, c, text)
  <2> DEFINE rests == Rests(con, c, text)
  <2>1. /\ c.start \in Int /\ c.end \in Int /\ c.start < c.end
        /\ \A e \in Findings(len) : e.start \in Int /\ e.end \in Int /\ e.start < e.end
    BY FindingIs
  <2>2. /\ rests \in SUBSET Findings(len)
        /\ \A t \in rests : \E e \in con : Rest(t, e, c.start, c.end, text)
    BY <1>2, RestsAre
  <2>3. ASSUME NEW t \in rests, NEW u \in rests, t # u PROVE Nested(t, u)
    <3>1. PICK e \in con, f \in con : /\ e # f /\ Rest(t, e, c.start, c.end, text)
                                      /\ Rest(u, f, c.start, c.end, text)
      BY <1>2, <2>3, RestsAre
    <3>2. Nested(e, f)
      BY <1>2, <1>3, <3>1
    <3>3. e \in Findings(len) /\ f \in Findings(len) /\ t \in Findings(len) /\ u \in Findings(len)
      BY <1>2, <2>2
    <3> HIDE DEF len, rests
    <3>4. len \in Nat
      BY DEF len
    <3>5. QED
      BY <2>1, <3>1, <3>2, <3>3, <3>4, RestsNest
  <2> HIDE DEF rests
  <2>4. ASSUME NEW t \in rests PROVE Solid(text, t) /\ Nested(t, c)
    <3>1. PICK e \in con : Rest(t, e, c.start, c.end, text)
      BY <2>2
    <3>2. Beside(t, c.start, c.end)
      BY <2>2, <3>1, RestIsBeside
    <3>3. ~Overlaps(t, c)
      BY <2>1, <2>2, <3>2 DEF Overlaps, Beside
    <3>4. QED
      BY <1>5, <3>1, <3>3 DEF Rest
  <2>5. ASSUME NEW t \in rests, NEW u \in kept \ con PROVE Nested(t, u)
    <3>1. PICK e \in con : Rest(t, e, c.start, c.end, text)
      BY <2>2
    <3>2. e \in kept /\ u \in kept /\ e # u
      BY <1>2
    <3>3. Nested(e, u) /\ Solid(text, u)
      BY <1>3, <3>2
    <3>4. e \in Findings(len) /\ u \in Findings(len) /\ t \in Findings(len)
      BY <1>1, <2>2, <3>2
    <3>5. Beside(u, c.start, c.end)
      BY <1>2, <2>1, <3>4 DEF Overlaps, Beside
    <3> HIDE DEF len
    <3>6. len \in Nat
      BY DEF len
    <3>7. QED
      BY <2>1, <3>1, <3>3, <3>4, <3>5, <3>6, RestNests
  <2>6. \A e \in kept \ con : Nested(e, c)
    BY <1>2, <1>5
  <2>7. \A e \in result : e \in kept \ con \/ e = c \/ e \in rests
    BY <1>7 DEF rests
  <2>8. \A e \in result : Solid(text, e)
    BY <1>3, <2>4, <2>7
  <2>9. ASSUME NEW e \in result, NEW f \in result, e # f PROVE Nested(e, f)
    <3>1. CASE e \in kept \ con /\ f \in kept \ con
      BY <1>3, <2>9, <3>1
    <3>2. CASE e = c \/ f = c
      BY <1>4, <2>4, <2>6, <2>7, <2>9, <3>2
    <3>3. CASE e \in rests \/ f \in rests
      BY <1>4, <2>3, <2>4, <2>5, <2>7, <2>9, <3>3
    <3>4. QED
      BY <2>7, <3>1, <3>2, <3>3
  <2>10. QED
    BY <2>8, <2>9 DEF Clean, Settles
<1>8. ASSUME NEW s \in con,
             result = (kept \ {s}) \cup {[s EXCEPT !.by = @ \cup c.by]}
      PROVE  Clean(result, text)
  <2> DEFINE more == [s EXCEPT !.by = @ \cup c.by]
  <2>1. s \in Findings(len)
    BY <1>2
  <2>2. more.type = s.type /\ more.start = s.start /\ more.end = s.end
    BY <2>1 DEF Findings
  <2> HIDE DEF more
  <2>3. \A f \in kept \ {s} : Nested(more, f) /\ Nested(f, more)
    BY <1>2, <1>3, <1>4, <2>2, SameNests DEF SameSpan
  <2>4. Solid(text, more)
    BY <1>2, <1>3, <2>2 DEF Solid
  <2>5. result = (kept \ {s}) \cup {more}
    BY <1>8 DEF more
  <2>6. QED
    BY <1>3, <2>3, <2>4, <2>5 DEF Clean, Settles
<1>9. CASE con # {} /\ result = kept \cup TrimAround(c, con, text)
  <2> DEFINE rest == TrimAround(c, con, text)
  <2>1. PICK from \in 0..len, to \in 0..len :
           /\ rest \in SUBSET Findings(len) /\ \A t, u \in rest : t = u
           /\ from < to
           /\ \A w \in con : from <= w.start /\ w.end <= to
           /\ \A t \in rest : Rest(t, c, from, to, text)
    BY <1>2, <1>9, TrimLeavesRest
  <2> HIDE DEF rest
  <2>2. ASSUME NEW t \in rest, NEW u \in kept PROVE ~Overlaps(t, u)
    <3>1. /\ t.start \in Int /\ t.end \in Int /\ u.start \in Int /\ u.end \in Int
          /\ c.start \in Int /\ c.end \in Int
      BY <1>1, <2>1, FindingIs
    <3>2. CASE u \in con
      <4>1. from <= u.start /\ u.end <= to
        BY <2>1, <3>2
      <4>2. Beside(t, from, to)
        BY <2>1, RestIsBeside
      <4>3. QED
        BY <2>1, <3>1, <4>1, <4>2 DEF Beside, Overlaps
    <3>3. CASE u \notin con
      <4>1. ~Overlaps(u, c) /\ Covers(c, t)
        BY <1>2, <2>1, <3>3 DEF Rest
      <4>2. QED
        BY <3>1, <4>1 DEF Covers, Overlaps
    <3>4. QED
      BY <3>2, <3>3
  <2>3. \A t \in rest : Solid(text, t)
    BY <2>1 DEF Rest
  <2>4. \A t \in rest, u \in kept : Nested(t, u) /\ Nested(u, t)
    BY <1>4, <1>5, <2>2
  <2>5. result = kept \cup rest
    BY <1>9 DEF rest
  <2>6. QED
    BY <1>3, <2>1, <2>3, <2>4, <2>5 DEF Clean, Settles
<1>10. \/ (\A e \in con : MayNest(e, c) \/ MayNest(c, e)) /\ result = kept \cup {c}
       \/ result = ((kept \ con) \cup {c}) \cup Rests(con, c, text)
       \/ \E s \in con : result = (kept \ {s}) \cup {[s EXCEPT !.by = @ \cup c.by]}
       \/ con # {} /\ result = kept \cup TrimAround(c, con, text)
  BY <1>1, AdmitIs DEF con, result, Rests
<1>11. QED
  BY <1>6, <1>7, <1>8, <1>9, <1>10

\* Merging duplicates takes and adds no span (_merge_duplicates).
LEMMA MergedIs ==
    ASSUME NEW length \in Nat, NEW fs \in SUBSET Findings(length), IsFiniteSet(fs)
    PROVE  /\ Merged(fs) \in SUBSET Findings(length) /\ IsFiniteSet(Merged(fs))
           /\ \A m \in Merged(fs) :
                 \E e \in fs : m.type = e.type /\ m.start = e.start /\ m.end = e.end
           /\ \A e \in fs :
                 \E m \in Merged(fs) : m.type = e.type /\ m.start = e.start /\ m.end = e.end
<1> DEFINE By(e) == UNION {f.by : f \in {g \in fs : g.type = e.type /\ SameSpan(g, e)}}
           M(e) == [e EXCEPT !.by = By(e)]
<1>1. Merged(fs) = {M(e) : e \in fs}
  BY DEF Merged
<1>2. ASSUME NEW e \in fs
      PROVE  /\ M(e) \in Findings(length)
             /\ M(e).type = e.type /\ M(e).start = e.start /\ M(e).end = e.end
  <2>1. \A f \in fs : f.by \in SUBSET Detectors
    BY FindingIs
  <2>2. By(e) \in SUBSET Detectors
    BY <2>1
  <2>3. e \in {g \in fs : g.type = e.type /\ SameSpan(g, e)} /\ e.by # {}
    BY FindingIs DEF SameSpan
  <2>4. By(e) # {}
    BY <2>3
  <2> HIDE DEF By
  <2>5. QED
    BY <2>2, <2>4 DEF Findings
<1> HIDE DEF M
<1>3. IsFiniteSet({M(e) : e \in fs})
  <2>1. [e \in fs |-> M(e)] \in Surjection(fs, {M(e) : e \in fs})
    BY DEF Surjection
  <2>2. QED
    BY <2>1, FS_Surjection
<1>4. QED
  BY <1>1, <1>2, <1>3

\* The order in which candidates are dealt with is one.
LEMMA ComesFirstOrder ==
    ASSUME NEW length \in Nat, NEW S \in SUBSET Findings(length)
    PROVE  StrictOrder(S, {p \in S \X S : ComesFirst(p[1], p[2])})
<1> DEFINE before == {p \in S \X S : ComesFirst(p[1], p[2])}
<1>1. \A e, f \in S : <<e, f>> \in before <=> ComesFirst(e, f)
  OBVIOUS
<1>2. \A e \in S : e.start \in Int /\ e.end \in Int /\ NameOrder[e.type] \in Int
  BY FindingIs, SpansAssumption
<1> HIDE DEF before
<1>3. \A e \in S : ~ComesFirst(e, e)
  BY <1>2 DEF ComesFirst
<1>4. \A e, f, g \in S : ComesFirst(e, f) /\ ComesFirst(f, g) => ComesFirst(e, g)
  BY <1>2 DEF ComesFirst, SameSpan
<1>5. QED
  BY <1>1, <1>3, <1>4 DEF StrictOrder, before

\* Nothing overlaps in nothing.
LEMMA NothingSettled == \A T, text : Proper({}, T, text) /\ Clean({}, text)
BY FS_EmptySet DEF Proper, Clean, Settles

\* What the turns of a reconciliation start from, and what they leave.
Turns(fs, T, text, candidates, kept) ==
    /\ Merged(fs) \in SUBSET Findings(Len(text)) /\ \A m \in Merged(fs) : m.type \in T
    /\ candidates \in Seq(Merged(fs)) /\ Range(candidates) = Merged(fs)
    /\ kept[0] = {} /\ \A i \in 0..Len(candidates) : Proper(kept[i], T, text)
    /\ \A i \in 1..Len(candidates) : kept[i] = Admit(kept[i - 1], candidates[i], text)
    /\ Reconcile(fs, text) = kept[Len(candidates)]

\* Reconciling deals with every candidate in a turn of its own (reconcile).
LEMMA ReconcileTurns ==
    ASSUME NEW text, Len(text) \in Nat, NEW T, NEW fs, Proper(fs, T, text)
    PROVE  \E candidates, kept : Turns(fs, T, text, candidates, kept)
<1> DEFINE merged == Merged(fs)
           before == {p \in merged \X merged : ComesFirst(p[1], p[2])}
           candidates == InOrder(merged, before)
           len == Len(candidates)
           V == {K \in SUBSET Findings(Len(text)) : Proper(K, T, text)}
           Eq(f) == f = [i \in 0..len |-> IF i = 0 THEN {} ELSE Admit(f[i - 1], candidates[i], text)]
           kept == CHOOSE f : Eq(f)
           step == [i \in 0..len |->
                       [K \in V |-> IF i = 0 THEN K ELSE Admit(K, candidates[i], text)]]
<1>1. Reconcile(fs, text) = kept[len]
  BY DEF Reconcile
<1>2. /\ merged \in SUBSET Findings(Len(text)) /\ IsFiniteSet(merged)
      /\ \A m \in merged : m.type \in T
  <2>1. /\ merged \in SUBSET Findings(Len(text)) /\ IsFiniteSet(merged)
        /\ \A m \in merged : \E e \in fs : m.type = e.type
    BY MergedIs DEF Proper
  <2> HIDE DEF merged
  <2>2. QED
    BY <2>1 DEF Proper
<1>3. candidates \in Seq(merged) /\ Range(candidates) = merged
  <2>1. StrictOrder(merged, before)
    BY <1>2, ComesFirstOrder
  <2> HIDE DEF merged, before
  <2>2. QED
    BY <1>2, <2>1, InOrderIs
<1> HIDE DEF candidates, merged
<1>4. len \in Nat /\ \A i \in 1..len : candidates[i] \in merged
  BY <1>3
<1> HIDE DEF len
<1>5. {} \in V
  BY NothingSettled
<1>6. ASSUME NEW i \in 1..len, NEW K \in V PROVE Admit(K, candidates[i], text) \in V
  <2>1. candidates[i] \in Findings(Len(text)) /\ candidates[i].type \in T
    BY <1>2, <1>4
  <2>2. Proper(Admit(K, candidates[i], text), T, text)
    BY <2>1, AdmitIsProper
  <2>3. QED
    BY <2>2 DEF Proper
<1>7. \A K \in V : Proper(K, T, text)
  OBVIOUS
<1> HIDE DEF V
<1>8. Recursive(0, len, V, {}, step)
  <2>1. \A i \in 0..len : i = 0 \/ i \in 1..len
    BY <1>4
  <2>2. QED
    BY <1>4, <1>5, <1>6, <2>1 DEF Recursive
<1>9. PICK f : Solution(0, len, V, {}, step, f)
  <2> HIDE DEF step
  <2>1. QED
    BY <1>8, Recursion
<1>10. f \in [0..len -> V] /\ f[0] = {}
  BY <1>9 DEF Solution
<1>11. ASSUME NEW i \in 1..len PROVE f[i] = Admit(f[i - 1], candidates[i], text)
  <2>1. i \in (0 + 1)..len /\ i - 1 \in 0..len /\ i \in 0..len /\ i # 0
    BY <1>4
  <2>2. f[i] = step[i][f[i - 1]] /\ f[i - 1] \in V
    BY <1>9, <2>1 DEF Solution
  <2>3. QED
    BY <2>1, <2>2
<1>12. Eq(f)
  <2>1. \A i \in 0..len : i = 0 \/ i \in 1..len
    BY <1>4
  <2>2. QED
    BY <1>10, <1>11, <2>1
<1>13. Eq(kept)
  <2> HIDE DEF Eq
  <2>1. QED
    BY <1>12
<1> HIDE DEF kept, step
<1>14. /\ kept[0] = {}
       /\ \A i \in 1..len : kept[i] = Admit(kept[i - 1], candidates[i], text)
  <2>1. 0 \in 0..len /\ \A i \in 1..len : i \in 0..len /\ i # 0
    BY <1>4
  <2>2. QED
    BY <1>13, <2>1
<1> HIDE DEF Eq
<1> DEFINE S == {i \in 0..len : kept[i] \in V}
<1>15. 0 \in S
  <2>1. kept[0] \in V
    BY <1>5, <1>14, Zenon
  <2>2. QED
    BY <1>4, <2>1
<1>16. ASSUME NEW i \in 0..(len - 1), i \in S PROVE i + 1 \in S
  <2>1. i + 1 \in 0..len /\ i + 1 \in 1..len /\ (i + 1) - 1 = i
    BY <1>4
  <2>2. QED
    BY <1>6, <1>14, <1>16, <2>1
<1>17. \A i \in 0..len : Proper(kept[i], T, text)
  <2>1. 0..len \subseteq S
    <3> HIDE DEF S
    <3>1. QED
      BY <1>4, <1>15, <1>16, UpTo
  <2>2. QED
    BY <1>7, <2>1
<1>18. Turns(fs, T, text, candidates, kept)
  BY <1>1, <1>2, <1>3, <1>14, <1>17 DEF Turns, merged, len
<1>19. QED
  BY <1>18

\* However many findings there are, their reconciliation is settled (reconcile).
LEMMA ReconcileIs ==
    ASSUME NEW text, Len(text) \in Nat, NEW T, NEW fs, Proper(fs, T, text)
    PROVE  /\ Proper(Reconcile(fs, text), T, text)
           /\ (\A e \in fs : Solid(text, e)) => Clean(Reconcile(fs, text), text)
<1>1. PICK candidates, kept : Turns(fs, T, text, candidates, kept)
  BY ReconcileTurns
<1> DEFINE len == Len(candidates)
<1>2. /\ Merged(fs) \in SUBSET Findings(Len(text)) /\ Reconcile(fs, text) = kept[len]
      /\ kept[0] = {} /\ \A i \in 0..len : Proper(kept[i], T, text)
      /\ \A i \in 1..len : kept[i] = Admit(kept[i - 1], candidates[i], text)
      /\ len \in Nat /\ \A i \in 1..len : candidates[i] \in Merged(fs)
  BY <1>1 DEF Turns
<1>3. ASSUME \A e \in fs : Solid(text, e) PROVE Clean(kept[len], text)
  <2>1. \A m \in Merged(fs) : Solid(text, m)
    BY <1>3, MergedIs DEF Proper, Solid
  <2> DEFINE S == {i \in 0..len : Clean(kept[i], text)}
  <2>2. 0 \in S
    <3>1. Clean(kept[0], text)
      BY <1>2, NothingSettled, Zenon
    <3>2. 0 \in 0..len
      BY <1>2
    <3>3. QED
      BY <3>1, <3>2
  <2>3. ASSUME NEW i \in 0..(len - 1), i \in S PROVE i + 1 \in S
    <3>1. i + 1 \in 0..len /\ i + 1 \in 1..len /\ (i + 1) - 1 = i /\ i \in 0..len
      BY <1>2
    <3>2. kept[i + 1] = Admit(kept[i], candidates[i + 1], text)
      BY <1>2, <3>1
    <3>3. candidates[i + 1] \in Findings(Len(text)) /\ Solid(text, candidates[i + 1])
      BY <1>2, <2>1, <3>1
    <3>4. Proper(kept[i], T, text) /\ Clean(kept[i], text)
      BY <1>2, <2>3, <3>1
    <3>5. Clean(Admit(kept[i], candidates[i + 1], text), text)
      BY <3>3, <3>4, AdmitSettles
    <3>6. QED
      BY <3>1, <3>2, <3>5
  <2>4. 0..len \subseteq S
    <3>1. len \in Int
      BY <1>2
    <3> HIDE DEF S, len
    <3>2. QED
      BY <2>2, <2>3, <3>1, UpTo
  <2>5. len \in 0..len
    BY <1>2
  <2>6. QED
    BY <2>4, <2>5
<1>4. len \in 0..len
  BY <1>2
<1>5. QED
  BY <1>2, <1>3, <1>4

-----------------------------------------------------------------------------
(* Matches. *)

Ascends(s) == \A i, j \in DOMAIN s : i < j => s[i] < s[j]

\* All the offsets of a text of that length that are not gone.
Picks(s, gone, length) ==
    \A i \in 0..(length - 1) : i \notin gone <=> \E j \in 1..Len(s) : s[j] = i

\* What is kept of a text are offsets of it, in their order.
LEMMA WithoutIs ==
    ASSUME NEW text, Len(text) \in Nat, NEW gone
    PROVE  /\ Without(gone, text) \in Seq(0..(Len(text) - 1)) /\ Ascends(Without(gone, text))
           /\ Picks(Without(gone, text), gone, Len(text))
<1> DEFINE len == Len(text)
           V == Seq(Int)
           Eq(f) == f = [n \in 0..len |->
                            IF n = 0 THEN <<>>
                            ELSE IF n - 1 \in gone THEN f[n - 1] ELSE Append(f[n - 1], n - 1)]
           kept == CHOOSE f : Eq(f)
           step == [n \in 0..len |->
                       [s \in V |-> IF n - 1 \in gone THEN s ELSE Append(s, n - 1)]]
<1>1. Without(gone, text) = kept[len]
  BY DEF Without
<1>2. \A n \in 0..len : n # 0 => n \in (0 + 1)..len /\ n - 1 \in 0..len
  OBVIOUS
<1>3. Recursive(0, len, V, <<>>, step)
  BY DEF Recursive
<1>4. PICK f : Solution(0, len, V, <<>>, step, f)
  <2> HIDE DEF V, step, len
  <2>1. QED
    BY <1>3, Recursion
<1>5. Eq(f)
  <2>1. f \in [0..len -> V] /\ f[0] = <<>>
    BY <1>4 DEF Solution
  <2>2. ASSUME NEW n \in 0..len, n # 0
        PROVE  f[n] = IF n - 1 \in gone THEN f[n - 1] ELSE Append(f[n - 1], n - 1)
    <3>1. f[n] = step[n][f[n - 1]] /\ f[n - 1] \in V
      BY <1>2, <1>4, <2>2 DEF Solution
    <3> HIDE DEF V
    <3>2. QED
      BY <3>1
  <2> HIDE DEF V
  <2>3. QED
    BY <2>1, <2>2
<1>6. Eq(kept)
  <2> HIDE DEF Eq
  <2>1. QED
    BY <1>5
<1> HIDE DEF kept, step, V
<1> DEFINE S == {n \in 0..len : /\ kept[n] \in Seq(0..(n - 1)) /\ Ascends(kept[n])
                                /\ Picks(kept[n], gone, n)}
<1>7. 0 \in S
  BY <1>6 DEF Ascends, Picks
<1>8. ASSUME NEW n \in 0..(len - 1), n \in S PROVE n + 1 \in S
  <2>1. n + 1 \in 0..len /\ n + 1 # 0 /\ (n + 1) - 1 = n
    OBVIOUS
  <2>2. kept[n + 1] = IF n \in gone THEN kept[n] ELSE Append(kept[n], n)
    BY <1>6, <2>1
  <2>3. PICK s : s = kept[n] /\ s \in Seq(0..(n - 1)) /\ Ascends(s) /\ Picks(s, gone, n)
    BY <1>8
  <2>4. s \in Seq(0..n)
    BY <2>3
  <2>5. CASE n \in gone
    <3>1. \A i \in 0..n : i = n \/ i \in 0..(n - 1)
      OBVIOUS
    <3>2. n \notin {s[j] : j \in 1..Len(s)}
      <4>1. \A j \in 1..Len(s) : s[j] \in 0..(n - 1)
        BY <2>3
      <4>2. QED
        BY <4>1
    <3>3. Picks(s, gone, n + 1)
      <4>1. \A i \in 0..(n - 1) : i \notin gone <=> \E j \in 1..Len(s) : s[j] = i
        BY <2>3 DEF Picks
      <4>2. \A i \in 0..n : i \notin gone <=> \E j \in 1..Len(s) : s[j] = i
        BY <2>5, <3>1, <3>2, <4>1
      <4>3. (n + 1) - 1 = n
        OBVIOUS
      <4>4. QED
        BY <4>2, <4>3 DEF Picks
    <3>4. QED
      BY <2>1, <2>2, <2>3, <2>4, <2>5, <3>3
  <2>6. CASE n \notin gone
    <3> DEFINE r == Append(s, n)
    <3>1. kept[n + 1] = r
      BY <2>2, <2>3, <2>6
    <3>2. r \in Seq(0..n) /\ DOMAIN r = 1..(Len(s) + 1) /\ Len(s) \in Nat
      BY <2>4
    <3>3. r[Len(s) + 1] = n /\ \A i \in 1..Len(s) : r[i] = s[i] /\ s[i] \in 0..(n - 1)
      BY <2>3
    <3> HIDE DEF r
    <3>4. ASSUME NEW i \in 1..(Len(s) + 1), NEW j \in 1..(Len(s) + 1), i < j
          PROVE  r[i] < r[j]
      <4>1. i \in 1..Len(s) /\ r[i] = s[i] /\ s[i] \in 0..(n - 1)
        BY <3>2, <3>3, <3>4, SMTT(30)
      <4>2. CASE j = Len(s) + 1
        BY <3>3, <4>1, <4>2
      <4>3. CASE j # Len(s) + 1
        <5>1. j \in 1..Len(s) /\ r[j] = s[j]
          BY <3>2, <3>3, <4>3
        <5>2. DOMAIN s = 1..Len(s)
          BY <2>3
        <5>3. s[i] < s[j]
          BY <2>3, <3>4, <4>1, <5>1, <5>2 DEF Ascends
        <5>4. QED
          BY <4>1, <5>1, <5>3
      <4>4. QED
        BY <4>2, <4>3
    <3>5. Ascends(r)
      BY <3>2, <3>4 DEF Ascends
    <3>6. Picks(r, gone, n + 1)
      <4>1. Len(r) = Len(s) + 1
        BY <3>2
      <4>2. ASSUME NEW i \in 0..(n - 1), i \notin gone PROVE \E j \in 1..(Len(s) + 1) : r[j] = i
        <5>1. PICK j \in 1..Len(s) : s[j] = i
          BY <2>3, <4>2 DEF Picks
        <5>2. j \in 1..(Len(s) + 1) /\ r[j] = i
          BY <3>2, <3>3, <5>1, SMTT(30)
        <5>3. QED
          BY <5>2
      <4>3. ASSUME NEW i \in 0..(n - 1), NEW j \in 1..(Len(s) + 1), r[j] = i PROVE i \notin gone
        <5>1. j \in 1..Len(s) /\ s[j] = i
          BY <3>2, <3>3, <4>3
        <5>2. QED
          BY <2>3, <5>1 DEF Picks
      <4>4. \E j \in 1..(Len(s) + 1) : r[j] = n
        BY <3>2, <3>3
      <4>5. \A i \in 0..((n + 1) - 1) : i = n \/ i \in 0..(n - 1)
        OBVIOUS
      <4>6. QED
        BY <2>6, <4>1, <4>2, <4>3, <4>4, <4>5 DEF Picks
    <3>7. QED
      BY <2>1, <3>1, <3>2, <3>5, <3>6
  <2>7. QED
    BY <2>5, <2>6
<1>9. len \in S
  <2>1. 0 \in Int /\ len \in Int /\ len \in 0..len
    OBVIOUS
  <2> HIDE DEF S
  <2>2. 0..len \subseteq S
    <3> HIDE DEF len
    <3>1. QED
      BY <1>7, <1>8, <2>1, UpTo
  <2>3. QED
    BY <2>1, <2>2
<1>10. QED
  BY <1>1, <1>9

\* A text made from one of that length, with the offsets it came from.
MadeFrom(made, length) ==
    /\ made.positions \in Seq(0..(length - 1)) /\ Ascends(made.positions)
    /\ Len(made.text) = Len(made.positions)

\* A normalized text knows the place of each of its characters (normalization.py).
LEMMA NormalizedIs ==
    ASSUME NEW text, Len(text) \in Nat
    PROVE  MadeFrom(Normalize(text), Len(text)) /\ MadeFrom(Collapse(text), Len(text))
<1>1. MadeFrom(Normalize(text), Len(text))
  <2> DEFINE kept == Without({i \in 0..(Len(text) - 1) : text[i + 1] \in Invisible}, text)
             made == [i \in 1..Len(kept) |-> Folded(text[kept[i] + 1])]
  <2>1. kept \in Seq(0..(Len(text) - 1)) /\ Ascends(kept)
    BY WithoutIs
  <2>2. Normalize(text) = [text |-> made, positions |-> kept]
    BY DEF Normalize
  <2> HIDE DEF kept
  <2>3. Len(made) = Len(kept)
    BY <2>1
  <2> HIDE DEF made
  <2>4. QED
    BY <2>1, <2>2, <2>3 DEF MadeFrom
<1>2. MadeFrom(Collapse(text), Len(text))
  <2> DEFINE runs == SpacedRuns(text)
             kept == Without({i \in 0..(Len(text) - 1) :
                                 text[i + 1] = " " /\ \E r \in runs : r[1] <= i /\ i < r[2]}, text)
             made == [i \in 1..Len(kept) |-> text[kept[i] + 1]]
  <2>1. kept \in Seq(0..(Len(text) - 1)) /\ Ascends(kept)
    BY WithoutIs
  <2>2. Collapse(text) = [text |-> made, positions |-> kept]
    BY DEF Collapse
  <2> HIDE DEF kept
  <2>3. Len(made) = Len(kept)
    BY <2>1
  <2> HIDE DEF made
  <2>4. QED
    BY <2>1, <2>2, <2>3 DEF MadeFrom
<1>3. QED
  BY <1>1, <1>2

Within(span, length) ==
    span.start \in 0..length /\ span.end \in 0..length /\ span.start < span.end

\* A span of a normalized text is one of the text it was made from.
LEMMA TakenBack ==
    ASSUME NEW made, NEW length \in Nat, MadeFrom(made, length),
           NEW span, Within(span, Len(made.text))
    PROVE  Within(ToOriginal(made.positions, span), length)
<1> DEFINE positions == made.positions
           len == Len(made.text)
<1>1. /\ DOMAIN positions = 1..len /\ len \in Nat
      /\ \A i \in 1..len : positions[i] \in 0..(length - 1)
  BY DEF MadeFrom
<1>2. \A i, j \in 1..len : i < j => positions[i] < positions[j]
  BY <1>1 DEF MadeFrom, Ascends
<1> HIDE DEF positions, len
<1>3. span.start + 1 \in 1..len /\ span.end \in 1..len /\ span.start + 1 <= span.end
  BY <1>1 DEF Within, len
<1>4. positions[span.start + 1] <= positions[span.end]
  BY <1>1, <1>2, <1>3
<1>5. /\ positions[span.start + 1] \in 0..(length - 1)
      /\ positions[span.end] \in 0..(length - 1)
  BY <1>1, <1>3
<1>6. Within([start |-> positions[span.start + 1], end |-> positions[span.end] + 1], length)
  BY <1>4, <1>5, SMTT(30) DEF Within
<1>7. QED
  BY <1>6 DEF ToOriginal, positions

\* A pattern stands in a text at finitely many places, all within it.
LEMMA OccurrencesAre ==
    ASSUME NEW pattern \in Seq(Chars) \ {<<>>}, NEW text, Len(text) \in Nat
    PROVE  /\ IsFiniteSet(Occurrences(pattern, text))
           /\ \A o \in Occurrences(pattern, text) : Within(o, Len(text))
<1> DEFINE length == Len(text)
           wide == Len(pattern)
           starts == {i \in 0..(length - wide) : SubSeq(text, i + 1, i + wide) = pattern}
           f == [s \in starts |-> [start |-> s, end |-> s + wide]]
<1>1. wide \in Nat /\ wide > 0
  BY EmptySeq, LenProperties
<1>2. Occurrences(pattern, text) = {f[s] : s \in starts}
  BY DEF Occurrences
<1>3. IsFiniteSet(starts)
  <2>1. IsFiniteSet(0..(length - wide))
    BY <1>1, FS_Interval
  <2>2. starts \in SUBSET (0..(length - wide))
    OBVIOUS
  <2> HIDE DEF starts
  <2>3. QED
    BY <2>1, <2>2, FS_Subset
<1>4. IsFiniteSet({f[s] : s \in starts})
  <2> HIDE DEF f, starts
  <2>1. QED
    BY <1>3, ImageIsFinite
<1>5. ASSUME NEW s \in starts PROVE Within(f[s], length)
  BY <1>1 DEF Within
<1> HIDE DEF f, starts
<1>6. QED
  BY <1>2, <1>4, <1>5

\* What the patterns and the guesses of a call may be.
LEMMA MatchesAre ==
    ASSUME Askable(case), NEW chunk, chunk.base \in Nat, chunk.end \in 0..Len(Text),
           NEW first, first \subseteq case.doc.patterns,
           NEW second, second \subseteq case.doc.patterns
    PROVE  /\ IsFiniteSet(Matches(chunk, first, second))
           /\ \A e \in Matches(chunk, first, second) :
                 Plain(Shifted(e, chunk.base)) \in Findings(Len(Text))
<1> DEFINE sub == SubSeq(Text, chunk.base + 1, chunk.end)
           length == Len(sub)
           plain == Normalize(sub)
           closed == Collapse(plain.text)
           apart == Len(closed.text) < Len(plain.text)
           At(p, span, by) == [type |-> p.type, score |-> p.score, by |-> {by},
                               start |-> span.start, end |-> span.end]
           found1(p) == {At(p, ToOriginal(plain.positions, s), p.by) :
                            s \in Occurrences(p.text, plain.text)}
           found2(p) == {At(p, ToOriginal(plain.positions, ToOriginal(closed.positions, s)), "presidio") :
                            s \in Occurrences(p.text, closed.text)}
           patterns == case.doc.patterns
           twice == {q \in second : apart}
           matches == Matches(chunk, first, second)
<1>1. matches = UNION ({found1(p) : p \in first} \cup {found2(p) : p \in twice})
  BY DEF Matches
<1>2. /\ Text \in Seq(Chars) /\ IsFiniteSet(patterns)
      /\ \A p \in patterns :
            p.type \in Types /\ p.text \in Seq(Chars) \ {<<>>} /\ p.by \in Detectors
  BY DEF Askable, Text
<1>3. length \in Nat /\ (length = 0 \/ chunk.base + length <= Len(Text))
  <2>1. \A i \in (chunk.base + 1)..chunk.end : Text[i] \in Chars
    BY <1>2
  <2>2. chunk.base + 1 \in Int /\ chunk.end \in Int
    BY <1>2
  <2>3. length = IF chunk.base + 1 <= chunk.end THEN chunk.end - (chunk.base + 1) + 1 ELSE 0
    BY <2>1, <2>2, SubSeqProperties
  <2> HIDE DEF sub
  <2>4. QED
    BY <1>2, <2>3
<1> HIDE DEF sub
<1>4. MadeFrom(plain, length)
  <2> HIDE DEF length
  <2>1. QED
    BY <1>3, NormalizedIs DEF length
<1>5. Len(plain.text) \in Nat
  BY <1>4 DEF MadeFrom
<1> HIDE DEF plain
<1>6. MadeFrom(closed, Len(plain.text)) /\ Len(closed.text) \in Nat
  <2>1. MadeFrom(closed, Len(plain.text))
    BY <1>5, NormalizedIs
  <2>2. QED
    BY <2>1 DEF MadeFrom
<1> HIDE DEF closed, length, apart
<1> DEFINE Lies(e) == /\ e.type \in Types /\ e.by \in SUBSET Detectors /\ e.by # {}
                      /\ Within(e, length)
<1>7. ASSUME NEW p \in patterns PROVE IsFiniteSet(found1(p)) /\ \A e \in found1(p) : Lies(e)
  <2> DEFINE O == Occurrences(p.text, plain.text)
             f == [s \in O |-> At(p, ToOriginal(plain.positions, s), p.by)]
  <2>1. IsFiniteSet(O) /\ \A s \in O : Within(s, Len(plain.text))
    BY <1>2, <1>5, OccurrencesAre
  <2>2. found1(p) = {f[s] : s \in O}
    OBVIOUS
  <2> HIDE DEF O
  <2>3. ASSUME NEW s \in O PROVE Lies(f[s])
    <3>1. Within(ToOriginal(plain.positions, s), length)
      BY <1>3, <1>4, <2>1, TakenBack
    <3>2. QED
      BY <1>2, <3>1 DEF Within
  <2> HIDE DEF f, Lies, found1
  <2>4. IsFiniteSet({f[s] : s \in O})
    BY <2>1, ImageIsFinite
  <2>5. QED
    BY <2>2, <2>3, <2>4
<1>8. ASSUME NEW p \in patterns PROVE IsFiniteSet(found2(p)) /\ \A e \in found2(p) : Lies(e)
  <2> DEFINE O == Occurrences(p.text, closed.text)
             Back(s) == ToOriginal(plain.positions, ToOriginal(closed.positions, s))
             f == [s \in O |-> At(p, Back(s), "presidio")]
  <2>1. IsFiniteSet(O) /\ \A s \in O : Within(s, Len(closed.text))
    BY <1>2, <1>6, OccurrencesAre
  <2>2. found2(p) = {f[s] : s \in O}
    OBVIOUS
  <2> HIDE DEF O
  <2>3. ASSUME NEW s \in O PROVE Lies(f[s])
    <3>1. Within(ToOriginal(closed.positions, s), Len(plain.text))
      BY <1>5, <1>6, <2>1, TakenBack
    <3>2. Within(Back(s), length)
      BY <1>3, <1>4, <3>1, TakenBack
    <3> HIDE DEF Back
    <3>3. "presidio" \in Detectors
      BY DEF Detectors
    <3>4. QED
      BY <1>2, <3>2, <3>3 DEF Within
  <2> HIDE DEF f, Lies, found2
  <2>4. IsFiniteSet({f[s] : s \in O})
    BY <2>1, ImageIsFinite
  <2>5. QED
    BY <2>2, <2>3, <2>4
<1> HIDE DEF found1, found2, At
<1>9. IsFiniteSet(matches)
  <2> DEFINE f1 == [p \in first |-> found1(p)]
             f2 == [p \in twice |-> found2(p)]
  <2>1. IsFiniteSet(UNION {f1[p] : p \in first})
    <3>1. \A p \in first : IsFiniteSet(f1[p])
      BY <1>7
    <3>2. IsFiniteSet(first)
      BY <1>2, FS_Subset
    <3> HIDE DEF f1, patterns
    <3>3. QED
      BY <3>1, <3>2, UnionIsFinite
  <2>2. IsFiniteSet(UNION {f2[p] : p \in twice})
    <3>1. \A p \in twice : IsFiniteSet(f2[p])
      BY <1>8
    <3>2. IsFiniteSet(twice)
      BY <1>2, FS_Subset
    <3> HIDE DEF f2, twice
    <3>3. QED
      BY <3>1, <3>2, UnionIsFinite
  <2> DEFINE U1 == UNION {f1[p] : p \in first}
             U2 == UNION {f2[p] : p \in twice}
  <2>3. matches = U1 \cup U2
    BY <1>1
  <2>4. IsFiniteSet(U1) /\ IsFiniteSet(U2)
    BY <2>1, <2>2
  <2> HIDE DEF U1, U2
  <2>5. QED
    BY <2>3, <2>4, FS_Union
<1>10. ASSUME NEW e \in matches PROVE Plain(Shifted(e, chunk.base)) \in Findings(Len(Text))
  <2>1. \E p \in patterns : e \in found1(p) \/ e \in found2(p)
    BY <1>1
  <2>2. Lies(e)
    BY <1>7, <1>8, <2>1
  <2>3. \E p \in patterns : \E span, by : e = At(p, span, by)
    BY <2>1 DEF found1, found2
  <2>4. /\ Shifted(e, chunk.base).type = e.type /\ Shifted(e, chunk.base).by = e.by
        /\ Shifted(e, chunk.base).start = e.start + chunk.base
        /\ Shifted(e, chunk.base).end = e.end + chunk.base
    BY <2>3 DEF Shifted, At
  <2>5. /\ e.start + chunk.base \in 0..Len(Text) /\ e.end + chunk.base \in 0..Len(Text)
        /\ e.start + chunk.base < e.end + chunk.base
    BY <1>2, <1>3, <2>2, SMTT(30) DEF Within
  <2>6. QED
    BY <2>2, <2>4, <2>5 DEF Plain, Findings
<1>11. QED
  BY <1>9, <1>10

-----------------------------------------------------------------------------
(* What is found, and what becomes of it. *)

Considered == {t \in Types : Enabled(profile.rules, t)}

\* Spans lie within the document, entities are of types the profile considers,
\* and they are settled.
FoundAndSettled ==
    /\ k \in Nat \ {0} /\ (stage = "resolve" => k = 1)
    /\ (stage = "detect" => k \in 1..Len(chunks))
    /\ IsFiniteSet(found) /\ \A e \in found : Plain(e) \in Findings(Len(Text))
    /\ stage \in {"resolve", "detect", "settle"} => entities = {}
    /\ Proper(entities, Considered, Text)
    /\ (\A e \in found : Solid(Text, e)) => Clean(entities, Text)

SInv == CutOnce /\ FoundAndSettled

LEMMA InitFound == Init => FoundAndSettled
<1> SUFFICES ASSUME Init PROVE FoundAndSettled
  OBVIOUS
<1>1. found = {} /\ entities = {} /\ k = 1 /\ stage = "resolve"
  BY DEF Init
<1>2. QED
  BY <1>1, NothingSettled, FS_EmptySet DEF FoundAndSettled

LEMMA DetectKeeps == ASSUME SInv, Detect PROVE FoundAndSettled'
<1> DEFINE chunk == chunks[k]
           matches == Matches(chunk, case.doc.patterns, SpacedPatterns)
           shifted == {Shifted(e, chunk.base) : e \in matches}
           whole == {e \in case.doc.noise : chunk.base <= e.start /\ e.end <= chunk.end}
           len == Len(Text)
<1>1. /\ stage = "detect" /\ found' = found \cup (shifted \cup whole)
      /\ UNCHANGED <<case, profile, chunks, entities>>
      /\ IF k < Len(chunks) THEN k' = k + 1 /\ stage' = stage
         ELSE stage' = "settle" /\ k' = k
  BY DEF Detect
<1>2. /\ Askable(case) /\ Text \in Seq(Chars) /\ len \in Nat /\ case.doc.size \in Nat
      /\ IsFiniteSet(case.doc.noise) /\ \A e \in case.doc.noise : Plain(e) \in Findings(len)
  BY DEF SInv, CutOnce, Askable, Text
<1>3. entities = {} /\ k \in 1..Len(chunks) /\ k \in Nat \ {0}
  BY <1>1 DEF SInv, FoundAndSettled
<1>4. Covering(chunks, len, PatternSpan(profile.rules))
  <2>1. PatternSpan(profile.rules) \in Nat \ {0}
    BY <1>1, Resolved DEF SInv
  <2>2. chunks # <<>>
    BY <1>3
  <2>3. chunks = ChunkText(Text, PatternSpan(profile.rules), case.doc.size)
    BY <2>2 DEF SInv, CutOnce
  <2> HIDE DEF len
  <2>4. QED
    BY <1>2, <2>1, <2>3, ChunkTextCovers DEF len
<1>5. chunk.base \in Nat /\ chunk.end \in 0..len /\ Len(chunks) \in Nat
  BY <1>3, <1>4 DEF Covering
<1>6. /\ IsFiniteSet(matches)
      /\ \A e \in matches : Plain(Shifted(e, chunk.base)) \in Findings(len)
  <2>1. SpacedPatterns \subseteq case.doc.patterns
    BY DEF SpacedPatterns
  <2>2. QED
    BY <1>2, <1>5, <2>1, MatchesAre
<1> HIDE DEF chunk, len, matches
<1>7. IsFiniteSet(shifted)
  <2> DEFINE f == [e \in matches |-> Shifted(e, chunk.base)]
  <2>1. shifted = {f[e] : e \in matches}
    OBVIOUS
  <2> HIDE DEF f
  <2>2. QED
    BY <1>6, <2>1, ImageIsFinite
<1>8. IsFiniteSet(whole)
  BY <1>2, FS_Subset
<1>9. \A e \in shifted \cup whole : Plain(e) \in Findings(len)
  BY <1>2, <1>6
<1> HIDE DEF shifted, whole
<1>10. IsFiniteSet(found')
  BY <1>1, <1>7, <1>8, FS_Union DEF SInv, FoundAndSettled
<1>11. Text' = Text
  BY <1>1 DEF Text
<1>12. \A e \in found' : Plain(e) \in Findings(Len(Text'))
  BY <1>1, <1>9, <1>11 DEF SInv, FoundAndSettled, len
<1>13. /\ k' \in Nat \ {0} /\ (stage' = "resolve" => k' = 1)
       /\ stage' = "detect" => k' \in 1..Len(chunks')
  BY <1>1, <1>3, <1>5
<1>14. entities' = {}
  BY <1>1, <1>3
<1>15. QED
  BY <1>10, <1>12, <1>13, <1>14, NothingSettled DEF FoundAndSettled

LEMMA SettleKeeps == ASSUME SInv, Settle PROVE FoundAndSettled'
<1> DEFINE relevant == {f \in found : Relevant(f)}
           fs == {Plain(e) : e \in relevant}
<1>1. /\ stage' = "decide" /\ entities' = Reconcile(fs, Text)
      /\ UNCHANGED <<case, k, profile, chunks, found>>
  BY DEF Settle
<1>2. /\ IsFiniteSet(found) /\ \A e \in found : Plain(e) \in Findings(Len(Text))
      /\ k \in Nat \ {0}
  BY DEF SInv, FoundAndSettled
<1>3. IsFiniteSet(fs)
  <2> DEFINE f == [e \in relevant |-> Plain(e)]
  <2>1. IsFiniteSet(relevant) /\ fs = {f[e] : e \in relevant}
    BY <1>2, FS_Subset
  <2> HIDE DEF f, relevant, fs
  <2>2. QED
    BY <2>1, ImageIsFinite
<1>4. fs \in SUBSET Findings(Len(Text))
  BY <1>2
<1>5. \A e \in relevant : Enabled(profile.rules, Plain(e).type) /\ Plain(e).end = e.end
  BY DEF Relevant, Plain
<1>6. \A e \in fs : e.type \in Considered
  BY <1>4, <1>5, FindingIs DEF Considered
<1>7. (\A e \in found : Solid(Text, e)) => \A e \in fs : Solid(Text, e)
  BY <1>5 DEF Solid
<1> HIDE DEF fs, relevant
<1>8. Len(Text) \in Nat
  BY DEF SInv, CutOnce, Askable, Text
<1>9. Proper(fs, Considered, Text)
  BY <1>3, <1>4, <1>6 DEF Proper
<1>10. /\ Proper(entities', Considered, Text)
       /\ (\A e \in found : Solid(Text, e)) => Clean(entities', Text)
  BY <1>1, <1>7, <1>8, <1>9, ReconcileIs
<1>11. Text' = Text /\ Considered' = Considered
  BY <1>1 DEF Text, Considered
<1>12. QED
  BY <1>1, <1>2, <1>10, <1>11 DEF FoundAndSettled

\* The other steps change nothing of this, or come before it.
LEMMA CutKeeps == ASSUME SInv, Cut PROVE FoundAndSettled'
<1>1. /\ found = {} /\ entities = {} /\ stage = "resolve"
      /\ UNCHANGED <<case, k, found, entities>>
  BY DEF SInv, CutOnce, Cut
<1>2. stage' = "detect" => k' \in 1..Len(chunks')
  <2> SUFFICES ASSUME stage' = "detect" PROVE k' \in 1..Len(chunks')
    OBVIOUS
  <2> DEFINE resolved == Resolve(case.profiles, case.requested)
  <2>1. chunks' = ChunkText(Text, PatternSpan(resolved.rules), case.doc.size)
    BY <1>1 DEF Cut
  <2>2. PatternSpan(resolved.rules) \in Nat \ {0}
    <3>1. Directory(case.profiles) /\ case.requested \in Seq(ProfileNames)
      BY DEF SInv, CutOnce, Askable, Directory
    <3>2. QED
      BY <3>1, ResolveIs, SpanIsLargest
  <2> HIDE DEF resolved
  <2>3. Len(Text) \in Nat /\ case.doc.size \in Nat
    BY DEF SInv, CutOnce, Askable, Text
  <2>4. Len(chunks') \in Nat \ {0}
    BY <2>1, <2>2, <2>3, ChunkTextCovers DEF Covering
  <2>5. k' = 1
    BY <1>1 DEF SInv, FoundAndSettled
  <2>6. QED
    BY <2>4, <2>5
<1>3. QED
  BY <1>1, <1>2, NothingSettled DEF SInv, FoundAndSettled

LEMMA FoundUntouched ==
    ASSUME SInv, UNCHANGED <<case, k, profile, chunks, found, entities>>,
           stage' = stage \/ stage' \notin {"resolve", "detect", "settle"}
    PROVE  FoundAndSettled'
<1>1. Text' = Text /\ Considered' = Considered
  BY DEF Text, Considered
<1>2. QED
  BY <1>1 DEF SInv, FoundAndSettled

LEMMA SettledStep == SInv /\ [Next]_vars => SInv'
<1> SUFFICES ASSUME SInv, [Next]_vars PROVE SInv'
  OBVIOUS
<1>1. CutOnce'
  BY CutStep DEF SInv
<1>2. CASE Cut \/ Detect \/ Settle
  BY <1>1, <1>2, CutKeeps, DetectKeeps, SettleKeeps DEF SInv
<1>3. CASE Decide \/ Apply \/ Finish
  BY <1>1, <1>3, FoundUntouched DEF Decide, Apply, Finish, SInv
<1>4. CASE Reuse \/ Mint \/ Remember
  BY <1>1, <1>4, FoundUntouched DEF Reuse, Mint, Remember, SInv
<1>5. CASE ClearForward \/ ClearSeen \/ Done \/ UNCHANGED vars
  BY <1>1, <1>5, FoundUntouched DEF ClearForward, ClearSeen, Done, vars, SInv
<1>6. QED
  BY <1>2, <1>3, <1>4, <1>5 DEF Next

\* Findings and entities are, in every state, spans of the document.
LEMMA AlwaysSettled == Spec => []SInv
BY InitCut, InitFound, SettledStep, PTL DEF Spec, SInv

(***************************************************************************)
(* Whatever detectors find, after reconciliation two entities overlap only *)
(* where a permitted pair nests, also where a third one has trimmed them,  *)
(* as long as no detector takes a separator for the end of a value         *)
(* (core/reconciler.py, reconcile, _trim_around).                          *)
(***************************************************************************)
THEOREM EntitiesAlwaysSettled == Spec => []SpansSettled
<1>1. SInv => SpansSettled
  BY DEF SInv, FoundAndSettled, Clean, Settles, Solid, Nested, SpansSettled
<1>2. QED
  BY <1>1, AlwaysSettled, PTL

-----------------------------------------------------------------------------
(* Actions. *)

\* What the effective rule of a type says for a destination, against the rules it
\* was merged from.
LEMMA MandatedIsStrictest ==
    ASSUME NEW R, NEW m, MergeOf(m, R), m # NoRule, NEW destination
    PROVE  LET mandated == IF destination \in DOMAIN m.over THEN m.over[destination] ELSE m.action
               there == {r \in R : destination \in DOMAIN r.over}
           IN /\ mandated \in Actions
              /\ \A r \in there : Priority[mandated] >= Priority[r.over[destination]]
              /\ there = {} => \A r \in R : Priority[mandated] >= Priority[r.action]
<1>1. m \in Rules /\ R \subseteq Rules /\ \A r \in R : AtLeast(m, r)
  BY DEF MergeOf
<1>2. m.action \in Actions /\ \A d \in DOMAIN m.over : m.over[d] \in Actions
  BY <1>1, RuleTypes
<1>3. \A d \in DOMAIN m.over : \E r \in R : d \in DOMAIN r.over
  BY DEF MergeOf
<1>4. \A r \in R : /\ Priority[m.action] >= Priority[r.action]
                   /\ destination \in DOMAIN r.over =>
                         /\ destination \in DOMAIN m.over
                         /\ Priority[m.over[destination]] >= Priority[r.over[destination]]
  BY <1>1 DEF AtLeast
<1>5. CASE destination \in DOMAIN m.over
  BY <1>2, <1>3, <1>4, <1>5
<1>6. CASE destination \notin DOMAIN m.over
  BY <1>2, <1>4, <1>6
<1>7. QED
  BY <1>5, <1>6

\* What is done to an entity, from the merge of its rules (resolve_one).
LEMMA EntityIsActedOn ==
    ASSUME SInv, NEW e \in entities
    PROVE  LET rules == {case.profiles[n].rules[e.type] : n \in Range(profile.names)} \ {NoRule}
               there == {r \in rules : case.destination \in DOMAIN r.over}
               demands == IF there # {} THEN {r.over[case.destination] : r \in there}
                          ELSE {r.action : r \in rules}
           IN \/ Action(e) = "ALLOW" /\ e.start \in case.doc.exempt /\ ~IsBaseSecurity(e)
                 /\ \E r \in rules : r.exempt
              \/ /\ \A a \in demands : Priority[Action(e)] >= Priority[a]
                 /\ \/ e.type \notin BaseTypes \/ Priority[Action(e)] >= Priority["REDACT"]
                    \/ \E r \in rules : r.approved
<1> DEFINE rules == {case.profiles[n].rules[e.type] : n \in Range(profile.names)} \ {NoRule}
           destination == case.destination
           there == {r \in rules : destination \in DOMAIN r.over}
           demands == IF there # {} THEN {r.over[destination] : r \in there}
                      ELSE {r.action : r \in rules}
           m == profile.rules[e.type]
           mandated == IF destination \in DOMAIN m.over THEN m.over[destination] ELSE m.action
           exempt == e.start \in case.doc.exempt
<1>1. /\ e.type \in Types /\ Enabled(profile.rules, e.type) /\ stage # "resolve"
  BY DEF SInv, FoundAndSettled, Proper, Considered
<1>2. /\ profile.names \in Seq(Good(case.profiles))
      /\ MergeOf(m, RulesOf(case.profiles, profile.names, e.type))
  BY <1>1, Resolved DEF SInv
<1>3. RulesOf(case.profiles, profile.names, e.type) = rules
  BY DEF RulesOf, Range
<1>4. MergeOf(m, rules) /\ m # NoRule /\ m.enabled
  BY <1>1, <1>2, <1>3, NoRuleIsNone DEF Enabled
<1>5. /\ rules \subseteq Rules /\ rules # {}
      /\ m.exempt => \E r \in rules : r.exempt
  BY <1>4 DEF MergeOf
<1>6. \A r \in rules : ValidRule(e.type, r)
  <2> SUFFICES ASSUME NEW n \in Range(profile.names), case.profiles[n].rules[e.type] # NoRule
               PROVE  ValidRule(e.type, case.profiles[n].rules[e.type])
    OBVIOUS
  <2>1. n \in Good(case.profiles)
    BY <1>2 DEF Range
  <2>2. QED
    BY <1>1, <2>1 DEF Good, ValidProfile
<1> HIDE DEF rules, m, destination
<1>7. /\ mandated \in Actions
      /\ \A r \in there : Priority[mandated] >= Priority[r.over[destination]]
      /\ there = {} => \A r \in rules : Priority[mandated] >= Priority[r.action]
  BY <1>4, MandatedIsStrictest
<1>8. Action(e) = IF IsBaseSecurity(e) THEN mandated
                  ELSE IF m # NoRule /\ m.exempt /\ exempt THEN "ALLOW"
                  ELSE IF case.request = NoRequest THEN mandated
                  ELSE MostRestrictive(mandated, case.request)
  BY <1>1 DEF Action, ResolveOne, ActionFor, Enabled, m, destination
<1>9. case.request \in Actions \cup {NoRequest}
  BY DEF SInv, CutOnce, Askable
<1>10. \A r \in there : r.over[destination] \in Actions
  BY <1>5, RuleTypes
<1>11. \A r \in rules : r.action \in Actions
  BY <1>5, RuleTypes
<1> HIDE DEF mandated, exempt, there
<1>12. ASSUME NEW act \in Actions, Priority[act] >= Priority[mandated]
       PROVE  \A a \in demands : Priority[act] >= Priority[a]
  <2>1. Priority[act] \in Int /\ Priority[mandated] \in Int
    BY <1>7, Stricter
  <2>2. ASSUME NEW r \in there, there # {} PROVE Priority[act] >= Priority[r.over[destination]]
    <3>1. Priority[r.over[destination]] \in Int
      BY <1>10, Stricter
    <3>2. QED
      BY <1>7, <1>12, <2>1, <3>1
  <2>3. ASSUME NEW r \in rules, there = {} PROVE Priority[act] >= Priority[r.action]
    <3>1. Priority[r.action] \in Int
      BY <1>11, Stricter
    <3>2. QED
      BY <1>7, <1>12, <2>1, <2>3, <3>1
  <2>4. QED
    BY <2>2, <2>3
<1>13. \A r \in there : r \in rules /\ destination \in DOMAIN r.over
  BY DEF there
<1>14. ASSUME e.type \in BaseTypes
       PROVE  Priority[mandated] >= Priority["REDACT"] \/ \E r \in rules : r.approved
  <2> SUFFICES ASSUME \A r \in rules : ~r.approved
               PROVE  Priority[mandated] >= Priority["REDACT"]
    OBVIOUS
  <2>1. Priority["REDACT"] \in Int /\ Priority[mandated] \in Int
    BY <1>7, Stricter DEF Actions
  <2>2. CASE there = {}
    <3>1. PICK r \in rules : Priority[r.action] >= Priority["REDACT"]
      BY <1>5, <1>6, <1>14 DEF ValidRule
    <3>2. Priority[mandated] >= Priority[r.action] /\ Priority[r.action] \in Int
      BY <1>7, <1>11, <2>2, Stricter
    <3>3. QED
      BY <2>1, <3>1, <3>2
  <2>3. CASE there # {}
    <3>1. PICK r \in there : Priority[r.over[destination]] >= Priority["REDACT"]
      BY <1>6, <1>13, <1>14, <2>3 DEF ValidRule
    <3>2. Priority[mandated] >= Priority[r.over[destination]] /\ Priority[r.over[destination]] \in Int
      BY <1>7, <1>10, Stricter
    <3>3. QED
      BY <2>1, <3>1, <3>2
  <2>4. QED
    BY <2>2, <2>3
<1> HIDE DEF demands
<1>15. CASE Action(e) = mandated /\ IsBaseSecurity(e)
  <2>1. \A a \in demands : Priority[mandated] >= Priority[a]
    BY <1>7, <1>12, Stricter
  <2>2. QED
    BY <1>14, <1>15, <2>1 DEF demands, there, rules, destination
<1>16. CASE ~IsBaseSecurity(e) /\ m # NoRule /\ m.exempt /\ exempt
  <2>1. Action(e) = "ALLOW" /\ \E r \in rules : r.exempt
    BY <1>5, <1>8, <1>16
  <2>2. QED
    BY <1>16, <2>1 DEF exempt, rules
<1>17. CASE ~IsBaseSecurity(e) /\ ~(m # NoRule /\ m.exempt /\ exempt)
  <2>1. e.type \notin BaseTypes
    BY <1>17 DEF IsBaseSecurity
  <2>2. Action(e) \in Actions /\ Priority[Action(e)] >= Priority[mandated]
    BY <1>7, <1>8, <1>9, <1>17, Stricter
  <2>3. \A a \in demands : Priority[Action(e)] >= Priority[a]
    BY <1>12, <2>2
  <2>4. QED
    BY <2>1, <2>3 DEF demands, there, rules, destination
<1>18. QED
  BY <1>8, <1>15, <1>16, <1>17

(***************************************************************************)
(* Along whatever chain of profiles, an entity gets at least what each of  *)
(* them says, and a credential at least REDACT without an approved         *)
(* exception (core/profile_resolver.py, _merge_rule, _resolve;             *)
(* core/policy.py, resolve_actions).                                       *)
(***************************************************************************)
THEOREM StrictestAlwaysWins == Spec => []StrictestWins
<1>1. SInv => StrictestWins
  BY EntityIsActedOn DEF StrictestWins
<1>2. QED
  BY <1>1, AlwaysSettled, PTL
-----------------------------------------------------------------------------
(* Tokens. *)

\* The two dictionaries of the vault.
Vaulted == vault = [table \in {"forward", "seen"} |-> vault[table]] /\ torn \in 0..2

\* Until the teardown begins the first dictionary has all that the second has.
SeenIsForward ==
    torn = 0 => \A v \in DOMAIN vault.seen :
        vault.seen[v] \in DOMAIN vault.forward /\ vault.forward[vault.seen[v]] = v

\* A token being made is for the value the call is at, which had none.
MintingIsDue ==
    minting # None =>
        /\ Tokenizing(Head(todo)) /\ minting.value = ValueOf(Head(todo))
        /\ minting.value \notin DOMAIN vault.seen
        /\ torn = 0 => minting.token \in DOMAIN vault.forward
                       /\ vault.forward[minting.token] = minting.value

\* Tokens given out are in the first dictionary until it is cleared, and in the
\* second until that is; only ClearSeen forgets.
GivenIsKept ==
    \A g \in given :
        /\ g.torn \in 0..torn
        /\ torn = 0 => g.token \in DOMAIN vault.forward /\ vault.forward[g.token] = g.value
        /\ torn < 2 \/ g.torn = 2 => g.value \in DOMAIN vault.seen /\ vault.seen[g.value] = g.token

\* One value has one token among those given after as much teardown.
OneToken == \A g, h \in given : g.torn = h.torn /\ g.value = h.value => g.token = h.token

VInv == Vaulted /\ SeenIsForward /\ MintingIsDue /\ GivenIsKept /\ OneToken

\* A token that is made can be told from none.
LEMMA TokenIsNoMark == \A token \in Tokens : \A value : [value |-> value, token |-> token] # None
BY DataPathAssumption DEF None, Mark

LEMMA InitVault == Init => VInv
BY DEF Init, VInv, Vaulted, SeenIsForward, MintingIsDue, GivenIsKept, OneToken

\* What is about the vault does not change with the rest.
LEMMA VaultUntouched ==
    ASSUME VInv, UNCHANGED <<vault, minting, given, torn>>,
           minting # None => UNCHANGED <<case, stage, profile, todo, out>>
    PROVE  VInv'
<1>1. Vaulted' /\ SeenIsForward' /\ GivenIsKept' /\ OneToken'
  BY DEF VInv, Vaulted, SeenIsForward, GivenIsKept, OneToken
<1>2. MintingIsDue'
  <2> SUFFICES ASSUME minting # None PROVE MintingIsDue'
    BY DEF MintingIsDue
  <2>1. UNCHANGED <<case, stage, profile, todo, out>>
    OBVIOUS
  <2>2. ValueOf(Head(todo))' = ValueOf(Head(todo))
    BY <2>1 DEF ValueOf, Text
  <2>3. Tokenizing(Head(todo))' = Tokenizing(Head(todo))
    BY <2>1 DEF Tokenizing, Outside, WantsToken, Action
  <2>4. QED
    BY <2>2, <2>3 DEF VInv, MintingIsDue
<1>3. QED
  BY <1>1, <1>2 DEF VInv

\* A token is handed out for the value the call is at.
LEMMA GiveKeeps ==
    ASSUME VInv, NEW value, NEW token, torn' = torn, minting' = None, Vaulted',
           given' = given \cup {[value |-> value, token |-> token, torn |-> torn]},
           vault'.forward = vault.forward,
           value \in DOMAIN vault'.seen, vault'.seen[value] = token,
           DOMAIN vault'.seen = DOMAIN vault.seen \cup {value},
           \A v \in DOMAIN vault.seen : vault'.seen[v] = vault.seen[v],
           torn = 0 => token \in DOMAIN vault.forward /\ vault.forward[token] = value
    PROVE  VInv'
<1>1. SeenIsForward'
  BY DEF VInv, SeenIsForward
<1>2. MintingIsDue'
  BY DEF MintingIsDue, None
<1>3. GivenIsKept'
  <2> SUFFICES ASSUME NEW g \in given'
               PROVE  /\ g.torn \in 0..torn
                      /\ torn = 0 => g.token \in DOMAIN vault.forward
                                     /\ vault.forward[g.token] = g.value
                      /\ torn < 2 \/ g.torn = 2 =>
                            g.value \in DOMAIN vault'.seen /\ vault'.seen[g.value] = g.token
    BY DEF GivenIsKept
  <2>1. CASE g \in given
    BY <2>1 DEF VInv, GivenIsKept
  <2>2. CASE g = [value |-> value, token |-> token, torn |-> torn]
    BY <2>2 DEF VInv, Vaulted
  <2>3. QED
    BY <2>1, <2>2
<1>4. OneToken'
  <2> SUFFICES ASSUME NEW g \in given', NEW h \in given', g.torn = h.torn, g.value = h.value
               PROVE  g.token = h.token
    BY DEF OneToken
  <2>1. \A e \in given' : e.torn = torn => e.value \in DOMAIN vault'.seen
                                          /\ vault'.seen[e.value] = e.token
    BY <1>3 DEF GivenIsKept, Vaulted
  <2>2. g.torn = torn => g.token = h.token
    BY <2>1
  <2>3. g.torn # torn => g \in given /\ h \in given
    OBVIOUS
  <2>4. QED
    BY <2>2, <2>3 DEF VInv, OneToken
<1>5. QED
  BY <1>1, <1>2, <1>3, <1>4 DEF VInv

LEMMA ReuseKeeps == ASSUME VInv, Reuse PROVE VInv'
<1> DEFINE value == ValueOf(Head(todo))
<1>1. /\ value \in DOMAIN vault.seen /\ minting = None
      /\ UNCHANGED <<vault, minting, torn>>
      /\ given' = given \cup {[value |-> value, token |-> vault.seen[value], torn |-> torn]}
  BY DEF Reuse, Give
<1>2. Vaulted'
  BY <1>1 DEF VInv, Vaulted
<1>3. torn = 0 => vault.seen[value] \in DOMAIN vault.forward
                  /\ vault.forward[vault.seen[value]] = value
  BY <1>1 DEF VInv, SeenIsForward
<1> HIDE DEF value
<1>4. QED
  BY <1>1, <1>2, <1>3, GiveKeeps

LEMMA MintKeeps == ASSUME VInv, Mint PROVE VInv'
<1> DEFINE value == ValueOf(Head(todo))
<1>1. PICK token \in Tokens \ DOMAIN vault.forward :
         /\ minting' = [value |-> value, token |-> token]
         /\ vault' = [vault EXCEPT !.forward = Put(@, token, value)]
  BY DEF Mint
<1>2. /\ value \notin DOMAIN vault.seen /\ Tokenizing(Head(todo))
      /\ UNCHANGED <<case, stage, profile, todo, out, given, torn>>
  BY DEF Mint
<1>3. ValueOf(Head(todo))' = value /\ Tokenizing(Head(todo))' = Tokenizing(Head(todo))
  BY <1>2 DEF ValueOf, Text, Tokenizing, Outside, WantsToken, Action
<1> HIDE DEF value
<1>4. /\ Vaulted' /\ vault'.seen = vault.seen
      /\ vault'.forward = Put(vault.forward, token, value)
  BY <1>1, <1>2 DEF VInv, Vaulted
<1>5. /\ DOMAIN vault'.forward = DOMAIN vault.forward \cup {token}
      /\ vault'.forward[token] = value
      /\ \A t \in DOMAIN vault.forward : vault'.forward[t] = vault.forward[t]
  BY <1>1, <1>4 DEF Put
<1>6. SeenIsForward'
  BY <1>2, <1>4, <1>5 DEF VInv, SeenIsForward
<1>7. MintingIsDue'
  BY <1>1, <1>2, <1>3, <1>4, <1>5 DEF MintingIsDue
<1>8. GivenIsKept' /\ OneToken'
  BY <1>2, <1>4, <1>5 DEF VInv, GivenIsKept, OneToken
<1>9. QED
  BY <1>4, <1>6, <1>7, <1>8 DEF VInv

LEMMA RememberKeeps == ASSUME VInv, Remember PROVE VInv'
<1> DEFINE value == minting.value
           token == minting.token
<1>1. /\ minting # None /\ minting' = None /\ torn' = torn
      /\ vault' = [vault EXCEPT !.seen = Put(@, value, token)]
  BY DEF Remember, Give
<1>2. /\ value = ValueOf(Head(todo)) /\ value \notin DOMAIN vault.seen
      /\ torn = 0 => token \in DOMAIN vault.forward /\ vault.forward[token] = value
  BY <1>1 DEF VInv, MintingIsDue
<1>3. given' = given \cup {[value |-> value, token |-> token, torn |-> torn]}
  BY <1>2 DEF Remember, Give
<1> HIDE DEF value, token
<1>4. /\ Vaulted' /\ vault'.forward = vault.forward
      /\ vault'.seen = Put(vault.seen, value, token)
  BY <1>1 DEF VInv, Vaulted
<1>5. /\ DOMAIN vault'.seen = DOMAIN vault.seen \cup {value}
      /\ vault'.seen[value] = token
      /\ \A v \in DOMAIN vault.seen : vault'.seen[v] = vault.seen[v]
  BY <1>2, <1>4 DEF Put
<1>6. QED
  BY <1>1, <1>2, <1>3, <1>4, <1>5, GiveKeeps

LEMMA ClearKeeps == ASSUME VInv, ClearForward \/ ClearSeen PROVE VInv'
<1>1. /\ UNCHANGED <<case, stage, profile, todo, out, minting, given>>
      /\ ValueOf(Head(todo))' = ValueOf(Head(todo))
      /\ Tokenizing(Head(todo))' = Tokenizing(Head(todo))
  BY DEF ClearForward, ClearSeen, ValueOf, Text, Tokenizing, Outside, WantsToken, Action
<1>2. CASE ClearForward
  <2>1. torn = 0 /\ torn' = 1 /\ Vaulted' /\ vault'.seen = vault.seen
    BY <1>2 DEF ClearForward, VInv, Vaulted
  <2>2. QED
    BY <1>1, <2>1 DEF VInv, SeenIsForward, MintingIsDue, GivenIsKept, OneToken
<1>3. CASE ClearSeen
  <2>1. torn = 1 /\ torn' = 2 /\ Vaulted' /\ vault'.seen = <<>>
    BY <1>3 DEF ClearSeen, VInv, Vaulted
  <2>2. \A g \in given : g.torn \in 0..1
    BY <2>1 DEF VInv, GivenIsKept
  <2>3. GivenIsKept'
    BY <1>1, <2>1, <2>2 DEF GivenIsKept
  <2>4. SeenIsForward' /\ OneToken' /\ MintingIsDue'
    BY <1>1, <2>1 DEF VInv, SeenIsForward, MintingIsDue, OneToken
  <2>5. QED
    BY <2>1, <2>3, <2>4 DEF VInv
<1>4. QED
  BY <1>2, <1>3

LEMMA VaultStep == VInv /\ [Next]_vars => VInv'
<1> SUFFICES ASSUME VInv, [Next]_vars PROVE VInv'
  OBVIOUS
<1>1. CASE Cut \/ Detect \/ Settle \/ Decide \/ Apply \/ Finish \/ UNCHANGED vars
  <2>1. UNCHANGED <<vault, minting, given, torn>>
    BY <1>1 DEF Cut, Detect, Settle, Decide, Apply, Finish, vars
  <2>2. minting # None => UNCHANGED vars
    BY <1>1 DEF Cut, Detect, Settle, Decide, Apply, Finish, VInv, MintingIsDue, Tokenizing
  <2>3. QED
    BY <2>1, <2>2, VaultUntouched DEF vars
<1>2. QED
  BY <1>1, ReuseKeeps, MintKeeps, RememberKeeps, ClearKeeps DEF Next, Done

(***************************************************************************)
(* However a teardown of the session comes between the steps of            *)
(* tokenize(), two values never share a token before it begins, and one    *)
(* value never has two tokens from the same phase of it, for any document, *)
(* findings, profiles and set of surrogates (token_vault.py, tokenize,     *)
(* _mint_surrogate, clear).                                                *)
(***************************************************************************)
THEOREM TokensAreOneToOne == Spec => []TokensConsistent
<1>1. VInv => TokensConsistent
  BY DEF VInv, GivenIsKept, OneToken, TokensConsistent
<1>2. QED
  BY <1>1, InitVault, VaultStep, PTL DEF Spec

-----------------------------------------------------------------------------
(* What is left of the text. *)

Hit(D, i) == \E e \in D : e.start <= i /\ i < e.end

\* A text of that length after the spans of D were acted on: up to b it is as it
\* was, what is left stands in its order, and only D is gone.
Cleared(length, o, D, b) ==
    /\ o \in Seq(Int) /\ b \in 0..length /\ b <= Len(o)
    /\ \A p \in 1..b : o[p] = p - 1
    /\ \A p, q \in 1..Len(o) : p < q /\ o[q] >= 0 => o[p] < o[q]
    /\ \A p \in 1..Len(o) : o[p] >= 0 => o[p] < length /\ ~Hit(D, o[p])
    /\ \A i \in 0..(length - 1) : ~Hit(D, i) => \E p \in 1..Len(o) : o[p] = i

\* A text in which w characters stand for those from s to t.
Spliced(r, o, s, t, w) ==
    /\ r \in Seq(Int) /\ Len(r) = s + w + (Len(o) - t)
    /\ \A p \in 1..s : r[p] = o[p]
    /\ \A p \in (s + 1)..(s + w) : r[p] < 0
    /\ \A p \in (s + w + 1)..(s + w + (Len(o) - t)) : r[p] = o[p - (s + w) + t]

\* What slicing and concatenation make of a text (apply_decisions).
LEMMA SpliceIs ==
    ASSUME NEW o \in Seq(Int), NEW s \in Nat, NEW t \in Nat, s <= t, t <= Len(o),
           NEW items \in Seq(Int), \A i \in 1..Len(items) : items[i] < 0
    PROVE  Spliced(SubSeq(o, 1, s) \o items \o SubSeq(o, t + 1, Len(o)), o, s, t, Len(items))
<1> DEFINE w == Len(items)
           n == Len(o)
           A == SubSeq(o, 1, s)
           B == SubSeq(o, t + 1, n)
           C == A \o items
           r == C \o B
<1>1. n \in Nat /\ w \in Nat /\ t <= n
  OBVIOUS
<1>2. \A p \in 1..n : o[p] \in Int
  BY ElementOfSeq
<1> HIDE DEF w, n
<1>3. A \in Seq(Int) /\ Len(A) = s /\ \A p \in 1..s : A[p] = o[p]
  <2>1. /\ 1 \in Int /\ s \in Int /\ \A i \in 1..s : o[i] \in Int
    BY <1>1, <1>2
  <2>2. /\ A \in Seq(Int) /\ Len(A) = IF 1 <= s THEN s - 1 + 1 ELSE 0
        /\ \A i \in 1..(s - 1 + 1) : A[i] = o[1 + i - 1]
    BY <2>1, SubSeqProperties
  <2> HIDE DEF A
  <2>3. QED
    BY <1>1, <2>2
<1>4. B \in Seq(Int) /\ Len(B) = n - t /\ \A p \in 1..(n - t) : B[p] = o[p + t]
  <2>1. /\ t + 1 \in Int /\ n \in Int /\ \A i \in (t + 1)..n : o[i] \in Int
    BY <1>1, <1>2
  <2>2. /\ B \in Seq(Int) /\ Len(B) = IF t + 1 <= n THEN n - (t + 1) + 1 ELSE 0
        /\ \A i \in 1..(n - (t + 1) + 1) : B[i] = o[(t + 1) + i - 1]
    BY <2>1, SubSeqProperties
  <2> HIDE DEF B
  <2>3. n - (t + 1) + 1 = n - t /\ \A i \in 1..(n - t) : (t + 1) + i - 1 = i + t
    BY <1>1
  <2>4. QED
    BY <1>1, <2>2, <2>3
<1> HIDE DEF A, B
<1>5. /\ C \in Seq(Int) /\ Len(C) = s + w
      /\ \A i \in 1..(s + w) : C[i] = IF i <= s THEN A[i] ELSE items[i - s]
  BY <1>3, ConcatProperties, ZenonT(40) DEF w
<1> HIDE DEF C
<1>6. /\ r \in Seq(Int) /\ Len(r) = (s + w) + (n - t)
      /\ \A i \in 1..((s + w) + (n - t)) : r[i] = IF i <= s + w THEN C[i] ELSE B[i - (s + w)]
  <2>1. /\ r \in Seq(Int) /\ Len(r) = Len(C) + Len(B)
        /\ \A i \in 1..(Len(C) + Len(B)) : r[i] = IF i <= Len(C) THEN C[i] ELSE B[i - Len(C)]
    BY <1>4, <1>5, ConcatProperties
  <2> HIDE DEF r
  <2>2. QED
    BY <1>4, <1>5, <2>1
<1> HIDE DEF r
<1>7. ASSUME NEW p \in 1..s PROVE r[p] = o[p]
  <2>1. p \in 1..(s + w) /\ p \in 1..((s + w) + (n - t)) /\ p <= s + w /\ p <= s
    BY <1>1
  <2>2. QED
    BY <1>3, <1>5, <1>6, <2>1
<1>8. ASSUME NEW p \in (s + 1)..(s + w) PROVE r[p] < 0
  <2>1. p \in 1..(s + w) /\ p \in 1..((s + w) + (n - t)) /\ p <= s + w /\ ~(p <= s)
    BY <1>1
  <2>2. r[p] = items[p - s]
    BY <1>5, <1>6, <2>1
  <2>3. p - s \in 1..w
    BY <1>1
  <2>4. QED
    BY <2>2, <2>3 DEF w
<1>9. ASSUME NEW p \in (s + w + 1)..(s + w + (n - t)) PROVE r[p] = o[p - (s + w) + t]
  <2>1. /\ p \in 1..((s + w) + (n - t)) /\ ~(p <= s + w) /\ p - (s + w) \in 1..(n - t)
    BY <1>1
  <2>2. r[p] = B[p - (s + w)]
    BY <1>6, <2>1
  <2>3. QED
    BY <1>4, <2>1, <2>2
<1>10. Len(r) = s + w + (n - t)
  BY <1>1, <1>6
<1>11. Spliced(r, o, s, t, w)
  BY <1>6, <1>7, <1>8, <1>9, <1>10 DEF Spliced, n
<1>12. QED
  BY <1>11 DEF r, C, A, B, n, w

\* Replacing a span of what is untouched removes it and nothing else.
LEMMA SpliceClears ==
    ASSUME NEW length \in Nat, NEW o, NEW D, NEW b, Cleared(length, o, D, b),
           NEW e, Within(e, length), e.end <= b,
           NEW w \in Nat, NEW r, Spliced(r, o, e.start, e.end, w)
    PROVE  Cleared(length, r, D \cup {e}, e.start)
<1> DEFINE s == e.start
           t == e.end
           n == Len(o)
<1>1. o \in Seq(Int) /\ b \in Nat /\ b <= n /\ b <= length
  BY DEF Cleared
<1>2. /\ n \in Nat /\ b \in Nat /\ b <= n /\ b <= length
      /\ s \in Nat /\ t \in Nat /\ s < t /\ t <= b
      /\ \A p \in 1..n : o[p] \in Int
  BY <1>1, ElementOfSeq DEF Within
<1>3. /\ \A p \in 1..b : o[p] = p - 1
      /\ \A p, q \in 1..n : p < q /\ o[q] >= 0 => o[p] < o[q]
      /\ \A p \in 1..n : o[p] >= 0 => o[p] < length /\ ~Hit(D, o[p])
      /\ \A i \in 0..(length - 1) : ~Hit(D, i) => \E p \in 1..n : o[p] = i
  BY DEF Cleared
<1>4. /\ r \in Seq(Int) /\ Len(r) = s + w + (n - t)
      /\ \A p \in 1..s : r[p] = o[p]
      /\ \A p \in (s + 1)..(s + w) : r[p] < 0
      /\ \A p \in (s + w + 1)..(s + w + (n - t)) : r[p] = o[p - (s + w) + t]
  BY DEF Spliced
<1> HIDE DEF s, t, n
<1> DEFINE m == s + w + (n - t)
           Back(p) == p - (s + w) + t
<1>5. \A p \in 1..m : r[p] \in Int
  <2>1. Len(r) = m
    BY <1>4
  <2> HIDE DEF m
  <2>2. QED
    BY <1>4, <2>1, ElementOfSeq
<1>6. ASSUME NEW p \in 1..m, r[p] >= 0
      PROVE  \/ p \in 1..s /\ r[p] = o[p] /\ p \in 1..n
             \/ p \in (s + w + 1)..m /\ r[p] = o[Back(p)] /\ Back(p) \in (t + 1)..n
  <2>1. p \in 1..s \/ p \in (s + 1)..(s + w) \/ p \in (s + w + 1)..m
    BY <1>2
  <2>2. p \in 1..s => p \in 1..n
    BY <1>2
  <2>3. p \in (s + w + 1)..m => Back(p) \in (t + 1)..n
    BY <1>2
  <2>4. p \in (s + 1)..(s + w) => r[p] < 0 /\ r[p] \in Int
    <3>1. r[p] \in Int
      BY <1>5
    <3>2. QED
      BY <1>4, <3>1
  <2>5. QED
    BY <1>4, <1>6, <2>1, <2>2, <2>3, <2>4
<1>7. ASSUME NEW p \in 1..m, NEW q \in 1..m, p < q, r[q] >= 0 PROVE r[p] < r[q]
  <2>1. CASE r[p] < 0
    BY <1>5, <1>7, <2>1
  <2>2. CASE r[p] >= 0
    <3>1. CASE q \in 1..s /\ r[q] = o[q] /\ q \in 1..n
      <4>1. p \in 1..s /\ p \in 1..n /\ r[p] = o[p]
        BY <1>2, <1>4, <1>7, <3>1
      <4>2. QED
        BY <1>3, <1>7, <3>1, <4>1
    <3>2. CASE q \in (s + w + 1)..m /\ r[q] = o[Back(q)] /\ Back(q) \in (t + 1)..n
      <4>1. PICK h \in 1..n : r[p] = o[h] /\ h < Back(q)
        <5>1. CASE p \in 1..s /\ r[p] = o[p] /\ p \in 1..n
          <6>1. p < Back(q)
            BY <1>2, <3>2, <5>1
          <6>2. QED
            BY <5>1, <6>1
        <5>2. CASE p \in (s + w + 1)..m /\ r[p] = o[Back(p)] /\ Back(p) \in (t + 1)..n
          <6>1. Back(p) \in 1..n /\ Back(p) < Back(q)
            BY <1>2, <1>7, <5>2
          <6>2. QED
            BY <5>2, <6>1
        <5>3. QED
          BY <1>6, <2>2, <5>1, <5>2
      <4>2. Back(q) \in 1..n
        BY <1>2, <3>2
      <4> HIDE DEF Back
      <4>3. QED
        BY <1>3, <1>7, <3>2, <4>1, <4>2
    <3>3. QED
      BY <1>6, <1>7, <3>1, <3>2
  <2>3. QED
    BY <1>5, <2>1, <2>2
<1>8. ASSUME NEW p \in 1..n, o[p] >= 0, s <= o[p], o[p] < t PROVE p \in (s + 1)..t
  <2>1. CASE p <= b
    <3>1. o[p] = p - 1
      BY <1>2, <1>3, <2>1
    <3>2. QED
      BY <1>2, <1>8, <3>1
  <2>2. CASE p > b
    <3>1. b \in 1..b /\ b \in 1..n /\ b < p
      BY <1>2, <2>2
    <3>2. o[b] = b - 1 /\ o[b] < o[p]
      BY <1>3, <1>8, <3>1
    <3>3. QED
      BY <1>2, <1>8, <3>2
  <2>3. QED
    BY <1>2, <2>1, <2>2
<1>9. \A i : Hit(D \cup {e}, i) <=> Hit(D, i) \/ (s <= i /\ i < t)
  BY DEF Hit, s, t
<1>10. ASSUME NEW p \in 1..m, r[p] >= 0 PROVE r[p] < length /\ ~Hit(D \cup {e}, r[p])
  <2>1. PICK h \in 1..n : r[p] = o[h] /\ h \notin (s + 1)..t
    <3>1. CASE p \in 1..s /\ r[p] = o[p] /\ p \in 1..n
      BY <1>2, <3>1
    <3>2. CASE p \in (s + w + 1)..m /\ r[p] = o[Back(p)] /\ Back(p) \in (t + 1)..n
      <4>1. Back(p) \in 1..n /\ Back(p) \notin (s + 1)..t
        BY <1>2, <3>2
      <4>2. QED
        BY <3>2, <4>1
    <3>3. QED
      BY <1>6, <1>10, <3>1, <3>2
  <2>2. o[h] >= 0
    BY <1>10, <2>1
  <2>3. ~(s <= o[h] /\ o[h] < t)
    BY <1>8, <2>1, <2>2
  <2>4. QED
    BY <1>3, <1>9, <2>1, <2>2, <2>3
<1>11. ASSUME NEW i \in 0..(length - 1), ~Hit(D \cup {e}, i) PROVE \E p \in 1..m : r[p] = i
  <2>1. ~Hit(D, i) /\ ~(s <= i /\ i < t)
    BY <1>9, <1>11
  <2>2. PICK h \in 1..n : o[h] = i
    BY <1>3, <2>1
  <2>3. CASE h <= s
    <3>1. h \in 1..s /\ h \in 1..m
      BY <1>2, <2>3
    <3>2. QED
      BY <1>4, <2>2, <3>1
  <2>4. CASE h > s /\ h <= t
    <3>1. h \in 1..b /\ o[h] = h - 1
      BY <1>2, <1>3, <2>4
    <3>2. QED
      BY <1>2, <2>1, <2>2, <2>4, <3>1
  <2>5. CASE h > t
    <3> DEFINE p == h - t + (s + w)
    <3>1. p \in (s + w + 1)..m /\ p \in 1..m /\ p - (s + w) + t = h
      BY <1>2, <2>5
    <3> HIDE DEF p
    <3>2. r[p] = o[h]
      BY <1>4, <3>1
    <3>3. QED
      BY <2>2, <3>1, <3>2
  <2>6. QED
    BY <1>2, <2>3, <2>4, <2>5
<1>12. Len(r) = m /\ s <= m /\ s \in 0..length
  BY <1>2, <1>4
<1>13. \A p \in 1..s : r[p] = p - 1
  <2>1. \A p \in 1..s : p \in 1..b
    BY <1>2
  <2>2. QED
    BY <1>3, <1>4, <2>1
<1> HIDE DEF m
<1>14. Cleared(length, r, D \cup {e}, s)
  BY <1>4, <1>7, <1>10, <1>11, <1>12, <1>13 DEF Cleared
<1>15. QED
  BY <1>14 DEF s

Acted == {e \in entities : Action(e) # "ALLOW"}
ActedApart == \A e, f \in Acted : e # f => ~Overlaps(e, f)

\* Tokens are from the set they are drawn from.
VaultTokens ==
    /\ \A v \in DOMAIN vault.seen : vault.seen[v] \in Tokens
    /\ minting # None => minting.token \in Tokens

\* While decisions are applied the rest of them lies within what is untouched.
Clearing ==
    /\ todo \in Seq(Acted)
    /\ \A i, j \in 1..Len(todo) : i < j => todo[i] # todo[j] /\ ~ActsBefore(todo[j], todo[i])
    /\ \E b \in 0..Len(Text) :
          /\ Cleared(Len(Text), out, Acted \ Range(todo), b)
          /\ \A e \in Range(todo) : e.end <= b

InStep ==
    /\ stage \in {"resolve", "detect", "settle", "decide"} => out = Offsets(Text)
    /\ stage \in {"apply", "done"} /\ ActedApart => Clearing
    /\ stage = "done" => todo = <<>>

RInv == SInv /\ VInv /\ VaultTokens /\ InStep

\* What is acted on are spans of the document.
LEMMA ActedAre ==
    ASSUME SInv
    PROVE  /\ Acted \in SUBSET Findings(Len(Text)) /\ IsFiniteSet(Acted) /\ Len(Text) \in Nat
           /\ \A e \in Acted : Within(e, Len(Text)) /\ NameOrder[e.type] \in Int
<1>1. entities \in SUBSET Findings(Len(Text)) /\ IsFiniteSet(entities)
  BY DEF SInv, FoundAndSettled, Proper
<1>2. Len(Text) \in Nat
  BY DEF SInv, CutOnce, Askable, Text
<1>3. Acted \in SUBSET Findings(Len(Text)) /\ IsFiniteSet(Acted)
  BY <1>1, FS_Subset DEF Acted
<1>4. \A e \in Acted : Within(e, Len(Text)) /\ NameOrder[e.type] \in Int
  BY <1>2, <1>3, FindingIs, SpansAssumption DEF Within
<1>5. QED
  BY <1>2, <1>3, <1>4

\* Decisions have an order (DecisionSet.actionable).
LEMMA ActsBeforeOrder ==
    ASSUME SInv
    PROVE  StrictOrder(Acted, {p \in Acted \X Acted : ActsBefore(p[1], p[2])})
<1> DEFINE before == {p \in Acted \X Acted : ActsBefore(p[1], p[2])}
<1>1. \A e, f \in Acted : <<e, f>> \in before <=> ActsBefore(e, f)
  OBVIOUS
<1>2. \A e \in Acted : e.start \in Int /\ e.end \in Int /\ NameOrder[e.type] \in Int
  BY ActedAre DEF Within
<1> HIDE DEF before
<1>3. \A e \in Acted : ~ActsBefore(e, e)
  BY <1>2 DEF ActsBefore
<1>4. \A e, f, g \in Acted : ActsBefore(e, f) /\ ActsBefore(f, g) => ActsBefore(e, g)
  BY <1>2 DEF ActsBefore, SameSpan
<1>5. QED
  BY <1>1, <1>3, <1>4 DEF StrictOrder, before

\* Nothing is gone of a text nothing was done to.
LEMMA NothingCleared ==
    ASSUME NEW text, Len(text) \in Nat
    PROVE  Cleared(Len(text), Offsets(text), {}, Len(text))
<1> DEFINE n == Len(text)
           o == Offsets(text)
<1>1. o = [i \in 1..n |-> i - 1]
  BY DEF Offsets
<1> HIDE DEF o
<1>2. o \in Seq(Int) /\ Len(o) = n /\ \A i \in 1..n : o[i] = i - 1
  BY <1>1
<1>3. \A i \in 0..(n - 1) : i + 1 \in 1..n /\ o[i + 1] = i
  BY <1>2
<1>4. QED
  BY <1>2, <1>3 DEF Cleared, Hit, o

\* Before the first replacement everything is untouched.
LEMMA DecideClears == ASSUME RInv, Decide PROVE InStep'
<1>1. /\ stage = "decide" /\ out = Offsets(Text)
      /\ UNCHANGED <<case, k, profile, chunks, found, entities, out, vault, minting, given, torn>>
      /\ \/ stage' = "refused"
         \/ /\ stage' = "apply"
            /\ todo' = InOrder(Acted, {p \in Acted \X Acted : ActsBefore(p[1], p[2])})
  <2>1. stage = "decide"
    BY DEF Decide
  <2>2. out = Offsets(Text)
    BY <2>1 DEF RInv, InStep
  <2>3. UNCHANGED <<case, k, profile, chunks, found, entities, out, vault, minting, given, torn>>
    BY DEF Decide
  <2>4. CASE NeedsDestination(profile.rules, entities, case.destination)
             \/ \E e \in entities : Action(e) = "BLOCK"
    BY <2>1, <2>2, <2>3, <2>4 DEF Decide
  <2>5. CASE ~(NeedsDestination(profile.rules, entities, case.destination)
               \/ \E e \in entities : Action(e) = "BLOCK")
    <3>1. /\ stage' = "apply"
          /\ todo' = InOrder(Acted, {p \in Acted \X Acted : ActsBefore(p[1], p[2])})
      BY <2>5 DEF Decide, Acted
    <3>2. QED
      BY <2>1, <2>2, <2>3, <3>1
  <2>6. QED
    BY <2>4, <2>5
<1>2. CASE stage' = "refused"
  BY <1>2 DEF InStep
<1>3. CASE stage' = "apply" /\ todo' = InOrder(Acted, {p \in Acted \X Acted : ActsBefore(p[1], p[2])})
  <2> DEFINE before == {p \in Acted \X Acted : ActsBefore(p[1], p[2])}
  <2>1. \A e, f \in Acted : <<e, f>> \in before <=> ActsBefore(e, f)
    OBVIOUS
  <2>2. StrictOrder(Acted, before) /\ IsFiniteSet(Acted) /\ todo' = InOrder(Acted, before)
    BY <1>3, ActsBeforeOrder, ActedAre DEF RInv
  <2> HIDE DEF before
  <2>3. /\ todo' \in Seq(Acted) /\ Range(todo') = Acted
        /\ \A i, j \in DOMAIN todo' : i < j => <<todo'[j], todo'[i]>> \notin before
        /\ \A i, j \in DOMAIN todo' : todo'[i] = todo'[j] => i = j
    BY <2>2, InOrderIs
  <2>4. DOMAIN todo' = 1..Len(todo') /\ \A i \in 1..Len(todo') : todo'[i] \in Acted
    BY <2>3
  <2>5. \A i, j \in 1..Len(todo') :
           i < j => todo'[i] # todo'[j] /\ ~ActsBefore(todo'[j], todo'[i])
    <3> SUFFICES ASSUME NEW i \in 1..Len(todo'), NEW j \in 1..Len(todo'), i < j
                 PROVE  todo'[i] # todo'[j] /\ ~ActsBefore(todo'[j], todo'[i])
      OBVIOUS
    <3>1. i \in DOMAIN todo' /\ j \in DOMAIN todo' /\ i # j
      BY <2>4
    <3>2. todo'[i] # todo'[j] /\ <<todo'[j], todo'[i]>> \notin before
      BY <2>3, <3>1
    <3>3. todo'[i] \in Acted /\ todo'[j] \in Acted
      BY <2>4
    <3>4. QED
      BY <2>1, <3>2, <3>3
  <2>6. /\ Text' = Text /\ Acted' = Acted
        /\ \A e, f : ActsBefore(e, f)' = ActsBefore(e, f)
    BY <1>1 DEF Text, Acted, Action, ActsBefore
  <2>7. Cleared(Len(Text), out', Acted \ Range(todo'), Len(Text))
    <3>1. Len(Text) \in Nat /\ out' = Offsets(Text)
      BY <1>1, ActedAre DEF RInv
    <3>2. Acted \ Range(todo') = {}
      BY <2>3
    <3>3. QED
      BY <3>1, <3>2, NothingCleared
  <2>8. Len(Text) \in 0..Len(Text) /\ \A e \in Acted : e.end <= Len(Text)
    BY ActedAre DEF RInv, Within
  <2>9. Clearing'
    BY <2>3, <2>5, <2>6, <2>7, <2>8 DEF Clearing
  <2>10. QED
    BY <1>3, <2>9 DEF InStep
<1>4. QED
  BY <1>1, <1>2, <1>3

\* Where acted entities lie apart, the one whose turn it is lies within what is
\* untouched.
LEMMA HeadIsInside ==
    ASSUME SInv, Clearing, todo # <<>>
    PROVE  Head(todo) \in Acted /\ ~Outside(Head(todo))
<1>1. todo \in Seq(Acted) /\ Head(todo) \in Acted /\ Head(todo) \in Range(todo)
  <2>1. todo \in Seq(Acted)
    BY DEF Clearing
  <2>2. 1 \in DOMAIN todo /\ Head(todo) = todo[1] /\ todo[1] \in Acted
    BY <2>1
  <2>3. QED
    BY <2>1, <2>2 DEF Range
<1>2. PICK b \in 0..Len(Text) : Cleared(Len(Text), out, Acted \ Range(todo), b)
                                /\ Head(todo).end <= b
  BY <1>1 DEF Clearing
<1>3. Head(todo).end \in Int /\ b \in Int /\ b <= Len(out) /\ Len(out) \in Nat
  <2>1. out \in Seq(Int) /\ b <= Len(out)
    BY <1>2 DEF Cleared
  <2>2. Head(todo).end \in Int
    BY <1>1, ActedAre DEF Within
  <2>3. QED
    BY <1>2, <2>1, <2>2, ActedAre
<1>4. QED
  BY <1>1, <1>2, <1>3 DEF Outside

\* A replacement of the next span leaves the rest of the decisions in what is untouched.
LEMMA ReplaceKeeps ==
    ASSUME SInv, ActedApart, Clearing, todo # <<>>,
           UNCHANGED <<case, profile, entities>>,
           NEW items \in Seq(Int), \A i \in 1..Len(items) : items[i] < 0,
           Replace(Head(todo), items)
    PROVE  Clearing'
<1> DEFINE e == Head(todo)
           length == Len(Text)
           rest == Tail(todo)
<1>1. /\ todo \in Seq(Acted) /\ Len(todo) \in Nat \ {0}
      /\ \A i, j \in 1..Len(todo) :
            i < j => todo[i] # todo[j] /\ ~ActsBefore(todo[j], todo[i])
  BY DEF Clearing
<1>2. /\ e = todo[1] /\ e \in Acted /\ rest \in Seq(Acted) /\ Len(rest) = Len(todo) - 1
      /\ \A i \in 1..Len(rest) : rest[i] = todo[i + 1] /\ i + 1 \in 1..Len(todo)
      /\ 1 \in 1..Len(todo)
  BY <1>1, HeadTailProperties
<1>3. /\ todo' = rest
      /\ out' = SubSeq(out, 1, e.start) \o items \o SubSeq(out, e.end + 1, Len(out))
  BY DEF Replace
<1> HIDE DEF e, rest
<1>4. PICK b \in 0..length : /\ Cleared(length, out, Acted \ Range(todo), b)
                             /\ \A f \in Range(todo) : f.end <= b
  BY DEF Clearing
<1>5. /\ length \in Nat
      /\ \A f \in Acted : /\ Within(f, length) /\ f.start \in Nat /\ f.end \in Nat
                          /\ f.start < f.end
  BY ActedAre DEF Within
<1>6. /\ Range(todo) = {todo[i] : i \in 1..Len(todo)}
      /\ Range(rest) = {rest[i] : i \in 1..Len(rest)}
  <2>1. DOMAIN todo = 1..Len(todo) /\ DOMAIN rest = 1..Len(rest)
    BY <1>1, <1>2
  <2>2. QED
    BY <2>1 DEF Range
<1>7. e \in Range(todo) /\ e.end <= b
  BY <1>2, <1>4, <1>6
<1>8. ASSUME NEW f \in Range(rest) PROVE f \in Acted /\ f # e /\ f \in Range(todo) /\ f.end <= e.start
  <2>1. PICK i \in 1..Len(rest) : f = rest[i]
    BY <1>6
  <2>2. f = todo[i + 1] /\ i + 1 \in 1..Len(todo) /\ 1 < i + 1
    BY <1>2, <2>1
  <2>3. f # e /\ ~ActsBefore(f, e) /\ f \in Range(todo) /\ f \in Acted
    BY <1>1, <1>2, <1>6, <2>2
  <2>4. ~Overlaps(f, e)
    BY <1>2, <2>3 DEF ActedApart
  <2>5. f.end <= e.start
    BY <1>2, <1>5, <2>3, <2>4 DEF Overlaps, ActsBefore
  <2>6. QED
    BY <2>3, <2>5
<1>9. Acted \ Range(rest) = (Acted \ Range(todo)) \cup {e}
  <2>1. \A f \in Range(todo) : f = e \/ f \in Range(rest)
    <3> SUFFICES ASSUME NEW i \in 1..Len(todo), i # 1 PROVE todo[i] \in Range(rest)
      BY <1>2, <1>6
    <3>1. i - 1 \in 1..Len(rest) /\ (i - 1) + 1 = i
      BY <1>1, <1>2
    <3>2. rest[i - 1] = todo[i]
      BY <1>2, <3>1
    <3>3. QED
      BY <1>6, <3>1, <3>2
  <2>2. QED
    BY <1>2, <1>8, <2>1
<1>10. Cleared(length, out', Acted \ Range(rest), e.start)
  <2>1. out \in Seq(Int) /\ b <= Len(out)
    BY <1>4 DEF Cleared
  <2>2. /\ e.start \in Nat /\ e.end \in Nat /\ e.start <= e.end /\ e.end <= Len(out)
        /\ Within(e, length)
    <3>1. e.start \in Nat /\ e.end \in Nat /\ e.start < e.end /\ Within(e, length)
      BY <1>2, <1>5
    <3>2. Len(out) \in Nat /\ b \in Int
      BY <1>5, <2>1
    <3>3. QED
      BY <1>7, <2>1, <3>1, <3>2
  <2>3. Spliced(out', out, e.start, e.end, Len(items))
    BY <1>3, <2>1, <2>2, SpliceIs
  <2>4. Len(items) \in Nat
    OBVIOUS
  <2> DEFINE D == Acted \ Range(todo)
  <2>5. Acted \ Range(rest) = D \cup {e}
    BY <1>9
  <2>6. Cleared(length, out, D, b) /\ length \in Nat /\ e.end <= b
    BY <1>4, <1>5, <1>7
  <2> HIDE DEF length, D
  <2>7. Cleared(length, out', D \cup {e}, e.start)
    BY <2>2, <2>3, <2>4, <2>6, SpliceClears
  <2>8. QED
    BY <2>5, <2>7
<1>11. /\ Text' = Text /\ Acted' = Acted
       /\ \A f, g : ActsBefore(f, g)' = ActsBefore(f, g)
  BY DEF Text, Acted, Action, ActsBefore
<1>12. \A i, j \in 1..Len(rest) : i < j => rest[i] # rest[j] /\ ~ActsBefore(rest[j], rest[i])
  <2> SUFFICES ASSUME NEW i \in 1..Len(rest), NEW j \in 1..Len(rest), i < j
               PROVE  rest[i] # rest[j] /\ ~ActsBefore(rest[j], rest[i])
    OBVIOUS
  <2>1. i + 1 < j + 1
    OBVIOUS
  <2>2. QED
    BY <1>1, <1>2, <2>1
<1>13. e.start \in 0..length
  BY <1>2, <1>5 DEF Within
<1>14. QED
  BY <1>2, <1>3, <1>8, <1>10, <1>11, <1>12, <1>13 DEF Clearing

\* A mask or a label holds no character of the document.
LEMMA MarksAre ==
    ASSUME SInv, NEW e \in Acted
    PROVE  Marks(e) \in Seq(Int) /\ \A i \in 1..Len(Marks(e)) : Marks(e)[i] < 0
<1> DEFINE width == IF Action(e) # "MASK" THEN LabelWidth
                    ELSE IF Severity[e.type] = 3 THEN FixedMask ELSE e.end - e.start
<1>1. LabelWidth \in Nat /\ FixedMask \in Nat
  BY DataPathAssumption
<1>2. e.end - e.start \in Nat
  BY ActedAre DEF Within
<1>3. width \in Nat
  BY <1>1, <1>2
<1>4. Marks(e) = [i \in 1..width |-> Mark]
  BY DEF Marks
<1> HIDE DEF width
<1>5. Mark \in Int /\ Mark < 0
  BY DEF Mark
<1> HIDE DEF Mark
<1>6. QED
  BY <1>3, <1>4, <1>5

\* A token holds no character of the document.
LEMMA SurrogatesAre ==
    ASSUME NEW token \in Tokens
    PROVE  LET items == [i \in 1..LabelWidth |-> Surrogate(token)]
           IN items \in Seq(Int) /\ \A i \in 1..Len(items) : items[i] < 0
<1>1. token \in Nat /\ LabelWidth \in Nat
  BY DataPathAssumption
<1>2. Surrogate(token) \in Int /\ Surrogate(token) < 0
  BY <1>1 DEF Surrogate
<1> HIDE DEF Surrogate
<1>3. QED
  BY <1>1, <1>2

LEMMA ApplyClears == ASSUME RInv, Apply PROVE InStep'
<1> DEFINE e == Head(todo)
<1>1. /\ stage = "apply" /\ todo # <<>>
      /\ UNCHANGED <<case, stage, k, profile, chunks, found, entities, vault, minting, given, torn>>
      /\ Outside(e) \/ Replace(e, Marks(e))
  BY DEF Apply
<1>2. ActedApart' = ActedApart
  BY <1>1 DEF ActedApart, Acted, Action
<1> SUFFICES ASSUME ActedApart PROVE Clearing'
  BY <1>1, <1>2 DEF InStep
<1>3. SInv /\ Clearing
  BY <1>1 DEF RInv, InStep
<1>4. e \in Acted /\ ~Outside(e)
  BY <1>1, <1>3, HeadIsInside
<1>5. Marks(e) \in Seq(Int) /\ \A i \in 1..Len(Marks(e)) : Marks(e)[i] < 0
  BY <1>3, <1>4, MarksAre
<1>6. QED
  BY <1>1, <1>3, <1>4, <1>5, ReplaceKeeps

LEMMA GiveClears ==
    ASSUME RInv, NEW token \in Tokens, Give(Head(todo), token), stage = "apply", todo # <<>>,
           UNCHANGED <<case, stage, profile, entities>>
    PROVE  InStep'
<1>1. ActedApart' = ActedApart
  BY DEF ActedApart, Acted, Action
<1> SUFFICES ASSUME ActedApart PROVE Clearing'
  BY <1>1 DEF InStep
<1>2. SInv /\ Clearing
  BY DEF RInv, InStep
<1> DEFINE items == [i \in 1..LabelWidth |-> Surrogate(token)]
<1>3. items \in Seq(Int) /\ \A i \in 1..Len(items) : items[i] < 0
  BY SurrogatesAre
<1>4. Replace(Head(todo), items)
  BY DEF Give
<1> HIDE DEF items
<1>5. QED
  BY <1>2, <1>3, <1>4, ReplaceKeeps

LEMMA InStepUntouched ==
    ASSUME InStep, UNCHANGED <<case, profile, entities, out, todo>>,
           \/ stage' = stage
           \/ stage = "apply" /\ stage' = "done" /\ todo = <<>>
    PROVE  InStep'
<1>1. /\ Text' = Text /\ Acted' = Acted /\ ActedApart' = ActedApart
      /\ \A f, g : ActsBefore(f, g)' = ActsBefore(f, g)
  BY DEF Text, Acted, ActedApart, Action, ActsBefore
<1>2. Clearing' = Clearing
  BY <1>1 DEF Clearing
<1>3. QED
  BY <1>1, <1>2 DEF InStep

LEMMA TokensStep == ASSUME VInv, VaultTokens, [Next]_vars PROVE VaultTokens'
<1>1. CASE Cut \/ Detect \/ Settle \/ Decide \/ Apply \/ Finish \/ UNCHANGED vars
  BY <1>1 DEF Cut, Detect, Settle, Decide, Apply, Finish, vars, VaultTokens
<1>2. CASE Reuse \/ Done
  BY <1>2 DEF Reuse, Done, vars, VaultTokens
<1>3. CASE Mint
  <2>1. PICK token \in Tokens : /\ minting'.token = token
                                /\ vault' = [vault EXCEPT !.forward = Put(@, token, ValueOf(Head(todo)))]
    BY <1>3 DEF Mint
  <2>2. vault'.seen = vault.seen
    BY <2>1 DEF VInv, Vaulted
  <2>3. QED
    BY <2>1, <2>2 DEF VaultTokens
<1>4. CASE Remember
  <2>1. /\ minting # None /\ minting' = None
        /\ vault' = [vault EXCEPT !.seen = Put(@, minting.value, minting.token)]
    BY <1>4 DEF Remember
  <2>2. vault'.seen = Put(vault.seen, minting.value, minting.token)
    BY <2>1 DEF VInv, Vaulted
  <2>3. \A v \in DOMAIN vault'.seen : vault'.seen[v] \in Tokens
    BY <2>1, <2>2 DEF Put, VaultTokens
  <2>4. QED
    BY <2>1, <2>3 DEF VaultTokens
<1>5. CASE ClearForward \/ ClearSeen
  <2>1. minting' = minting /\ (vault'.seen = vault.seen \/ vault'.seen = <<>>)
    BY <1>5 DEF ClearForward, ClearSeen, VInv, Vaulted
  <2>2. QED
    BY <2>1 DEF VaultTokens
<1>6. QED
  BY <1>1, <1>2, <1>3, <1>4, <1>5 DEF Next

LEMMA InitRemoval == Init => RInv
<1> SUFFICES ASSUME Init PROVE RInv
  OBVIOUS
<1>1. VaultTokens /\ InStep
  BY DEF Init, VaultTokens, InStep, Text
<1>2. QED
  BY <1>1, InitCut, InitFound, InitVault DEF RInv, SInv

LEMMA RemovalStep == RInv /\ [Next]_vars => RInv'
<1> SUFFICES ASSUME RInv, [Next]_vars PROVE RInv'
  OBVIOUS
<1>1. SInv' /\ VInv' /\ VaultTokens'
  BY SettledStep, VaultStep, TokensStep DEF RInv
<1>2. CASE Cut \/ Detect \/ Settle
  <2>1. /\ stage \in {"resolve", "detect", "settle"} /\ out' = out /\ Text' = Text
        /\ stage' \in {"detect", "refused", "settle", "decide"}
    BY <1>2 DEF Cut, Detect, Settle, Text
  <2>2. QED
    BY <1>1, <2>1 DEF RInv, InStep
<1>3. CASE Decide
  BY <1>1, <1>3, DecideClears DEF RInv
<1>4. CASE Apply
  BY <1>1, <1>4, ApplyClears DEF RInv
<1>5. CASE Reuse
  <2>1. /\ Give(Head(todo), vault.seen[ValueOf(Head(todo))]) /\ stage = "apply" /\ todo # <<>>
        /\ UNCHANGED <<case, stage, profile, entities>>
        /\ ValueOf(Head(todo)) \in DOMAIN vault.seen
    BY <1>5 DEF Reuse, Tokenizing
  <2>2. vault.seen[ValueOf(Head(todo))] \in Tokens
    BY <2>1 DEF RInv, VaultTokens
  <2>3. QED
    BY <1>1, <2>1, <2>2, GiveClears DEF RInv
<1>6. CASE Remember
  <2>1. /\ Give(Head(todo), minting.token) /\ minting # None
        /\ UNCHANGED <<case, stage, profile, entities>>
    BY <1>6 DEF Remember
  <2>2. stage = "apply" /\ todo # <<>> /\ minting.token \in Tokens
    BY <2>1 DEF RInv, VInv, MintingIsDue, Tokenizing, VaultTokens
  <2>3. QED
    BY <1>1, <2>1, <2>2, GiveClears DEF RInv
<1>7. CASE Finish \/ Mint
  <2>1. UNCHANGED <<case, profile, entities, out, todo>>
    BY <1>7 DEF Finish, Mint
  <2>2. \/ stage' = stage
        \/ stage = "apply" /\ stage' = "done" /\ todo = <<>>
    BY <1>7 DEF Finish, Mint
  <2>3. QED
    BY <1>1, <2>1, <2>2, InStepUntouched DEF RInv
<1>8. CASE ClearForward \/ ClearSeen \/ Done \/ UNCHANGED vars
  <2>1. UNCHANGED <<case, profile, entities, out, todo, stage>>
    BY <1>8 DEF ClearForward, ClearSeen, Done, vars
  <2>2. QED
    BY <1>1, <2>1, InStepUntouched DEF RInv
<1>9. QED
  BY <1>2, <1>3, <1>4, <1>5, <1>6, <1>7, <1>8 DEF Next

(***************************************************************************)
(* However many decisions are applied and however long what they put in,   *)
(* the artifact is the document without exactly the spans acted on, in its *)
(* order, where these lie apart (core/applier.py, apply_decisions).        *)
(***************************************************************************)
THEOREM RemovalIsExact == Spec => []ExactRemoval
<1>1. RInv => ExactRemoval
  <2> SUFFICES ASSUME RInv, stage = "done", ActedApart
               PROVE  /\ {i \in Range(out) : i >= 0} =
                            {i \in 0..(Len(Text) - 1) :
                                \A e \in Acted : ~(e.start <= i /\ i < e.end)}
                      /\ \A p, q \in DOMAIN out : p < q /\ out[q] >= 0 => out[p] < out[q]
    BY DEF ExactRemoval, ActedApart, Acted
  <2>1. todo = <<>> /\ Clearing
    BY DEF RInv, InStep
  <2>2. Range(todo) = {}
    BY <2>1 DEF Range
  <2>3. PICK b \in 0..Len(Text) : Cleared(Len(Text), out, Acted, b)
    BY <2>1, <2>2 DEF Clearing
  <2>4. /\ DOMAIN out = 1..Len(out) /\ Len(Text) \in Nat
        /\ \A p \in 1..Len(out) : out[p] \in Int
    <3>1. out \in Seq(Int)
      BY <2>3 DEF Cleared
    <3>2. QED
      BY <3>1, ActedAre, ElementOfSeq DEF RInv
  <2>5. /\ \A p, q \in 1..Len(out) : p < q /\ out[q] >= 0 => out[p] < out[q]
        /\ \A p \in 1..Len(out) : out[p] >= 0 => out[p] < Len(Text) /\ ~Hit(Acted, out[p])
        /\ \A i \in 0..(Len(Text) - 1) : ~Hit(Acted, i) => \E p \in 1..Len(out) : out[p] = i
    BY <2>3 DEF Cleared
  <2>6. \A i : Hit(Acted, i) <=> ~\A e \in Acted : ~(e.start <= i /\ i < e.end)
    BY DEF Hit
  <2>7. {i \in Range(out) : i >= 0} = {i \in 0..(Len(Text) - 1) : ~Hit(Acted, i)}
    BY <2>4, <2>5 DEF Range
  <2>8. QED
    BY <2>4, <2>5, <2>6, <2>7
<1>2. QED
  BY <1>1, InitRemoval, RemovalStep, PTL DEF Spec

-----------------------------------------------------------------------------
(* Matches in a part of a text. *)

\* The offsets of a text that are not gone, in their order.
Keeps(s, gone, length) == s \in Seq(0..(length - 1)) /\ Ascends(s) /\ Picks(s, gone, length)

\* What is kept, offset by offset.
LEMMA KeptAre ==
    ASSUME NEW length \in Nat, NEW gone, NEW s, Keeps(s, gone, length)
    PROVE  /\ Len(s) \in Nat
           /\ \A j \in 1..Len(s) : s[j] \in 0..(length - 1) /\ s[j] \in Int /\ s[j] \notin gone
           /\ \A j, q \in 1..Len(s) : j < q => s[j] < s[q]
           /\ \A x \in 0..(length - 1) : x \notin gone => \E j \in 1..Len(s) : s[j] = x
<1>1. s \in Seq(0..(length - 1)) /\ Ascends(s) /\ Picks(s, gone, length)
  BY DEF Keeps
<1>2. Len(s) \in Nat /\ DOMAIN s = 1..Len(s)
  BY <1>1
<1>3. \A j \in 1..Len(s) : s[j] \in 0..(length - 1)
  BY <1>1, ElementOfSeq
<1>4. \A x \in 0..(length - 1) : x \notin gone <=> \E j \in 1..Len(s) : s[j] = x
  BY <1>1 DEF Picks
<1>5. \A j \in 1..Len(s) : s[j] \notin gone
  BY <1>3, <1>4
<1>6. \A j \in 1..Len(s) : s[j] \in Int
  BY <1>3
<1>7. \A j, q \in 1..Len(s) : j < q => s[j] < s[q]
  BY <1>1 DEF Ascends
<1>8. QED
  BY <1>2, <1>3, <1>4, <1>5, <1>6, <1>7

\* What lies between two neighbours of what is kept is gone.
LEMMA BetweenGone ==
    ASSUME NEW length \in Nat, NEW gone, NEW s, Keeps(s, gone, length),
           NEW i \in 1..Len(s), i + 1 \in 1..Len(s), NEW x \in Int, s[i] < x, x < s[i + 1]
    PROVE  x \in gone
<1>1. /\ Len(s) \in Nat
      /\ \A j \in 1..Len(s) : s[j] \in 0..(length - 1) /\ s[j] \in Int /\ s[j] \notin gone
      /\ \A j, q \in 1..Len(s) : j < q => s[j] < s[q]
      /\ \A z \in 0..(length - 1) : z \notin gone => \E j \in 1..Len(s) : s[j] = z
  BY KeptAre
<1>2. s[i] \in 0..(length - 1) /\ s[i + 1] \in 0..(length - 1)
  BY <1>1
<1>3. x \in 0..(length - 1)
  BY <1>2
<1>4. SUFFICES ASSUME NEW j \in 1..Len(s), s[j] = x PROVE FALSE
  BY <1>1, <1>3
<1>5. j <= i \/ i + 1 <= j
  OBVIOUS
<1>6. j <= i => s[j] <= s[i]
  BY <1>1, <1>2, SMTT(30)
<1>7. i + 1 <= j => s[i + 1] <= s[j]
  BY <1>1, <1>2, SMTT(30)
<1>8. QED
  BY <1>2, <1>4, <1>5, <1>6, <1>7

\* What is kept and has nothing kept before it down to a neighbour comes next.
LEMMA NextKept ==
    ASSUME NEW length \in Nat, NEW gone, NEW s, Keeps(s, gone, length),
           NEW i \in 1..Len(s), NEW y \in 0..(length - 1), s[i] < y, y \notin gone,
           \A x \in (s[i] + 1)..(y - 1) : x \in gone
    PROVE  i + 1 \in 1..Len(s) /\ s[i + 1] = y
<1>1. /\ Len(s) \in Nat
      /\ \A j \in 1..Len(s) : s[j] \in 0..(length - 1) /\ s[j] \in Int /\ s[j] \notin gone
      /\ \A j, q \in 1..Len(s) : j < q => s[j] < s[q]
      /\ \A x \in 0..(length - 1) : x \notin gone => \E j \in 1..Len(s) : s[j] = x
  BY KeptAre
<1>2. PICK j \in 1..Len(s) : s[j] = y
  BY <1>1
<1>3. s[i] \in 0..(length - 1)
  BY <1>1
<1>4. i < j
  <2>1. j < i => s[j] < s[i]
    BY <1>1
  <2>2. QED
    BY <1>2, <1>3, <2>1
<1>5. i + 1 \in 1..Len(s) /\ s[i + 1] \in 0..(length - 1) /\ s[i] < s[i + 1]
  <2>1. i + 1 \in 1..Len(s)
    BY <1>1, <1>4
  <2>2. i < i + 1
    OBVIOUS
  <2>3. QED
    BY <1>1, <2>1, <2>2
<1>6. ASSUME i + 1 < j PROVE FALSE
  <2>1. s[i + 1] < y
    BY <1>1, <1>2, <1>5, <1>6
  <2>2. s[i + 1] \in (s[i] + 1)..(y - 1)
    BY <1>3, <1>5, <2>1
  <2>3. s[i + 1] \in gone
    BY <2>2
  <2>4. QED
    BY <1>1, <1>5, <2>3
<1>7. i + 1 = j
  BY <1>4, <1>6
<1>8. QED
  BY <1>2, <1>5, <1>7

\* The same offsets of two texts are kept in a window, of which these are some.
SameKept(m, gone, s, n, lost, t, base, lo, hi, a, b) ==
    /\ m \in Nat /\ Keeps(s, gone, m) /\ n \in Nat /\ Keeps(t, lost, n)
    /\ base \in Int /\ lo \in Int /\ hi \in Int /\ 0 <= lo - base /\ hi - base <= n
    /\ \A x \in lo..(hi - 1) : x \in gone <=> x - base \in lost
    /\ a \in 1..Len(s) /\ b \in 1..Len(s) /\ a <= b /\ lo <= s[a] /\ s[b] < hi

\* What is kept from one place to another is kept in the second text, moved.
Aside(s, t, base, a, b, d) ==
    d \in Int /\ \A j \in a..b : j - d \in 1..Len(t) /\ t[j - d] = s[j] - base

\* They stand one after the other in both.
LEMMA Aligned ==
    \A m, gone, s, n, lost, t, base, lo, hi, a, b :
        SameKept(m, gone, s, n, lost, t, base, lo, hi, a, b) => \E d : Aside(s, t, base, a, b, d)
<1> SUFFICES ASSUME NEW m, NEW gone, NEW s, NEW n, NEW lost, NEW t, NEW base, NEW lo, NEW hi,
                    NEW a, NEW b, SameKept(m, gone, s, n, lost, t, base, lo, hi, a, b)
             PROVE  \E d : Aside(s, t, base, a, b, d)
  OBVIOUS
<1>0. /\ m \in Nat /\ Keeps(s, gone, m) /\ n \in Nat /\ Keeps(t, lost, n)
      /\ base \in Int /\ lo \in Int /\ hi \in Int /\ 0 <= lo - base /\ hi - base <= n
      /\ \A x \in lo..(hi - 1) : x \in gone <=> x - base \in lost
      /\ a \in 1..Len(s) /\ b \in 1..Len(s) /\ a <= b /\ lo <= s[a] /\ s[b] < hi
  BY DEF SameKept
<1> USE <1>0
<1>1. /\ Len(s) \in Nat
      /\ \A j \in 1..Len(s) : s[j] \in 0..(m - 1) /\ s[j] \in Int /\ s[j] \notin gone
      /\ \A j, q \in 1..Len(s) : j < q => s[j] < s[q]
      /\ \A x \in 0..(m - 1) : x \notin gone => \E j \in 1..Len(s) : s[j] = x
  BY KeptAre
<1>2. /\ Len(t) \in Nat
      /\ \A j \in 1..Len(t) : t[j] \in 0..(n - 1) /\ t[j] \in Int /\ t[j] \notin lost
      /\ \A j, q \in 1..Len(t) : j < q => t[j] < t[q]
      /\ \A x \in 0..(n - 1) : x \notin lost => \E j \in 1..Len(t) : t[j] = x
  BY KeptAre
<1>3. s[a] \in 0..(m - 1) /\ s[b] \in 0..(m - 1)
  BY <1>1
<1>4. ASSUME NEW j \in a..b
      PROVE  j \in 1..Len(s) /\ s[j] \in Int /\ lo <= s[j] /\ s[j] < hi
  <2>1. j \in 1..Len(s) /\ a <= j /\ j <= b
    BY <1>1
  <2>2. s[a] \in Int /\ s[b] \in Int /\ s[j] \in Int
    BY <1>1, <2>1
  <2>3. a < j => s[a] < s[j]
    BY <1>1, <2>1
  <2>4. j < b => s[j] < s[b]
    BY <1>1, <2>1
  <2>5. (a = j \/ a < j) /\ (j = b \/ j < b)
    BY <2>1
  <2>6. QED
    BY <2>1, <2>2, <2>3, <2>4, <2>5, SMTT(30)
<1>45. ASSUME NEW j \in a..b PROVE s[j] - base \in 0..(n - 1) /\ s[j] - base \notin lost
  <2> PICK u \in Int : u = s[j]
    BY <1>4
  <2>1. lo <= u /\ u < hi /\ u \notin gone
    BY <1>1, <1>4
  <2>2. u \in lo..(hi - 1)
    BY <2>1
  <2>3. u - base \in 0..(n - 1)
    <3>1. u - base >= 0 /\ u - base <= n - 1
      BY <2>1, SMTT(30)
    <3>2. QED
      BY <3>1, SMTT(30)
  <2>4. u - base \notin lost
    BY <2>1, <2>2
  <2>5. QED
    BY <2>3, <2>4
<1>5. PICK i \in 1..Len(t) : t[i] = s[a] - base
  <2>1. a \in a..b
    OBVIOUS
  <2>2. QED
    BY <1>2, <1>45, <2>1
<1> DEFINE d == a - i
           S == {j \in a..b : j - d \in 1..Len(t) /\ t[j - d] = s[j] - base}
<1>6. d \in Int
  OBVIOUS
<1>7. a \in S
  BY <1>2, <1>5
<1>8. ASSUME NEW j \in a..(b - 1), j \in S PROVE j + 1 \in S
  <2>1. j \in a..b /\ j + 1 \in a..b
    OBVIOUS
  <2>2. j - d \in 1..Len(t) /\ t[j - d] = s[j] - base
    BY <1>8
  <2>3. s[j] < s[j + 1] /\ s[j] \in Int /\ s[j + 1] \in Int
    <3>1. j \in 1..Len(s) /\ j + 1 \in 1..Len(s) /\ j < j + 1
      BY <1>4, <2>1, SMTT(30)
    <3>2. QED
      BY <1>1, <3>1
  <2> HIDE DEF d
  <2>0. PICK u \in Int, v \in Int : u = s[j] /\ v = s[j + 1]
    BY <2>3
  <2>10. u < v /\ lo <= u /\ v < hi
    <3>1. lo <= s[j] /\ s[j + 1] < hi
      BY <1>4, <2>1
    <3>2. QED
      BY <2>0, <2>3, <3>1
  <2>4. ASSUME NEW x \in (t[j - d] + 1)..((s[j + 1] - base) - 1) PROVE x \in lost
    <3>0. x \in ((u - base) + 1)..((v - base) - 1)
      <4>1. t[j - d] = u - base
        BY <2>2, <2>0
      <4>2. QED
        BY <4>1, <2>0
    <3> PICK w \in Int : w = x + base
      BY <3>0
    <3>1. u < w /\ w < v /\ w - base = x
      BY <3>0
    <3>2. w \in gone
      <4>1. j \in 1..Len(s) /\ j + 1 \in 1..Len(s)
        BY <1>4, <2>1
      <4>2. QED
        BY <2>0, <3>1, <4>1, BetweenGone
    <3>4. w \in lo..(hi - 1)
      BY <2>10, <3>1
    <3>5. QED
      BY <3>1, <3>2, <3>4
  <2>5. (j - d) + 1 \in 1..Len(t) /\ t[(j - d) + 1] = s[j + 1] - base
    <3> DEFINE y == s[j + 1] - base
               q == j - d
    <3>1. y \in 0..(n - 1) /\ y \notin lost /\ q \in 1..Len(t)
      BY <1>45, <2>1, <2>2
    <3>2. t[q] < y
      <4>1. \A f, g \in Int : f < g => f - base < g - base
        OBVIOUS
      <4>2. QED
        BY <2>2, <2>3, <4>1
    <3>3. \A x \in (t[q] + 1)..(y - 1) : x \in lost
      BY <2>4
    <3> HIDE DEF y, q
    <3>4. q + 1 \in 1..Len(t) /\ t[q + 1] = y
      BY <3>1, <3>2, <3>3, NextKept
    <3>5. QED
      BY <3>4 DEF y, q
  <2>6. (j - d) + 1 = (j + 1) - d
    BY <1>6
  <2>7. QED
    BY <2>1, <2>5, <2>6
<1>9. a..b \subseteq S
  <2>1. a \in Int /\ b \in Int
    OBVIOUS
  <2> HIDE DEF S
  <2>2. QED
    BY <1>7, <1>8, <2>1, UpTo
<1>10. Aside(s, t, base, a, b, d)
  BY <1>6, <1>9 DEF Aside
<1> HIDE DEF d
<1>11. QED
  BY <1>10

\* One that is gone makes what is kept shorter.
LEMMA ShorterWithout ==
    ASSUME NEW length \in Nat, NEW gone, NEW s, Keeps(s, gone, length),
           NEW g \in 0..(length - 1), g \in gone
    PROVE  Len(s) < length
<1>1. /\ Len(s) \in Nat
      /\ \A j \in 1..Len(s) : s[j] \in 0..(length - 1) /\ s[j] \in Int /\ s[j] \notin gone
      /\ \A j, q \in 1..Len(s) : j < q => s[j] < s[q]
      /\ \A x \in 0..(length - 1) : x \notin gone => \E j \in 1..Len(s) : s[j] = x
  BY KeptAre
<1>2. CASE Len(s) = 0
  BY <1>2
<1>3. CASE Len(s) # 0
  <2> DEFINE S == {i \in 1..Len(s) : s[i] >= i - 1 /\ (s[i] > g => s[i] >= i)}
  <2>1. 1 \in 1..Len(s) /\ Len(s) \in 1..Len(s)
    BY <1>1, <1>3
  <2>2. 1 \in S
    BY <1>1, <2>1
  <2>3. ASSUME NEW i \in 1..(Len(s) - 1), i \in S PROVE i + 1 \in S
    <3>1. i \in 1..Len(s) /\ i + 1 \in 1..Len(s) /\ i < i + 1
      BY <1>1
    <3>2. s[i] \in Int /\ s[i + 1] \in Int /\ s[i] < s[i + 1] /\ s[i] # g
      BY <1>1, <3>1
    <3>3. s[i] >= i - 1 /\ (s[i] > g => s[i] >= i)
      BY <2>3
    <3>4. QED
      BY <3>1, <3>2, <3>3
  <2>4. 1..Len(s) \subseteq S
    <3>1. 1 \in Int /\ Len(s) \in Int
      BY <1>1
    <3> HIDE DEF S
    <3>2. QED
      BY <2>2, <2>3, <3>1, UpTo
  <2>5. Len(s) \in S
    BY <2>1, <2>4
  <2>6. s[Len(s)] \in 0..(length - 1)
    BY <1>1, <2>1
  <2>7. QED
    BY <1>1, <2>1, <2>5, <2>6
<1>4. QED
  BY <1>2, <1>3

\* A normalized text has the characters that are not invisible, in their order.
LEMMA NormalizeIs ==
    ASSUME NEW text \in Seq(Chars)
    PROVE  LET gone == {i \in 0..(Len(text) - 1) : text[i + 1] \in Invisible}
               made == Normalize(text)
           IN /\ Keeps(made.positions, gone, Len(text))
              /\ made.text \in Seq(Chars) /\ Len(made.text) = Len(made.positions)
              /\ \A i \in 1..Len(made.text) : made.text[i] = Folded(text[made.positions[i] + 1])
<1> DEFINE gone == {i \in 0..(Len(text) - 1) : text[i + 1] \in Invisible}
           kept == Without(gone, text)
           made == [i \in 1..Len(kept) |-> Folded(text[kept[i] + 1])]
<1>1. Len(text) \in Nat
  OBVIOUS
<1>2. Normalize(text) = [text |-> made, positions |-> kept]
  BY DEF Normalize
<1>3. Keeps(kept, gone, Len(text))
  <2> HIDE DEF gone
  <2>1. QED
    BY <1>1, WithoutIs DEF Keeps
<1>4. Len(kept) \in Nat /\ \A i \in 1..Len(kept) : kept[i] \in 0..(Len(text) - 1)
  <2> HIDE DEF gone, kept
  <2>1. QED
    BY <1>1, <1>3, KeptAre
<1> HIDE DEF kept
<1>5. \A i \in 1..Len(kept) : made[i] \in Chars
  <2> SUFFICES ASSUME NEW i \in 1..Len(kept) PROVE Folded(text[kept[i] + 1]) \in Chars
    OBVIOUS
  <2>1. kept[i] + 1 \in 1..Len(text)
    BY <1>1, <1>4
  <2>2. text[kept[i] + 1] \in Chars
    BY <2>1
  <2>3. QED
    BY <2>2 DEF Folded, Chars, Alnum
<1>6. made \in Seq(Chars) /\ Len(made) = Len(kept)
  BY <1>4, <1>5
<1>7. \A i \in 1..Len(kept) : made[i] = Folded(text[kept[i] + 1])
  OBVIOUS
<1> HIDE DEF made
<1>8. Normalize(text).text = made /\ Normalize(text).positions = kept
  BY <1>2
<1>9. QED
  BY <1>3, <1>6, <1>7, <1>8

\* How the normalized text of a part lies in that of the whole.
Shifts(whole, part, d, base, end) ==
    /\ d \in Int
    /\ \A i \in 1..Len(part.text) :
          /\ i + d \in 1..Len(whole.text) /\ whole.text[i + d] = part.text[i]
          /\ whole.positions[i + d] = part.positions[i] + base
    /\ \A q \in 1..Len(whole.text) :
          base <= whole.positions[q] /\ whole.positions[q] < end => q - d \in 1..Len(part.text)

\* Normalizing a part of a text gives what normalizing the text gives there.
LEMMA PartShifts ==
    ASSUME NEW text \in Seq(Chars), NEW base \in Nat, NEW end \in 0..Len(text)
    PROVE  \E d : Shifts(Normalize(text), Normalize(SubSeq(text, base + 1, end)), d, base, end)
<1> DEFINE sub == SubSeq(text, base + 1, end)
           m == Len(sub)
           n == Len(text)
           P == Normalize(text)
           Q == Normalize(sub)
           lost == {i \in 0..(n - 1) : text[i + 1] \in Invisible}
           gone == {i \in 0..(m - 1) : sub[i + 1] \in Invisible}
           s == Q.positions
           t == P.positions
<1>1. /\ sub \in Seq(Chars) /\ m \in Nat /\ n \in Nat
      /\ m = IF base + 1 <= end THEN end - base ELSE 0
      /\ \A i \in 1..m : sub[i] = text[base + i]
  <2>1. base + 1 \in Int /\ end \in Int /\ \A i \in (base + 1)..end : text[i] \in Chars
    OBVIOUS
  <2>2. /\ sub \in Seq(Chars)
        /\ m = IF base + 1 <= end THEN end - (base + 1) + 1 ELSE 0
        /\ \A i \in 1..m : sub[i] = text[(base + 1) + i - 1]
    BY <2>1, SubSeqProperties
  <2> HIDE DEF sub
  <2>3. n \in Nat /\ m \in Nat
    BY <2>2
  <2>4. \A i \in 1..m : (base + 1) + i - 1 = base + i
    OBVIOUS
  <2>5. end - (base + 1) + 1 = end - base
    OBVIOUS
  <2>6. QED
    BY <2>2, <2>3, <2>4, <2>5
<1> HIDE DEF sub
<1>2. /\ Keeps(t, lost, n) /\ P.text \in Seq(Chars) /\ Len(P.text) = Len(t)
      /\ \A i \in 1..Len(P.text) : P.text[i] = Folded(text[t[i] + 1])
  BY NormalizeIs
<1>3. /\ Keeps(s, gone, m) /\ Q.text \in Seq(Chars) /\ Len(Q.text) = Len(s)
      /\ \A i \in 1..Len(Q.text) : Q.text[i] = Folded(sub[s[i] + 1])
  BY <1>1, NormalizeIs
<1> HIDE DEF P, Q, s, t
<1>4. \A x \in 0..(m - 1) : x \in gone <=> x - (-base) \in lost
  <2> SUFFICES ASSUME NEW x \in 0..(m - 1) PROVE x \in gone <=> x - (-base) \in lost
    OBVIOUS
  <2>1. x + 1 \in 1..m /\ x - (-base) \in 0..(n - 1) /\ (x - (-base)) + 1 = base + (x + 1)
    BY <1>1
  <2>2. sub[x + 1] = text[base + (x + 1)]
    BY <1>1, <2>1
  <2>3. QED
    BY <2>1, <2>2
<1> HIDE DEF gone, lost
<1>5. /\ Len(s) \in Nat /\ \A i \in 1..Len(s) : s[i] \in 0..(m - 1)
      /\ \A x \in 0..(m - 1) : x \notin gone => \E i \in 1..Len(s) : s[i] = x
  BY <1>1, <1>3, KeptAre
<1>6. /\ Len(t) \in Nat /\ \A i \in 1..Len(t) : t[i] \in 0..(n - 1) /\ t[i] \notin lost
      /\ \A i, j \in 1..Len(t) : i < j => t[i] < t[j]
  BY <1>1, <1>2, KeptAre
<1>7. \E d \in Int : \A j \in 1..Len(s) : j + d \in 1..Len(t) /\ t[j + d] = s[j] + base
  <2>1. CASE Len(s) = 0
    <3>1. \A j \in 1..Len(s) : FALSE
      BY <2>1
    <3>2. QED
      BY <3>1
  <2>2. CASE Len(s) # 0
    <3> DEFINE a == 1
               b == Len(s)
               back == -base
    <3>1. a \in 1..Len(s) /\ b \in 1..Len(s) /\ a <= b /\ 0 <= s[a] /\ s[b] < m
      BY <1>1, <1>5, <2>2
    <3>2. m > 0
      BY <1>1, <1>5, <3>1
    <3>3. back \in Int /\ 0 <= 0 - back /\ m - back <= n
      BY <1>1, <3>2
    <3> HIDE DEF a, b, m, n
    <3>4. \A x \in 0..(m - 1) : x \in gone <=> x - back \in lost
      BY <1>4
    <3> DEFINE lo == 0
               hi == m
    <3>5. lo \in Int /\ hi \in Int /\ lo <= s[a] /\ s[b] < hi
      BY <1>1, <3>1
    <3>51. 0 <= lo - back /\ hi - back <= n /\ \A x \in lo..(hi - 1) : x \in gone <=> x - back \in lost
      BY <3>3, <3>4
    <3> HIDE DEF back, lo, hi
    <3>52. m \in Nat /\ n \in Nat
      BY <1>1
    <3>53. SameKept(m, gone, s, n, lost, t, back, lo, hi, a, b)
      BY <1>2, <1>3, <3>1, <3>3, <3>5, <3>51, <3>52 DEF SameKept
    <3>54. PICK d : Aside(s, t, back, a, b, d)
      BY <3>53, Aligned
    <3>6. d \in Int /\ \A j \in a..b : j - d \in 1..Len(t) /\ t[j - d] = s[j] - back
      BY <3>54 DEF Aside
    <3>7. \A j \in 1..Len(s) : j + (-d) = j - d /\ s[j] - back = s[j] + base
      <4>1. \A x \in Int : x + (-d) = x - d /\ x - back = x + base
        BY <3>6 DEF back
      <4>2. \A j \in 1..Len(s) : j \in Int /\ s[j] \in Int
        BY <1>1, <1>5
      <4>3. QED
        BY <4>1, <4>2
    <3>8. -d \in Int
      BY <3>6
    <3>9. \A j \in 1..Len(s) : j + (-d) \in 1..Len(t) /\ t[j + (-d)] = s[j] + base
      BY <3>6, <3>7 DEF a, b
    <3>10. QED
      BY <3>8, <3>9
  <2>3. QED
    BY <2>1, <2>2
<1>8. PICK d \in Int : \A j \in 1..Len(s) : j + d \in 1..Len(t) /\ t[j + d] = s[j] + base
  BY <1>7
<1>9. ASSUME NEW i \in 1..Len(s) PROVE P.text[i + d] = Q.text[i]
  <2>1. P.text[i + d] = Folded(text[(s[i] + base) + 1])
    BY <1>2, <1>8
  <2>2. Q.text[i] = Folded(sub[s[i] + 1])
    BY <1>3
  <2>3. s[i] + 1 \in 1..m /\ base + (s[i] + 1) = (s[i] + base) + 1
    BY <1>1, <1>5
  <2>4. QED
    BY <1>1, <2>1, <2>2, <2>3
<1>10. ASSUME NEW q \in 1..Len(t), base <= t[q], t[q] < end PROVE q - d \in 1..Len(s)
  <2> PICK x \in Int : x = t[q] - base
    BY <1>6
  <2>1. x \in 0..(m - 1) /\ x - (-base) = t[q]
    BY <1>1, <1>6, <1>10, SMTT(30)
  <2>2. PICK i \in 1..Len(s) : s[i] = x
    BY <1>4, <1>5, <1>6, <2>1
  <2>3. i + d \in 1..Len(t) /\ t[i + d] = t[q]
    BY <1>1, <1>8, <2>1, <2>2, SMTT(30)
  <2>4. i + d = q
    <3>1. i + d < q => t[i + d] < t[q]
      BY <1>6, <2>3
    <3>2. q < i + d => t[q] < t[i + d]
      BY <1>6, <2>3
    <3>3. t[q] \in Int
      BY <1>1, <1>6, SMTT(30)
    <3>4. QED
      BY <1>6, <2>3, <3>1, <3>2, <3>3, SMTT(30)
  <2>5. q - d = i
    BY <2>4
  <2>6. QED
    BY <2>5
<1>11. Shifts(P, Q, d, base, end)
  <2>1. Len(P.text) = Len(t) /\ Len(Q.text) = Len(s)
    BY <1>2, <1>3
  <2>2. QED
    BY <1>8, <1>9, <1>10, <2>1 DEF Shifts, s, t
<1>12. QED
  BY <1>11 DEF P, Q, sub

-----------------------------------------------------------------------------
(* Runs. *)

\* A run of n single characters, and a blank that is taken out.
Singles(text, s, n) ==
    /\ s \in Nat /\ n \in Nat \ {0} /\ n >= MinRun /\ s + 2 * n - 1 <= Len(text)
    /\ \A j \in 0..(n - 1) : text[s + 2 * j + 1] \in Alnum
    /\ \A j \in 0..(n - 2) : text[s + 2 * j + 2] = " "
    /\ s = 0 \/ text[s] \notin Alnum
    /\ s + 2 * n - 1 = Len(text) \/ text[s + 2 * n] \notin Alnum
\* A blank that is taken out of a run.
Blank(text, i) ==
    /\ i \in 0..(Len(text) - 1) /\ text[i + 1] = " "
    /\ \E r \in SpacedRuns(text) : r[1] <= i /\ i < r[2]
Blanks(text) == {i \in 0..(Len(text) - 1) : Blank(text, i)}

\* A blank ends a run of letters.
LEMMA BlankIsNoLetter == " " \notin Alnum
BY DEF Alnum

\* Every second number.
LEMMA Parity ==
    /\ \A j \in Int : (2 * j) % 2 = 0 /\ (2 * j + 1) % 2 = 1
    /\ \A x \in Nat : /\ x \div 2 \in Nat
                      /\ x % 2 = 0 => x = 2 * (x \div 2)
                      /\ x % 2 # 0 => x = 2 * (x \div 2) + 1
OBVIOUS

\* What SpacedRuns asks of a run.
Alone(text, s, e) ==
    /\ (e - s) % 2 = 1 /\ (e - s + 1) \div 2 >= MinRun
    /\ \A i \in s..(e - 1) :
          IF (i - s) % 2 = 0 THEN text[i + 1] \in Alnum ELSE text[i + 1] = " "
    /\ s = 0 \/ text[s] \notin Alnum
    /\ e = Len(text) \/ text[e + 1] \notin Alnum

\* It is a run of single characters, and the other way round.
LEMMA AloneIs ==
    ASSUME NEW text, Len(text) \in Nat, NEW s \in 0..Len(text), NEW e \in 0..Len(text), s < e,
           Alone(text, s, e)
    PROVE  \E n : e = s + 2 * n - 1 /\ Singles(text, s, n)
<1> DEFINE x == (e - s) \div 2
           n == x + 1
<1>1. e - s \in Nat /\ s \in Nat /\ e \in Nat
  OBVIOUS
<1>2. (e - s) % 2 # 0
  <2>1. (e - s) % 2 = 1
    BY Zenon DEF Alone
  <2>2. QED
    BY <2>1
<1>3. x \in Nat /\ e - s = 2 * x + 1
  BY <1>1, <1>2, Parity
<1>4. (e - s + 1) \div 2 = n
  <2>1. e - s + 1 = 2 * n
    BY <1>3
  <2>2. n \in Int
    BY <1>3
  <2> HIDE DEF n
  <2>3. (2 * n) \div 2 = n
    BY <2>2
  <2>4. QED
    BY <2>1, <2>3
<1> HIDE DEF x
<1>5. n \in Nat \ {0} /\ e = s + 2 * n - 1 /\ s + 2 * n = e + 1
  BY <1>1, <1>3
<1>6. n >= MinRun
  <2>1. (e - s + 1) \div 2 >= MinRun
    BY DEF Alone
  <2>2. QED
    BY <1>4, <2>1
<1> HIDE DEF n
<1>7. \A i \in s..(e - 1) :
          IF (i - s) % 2 = 0 THEN text[i + 1] \in Alnum ELSE text[i + 1] = " "
  BY DEF Alone
<1>8. ASSUME NEW j \in 0..(n - 1) PROVE text[s + 2 * j + 1] \in Alnum
  <2>1. s + 2 * j \in s..(e - 1) /\ (s + 2 * j) - s = 2 * j /\ j \in Int
    BY <1>1, <1>5
  <2>2. ((s + 2 * j) - s) % 2 = 0
    BY <2>1, Parity
  <2>3. QED
    BY <1>7, <2>1, <2>2
<1>9. ASSUME NEW j \in 0..(n - 2) PROVE text[s + 2 * j + 2] = " "
  <2>1. /\ s + 2 * j + 1 \in s..(e - 1) /\ (s + 2 * j + 1) - s = 2 * j + 1 /\ j \in Int
        /\ (s + 2 * j + 1) + 1 = s + 2 * j + 2
    BY <1>1, <1>5
  <2>2. ((s + 2 * j + 1) - s) % 2 # 0
    BY <2>1, Parity
  <2> DEFINE i == s + 2 * j + 1
  <2>3. i \in s..(e - 1) /\ (i - s) % 2 # 0 /\ i + 1 = s + 2 * j + 2
    BY <2>1, <2>2
  <2> HIDE DEF i
  <2>4. text[i + 1] = " "
    BY <1>7, <2>3
  <2>5. QED
    BY <2>3, <2>4
<1>10. (s = 0 \/ text[s] \notin Alnum) /\ (e = Len(text) \/ text[e + 1] \notin Alnum)
  BY DEF Alone
<1>11. Singles(text, s, n)
  <2>1. s + 2 * n - 1 <= Len(text)
    BY <1>5
  <2>2. /\ s = 0 \/ text[s] \notin Alnum
        /\ s + 2 * n - 1 = Len(text) \/ text[s + 2 * n] \notin Alnum
    BY <1>5, <1>10
  <2>3. QED
    BY <1>1, <1>5, <1>6, <1>8, <1>9, <2>1, <2>2 DEF Singles
<1>12. QED
  BY <1>5, <1>11

\* Every run of single characters stands alone.
LEMMA SinglesAre ==
    ASSUME NEW text, Len(text) \in Nat, NEW s, NEW n, Singles(text, s, n)
    PROVE  LET e == s + 2 * n - 1
           IN s \in 0..Len(text) /\ e \in 0..Len(text) /\ s < e /\ Alone(text, s, e)
<1> DEFINE e == s + 2 * n - 1
<1>1. s \in Nat /\ n \in Nat \ {0} /\ n >= MinRun /\ e <= Len(text)
  BY DEF Singles
<1>2. s \in 0..Len(text) /\ e \in 0..Len(text) /\ s < e
  BY <1>1
<1>3. (e - s) % 2 = 1
  <2>1. e - s = 2 * (n - 1) + 1 /\ n - 1 \in Int
    BY <1>1
  <2>2. QED
    BY <2>1, Parity
<1>4. (e - s + 1) \div 2 = n
  <2>1. e - s + 1 = 2 * n /\ n \in Int
    BY <1>1
  <2>2. (2 * n) \div 2 = n
    BY <1>1
  <2>3. QED
    BY <2>1, <2>2
<1>5. ASSUME NEW i \in s..(e - 1)
      PROVE  IF (i - s) % 2 = 0 THEN text[i + 1] \in Alnum ELSE text[i + 1] = " "
  <2> DEFINE j == (i - s) \div 2
  <2>1. i - s \in Nat /\ i \in Int
    BY <1>1
  <2>2. j \in Nat
    BY <2>1, Parity
  <2>3. CASE (i - s) % 2 = 0
    <3>1. i - s = 2 * j
      BY <2>1, <2>3, Parity
    <3> HIDE DEF j
    <3>2. j \in 0..(n - 1) /\ s + 2 * j + 1 = i + 1
      BY <1>1, <2>1, <2>2, <3>1
    <3>3. text[s + 2 * j + 1] \in Alnum
      BY <3>2 DEF Singles
    <3>4. QED
      BY <2>3, <3>2, <3>3
  <2>4. CASE (i - s) % 2 # 0
    <3>1. i - s = 2 * j + 1
      BY <2>1, <2>4, Parity
    <3> HIDE DEF j
    <3>2. j \in 0..(n - 2) /\ s + 2 * j + 2 = i + 1
      BY <1>1, <2>1, <2>2, <3>1
    <3>3. text[s + 2 * j + 2] = " "
      BY <3>2 DEF Singles
    <3>4. QED
      BY <2>4, <3>2, <3>3
  <2>5. QED
    BY <2>3, <2>4
<1>6. /\ s = 0 \/ text[s] \notin Alnum
      /\ e = Len(text) \/ text[e + 1] \notin Alnum
  <2>1. e + 1 = s + 2 * n
    BY <1>1
  <2>2. QED
    BY <2>1 DEF Singles
<1> HIDE DEF e
<1>7. Alone(text, s, e)
  BY <1>1, <1>3, <1>4, <1>5, <1>6 DEF Alone
<1>8. QED
  BY <1>2, <1>7 DEF e

\* Every run lies in one of those that are collapsed, which are runs.
LEMMA RunsAre ==
    ASSUME NEW text, Len(text) \in Nat
    PROVE  /\ \A r \in SpacedRuns(text) : \E n : r[2] = r[1] + 2 * n - 1 /\ Singles(text, r[1], n)
           /\ \A s, n : Singles(text, s, n) =>
                 \E r \in SpacedRuns(text) : r[1] <= s /\ s + 2 * n - 1 <= r[2]
<1> DEFINE len == Len(text)
           runs == {r \in (0..len) \X (0..len) : r[1] < r[2] /\ Alone(text, r[1], r[2])}
<1>1. SpacedRuns(text) = {r \in runs : ~\E q \in runs : q # r /\ q[1] <= r[1] /\ r[2] <= q[2]}
  BY DEF SpacedRuns, Alone
<1>2. ASSUME NEW s, NEW n, Singles(text, s, n)
      PROVE  \E r \in SpacedRuns(text) : r[1] <= s /\ s + 2 * n - 1 <= r[2]
  <2> DEFINE e == s + 2 * n - 1
             over == {r \in runs : r[1] <= s /\ e <= r[2]}
             f == [r \in over |-> r[2] - r[1]]
             lengths == {f[r] : r \in over}
  <2>1. s \in 0..len /\ e \in 0..len /\ s < e /\ Alone(text, s, e)
    BY <1>2, SinglesAre
  <2> HIDE DEF e
  <2>2. <<s, e>> \in over
    BY <2>1
  <2>3. \A r \in over : r[1] \in 0..len /\ r[2] \in 0..len /\ r[1] < r[2] /\ f[r] = r[2] - r[1]
    OBVIOUS
  <2>4. \A r \in over : f[r] \in 0..len
    BY <2>3
  <2>5. \E x \in lengths : \A y \in lengths : y <= x
    <3>1. lengths \in SUBSET (0..len) /\ lengths # {}
      BY <2>2, <2>4
    <3>2. 0 \in Int /\ len \in Int
      OBVIOUS
    <3> HIDE DEF lengths, len
    <3>3. QED
      BY <3>1, <3>2, Greatest
  <2>6. PICK r \in over : \A q \in over : f[q] <= f[r]
    <3> HIDE DEF over, f
    <3>1. QED
      BY <2>5
  <2>7. r[1] \in 0..len /\ r[2] \in 0..len /\ r \in runs /\ r[1] <= s /\ e <= r[2]
    BY <2>6
  <2>8. ASSUME NEW q \in runs, q # r, q[1] <= r[1], r[2] <= q[2] PROVE FALSE
    <3>1. q[1] \in 0..len /\ q[2] \in 0..len
      OBVIOUS
    <3>2. q[1] <= s /\ e <= q[2]
      BY <2>1, <2>7, <2>8, <3>1
    <3>3. q \in over
      BY <3>2
    <3>4. q[2] - q[1] <= r[2] - r[1]
      BY <2>3, <2>6, <3>3
    <3>5. q[1] = r[1] /\ q[2] = r[2]
      BY <2>7, <2>8, <3>1, <3>4
    <3>6. q \in (0..len) \X (0..len) /\ r \in (0..len) \X (0..len)
      BY <2>7
    <3>7. q = r
      BY <3>5, <3>6
    <3>8. QED
      BY <2>8, <3>7
  <2> HIDE DEF over, f, lengths, runs
  <2>9. r \in SpacedRuns(text)
    BY <1>1, <2>7, <2>8
  <2>10. QED
    BY <2>7, <2>9 DEF e
<1>3. ASSUME NEW r \in SpacedRuns(text)
      PROVE  \E n : r[2] = r[1] + 2 * n - 1 /\ Singles(text, r[1], n)
  <2>1. r[1] \in 0..len /\ r[2] \in 0..len /\ r[1] < r[2] /\ Alone(text, r[1], r[2])
    BY <1>1
  <2>2. QED
    BY <2>1, AloneIs
<1>4. QED
  BY <1>2, <1>3

\* A blank that is taken out stands between two single characters.
LEMMA BlankIs ==
    ASSUME NEW text, Len(text) \in Nat, NEW g, Blank(text, g)
    PROVE  /\ g \in 1..(Len(text) - 2) /\ text[g + 1] = " "
           /\ text[g] \in Alnum /\ text[g + 2] \in Alnum
           /\ g - 1 = 0 \/ text[g - 1] \notin Alnum
           /\ g + 2 = Len(text) \/ text[g + 3] \notin Alnum
<1>1. g \in 0..(Len(text) - 1) /\ text[g + 1] = " "
  BY DEF Blank
<1>2. PICK s, n : Singles(text, s, n) /\ s <= g /\ g < s + 2 * n - 1
  <2>1. PICK r \in SpacedRuns(text) : r[1] <= g /\ g < r[2]
    BY DEF Blank
  <2>2. PICK n : r[2] = r[1] + 2 * n - 1 /\ Singles(text, r[1], n)
    BY RunsAre
  <2>3. QED
    BY <2>1, <2>2
<1>0. s \in Nat /\ n \in Nat \ {0} /\ s + 2 * n - 1 <= Len(text) /\ s <= g /\ g < s + 2 * n - 1
  BY <1>2 DEF Singles
<1>3. /\ \A j \in 0..(n - 1) : text[s + 2 * j + 1] \in Alnum
      /\ \A j \in 0..(n - 2) : text[s + 2 * j + 2] = " "
      /\ s = 0 \/ text[s] \notin Alnum
      /\ s + 2 * n - 1 = Len(text) \/ text[s + 2 * n] \notin Alnum
  BY <1>2 DEF Singles
<1> DEFINE j == (g - s) \div 2
<1>4. g - s \in Nat /\ g \in Int
  <2>1. g \in 0..(Len(text) - 1)
    BY <1>1
  <2>2. g \in Int
    BY <2>1
  <2>3. QED
    BY <1>0, <2>2
<1>5. j \in Nat /\ (g - s = 2 * j \/ g - s = 2 * j + 1)
  BY <1>4, Parity
<1> HIDE DEF j
<1>6. g = s + 2 * j + 1 /\ j \in 0..(n - 2)
  <2>1. CASE g - s = 2 * j
    <3>1. j \in 0..(n - 1) /\ s + 2 * j + 1 = g + 1
      BY <1>0, <1>4, <1>5, <2>1
    <3>2. text[g + 1] \in Alnum
      BY <1>3, <3>1
    <3>3. QED
      BY <1>1, <3>2, BlankIsNoLetter
  <2>2. CASE g - s = 2 * j + 1
    BY <1>0, <1>4, <1>5, <2>2
  <2>3. QED
    BY <1>5, <2>1, <2>2
<1>7. text[g] \in Alnum /\ text[g + 2] \in Alnum
  <2>1. j \in 0..(n - 1) /\ j + 1 \in 0..(n - 1) /\ g + 2 = s + 2 * (j + 1) + 1
    BY <1>0, <1>6
  <2>2. QED
    BY <1>3, <1>6, <2>1
<1>8. g - 1 = 0 \/ text[g - 1] \notin Alnum
  <2>1. CASE j = 0
    <3>1. g - 1 = s
      BY <1>0, <1>6, <2>1
    <3>2. QED
      BY <1>3, <3>1
  <2>2. CASE j # 0
    <3>1. j - 1 \in 0..(n - 2) /\ s + 2 * (j - 1) + 2 = g - 1
      BY <1>0, <1>6, <2>2
    <3>2. QED
      BY <1>3, <3>1, BlankIsNoLetter
  <2>3. QED
    BY <2>1, <2>2
<1>9. g + 2 = Len(text) \/ text[g + 3] \notin Alnum
  <2>1. CASE j = n - 2
    <3>1. g + 2 = s + 2 * n - 1 /\ g + 3 = s + 2 * n
      BY <1>0, <1>6, <2>1
    <3>2. QED
      BY <1>3, <3>1
  <2>2. CASE j # n - 2
    <3>1. j + 1 \in 0..(n - 2) /\ s + 2 * (j + 1) + 2 = g + 3
      BY <1>0, <1>6, <2>2
    <3>2. QED
      BY <1>3, <3>1, BlankIsNoLetter
  <2>3. QED
    BY <2>1, <2>2
<1>10. g \in 1..(Len(text) - 2)
  BY <1>0, <1>6
<1>11. QED
  BY <1>1, <1>7, <1>8, <1>9, <1>10

\* A collapsed text has all but those blanks, in their order.
LEMMA CollapseIs ==
    ASSUME NEW text \in Seq(Chars)
    PROVE  LET made == Collapse(text)
           IN /\ Len(text) \in Nat /\ Keeps(made.positions, Blanks(text), Len(text))
              /\ made.text \in Seq(Chars) /\ Len(made.text) = Len(made.positions)
              /\ \A i \in 1..Len(made.text) : made.text[i] = text[made.positions[i] + 1]
<1> DEFINE gone == {i \in 0..(Len(text) - 1) : Blank(text, i)}
           kept == Without(gone, text)
           made == [i \in 1..Len(kept) |-> text[kept[i] + 1]]
<1>1. Len(text) \in Nat
  OBVIOUS
<1>2. Collapse(text) = [text |-> made, positions |-> kept]
  <2> DEFINE runs == SpacedRuns(text)
             blanks == {i \in 0..(Len(text) - 1) :
                           text[i + 1] = " " /\ \E r \in runs : r[1] <= i /\ i < r[2]}
  <2>1. blanks = gone
    BY DEF Blank
  <2>2. Collapse(text) = [text |-> [i \in 1..Len(Without(blanks, text)) |->
                                       text[Without(blanks, text)[i] + 1]],
                          positions |-> Without(blanks, text)]
    BY DEF Collapse
  <2> HIDE DEF blanks, gone
  <2>3. QED
    BY <2>1, <2>2
<1>3. Keeps(kept, gone, Len(text))
  <2> HIDE DEF gone
  <2>1. QED
    BY <1>1, WithoutIs DEF Keeps
<1>4. Len(kept) \in Nat /\ \A i \in 1..Len(kept) : kept[i] \in 0..(Len(text) - 1)
  <2> HIDE DEF gone, kept
  <2>1. QED
    BY <1>1, <1>3, KeptAre
<1> HIDE DEF kept
<1>5. \A i \in 1..Len(kept) : made[i] \in Chars
  <2> SUFFICES ASSUME NEW i \in 1..Len(kept) PROVE text[kept[i] + 1] \in Chars
    OBVIOUS
  <2>1. kept[i] + 1 \in 1..Len(text)
    BY <1>1, <1>4
  <2>2. QED
    BY <2>1
<1>6. made \in Seq(Chars) /\ Len(made) = Len(kept)
  BY <1>4, <1>5
<1>7. \A i \in 1..Len(kept) : made[i] = text[kept[i] + 1]
  OBVIOUS
<1> HIDE DEF made
<1>8. Collapse(text).text = made /\ Collapse(text).positions = kept
  BY <1>2
<1>9. gone = Blanks(text)
  BY DEF Blanks
<1> HIDE DEF gone
<1>10. QED
  BY <1>1, <1>3, <1>6, <1>7, <1>8, <1>9

\* Letters and digits that follow each other in a collapsed text follow each
\* other in the text it was made from, or are a run of it.
LEMMA PlainOrRun ==
    ASSUME NEW text \in Seq(Chars), NEW c \in Nat, NEW n \in Nat \ {0}, n >= MinRun,
           c + n <= Len(Collapse(text).text),
           \A j \in 1..n : Collapse(text).text[c + j] \in Alnum
    PROVE  LET C == Collapse(text).positions
           IN \/ \A j \in 1..n : C[c + j] = C[c + 1] + (j - 1)
              \/ /\ n >= 2 /\ Singles(text, C[c + 1], n)
                 /\ \A j \in 1..n : C[c + j] = C[c + 1] + 2 * (j - 1)
<1> DEFINE C == Collapse(text).positions
           made == Collapse(text).text
           gone == Blanks(text)
           len == Len(text)
<1>1. /\ Keeps(C, gone, len) /\ Len(made) = Len(C) /\ len \in Nat
      /\ \A i \in 1..Len(made) : made[i] = text[C[i] + 1]
  BY CollapseIs
<1>2. c + n <= Len(made) /\ \A j \in 1..n : made[c + j] \in Alnum
  OBVIOUS
<1> HIDE DEF C, made
<1>3. /\ Len(C) \in Nat /\ \A j \in 1..Len(C) : C[j] \in 0..(len - 1)
      /\ \A j, q \in 1..Len(C) : j < q => C[j] < C[q]
  <2> HIDE DEF gone
  <2>1. QED
    BY <1>1, KeptAre
<1> DEFINE f == [j \in 1..n |-> C[c + j]]
<1>4. \A j \in 1..n : c + j \in 1..Len(C) /\ f[j] = C[c + j]
  BY <1>1, <1>2, <1>3
<1> HIDE DEF f
<1>5. ASSUME NEW j \in 1..n
      PROVE  f[j] \in Nat /\ f[j] <= len - 1 /\ text[f[j] + 1] \in Alnum
  <2>1. f[j] \in 0..(len - 1)
    BY <1>3, <1>4
  <2>2. text[f[j] + 1] \in Alnum
    <3>1. c + j \in 1..Len(made) /\ f[j] = C[c + j]
      BY <1>1, <1>4
    <3>2. made[c + j] = text[C[c + j] + 1] /\ made[c + j] \in Alnum
      BY <1>1, <1>2, <3>1
    <3>3. QED
      BY <3>1, <3>2
  <2>3. QED
    BY <1>1, <2>1, <2>2
<1>6. ASSUME NEW j \in 1..(n - 1), NEW x \in Int, f[j] < x, x < f[j + 1] PROVE Blank(text, x)
  <2>1. j \in 1..n /\ j + 1 \in 1..n /\ c + (j + 1) = (c + j) + 1
    OBVIOUS
  <2>2. c + j \in 1..Len(C) /\ (c + j) + 1 \in 1..Len(C) /\ f[j] = C[c + j] /\ f[j + 1] = C[(c + j) + 1]
    BY <1>4, <2>1
  <2>3. x \in gone
    <3> DEFINE i == c + j
    <3>1. i \in 1..Len(C) /\ i + 1 \in 1..Len(C) /\ C[i] < x /\ x < C[i + 1]
      BY <1>6, <2>2
    <3> HIDE DEF i, gone
    <3>2. QED
      BY <1>1, <3>1, BetweenGone
  <2>4. QED
    BY <2>3 DEF Blanks
<1> HIDE DEF gone, len
<1>7. ASSUME NEW j \in 1..(n - 1)
      PROVE  /\ f[j + 1] = f[j] + 1 \/ f[j + 1] = f[j] + 2
             /\ f[j + 1] = f[j] + 2 => Blank(text, f[j] + 1)
  <2>1. j \in 1..n /\ j + 1 \in 1..n /\ c + j < c + (j + 1)
    OBVIOUS
  <2>2. f[j] \in Nat /\ f[j + 1] \in Nat /\ f[j] < f[j + 1] /\ text[f[j + 1] + 1] \in Alnum
    BY <1>3, <1>4, <1>5, <2>1
  <2>3. ASSUME f[j] + 1 < f[j + 1] PROVE Blank(text, f[j] + 1)
    BY <1>6, <2>2, <2>3
  <2>4. ASSUME f[j] + 2 < f[j + 1] PROVE FALSE
    <3>1. Blank(text, f[j] + 1) /\ Blank(text, f[j] + 2)
      BY <1>6, <2>2, <2>4, SMTT(30)
    <3> DEFINE g == f[j] + 1
               h == f[j] + 2
    <3>2. g + 2 = h + 1 /\ Blank(text, g) /\ Blank(text, h)
      BY <2>2, <3>1
    <3> HIDE DEF g, h
    <3>3. text[g + 2] \in Alnum
      BY <1>1, <3>2, BlankIs DEF len
    <3>31. text[h + 1] = " "
      BY <3>2 DEF Blank
    <3>4. QED
      BY <3>2, <3>3, <3>31, BlankIsNoLetter
  <2>5. QED
    BY <2>2, <2>3, <2>4, SMTT(30)
<1>8. ASSUME NEW j \in 1..(n - 2)
      PROVE  f[j + 1] = f[j] + 1 <=> f[j + 2] = f[j + 1] + 1
  <2>1. /\ j \in 1..n /\ j + 1 \in 1..n /\ j + 2 \in 1..n
        /\ j \in 1..(n - 1) /\ j + 1 \in 1..(n - 1) /\ (j + 1) + 1 = j + 2
    OBVIOUS
  <2>2. /\ f[j] \in Nat /\ f[j + 1] \in Nat /\ f[j + 2] \in Nat /\ f[j + 2] <= len - 1
        /\ text[f[j] + 1] \in Alnum /\ text[f[j + 2] + 1] \in Alnum
    BY <1>5, <2>1
  <2>3. ASSUME f[j + 1] = f[j] + 1, f[j + 2] = f[j + 1] + 2 PROVE FALSE
    <3> DEFINE g == f[j + 1] + 1
    <3>1. Blank(text, g)
      BY <1>7, <2>1, <2>3
    <3>2. g - 1 # 0 /\ g - 1 = f[j] + 1
      <4>1. \A x, y \in Nat : y = x + 1 => (y + 1) - 1 # 0 /\ (y + 1) - 1 = x + 1
        OBVIOUS
      <4>2. QED
        BY <2>2, <2>3, <4>1
    <3>3. g - 1 = 0 \/ text[g - 1] \notin Alnum
      <4> HIDE DEF g
      <4>1. QED
        BY <1>1, <3>1, BlankIs DEF len
    <3>4. QED
      BY <2>2, <3>2, <3>3
  <2>4. ASSUME f[j + 1] = f[j] + 2, f[j + 2] = f[j + 1] + 1 PROVE FALSE
    <3> DEFINE g == f[j] + 1
    <3>1. Blank(text, g)
      BY <1>7, <2>1, <2>4
    <3>2. g + 2 # len /\ g + 3 = f[j + 2] + 1
      <4>1. PICK x, y, z \in Nat : x = f[j] /\ y = f[j + 1] /\ z = f[j + 2]
        BY <2>2
      <4>2. y = x + 2 /\ z = y + 1 /\ z <= len - 1
        BY <2>2, <2>4, <4>1
      <4>3. len \in Nat
        BY <1>1
      <4> HIDE DEF len
      <4>4. (x + 1) + 2 # len /\ (x + 1) + 3 = z + 1
        BY <4>2, <4>3
      <4>5. QED
        BY <4>1, <4>4
    <3>3. g + 2 = len \/ text[g + 3] \notin Alnum
      <4> HIDE DEF g
      <4>1. QED
        BY <1>1, <3>1, BlankIs DEF len
    <3>4. QED
      BY <2>2, <3>2, <3>3
  <2>5. /\ f[j + 1] = f[j] + 1 \/ f[j + 1] = f[j] + 2
        /\ f[j + 2] = f[j + 1] + 1 \/ f[j + 2] = f[j + 1] + 2
    BY <1>7, <2>1
  <2>6. QED
    BY <2>3, <2>4, <2>5
<1>9. 1 \in 1..n /\ f[1] \in Nat
  BY <1>5
<1>10. CASE n = 1 \/ f[2] = f[1] + 1
  <2> DEFINE S == {j \in 1..n : f[j] = f[1] + (j - 1) /\ (j < n => f[j + 1] = f[j] + 1)}
  <2>1. 1 \in S
    BY <1>9, <1>10
  <2>2. ASSUME NEW j \in 1..(n - 1), j \in S PROVE j + 1 \in S
    <3>1. f[j] = f[1] + (j - 1) /\ f[j + 1] = f[j] + 1 /\ j + 1 \in 1..n
      BY <2>2
    <3>2. f[j + 1] = f[1] + ((j + 1) - 1)
      BY <1>9, <3>1
    <3>3. j + 1 < n => f[(j + 1) + 1] = f[j + 1] + 1
      <4>1. SUFFICES ASSUME j + 1 < n PROVE f[(j + 1) + 1] = f[j + 1] + 1
        OBVIOUS
      <4>2. j \in 1..(n - 2) /\ (j + 1) + 1 = j + 2
        BY <4>1
      <4>3. QED
        BY <1>8, <3>1, <4>2
    <3>4. QED
      BY <3>1, <3>2, <3>3
  <2>3. 1..n \subseteq S
    <3>1. 1 \in Int /\ n \in Int
      OBVIOUS
    <3> HIDE DEF S
    <3>2. QED
      BY <2>1, <2>2, <3>1, UpTo
  <2>4. \A j \in 1..n : f[j] = f[1] + (j - 1)
    BY <2>3
  <2>5. \A j \in 1..n : C[c + j] = C[c + 1] + (j - 1)
    BY <1>4, <1>9, <2>4
  <2>6. QED
    BY <2>5 DEF C
<1>11. CASE n # 1 /\ f[2] # f[1] + 1
  <2> DEFINE S == {j \in 1..n : f[j] = f[1] + 2 * (j - 1) /\ (j < n => f[j + 1] = f[j] + 2)}
  <2>0. n >= 2 /\ n \in Int
    BY <1>11
  <2>1. 1 \in S
    <3>1. 1 \in 1..(n - 1) /\ 1 + 1 = 2
      BY <2>0
    <3>2. f[2] = f[1] + 2
      BY <1>7, <1>11, <3>1
    <3>3. QED
      BY <1>9, <3>2
  <2>2. ASSUME NEW j \in 1..(n - 1), j \in S PROVE j + 1 \in S
    <3>1. f[j] = f[1] + 2 * (j - 1) /\ f[j + 1] = f[j] + 2 /\ j + 1 \in 1..n /\ j \in 1..n
      BY <2>2
    <3>2. f[j + 1] = f[1] + 2 * ((j + 1) - 1) /\ f[j] \in Nat /\ f[j + 1] # f[j] + 1
      BY <1>5, <1>9, <3>1, SMTT(30)
    <3>3. j + 1 < n => f[(j + 1) + 1] = f[j + 1] + 2
      <4>1. SUFFICES ASSUME j + 1 < n PROVE f[(j + 1) + 1] = f[j + 1] + 2
        OBVIOUS
      <4>2. j \in 1..(n - 2) /\ j + 1 \in 1..(n - 1) /\ (j + 1) + 1 = j + 2
        BY <4>1
      <4>3. f[j + 2] # f[j + 1] + 1
        BY <1>8, <3>2, <4>2
      <4>4. QED
        BY <1>7, <4>2, <4>3
    <3>4. QED
      BY <3>1, <3>2, <3>3
  <2>3. 1..n \subseteq S
    <3>1. 1 \in Int /\ n \in Int
      OBVIOUS
    <3> HIDE DEF S
    <3>2. QED
      BY <2>1, <2>2, <3>1, UpTo
  <2> DEFINE a == f[1]
  <2>4. /\ \A j \in 1..n : f[j] = a + 2 * (j - 1)
        /\ \A j \in 1..(n - 1) : f[j + 1] = f[j] + 2
    BY <2>3, SMTT(30)
  <2>5. a \in Nat /\ n \in 1..n
    BY <1>9
  <2> HIDE DEF S, a
  <2>6. a + 2 * n - 1 <= len
    <3>1. f[n] = a + 2 * (n - 1) /\ f[n] <= len - 1
      BY <1>5, <2>4, <2>5
    <3>2. QED
      BY <1>1, <2>0, <2>5, <3>1
  <2>7. ASSUME NEW j \in 0..(n - 1) PROVE text[a + 2 * j + 1] \in Alnum
    <3>1. j + 1 \in 1..n /\ (j + 1) - 1 = j
      OBVIOUS
    <3>2. f[j + 1] = a + 2 * j /\ text[f[j + 1] + 1] \in Alnum
      BY <1>5, <2>4, <3>1
    <3>3. QED
      BY <3>2
  <2>8. ASSUME NEW j \in 0..(n - 2) PROVE Blank(text, a + 2 * j + 1)
    <3>1. j + 1 \in 1..(n - 1) /\ j + 1 \in 1..n /\ (j + 1) - 1 = j
      OBVIOUS
    <3>2. f[j + 1] = a + 2 * j /\ Blank(text, f[j + 1] + 1)
      BY <1>7, <2>4, <3>1
    <3>3. QED
      BY <3>2
  <2>9. ASSUME NEW j \in 0..(n - 2) PROVE text[a + 2 * j + 2] = " "
    <3> DEFINE g == a + 2 * j + 1
    <3>1. g + 1 = a + 2 * j + 2 /\ j \in Int
      BY <2>5
    <3>2. Blank(text, g)
      BY <2>8
    <3> HIDE DEF g
    <3>3. text[g + 1] = " "
      BY <3>2 DEF Blank
    <3>4. QED
      BY <3>1, <3>3
  <2>10. a = 0 \/ text[a] \notin Alnum
    <3> DEFINE g == a + 1
    <3>1. 0 \in 0..(n - 2) /\ g = a + 2 * 0 + 1 /\ g - 1 = a
      BY <2>0, <2>5
    <3>2. Blank(text, g)
      BY <2>8, <3>1
    <3> HIDE DEF g
    <3>3. g - 1 = 0 \/ text[g - 1] \notin Alnum
      BY <1>1, <3>2, BlankIs DEF len
    <3>4. QED
      BY <3>1, <3>3
  <2>11. a + 2 * n - 1 = len \/ text[a + 2 * n] \notin Alnum
    <3> DEFINE g == a + 2 * (n - 2) + 1
    <3>1. n - 2 \in 0..(n - 2) /\ g + 2 = a + 2 * n - 1 /\ g + 3 = a + 2 * n
      BY <2>0, <2>5
    <3>2. Blank(text, g)
      BY <2>8, <3>1
    <3> HIDE DEF g
    <3>3. g + 2 = len \/ text[g + 3] \notin Alnum
      BY <1>1, <3>2, BlankIs DEF len
    <3>4. QED
      BY <3>1, <3>3
  <2>12. Singles(text, a, n)
    BY <2>5, <2>6, <2>7, <2>9, <2>10, <2>11 DEF Singles, len
  <2>13. a = C[c + 1] /\ \A j \in 1..n : C[c + j] = a + 2 * (j - 1)
    BY <1>4, <1>9, <2>4 DEF a
  <2>14. QED
    BY <2>0, <2>12, <2>13 DEF C
<1>12. QED
  BY <1>10, <1>11

\* A run of single characters is joined in the collapsed text, which is shorter.
LEMMA RunTaken ==
    ASSUME NEW text \in Seq(Chars), NEW a, NEW n, n \in Nat, n >= 2, Singles(text, a, n)
    PROVE  LET C == Collapse(text).positions
           IN /\ \E c \in Nat : c + n <= Len(C) /\ \A j \in 1..n : C[c + j] = a + 2 * (j - 1)
              /\ Len(Collapse(text).text) < Len(text)
<1> DEFINE C == Collapse(text).positions
           made == Collapse(text).text
           gone == Blanks(text)
           len == Len(text)
<1>1. Keeps(C, gone, len) /\ Len(made) = Len(C) /\ len \in Nat
  BY CollapseIs
<1>2. a \in Nat /\ a + 2 * n - 1 <= len
  BY DEF Singles
<1>3. ASSUME NEW j \in 0..(n - 2)
      PROVE  a + 2 * j + 1 \in 0..(len - 1) /\ a + 2 * j + 1 \in gone
  <2> DEFINE g == a + 2 * j + 1
  <2>1. g \in 0..(len - 1) /\ a <= g /\ g < a + 2 * n - 1 /\ g + 1 = a + 2 * j + 2
    BY <1>2
  <2>2. text[g + 1] = " "
    BY <2>1 DEF Singles
  <2>3. PICK r \in SpacedRuns(text) : r[1] <= a /\ a + 2 * n - 1 <= r[2]
    BY <1>1, RunsAre DEF len
  <2>4. r[1] \in Int /\ r[2] \in Int
    <3>1. PICK m : r[2] = r[1] + 2 * m - 1 /\ Singles(text, r[1], m)
      BY <1>1, RunsAre DEF len
    <3>2. r[1] \in Nat /\ m \in Nat
      BY <3>1 DEF Singles
    <3>3. QED
      BY <3>1, <3>2
  <2>5. a \in Int /\ g \in Int /\ a + 2 * n - 1 \in Int
    BY <1>2, <2>1
  <2> HIDE DEF g
  <2>6. r[1] <= g /\ g < r[2]
    BY <2>1, <2>3, <2>4, <2>5
  <2>7. g \in gone
    BY <2>1, <2>2, <2>3, <2>6 DEF Blank, Blanks
  <2>8. QED
    BY <2>1, <2>7 DEF g
<1>4. ASSUME NEW j \in 0..(n - 1)
      PROVE  a + 2 * j \in 0..(len - 1) /\ a + 2 * j \notin gone
  <2> DEFINE x == a + 2 * j
  <2>1. x \in 0..(len - 1)
    BY <1>2
  <2>2. text[x + 1] \in Alnum
    BY DEF Singles
  <2>3. x \notin gone
    BY <2>2, BlankIsNoLetter DEF Blank, Blanks
  <2>4. QED
    BY <2>1, <2>3
<1> HIDE DEF C, gone, len, made
<1>5. Len(made) < len
  <2> DEFINE g == a + 2 * 0 + 1
  <2>1. g \in 0..(len - 1) /\ g \in gone
    <3>1. 0 \in 0..(n - 2)
      OBVIOUS
    <3>2. QED
      BY <1>3, <3>1
  <2> HIDE DEF g
  <2>2. QED
    BY <1>1, <2>1, ShorterWithout
<1>6. /\ Len(C) \in Nat
      /\ \A x \in 0..(len - 1) : x \notin gone => \E j \in 1..Len(C) : C[j] = x
  BY <1>1, KeptAre
<1>7. PICK i \in 1..Len(C) : C[i] = a
  <2>1. 0 \in 0..(n - 1) /\ a + 2 * 0 = a
    BY <1>2
  <2>2. a \in 0..(len - 1) /\ a \notin gone
    BY <1>4, <2>1
  <2>3. QED
    BY <1>6, <2>2
<1> DEFINE c == i - 1
           S == {j \in 1..n : c + j \in 1..Len(C) /\ C[c + j] = a + 2 * (j - 1)}
<1>8. c \in Nat /\ c + 1 = i
  OBVIOUS
<1>9. 1 \in S
  BY <1>2, <1>7, <1>8
<1>10. ASSUME NEW j \in 1..(n - 1), j \in S PROVE j + 1 \in S
  <2> DEFINE q == c + j
             y == a + 2 * j
             g == a + 2 * (j - 1) + 1
  <2>1. q \in 1..Len(C) /\ C[q] = a + 2 * (j - 1) /\ j + 1 \in 1..n
    BY <1>10
  <2>2. y \in 0..(len - 1) /\ y \notin gone
    <3>1. j \in 0..(n - 1)
      OBVIOUS
    <3>2. QED
      BY <1>4, <3>1
  <2>3. g \in gone
    <3>1. j - 1 \in 0..(n - 2)
      OBVIOUS
    <3>2. QED
      BY <1>3, <3>1
  <2>4. C[q] < y /\ C[q] + 1 = g /\ y - 1 = g
    BY <1>2, <2>1
  <2>5. \A x \in (C[q] + 1)..(y - 1) : x \in gone
    <3>1. g \in Int
      BY <1>2
    <3> HIDE DEF g
    <3>2. \A x \in g..g : x = g
      BY <3>1
    <3>3. QED
      BY <2>3, <2>4, <3>2
  <2> HIDE DEF q, y, g
  <2>6. q + 1 \in 1..Len(C) /\ C[q + 1] = y
    BY <1>1, <2>1, <2>2, <2>4, <2>5, NextKept
  <2>7. q + 1 = c + (j + 1) /\ (j + 1) - 1 = j
    BY <1>8 DEF q
  <2>8. QED
    BY <2>1, <2>6, <2>7 DEF y
<1>11. 1..n \subseteq S
  <2>1. 1 \in Int /\ n \in Int
    OBVIOUS
  <2> HIDE DEF S
  <2>2. QED
    BY <1>9, <1>10, <2>1, UpTo
<1>12. c + n <= Len(C) /\ \A j \in 1..n : C[c + j] = a + 2 * (j - 1)
  <2>1. n \in S
    BY <1>11
  <2>2. QED
    BY <1>11, <2>1
<1> HIDE DEF c, S
<1>13. QED
  BY <1>5, <1>8, <1>12 DEF C, made, len

-----------------------------------------------------------------------------
(* What matches in the document matches in its chunks. *)

\* What a normalized text is for those who search it.
Made(made) ==
    /\ made.text \in Seq(Chars)
    /\ \A i \in 1..Len(made.text) : made.positions[i] \in Int
    /\ \A i, j \in 1..Len(made.text) : i < j => made.positions[i] < made.positions[j]

\* A normalized text is such a text.
LEMMA NormalizedIsMade == ASSUME NEW text \in Seq(Chars) PROVE Made(Normalize(text))
<1> DEFINE gone == {i \in 0..(Len(text) - 1) : text[i + 1] \in Invisible}
           made == Normalize(text)
<1>1. /\ Keeps(made.positions, gone, Len(text)) /\ made.text \in Seq(Chars)
      /\ Len(made.text) = Len(made.positions) /\ Len(text) \in Nat
  <2>1. Len(text) \in Nat
    OBVIOUS
  <2>2. QED
    BY <2>1, NormalizeIs
<1> HIDE DEF gone, made
<1>2. QED
  BY <1>1, KeptAre DEF Made, made

\* A pattern stands in a text from a place on.
Stands(pattern, text, s) ==
    /\ s \in 0..(Len(text) - Len(pattern))
    /\ \A j \in 1..Len(pattern) : text[s + j] = pattern[j]

\* Where a pattern occurs it stands, character by character.
LEMMA OccursAt ==
    ASSUME NEW pattern \in Seq(Chars), NEW text \in Seq(Chars)
    PROVE  /\ \A o \in Occurrences(pattern, text) :
                 Stands(pattern, text, o.start) /\ o.end = o.start + Len(pattern)
           /\ \A s : Stands(pattern, text, s) =>
                 [start |-> s, end |-> s + Len(pattern)] \in Occurrences(pattern, text)
<1> DEFINE n == Len(pattern)
           len == Len(text)
<1>1. n \in Nat /\ len \in Nat /\ \A i \in 1..len : text[i] \in Chars
  OBVIOUS
<1>2. ASSUME NEW s \in 0..(len - n)
      PROVE  SubSeq(text, s + 1, s + n) = pattern <=> \A j \in 1..n : text[s + j] = pattern[j]
  <2> DEFINE part == SubSeq(text, s + 1, s + n)
  <2>1. s + 1 \in Int /\ s + n \in Int /\ \A i \in (s + 1)..(s + n) : text[i] \in Chars
    BY <1>1
  <2>2. /\ part \in Seq(Chars)
        /\ Len(part) = IF s + 1 <= s + n THEN (s + n) - (s + 1) + 1 ELSE 0
        /\ \A j \in 1..Len(part) : part[j] = text[(s + 1) + j - 1]
    BY <2>1, SubSeqProperties
  <2> HIDE DEF part
  <2>3. Len(part) = n
    BY <1>1, <2>2
  <2>4. \A j \in 1..n : part[j] = text[s + j]
    <3>1. \A j \in 1..n : (s + 1) + j - 1 = s + j
      BY <1>1
    <3>2. QED
      BY <2>2, <2>3, <3>1
  <2>5. part = pattern <=> \A j \in 1..n : part[j] = pattern[j]
    <3>1. part \in Seq(Chars) /\ pattern \in Seq(Chars) /\ Len(part) = Len(pattern)
      BY <2>2, <2>3
    <3>2. QED
      BY <3>1, SeqEqual
  <2>6. QED
    BY <2>4, <2>5 DEF part
<1>3. Occurrences(pattern, text) =
         {[start |-> s, end |-> s + n] :
             s \in {i \in 0..(len - n) : \A j \in 1..n : text[i + j] = pattern[j]}}
  <2> DEFINE A == {i \in 0..(len - n) : SubSeq(text, i + 1, i + n) = pattern}
             B == {i \in 0..(len - n) : \A j \in 1..n : text[i + j] = pattern[j]}
  <2>1. A = B
    BY <1>2
  <2>2. Occurrences(pattern, text) = {[start |-> s, end |-> s + n] : s \in A}
    BY DEF Occurrences
  <2> HIDE DEF A
  <2>3. QED
    BY <2>1, <2>2
<1>4. ASSUME NEW o \in Occurrences(pattern, text)
      PROVE  Stands(pattern, text, o.start) /\ o.end = o.start + Len(pattern)
  <2>1. PICK s \in 0..(len - n) : /\ \A j \in 1..n : text[s + j] = pattern[j]
                                  /\ o = [start |-> s, end |-> s + n]
    BY <1>3
  <2>2. o.start = s /\ o.end = s + n
    BY <2>1
  <2>3. QED
    BY <2>1, <2>2 DEF Stands
<1>5. ASSUME NEW s, Stands(pattern, text, s)
      PROVE  [start |-> s, end |-> s + Len(pattern)] \in Occurrences(pattern, text)
  <2>1. s \in {i \in 0..(len - n) : \A j \in 1..n : text[i + j] = pattern[j]}
    BY <1>5 DEF Stands
  <2>2. QED
    BY <1>3, <2>1
<1>6. QED
  BY <1>4, <1>5

\* A pattern as it stands in a text, and in it with the blanks of runs taken out,
\* from an original offset to another.
AtPlain(pattern, made, s, first, last) ==
    /\ Stands(pattern, made.text, s)
    /\ made.positions[s + 1] = first /\ made.positions[s + Len(pattern)] = last
AtRun(pattern, made, c, first, last) ==
    LET closed == Collapse(made.text)
    IN /\ Stands(pattern, closed.text, c)
       /\ made.positions[closed.positions[c + 1] + 1] = first
       /\ made.positions[closed.positions[c + Len(pattern)] + 1] = last

\* Characters between two that lie in a part lie in it.
LEMMA BetweenInPart ==
    ASSUME NEW whole, NEW part, NEW d, NEW base \in Int, NEW end \in Int,
           Shifts(whole, part, d, base, end), Made(whole),
           NEW a \in 1..Len(whole.text), NEW b \in 1..Len(whole.text),
           base <= whole.positions[a], whole.positions[b] < end,
           NEW q \in a..b
    PROVE  /\ q \in 1..Len(whole.text) /\ q - d \in 1..Len(part.text)
           /\ whole.text[q] = part.text[q - d]
           /\ whole.positions[q] = part.positions[q - d] + base
<1> DEFINE len == Len(whole.text)
           W == whole.positions
<1>1. len \in Nat /\ \A i \in 1..len : W[i] \in Int
  BY DEF Made
<1>2. \A i, j \in 1..len : i < j => W[i] < W[j]
  BY DEF Made
<1> HIDE DEF len, W
<1>3. a \in 1..len /\ b \in 1..len /\ base <= W[a] /\ W[b] < end
  BY DEF len, W
<1>4. q \in 1..len /\ q \in Int /\ (a = q \/ a < q) /\ (q = b \/ q < b)
  BY <1>1, <1>3
<1>5. base <= W[q]
  BY <1>1, <1>2, <1>3, <1>4
<1>6. W[q] < end
  BY <1>1, <1>2, <1>3, <1>4
<1>7. q - d \in 1..Len(part.text) /\ d \in Int
  BY <1>4, <1>5, <1>6 DEF Shifts, len, W
<1>8. (q - d) + d = q
  BY <1>4, <1>7
<1>9. QED
  BY <1>4, <1>7, <1>8 DEF Shifts, len

\* A pattern that stands in the whole between the bounds of a part stands in it.
LEMMA PlainInPart ==
    ASSUME NEW whole, NEW part, NEW d, NEW base \in Int, NEW end \in Int,
           Shifts(whole, part, d, base, end), Made(whole), Made(part),
           NEW pattern \in Seq(Chars), Len(pattern) \in Nat \ {0}, NEW s, NEW first, NEW last,
           AtPlain(pattern, whole, s, first, last), base <= first, last < end
    PROVE  AtPlain(pattern, part, s - d, first - base, last - base)
<1> DEFINE n == Len(pattern)
           len == Len(whole.text)
           size == Len(part.text)
<1>1. /\ s \in 0..(len - n) /\ n \in Nat \ {0} /\ len \in Nat /\ size \in Nat /\ d \in Int
      /\ \A j \in 1..n : whole.text[s + j] = pattern[j]
  BY DEF AtPlain, Stands, Made, Shifts
<1>2. whole.positions[s + 1] = first /\ whole.positions[s + n] = last
  BY DEF AtPlain
<1> HIDE DEF n, len, size
<1>3. s + 1 \in 1..len /\ s + n \in 1..len /\ s \in Int
  BY <1>1, SMTT(30)
<1>4. ASSUME NEW j \in 1..n
      PROVE  /\ (s + j) - d \in 1..size /\ whole.text[s + j] = part.text[(s + j) - d]
             /\ whole.positions[s + j] = part.positions[(s + j) - d] + base
             /\ (s + j) - d = (s - d) + j
  <2> DEFINE a == s + 1
             b == s + n
             q == s + j
  <2>1. a \in 1..len /\ b \in 1..len /\ q \in a..b
    BY <1>1, <1>3, SMTT(30)
  <2>2. base <= whole.positions[a] /\ whole.positions[b] < end
    BY <1>2
  <2>3. (s + j) - d = (s - d) + j
    BY <1>1, <1>3
  <2> HIDE DEF a, b, q
  <2>4. /\ q - d \in 1..size /\ whole.text[q] = part.text[q - d]
        /\ whole.positions[q] = part.positions[q - d] + base
    BY <2>1, <2>2, BetweenInPart DEF len, size
  <2>5. QED
    BY <2>3, <2>4 DEF q
<1>5. 1 \in 1..n /\ n \in 1..n
  BY <1>1
<1>6. s - d \in 0..(size - n)
  <2>1. (s - d) + 1 \in 1..size /\ (s - d) + n \in 1..size
    BY <1>4, <1>5
  <2>2. QED
    BY <1>1, <1>3, <2>1
<1>7. \A j \in 1..n : part.text[(s - d) + j] = pattern[j]
  BY <1>1, <1>4
<1>8. /\ part.positions[(s - d) + 1] + base = first
      /\ part.positions[(s - d) + n] + base = last
  BY <1>2, <1>4, <1>5
<1>9. /\ part.positions[(s - d) + 1] \in Int /\ part.positions[(s - d) + n] \in Int
  BY <1>4, <1>5 DEF Made, size
<1>10. /\ part.positions[(s - d) + 1] = first - base
       /\ part.positions[(s - d) + n] = last - base
  BY <1>8, <1>9
<1>11. QED
  BY <1>6, <1>7, <1>10 DEF AtPlain, Stands, n, size

\* A run that lies between the bounds of a part is a run of it, for the part's
\* edges end a run as the characters beside it do.
LEMMA SinglesInPart ==
    ASSUME NEW whole, NEW part, NEW d, NEW base \in Int, NEW end \in Int,
           Shifts(whole, part, d, base, end), Made(whole), Made(part),
           NEW a, NEW n, Singles(whole.text, a, n),
           base <= whole.positions[a + 1], whole.positions[a + 2 * n - 1] < end
    PROVE  Singles(part.text, a - d, n)
<1> DEFINE len == Len(whole.text)
           size == Len(part.text)
           last == a + 2 * n - 1
<1>1. /\ a \in Nat /\ n \in Nat \ {0} /\ n >= MinRun /\ last <= len
      /\ len \in Nat /\ size \in Nat /\ d \in Int
  <2>1. a \in Nat /\ n \in Nat \ {0} /\ n >= MinRun /\ last <= len
    BY DEF Singles
  <2>2. len \in Nat /\ size \in Nat
    BY DEF Made
  <2>3. QED
    BY <2>1, <2>2 DEF Shifts
<1>2. a + 1 \in 1..len /\ last \in 1..len
  BY <1>1
<1>3. ASSUME NEW q \in (a + 1)..last
      PROVE  q - d \in 1..size /\ whole.text[q] = part.text[q - d]
  <2> DEFINE first == a + 1
  <2>1. first \in 1..len /\ base <= whole.positions[first] /\ q \in first..last
    BY <1>2
  <2> HIDE DEF first, last
  <2>2. last \in 1..len /\ whole.positions[last] < end
    BY <1>2 DEF last
  <2>3. QED
    BY <2>1, <2>2, BetweenInPart DEF len, size
<1> HIDE DEF len, size
<1>4. (a + 1) - d \in 1..size /\ last - d \in 1..size
  <2>1. a + 1 \in (a + 1)..last /\ last \in (a + 1)..last
    BY <1>1
  <2>2. QED
    BY <1>3, <2>1
<1>5. a - d \in Nat /\ (a - d) + 2 * n - 1 <= size /\ last - d = (a - d) + 2 * n - 1
  BY <1>1, <1>4
<1>6. ASSUME NEW j \in 0..(n - 1) PROVE part.text[(a - d) + 2 * j + 1] \in Alnum
  <2>1. a + 2 * j + 1 \in (a + 1)..last /\ (a + 2 * j + 1) - d = (a - d) + 2 * j + 1
    BY <1>1
  <2>2. whole.text[a + 2 * j + 1] \in Alnum
    BY DEF Singles
  <2>3. QED
    BY <1>3, <2>1, <2>2
<1>7. ASSUME NEW j \in 0..(n - 2) PROVE part.text[(a - d) + 2 * j + 2] = " "
  <2>1. a + 2 * j + 2 \in (a + 1)..last /\ (a + 2 * j + 2) - d = (a - d) + 2 * j + 2
    BY <1>1
  <2>2. whole.text[a + 2 * j + 2] = " "
    BY DEF Singles
  <2>3. QED
    BY <1>3, <2>1, <2>2
<1>8. a - d = 0 \/ part.text[a - d] \notin Alnum
  <2> DEFINE i == a - d
  <2>1. SUFFICES ASSUME i # 0 PROVE part.text[i] \notin Alnum
    OBVIOUS
  <2>2. i \in 1..size /\ i + d = a
    BY <1>1, <1>4, <1>5, <2>1
  <2> HIDE DEF i
  <2>3. a \in 1..len /\ whole.text[a] = part.text[i]
    BY <2>2 DEF Shifts, len, size
  <2>4. a # 0
    BY <2>3
  <2>5. QED
    BY <2>3, <2>4 DEF Singles
<1>9. (a - d) + 2 * n - 1 = size \/ part.text[(a - d) + 2 * n] \notin Alnum
  <2> DEFINE i == (a - d) + 2 * n
             z == a + 2 * n
  <2>1. SUFFICES ASSUME (a - d) + 2 * n - 1 # size PROVE part.text[i] \notin Alnum
    OBVIOUS
  <2>2. i \in 1..size /\ i + d = z
    BY <1>1, <1>5, <2>1
  <2>3. last # len => whole.text[z] \notin Alnum
    BY DEF Singles, len
  <2>4. z = last + 1
    BY <1>1
  <2> HIDE DEF i, z, last
  <2>5. z \in 1..len /\ whole.text[z] = part.text[i]
    BY <2>2 DEF Shifts, len, size
  <2>6. last # len
    BY <1>1, <2>4, <2>5
  <2>7. QED
    BY <2>3, <2>5, <2>6
<1> HIDE DEF last
<1>10. QED
  BY <1>1, <1>5, <1>6, <1>7, <1>8, <1>9 DEF Singles, size

\* A pattern of letters and digits that stands in the whole, apart or not,
\* between the bounds of a part stands in it, apart or not.
LEMMA RunInPart ==
    ASSUME NEW whole, NEW part, NEW d, NEW base \in Int, NEW end \in Int,
           Shifts(whole, part, d, base, end), Made(whole), Made(part),
           NEW pattern \in Seq(Alnum), Len(pattern) \in Nat \ {0}, Len(pattern) >= MinRun,
           NEW c, NEW first, NEW last, AtRun(pattern, whole, c, first, last),
           base <= first, last < end
    PROVE  \/ \E s : AtPlain(pattern, part, s, first - base, last - base)
           \/ /\ Len(Collapse(part.text).text) < Len(part.text)
              /\ \E s : AtRun(pattern, part, s, first - base, last - base)
<1> DEFINE n == Len(pattern)
           made == Collapse(whole.text).text
           C == Collapse(whole.text).positions
<1>1. /\ Len(made) = Len(C) /\ Len(made) \in Nat
      /\ \A i \in 1..Len(made) : made[i] = whole.text[C[i] + 1]
      /\ \A i \in 1..Len(made) : C[i] \in 0..(Len(whole.text) - 1)
  <2>1. whole.text \in Seq(Chars)
    BY DEF Made
  <2>2. /\ Len(whole.text) \in Nat /\ Keeps(C, Blanks(whole.text), Len(whole.text))
        /\ made \in Seq(Chars) /\ Len(made) = Len(C)
        /\ \A i \in 1..Len(made) : made[i] = whole.text[C[i] + 1]
    BY <2>1, CollapseIs
  <2> HIDE DEF C, made
  <2>3. \A i \in 1..Len(C) : C[i] \in 0..(Len(whole.text) - 1)
    BY <2>2, KeptAre
  <2>4. QED
    BY <2>2, <2>3
<1>2. /\ c \in 0..(Len(made) - n) /\ n \in Nat \ {0} /\ n >= MinRun
      /\ \A j \in 1..n : made[c + j] = pattern[j]
      /\ whole.positions[C[c + 1] + 1] = first /\ whole.positions[C[c + n] + 1] = last
  BY DEF AtRun, Stands
<1>3. \A j \in 1..n : pattern[j] \in Alnum
  OBVIOUS
<1>4. pattern \in Seq(Chars)
  <2>1. Alnum \subseteq Chars
    BY DEF Chars
  <2> HIDE DEF n
  <2>2. QED
    BY <2>1
<1>5. c \in Nat /\ c + n <= Len(made) /\ \A j \in 1..n : c + j \in 1..Len(made)
  BY <1>1, <1>2
<1>6. \/ \A j \in 1..n : C[c + j] = C[c + 1] + (j - 1)
      \/ /\ n >= 2 /\ Singles(whole.text, C[c + 1], n)
         /\ \A j \in 1..n : C[c + j] = C[c + 1] + 2 * (j - 1)
  <2>1. \A j \in 1..n : made[c + j] \in Alnum
    BY <1>2, <1>3
  <2>2. whole.text \in Seq(Chars)
    BY DEF Made
  <2> HIDE DEF n
  <2>3. QED
    BY <1>2, <1>5, <2>1, <2>2, PlainOrRun
<1> HIDE DEF made, C
<1> DEFINE a == C[c + 1]
<1>7. 1 \in 1..n /\ n \in 1..n
  BY <1>2
<1>8. a \in 0..(Len(whole.text) - 1) /\ Len(whole.text) \in Nat
  <2>1. c + 1 \in 1..Len(made)
    BY <1>5, <1>7
  <2>2. QED
    BY <1>1, <2>1 DEF Made
<1>9. ASSUME NEW j \in 1..n
      PROVE  /\ pattern[j] = whole.text[C[c + j] + 1]
             /\ C[c + j] \in 0..(Len(whole.text) - 1)
  BY <1>1, <1>2, <1>5
<1> HIDE DEF a
<1>10. CASE \A j \in 1..n : C[c + j] = a + (j - 1)
  <2>1. \A j \in 1..n : C[c + j] + 1 = a + j
    BY <1>8, <1>10
  <2>2. \A j \in 1..n : whole.text[a + j] = pattern[j]
    BY <1>9, <2>1
  <2>3. a + n \in 1..Len(whole.text)
    <3>1. C[c + n] + 1 = a + n /\ C[c + n] \in 0..(Len(whole.text) - 1)
      BY <1>7, <1>9, <2>1
    <3>2. QED
      BY <1>8, <3>1
  <2>4. a \in 0..(Len(whole.text) - n)
    BY <1>2, <1>8, <2>3
  <2>5. whole.positions[a + 1] = first /\ whole.positions[a + n] = last
    BY <1>2, <1>7, <2>1
  <2>6. AtPlain(pattern, whole, a, first, last)
    BY <2>2, <2>4, <2>5 DEF AtPlain, Stands
  <2>7. AtPlain(pattern, part, a - d, first - base, last - base)
    BY <1>2, <1>4, <2>6, PlainInPart
  <2>8. QED
    BY <2>7
<1>11. CASE /\ n >= 2 /\ Singles(whole.text, a, n)
            /\ \A j \in 1..n : C[c + j] = a + 2 * (j - 1)
  <2> DEFINE b == a - d
             made1 == Collapse(part.text).text
             C1 == Collapse(part.text).positions
             end1 == a + 2 * n - 1
  <2>1. C[c + n] + 1 = end1 /\ a \in Nat /\ n \in Nat /\ d \in Int
    <3>1. C[c + n] = a + 2 * (n - 1)
      BY <1>7, <1>11
    <3>2. QED
      BY <1>2, <1>8, <3>1 DEF Shifts
  <2>2. whole.positions[a + 1] = first /\ whole.positions[end1] = last
    BY <1>2, <2>1 DEF a
  <2> HIDE DEF end1
  <2>3. Singles(part.text, b, n)
    BY <1>11, <2>2, SinglesInPart DEF end1
  <2>4. part.text \in Seq(Chars)
    BY DEF Made
  <2>5. /\ Len(made1) = Len(C1) /\ \A i \in 1..Len(made1) : made1[i] = part.text[C1[i] + 1]
        /\ made1 \in Seq(Chars)
    BY <2>4, CollapseIs
  <2> HIDE DEF b
  <2>6. /\ \E i \in Nat : i + n <= Len(C1) /\ \A j \in 1..n : C1[i + j] = b + 2 * (j - 1)
        /\ Len(made1) < Len(part.text)
    BY <1>11, <2>1, <2>3, <2>4, RunTaken
  <2> HIDE DEF made1, C1
  <2>7. PICK i \in Nat : i + n <= Len(C1) /\ \A j \in 1..n : C1[i + j] = b + 2 * (j - 1)
    BY <2>6
  <2>8. Len(made1) \in Nat /\ b \in Int
    BY <2>1, <2>5 DEF b
  <2>9. ASSUME NEW j \in 1..n
        PROVE  /\ made1[i + j] = pattern[j]
               /\ whole.positions[C[c + j] + 1] = part.positions[C1[i + j] + 1] + base
    <3> DEFINE q == a + 2 * (j - 1) + 1
    <3>1. C[c + j] + 1 = q /\ C1[i + j] + 1 = q - d
      <4>1. C[c + j] = a + 2 * (j - 1) /\ C1[i + j] = b + 2 * (j - 1)
        BY <1>11, <2>7
      <4>2. QED
        BY <2>1, <4>1 DEF b
    <3>2. a + 1 \in 1..Len(whole.text) /\ end1 \in 1..Len(whole.text) /\ q \in (a + 1)..end1
      <4>1. C[c + n] \in 0..(Len(whole.text) - 1)
        BY <1>7, <1>9
      <4>2. QED
        BY <1>8, <2>1, <4>1, SMTT(30) DEF end1
    <3> DEFINE start == a + 1
    <3>3. start \in 1..Len(whole.text) /\ q \in start..end1 /\ base <= whole.positions[start]
      BY <2>2, <3>2
    <3> HIDE DEF q, start
    <3>4. /\ whole.text[q] = part.text[q - d]
          /\ whole.positions[q] = part.positions[q - d] + base
      BY <2>2, <3>2, <3>3, BetweenInPart
    <3>5. i + j \in 1..Len(made1)
      BY <2>1, <2>5, <2>7, <2>8
    <3>6. made1[i + j] = part.text[q - d]
      BY <2>5, <3>1, <3>5
    <3>7. QED
      BY <1>9, <3>1, <3>4, <3>6
  <2>10. i \in 0..(Len(made1) - n)
    BY <2>1, <2>5, <2>7, <2>8
  <2>11. /\ first = part.positions[C1[i + 1] + 1] + base
         /\ last = part.positions[C1[i + n] + 1] + base
    BY <1>2, <1>7, <2>9
  <2>12. part.positions[C1[i + 1] + 1] \in Int /\ part.positions[C1[i + n] + 1] \in Int
    <3>1. i + 1 \in 1..Len(C1) /\ i + n \in 1..Len(C1)
      BY <2>1, <2>5, <2>7, <2>8, <1>7
    <3>2. /\ Len(part.text) \in Nat /\ \A x \in 1..Len(C1) : C1[x] \in 0..(Len(part.text) - 1)
      <4>1. Len(part.text) \in Nat /\ Keeps(C1, Blanks(part.text), Len(part.text))
        BY <2>4, CollapseIs DEF C1
      <4>2. QED
        BY <4>1, KeptAre
    <3>3. C1[i + 1] + 1 \in 1..Len(part.text) /\ C1[i + n] + 1 \in 1..Len(part.text)
      <4>1. C1[i + 1] \in 0..(Len(part.text) - 1) /\ C1[i + n] \in 0..(Len(part.text) - 1)
        BY <3>1, <3>2
      <4>2. PICK size \in Nat : size = Len(part.text)
        BY <3>2
      <4>3. \A x \in 0..(size - 1) : x + 1 \in 1..size
        OBVIOUS
      <4>4. QED
        BY <4>1, <4>2, <4>3
    <3>4. QED
      BY <3>3 DEF Made
  <2>13. /\ part.positions[C1[i + 1] + 1] = first - base
         /\ part.positions[C1[i + n] + 1] = last - base
    <3>1. \A x \in Int : (x + base) - base = x
      OBVIOUS
    <3>2. QED
      BY <2>11, <2>12, <3>1
  <2>14. Stands(pattern, made1, i)
    BY <2>9, <2>10 DEF Stands
  <2>15. AtRun(pattern, part, i, first - base, last - base)
    BY <2>13, <2>14 DEF AtRun, made1, C1
  <2>16. QED
    BY <2>6, <2>15 DEF made1
<1>12. QED
  BY <1>6, <1>10, <1>11 DEF a

\* A match of a pattern from an offset to another.
MatchAt(p, first, last, by) ==
    [type |-> p.type, score |-> p.score, by |-> {by}, start |-> first, end |-> last + 1]

\* The offsets at which a pattern stands are offsets.
LEMMA AtOffsets ==
    ASSUME NEW made, Made(made), NEW pattern \in Seq(Chars) \ {<<>>}, NEW s, NEW first, NEW last,
           AtPlain(pattern, made, s, first, last) \/ AtRun(pattern, made, s, first, last)
    PROVE  first \in Int /\ last \in Int /\ Len(pattern) \in Nat \ {0}
<1> DEFINE n == Len(pattern)
           len == Len(made.text)
<1>1. n \in Nat \ {0}
  BY EmptySeq, LenProperties
<1>2. len \in Nat /\ \A i \in 1..len : made.positions[i] \in Int
  BY DEF Made
<1> HIDE DEF n, len
<1>3. CASE AtPlain(pattern, made, s, first, last)
  <2>1. s \in 0..(len - n) /\ made.positions[s + 1] = first /\ made.positions[s + n] = last
    BY <1>3 DEF AtPlain, Stands, n, len
  <2>2. s + 1 \in 1..len /\ s + n \in 1..len
    BY <1>1, <1>2, <2>1
  <2>3. QED
    BY <1>1, <1>2, <2>1, <2>2 DEF n
<1>4. CASE AtRun(pattern, made, s, first, last)
  <2> DEFINE C == Collapse(made.text).positions
             size == Len(Collapse(made.text).text)
  <2>1. Keeps(C, Blanks(made.text), len) /\ size = Len(C)
    <3>1. made.text \in Seq(Chars)
      BY DEF Made
    <3>2. QED
      BY <3>1, CollapseIs DEF len
  <2>2. /\ s \in 0..(size - n)
        /\ made.positions[C[s + 1] + 1] = first /\ made.positions[C[s + n] + 1] = last
    BY <1>4 DEF AtRun, Stands, n
  <2> HIDE DEF C, size
  <2>3. size \in Nat /\ \A i \in 1..size : C[i] \in 0..(len - 1)
    BY <1>2, <2>1, KeptAre
  <2>4. s + 1 \in 1..size /\ s + n \in 1..size
    BY <1>1, <2>2, <2>3
  <2>5. C[s + 1] + 1 \in 1..len /\ C[s + n] + 1 \in 1..len
    <3>1. \A x \in 0..(len - 1) : x + 1 \in 1..len
      BY <1>2
    <3>2. QED
      BY <2>3, <2>4, <3>1
  <2>6. QED
    BY <1>1, <1>2, <2>2, <2>5 DEF n
<1>5. QED
  BY <1>3, <1>4

\* A match of one of the first patterns as it stands, or of the second in a run.
MatchOf(m, first, second, made, x, y) ==
    /\ x \in Int /\ y \in Int
    /\ \/ \E p \in first : \E s, by : AtPlain(p.text, made, s, x, y) /\ m = MatchAt(p, x, y, by)
       \/ \E p \in second : \E s, by : AtRun(p.text, made, s, x, y) /\ m = MatchAt(p, x, y, by)

\* The matches in a chunk are those of the patterns that stand in it.
LEMMA MatchesHave ==
    ASSUME NEW chunk, NEW first, NEW second, NEW made,
           made = Normalize(SubSeq(Text, chunk.base + 1, chunk.end)), Made(made),
           \A p \in first \cup second : p.text \in Seq(Chars) \ {<<>>}
    PROVE  /\ \A m \in Matches(chunk, first, second) :
                 \E x, y : MatchOf(m, first, second, made, x, y)
           /\ \A p \in first : \A s, x, y :
                 AtPlain(p.text, made, s, x, y) => MatchAt(p, x, y, p.by) \in Matches(chunk, first, second)
           /\ Len(Collapse(made.text).text) < Len(made.text) =>
                 \A p \in second : \A s, x, y :
                    AtRun(p.text, made, s, x, y)
                       => MatchAt(p, x, y, "presidio") \in Matches(chunk, first, second)
<1> DEFINE closed == Collapse(made.text)
           apart == Len(closed.text) < Len(made.text)
           Whole(o) == ToOriginal(made.positions, o)
           Joint(o) == ToOriginal(made.positions, ToOriginal(closed.positions, o))
           At(p, span, by) == [type |-> p.type, score |-> p.score, by |-> {by},
                               start |-> span.start, end |-> span.end]
           found1(p) == {At(p, Whole(o), p.by) : o \in Occurrences(p.text, made.text)}
           found2(p) == {At(p, Joint(o), "presidio") : o \in Occurrences(p.text, closed.text)}
           twice == {q \in second : apart}
           matches == Matches(chunk, first, second)
<1>1. matches = UNION ({found1(p) : p \in first} \cup {found2(p) : p \in twice})
  BY DEF Matches
<1>2. made.text \in Seq(Chars) /\ closed.text \in Seq(Chars)
  <2>1. made.text \in Seq(Chars)
    BY DEF Made
  <2>2. QED
    BY <2>1, CollapseIs
<1> HIDE DEF closed, apart
<1>3. ASSUME NEW p, NEW s, NEW o, NEW by, o.start = s, o.end = s + Len(p.text)
      PROVE  /\ At(p, Whole(o), by) = MatchAt(p, made.positions[s + 1], made.positions[s + Len(p.text)], by)
             /\ At(p, Joint(o), by) = MatchAt(p, made.positions[closed.positions[s + 1] + 1],
                                          made.positions[closed.positions[s + Len(p.text)] + 1], by)
  BY <1>3 DEF MatchAt, ToOriginal
<1> HIDE DEF Whole, Joint, At, twice, matches
<1>4. ASSUME NEW m \in matches
      PROVE  \E x, y : MatchOf(m, first, second, made, x, y)
  <2>1. CASE \E p \in first : m \in found1(p)
    <3>1. PICK p \in first : m \in found1(p)
      BY <2>1
    <3>2. PICK o \in Occurrences(p.text, made.text) : m = At(p, Whole(o), p.by)
      BY <3>1
    <3> DEFINE s == o.start
               x == made.positions[s + 1]
               y == made.positions[s + Len(p.text)]
    <3>3. p.text \in Seq(Chars) \ {<<>>}
      OBVIOUS
    <3>4. Stands(p.text, made.text, s) /\ o.end = s + Len(p.text)
      BY <1>2, <3>3, OccursAt
    <3>5. m = MatchAt(p, x, y, p.by)
      BY <1>3, <3>2, <3>4
    <3>6. AtPlain(p.text, made, s, x, y)
      BY <3>4 DEF AtPlain
    <3> HIDE DEF s, x, y
    <3>7. x \in Int /\ y \in Int
      BY <3>3, <3>6, AtOffsets
    <3>8. MatchOf(m, first, second, made, x, y)
      BY <3>5, <3>6, <3>7 DEF MatchOf
    <3>9. QED
      BY <3>8
  <2>2. CASE \E p \in twice : m \in found2(p)
    <3>1. PICK p \in second : m \in found2(p)
      BY <2>2 DEF twice
    <3>2. PICK o \in Occurrences(p.text, closed.text) : m = At(p, Joint(o), "presidio")
      BY <3>1
    <3> DEFINE s == o.start
               x == made.positions[closed.positions[s + 1] + 1]
               y == made.positions[closed.positions[s + Len(p.text)] + 1]
    <3>3. p.text \in Seq(Chars) \ {<<>>}
      OBVIOUS
    <3>4. Stands(p.text, closed.text, s) /\ o.end = s + Len(p.text)
      BY <1>2, <3>3, OccursAt
    <3>5. m = MatchAt(p, x, y, "presidio")
      BY <1>3, <3>2, <3>4
    <3>6. AtRun(p.text, made, s, x, y)
      BY <3>4 DEF AtRun, closed
    <3> HIDE DEF s, x, y
    <3>7. x \in Int /\ y \in Int
      BY <3>3, <3>6, AtOffsets
    <3>8. MatchOf(m, first, second, made, x, y)
      BY <3>5, <3>6, <3>7 DEF MatchOf
    <3>9. QED
      BY <3>8
  <2>3. QED
    BY <1>1, <2>1, <2>2
<1>5. ASSUME NEW p \in first, NEW s, NEW x, NEW y, AtPlain(p.text, made, s, x, y)
      PROVE  MatchAt(p, x, y, p.by) \in matches
  <2> DEFINE o == [start |-> s, end |-> s + Len(p.text)]
  <2>1. Stands(p.text, made.text, s) /\ x = made.positions[s + 1] /\ y = made.positions[s + Len(p.text)]
    BY <1>5 DEF AtPlain
  <2>2. p.text \in Seq(Chars) \ {<<>>} /\ o.start = s /\ o.end = s + Len(p.text)
    OBVIOUS
  <2>3. o \in Occurrences(p.text, made.text)
    BY <1>2, <2>1, <2>2, OccursAt
  <2> HIDE DEF o
  <2>4. At(p, Whole(o), p.by) = MatchAt(p, x, y, p.by)
    BY <1>3, <2>1, <2>2
  <2>5. MatchAt(p, x, y, p.by) \in found1(p)
    BY <2>3, <2>4
  <2> HIDE DEF found1, found2
  <2>6. QED
    BY <1>1, <2>5
<1>6. ASSUME apart, NEW p \in second, NEW s, NEW x, NEW y, AtRun(p.text, made, s, x, y)
      PROVE  MatchAt(p, x, y, "presidio") \in matches
  <2> DEFINE o == [start |-> s, end |-> s + Len(p.text)]
  <2>1. /\ Stands(p.text, closed.text, s)
        /\ x = made.positions[closed.positions[s + 1] + 1]
        /\ y = made.positions[closed.positions[s + Len(p.text)] + 1]
    BY <1>6 DEF AtRun, closed
  <2>2. p.text \in Seq(Chars) \ {<<>>} /\ o.start = s /\ o.end = s + Len(p.text)
    OBVIOUS
  <2>3. o \in Occurrences(p.text, closed.text)
    BY <1>2, <2>1, <2>2, OccursAt
  <2> HIDE DEF o
  <2>4. At(p, Joint(o), "presidio") = MatchAt(p, x, y, "presidio")
    BY <1>3, <2>1, <2>2
  <2>5. p \in twice
    BY <1>6 DEF twice
  <2>6. MatchAt(p, x, y, "presidio") \in found2(p)
    BY <2>3, <2>4
  <2> HIDE DEF found1, found2
  <2>7. QED
    BY <1>1, <2>5, <2>6, SMTT(30)
<1>7. QED
  BY <1>4, <1>5, <1>6 DEF matches, apart, closed

\* Patterns that may be looked for once more in what stands apart, and are made
\* of letters and digits alone, enough of them for a run.
Joined(second) == {p \in second : p.text \in Seq(Alnum) /\ Len(p.text) >= MinRun}

\* What matches in the whole document matches in each chunk that holds it.
LEMMA MatchInChunk ==
    ASSUME Askable(case), NEW chunk, chunk.base \in Nat, chunk.end \in 0..Len(Text),
           NEW second, second \subseteq case.doc.patterns,
           NEW m \in Matches([base |-> 0, end |-> Len(Text)], case.doc.patterns, Joined(second)),
           chunk.base <= m.start, m.end <= chunk.end
    PROVE  \E n \in Matches(chunk, case.doc.patterns, second) :
              LET f == Shifted(n, chunk.base)
              IN f.type = m.type /\ f.score = m.score /\ f.start = m.start /\ f.end = m.end
<1> DEFINE base == chunk.base
           end == chunk.end
           patterns == case.doc.patterns
           full == [base |-> 0, end |-> Len(Text)]
           whole == Normalize(Text)
           part == Normalize(SubSeq(Text, base + 1, end))
           joined == Joined(second)
           matches == Matches(chunk, patterns, second)
<1>1. /\ Text \in Seq(Chars) /\ Len(Text) \in Nat /\ base \in Int /\ end \in Int
      /\ \A p \in patterns : p.text \in Seq(Chars) \ {<<>>}
  BY DEF Askable, Text
<1>2. joined \subseteq second
  BY DEF Joined
<1>3. SubSeq(Text, full.base + 1, full.end) = Text
  <2> DEFINE n == Len(Text)
             s == SubSeq(Text, 1, n)
  <2>1. 1 \in Int /\ n \in Int /\ \A i \in 1..n : Text[i] \in Chars
    BY <1>1
  <2>2. /\ s \in Seq(Chars) /\ Len(s) = IF 1 <= n THEN n - 1 + 1 ELSE 0
        /\ \A i \in 1..Len(s) : s[i] = Text[1 + i - 1]
    BY <2>1, SubSeqProperties
  <2> HIDE DEF s
  <2>3. Len(s) = n
    BY <1>1, <2>2
  <2>4. \A i \in 1..n : s[i] = Text[i]
    <3>1. \A i \in 1..n : 1 + i - 1 = i
      BY <1>1
    <3>2. QED
      BY <2>2, <2>3, <3>1
  <2>5. s = Text
    BY <1>1, <2>2, <2>3, <2>4, SeqEqual
  <2>6. full.base + 1 = 1 /\ full.end = n
    OBVIOUS
  <2>7. QED
    BY <2>5, <2>6 DEF s
<1>4. Made(whole) /\ Made(part)
  <2>1. \A i \in (base + 1)..end : Text[i] \in Chars
    BY <1>1
  <2>2. base + 1 \in Int
    BY <1>1
  <2>3. SubSeq(Text, base + 1, end) \in Seq(Chars)
    BY <1>1, <2>1, <2>2, SubSeqProperties
  <2>4. QED
    BY <1>1, <2>3, NormalizedIsMade
<1>5. PICK d : Shifts(whole, part, d, base, end)
  <2>1. base \in Nat /\ end \in 0..Len(Text)
    OBVIOUS
  <2> HIDE DEF base, end
  <2>2. QED
    BY <1>1, <2>1, PartShifts
<1>6. \E x, y : MatchOf(m, patterns, joined, whole, x, y)
  <2>1. whole = Normalize(SubSeq(Text, full.base + 1, full.end))
    BY <1>3
  <2>2. \A p \in patterns \cup joined : p.text \in Seq(Chars) \ {<<>>}
    BY <1>1, <1>2
  <2>3. m \in Matches(full, patterns, joined)
    OBVIOUS
  <2> HIDE DEF whole, full, joined, patterns
  <2>4. QED
    BY <1>4, <2>1, <2>2, <2>3, MatchesHave
<1>7. /\ \A p \in patterns : \A s, x, y :
            AtPlain(p.text, part, s, x, y) => MatchAt(p, x, y, p.by) \in matches
      /\ Len(Collapse(part.text).text) < Len(part.text) =>
            \A p \in second : \A s, x, y :
               AtRun(p.text, part, s, x, y) => MatchAt(p, x, y, "presidio") \in matches
  <2>1. part = Normalize(SubSeq(Text, chunk.base + 1, chunk.end))
    OBVIOUS
  <2>2. \A p \in patterns \cup second : p.text \in Seq(Chars) \ {<<>>}
    BY <1>1
  <2> HIDE DEF part, patterns
  <2>3. QED
    BY <1>4, <2>1, <2>2, MatchesHave DEF matches
<1>7a. PICK x, y : MatchOf(m, patterns, joined, whole, x, y)
  BY <1>6
<1>8. /\ x \in Int /\ y \in Int
      /\ \/ \E p \in patterns : \E s, by : AtPlain(p.text, whole, s, x, y) /\ m = MatchAt(p, x, y, by)
         \/ \E p \in joined : \E s, by : AtRun(p.text, whole, s, x, y) /\ m = MatchAt(p, x, y, by)
  BY <1>7a DEF MatchOf
<1> HIDE DEF whole, part, joined, patterns, matches
<1>9. m.start = x /\ m.end = y + 1 /\ base <= x /\ y < end
  <2>1. m.start = x /\ m.end = y + 1
    BY <1>8 DEF MatchAt
  <2>2. QED
    BY <1>1, <1>8, <2>1
<1> HIDE DEF base, end
<1> DEFINE Same(p, n) == /\ n.type = p.type /\ n.score = p.score
                         /\ n.start = x - base /\ n.end = (y - base) + 1
<1>10. \E p : /\ m.type = p.type /\ m.score = p.score
              /\ \E n \in matches : \E z : n = MatchAt(p, x - base, y - base, z)
  <2>1. CASE \E p \in patterns : \E s, by : AtPlain(p.text, whole, s, x, y) /\ m = MatchAt(p, x, y, by)
    <3>1. PICK p \in patterns : \E s, by : AtPlain(p.text, whole, s, x, y) /\ m = MatchAt(p, x, y, by)
      BY <2>1
    <3>1a. PICK s, by : AtPlain(p.text, whole, s, x, y) /\ m = MatchAt(p, x, y, by)
      BY <3>1
    <3>2. p.text \in Seq(Chars) \ {<<>>}
      BY <1>1
    <3>3. Len(p.text) \in Nat \ {0}
      BY <1>4, <3>1a, <3>2, AtOffsets
    <3>4. AtPlain(p.text, part, s - d, x - base, y - base)
      BY <1>1, <1>4, <1>5, <1>9, <3>1a, <3>2, <3>3, PlainInPart
    <3>5. MatchAt(p, x - base, y - base, p.by) \in matches
      BY <1>7, <3>4
    <3>6. m.type = p.type /\ m.score = p.score
      BY <3>1a DEF MatchAt
    <3>7. QED
      BY <3>5, <3>6
  <2>2. CASE \E p \in joined : \E s, by : AtRun(p.text, whole, s, x, y) /\ m = MatchAt(p, x, y, by)
    <3>1. PICK p \in joined : \E s, by : AtRun(p.text, whole, s, x, y) /\ m = MatchAt(p, x, y, by)
      BY <2>2
    <3>1a. PICK s, by : AtRun(p.text, whole, s, x, y) /\ m = MatchAt(p, x, y, by)
      BY <3>1
    <3>2. /\ p \in second /\ p \in patterns /\ p.text \in Seq(Alnum) /\ Len(p.text) >= MinRun
      BY DEF joined, Joined, patterns
    <3>3. p.text \in Seq(Chars) \ {<<>>}
      BY <1>1, <3>2
    <3>4. Len(p.text) \in Nat \ {0}
      BY <1>4, <3>1a, <3>3, AtOffsets
    <3>5. \/ \E c : AtPlain(p.text, part, c, x - base, y - base)
          \/ /\ Len(Collapse(part.text).text) < Len(part.text)
             /\ \E c : AtRun(p.text, part, c, x - base, y - base)
      BY <1>1, <1>4, <1>5, <1>9, <3>1a, <3>2, <3>4, RunInPart
    <3>6. \E z : MatchAt(p, x - base, y - base, z) \in matches
      BY <1>7, <3>2, <3>5
    <3>7. m.type = p.type /\ m.score = p.score
      BY <3>1a DEF MatchAt
    <3>8. QED
      BY <3>6, <3>7
  <2>3. QED
    BY <1>8, <2>1, <2>2
<1>11a. PICK p : /\ m.type = p.type /\ m.score = p.score
                  /\ \E n \in matches : \E z : n = MatchAt(p, x - base, y - base, z)
  BY <1>10
<1>11b. PICK n \in matches : \E z : n = MatchAt(p, x - base, y - base, z)
  BY <1>11a
<1>11c. PICK z : n = MatchAt(p, x - base, y - base, z)
  BY <1>11b
<1>11. m.type = p.type /\ m.score = p.score /\ n = MatchAt(p, x - base, y - base, z)
  BY <1>11a, <1>11c
<1>12. LET f == Shifted(n, base)
       IN f.type = m.type /\ f.score = m.score /\ f.start = m.start /\ f.end = m.end
  <2>1. /\ Shifted(n, base).type = p.type /\ Shifted(n, base).score = p.score
        /\ Shifted(n, base).start = (x - base) + base
        /\ Shifted(n, base).end = ((y - base) + 1) + base
    BY <1>11 DEF Shifted, MatchAt
  <2>2. (x - base) + base = x /\ ((y - base) + 1) + base = y + 1
    BY <1>1, <1>8
  <2>3. QED
    BY <1>9, <1>11, <2>1, <2>2
<1>13. QED
  BY <1>11, <1>12 DEF matches, patterns, base

-----------------------------------------------------------------------------
(* Values with a checksum when overlaps are settled. *)

\* One of two with the same type and the same span.
Like(e, v) == e.type = v.type /\ SameSpan(e, v)

\* A turn with what decides its outcome: the strongest of those in conflict.
LEMMA AdmitDecides ==
    ASSUME NEW text, Len(text) \in Nat, NEW kept \in SUBSET Findings(Len(text)),
           IsFiniteSet(kept), NEW c
    PROVE  LET con == Conflicts(kept, c)
               result == Admit(kept, c, text)
           IN \/ /\ \A e \in con : MayNest(e, c) \/ MayNest(c, e)
                 /\ result = kept \cup {c}
              \/ \E s \in con :
                    /\ Weaker(s, c) /\ \A e \in con : ~Weaker(s, e)
                    /\ result = ((kept \ con) \cup {c}) \cup Rests(con, c, text)
              \/ \E s \in con :
                    /\ ~Weaker(s, c) /\ SameSpan(s, c)
                    /\ result = (kept \ {s}) \cup {[s EXCEPT !.by = @ \cup c.by]}
              \/ \E s \in con :
                    /\ ~Weaker(s, c) /\ ~SameSpan(s, c)
                    /\ result = kept \cup TrimAround(c, con, text)
<1> DEFINE con == Conflicts(kept, c)
           s == CHOOSE e \in con : \A f \in con : ~Weaker(e, f)
           nest == \A e \in con : MayNest(e, c) \/ MayNest(c, e)
           result == Admit(kept, c, text)
           one == kept \cup {c}
           two == ((kept \ con) \cup {c}) \cup Rests(con, c, text)
           three == (kept \ {s}) \cup {[s EXCEPT !.by = @ \cup c.by]}
           four == kept \cup TrimAround(c, con, text)
<1>1. result = IF nest THEN one ELSE IF Weaker(s, c) THEN two
               ELSE IF SameSpan(s, c) THEN three ELSE four
  BY DEF Admit, Conflicts, Rests
<1>2. ~nest => con # {}
  OBVIOUS
<1>3. con # {} => s \in con /\ \A f \in con : ~Weaker(s, f)
  <2>1. con \in SUBSET Findings(Len(text)) /\ IsFiniteSet(con)
    BY FS_Subset DEF Conflicts
  <2> DEFINE before == {p \in con \X con : Weaker(p[2], p[1])}
  <2>2. \A e, f \in con : <<e, f>> \in before <=> Weaker(f, e)
    OBVIOUS
  <2>3. StrictOrder(con, before)
    BY <2>1, WeakerOrder
  <2> HIDE DEF before, con
  <2>4. con # {} => \E x \in con : \A y \in con : <<y, x>> \notin before
    BY <2>1, <2>3, First DEF StrictOrder
  <2>5. con # {} => \E e \in con : \A f \in con : ~Weaker(e, f)
    BY <2>2, <2>4
  <2>6. QED
    BY <2>5
<1>4. CASE nest
  BY <1>1, <1>4
<1>5. CASE ~nest
  <2>1. s \in con /\ \A f \in con : ~Weaker(s, f)
    BY <1>2, <1>3, <1>5
  <2>2. PICK t \in con : t = s
    BY <2>1
  <2>3. CASE Weaker(t, c)
    BY <1>1, <1>5, <2>1, <2>2, <2>3
  <2>4. CASE ~Weaker(t, c) /\ SameSpan(t, c)
    BY <1>1, <1>5, <2>2, <2>4
  <2>5. CASE ~Weaker(t, c) /\ ~SameSpan(t, c)
    BY <1>1, <1>5, <2>2, <2>5
  <2>6. QED
    BY <2>3, <2>4, <2>5
<1>6. QED
  BY <1>4, <1>5

\* A checksum comes before everything else (_precedence_key).
LEMMA ChecksumFirst ==
    ASSUME NEW length \in Nat, NEW e \in Findings(length), NEW f \in Findings(length)
    PROVE  /\ e.type \notin Backed /\ f.type \in Backed => Weaker(e, f)
           /\ e.type \in Backed /\ f.type \notin Backed => ~Weaker(e, f)
<1> DEFINE p == PrecedenceKey(e)
           q == PrecedenceKey(f)
<1>1. p[1] = (IF e.type \in Backed THEN 1 ELSE 0) /\ q[1] = (IF f.type \in Backed THEN 1 ELSE 0)
  BY DEF PrecedenceKey
<1>2. DOMAIN p = 1..6
  BY KeyIs
<1>3. Weaker(e, f) <=> \E i \in 1..6 : p[i] < q[i] /\ \A j \in 1..(i - 1) : p[j] = q[j]
  BY <1>2 DEF Weaker
<1> HIDE DEF p, q
<1>4. ASSUME e.type \notin Backed, f.type \in Backed PROVE Weaker(e, f)
  <2>1. p[1] < q[1] /\ \A j \in 1..(1 - 1) : p[j] = q[j]
    BY <1>1, <1>4
  <2>2. QED
    BY <1>3, <2>1
<1>5. ASSUME e.type \in Backed, f.type \notin Backed, Weaker(e, f) PROVE FALSE
  <2>1. PICK i \in 1..6 : p[i] < q[i] /\ \A j \in 1..(i - 1) : p[j] = q[j]
    BY <1>3, <1>5
  <2>2. p[1] = 1 /\ q[1] = 0
    BY <1>1, <1>5
  <2>3. i # 1
    BY <2>1, <2>2
  <2>4. 1 \in 1..(i - 1)
    BY <2>3
  <2>5. QED
    BY <2>1, <2>2, <2>4
<1>6. QED
  BY <1>4, <1>5

\* What is left of one that covers a value beside the winners still covers it.
LEMMA RestStillCovers ==
    ASSUME NEW text, NEW length \in Nat, NEW loser \in Findings(length),
           NEW t \in Findings(length), NEW u, u.start \in Int, u.end \in Int, u.start < u.end,
           NEW from \in Int, NEW to \in Int, from < to,
           Rest(t, loser, from, to, text), Beside(u, from, to), Solid(text, u),
           Covers(loser, u), Overlaps(t, u)
    PROVE  Covers(t, u)
<1>1. /\ loser.start \in Int /\ loser.end \in Int /\ loser.start < loser.end
      /\ t.start \in Int /\ t.end \in Int /\ t.start < t.end
  BY FindingIs
<1>2. text[(u.end - 1) + 1] \notin StripChars /\ u.end - 1 \in Int
  <2>1. (u.end - 1) + 1 = u.end
    OBVIOUS
  <2>2. QED
    BY <2>1 DEF Solid
<1>3. CASE /\ t.start = loser.start /\ t.end <= from
           /\ \A i \in loser.start..(from - 1) : text[i + 1] \notin StripChars => i < t.end
  <2>1. u.end <= from
    BY <1>1, <1>3 DEF Overlaps, Beside
  <2>2. u.end - 1 \in loser.start..(from - 1)
    BY <1>1, <2>1 DEF Covers
  <2>3. u.end - 1 < t.end
    BY <1>2, <1>3, <2>2
  <2>4. QED
    BY <1>1, <1>3, <2>3 DEF Covers
<1>4. CASE /\ t.start = to
           /\ \A i \in to..(loser.end - 1) : text[i + 1] \notin StripChars => i < t.end
  <2>1. to <= u.start
    BY <1>1, <1>4 DEF Overlaps, Beside
  <2>2. u.end - 1 \in to..(loser.end - 1)
    BY <1>1, <2>1 DEF Covers
  <2>3. u.end - 1 < t.end
    BY <1>2, <1>4, <2>2
  <2>4. QED
    BY <1>1, <1>4, <2>1, <2>3 DEF Covers
<1>5. QED
  BY <1>3, <1>4 DEF Rest

\* A value that is kept, or may still come: no other finding with a checksum
\* overlaps it, and whatever overlaps it once it is kept covers it.
Guarded(kept, v) ==
    /\ \A e \in kept : e.type \in Backed /\ Overlaps(e, v) => Like(e, v)
    /\ (\E e \in kept : Like(e, v)) => \A f \in kept : Overlaps(f, v) => Covers(f, v)

\* A value with a checksum and a character at its end.
Value(v, text) ==
    /\ v.type \in Backed /\ v.start \in 0..Len(text) /\ v.end \in 0..Len(text)
    /\ v.start < v.end /\ Solid(text, v)

\* No turn drops it, nor lets anything stay that overlaps it in part.
LEMMA AdmitGuards ==
    ASSUME NEW text, Len(text) \in Nat, NEW T, NEW kept, Proper(kept, T, text),
           NEW c \in Findings(Len(text)), NEW v, Value(v, text), Guarded(kept, v),
           c.type \in Backed /\ Overlaps(c, v) => Like(c, v)
    PROVE  /\ Guarded(Admit(kept, c, text), v)
           /\ Like(c, v) \/ (\E e \in kept : Like(e, v)) =>
                 \E e \in Admit(kept, c, text) : Like(e, v)
<1> DEFINE len == Len(text)
           con == Conflicts(kept, c)
           result == Admit(kept, c, text)
           Has(S) == \E e \in S : Like(e, v)
<1>1. kept \in SUBSET Findings(len) /\ IsFiniteSet(kept)
  BY DEF Proper
<1>2. /\ con \in SUBSET Findings(len) /\ IsFiniteSet(con) /\ con \subseteq kept
      /\ \A e \in con : Overlaps(e, c) /\ Overlaps(c, e)
      /\ \A e \in kept \ con : ~Overlaps(e, c) /\ ~Overlaps(c, e)
  BY <1>1, FS_Subset DEF Conflicts, Overlaps
<1>3. /\ v.type \in Backed /\ v.start \in Int /\ v.end \in Int /\ v.start < v.end
      /\ Solid(text, v)
      /\ \A e \in Findings(len) : e.start \in Int /\ e.end \in Int /\ e.start < e.end
  <2>1. \A e \in Findings(len) : e.start \in Int /\ e.end \in Int /\ e.start < e.end
    BY FindingIs
  <2>2. QED
    BY <2>1 DEF Value
<1>4. \A e \in Findings(len) : Like(e, v) =>
         /\ e.type \in Backed /\ Overlaps(e, v) /\ Covers(e, v)
         /\ \A f \in Findings(len) : /\ Overlaps(f, e) <=> Overlaps(f, v)
                                     /\ Covers(f, e) <=> Covers(f, v)
  BY <1>3 DEF Like, SameSpan, Overlaps, Covers
<1>5. /\ \A e \in kept : e.type \in Backed /\ Overlaps(e, v) => Like(e, v)
      /\ Has(kept) => \A f \in kept : Overlaps(f, v) => Covers(f, v)
  BY DEF Guarded
<1>6. \A e, f : MayNest(e, f) => Covers(e, f) /\ e.type \notin Backed
  BY SpansAssumption DEF MayNest
<1>7. \/ /\ \A e \in con : MayNest(e, c) \/ MayNest(c, e)
         /\ result = kept \cup {c}
      \/ \E s \in con :
            /\ Weaker(s, c) /\ \A e \in con : ~Weaker(s, e)
            /\ result = ((kept \ con) \cup {c}) \cup Rests(con, c, text)
      \/ \E s \in con :
            /\ ~Weaker(s, c) /\ SameSpan(s, c)
            /\ result = (kept \ {s}) \cup {[s EXCEPT !.by = @ \cup c.by]}
      \/ \E s \in con :
            /\ ~Weaker(s, c) /\ ~SameSpan(s, c)
            /\ result = kept \cup TrimAround(c, con, text)
  BY <1>1, AdmitDecides
<1> HIDE DEF con, result
<1> SUFFICES Guarded(result, v) /\ (Like(c, v) \/ Has(kept) => Has(result))
  BY DEF result
<1>8. CASE /\ \A e \in con : MayNest(e, c) \/ MayNest(c, e)
           /\ result = kept \cup {c}
  <2>1. \A e \in result : e.type \in Backed /\ Overlaps(e, v) => Like(e, v)
    BY <1>5, <1>8
  <2>2. ASSUME NEW e \in result, Like(e, v), NEW f \in result, Overlaps(f, v) PROVE Covers(f, v)
    <3>1. CASE Has(kept) /\ f \in kept
      BY <1>5, <2>2, <3>1
    <3>2. CASE Has(kept) /\ f = c
      <4>1. PICK g \in kept : Like(g, v)
        BY <3>2
      <4>2. g \in Findings(len) /\ g.type \in Backed /\ Overlaps(c, g)
        BY <1>1, <1>4, <2>2, <3>2, <4>1
      <4>3. g \in con
        BY <1>2, <4>2
      <4>4. Covers(c, g)
        BY <1>6, <1>8, <4>2, <4>3
      <4>5. QED
        BY <1>4, <3>2, <4>1, <4>2, <4>4
    <3>3. CASE ~Has(kept)
      <4>1. e = c /\ Like(c, v)
        BY <1>8, <2>2, <3>3
      <4>2. CASE f = c
        BY <1>4, <4>1, <4>2
      <4>3. CASE f # c
        <5>1. f \in kept /\ f \in Findings(len) /\ Overlaps(f, c)
          BY <1>1, <1>4, <1>8, <2>2, <4>1, <4>3
        <5>2. f \in con /\ c.type \in Backed
          BY <1>2, <1>4, <4>1, <5>1
        <5>3. Covers(f, c)
          BY <1>6, <1>8, <5>2
        <5>4. QED
          BY <1>4, <4>1, <5>1, <5>3
      <4>4. QED
        BY <4>2, <4>3
    <3>4. QED
      BY <1>8, <2>2, <3>1, <3>2, <3>3
  <2>3. Like(c, v) \/ Has(kept) => Has(result)
    BY <1>8
  <2>4. QED
    BY <2>1, <2>2, <2>3 DEF Guarded
<1>9. ASSUME NEW s \in con, Weaker(s, c), \A e \in con : ~Weaker(s, e),
             result = ((kept \ con) \cup {c}) \cup Rests(con, c, text)
      PROVE  Guarded(result, v) /\ (Like(c, v) \/ Has(kept) => Has(result))
  <2> DEFINE rests == Rests(con, c, text)
  <2>1. /\ rests \in SUBSET Findings(len)
        /\ \A t \in rests : \E e \in con : Rest(t, e, c.start, c.end, text)
    BY <1>2, RestsAre
  <2>2. result = ((kept \ con) \cup {c}) \cup rests
    BY <1>9
  <2> HIDE DEF rests
  <2>3. ASSUME NEW e \in con, Like(e, v) PROVE Like(c, v)
    <3>1. e \in Findings(len) /\ s \in Findings(len) /\ e.type \in Backed
      BY <1>2, <1>4, <2>3
    <3>2. ~Weaker(s, e) /\ Weaker(s, c)
      BY <1>9
    <3>3. s.type \in Backed
      BY <3>1, <3>2, ChecksumFirst
    <3>4. c.type \in Backed
      BY <3>1, <3>2, <3>3, ChecksumFirst
    <3>5. Overlaps(c, v)
      BY <1>2, <1>4, <2>3, <3>1
    <3>6. QED
      BY <3>4, <3>5
  <2>4. ASSUME NEW t \in rests
        PROVE  \E e \in con : /\ e \in Findings(len) /\ e \in kept /\ t \in Findings(len)
                              /\ Rest(t, e, c.start, c.end, text)
                              /\ t.type = e.type /\ Beside(t, c.start, c.end)
                              /\ ~Overlaps(t, c)
                              /\ Overlaps(t, v) => Overlaps(e, v)
    <3>1. PICK e \in con : Rest(t, e, c.start, c.end, text)
      BY <2>1
    <3>2. e \in Findings(len) /\ e \in kept /\ t \in Findings(len)
      BY <1>2, <2>1
    <3>3. Beside(t, c.start, c.end)
      BY <3>1, <3>2, RestIsBeside
    <3>4. t.type = e.type /\ Covers(e, t)
      BY <3>1 DEF Rest
    <3>5. ~Overlaps(t, c)
      BY <1>3, <3>2, <3>3 DEF Overlaps, Beside
    <3>6. Overlaps(t, v) => Overlaps(e, v)
      BY <1>3, <3>2, <3>4 DEF Overlaps, Covers
    <3>7. QED
      BY <3>1, <3>2, <3>3, <3>4, <3>5, <3>6
  <2>5. ASSUME NEW t \in rests, t.type \in Backed, Overlaps(t, v) PROVE FALSE
    <3>1. PICK e \in con : /\ e \in kept /\ t \in Findings(len) /\ t.type = e.type
                           /\ ~Overlaps(t, c) /\ Overlaps(e, v)
      BY <2>4, <2>5
    <3>2. Like(e, v)
      BY <1>5, <2>5, <3>1
    <3>3. Like(c, v)
      BY <2>3, <3>2
    <3>4. Overlaps(t, c)
      BY <1>4, <2>5, <3>1, <3>3
    <3>5. QED
      BY <3>1, <3>4
  <2>6. \A e \in result : e.type \in Backed /\ Overlaps(e, v) => Like(e, v)
    BY <1>5, <2>2, <2>5
  <2>7. ASSUME NEW e \in result, Like(e, v), NEW f \in result, Overlaps(f, v) PROVE Covers(f, v)
    <3>1. CASE Like(c, v)
      <4>1. CASE f \in kept \ con
        <5>1. f \in Findings(len) /\ ~Overlaps(f, c)
          BY <1>1, <1>2, <4>1
        <5>2. QED
          BY <1>4, <2>7, <3>1, <5>1
      <4>2. CASE f = c
        BY <1>4, <3>1, <4>2
      <4>3. CASE f \in rests
        <5>1. f \in Findings(len) /\ ~Overlaps(f, c)
          BY <2>4, <4>3
        <5>2. QED
          BY <1>4, <2>7, <3>1, <5>1
      <4>4. QED
        BY <2>2, <2>7, <4>1, <4>2, <4>3
    <3>2. CASE ~Like(c, v)
      <4>1. e \in kept \ con
        <5>1. e \in rests => FALSE
          <6>1. e \in rests => e \in Findings(len)
            BY <2>1
          <6>2. QED
            BY <1>4, <2>5, <2>7, <6>1
        <5>2. QED
          BY <2>2, <2>7, <3>2, <5>1
      <4>2. e \in Findings(len) /\ ~Overlaps(c, e)
        BY <1>1, <1>2, <4>1
      <4>3. f # c
        BY <1>4, <2>7, <4>2
      <4>4. CASE f \in kept \ con
        BY <1>5, <2>7, <4>1, <4>4
      <4>5. CASE f \in rests
        <5>1. PICK g \in con : /\ g \in Findings(len) /\ g \in kept /\ f \in Findings(len)
                               /\ Rest(f, g, c.start, c.end, text) /\ Overlaps(g, v)
          BY <2>4, <2>7, <4>5
        <5>2. Covers(g, v)
          BY <1>5, <2>7, <4>1, <5>1
        <5>3. Beside(v, c.start, c.end)
          BY <1>3, <1>4, <2>7, <4>2 DEF Beside, Overlaps
        <5>4. len \in Nat /\ c.start \in Int /\ c.end \in Int /\ c.start < c.end
          BY <1>3
        <5> HIDE DEF len
        <5>5. QED
          BY <1>3, <2>7, <5>1, <5>2, <5>3, <5>4, RestStillCovers
      <4>6. QED
        BY <2>2, <2>7, <4>3, <4>4, <4>5
    <3>3. QED
      BY <3>1, <3>2
  <2>8. Like(c, v) \/ Has(kept) => Has(result)
    <3>1. CASE Like(c, v)
      BY <2>2, <3>1
    <3>2. CASE ~Like(c, v) /\ Has(kept)
      <4>1. PICK e \in kept : Like(e, v)
        BY <3>2
      <4>2. e \in kept \ con
        BY <2>3, <3>2, <4>1
      <4>3. QED
        BY <2>2, <4>1, <4>2
    <3>3. QED
      BY <3>1, <3>2
  <2>9. QED
    BY <2>6, <2>7, <2>8 DEF Guarded
<1>10. ASSUME NEW s \in con, ~Weaker(s, c), SameSpan(s, c),
              result = (kept \ {s}) \cup {[s EXCEPT !.by = @ \cup c.by]}
       PROVE  Guarded(result, v) /\ (Like(c, v) \/ Has(kept) => Has(result))
  <2> DEFINE more == [s EXCEPT !.by = @ \cup c.by]
  <2>1. s \in Findings(len) /\ s \in kept
    BY <1>2
  <2>2. more.type = s.type /\ more.start = s.start /\ more.end = s.end
    BY <2>1 DEF Findings
  <2>3. result = (kept \ {s}) \cup {more}
    BY <1>10
  <2> HIDE DEF more
  <2>4. /\ Like(more, v) <=> Like(s, v)
        /\ Overlaps(more, v) <=> Overlaps(s, v)
        /\ Covers(more, v) <=> Covers(s, v)
    BY <2>2 DEF Like, SameSpan, Overlaps, Covers
  <2>5. Has(kept) <=> Has(result)
    BY <2>1, <2>3, <2>4
  <2>6. Like(c, v) => Has(kept)
    <3> SUFFICES ASSUME Like(c, v) PROVE Like(s, v)
      BY <2>1
    <3>1. c.type \in Backed
      BY <1>4
    <3>2. s.type \in Backed
      BY <1>10, <2>1, <3>1, ChecksumFirst
    <3>3. Overlaps(s, v)
      BY <1>2, <1>4, <2>1
    <3>4. QED
      BY <1>5, <2>1, <3>2, <3>3
  <2>7. \A e \in result : e.type \in Backed /\ Overlaps(e, v) => Like(e, v)
    BY <1>5, <2>1, <2>2, <2>3, <2>4
  <2>8. Has(result) => \A f \in result : Overlaps(f, v) => Covers(f, v)
    BY <1>5, <2>1, <2>3, <2>4, <2>5
  <2>9. QED
    BY <2>5, <2>6, <2>7, <2>8 DEF Guarded
<1>11. ASSUME NEW s \in con, ~Weaker(s, c), ~SameSpan(s, c),
              result = kept \cup TrimAround(c, con, text)
       PROVE  Guarded(result, v) /\ (Like(c, v) \/ Has(kept) => Has(result))
  <2> DEFINE rest == TrimAround(c, con, text)
  <2>1. PICK from \in 0..len, to \in 0..len :
           /\ rest \in SUBSET Findings(len)
           /\ from < to
           /\ \A w \in con : from <= w.start /\ w.end <= to
           /\ \A t \in rest : Rest(t, c, from, to, text)
    BY <1>2, <1>11, TrimLeavesRest
  <2>2. result = kept \cup rest
    BY <1>11
  <2> HIDE DEF rest
  <2>3. ~Like(c, v)
    <3> SUFFICES ASSUME Like(c, v) PROVE FALSE
      OBVIOUS
    <3>1. c.type \in Backed /\ s \in Findings(len) /\ s \in kept
      BY <1>2, <1>4
    <3>2. s.type \in Backed
      BY <1>11, <3>1, ChecksumFirst
    <3>3. Overlaps(s, v)
      BY <1>2, <1>4, <3>1
    <3>4. Like(s, v)
      BY <1>5, <3>1, <3>2, <3>3
    <3>5. QED
      BY <1>11, <3>4 DEF Like, SameSpan
  <2>4. ASSUME NEW t \in rest, Overlaps(t, v)
        PROVE  t.type \notin Backed /\ ~Has(kept)
    <3>1. t \in Findings(len) /\ t.type = c.type /\ Covers(c, t) /\ Beside(t, from, to)
      BY <2>1, RestIsBeside DEF Rest
    <3>2. Overlaps(c, v)
      BY <1>3, <2>4, <3>1 DEF Overlaps, Covers
    <3>3. c.type \notin Backed
      BY <2>3, <3>2
    <3>4. ASSUME NEW e \in kept, Like(e, v) PROVE FALSE
      <4>1. e \in Findings(len) /\ Overlaps(c, e) /\ Overlaps(t, e)
        BY <1>1, <1>4, <2>4, <3>1, <3>2, <3>4
      <4>2. e \in con
        BY <1>2, <4>1
      <4>3. from <= e.start /\ e.end <= to
        BY <2>1, <4>2
      <4>4. QED
        BY <1>3, <2>1, <3>1, <4>1, <4>3 DEF Beside, Overlaps
    <3>5. QED
      BY <3>1, <3>3, <3>4
  <2>5. \A e \in result : e.type \in Backed /\ Overlaps(e, v) => Like(e, v)
    BY <1>5, <2>2, <2>4
  <2>6. ASSUME NEW e \in result, Like(e, v) PROVE Has(kept)
    <3>1. e \in rest => Overlaps(e, v) /\ e.type \in Backed
      BY <1>4, <2>1, <2>6
    <3>2. QED
      BY <2>2, <2>4, <2>6, <3>1
  <2>7. Has(result) => \A f \in result : Overlaps(f, v) => Covers(f, v)
    BY <1>5, <2>2, <2>4, <2>6
  <2>8. QED
    BY <2>2, <2>3, <2>5, <2>7 DEF Guarded
<1>12. QED
  BY <1>7, <1>8, <1>9, <1>10, <1>11

\* A value found that no other finding with a checksum overlaps is among the
\* entities, and whatever else overlaps it there covers it (reconcile).
LEMMA ValueIsKept ==
    ASSUME NEW text, Len(text) \in Nat, NEW T, NEW fs, Proper(fs, T, text),
           NEW v, Value(v, text), \E f \in fs : Like(f, v),
           \A f \in fs : f.type \in Backed /\ Overlaps(f, v) => Like(f, v)
    PROVE  /\ Guarded(Reconcile(fs, text), v)
           /\ \E e \in Reconcile(fs, text) : Like(e, v)
<1>1. PICK candidates, kept : Turns(fs, T, text, candidates, kept)
  BY ReconcileTurns
<1> DEFINE len == Len(candidates)
           Has(i) == \E e \in kept[i] : Like(e, v)
<1>2. /\ Merged(fs) \in SUBSET Findings(Len(text)) /\ Reconcile(fs, text) = kept[len]
      /\ candidates \in Seq(Merged(fs)) /\ Range(candidates) = Merged(fs)
      /\ \A i \in 0..len : Proper(kept[i], T, text)
      /\ \A i \in 1..len : kept[i] = Admit(kept[i - 1], candidates[i], text)
  BY <1>1 DEF Turns
<1>3. kept[0] = {}
  BY <1>1 DEF Turns
<1>4. len \in Nat /\ DOMAIN candidates = 1..len /\ \A i \in 1..len : candidates[i] \in Merged(fs)
  BY <1>2
<1>5. fs \in SUBSET Findings(Len(text)) /\ IsFiniteSet(fs)
  BY DEF Proper
<1>6. \A m \in Merged(fs) : m.type \in Backed /\ Overlaps(m, v) => Like(m, v)
  <2> SUFFICES ASSUME NEW m \in Merged(fs), m.type \in Backed, Overlaps(m, v) PROVE Like(m, v)
    OBVIOUS
  <2>1. PICK e \in fs : m.type = e.type /\ m.start = e.start /\ m.end = e.end
    BY <1>5, MergedIs
  <2>2. Like(e, v)
    BY <2>1 DEF Overlaps
  <2>3. QED
    BY <2>1, <2>2 DEF Like, SameSpan
<1>7. PICK n \in 1..len : Like(candidates[n], v)
  <2>1. PICK f \in fs : Like(f, v)
    OBVIOUS
  <2>2. PICK m \in Merged(fs) : m.type = f.type /\ m.start = f.start /\ m.end = f.end
    BY <1>5, MergedIs
  <2>3. Like(m, v)
    BY <2>1, <2>2 DEF Like, SameSpan
  <2>4. m \in Range(candidates)
    BY <1>2
  <2>5. PICK i \in 1..len : candidates[i] = m
    BY <1>4, <2>4 DEF Range
  <2>6. QED
    BY <2>3, <2>5
<1> HIDE DEF len, Has
<1>8. ASSUME NEW i \in 0..(len - 1), Guarded(kept[i], v)
      PROVE  /\ i + 1 \in 1..len /\ Guarded(kept[i + 1], v)
             /\ i + 1 = n \/ Has(i) => Has(i + 1)
  <2>1. i + 1 \in 1..len /\ (i + 1) - 1 = i /\ i \in 0..len
    BY <1>4
  <2>2. kept[i + 1] = Admit(kept[i], candidates[i + 1], text)
    BY <1>2, <2>1
  <2>3. /\ candidates[i + 1] \in Findings(Len(text))
        /\ candidates[i + 1].type \in Backed /\ Overlaps(candidates[i + 1], v)
              => Like(candidates[i + 1], v)
    BY <1>2, <1>4, <1>6, <2>1
  <2>4. Proper(kept[i], T, text)
    BY <1>2, <2>1
  <2>5. /\ Guarded(kept[i + 1], v)
        /\ Like(candidates[i + 1], v) \/ (\E e \in kept[i] : Like(e, v)) =>
              \E e \in kept[i + 1] : Like(e, v)
    BY <1>8, <2>2, <2>3, <2>4, AdmitGuards
  <2>6. QED
    BY <1>7, <2>1, <2>5 DEF Has
<1> DEFINE S == {i \in 0..len : Guarded(kept[i], v) /\ (i >= n => Has(i))}
<1>9. 0 \in S
  <2>1. Guarded(kept[0], v)
    BY <1>3, Zenon DEF Guarded
  <2>2. 0 \in 0..len /\ ~(0 >= n)
    BY <1>4
  <2>3. QED
    BY <2>1, <2>2
<1>10. \A i \in 0..(len - 1) : i \in S => i + 1 \in S
  <2> SUFFICES ASSUME NEW i \in 0..(len - 1), i \in S PROVE i + 1 \in S
    OBVIOUS
  <2>1. i + 1 \in 1..len /\ Guarded(kept[i + 1], v) /\ (i + 1 = n \/ Has(i) => Has(i + 1))
    BY <1>8
  <2>2. i + 1 \in 0..len /\ (i + 1 >= n => i + 1 = n \/ i >= n)
    BY <1>4, <1>7
  <2>3. i >= n => Has(i)
    OBVIOUS
  <2>4. QED
    BY <2>1, <2>2, <2>3
<1>11. len \in S
  <2>1. len \in Int /\ len \in 0..len
    BY <1>4
  <2> HIDE DEF S
  <2>2. 0..len \subseteq S
    BY <1>9, <1>10, <2>1, UpTo
  <2>3. QED
    BY <2>1, <2>2
<1>12. Guarded(kept[len], v) /\ Has(len)
  BY <1>4, <1>7, <1>11
<1>13. QED
  BY <1>2, <1>12 DEF Has

-----------------------------------------------------------------------------
(* What becomes of one span. *)

\* A text as it was up to the end of a span, with nothing of the span after it.
Untouched(o, e) ==
    /\ e.end <= Len(o) /\ \A p \in 1..e.end : o[p] = p - 1
    /\ \A p \in 1..Len(o) : p > e.end => ~(e.start <= o[p] /\ o[p] < e.end)

\* A text without the span.
Gone(o, e) == \A p \in 1..Len(o) : ~(e.start <= o[p] /\ o[p] < e.end)

\* A replacement removes its own span and touches none that lies before it, and
\* nothing comes back.
LEMMA SpliceRemoves ==
    ASSUME NEW o \in Seq(Int), NEW s \in Nat, NEW t \in Nat, s < t, t <= Len(o),
           NEW w \in Nat, NEW r, Spliced(r, o, s, t, w),
           NEW e, e.start \in Nat, e.end \in Nat, e.start < e.end
    PROVE  /\ Gone(o, e) => Gone(r, e)
           /\ Untouched(o, e) /\ e.end <= s => Untouched(r, e)
           /\ Untouched(o, e) /\ s = e.start /\ t = e.end => Gone(r, e)
<1> DEFINE n == Len(o)
           m == s + w + (n - t)
           In(i) == e.start <= i /\ i < e.end
<1>1. n \in Nat
  OBVIOUS
<1>2. /\ Len(r) = m
      /\ \A p \in 1..s : r[p] = o[p]
      /\ \A p \in (s + 1)..(s + w) : r[p] < 0
      /\ \A p \in (s + w + 1)..m : r[p] = o[p - (s + w) + t]
  BY DEF Spliced
<1>3. \A p \in 1..m : r[p] \in Int
  <2>1. r \in Seq(Int) /\ Len(r) = m
    BY <1>2 DEF Spliced
  <2> HIDE DEF m
  <2>2. QED
    BY <2>1, ElementOfSeq
<1>4. t <= n
  OBVIOUS
<1> HIDE DEF n
<1>5. ASSUME NEW p \in 1..m, In(r[p])
      PROVE  \/ p \in 1..s /\ r[p] = o[p] /\ p \in 1..n
             \/ \E q \in 1..n : q > t /\ r[p] = o[q] /\ q - t = p - (s + w)
  <2>1. CASE p \in 1..s
    BY <1>1, <1>2, <1>4, <2>1
  <2>2. CASE p \in (s + 1)..(s + w)
    <3>1. r[p] < 0 /\ r[p] \in Int
      BY <1>2, <1>3, <2>2
    <3>2. QED
      BY <1>5, <3>1
  <2>3. CASE p \in (s + w + 1)..m
    <3>1. p - (s + w) + t \in 1..n /\ p - (s + w) + t > t
      BY <1>1, <1>4, <2>3
    <3>2. r[p] = o[p - (s + w) + t]
      BY <1>2, <2>3
    <3>3. (p - (s + w) + t) - t = p - (s + w)
      BY <2>3
    <3>4. QED
      BY <3>1, <3>2, <3>3
  <2>4. QED
    BY <1>1, <1>4, <2>1, <2>2, <2>3
<1>6. ASSUME Gone(o, e) PROVE Gone(r, e)
  <2>1. \A p \in 1..n : ~In(o[p])
    BY <1>6 DEF Gone, n
  <2>2. \A p \in 1..m : ~In(r[p])
    BY <1>5, <2>1
  <2>3. QED
    BY <1>2, <2>2 DEF Gone
<1>7. ASSUME Untouched(o, e)
      PROVE  /\ e.end <= n /\ \A p \in 1..e.end : o[p] = p - 1
             /\ \A p \in 1..n : p > e.end => ~In(o[p])
  BY <1>7 DEF Untouched, n
<1>8. ASSUME Untouched(o, e), e.end <= s PROVE Untouched(r, e)
  <2>1. e.end <= m
    BY <1>1, <1>4, <1>8
  <2>2. \A p \in 1..e.end : r[p] = p - 1
    <3> SUFFICES ASSUME NEW p \in 1..e.end PROVE r[p] = p - 1
      OBVIOUS
    <3>1. p \in 1..s
      BY <1>8
    <3>2. QED
      BY <1>2, <1>7, <1>8, <3>1
  <2>3. ASSUME NEW p \in 1..m, p > e.end, In(r[p]) PROVE FALSE
    <3>1. PICK q \in 1..n : q > e.end /\ r[p] = o[q]
      <4>1. CASE p \in 1..s /\ r[p] = o[p] /\ p \in 1..n
        BY <2>3, <4>1
      <4>2. CASE \E q \in 1..n : q > t /\ r[p] = o[q]
        <5>1. PICK q \in 1..n : q > t /\ r[p] = o[q]
          BY <4>2
        <5>2. q > e.end
          BY <1>1, <1>8, <5>1
        <5>3. QED
          BY <5>1, <5>2
      <4>3. QED
        BY <1>5, <2>3, <4>1, <4>2
    <3>2. QED
      BY <1>7, <1>8, <2>3, <3>1
  <2>4. QED
    BY <1>2, <2>1, <2>2, <2>3 DEF Untouched
<1>9. ASSUME Untouched(o, e), s = e.start, t = e.end PROVE Gone(r, e)
  <2>1. ASSUME NEW p \in 1..m, In(r[p]) PROVE FALSE
    <3>1. CASE p \in 1..s /\ r[p] = o[p]
      <4>1. p \in 1..e.end /\ o[p] = p - 1
        BY <1>7, <1>9, <3>1
      <4>2. QED
        BY <1>9, <2>1, <3>1, <4>1
    <3>2. CASE \E q \in 1..n : q > t /\ r[p] = o[q]
      BY <1>7, <1>9, <2>1, <3>2
    <3>3. QED
      BY <1>5, <2>1, <3>1, <3>2
  <2>2. QED
    BY <1>2, <2>1 DEF Gone
<1>10. QED
  BY <1>6, <1>8, <1>9

\* Decisions in the order in which they are applied.
Ordered(s) ==
    /\ s \in Seq(Acted)
    /\ \A i, j \in 1..Len(s) : i < j => s[i] # s[j] /\ ~ActsBefore(s[j], s[i])

\* Taking the first of them leaves the others.
LEMMA OneLess ==
    ASSUME NEW s, Ordered(s), s # <<>>
    PROVE  /\ Head(s) \in Acted /\ Ordered(Tail(s))
           /\ Acted \ Range(Tail(s)) = (Acted \ Range(s)) \cup {Head(s)}
           /\ \A f \in Range(Tail(s)) : ~ActsBefore(f, Head(s))
<1> DEFINE e == Head(s)
           rest == Tail(s)
<1>1. /\ s \in Seq(Acted) /\ Len(s) \in Nat \ {0}
      /\ \A i, j \in 1..Len(s) : i < j => s[i] # s[j] /\ ~ActsBefore(s[j], s[i])
  BY DEF Ordered
<1>2. /\ e = s[1] /\ e \in Acted /\ rest \in Seq(Acted) /\ Len(rest) = Len(s) - 1
      /\ \A i \in 1..Len(rest) : rest[i] = s[i + 1] /\ i + 1 \in 1..Len(s)
      /\ 1 \in 1..Len(s)
  BY <1>1, HeadTailProperties
<1> HIDE DEF e, rest
<1>3. /\ Range(s) = {s[i] : i \in 1..Len(s)}
      /\ Range(rest) = {rest[i] : i \in 1..Len(rest)}
  <2>1. DOMAIN s = 1..Len(s) /\ DOMAIN rest = 1..Len(rest)
    BY <1>1, <1>2
  <2>2. QED
    BY <2>1 DEF Range
<1>4. ASSUME NEW f \in Range(rest) PROVE f # e /\ f \in Range(s) /\ ~ActsBefore(f, e)
  <2>1. PICK i \in 1..Len(rest) : f = rest[i]
    BY <1>3
  <2>2. f = s[i + 1] /\ i + 1 \in 1..Len(s) /\ 1 < i + 1
    BY <1>2, <2>1
  <2>3. QED
    BY <1>1, <1>2, <1>3, <2>2
<1>5. \A f \in Range(s) : f = e \/ f \in Range(rest)
  <2> SUFFICES ASSUME NEW i \in 1..Len(s), i # 1 PROVE s[i] \in Range(rest)
    BY <1>2, <1>3
  <2>1. i - 1 \in 1..Len(rest) /\ (i - 1) + 1 = i
    BY <1>1, <1>2
  <2>2. rest[i - 1] = s[i]
    BY <1>2, <2>1
  <2>3. QED
    BY <1>3, <2>1, <2>2
<1>6. Acted \ Range(rest) = (Acted \ Range(s)) \cup {e}
  BY <1>2, <1>4, <1>5
<1>7. \A i, j \in 1..Len(rest) : i < j => rest[i] # rest[j] /\ ~ActsBefore(rest[j], rest[i])
  <2> SUFFICES ASSUME NEW i \in 1..Len(rest), NEW j \in 1..Len(rest), i < j
               PROVE  rest[i] # rest[j] /\ ~ActsBefore(rest[j], rest[i])
    OBVIOUS
  <2>1. i + 1 < j + 1
    OBVIOUS
  <2>2. QED
    BY <1>1, <1>2, <2>1
<1>8. Ordered(rest)
  BY <1>2, <1>7 DEF Ordered
<1>9. QED
  BY <1>2, <1>4, <1>6, <1>8 DEF e, rest

\* What overlaps the span among what is acted on covers it.
Upfront(e) == \A f \in Acted : Overlaps(f, e) => Covers(f, e)
\* Its turn, or that of one with the same span, has come.
Replaced(e) == \E f \in Acted \ Range(todo) : SameSpan(f, e)

\* Such a span is untouched until its turn comes, and gone from then on.
Sweeping ==
    /\ Ordered(todo) /\ out \in Seq(Int)
    /\ \A e \in Acted : Upfront(e) => /\ Replaced(e) => Gone(out, e)
                                      /\ ~Replaced(e) => Untouched(out, e)

\* A turn leaves what it must of each such span, whatever is put in its place.
LEMMA TurnSweeps ==
    ASSUME SInv, Sweeping, todo # <<>>, UNCHANGED <<case, profile, entities>>,
           NEW items \in Seq(Int), \A i \in 1..Len(items) : items[i] < 0,
           \/ Outside(Head(todo)) /\ todo' = Tail(todo) /\ out' = out
           \/ ~Outside(Head(todo)) /\ Replace(Head(todo), items)
    PROVE  Sweeping'
<1> DEFINE e == Head(todo)
<1>1. /\ e \in Acted /\ Ordered(Tail(todo))
      /\ Acted \ Range(Tail(todo)) = (Acted \ Range(todo)) \cup {e}
      /\ \A f \in Range(Tail(todo)) : ~ActsBefore(f, e)
  BY OneLess DEF Sweeping
<1>2. todo' = Tail(todo)
  BY DEF Replace
<1>3. /\ Text' = Text /\ Acted' = Acted
      /\ \A f, g : ActsBefore(f, g)' = ActsBefore(f, g)
  BY DEF Text, Acted, Action, ActsBefore
<1>4. \A f \in Acted : f.start \in Nat /\ f.end \in Nat /\ f.start < f.end
  BY ActedAre DEF Within
<1>5. out \in Seq(Int) /\ Len(out) \in Nat
  BY DEF Sweeping
<1>6. \/ Outside(e) /\ out' = out
      \/ /\ ~Outside(e) /\ e.end <= Len(out)
         /\ out' \in Seq(Int) /\ Spliced(out', out, e.start, e.end, Len(items))
  <2>1. CASE Outside(e) /\ out' = out
    BY <2>1
  <2>2. CASE ~Outside(e) /\ Replace(e, items)
    <3>1. out' = SubSeq(out, 1, e.start) \o items \o SubSeq(out, e.end + 1, Len(out))
      BY <2>2 DEF Replace
    <3>2. e.start \in Nat /\ e.end \in Nat /\ e.start <= e.end /\ e.end <= Len(out)
      BY <1>1, <1>4, <1>5, <2>2 DEF Outside
    <3> HIDE DEF e
    <3>3. Spliced(out', out, e.start, e.end, Len(items))
      BY <1>5, <3>1, <3>2, SpliceIs
    <3>4. QED
      BY <2>2, <3>2, <3>3, SMTT(30) DEF Spliced
  <2>3. QED
    BY <2>1, <2>2
<1> HIDE DEF e
<1>7. out' \in Seq(Int)
  BY <1>5, <1>6
<1>8. ASSUME NEW g \in Acted, Upfront(g)
      PROVE  (Replaced(g)' => Gone(out', g)) /\ (~Replaced(g)' => Untouched(out', g))
  <2>1. Replaced(g)' <=> Replaced(g) \/ SameSpan(e, g)
    BY <1>1, <1>2, <1>3 DEF Replaced, SameSpan
  <2>2. (Replaced(g) => Gone(out, g)) /\ (~Replaced(g) => Untouched(out, g))
    BY <1>8 DEF Sweeping
  <2>3. /\ g.start \in Nat /\ g.end \in Nat /\ g.start < g.end
        /\ e.start \in Nat /\ e.end \in Nat /\ e.start < e.end
    BY <1>1, <1>4
  <2>4. ~Outside(e) => /\ Gone(out, g) => Gone(out', g)
                       /\ Untouched(out, g) /\ g.end <= e.start => Untouched(out', g)
                       /\ Untouched(out, g) /\ SameSpan(e, g) => Gone(out', g)
    <3> SUFFICES ASSUME ~Outside(e)
                 PROVE  /\ Gone(out, g) => Gone(out', g)
                        /\ Untouched(out, g) /\ g.end <= e.start => Untouched(out', g)
                        /\ Untouched(out, g) /\ SameSpan(e, g) => Gone(out', g)
      OBVIOUS
    <3>1. e.end <= Len(out) /\ Spliced(out', out, e.start, e.end, Len(items)) /\ Len(items) \in Nat
      BY <1>6
    <3>2. /\ Gone(out, g) => Gone(out', g)
          /\ Untouched(out, g) /\ g.end <= e.start => Untouched(out', g)
          /\ Untouched(out, g) /\ e.start = g.start /\ e.end = g.end => Gone(out', g)
      BY <1>5, <2>3, <3>1, SpliceRemoves
    <3>3. QED
      BY <3>2 DEF SameSpan
  <2>5. CASE Replaced(g)
    <3>1. Gone(out', g)
      BY <1>6, <2>2, <2>4, <2>5
    <3>2. QED
      BY <2>1, <2>5, <3>1
  <2>6. CASE ~Replaced(g) /\ SameSpan(e, g)
    <3>1. ~Outside(e)
      BY <1>5, <2>2, <2>3, <2>6 DEF Outside, Untouched, SameSpan
    <3>2. QED
      BY <2>1, <2>2, <2>4, <2>6, <3>1
  <2>7. CASE ~Replaced(g) /\ ~SameSpan(e, g)
    <3>1. g \notin Acted \ Range(Tail(todo))
      BY <1>1, <2>3, <2>7 DEF Replaced, SameSpan
    <3>2. ~ActsBefore(g, e)
      BY <1>1, <3>1
    <3>3. Overlaps(e, g) => Covers(e, g)
      BY <1>1, <1>8 DEF Upfront
    <3>4. g.end <= e.start
      BY <2>3, <2>7, <3>2, <3>3 DEF ActsBefore, Overlaps, Covers, SameSpan
    <3>5. Untouched(out', g)
      BY <1>6, <2>2, <2>4, <2>7, <3>4
    <3>6. QED
      BY <2>1, <2>7, <3>5
  <2>8. QED
    BY <2>5, <2>6, <2>7
<1>9. Ordered(todo)' /\ \A g : Upfront(g)' <=> Upfront(g)
  BY <1>1, <1>2, <1>3 DEF Ordered, Upfront, Overlaps, Covers
<1>10. QED
  BY <1>3, <1>7, <1>8, <1>9 DEF Sweeping, Gone, Untouched

-----------------------------------------------------------------------------
(* What is found stays found. *)

\* What the matches of a chunk are is found once the chunk is searched.
Gathered ==
    /\ \A i \in 1..Len(chunks) : i < k \/ stage \notin {"resolve", "detect"} =>
          \A m \in Matches(chunks[i], case.doc.patterns, SpacedPatterns) :
              Shifted(m, chunks[i].base) \in found
    /\ stage \notin {"resolve", "detect", "refused"} => chunks # <<>>

\* A value found that no other finding with a checksum overlaps.
Relevants == {Plain(f) : f \in {g \in found : Relevant(g)}}
Lone(v) ==
    /\ Value(v, Text) /\ \E f \in Relevants : Like(f, v)
    /\ \A f \in Relevants : f.type \in Backed /\ Overlaps(f, v) => Like(f, v)

\* Such a value is among the entities, and what overlaps it there covers it.
Held ==
    stage \notin {"resolve", "detect", "settle"} =>
        \A v : Lone(v) => Guarded(entities, v) /\ \E e \in entities : Like(e, v)

\* Spans go as the decisions are applied.
Swept == stage \in {"apply", "done"} => Sweeping

\* What the steps preserve.
LInv == RInv /\ Gathered /\ Held /\ Swept

\* It holds before the profile is resolved.
LEMMA InitLeft == Init => LInv
<1> SUFFICES ASSUME Init PROVE LInv
  OBVIOUS
<1>1. chunks = <<>> /\ stage = "resolve"
  BY DEF Init
<1>2. Gathered /\ Held /\ Swept
  BY <1>1 DEF Gathered, Held, Swept
<1>3. QED
  BY <1>2, InitRemoval DEF LInv

\* Steps after detection leave what is found.
LEMMA GatheredUntouched ==
    ASSUME Gathered, UNCHANGED <<case, k, chunks, found>>,
           stage' \notin {"resolve", "detect"} => stage \notin {"resolve", "detect"},
           stage' \notin {"resolve", "detect", "refused"} =>
              stage \notin {"resolve", "detect", "refused"}
    PROVE  Gathered'
<1>1. \A chunk, first, second : Matches(chunk, first, second)' = Matches(chunk, first, second)
  BY DEF Matches, Text
<1>2. SpacedPatterns' = SpacedPatterns
  BY DEF SpacedPatterns
<1>3. QED
  BY <1>1, <1>2 DEF Gathered

\* Steps after reconciliation leave the entities.
LEMMA HeldUntouched ==
    ASSUME Held, UNCHANGED <<case, profile, found, entities>>,
           stage' \notin {"resolve", "detect", "settle"} => stage \notin {"resolve", "detect", "settle"}
    PROVE  Held'
<1>1. Text' = Text /\ Relevants' = Relevants
  BY DEF Text, Relevants, Relevant
<1>2. \A v : Lone(v)' <=> Lone(v)
  BY <1>1 DEF Lone, Value, Solid, Like, SameSpan, Overlaps
<1>3. QED
  BY <1>2 DEF Held, Guarded, Like, SameSpan, Overlaps, Covers

\* Nothing is found when the document is cut (chunk_text).
LEMMA CutLeaves == ASSUME LInv, Cut PROVE Gathered' /\ Held' /\ Swept'
<1>1. /\ stage = "resolve" /\ k = 1 /\ found = {} /\ chunks = <<>>
      /\ UNCHANGED <<case, k, found>> /\ stage' \in {"detect", "refused"}
      /\ stage' = "refused" => chunks' = chunks
  BY DEF Cut, LInv, RInv, SInv, CutOnce, FoundAndSettled
<1>2. Gathered'
  <2>1. CASE stage' = "detect"
    <3>1. \A i \in 1..Len(chunks') : ~(i < k') \/ k' # 1
      OBVIOUS
    <3>2. QED
      BY <1>1, <2>1, <3>1 DEF Gathered
  <2>2. CASE stage' = "refused"
    BY <1>1, <2>2 DEF Gathered
  <2>3. QED
    BY <1>1, <2>1, <2>2
<1>3. Relevants' = {}
  BY <1>1 DEF Relevants
<1>4. \A v : ~Lone(v)'
  BY <1>3 DEF Lone
<1>5. QED
  BY <1>1, <1>2, <1>4 DEF Held, Swept

\* The matches of a chunk are added to those of the chunks before it.
LEMMA DetectLeaves == ASSUME LInv, Detect PROVE Gathered' /\ Held' /\ Swept'
<1>1. /\ stage = "detect" /\ stage' \in {"detect", "settle"} /\ UNCHANGED <<case, chunks>>
      /\ found \subseteq found'
      /\ \A m \in Matches(chunks[k], case.doc.patterns, SpacedPatterns) :
            Shifted(m, chunks[k].base) \in found'
      /\ IF k < Len(chunks) THEN k' = k + 1 /\ stage' = stage
         ELSE stage' = "settle" /\ k' = k
  BY DEF Detect
<1>2. k \in 1..Len(chunks)
  BY <1>1, SMTT(30) DEF LInv, RInv, SInv, FoundAndSettled
<1>3. \A chunk, first, second : Matches(chunk, first, second)' = Matches(chunk, first, second)
  BY <1>1 DEF Matches, Text
<1>4. SpacedPatterns' = SpacedPatterns
  BY <1>1 DEF SpacedPatterns
<1>5. ASSUME NEW i \in 1..Len(chunks), i < k' \/ stage' \notin {"resolve", "detect"},
             NEW m \in Matches(chunks[i], case.doc.patterns, SpacedPatterns)
      PROVE  Shifted(m, chunks[i].base) \in found'
  <2>1. i < k \/ i = k
    BY <1>1, <1>2, <1>5
  <2>2. CASE i = k
    BY <1>1, <2>2
  <2>3. CASE i < k
    BY <1>1, <2>3 DEF LInv, Gathered
  <2>4. QED
    BY <2>1, <2>2, <2>3
<1>6. Gathered'
  <2>1. chunks' # <<>>
    BY <1>1, <1>2
  <2>2. QED
    BY <1>1, <1>3, <1>4, <1>5, <2>1 DEF Gathered
<1>7. QED
  BY <1>1, <1>6 DEF Held, Swept

\* Reconciliation keeps each value (reconcile).
LEMMA SettleLeaves == ASSUME LInv, Settle PROVE Gathered' /\ Held' /\ Swept'
<1>1. /\ stage = "settle" /\ stage' = "decide" /\ entities' = Reconcile(Relevants, Text)
      /\ UNCHANGED <<case, k, profile, chunks, found>>
  BY DEF Settle, Relevants
<1>2. Gathered'
  BY <1>1, GatheredUntouched DEF LInv
<1>3. IsFiniteSet(found) /\ \A e \in found : Plain(e) \in Findings(Len(Text))
  BY DEF LInv, RInv, SInv, FoundAndSettled
<1>4. Proper(Relevants, Types, Text)
  <2> DEFINE relevant == {g \in found : Relevant(g)}
             f == [e \in relevant |-> Plain(e)]
  <2>1. IsFiniteSet(relevant) /\ Relevants = {f[e] : e \in relevant}
    BY <1>3, FS_Subset DEF Relevants
  <2>2. Relevants \in SUBSET Findings(Len(Text))
    BY <1>3 DEF Relevants
  <2> HIDE DEF f, relevant
  <2>3. IsFiniteSet(Relevants)
    BY <2>1, ImageIsFinite
  <2>4. \A e \in Relevants : e.type \in Types
    BY <2>2 DEF Findings
  <2>5. QED
    BY <2>2, <2>3, <2>4 DEF Proper
<1>5. Len(Text) \in Nat
  BY DEF LInv, RInv, SInv, CutOnce, Askable, Text
<1>6. \A v : Lone(v) => Guarded(entities', v) /\ \E e \in entities' : Like(e, v)
  <2> SUFFICES ASSUME NEW v, Lone(v) PROVE Guarded(entities', v) /\ \E e \in entities' : Like(e, v)
    OBVIOUS
  <2>1. /\ Value(v, Text) /\ \E f \in Relevants : Like(f, v)
        /\ \A f \in Relevants : f.type \in Backed /\ Overlaps(f, v) => Like(f, v)
    BY DEF Lone
  <2>2. QED
    BY <1>1, <1>4, <1>5, <2>1, ValueIsKept
<1>7. Text' = Text /\ Relevants' = Relevants
  BY <1>1 DEF Text, Relevants, Relevant
<1>8. \A v : Lone(v)' <=> Lone(v)
  BY <1>7 DEF Lone, Value, Solid, Like, SameSpan, Overlaps
<1>9. Held'
  BY <1>6, <1>8 DEF Held, Guarded, Like, SameSpan, Overlaps, Covers
<1>10. QED
  BY <1>1, <1>2, <1>9 DEF Swept

\* The decisions are all of those acted on, in the order they are applied.
LEMMA DecideLeaves == ASSUME LInv, Decide PROVE Gathered' /\ Held' /\ Swept'
<1>1. /\ stage = "decide" /\ stage' \in {"refused", "apply"} /\ out = Offsets(Text)
      /\ UNCHANGED <<case, k, profile, chunks, found, entities, out>>
  BY DEF Decide, LInv, RInv, InStep
<1>2. Gathered' /\ Held'
  BY <1>1, GatheredUntouched, HeldUntouched DEF LInv
<1>3. SInv
  BY DEF LInv, RInv
<1>4. ASSUME stage' = "apply" PROVE Sweeping'
  <2> DEFINE before == {p \in Acted \X Acted : ActsBefore(p[1], p[2])}
  <2>1. todo' = InOrder(Acted, before)
    BY <1>4 DEF Decide, Acted
  <2>2. \A e, f \in Acted : <<e, f>> \in before <=> ActsBefore(e, f)
    OBVIOUS
  <2>3. StrictOrder(Acted, before) /\ IsFiniteSet(Acted)
    BY <1>3, ActsBeforeOrder, ActedAre
  <2> HIDE DEF before
  <2>4. /\ todo' \in Seq(Acted) /\ Range(todo') = Acted
        /\ \A i, j \in DOMAIN todo' : i < j => <<todo'[j], todo'[i]>> \notin before
        /\ \A i, j \in DOMAIN todo' : todo'[i] = todo'[j] => i = j
    BY <2>1, <2>3, InOrderIs
  <2>5. DOMAIN todo' = 1..Len(todo') /\ \A i \in 1..Len(todo') : todo'[i] \in Acted
    BY <2>4
  <2>6. \A i, j \in 1..Len(todo') :
           i < j => todo'[i] # todo'[j] /\ ~ActsBefore(todo'[j], todo'[i])
    <3> SUFFICES ASSUME NEW i \in 1..Len(todo'), NEW j \in 1..Len(todo'), i < j
                 PROVE  todo'[i] # todo'[j] /\ ~ActsBefore(todo'[j], todo'[i])
      OBVIOUS
    <3>1. i \in DOMAIN todo' /\ j \in DOMAIN todo' /\ i # j
      BY <2>5
    <3>2. todo'[i] # todo'[j] /\ <<todo'[j], todo'[i]>> \notin before
      BY <2>4, <3>1
    <3>3. todo'[i] \in Acted /\ todo'[j] \in Acted
      BY <2>5
    <3>4. QED
      BY <2>2, <3>2, <3>3
  <2>7. Ordered(todo')
    BY <2>4, <2>6 DEF Ordered
  <2>8. Acted' = Acted /\ Ordered(todo)'
    <3>1. /\ Text' = Text /\ Acted' = Acted
          /\ \A e, f : ActsBefore(e, f)' = ActsBefore(e, f)
      BY <1>1 DEF Text, Acted, Action, ActsBefore
    <3>2. QED
      BY <2>7, <3>1 DEF Ordered
  <2>9. \A g : ~Replaced(g)'
    BY <2>4, <2>8 DEF Replaced
  <2>10. out \in Seq(Int) /\ \A g \in Acted : Untouched(out, g)
    <3> DEFINE n == Len(Text)
    <3>1. n \in Nat /\ \A g \in Acted : g.start \in Nat /\ g.end \in 0..n
      BY <1>3, ActedAre DEF Within
    <3>2. out = [i \in 1..n |-> i - 1]
      BY <1>1 DEF Offsets
    <3> HIDE DEF n
    <3>3. out \in Seq(Int) /\ Len(out) = n /\ \A i \in 1..n : out[i] = i - 1
      BY <3>1, <3>2
    <3>4. ASSUME NEW g \in Acted PROVE Untouched(out, g)
      <4>1. g.start \in Nat /\ g.end \in 0..n
        BY <3>1
      <4>2. \A p \in 1..g.end : p \in 1..n
        BY <3>1, <4>1
      <4>3. \A p \in 1..n : p > g.end => ~(g.start <= out[p] /\ out[p] < g.end)
        BY <3>3, <4>1
      <4>4. QED
        BY <3>3, <4>1, <4>2, <4>3 DEF Untouched
    <3>5. QED
      BY <3>3, <3>4
  <2>11. QED
    BY <1>1, <2>8, <2>9, <2>10 DEF Sweeping, Untouched
<1>5. QED
  BY <1>1, <1>2, <1>4 DEF Swept

\* A label or a mask takes the place of a span (apply_decisions).
LEMMA ApplyLeaves == ASSUME LInv, Apply PROVE Sweeping'
<1>1. /\ stage = "apply" /\ todo # <<>> /\ UNCHANGED <<case, profile, entities>>
      /\ \/ Outside(Head(todo)) /\ todo' = Tail(todo) /\ out' = out
         \/ ~Outside(Head(todo)) /\ Replace(Head(todo), Marks(Head(todo)))
  BY DEF Apply
<1>2. SInv /\ Sweeping
  BY <1>1 DEF LInv, RInv, Swept
<1>3. Head(todo) \in Acted
  BY <1>1, <1>2, OneLess DEF Sweeping
<1>4. /\ Marks(Head(todo)) \in Seq(Int)
      /\ \A i \in 1..Len(Marks(Head(todo))) : Marks(Head(todo))[i] < 0
  BY <1>2, <1>3, MarksAre
<1>5. QED
  BY <1>1, <1>2, <1>4, TurnSweeps

\* So does a token.
LEMMA GiveLeaves ==
    ASSUME LInv, NEW token \in Tokens, Give(Head(todo), token), Tokenizing(Head(todo)),
           UNCHANGED <<case, profile, entities>>
    PROVE  Sweeping'
<1>1. stage = "apply" /\ todo # <<>> /\ ~Outside(Head(todo))
  BY DEF Tokenizing
<1>2. SInv /\ Sweeping
  BY <1>1 DEF LInv, RInv, Swept
<1> DEFINE items == [i \in 1..LabelWidth |-> Surrogate(token)]
<1>3. items \in Seq(Int) /\ \A i \in 1..Len(items) : items[i] < 0
  BY SurrogatesAre
<1>4. Replace(Head(todo), items)
  BY DEF Give
<1> HIDE DEF items
<1>5. QED
  BY <1>1, <1>2, <1>3, <1>4, TurnSweeps

\* The vault has no part in it.
LEMMA SweepingUntouched ==
    ASSUME Sweeping, UNCHANGED <<case, profile, entities, out, todo>>
    PROVE  Sweeping'
<1>1. Acted' = Acted /\ \A f, g : ActsBefore(f, g)' = ActsBefore(f, g)
  BY DEF Acted, Action, ActsBefore
<1>2. QED
  BY <1>1 DEF Sweeping, Ordered, Upfront, Replaced, Gone, Untouched

\* Every step preserves it.
LEMMA LeftStep == LInv /\ [Next]_vars => LInv'
<1> SUFFICES ASSUME LInv, [Next]_vars PROVE LInv'
  OBVIOUS
<1>1. RInv'
  BY RemovalStep DEF LInv
<1>2. CASE Cut \/ Detect \/ Settle \/ Decide
  BY <1>1, <1>2, CutLeaves, DetectLeaves, SettleLeaves, DecideLeaves DEF LInv
<1>3. CASE Apply \/ Reuse \/ Remember
  <2>1. UNCHANGED <<case, stage, k, profile, chunks, found, entities>> /\ Sweeping'
    <3>1. CASE Apply
      BY <3>1, ApplyLeaves DEF Apply
    <3>2. CASE Reuse
      <4>1. /\ Give(Head(todo), vault.seen[ValueOf(Head(todo))]) /\ Tokenizing(Head(todo))
            /\ ValueOf(Head(todo)) \in DOMAIN vault.seen
            /\ UNCHANGED <<case, stage, k, profile, chunks, found, entities>>
        BY <3>2 DEF Reuse
      <4>2. vault.seen[ValueOf(Head(todo))] \in Tokens
        BY <4>1 DEF LInv, RInv, VaultTokens
      <4>3. QED
        BY <4>1, <4>2, GiveLeaves
    <3>3. CASE Remember
      <4>1. /\ Give(Head(todo), minting.token) /\ minting # None
            /\ UNCHANGED <<case, stage, k, profile, chunks, found, entities>>
        BY <3>3 DEF Remember
      <4>2. Tokenizing(Head(todo)) /\ minting.token \in Tokens
        BY <4>1 DEF LInv, RInv, VInv, MintingIsDue, VaultTokens
      <4>3. QED
        BY <4>1, <4>2, GiveLeaves
    <3>4. QED
      BY <1>3, <3>1, <3>2, <3>3
  <2>2. Gathered' /\ Held'
    BY <2>1, GatheredUntouched, HeldUntouched DEF LInv
  <2>3. QED
    BY <1>1, <2>1, <2>2 DEF LInv, Swept
<1>4. CASE Finish \/ Mint \/ ClearForward \/ ClearSeen \/ Done \/ UNCHANGED vars
  <2>1. /\ UNCHANGED <<case, k, profile, chunks, found, entities, out, todo>>
        /\ stage' = stage \/ (stage = "apply" /\ stage' = "done")
    BY <1>4 DEF Finish, Mint, ClearForward, ClearSeen, Done, vars
  <2>2. Gathered' /\ Held'
    BY <2>1, GatheredUntouched, HeldUntouched DEF LInv
  <2>3. Swept'
    BY <2>1, SweepingUntouched DEF LInv, Swept
  <2>4. QED
    BY <1>1, <2>2, <2>3 DEF LInv
<1>5. QED
  BY <1>2, <1>3, <1>4 DEF Next

\* A match is a span between offsets.
LEMMA MatchBounds ==
    ASSUME Askable(case), NEW chunk, chunk.base \in Nat, chunk.end \in 0..Len(Text),
           NEW first, NEW second, \A p \in first \cup second : p \in case.doc.patterns,
           NEW m \in Matches(chunk, first, second)
    PROVE  m.start \in Int /\ m.end \in Int
<1> DEFINE made == Normalize(SubSeq(Text, chunk.base + 1, chunk.end))
<1>1. /\ Text \in Seq(Chars) /\ Len(Text) \in Nat
      /\ \A p \in first \cup second : p.text \in Seq(Chars) \ {<<>>}
  BY DEF Askable, Text
<1>2. Made(made)
  <2>1. \A i \in (chunk.base + 1)..chunk.end : Text[i] \in Chars
    BY <1>1
  <2>2. chunk.base + 1 \in Int /\ chunk.end \in Int
    BY <1>1
  <2>3. SubSeq(Text, chunk.base + 1, chunk.end) \in Seq(Chars)
    BY <1>1, <2>1, <2>2, SubSeqProperties
  <2>4. QED
    BY <2>3, NormalizedIsMade
<1>3. made = Normalize(SubSeq(Text, chunk.base + 1, chunk.end))
  OBVIOUS
<1> HIDE DEF made
<1>4. \E x, y : MatchOf(m, first, second, made, x, y)
  BY <1>1, <1>2, <1>3, MatchesHave
<1>5. PICK x, y : MatchOf(m, first, second, made, x, y)
  BY <1>4
<1>6. x \in Int /\ y \in Int /\ m.start = x /\ m.end = y + 1
  BY <1>5 DEF MatchOf, MatchAt
<1>7. QED
  BY <1>6

\* What stands in the document is found.
LEMMA PlantedIsFound ==
    ASSUME LInv, stage \notin {"resolve", "detect"}, chunks # <<>>, NEW v \in Planted
    PROVE  Value(v, Text) /\ \E f \in found : Relevant(f) /\ Like(f, v)
<1> DEFINE whole == [base |-> 0, end |-> Len(Text)]
           matches == Matches(whole, case.doc.patterns, Joined(SpacedPatterns))
<1>1. PICK m \in matches :
         /\ v = Plain(m) /\ m.type \in Backed /\ Relevant(m)
         /\ v.end - v.start <= PatternSpan(profile.rules) /\ Text[v.end] \notin StripChars
  BY DEF Planted, Joined
<1>2. Askable(case) /\ Len(Text) \in Nat /\ case.doc.size \in Nat
  BY DEF LInv, RInv, SInv, CutOnce, Askable, Text
<1>3. SpacedPatterns \subseteq case.doc.patterns /\ Joined(SpacedPatterns) \subseteq case.doc.patterns
  BY DEF SpacedPatterns, Joined
<1>4. v.type = m.type /\ v.start = m.start /\ v.end = m.end
  BY <1>1 DEF Plain
<1>5. v.start \in 0..Len(Text) /\ v.end \in 0..Len(Text) /\ v.start < v.end
  <2>0. m.start \in Int /\ m.end \in Int
    <3>1. whole.base \in Nat /\ whole.end \in 0..Len(Text)
      BY <1>2
    <3>2. \A p \in case.doc.patterns \cup Joined(SpacedPatterns) : p \in case.doc.patterns
      BY <1>3
    <3> HIDE DEF whole
    <3>3. QED
      BY <1>2, <3>1, <3>2, MatchBounds
  <2>1. whole.base = 0 /\ whole.end = Len(Text)
    OBVIOUS
  <2> HIDE DEF whole
  <2>2. Plain(Shifted(m, 0)) \in Findings(Len(Text))
    BY <1>2, <1>3, <2>1, MatchesAre
  <2>3. \E a, b, c, d, e : m = [type |-> a, score |-> b, by |-> c, start |-> d, end |-> e]
    BY DEF Matches
  <2>4. Plain(Shifted(m, 0)).start = m.start + 0 /\ Plain(Shifted(m, 0)).end = m.end + 0
    BY <2>3 DEF Plain, Shifted
  <2>5. m.start + 0 \in 0..Len(Text) /\ m.end + 0 \in 0..Len(Text) /\ m.start + 0 < m.end + 0
    BY <1>2, <2>2, <2>4, FindingIs
  <2>6. m.start + 0 = m.start /\ m.end + 0 = m.end
    BY <2>0
  <2>7. QED
    BY <1>4, <2>5, <2>6
<1>6. Value(v, Text)
  BY <1>1, <1>4, <1>5 DEF Value, Solid
<1>7. Covering(chunks, Len(Text), PatternSpan(profile.rules))
      /\ PatternSpan(profile.rules) \in Nat \ {0}
  <2>1. CutOnce
    BY DEF LInv, RInv, SInv
  <2>2. QED
    BY <1>2, <2>1, Resolved, ChunkTextCovers DEF CutOnce
<1>8. PICK i \in 1..Len(chunks) : chunks[i].base <= v.start /\ v.end <= chunks[i].end
  BY <1>1, <1>2, <1>5, <1>7, OneHoldsIt
<1>9. chunks[i].base \in Nat /\ chunks[i].end \in 0..Len(Text)
  BY <1>7 DEF Covering
<1>10. PICK n \in Matches(chunks[i], case.doc.patterns, SpacedPatterns) :
          LET f == Shifted(n, chunks[i].base)
          IN f.type = m.type /\ f.score = m.score /\ f.start = m.start /\ f.end = m.end
  BY <1>2, <1>3, <1>4, <1>8, <1>9, MatchInChunk
<1>11. Shifted(n, chunks[i].base) \in found
  BY <1>10 DEF LInv, Gathered
<1>12. Relevant(Shifted(n, chunks[i].base)) /\ Like(Shifted(n, chunks[i].base), v)
  BY <1>1, <1>4, <1>10 DEF Relevant, Like, SameSpan
<1>13. QED
  BY <1>6, <1>11, <1>12

(***************************************************************************)
(* Whatever else detectors find, a value with a checksum that stands in    *)
(* the document leaves nothing in the artifact, for every document,        *)
(* chunk size, chain of profiles and set of surrogates, unless the profile *)
(* allows it or another finding with a checksum overlaps it: no chunk's    *)
(* edge, invisible character, blank within a run, guess that covers it or  *)
(* earlier replacement lets it through (core/detector.py,                  *)
(* detect_spaced_evasion; core/reconciler.py, reconcile; core/applier.py,  *)
(* apply_decisions).                                                       *)
(***************************************************************************)
THEOREM ValuesAreRemoved == Spec => []NoValueSurvives
<1>1. LInv => NoValueSurvives
  <2> SUFFICES ASSUME LInv, stage = "done", NEW v \in Planted,
                      ~\E w \in found : /\ w.type \in Backed /\ Relevant(w) /\ Overlaps(v, w)
                                        /\ ~(w.type = v.type /\ SameSpan(v, w)),
                      ~\E e \in entities : e.type = v.type /\ Covers(e, v) /\ Action(e) = "ALLOW"
               PROVE  \A i \in DOMAIN out : ~(v.start <= out[i] /\ out[i] < v.end)
    BY DEF NoValueSurvives
  <2>1. SInv /\ Sweeping /\ todo = <<>> /\ chunks # <<>>
    BY DEF LInv, RInv, InStep, Swept, Gathered
  <2>2. Value(v, Text) /\ \E f \in found : Relevant(f) /\ Like(f, v)
    BY <2>1, PlantedIsFound
  <2>3. Lone(v)
    <3>1. \A f : /\ Plain(f).type = f.type
                 /\ Like(Plain(f), v) <=> Like(f, v)
                 /\ Overlaps(Plain(f), v) <=> Overlaps(v, f)
                 /\ SameSpan(v, f) <=> SameSpan(f, v)
      BY DEF Plain, Like, SameSpan, Overlaps
    <3>2. \E f \in Relevants : Like(f, v)
      BY <2>2, <3>1 DEF Relevants
    <3>3. ASSUME NEW f \in found, Relevant(f), Plain(f).type \in Backed, Overlaps(Plain(f), v)
          PROVE  Like(Plain(f), v)
      BY <3>1, <3>3 DEF Like
    <3>4. \A f \in Relevants : f.type \in Backed /\ Overlaps(f, v) => Like(f, v)
      BY <3>3 DEF Relevants
    <3>5. QED
      BY <2>2, <3>2, <3>4 DEF Lone
  <2>4. Guarded(entities, v) /\ \E e \in entities : Like(e, v)
    BY <2>3 DEF LInv, Held
  <2>5. PICK e \in entities : Like(e, v)
    BY <2>4
  <2>6. e.type = v.type /\ e.start = v.start /\ e.end = v.end
    BY <2>5 DEF Like, SameSpan
  <2>7. v.start \in Int /\ v.end \in Int
    BY <2>2 DEF Value
  <2>8. e \in Acted
    BY <2>6, <2>7 DEF Acted, Covers
  <2>9. Upfront(e)
    <3>1. \A f \in entities : Overlaps(f, v) => Covers(f, v)
      BY <2>4 DEF Guarded
    <3>2. QED
      BY <2>6, <3>1 DEF Upfront, Acted, Overlaps, Covers
  <2>10. Replaced(e)
    <3>1. Range(todo) = {}
      BY <2>1 DEF Range
    <3>2. QED
      BY <2>8, <3>1 DEF Replaced, SameSpan
  <2>11. Gone(out, e) /\ DOMAIN out = 1..Len(out)
    BY <2>1, <2>8, <2>9, <2>10 DEF Sweeping
  <2>12. QED
    BY <2>6, <2>11 DEF Gone
<1>2. QED
  BY <1>1, InitLeft, LeftStep, PTL DEF Spec
=============================================================================
