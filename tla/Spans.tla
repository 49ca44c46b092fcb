------------------------------- MODULE Spans -------------------------------
(***************************************************************************)
(* The span arithmetic of a scan as pure operators: how a text is cut into *)
(* overlapping chunks (core/chunker.py), how a match in a normalized text  *)
(* is taken back to the original (utils/normalization.py), how overlapping *)
(* findings are settled (core/reconciler.py).                              *)
(*                                                                         *)
(* Offsets count from 0 and a span is start..end-1, as in the code; the    *)
(* character at offset i of a text is text[i + 1].                         *)
(***************************************************************************)
EXTENDS Integers, Sequences, FiniteSets, Functions

CONSTANTS
    Types,          \* entity types
    Severity,       \* Severity[t]: 1 low, 2 medium, 3 high
    Backed,         \* types with a checksum, VALIDATOR_BACKED_TYPES
    SpacedPass,     \* those of them searched for once more, _SPACED_PASS_TYPES
    NameOrder,      \* NameOrder[t]: larger for a type that sorts first
    Nestable,       \* pairs <<outer, inner>> of types that may nest
    MinOverlap,     \* MIN_CHUNK_OVERLAP_CHARS
    MinTrim,        \* _MIN_TRIM_LENGTH
    MinRun          \* tokens in a run of single characters, 4 in the code

Detectors == {"custom_security", "presidio", "spacy"}
Precedence == [custom_security |-> 3, presidio |-> 2, spacy |-> 1]

\* Kinds of characters: letters and digits, a letter of another script that
\* looks like one, a separator, a blank, a line end, a zero-width character.
Alnum == {"a", "b", "c"}
Folded(ch) == IF ch = "cyrillic a" THEN "a" ELSE ch
StripChars == {"=", " "}
LineEnd == "nl"
Invisible == {"zw"}
Chars == Alnum \cup {"cyrillic a"} \cup StripChars \cup {LineEnd} \cup Invisible

ASSUME SpansAssumption ==
    /\ IsFiniteSet(Types)
    /\ Severity \in [Types -> 1..3] /\ NameOrder \in [Types -> Int]
    /\ SpacedPass \subseteq Backed /\ Backed \subseteq Types
    /\ Nestable \subseteq Types \X Types /\ \A pair \in Nestable : pair[1] \notin Backed
    /\ MinOverlap \in Nat \ {0} /\ MinTrim \in Nat \ {0} /\ MinRun \in Nat \ {0}

Larger(m, n) == IF m >= n THEN m ELSE n
Offsets(text) == [i \in 1..Len(text) |-> i - 1]

\* A set as a sequence in which nobody stands behind one it comes before.
InOrder(S, before) ==
    CHOOSE s \in [1..Cardinality(S) -> S] :
        /\ Range(s) = S
        /\ \A i, j \in DOMAIN s : i < j => <<s[j], s[i]>> \notin before

Overlaps(e, f) == e.start < f.end /\ f.start < e.end
Covers(e, f) == e.start <= f.start /\ f.end <= e.end
SameSpan(e, f) == e.start = f.start /\ e.end = f.end

-----------------------------------------------------------------------------
(* Chunks. *)

\* int(1.25 * span), and never below the floor.
ResolveOverlap(span) == Larger(MinOverlap, (5 * span) \div 4)
ResolveChunkSize(overlap, requested) == Larger(requested, 4 * overlap)

\* Where a chunk that begins at p ends: after the last line end in the last
\* fifth of its size, else at its full size, else with the text.
Boundary(text, size, p) ==
    LET target == p + size
        lines == {i \in Larger(p + 1, target - Larger(1, size \div 5))..(target - 1) :
                     text[i + 1] = LineEnd}
    IN IF target >= Len(text) THEN Len(text)
       ELSE IF lines = {} THEN target
       ELSE 1 + CHOOSE i \in lines : \A j \in lines : j <= i

SplitPoints(text, size) ==
    LET end[k \in 0..Len(text)] == IF k = 0 THEN 0 ELSE Boundary(text, size, end[k - 1])
        count == CHOOSE k \in 1..Len(text) :
                    end[k] = Len(text) /\ \A j \in 1..(k - 1) : end[j] < Len(text)
    IN [k \in 1..count |-> end[k]]

\* Mutant: each chunk begins where the one before it ends.
ChunkText_NoOverlap(text, span, requested) ==
    LET overlap == ResolveOverlap(span)
        size == ResolveChunkSize(overlap, requested)
        points == SplitPoints(text, size)
    IN IF Len(text) <= size
       THEN <<[base |-> 0, prefix |-> 0, end |-> Len(text)]>>
       ELSE [k \in 1..Len(points) |->
                LET previous == IF k = 1 THEN 0 ELSE points[k - 1]
                IN [base |-> previous, prefix |-> 0, end |-> points[k]]]

\* The chunks: base and end in the document, and how many characters of each
\* the chunk before it has covered.
ChunkText(text, span, requested) ==
    LET overlap == ResolveOverlap(span)
        size == ResolveChunkSize(overlap, requested)
        points == SplitPoints(text, size)
    IN IF Len(text) <= size
       THEN <<[base |-> 0, prefix |-> 0, end |-> Len(text)]>>
       ELSE [k \in 1..Len(points) |->
                LET previous == IF k = 1 THEN 0 ELSE points[k - 1]
                    base == Larger(0, previous - overlap)
                IN [base |-> base, prefix |-> previous - base, end |-> points[k]]]

-----------------------------------------------------------------------------
(* Normalization.  A normalized text is a text with the original offset of
   each of its characters. *)

\* The offsets of a text without those taken out.
Without(gone, text) ==
    LET kept[n \in 0..Len(text)] ==
            IF n = 0 THEN <<>>
            ELSE IF n - 1 \in gone THEN kept[n - 1] ELSE Append(kept[n - 1], n - 1)
    IN kept[Len(text)]

Normalize(text) ==
    LET kept == Without({i \in 0..(Len(text) - 1) : text[i + 1] \in Invisible}, text)
    IN [text |-> [i \in 1..Len(kept) |-> Folded(text[kept[i] + 1])],
        positions |-> kept]

\* Runs of single characters with a blank between each two of them.
SpacedRuns(text) ==
    LET Alone(s, e) ==
            /\ (e - s) % 2 = 1 /\ (e - s + 1) \div 2 >= MinRun
            /\ \A i \in s..(e - 1) :
                  IF (i - s) % 2 = 0 THEN text[i + 1] \in Alnum ELSE text[i + 1] = " "
            /\ s = 0 \/ text[s] \notin Alnum
            /\ e = Len(text) \/ text[e + 1] \notin Alnum
        runs == {r \in (0..Len(text)) \X (0..Len(text)) : r[1] < r[2] /\ Alone(r[1], r[2])}
    IN {r \in runs : ~\E q \in runs : q # r /\ q[1] <= r[1] /\ r[2] <= q[2]}

\* The blanks of such runs taken out.
Collapse(text) ==
    LET runs == SpacedRuns(text)
        kept == Without({i \in 0..(Len(text) - 1) :
                            text[i + 1] = " " /\ \E r \in runs : r[1] <= i /\ i < r[2]}, text)
    IN [text |-> [i \in 1..Len(kept) |-> text[kept[i] + 1]], positions |-> kept]

\* A non-empty span of the rewritten text, in the text it was made from: the
\* end follows from the last character that belongs to it.
ToOriginal(positions, span) ==
    [start |-> positions[span.start + 1], end |-> positions[span.end] + 1]

\* Where a pattern occurs in a text.
Occurrences(pattern, text) ==
    {[start |-> s, end |-> s + Len(pattern)] :
        s \in {i \in 0..(Len(text) - Len(pattern)) :
                  SubSeq(text, i + 1, i + Len(pattern)) = pattern}}
=============================================================================
