--------------------------- MODULE CoverageRanges ---------------------------
(***************************************************************************)
(* How missing lines become coverage gaps: coverage.py reports the lines   *)
(* of a file that no test executed, and the adapter turns them into ranges *)
(* that lie in one function each; gcov marks them in a copy of the source, *)
(* and the native adapter does without the functions.  A span is a         *)
(* function of the file, from its def line to its last.                    *)
(***************************************************************************)
EXTENDS Integers, Sequences, FiniteSets, FiniteSetsExt, SequencesExt, Functions

CONSTANT Module \* the function_name of a line in no function

SpanType == [name : STRING, start : Nat, end : Nat]

\* _function_spans_for_path: one function is in another or apart from it.
Nested(s, t) == s.start < t.start /\ t.end <= s.end
Apart(s, t)  == s.end < t.start

Laminar(spans) ==
  \A s, t \in spans : s = t \/ Nested(s, t) \/ Nested(t, s) \/ Apart(s, t) \/ Apart(t, s)

Covers(span, line) == span.start <= line /\ line <= span.end

\* _function_for_line: of the spans around a line the one that starts last,
\* and of those the one that ends first.
LaterStart(p, q) == p.start > q.start \/ (p.start = q.start /\ p.end <= q.end)

\* Mutant: the spans are compared by their ends only.
FunctionByEnd(line, spans) ==
  LET around == {s \in spans : Covers(s, line)}
  IN  IF around = {} THEN Module
      ELSE (CHOOSE s \in around : \A t \in around : s.end >= t.end).name

FunctionForLine(line, spans) ==
  LET around == {s \in spans : Covers(s, line)}
  IN  IF around = {} THEN Module
      ELSE (CHOOSE s \in around : \A t \in around : LaterStart(s, t)).name

Extends(range, line, name) == line = range.end + 1 /\ name = range.function

\* The line goes to the range that is open, or opens one.
AddLine(ranges, line, name) ==
  IF ranges # <<>> /\ Extends(Last(ranges), line, name)
    THEN [ranges EXCEPT ![Len(ranges)].end = line]
    ELSE Append(ranges, [start |-> line, end |-> line, function |-> name])

\* The lines are taken in ascending order, each once.
MissingRanges(lines, spans) ==
  LET last == Max(lines \cup {0})
      upTo[line \in 0 .. last] ==
        IF line = 0 THEN <<>>
        ELSE IF line \in lines
          THEN AddLine(upTo[line - 1], line, FunctionForLine(line, spans))
          ELSE upTo[line - 1]
  IN  upTo[last]

\* _collapse_ranges, for gcov: no functions.
CollapseRanges(lines) == MissingRanges(lines, {})
=============================================================================
