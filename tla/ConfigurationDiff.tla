--------------------------- MODULE ConfigurationDiff ---------------------------
(***************************************************************************)
(* The comparison of two configurations, startup and running or two saved   *)
(* ones: each is cut into blocks, blocks of one name are compared line by   *)
(* line, and lines that change one thing are shown side by side.            *)
(* A line has a form - separator, head of a hierarchical block, or other -, *)
(* the thing it sets and the value it sets it to.                           *)
(***************************************************************************)
EXTENDS Integers, Sequences, FiniteSets, SequencesExt, Listing

Separator == [form |-> "separator", of |-> "", to |-> 0]
GlobalKey == <<[form |-> "global", of |-> "", to |-> 0], 1>>

\* The command without "no", and without its value.
CommandIdentity(line) == line.of

\* The lines between separators.
Cut(blocks, line) == IF line = Separator THEN Append(blocks, <<>>)
                     ELSE [blocks EXCEPT ![Len(blocks)] = Append(@, line)]
RawBlocks(text) ==
    Keep(FoldLeft(Cut, <<<<>>>>, text), LAMBDA block : block # <<>>)

\* The name of a block whose head was met before: its place among the blocks
\* of that head.  (Mutated form: the name is the head alone.)
HeadAlone(heads, n) == <<heads[n][1], 1>>
KeyOf(heads, n)     == <<heads[n][1], Cardinality({m \in 1..n : heads[m][1] = heads[n][1]})>>

\* Hierarchical blocks by their names; all other lines in one block of their
\* own.  A later block of the same name replaces an earlier one.
ByName(heads, others) ==
    LET keys      == {KeyOf(heads, n) : n \in DOMAIN heads}
        Newest(k) == CHOOSE n \in DOMAIN heads : KeyOf(heads, n) = k
                        /\ \A m \in (n + 1)..Len(heads) : KeyOf(heads, m) # k
    IN  [k \in keys \cup (IF others = <<>> THEN {} ELSE {GlobalKey}) |->
            IF k = GlobalKey THEN others ELSE heads[Newest(k)]]

SplitCiscoBlocks(text) ==
    LET raw == RawBlocks(text)
    IN  ByName(Keep(raw, LAMBDA b : b[1].form = "head"),
               FlattenSeq(Keep(raw, LAMBDA b : b[1].form # "head")))

-----------------------------------------------------------------------------
(* Lines                                                                    *)

\* A run of n equal lines from i on the left and j on the right.
SameRun(a, b, i, j, n) == \A d \in 0..(n - 1) : a[i + d] = b[j + d]

\* The longest run within the bounds, the first on the left, then on the right.
LongestRun(a, b, q) ==
    LET places == {r \in (q[1]..q[2]) \X (q[3]..q[4]) \X (1..Len(a)) :
                    /\ r[1] + r[3] - 1 <= q[2] /\ r[2] + r[3] - 1 <= q[4]
                    /\ SameRun(a, b, r[1], r[2], r[3])}
    IN  {r \in places : \A x \in places :
            \/ r[3] > x[3]
            \/ r[3] = x[3] /\ (r[1] < x[1] \/ (r[1] = x[1] /\ r[2] <= x[2]))}

\* Pairs of positions that are taken for the same line: the longest run, and
\* those found in the same way before it and after it.
Matched(a, b) ==
    LET Bounds == (1..(Len(a) + 1)) \X (0..Len(a)) \X (1..(Len(b) + 1)) \X (0..Len(b))
        match[q \in Bounds] ==
            UNION {{<<r[1] + d, r[2] + d>> : d \in 0..(r[3] - 1)}
                        \cup match[<<q[1], r[1] - 1, q[3], r[2] - 1>>]
                        \cup match[<<r[1] + r[3], q[2], r[2] + r[3], q[4]>>] :
                    r \in LongestRun(a, b, q)}
    IN  match[<<1, Len(a), 1, Len(b)>>]

ChangedLines(a, b) ==
    LET same == Matched(a, b)
    IN  [removed |-> At(a, DOMAIN a \ {m[1] : m \in same}),
         added   |-> At(b, DOMAIN b \ {m[2] : m \in same})]

-----------------------------------------------------------------------------
(* Rows                                                                     *)

NoLine == [form |-> "none", of |-> "", to |-> 0]
Row(old, new) == [startup_line |-> old, running_line |-> new]

\* Lines that may stand beside the old one: of the same kind, and not shown.
\* (Mutated form: a line may be shown twice.)
AnyAlike(old, added, used) == {n \in DOMAIN added : CommandIdentity(added[n]) = CommandIdentity(old)}
Alike(old, added, used) ==
    {n \in DOMAIN added \ used : CommandIdentity(added[n]) = CommandIdentity(old)}

\* An old line is shown beside the first new one like it, or alone.
Beside(added, shown, old) ==
    LET alike == Alike(old, added, shown.used)
        first == CHOOSE n \in alike : \A m \in alike : n <= m
    IN  IF alike = {}
        THEN [shown EXCEPT !.rows = Append(@, Row(old, NoLine))]
        ELSE [rows |-> Append(shown.rows, Row(old, added[first])), used |-> shown.used \cup {first}]

AlignChangedLines(removed, added) ==
    LET paired == FoldLeft(LAMBDA shown, old : Beside(added, shown, old),
                           [rows |-> <<>>, used |-> {}], removed)
        rest   == At(added, DOMAIN added \ paired.used)
    IN  paired.rows \o [n \in DOMAIN rest |-> Row(NoLine, rest[n])]

Section(k, changed) ==
    [key |-> k, removed_lines |-> changed.removed, added_lines |-> changed.added,
     rows |-> AlignChangedLines(changed.removed, changed.added)]

\* What differs, block by block; a block that one side lacks counts as empty.
Compared(left, right) ==
    LET Lines(blocks, k) == IF k \in DOMAIN blocks THEN blocks[k] ELSE <<>>
    IN  {Section(k, ChangedLines(Lines(left, k), Lines(right, k))) :
            k \in {j \in DOMAIN left \cup DOMAIN right : Lines(left, j) # Lines(right, j)}}

CompareCiscoConfigs(startup, running) ==
    Compared(SplitCiscoBlocks(startup), SplitCiscoBlocks(running))
=============================================================================
