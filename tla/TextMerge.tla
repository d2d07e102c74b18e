----------------------------- MODULE TextMerge -----------------------------
(***************************************************************************)
(* The three-way text merge of src/src/branch.rs (changed_range and        *)
(* try_three_way_text_merge), which commit_with_report applies to a text   *)
(* file that both the session and the parent changed.                      *)
(*                                                                         *)
(* A text is a sequence of lines (split_lines_keepends); a line is any     *)
(* value that can be compared.  The code's ranges count lines from 0 and   *)
(* exclude their end, and the model keeps those numbers: the range         *)
(* [start, end) of base is SubSeq(base, start + 1, end).                   *)
(*                                                                         *)
(* Prefix and suffix lengths are cardinalities instead of loops, so that   *)
(* no definition here is recursive and the typing of a merge can be proved.*)
(***************************************************************************)
EXTENDS Integers, Sequences, FiniteSets

Shorter(s, t) == IF Len(s) <= Len(t) THEN Len(s) ELSE Len(t)

\* The length of the longest common prefix: the first loop of changed_range.
CommonPrefix(base, changed) ==
    Cardinality({n \in 1..Shorter(base, changed) :
                    \A i \in 1..n : base[i] = changed[i]})

\* The length of the longest common suffix that does not reach into the first
\* prefix lines of either text: the second loop of changed_range.
CommonSuffix(base, changed, prefix) ==
    Cardinality({n \in 1..(Shorter(base, changed) - prefix) :
                    \A i \in 0..(n - 1) :
                        base[Len(base) - i] = changed[Len(changed) - i]})

\* Mutated form of ChangedRange: the end of the range is short by one line.
ChangedRangeShortEnd(base, changed) ==
    LET prefix == CommonPrefix(base, changed)
        suffix == CommonSuffix(base, changed, prefix)
        end    == Len(base) - suffix
    IN  [start |-> prefix,
         end   |-> IF end > prefix THEN end - 1 ELSE end,
         repl  |-> SubSeq(changed, prefix + 1, Len(changed) - suffix)]

\* The one contiguous range of base that was changed, and what replaces it.
ChangedRange(base, changed) ==
    LET prefix == CommonPrefix(base, changed)
        suffix == CommonSuffix(base, changed, prefix)
    IN  [start |-> prefix,
         end   |-> Len(base) - suffix,
         repl  |-> SubSeq(changed, prefix + 1, Len(changed) - suffix)]

(***************************************************************************)
(* Outcomes of a merge.  "clean" carries the merged text, "conflict" is    *)
(* None, and "panic" is the out-of-range slice of the code:                *)
(* &base_lines[a..b] panics when a > b.                                    *)
(***************************************************************************)
Clean(text) == [kind |-> "clean", text |-> text]
Conflict    == [kind |-> "conflict", text |-> <<>>]
Panic       == [kind |-> "panic", text |-> <<>>]

\* The two symmetric branches that build merged; first is the change whose
\* start is the smaller one.
Weave(base, first, second) ==
    IF first.end > second.start
    THEN Panic
    ELSE Clean(SubSeq(base, 1, first.start) \o first.repl
                 \o SubSeq(base, first.end + 1, second.start) \o second.repl
                 \o SubSeq(base, second.end + 1, Len(base)))

NonOverlapping(cur, ses) == cur.end <= ses.start \/ ses.end <= cur.start

\* Mutated form of TryThreeWayTextMerge: the overlap test is off by one.
TryMergeTouchingOverlap(base, current, session) ==
    LET cur == ChangedRange(base, current)
        ses == ChangedRange(base, session)
    IN  IF current = session \/ base = current THEN Clean(session)
        ELSE IF base = session THEN Clean(current)
        ELSE IF ~(cur.end < ses.start \/ ses.end < cur.start) THEN Conflict
        ELSE IF cur.start <= ses.start THEN Weave(base, cur, ses)
        ELSE Weave(base, ses, cur)

TryThreeWayTextMerge(base, current, session) ==
    LET cur == ChangedRange(base, current)
        ses == ChangedRange(base, session)
    IN  IF current = session \/ base = current THEN Clean(session)
        ELSE IF base = session THEN Clean(current)
        ELSE IF ~NonOverlapping(cur, ses) THEN Conflict
        ELSE IF cur.start <= ses.start THEN Weave(base, cur, ses)
        ELSE Weave(base, ses, cur)
=============================================================================
