---------------------------- MODULE TextMergeRun ----------------------------
(***************************************************************************)
(* One call of try_three_way_text_merge on every three texts of a bounded  *)
(* size, against a reference definition that knows nothing of ranges.      *)
(***************************************************************************)
EXTENDS TextMerge

CONSTANTS
    Line,       \* lines that end in a newline
    OpenLine,   \* lines without one: only the last line of a text can be one
    MaxLen      \* bound on the number of lines of a text

ASSUME MaxLenAssumption == MaxLen \in Nat
ASSUME LineAssumption == Line \cap OpenLine = {}

VARIABLES base, current, session, out

vars == <<base, current, session, out>>

\* What split_lines_keepends returns for some text.
IsText(s) == \A i \in 1..(Len(s) - 1) : s[i] \in Line

Text == UNION {{s \in [1..n -> Line \cup OpenLine] : IsText(s)} : n \in 0..MaxLen}

NotRun == [kind |-> "not run", text |-> <<>>]

Init == /\ base \in Text /\ current \in Text /\ session \in Text
        /\ out = NotRun

Merge == /\ out = NotRun
         /\ out' = TryThreeWayTextMerge(base, current, session)
         /\ UNCHANGED <<base, current, session>>

Spec == Init /\ [][Merge]_vars

-----------------------------------------------------------------------------
Prefix(s, k) == SubSeq(s, 1, k)
Suffix(s, k) == SubSeq(s, k + 1, Len(s))

\* The reference: cut base in two; one side changed only what is before the
\* cut and the other only what is after it; the merge takes each half from the
\* side that changed it.
Halves(early, late) ==
    {Prefix(early, Len(early) - (Len(base) - k)) \o Suffix(late, k) :
        k \in {j \in 0..Len(base) :
                 /\ Len(early) >= Len(base) - j
                 /\ Suffix(early, Len(early) - (Len(base) - j)) = Suffix(base, j)
                 /\ Len(late) >= j
                 /\ Prefix(late, j) = Prefix(base, j)}}

CleanMerges == Halves(current, session) \cup Halves(session, current)

(***************************************************************************)
(* A clean merge is one the reference explains: it holds the complete      *)
(* change of the parent and the complete change of the session, and        *)
(* nothing of either is dropped or applied twice (branch.rs                *)
(* try_three_way_text_merge, the text that commit_with_report publishes    *)
(* in place of the session's file).                                        *)
(***************************************************************************)
CleanMergeIsExplained ==
    out.kind = "clean" =>
        \/ out.text \in CleanMerges
        \/ current = session /\ out.text = session

(***************************************************************************)
(* README: "Clean non-overlapping merges are committed as merged content   *)
(* and are not conflicts".  When no text repeats a line, so that a change  *)
(* has one position, a merge the reference can explain is never reported   *)
(* as a conflict.                                                          *)
(***************************************************************************)
Distinct(s) == \A i, j \in DOMAIN s : s[i] = s[j] => i = j

NoNeedlessConflict ==
    out.kind = "conflict" /\ Distinct(base) /\ Distinct(current) /\ Distinct(session)
        => CleanMerges = {}

(***************************************************************************)
(* README: edits that do not overlap are merged.  The merge of two such    *)
(* edits must exist, so the call must return: it must not slice            *)
(* base_lines with a start beyond its end.  Violated: a replacement of     *)
(* line k by the parent and an insertion before line k by the session are  *)
(* accepted as non-overlapping (the insertion ends where the replacement   *)
(* starts) and then woven in the wrong order.                              *)
(***************************************************************************)
MergeReturns == out.kind # "panic"
=============================================================================
