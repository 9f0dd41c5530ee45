------------------------------ MODULE ErrorPlace ------------------------------
(***************************************************************************)
(* Where Config.Initialize shows a syntax error: getOffsetPosition and     *)
(* getHighLightString.                                                     *)
(***************************************************************************)
EXTENDS JsonText

\* Mutant: every line's columns start at zero.
NextPlaceZero(p, c) ==
    IF c = "newline" THEN [line |-> p.line + 1, col |-> 0] ELSE [p EXCEPT !.col = @ + 1]

\* getOffsetPosition: its loop, and the line and column after n bytes.
NextPlace(p, c) ==
    IF c = "newline" THEN [line |-> p.line + 1, col |-> 1] ELSE [p EXCEPT !.col = @ + 1]

position[n \in 0..Len(text)] ==
    IF n = 0 THEN [line |-> 1, col |-> 0] ELSE NextPlace(position[n - 1], text[n])

\* getHighLightString: how many columns are left of the bytes of a line, if
\* the line's number has at most five digits, and the caret's column.  A line
\* that does not fit into bufio's buffer would count as several.
LineMargin     == 7
MaxLine        == 99999
LineBuffer     == 4096
CaretColumn(n) == position[n].col + 5 + 1

-----------------------------------------------------------------------------
\* The place in its line of the byte at offset i, from 1.
InLine(i) == CHOOSE k \in 1..i : /\ k = i \/ text[i - k] = "newline"
                                /\ \A j \in i - k + 1..i - 1 : text[j] # "newline"

\* Under a syntax error the caret stands below the byte the error names; in
\* the first line it stands one column before it (getOffsetPosition starts a
\* line at column 1 but the first one at 0, config.go:84).  A line break that
\* is itself the error is not shown.
CaretMarksByte ==
    /\ scan.err \notin {"nil", "newline"} /\ ~ended
    /\ position[scan.offset].line <= MaxLine /\ \A i \in DOMAIN text : InLine(i) < LineBuffer
    =>
        LineMargin + InLine(scan.offset) =
            CaretColumn(scan.offset) + (IF position[scan.offset].line = 1 THEN 1 ELSE 0)
=============================================================================
