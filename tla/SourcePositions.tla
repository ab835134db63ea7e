-------------------------- MODULE SourcePositions --------------------------
(***************************************************************************)
(* Lines and columns (errors/line_endings.cpp) and how the renderer asks   *)
(* for them (errors/renderer.cpp).  Offsets, lines and columns count from  *)
(* 0, as they do in the code.                                              *)
(***************************************************************************)
EXTENDS Lexer, Integers, FiniteSets

NoCursor == [line |-> -1, column |-> 0]

\* line_start_offsets: the start of the text, unless it is empty, and what is
\* behind a line's end, unless it is the end of the text.
LineStarts(s) == {o \in 0..(Len(s) - 1) : o = 0 \/ s[o] = "nl"}

\* A bug to find: a column counted from the start of the text.
OffsetToCursorUnreset(s, offset) ==
  LET before == {o \in LineStarts(s) : o < offset}
  IN  IF before = {} THEN NoCursor
      ELSE [line |-> Cardinality(before) - 1, column |-> offset]

\* offset_to_cursor: the last start in front of the offset is the line's, so an
\* offset that is a start belongs to the line in front; there is none in front
\* of the first.
OffsetToCursor(s, offset) ==
  LET before == {o \in LineStarts(s) : o < offset}
  IN  IF before = {} THEN NoCursor
      ELSE [line |-> Cardinality(before) - 1,
            column |-> offset - CHOOSE o \in before : \A p \in before : p <= o]

\* show_range: an error is shown on its line, or on the first and on the last
\* of its lines; get_line throws for the line in front of the first.
RangeOf(s, error) ==
  [from |-> OffsetToCursor(s, error[1]), to |-> OffsetToCursor(s, error[2])]
Rendered(s, error) == NoCursor \notin {RangeOf(s, error).from, RangeOf(s, error).to}
=============================================================================
