------------------------------ MODULE Terminal ------------------------------
(***************************************************************************)
(* What the log window of terminal_display promises: it shows the last     *)
(* Rows lines of everything written, each line cut to Width characters.    *)
(***************************************************************************)
EXTENDS Naturals, SequencesExt

CONSTANTS
  Width, Rows,
  IsNewline(_)   \* the characters that end a line

VARIABLES
  written,  \* the characters just written
  lines     \* the lines shown, from the top; the last is being written

Init == written = <<>> /\ lines = <<<<>>>>

Written(ls, c) ==
  LET more == Append(ls, <<>>)
  IN  IF IsNewline(c) THEN IF Len(more) > Rows THEN Tail(more) ELSE more
      ELSE [ls EXCEPT ![Len(ls)] = IF Len(@) < Width THEN Append(@, c) ELSE @]

Next == lines' = FoldLeft(Written, lines, written')

Spec == Init /\ [][Next]_<<written, lines>>
=============================================================================
