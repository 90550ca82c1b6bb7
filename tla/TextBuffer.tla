----------------------------- MODULE TextBuffer -----------------------------
(***************************************************************************)
(* applications/terminal_display/text_buffer.cc: the window of log text.   *)
(* The cursor may stand one column past the last, where characters are     *)
(* dropped; a newline on the last row scrolls.  The operations are         *)
(* functions of the buffer, for AnsiDecoder to draw with.                  *)
(***************************************************************************)
EXTENDS Integers, SequencesExt

CONSTANTS
  kNumCharsWide, kNumRows,
  Glyphs,                  \* what can be drawn except a newline
  character_wrap_enabled_  \* never set: FALSE in the program

ASSUME TextBufferAssumption ==
  /\ kNumCharsWide \in Nat \ {0}
  /\ kNumRows \in Nat /\ kNumRows > 1
  /\ character_wrap_enabled_ \in BOOLEAN

Newline == "newline"
kBlack == 0
kWhite == 65535
kMaxColIdx == kNumCharsWide - 1
kMaxRowIdx == kNumRows - 1

Cleared == [ch |-> "none", foreground_color |-> kWhite, background_color |-> kBlack]
ClearedRow == [x \in 0..kMaxColIdx |-> Cleared]

EmptyBuffer == [cursor |-> [x |-> 0, y |-> 0],
                rows |-> [y \in 0..kMaxRowIdx |-> ClearedRow]]

(* A plausible slip: the last row stays as it was. *)
MutantScrollUp(rows) ==
  [y \in 0..kMaxRowIdx |-> IF y < kMaxRowIdx THEN rows[y + 1] ELSE rows[y]]

(* Each row takes the one below it, the last is cleared. *)
ScrollUp(rows) ==
  [y \in 0..kMaxRowIdx |-> IF y < kMaxRowIdx THEN rows[y + 1] ELSE ClearedRow]

InsertNewline(b) ==
  IF b.cursor.y = kMaxRowIdx
  THEN [cursor |-> [b.cursor EXCEPT !.x = 0], rows |-> ScrollUp(b.rows)]
  ELSE [b EXCEPT !.cursor = [x |-> 0, y |-> b.cursor.y + 1]]

(* A plausible slip: a line is found too long one column late. *)
MutantStore(b, ch) ==
  IF b.cursor.x > kNumCharsWide THEN b
  ELSE [cursor |-> [b.cursor EXCEPT !.x = @ + 1],
        rows |-> [b.rows EXCEPT ![b.cursor.y][b.cursor.x] = ch]]

(* Past the last column a line takes no more. *)
Store(b, ch) ==
  IF b.cursor.x > kMaxColIdx THEN b
  ELSE [cursor |-> [b.cursor EXCEPT !.x = @ + 1],
        rows |-> [b.rows EXCEPT ![b.cursor.y][b.cursor.x] = ch]]

DrawCharacter(b, ch) ==
  IF ch.ch = Newline THEN InsertNewline(b)
  ELSE Store(IF character_wrap_enabled_ /\ b.cursor.x > kMaxColIdx
             THEN InsertNewline(b) ELSE b, ch)

(* The characters of row y of b, as GetChar returns them. *)
GetChar(b, x, y) == b.rows[y][x]
=============================================================================
