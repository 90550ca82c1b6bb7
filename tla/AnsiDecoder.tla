---------------------------- MODULE AnsiDecoder ----------------------------
(***************************************************************************)
(* applications/terminal_display: log messages go character by character   *)
(* through the escape sequence decoder of ansi.h, as DemoDecoder and       *)
(* LogCallback of main.cc use it, into the text buffer.                    *)
(*                                                                         *)
(* The decoder keeps what it has read of a sequence in a vector of         *)
(* VectorSize places that it empties on an error only.  What pushing to a  *)
(* full pw::Vector does is not part of this repository: it is ignored or   *)
(* it stops the task.                                                      *)
(***************************************************************************)
EXTENDS TextBuffer

CONSTANTS
  VectorSize,   \* ten in the code
  Colours,      \* parameters of the colour sequences the messages use
  Unknown       \* parameters that no sequence selects a colour with

Escape == "escape"
Csi == "["
kDigits == <<"0", "1", "2", "3", "4", "5", "6", "7", "8", "9">>
Wrong == "not what was written"   \* never a character of the log

(* Parameters have three digits at most.                                    *)
ASSUME DecoderAssumption ==
  /\ VectorSize \in Nat /\ VectorSize > 1
  /\ \A p \in Colours \cup Unknown : p \in Nat /\ p < 1000
  /\ Glyphs \cap {Escape, Wrong, Cleared.ch} = {}

VARIABLES
  log_text_buffer_,  \* the TextBuffer
  fg_color_, bg_color_,
  state_, cur_val_, params_, buffered_chars_,
  halted,   \* an assertion of pw::Vector failed
  token,    \* what is still to come of the piece of log text being written
  written,  \* history: what the last step drew
  owed,     \* history: the characters to be shown that are not shown yet
  fg, bg,   \* history: the colours that the text so far asks for
  strays    \* history: an escape came without a sequence

decoder == <<fg_color_, bg_color_, state_, cur_val_, params_, buffered_chars_>>
history == <<written, owed, fg, bg, strays>>
vars == <<log_text_buffer_, decoder, halted, token, history>>

-----------------------------------------------------------------------------
kNormalColors == << <<0, 0, 0>>, <<170, 0, 0>>, <<0, 170, 0>>, <<170, 85, 0>>,
  <<0, 0, 170>>, <<170, 0, 170>>, <<0, 170, 170>>, <<170, 170, 170>> >>

kBrightColors == << <<85, 85, 85>>, <<255, 85, 85>>, <<85, 255, 85>>,
  <<255, 255, 85>>, <<85, 85, 255>>, <<255, 85, 255>>, <<85, 255, 255>>,
  <<255, 255, 255>> >>

(* Five, six and five bits of the three channels. *)
ToRgb565(c) ==
  (c[1] \div 8) * 2048 + (c[2] \div 4) * 32 + c[3] \div 8

(* The colours after one parameter. *)
HandleSetColor(cols, val) ==
  LET reset == IF val = 0 THEN [fg |-> ToRgb565(kNormalColors[8]),
                                bg |-> ToRgb565(kNormalColors[1])]
               ELSE cols
      normal == ToRgb565(kNormalColors[(val % 10) + 1])
      bright == ToRgb565(kBrightColors[(val % 10) + 1])
  IN  IF val % 10 > 7 THEN reset
      ELSE CASE val \div 10 = 3  -> [reset EXCEPT !.fg = normal]
             [] val \div 10 = 4  -> [reset EXCEPT !.bg = normal]
             [] val \div 10 = 9  -> [reset EXCEPT !.fg = bright]
             [] val \div 10 = 10 -> [reset EXCEPT !.bg = bright]
             [] OTHER -> reset

(* push_back of a pw::Vector: what it does when the vector is full is      *)
(* chosen in ProcessChar.                                                  *)
Pushed(vector, x) == IF Len(vector) < VectorSize THEN Append(vector, x) ELSE vector

NotWritten == [Cleared EXCEPT !.ch = Wrong]

(* EmitChar of DemoDecoder for each character; the history says what was   *)
(* shown that had not been asked for, or not in that order.                *)
EmitChars(chars) ==
  LET styled == [i \in DOMAIN chars |->
                   [ch |-> chars[i], foreground_color |-> fg_color_,
                    background_color |-> bg_color_]]
  IN  /\ log_text_buffer_' = FoldLeft(DrawCharacter, log_text_buffer_, styled)
      /\ written' = styled
      /\ owed' = IF IsPrefix(styled, owed)
                 THEN SubSeq(owed, Len(chars) + 1, Len(owed))
                 ELSE <<NotWritten>>

EmitNothing == written' = <<>> /\ UNCHANGED <<log_text_buffer_, owed>>

-----------------------------------------------------------------------------
InNormal(c) ==
  /\ state_ = "kNormal"
  /\ IF c = Escape
     THEN /\ buffered_chars_' = Pushed(buffered_chars_, c)
          /\ state_' = "kEscape"
          /\ EmitNothing
     ELSE EmitChars(<<c>>) /\ UNCHANGED <<buffered_chars_, state_>>
  /\ UNCHANGED <<fg_color_, bg_color_, cur_val_, params_>>

(* A plausible slip: an error does not empty the buffer.                   *)
MutantError(chars) == EmitChars(chars) /\ UNCHANGED <<buffered_chars_, state_>>

(* Error shows and empties the buffer, and stays in the escape state.      *)
Error(chars) ==
  EmitChars(chars) /\ buffered_chars_' = <<>> /\ UNCHANGED state_

InEscape(c) ==
  /\ state_ = "kEscape"
  /\ IF c = Csi
     THEN /\ buffered_chars_' = Pushed(buffered_chars_, c)
          /\ state_' = "kCsi"
          /\ EmitNothing
     ELSE Error(Pushed(buffered_chars_, c))
  /\ UNCHANGED <<fg_color_, bg_color_, cur_val_, params_>>

SetColours(params) ==
  LET cols == FoldLeft(HandleSetColor, [fg |-> fg_color_, bg |-> bg_color_],
                       params)
  IN  fg_color_' = cols.fg /\ bg_color_' = cols.bg

(* A plausible slip: the parameters are kept for the next sequence. *)
MutantCsiCommand(c, params) ==
  /\ IF c = "m"
     THEN SetColours(params)
     ELSE UNCHANGED <<fg_color_, bg_color_>>
  /\ params_' = params
  /\ state_' = "kNormal"

(* The end of a sequence, and back to normal. *)
HandleCsiCommand(c, params) ==
  /\ IF c = "m"
     THEN SetColours(params)
     ELSE UNCHANGED <<fg_color_, bg_color_>>
  /\ params_' = <<>>
  /\ state_' = "kNormal"

InCsi(c) ==
  /\ state_ = "kCsi"
  /\ buffered_chars_' = Pushed(buffered_chars_, c)
  /\ IF Contains(kDigits, c)
     THEN /\ cur_val_' = cur_val_ * 10 + SelectInSeq(kDigits, LAMBDA d : d = c) - 1
          /\ UNCHANGED <<params_, state_, fg_color_, bg_color_>>
     ELSE /\ cur_val_' = 0
          /\ IF c = ";"
             THEN /\ params_' = Pushed(params_, cur_val_)
                  /\ UNCHANGED <<state_, fg_color_, bg_color_>>
             ELSE HandleCsiCommand(c, Pushed(params_, cur_val_))
  /\ EmitNothing

(* One character of the message in LogCallback; a push to a full vector    *)
(* may instead stop the task.                                              *)
ProcessChar ==
  /\ token # <<>> /\ ~halted
  /\ LET c == Head(token)
         overfull == \/ /\ Len(buffered_chars_) = VectorSize
                        /\ state_ # "kNormal" \/ c = Escape
                     \/ /\ Len(params_) = VectorSize
                        /\ state_ = "kCsi" /\ ~Contains(kDigits, c)
     IN  \/ /\ InNormal(c) \/ InEscape(c) \/ InCsi(c)
            /\ token' = Tail(token)
            /\ UNCHANGED <<halted, fg, bg, strays>>
         \/ /\ overfull
            /\ halted' = TRUE
            /\ UNCHANGED <<log_text_buffer_, decoder, token, history>>

-----------------------------------------------------------------------------
(* The messages: pieces of text whose meaning is told by the standard that *)
(* ansi.h implements, not by the decoder.                                  *)

(* The decimal digits of a parameter of at most three digits. *)
Decimal(n) ==
  (IF n > 99 THEN <<kDigits[(n \div 100) + 1]>> ELSE <<>>)
    \o (IF n > 9 THEN <<kDigits[((n \div 10) % 10) + 1]>> ELSE <<>>)
    \o <<kDigits[(n % 10) + 1]>>

Sequence(ps, final) ==
  <<Escape, Csi>> \o Decimal(ps[1])
    \o (IF Len(ps) = 2 THEN <<";">> \o Decimal(ps[2]) ELSE <<>>) \o <<final>>

(* The colour that parameter p selects among those numbered from base: the *)
(* eight normal ones, the eight bright ones 60 higher, and on 0 the first  *)
(* choice.                                                                 *)
Selects(p, base) == p = 0 \/ p - base \in 0..7 \/ p - base - 60 \in 0..7
ColourOf(p, base, initial) ==
  ToRgb565(IF p = 0 THEN kNormalColors[initial]
           ELSE IF p - base < 8 THEN kNormalColors[p - base + 1]
           ELSE kBrightColors[p - base - 59])

(* The last parameter that selects a colour decides. *)
After(ps, base, initial, old) ==
  LET chosen == {i \in DOMAIN ps : Selects(ps[i], base)}
  IN  IF chosen = {} THEN old ELSE ColourOf(ps[Max(chosen)], base, initial)

Styled(c) == [ch |-> c, foreground_color |-> fg, background_color |-> bg]

(* A letter or the end of a line.  After a stray escape the decoder takes a *)
(* bracket for the beginning of a sequence: such messages are left out.     *)
Plain(c) ==
  /\ ~(strays /\ c = Csi)
  /\ token' = <<c>>
  /\ owed' = <<Styled(c)>>
  /\ UNCHANGED <<fg, bg, strays>>

(* A sequence sets the colours, if it is one that does, and shows nothing. *)
Select(ps, final) ==
  /\ ~strays
  /\ token' = Sequence(ps, final)
  /\ fg' = IF final = "m" THEN After(ps, 30, 8, fg) ELSE fg
  /\ bg' = IF final = "m" THEN After(ps, 40, 1, bg) ELSE bg
  /\ UNCHANGED <<owed, strays>>

(* An escape before a letter is shown as it came.  This is asked for only  *)
(* in messages without any sequence: see the README on the others.         *)
Stray(c) ==
  /\ c # Csi
  /\ buffered_chars_ = <<>>
  /\ token' = <<Escape, c>>
  /\ owed' = <<Styled(Escape), Styled(c)>>
  /\ strays' = TRUE
  /\ UNCHANGED <<fg, bg>>

LogCallback ==
  /\ token = <<>> /\ ~halted
  /\ \/ \E c \in Glyphs \cup {Newline} : Plain(c)
     \/ \E p \in Colours : Select(<<p>>, "m")
     \/ \E p \in Colours, q \in Unknown : Select(<<p, q>>, "m")
     \/ \E p \in Colours : Select(<<p>>, "K")
     \/ \E c \in Glyphs : Stray(c)
  /\ written' = <<>>
  /\ UNCHANGED <<log_text_buffer_, decoder, halted>>

Init ==
  /\ log_text_buffer_ = EmptyBuffer
  /\ fg_color_ = kWhite /\ bg_color_ = kBlack
  /\ state_ = "kNormal" /\ cur_val_ = 0
  /\ params_ = <<>> /\ buffered_chars_ = <<>>
  /\ halted = FALSE
  /\ token = <<>> /\ owed = <<>> /\ written = <<>> /\ fg = kWhite /\ bg = kBlack
  /\ strays = FALSE

Next == ProcessChar \/ LogCallback

Spec == Init /\ [][Next]_vars

-----------------------------------------------------------------------------
(* No store falls outside the rows: the cursor goes at most one column past *)
(* the last; and neither vector holds more than its places.                 *)
TypeOK ==
  /\ log_text_buffer_.cursor \in [x : 0..kNumCharsWide, y : 0..kMaxRowIdx]
  /\ DOMAIN log_text_buffer_.rows = 0..kMaxRowIdx
  /\ \A y \in 0..kMaxRowIdx : DOMAIN log_text_buffer_.rows[y] = 0..kMaxColIdx
  /\ state_ \in {"kNormal", "kEscape", "kCsi"}
  /\ Len(params_) <= VectorSize /\ Len(buffered_chars_) <= VectorSize
  /\ halted \in BOOLEAN /\ strays \in BOOLEAN

(* What is shown is the text of the messages, in order, in the colours that *)
(* its sequences ask for, and no character of a sequence: nothing is shown  *)
(* that is not owed, and when a piece is decoded nothing is owed.           *)
ShowsTheText ==
  /\ owed # <<NotWritten>>
  /\ token = <<>> => owed = <<>>

(* Between pieces the decoder has exactly the colours that the last         *)
(* parameters selected, however often its buffers overflowed before.        *)
ColoursAsAsked ==
  token = <<>> => fg_color_ = fg /\ bg_color_ = bg

(* The window has the text, and the colours, of what was logged.            *)
DecoderInv == TypeOK /\ ShowsTheText /\ ColoursAsAsked

(* The line in row y, read as the display reads it: everything before its   *)
(* first cleared cell, or nothing sensible if text follows a cleared cell.  *)
Line(y) ==
  LET used == {x \in 0..kMaxColIdx : GetChar(log_text_buffer_, x, y) # Cleared}
      n == CHOOSE n \in 0..kNumCharsWide : used = 0..(n - 1)
  IN  [i \in 1..n |-> GetChar(log_text_buffer_, i - 1, y)]

(* The rows down to the cursor, and any row below it that is not empty.     *)
Shown ==
  LET seen == {y \in 0..kMaxRowIdx :
                 \/ y <= log_text_buffer_.cursor.y
                 \/ log_text_buffer_.rows[y] # ClearedRow}
  IN  [i \in 1..Cardinality(seen) |-> Line(i - 1)]

IsNewline(c) == c.ch = Newline

LogWindow ==
  INSTANCE Terminal WITH Width <- kNumCharsWide, Rows <- kNumRows,
                         lines <- Shown

(* What the window shows is at any moment the last rows of the text drawn,  *)
(* cut to the width: scrolling loses only the top row, and no text is left  *)
(* behind or ahead of the cursor.                                           *)
ImplementsTerminal == LogWindow!Spec
=============================================================================
