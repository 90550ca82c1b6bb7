------------------------------ MODULE TextArea ------------------------------
(***************************************************************************)
(* pw::draw::TextArea: text drawn on a framebuffer at a cursor that wraps  *)
(* at the right edge and scrolls the framebuffer at the bottom.  A text is *)
(* drawn character by character; "rest" is what is left of it.  Only the   *)
(* main program draws, so a step is one character.                         *)
(***************************************************************************)
EXTENDS Drawing

CONSTANTS
  Width, Height,   \* of the framebuffer
  MaxChars         \* bound: characters drawn on one framebuffer

VARIABLES
  fb,        \* framebuffer
  area,      \* the members of TextArea
  rest,      \* the characters still to be drawn
  drawn      \* how many have been drawn

textVars == <<fb, area, rest, drawn>>

White == 1
Black == 0
LineFeed == 10

\* Both fonts of pw_draw have glyphs of one size; here 2 by 2, with a
\* space in the first only.
Ascii == [width |-> 2, height |-> 2, first |-> 32, last |-> 33,
          on |-> [ch \in {33} |-> {<<0, 0>>, <<1, 1>>}]]
Boxes == [width |-> 2, height |-> 2, first |-> 40, last |-> 40,
          on |-> [ch \in {40} |-> {<<0, 0>>, <<0, 1>>}]]
Fonts == {Ascii, Boxes}

Blank == [p \in (0 .. Width - 1) \X (0 .. Height - 1) |-> Black]

InitTextArea ==
  /\ fb = Blank
  /\ area = [cursor_x |-> 0, cursor_y |-> 0, column_count |-> 0,
             character_wrap_enabled |-> TRUE, font |-> Ascii, fg |-> White, bg |-> Black]
  /\ rest = << >>
  /\ drawn = 0

(***************************************************************************)
(* Operations on s = [fb, area]                                            *)
(***************************************************************************)
MoveCursorRightOnce(s) ==
  [s EXCEPT !.area.cursor_x = @ + s.area.font.width, !.area.column_count = @ + 1]

MutantScrollUp(s, lines) ==
  LET pixel_height == lines * s.area.font.height IN
  [s EXCEPT !.fb = [p \in DOMAIN @ |->
     IF p[2] + pixel_height < Height THEN @[<<p[1], p[2] + pixel_height>>] ELSE @[p]]]
\* Every row moves up; the rows that nothing moved into get the background.
ScrollUp(s, lines) ==
  LET pixel_height == lines * s.area.font.height IN
  [s EXCEPT !.fb = [p \in DOMAIN @ |->
     IF p[2] + pixel_height < Height THEN @[<<p[1], p[2] + pixel_height>>] ELSE s.area.bg]]

MutantInsertLineBreak(s) ==
  LET font == s.area.font
      below == [s EXCEPT !.area.cursor_y = @ + font.height,
                         !.area.cursor_x = @ - s.area.column_count * font.width,
                         !.area.column_count = 0]
  IN  IF below.area.cursor_y >= Height THEN ScrollUp(below, 1) ELSE below
InsertLineBreak(s) ==
  LET font == s.area.font
      below == [s EXCEPT !.area.cursor_y = @ + font.height,
                         !.area.cursor_x = @ - s.area.column_count * font.width,
                         !.area.column_count = 0]
  IN  IF below.area.cursor_y >= Height
      THEN [ScrollUp(below, 1) EXCEPT !.area.cursor_y = @ - font.height]
      ELSE below

DrawAreaCharacter(s, character) ==
  LET font == s.area.font
      full == s.area.character_wrap_enabled /\ font.width + s.area.cursor_x > Width
      at == IF full THEN InsertLineBreak(s) ELSE s
  IN  CASE character = LineFeed -> InsertLineBreak(s)
        [] character # LineFeed /\ character \notin font.first .. font.last -> MoveCursorRightOnce(s)
        [] OTHER -> MoveCursorRightOnce([at EXCEPT !.fb =
             DrawCharacter(@, character, at.area.cursor_x, at.area.cursor_y,
                           at.area.fg, at.area.bg, font)])

\* The font's characters in lines of the given number of columns.
FontSheet(font, columns) ==
  LET line(c) == IF c > font.first /\ (c - font.first) % columns = 0 THEN <<LineFeed, c>> ELSE <<c>>
  IN  FlattenSeq([i \in 1 .. font.last - font.first + 1 |-> line(font.first + i - 1)])

(***************************************************************************)
(* Actions                                                                 *)
(***************************************************************************)
Idle == rest = << >> /\ drawn < MaxChars

\* Cells the cursor can be set to: the corners of glyphs.
Corners == {<<x, y>> \in (0 .. Width - 2) \X (0 .. Height - 1) : x % 2 = 0 /\ y % 2 = 0}

SetCursor(x, y) ==
  /\ Idle
  /\ area' = [area EXCEPT !.cursor_x = x, !.cursor_y = y, !.column_count = 0]
  /\ UNCHANGED <<fb, rest, drawn>>

SetFont(font) == Idle /\ area' = [area EXCEPT !.font = font] /\ UNCHANGED <<fb, rest, drawn>>

SetCharacterWrap(setting) ==
  Idle /\ area' = [area EXCEPT !.character_wrap_enabled = setting] /\ UNCHANGED <<fb, rest, drawn>>

SetForegroundColor(colour) ==
  Idle /\ area' = [area EXCEPT !.fg = colour] /\ UNCHANGED <<fb, rest, drawn>>

SetBackgroundColor(colour) ==
  Idle /\ area' = [area EXCEPT !.bg = colour] /\ UNCHANGED <<fb, rest, drawn>>

DrawText(str) == Idle /\ rest' = str /\ UNCHANGED <<fb, area, drawn>>

DrawTestFontSheet(columns, x, y) ==
  /\ Idle
  /\ area' = [area EXCEPT !.cursor_x = x, !.cursor_y = y, !.column_count = 0]
  /\ rest' = FontSheet(area.font, columns)
  /\ UNCHANGED <<fb, drawn>>

DrawNextCharacter ==
  /\ rest # << >>
  /\ LET s == DrawAreaCharacter([fb |-> fb, area |-> area], Head(rest))
     IN  fb' = s.fb /\ area' = s.area
  /\ rest' = Tail(rest)
  /\ drawn' = drawn + 1

\* Texts: a glyph of either font, a space, a line break within a text.
Texts == {<<33>>, <<40>>, <<33, 32>>, <<33, LineFeed, 33>>}

TextNext ==
  \/ \E c \in Corners : SetCursor(c[1], c[2]) \/ DrawTestFontSheet(1, c[1], c[2])
  \/ \E font \in Fonts : SetFont(font)
  \/ \E setting \in BOOLEAN : SetCharacterWrap(setting)
  \/ \E colour \in {White, Black} : SetForegroundColor(colour) \/ SetBackgroundColor(colour)
  \/ \E str \in Texts : DrawText(str)
  \/ DrawNextCharacter

(***************************************************************************)
(* Properties                                                              *)
(***************************************************************************)
\* The part of the framebuffer that is the cell in column c and row r.
Cell(c, r) == [p \in (0 .. 1) \X (0 .. 1) |-> fb[<<2 * c + p[1], 2 * r + p[2]>>]]

\* The pictures a cell may show: a glyph in two colours, or one colour.
Pictures ==
  UNION {{Picture(ch, fg, bg, font) : ch \in {Space} \cup DOMAIN font.on,
                                      fg \in {White, Black}, bg \in {White, Black}} : font \in Fonts}

Columns == Width \div 2
Rows == Height \div 2

Grid == INSTANCE TextGrid WITH
  Columns <- Columns, Rows <- Rows,
  Pictures <- Pictures,
  cells <- [p \in (0 .. Columns - 1) \X (0 .. Rows - 1) |-> Cell(p[1], p[2])],
  start <- area.cursor_x \div 2 - area.column_count,
  count <- area.column_count,
  row <- area.cursor_y \div 2
=============================================================================
