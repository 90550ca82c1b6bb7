--------------------------- MODULE TerminalFrame ---------------------------
(***************************************************************************)
(* A frame of the terminal_display application, as the rectangles its      *)
(* parts are drawn in, in the application's own coordinates; what a part   *)
(* is painted with is left out.  The sun moves from frame to frame, and a  *)
(* log message ends with a line break in the window of log text.           *)
(* frame_num is kept modulo 15, of which both its uses are functions.      *)
(***************************************************************************)
EXTENDS Integers

VARIABLES
  sun,        \* sun_offset, motion_dir and frame_num of DrawPigweedSprite
  log_row,    \* row of the log window's cursor
  frame       \* the parts of the frame last drawn, or none

frameVars == <<sun, log_row, frame>>

Screen == [width |-> 320, height |-> 240]
Glyph == [width |-> 6, height |-> 8]
FarmSheet == [width |-> 43, height |-> 11]
NumRows == 9
NumCharsWide == 52

Box(x, y, w, h) == [x |-> x, y |-> y, w |-> w, h |-> h]
Text(x, y, chars, lines) == Box(x, y, chars * Glyph.width, lines * Glyph.height)
Bottom(box) == box.y + box.h
DiscBox(x, y, r) == Box(x - r, y - r, 2 * r + 1, 2 * r + 1)

InitFrame ==
  /\ sun = [x |-> 0, y |-> 0, motion_dir |-> -1, frame_num |-> 0]
  /\ log_row = 0
  /\ frame = << >>

(***************************************************************************)
(* The parts of a frame                                                    *)
(***************************************************************************)
Button == Box(320 - 108, 0, 108, 12)
ButtonLabel == Text(Button.x + 2, Button.y + 2, 17, 1)

MutantMoveSun(s) ==
  LET n == (s.frame_num + 1) % 15
      x == IF n % 5 = 0 THEN s.x + s.motion_dir ELSE s.x
      y == IF n % 5 = 0 THEN s.y - s.motion_dir ELSE s.y
  IN  [x |-> x, y |-> y, frame_num |-> n,
       motion_dir |-> CASE x < -60 -> 1 [] x > 10 -> -1 [] OTHER -> s.motion_dir]
\* The sun goes left and down, and back right and up, a third as far.
MoveSun(s) ==
  LET n == (s.frame_num + 1) % 15
      x == IF n % 5 = 0 THEN s.x + s.motion_dir ELSE s.x
      y == IF n = 0 THEN s.y - s.motion_dir ELSE s.y
  IN  [x |-> x, y |-> y, frame_num |-> n,
       motion_dir |-> CASE x < -60 -> 1 [] x > 10 -> -1 [] OTHER -> s.motion_dir]

PigweedSprite(s) ==
  LET pos == [x |-> 10, y |-> 24]
      scale == 4
      around(border) == Box(pos.x - border, pos.y - border,
                            FarmSheet.width * scale + 2 * border, FarmSheet.height * scale + 2 * border)
  IN  [border |-> around(8), sky |-> around(4),
       sun |-> DiscBox(s.x + pos.x + FarmSheet.width * scale - 32, s.y + pos.y, 20),
       farm |-> around(0),
       bottom |-> 76]

\* Five lines of the box font; the result is the top of the last of them.
PigweedBanner(y) == [text |-> Text(0, y, 54, 5), bottom |-> y + 5 * Glyph.height - Glyph.height]

\* A sheet starts one line below its top, and its result lies one below it.
TestFontSheet(x, y, chars, columns) ==
  LET lines == (chars + columns - 1) \div columns IN
  [text |-> Text(x, y + Glyph.height, IF chars < columns THEN chars ELSE columns, lines),
   bottom |-> y + lines * Glyph.height + Glyph.height]

FontSheets(y) ==
  LET colours == TestFontSheet(0, y, 96, 48)
      plain == TestFontSheet(0, colours.bottom - Glyph.height + 4, 96, 48)
      title == Text(0, plain.bottom + 4, 15, 1)
      boxes == TestFontSheet(title.w + Glyph.width, title.y - Glyph.height, 27, 32)
  IN  [colours |-> colours.text, plain |-> plain.text, title |-> title, boxes |-> boxes.text,
       bottom |-> boxes.bottom]

Fps == Text(1, 2, 29, 1)

\* A row of the log window that has text, drawn from the given height on.
LogRow(top, row) == Text(0, top + row * Glyph.height, NumCharsWide, 1)

\* A message leaves the cursor in the first column of a cleared row, so the
\* rows above it are those that have text.
Parts(s, cursor) ==
  LET sprite == PigweedSprite(s)
      banner == PigweedBanner(sprite.bottom)
      sheets == FontSheets(banner.bottom + 4)
  IN  [button |-> Button, label |-> ButtonLabel, border |-> sprite.border, sky |-> sprite.sky,
       sun |-> sprite.sun, farm |-> sprite.farm, banner |-> banner.text, fps |-> Fps,
       colours |-> sheets.colours, plain |-> sheets.plain, title |-> sheets.title, boxes |-> sheets.boxes,
       log |-> [row \in 0 .. cursor - 1 |-> LogRow(sheets.bottom + 4, row)]]

DrawFrame ==
  /\ sun' = MoveSun(sun)
  /\ frame' = Parts(sun', log_row)
  /\ UNCHANGED log_row

LogMessage ==
  /\ log_row' = IF log_row = NumRows - 1 THEN log_row ELSE log_row + 1
  /\ UNCHANGED <<sun, frame>>

FrameNext == DrawFrame \/ LogMessage

(***************************************************************************)
(* Properties                                                              *)
(***************************************************************************)
Apart(a, b) == a.x + a.w <= b.x \/ b.x + b.w <= a.x \/ Bottom(a) <= b.y \/ Bottom(b) <= a.y
OnScreen(a) == a.x >= 0 /\ a.y >= 0 /\ a.x + a.w <= Screen.width /\ Bottom(a) <= Screen.height

\* However long the program runs, the sun stays on a screen of 320 by 240
\* points and clear of every text but the frame rate's, which is drawn over
\* it; no text of the header hides another or leaves the screen, but for the
\* banner's last column of characters, which is cut; and every row of the log that
\* has text can be read in full below them, although the window is one row
\* taller than the space it has (main.cc:227-430).
FrameLaidOut ==
  frame # << >> =>
    LET texts == {"button", "banner", "fps", "colours", "plain", "title", "boxes"}
        rows == DOMAIN frame.log
        lastColumn == Glyph.width
    IN  /\ OnScreen(frame.sun) /\ \A part \in texts \ {"banner"} : OnScreen(frame[part])
        /\ OnScreen([frame.banner EXCEPT !.w = @ - lastColumn])
        /\ \A a, b \in texts : a # b => Apart(frame[a], frame[b])
        /\ \A part \in texts \ {"fps"} : Apart(frame[part], frame.sun)
        /\ \A row \in rows : OnScreen(frame.log[row])
                             /\ \A part \in texts : Apart(frame.log[row], frame[part])
=============================================================================
