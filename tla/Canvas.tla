------------------------------- MODULE Canvas -------------------------------
(***************************************************************************)
(* Programs that draw with pw_draw: they draw one shape after another,     *)
(* each on a cleared framebuffer, show the pictures of a sprite sheet in    *)
(* turn, write text in a text area, or draw the frames of terminal_display. *)
(***************************************************************************)
EXTENDS TextArea, TerminalFrame

CONSTANTS
  MaxRadius,  \* bound: radius of a circle
  Margin      \* bound: how far off the framebuffer shapes begin and end

VARIABLES
  program,   \* what the program draws: "shapes", a sprite "sheet", "text" or "frames"
  canvas,    \* the framebuffer the shapes are drawn on
  shape,     \* what was drawn on it
  sheet      \* current_index, index_direction of a sprite sheet, and the
             \* function its program turns the pages with

vars == <<fb, area, rest, drawn, sun, log_row, frame, program, canvas, shape, sheet>>

None == [op |-> "none"]
Pen == 1

\* Pictures of 2 by 3 points; 9 is the transparent colour.
Sprites(count) ==
  [width |-> 2, height |-> 3, count |-> count, transparent_color |-> 9,
   data |-> <<2, 9, 9, 3, 3, 2>> \o <<9, 4, 4, 9, 5, 4>> \o <<6, 6, 9, 9, 6, 7>>]

\* A picture to blit.
Stamp == [p \in (0 .. 2) \X (0 .. 1) |-> 2 + p[1] + 3 * p[2]]

Init ==
  /\ InitTextArea
  /\ InitFrame
  /\ program \in {"shapes", "sheet", "text", "frames"}
  /\ canvas = Blank
  /\ shape = None
  /\ sheet \in [current_index : {0}, index_direction : {1},
               count : IF program = "sheet" THEN {2, 3} ELSE {2},
               turn : IF program = "sheet" THEN {"loop", "ping pong"} ELSE {"loop"}]

(***************************************************************************)
(* Shapes                                                                  *)
(***************************************************************************)
X == -Margin .. Width + Margin - 1
Y == -Margin .. Height + Margin - 1

Show(pixels, what) ==
  /\ shape = None
  /\ canvas' = pixels
  /\ shape' = what
  /\ UNCHANGED <<textVars, frameVars, program, sheet>>

DrawLine(x1, y1, x2, y2) ==
  Show(Paint(canvas, LinePoints(x1, y1, x2, y2), Pen),
       [op |-> "line", x1 |-> x1, y1 |-> y1, x2 |-> x2, y2 |-> y2])

DrawCircle(x, y, radius, filled) ==
  Show(Paint(canvas, CirclePoints(x, y, radius, filled), Pen),
       [op |-> "circle", x |-> x, y |-> y, radius |-> radius, filled |-> filled])

DrawRect(x, y, w, h, filled) ==
  Show(Paint(canvas, RectWHPoints(x, y, w, h, filled), Pen),
       [op |-> "rect", x |-> x, y |-> y, w |-> w, h |-> h, filled |-> filled])

ShowSprite(x, y, scale) ==
  Show(DrawSprite(canvas, x, y, Sprites(sheet.count), sheet.current_index, scale),
       [op |-> "sprite", x |-> x, y |-> y, scale |-> scale, index |-> sheet.current_index])

ShowBlit(x, y) == Show(Blit(canvas, Stamp, x, y), [op |-> "blit", x |-> x, y |-> y])

ShowString(str, x, y) ==
  Show(DrawString(canvas, str, x, y, Pen, 2, Ascii), [op |-> "string", str |-> str, x |-> x, y |-> y])

Clear ==
  /\ shape # None
  /\ canvas' = Fill(canvas, Black)
  /\ shape' = None
  /\ UNCHANGED <<textVars, frameVars, program, sheet>>

\* The next page of the sheet.
MutantRotateIndexLoop ==
  /\ sheet.turn = "loop"
  /\ sheet' = [sheet EXCEPT !.current_index = IF @ + 1 < sheet.count THEN @ + 1 ELSE @]
  /\ UNCHANGED <<textVars, frameVars, program, canvas, shape>>
RotateIndexLoop ==
  /\ sheet.turn = "loop"
  /\ sheet' = [sheet EXCEPT !.current_index = (@ + 1) % sheet.count]
  /\ UNCHANGED <<textVars, frameVars, program, canvas, shape>>

MutantRotateIndexPingPong ==
  /\ sheet.turn = "ping pong"
  /\ LET index == sheet.current_index + sheet.index_direction IN
     sheet' = [sheet EXCEPT !.current_index = index,
                            !.index_direction = IF index = sheet.count - 1 THEN -@ ELSE @]
  /\ UNCHANGED <<textVars, frameVars, program, canvas, shape>>
RotateIndexPingPong ==
  /\ sheet.turn = "ping pong"
  /\ LET index == sheet.current_index + sheet.index_direction IN
     sheet' = [sheet EXCEPT !.current_index = index,
                            !.index_direction = IF index \in {0, sheet.count - 1} THEN -@ ELSE @]
  /\ UNCHANGED <<textVars, frameVars, program, canvas, shape>>

Strings == {<<33>>, <<33, 32, 33>>, <<33, 40, 33>>}

DrawShape ==
  \/ \E x1, x2 \in X, y1, y2 \in Y : DrawLine(x1, y1, x2, y2)
  \/ \E x \in X, y \in Y, radius \in 1 .. MaxRadius, filled \in BOOLEAN : DrawCircle(x, y, radius, filled)
  \/ \E x \in X, y \in Y, w, h \in {1, 2, 3, Width + Margin}, filled \in BOOLEAN : DrawRect(x, y, w, h, filled)
  \/ \E x \in X, y \in Y : ShowBlit(x, y)
  \/ \E x \in X, y \in Y, str \in Strings : ShowString(str, x, y)

TurnPage == RotateIndexLoop \/ RotateIndexPingPong

Next ==
  \/ program = "shapes" /\ DrawShape
  \/ program = "sheet" /\ \E x \in X, y \in Y, scale \in 0 .. 2 : ShowSprite(x, y, scale)
  \/ program = "sheet" /\ TurnPage
  \/ Clear
  \/ program = "text" /\ TextNext /\ UNCHANGED <<frameVars, program, canvas, shape, sheet>>
  \/ program = "frames" /\ FrameNext /\ UNCHANGED <<textVars, program, canvas, shape, sheet>>

Spec == Init /\ [][Next]_vars /\ WF_vars(program = "sheet" /\ TurnPage)

(***************************************************************************)
(* Properties                                                              *)
(***************************************************************************)
Painted == {p \in DOMAIN canvas : canvas[p] # Black}

TypeOK ==
  /\ fb \in [(0 .. Width - 1) \X (0 .. Height - 1) -> {White, Black}]
  /\ canvas \in [DOMAIN Blank -> 0 .. 7]
  /\ area.cursor_x \in Nat /\ area.cursor_y \in 0 .. Height - 1 /\ area.column_count \in 0 .. drawn

\* DrawLine paints, of the points that are on the framebuffer, one for each
\* step along the longer axis, within half a point of the line between the
\* two ends and no further than them (draw.cc:50-91); in particular a line
\* that leaves the framebuffer is the visible part of the whole line.
LinesAreStraight ==
  shape.op = "line" =>
    LET steep == Magnitude(shape.y2 - shape.y1) > Magnitude(shape.x2 - shape.x1)
        flat(p) == IF steep THEN <<p[2], p[1]>> ELSE p
        a == flat(<<shape.x1, shape.y1>>)
        b == flat(<<shape.x2, shape.y2>>)
        span == Magnitude(b[1] - a[1])
        between(n) == (a[1] <= n /\ n <= b[1]) \/ (b[1] <= n /\ n <= a[1])
        near(p) == 2 * Magnitude((b[1] - a[1]) * (p[2] - a[2]) - (b[2] - a[2]) * (p[1] - a[1])) <= span
        onLine == {p \in X \X Y : between(flat(p)[1]) /\ near(flat(p))}
        step(p) == {q \in onLine : flat(q)[1] = flat(p)[1]}
    IN  /\ Painted \subseteq onLine
        /\ \A p \in Painted : step(p) \cap Painted = {p}
        /\ \A p \in onLine : step(p) \subseteq DOMAIN canvas => step(p) \cap Painted # {}

\* DrawCircle paints an outline within half a point of the circle, on both
\* sides of every row, or everything inside it and nothing outside
\* (draw.cc:95-133), whatever part of the circle is on the framebuffer.
CirclesAreRound ==
  shape.op = "circle" =>
    LET dist(p) == 4 * ((p[1] - shape.x) * (p[1] - shape.x) + (p[2] - shape.y) * (p[2] - shape.y))
        least == (2 * shape.radius - 1) * (2 * shape.radius - 1)
        most == (2 * shape.radius + 1) * (2 * shape.radius + 1)
        all == (shape.x - shape.radius .. shape.x + shape.radius)
                 \X (shape.y - shape.radius .. shape.y + shape.radius)
        edge == {p \in all : least <= dist(p) /\ dist(p) <= most}
        left(r) == {p \in edge : p[2] = r /\ p[1] <= shape.x}
        right(r) == {p \in edge : p[2] = r /\ p[1] >= shape.x}
    IN  /\ \A p \in Painted : dist(p) <= most /\ (~shape.filled => dist(p) >= least)
        /\ shape.filled => \A p \in DOMAIN canvas : dist(p) < least => p \in Painted
        /\ \A r \in shape.y - shape.radius .. shape.y + shape.radius :
             \A side \in {left(r), right(r)} :
               side \subseteq DOMAIN canvas => side \cap Painted # {}

\* The colour a point of the canvas should have: each image asks which of
\* its own points covers that one.
Wanted(p) ==
  CASE shape.op = "rect" ->
         LET h == p[1] - shape.x  v == p[2] - shape.y
             inside == h \in 0 .. shape.w - 1 /\ v \in 0 .. shape.h - 1
             border == h \in {0, shape.w - 1} \/ v \in {0, shape.h - 1}
         IN  IF inside /\ (shape.filled \/ border) THEN Pen ELSE Black
    [] shape.op = "sprite" ->
         LET h == (p[1] - shape.x) \div shape.scale
             v == (p[2] - shape.y) \div shape.scale
             colour == Sprites(sheet.count).data[6 * shape.index + 2 * v + h + 1]
         IN  IF shape.scale = 0 \/ h \notin 0 .. 1 \/ v \notin 0 .. 2 THEN Black
             ELSE IF colour = 9 THEN Black ELSE colour
    [] shape.op = "blit" ->
         LET q == <<p[1] - shape.x, p[2] - shape.y>> IN
         IF q \in DOMAIN Stamp THEN Stamp[q] ELSE Black
    [] shape.op = "string" ->
         LET glyphs == SelectSeq(shape.str, LAMBDA ch : ch # 40)
             i == (p[1] - shape.x) \div 2 + 1
             v == p[2] - shape.y
         IN  IF v \notin 0 .. 1 \/ i \notin DOMAIN glyphs THEN Black
             ELSE IF glyphs[i] = 33 /\ (p[1] - shape.x) % 2 = v THEN Pen ELSE 2

\* Rectangles, scaled sprites, blits and strings show each of their points
\* where it belongs, with the colour it has, when they lie across an edge
\* of the framebuffer, also the left and upper one (writer.cc:27-45,
\* draw.cc:143-207, 222-265).
ImagesLand ==
  shape.op \in {"rect", "sprite", "blit", "string"} => \A p \in DOMAIN canvas : canvas[p] = Wanted(p)

\* Every shape looks like its definition.
ShapesInv == TypeOK /\ LinesAreStraight /\ CirclesAreRound /\ ImagesLand

\* A program that turns the pages of a sheet of two pictures or more with
\* one of the two functions never shows a picture past the sheet's data
\* (sprite_sheet.cc:26-34) ...
PageInSheet == sheet.current_index \in 0 .. sheet.count - 1

\* ... and shows each of them again and again.
EveryPageShown ==
  /\ []PageInSheet
  /\ program = "sheet" =>
    \A index \in 0 .. 2 : []<>(index >= sheet.count \/ sheet.current_index = index)

\* Text appears in a text area as on a grid of cells: each cell shows a
\* whole glyph, lines wrap at the right edge and begin where the cursor was
\* set, and at the bottom everything moves up by one line, whatever order of
\* fonts, colours, wrap settings and characters (text_area.cc:37-172).
ImplementsTextGrid == Grid!Spec
=============================================================================
