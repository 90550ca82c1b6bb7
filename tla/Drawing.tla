------------------------------ MODULE Drawing ------------------------------
(***************************************************************************)
(* The drawing algorithms of pw_draw and the pixel access they go through. *)
(* A framebuffer is a function from <<x, y>> to a colour.  A shape of one  *)
(* colour is the set of the points it asks SetPixel for, in any order;     *)
(* coordinates are int, and SetPixel narrows them to uint16_t.  The int16_t *)
(* temporaries of DrawLine are as wide as its int arguments for every      *)
(* screen of the repository.                                               *)
(***************************************************************************)
EXTENDS Integers, Sequences, SequencesExt

U16(n) == n % 65536

\* |n|, and the least of 0 and n.
Magnitude(n) == IF n < 0 THEN -n ELSE n

(***************************************************************************)
(* FramebufferReader and FramebufferWriter                                 *)
(***************************************************************************)
\* SetPixel for each point of S: points off the framebuffer are ignored.
Paint(fb, S, colour) ==
  LET landed == {<<U16(p[1]), U16(p[2])>> : p \in S} \cap DOMAIN fb
  IN  [p \in DOMAIN fb |-> IF p \in landed THEN colour ELSE fb[p]]

\* SetPixel for each point of the domain of image.
MutantPaintImage(fb, image) ==
  [p \in DOMAIN fb |->
    LET from == {q \in DOMAIN image : q = p} IN
    IF from = {} THEN fb[p] ELSE image[CHOOSE q \in from : TRUE]]
PaintImage(fb, image) ==
  [p \in DOMAIN fb |->
    LET from == {q \in DOMAIN image : <<U16(q[1]), U16(q[2])>> = p} IN
    IF from = {} THEN fb[p] ELSE image[CHOOSE q \in from : TRUE]]

Fill(fb, colour) == [p \in DOMAIN fb |-> colour]

\* x and y are uint16_t already: a negative offset arrives wrapped, and the
\* sum with a pixel's own coordinate is narrowed once more.
Blit(fb, other, x, y) ==
  PaintImage(fb, [p \in {<<U16(x) + q[1], U16(y) + q[2]>> : q \in DOMAIN other} |->
                    other[<<p[1] - U16(x), p[2] - U16(y)>>]])

(***************************************************************************)
(* Lines, circles and rectangles                                           *)
(***************************************************************************)
\* Bresenham from the left end of the axis along which the line is longer.
MutantLinePoints(x1, y1, x2, y2) ==
  LET steep == Magnitude(y2 - y1) > Magnitude(x2 - x1)
      a == IF steep THEN <<y1, x1>> ELSE <<x1, y1>>
      b == IF steep THEN <<y2, x2>> ELSE <<x2, y2>>
      from == IF a[1] > b[1] THEN b ELSE a
      to == IF a[1] > b[1] THEN a ELSE b
      dx == to[1] - from[1]
      dy == Magnitude(to[2] - from[2])
      ystep == IF from[2] < to[2] THEN 1 ELSE -1
      walk[k \in 0 .. dx] ==
        IF k = 0 THEN [y |-> from[2], error_value |-> 0]
        ELSE LET was == walk[k - 1]
                 left == was.error_value - dy
             IN  IF left < 0 THEN [y |-> was.y + ystep, error_value |-> left + dx]
                             ELSE [was EXCEPT !.error_value = left]
  IN  {IF steep THEN <<walk[k].y, from[1] + k>> ELSE <<from[1] + k, walk[k].y>> : k \in 0 .. dx}
LinePoints(x1, y1, x2, y2) ==
  LET steep == Magnitude(y2 - y1) > Magnitude(x2 - x1)
      a == IF steep THEN <<y1, x1>> ELSE <<x1, y1>>
      b == IF steep THEN <<y2, x2>> ELSE <<x2, y2>>
      from == IF a[1] > b[1] THEN b ELSE a
      to == IF a[1] > b[1] THEN a ELSE b
      dx == to[1] - from[1]
      dy == Magnitude(to[2] - from[2])
      ystep == IF from[2] < to[2] THEN 1 ELSE -1
      walk[k \in 0 .. dx] ==
        IF k = 0 THEN [y |-> from[2], error_value |-> dx \div 2]
        ELSE LET was == walk[k - 1]
                 left == was.error_value - dy
             IN  IF left < 0 THEN [y |-> was.y + ystep, error_value |-> left + dx]
                             ELSE [was EXCEPT !.error_value = left]
  IN  {IF steep THEN <<walk[k].y, from[1] + k>> ELSE <<from[1] + k, walk[k].y>> : k \in 0 .. dx}

\* One round of the circle's loop: the arc moves a row down, a column in, or
\* both.  "radius" holds the error of the round before.
MutantArcStep(arc) ==
  LET down == arc.error_value <= arc.y
      y == IF down THEN arc.y + 1 ELSE arc.y
      error == IF down THEN arc.error_value + 2 * arc.y + 1 ELSE arc.error_value
      in == arc.error_value > arc.x \/ error > y
      x == IF in THEN arc.x + 1 ELSE arc.x
  IN  [x |-> x, y |-> y, error_value |-> IF in THEN error + 2 * x + 1 ELSE error]
ArcStep(arc) ==
  LET down == arc.error_value <= arc.y
      y == IF down THEN arc.y + 1 ELSE arc.y
      error == IF down THEN arc.error_value + 2 * y + 1 ELSE arc.error_value
      in == arc.error_value > arc.x \/ error > y
      x == IF in THEN arc.x + 1 ELSE arc.x
  IN  [x |-> x, y |-> y, error_value |-> IF in THEN error + 2 * x + 1 ELSE error]

\* Every round moves the arc, so it reaches x = 0 within two radii.
CirclePoints(center_x, center_y, radius, filled) ==
  LET arc[k \in 0 .. 2 * radius] ==
        IF k = 0 THEN [x |-> -radius, y |-> 0, error_value |-> 2 - 2 * radius]
                 ELSE ArcStep(arc[k - 1])
      rounds == {arc[k] : k \in {n \in 0 .. 2 * radius : \A m \in 0 .. n : arc[m].x < 0}}
      quarters(at) ==
        LET fx == IF filled THEN 0 ELSE at.x
            fy == IF filled THEN 0 ELSE at.y
        IN  UNION {{<<center_x - i, center_y + at.y>>, <<center_x + i, center_y - at.y>>} : i \in at.x .. fx}
            \cup UNION {{<<center_x - i, center_y - at.x>>, <<center_x + i, center_y + at.x>>} : i \in fy .. at.y}
  IN  UNION {quarters(at) : at \in rounds}

HLinePoints(x1, x2, y) == (x1 .. x2) \X {y}

RectPoints(x1, y1, x2, y2, filled) ==
  HLinePoints(x1, x2, y1) \cup HLinePoints(x1, x2, y2)
  \cup (IF filled THEN x1 .. x2 ELSE {x1, x2}) \X (y1 + 1 .. y2 - 1)

RectWHPoints(x, y, w, h, filled) == RectPoints(x, y, x - 1 + w, y - 1 + h, filled)

(***************************************************************************)
(* Sprites: a sheet holds count pictures one below the other, its data row *)
(* by row.                                                                 *)
(***************************************************************************)
GetColor(sheet, x, y, index) ==
  sheet.data[(index * sheet.height + y) * sheet.width + x + 1]

DrawSprite(fb, x, y, sheet, index, integer_scale) ==
  LET opaque == {p \in (0 .. sheet.width - 1) \X (0 .. sheet.height - 1) :
                   GetColor(sheet, p[1], p[2], index) # sheet.transparent_color}
      area(p) == RectWHPoints(x + integer_scale * p[1], y + integer_scale * p[2],
                              integer_scale, integer_scale, TRUE)
      image == [q \in UNION {area(p) : p \in opaque} |->
                  LET p == CHOOSE p \in opaque : q \in area(p)
                  IN  GetColor(sheet, p[1], p[2], index)]
  IN  IF integer_scale < 1 THEN fb ELSE PaintImage(fb, image)

(***************************************************************************)
(* Characters.  A font gives the width and height of its glyphs, its first *)
(* and last character, and the points of each glyph that are on.           *)
(***************************************************************************)
Space == 32
Nul == 0

\* The picture of a character, or the empty picture for one the font lacks.
Picture(ch, fg, bg, font) ==
  LET box == (0 .. font.width - 1) \X (0 .. font.height - 1) IN
  IF ch \in {Space, Nul} THEN [p \in box |-> bg]
  ELSE IF ch \notin font.first .. font.last THEN << >>
  ELSE [p \in box |-> IF p \in font.on[ch] THEN fg ELSE bg]

DrawCharacter(fb, ch, x, y, fg, bg, font) ==
  LET picture == Picture(ch, fg, bg, font) IN
  PaintImage(fb, [q \in {<<x + p[1], y + p[2]>> : p \in DOMAIN picture} |->
                    picture[<<q[1] - x, q[2] - y>>]])

\* The advance of DrawCharacter: nothing for a character the font lacks.
Advance(ch, font) ==
  IF ch \in {Space, Nul} \/ ch \in font.first .. font.last THEN font.width ELSE 0

DrawString(fb, str, x, y, fg, bg, font) ==
  FoldLeft(LAMBDA at, ch : [fb |-> DrawCharacter(at.fb, ch, at.x, y, fg, bg, font),
                            x |-> at.x + Advance(ch, font)],
           [fb |-> fb, x |-> x], str).fb

=============================================================================
