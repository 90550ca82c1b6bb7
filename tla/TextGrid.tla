------------------------------ MODULE TextGrid ------------------------------
(***************************************************************************)
(* What a text area promises: a grid of cells, each holding a picture, and *)
(* a place at which the next picture goes.  Lines start in the column the  *)
(* cursor was set to, a full line goes on below, and a line break at the   *)
(* bottom moves every line up by one.                                      *)
(***************************************************************************)
EXTENDS Integers

CONSTANTS Columns, Rows, Pictures

VARIABLES cells, start, count, row

vars == <<cells, start, count, row>>

Places == (0 .. Columns - 1) \X (0 .. Rows - 1)

Init ==
  /\ \E blank \in Pictures : cells = [p \in Places |-> blank]
  /\ start = 0 /\ count = 0 /\ row = 0

\* Any part of the cursor may be left where it is.
SetCursor ==
  /\ start' \in 0 .. Columns - 1
  /\ row' \in 0 .. Rows - 1
  /\ count' = 0
  /\ UNCHANGED cells

Scrolled(blank) ==
  [p \in Places |-> IF p[2] = Rows - 1 THEN blank ELSE cells[<<p[1], p[2] + 1>>]]

\* The cells and the row after a line break.
BreakTo(grid, to) ==
  IF row + 1 < Rows THEN grid = cells /\ to = row + 1
  ELSE to = row /\ \E blank \in Pictures : grid = Scrolled(blank)

LineBreak ==
  /\ BreakTo(cells', row')
  /\ count' = 0
  /\ UNCHANGED start

\* A picture in the grid, or one that misses it.
Place(grid, p, picture) == IF p \in Places THEN [grid EXCEPT ![p] = picture] ELSE grid

Put(picture) ==
  \/ /\ cells' = Place(cells, <<start + count, row>>, picture)
     /\ count' = count + 1
     /\ UNCHANGED <<start, row>>
  \/ /\ start + count >= Columns
     /\ \E grid \in {cells} \cup {Scrolled(blank) : blank \in Pictures} :
          /\ BreakTo(grid, row')
          /\ cells' = Place(grid, <<start, row'>>, picture)
     /\ count' = 1
     /\ UNCHANGED start

\* A character without a glyph takes a place and shows nothing.
Skip == count' = count + 1 /\ UNCHANGED <<cells, start, row>>

Next == SetCursor \/ LineBreak \/ (\E picture \in Pictures : Put(picture)) \/ Skip

Spec == Init /\ [][Next]_vars
=============================================================================
