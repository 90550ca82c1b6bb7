----------------------------- MODULE LcdDrivers -----------------------------
(***************************************************************************)
(* The SPI display drivers pw_display_driver_{ili9341,st7789,st7735}: what *)
(* each sends to its panel, as scripts of steps; and the panel, external,  *)
(* as far as the drivers rely on it.                                       *)
(*                                                                         *)
(* A step is a command with its data, a block of pixels, a pulse of the    *)
(* reset line, a wait, or an assertion that fails.  must says whether the  *)
(* driver looks at the status of a command: if it does, a failure ends the *)
(* script.  Command bytes are names, and data only where the panel's       *)
(* behaviour depends on it.                                                *)
(***************************************************************************)
EXTENDS Integers, SequencesExt, TLC

CONSTANTS
  Width, Height,      \* of the display
  kNumRowsPerSend,    \* of the ILI9341: 10
  kResizeBuffer       \* pixels sent at once when resizing: 80

ASSUME DriverAssumption ==
  /\ Width \in Nat /\ Width > 1 /\ Height \in Nat /\ Height > 1
  /\ kNumRowsPerSend \in Nat \ {0} /\ Height % kNumRowsPerSend = 0
  /\ kResizeBuffer \in Nat \ {0}

Command(name, args, must) ==
  <<[op |-> "command", name |-> name, args |-> args, must |-> must]>>
Plain(names) ==
  [i \in DOMAIN names |->
     [op |-> "command", name |-> names[i], args |-> <<>>, must |-> FALSE]]
Wait == <<[op |-> "wait"]>>
ResetLine == <<[op |-> "reset"]>>
AssertFails == <<[op |-> "assert"]>>
(* Pixels of the framebuffer, by their indices in it. *)
Pixels(indices) == <<[op |-> "pixels", indices |-> indices]>>

Columns(first, last) == Command("CASET", <<first, last>>, FALSE)
Rows(first, last) == Command("RASET", <<first, last>>, FALSE)
WholeWindow == Columns(0, Width - 1) \o Rows(0, Height - 1)

-----------------------------------------------------------------------------
(* ILI9341, with the SPI interface and without swap_row_col, as the boards *)
(* configure it; Reset without a reset line fails and is ignored.          *)
Ili9341Power ==
  Plain(<<"0xEF", "POWERB", "POWER_SEQ", "DTCA", "POWERA", "PRC", "DTCB",
          "FRMCTR1", "DFC", "POWER1", "POWER2", "VCOM1", "VCOM2", "MADCTL",
          "COLMOD", "3GAMMA_EN", "DFC">>)
Ili9341Gamma ==
  Plain(<<"RAMWR">>) \o Wait \o Plain(<<"GAMMA", "PGAMMA", "NGAMMA">>)
Ili9341Reset(reset_gpio) ==
  IF reset_gpio THEN ResetLine \o Wait ELSE <<>>
Ili9341On == Plain(<<"SLPOUT">>) \o Wait \o Plain(<<"DISPON", "NORON", "RAMWR">>)
Ili9341Init(reset_gpio) ==
  Ili9341Reset(reset_gpio) \o Ili9341Power \o WholeWindow \o Ili9341Gamma
    \o Ili9341On

(* A plausible slip, and what the driver's TODO says did not work: the     *)
(* whole frame in one send.                                                *)
MutantIli9341Frame == Pixels([i \in 1..(Width * Height) |-> i - 1])

(* Bands of rows, without a memory write command: the panel goes on where  *)
(* the last frame ended.                                                   *)
Ili9341Frame ==
  LET n == Width * kNumRowsPerSend
  IN  [send \in 1..(Height \div kNumRowsPerSend) |->
         Pixels([i \in 1..n |-> (send - 1) * n + i - 1])[1]]

-----------------------------------------------------------------------------
(* ST7789. *)
St7789Init ==
  Plain(<<"SWRESET">>) \o Wait
    \o Plain(<<"TEON", "COLMOD", "PORCTRL", "LCMCTRL", "VDVVRHEN", "VRHS",
               "VDVS", "PWCTRL1", "FRCTRL2", "INVON", "SLPOUT", "DISPON">>)
    \o WholeWindow \o Plain(<<"MADCTL">>) \o Wait

St7789Frame(pixels) ==
  Command("RAMWR", <<>>, TRUE) \o Pixels([i \in 1..pixels |-> i - 1])

(* ST7735: its memory starts two rows and a column before the glass, which *)
(* the panel here leaves out.                                              *)
St7735Power ==
  Plain(<<"SWRESET">>) \o Wait \o Plain(<<"SLPOUT">>) \o Wait
    \o Plain(<<"FRMCTR1">>) \o Wait
    \o Plain(<<"DISSET5", "INVCTR", "TEON", "COLMOD">>) \o Wait
    \o Plain(<<"PORCTRL", "PWCTR1">>) \o Wait
    \o Plain(<<"PWCTR2", "PWCTR3", "VMCTR1">>) \o Wait
    \o Plain(<<"PWCTR6", "VRHS", "VDVS", "PWCTRL1", "FRCTRL2", "INVOFF",
               "GMCTRP1", "GMCTRN1">>) \o Wait
St7735On == Plain(<<"MADCTL", "NORON">>) \o Wait \o Plain(<<"DISPON">>) \o Wait
St7735Init == St7735Power \o WholeWindow \o St7735On

St7735Frame ==
  Command("RAMWR", <<>>, TRUE) \o Pixels([i \in 1..(Width * Height) |-> i - 1])

-----------------------------------------------------------------------------
(* WriteRow of the ILI9341 and, alike, of the ST7789.  The last column is  *)
(* one too far, beyond the glass, when the row reaches its edge.           *)
Ili9341WriteRow(indices, row, col) ==
  Columns(col, Max({Width - 1, col + Len(indices)})) \o Rows(row, row)
    \o Command("RAMWR", <<>>, TRUE) \o Pixels(indices)

St7789WriteRow(indices, row, col) == Ili9341WriteRow(indices, row, col)

St7735WriteRow(indices, row, col) == AssertFails

Init(board) ==
  CASE board.chip = "ILI9341" -> Ili9341Init(board.reset_gpio)
    [] board.chip = "ST7789"  -> St7789Init
    [] board.chip = "ST7735"  -> St7735Init

WriteFramebuffer(board) ==
  CASE board.chip = "ILI9341" -> Ili9341Frame
    [] board.chip = "ST7789"  -> St7789Frame(board.fbwidth * board.fbheight)
    [] board.chip = "ST7735"  -> St7735Frame

WriteRow(board, indices, row, col) ==
  CASE board.chip = "ILI9341" -> Ili9341WriteRow(indices, row, col)
    [] board.chip = "ST7789"  -> St7789WriteRow(indices, row, col)
    [] board.chip = "ST7735"  -> St7735WriteRow(indices, row, col)

(* A plausible slip: the last buffer of a row is flushed whole.            *)
MutantResizedRow(board, y) ==
  LET sy == (y * (board.fbheight - 1)) \div (Height - 1)
      source(x) == sy * board.fbwidth + (x * (board.fbwidth - 1)) \div (Width - 1)
      flush(x) == WriteRow(board, [i \in 1..kResizeBuffer |-> source(x + i - 1)], y, x)
  IN  FlattenSeq([k \in 1..((Width + kResizeBuffer - 1) \div kResizeBuffer) |->
                    flush((k - 1) * kResizeBuffer)])

(* UpdateNearestNeighbor: row y of the display, a buffer at a time. *)
ResizedRow(board, y) ==
  LET sy == (y * (board.fbheight - 1)) \div (Height - 1)
      source(x) == sy * board.fbwidth + (x * (board.fbwidth - 1)) \div (Width - 1)
      flush(x) == WriteRow(board,
                           [i \in 1..Min({kResizeBuffer, Width - x}) |->
                              source(x + i - 1)], y, x)
  IN  FlattenSeq([k \in 1..((Width + kResizeBuffer - 1) \div kResizeBuffer) |->
                    flush((k - 1) * kResizeBuffer)])

UpdateNearestNeighbor(board) ==
  FlattenSeq([y \in 1..Height |-> ResizedRow(board, y - 1)])

-----------------------------------------------------------------------------
(* The panel. ready is FALSE from a reset to the wait that follows it; a   *)
(* memory write goes on through the window and starts again at its end.    *)
Cells == 0..(Width * Height - 1)
PanelOff ==
  [ready |-> TRUE, awake |-> FALSE, on |-> FALSE, format |-> FALSE,
   writing |-> FALSE, col |-> <<0, 0>>, row |-> <<0, 0>>, at |-> 0]

PanelReset == [PanelOff EXCEPT !.ready = FALSE]

PanelCommand(p, name, args) ==
  LET q == [p EXCEPT !.writing = (name = "RAMWR")]
  IN  IF ~p.ready THEN p ELSE
      CASE name = "SWRESET" -> PanelReset
        [] name = "SLPOUT"  -> [q EXCEPT !.awake = TRUE]
        [] name = "DISPON"  -> [q EXCEPT !.on = TRUE]
        [] name = "COLMOD"  -> [q EXCEPT !.format = TRUE]
        [] name = "CASET"   -> [q EXCEPT !.col = args]
        [] name = "RASET"   -> [q EXCEPT !.row = args]
        [] name = "RAMWR"   -> [q EXCEPT !.at = 0]
        [] OTHER            -> q

(* The area of the window on the glass. *)
Columnwise(p) == p.col[2] - p.col[1] + 1
Area(p) == Columnwise(p) * (p.row[2] - p.row[1] + 1)

(* Where pixel number j of a memory write that started at p.at goes. *)
CellOf(p, j) ==
  LET k == (p.at + j) % Area(p)
  IN  <<p.col[1] + (k % Columnwise(p)), p.row[1] + (k \div Columnwise(p))>>

(* memory after the pixels values, those outside the glass dropped. *)
PanelMemory(memory, p, values) ==
  LET hit(c) == {j \in DOMAIN values :
                   CellOf(p, j - 1) = <<c % Width, c \div Width>>}
  IN  IF ~(p.ready /\ p.writing) THEN memory
      ELSE [c \in Cells |-> IF hit(c) = {} THEN memory[c]
                            ELSE values[Max(hit(c))]]
PanelAdvance(p, n) ==
  IF p.ready /\ p.writing THEN [p EXCEPT !.at = (@ + n) % Area(p)] ELSE p
=============================================================================
