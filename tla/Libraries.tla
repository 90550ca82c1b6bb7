----------------------------- MODULE Libraries ------------------------------
(***************************************************************************)
(* The libraries whose objects an application may use in any order it      *)
(* likes, each under a client that does: the pool of framebuffers, the     *)
(* framebuffers and their moves, drawing, the values of the polled echo,   *)
(* and the I2C bus.  They share nothing, so a behaviour uses one of them,  *)
(* chosen at its beginning, and the others stay as they were made.         *)
(***************************************************************************)
EXTENDS FramebufferPool

CONSTANTS
  Width, Height, MaxChars, MaxRadius, Margin,   \* of Canvas
  Polls, Results, Requests,                     \* of PollValues
  BusThreads, NoThread,                         \* of I2cInitiator
  MovedBuffers, nullptr                         \* of FramebufferMoves

VARIABLES
  library,                                                  \* the one in use
  fb, area, rest, drawn, sun, log_row, frame, program, canvas, shape, sheet,
  polls, meant, temp, task, calls,
  mutex_, base_, enabled_, running, busPc, call, sent, status,
  driver, freeBuffers, nextBuffer, at, taken, lost

Drawing == INSTANCE Canvas
Values == INSTANCE PollValues
Bus == INSTANCE I2cInitiator WITH Threads <- BusThreads, None <- NoThread, pc <- busPc
Moves == INSTANCE FramebufferMoves
           WITH NumBuffers <- MovedBuffers, framebuffer_semaphore_ <- freeBuffers,
                next_fb_idx_ <- nextBuffer

drawVars == <<fb, area, rest, drawn, sun, log_row, frame, program, canvas, shape, sheet>>
valueVars == <<polls, meant, temp, task, calls>>
busVars == <<mutex_, base_, enabled_, running, busPc, call, sent, status>>
moveVars == <<driver, freeBuffers, nextBuffer, at, taken, lost>>

allVars == <<library, vars, drawVars, valueVars, busVars, moveVars>>

LibrariesInit ==
  /\ library \in {"pool", "drawing", "values", "bus", "moves"}
  /\ Init /\ Drawing!Init /\ Values!Init /\ Bus!Init /\ Moves!Init
  /\ library # "drawing" => program = "text"
  /\ library # "moves" => driver = "direct"

UsePool ==
  /\ library = "pool" /\ Next
  /\ UNCHANGED <<library, drawVars, valueVars, busVars, moveVars>>

Draw ==
  /\ library = "drawing" /\ Drawing!Next
  /\ UNCHANGED <<library, vars, valueVars, busVars, moveVars>>

UseValues ==
  /\ library = "values" /\ Values!Next
  /\ UNCHANGED <<library, vars, drawVars, busVars, moveVars>>

UseBus ==
  /\ library = "bus" /\ Bus!Next
  /\ UNCHANGED <<library, vars, drawVars, valueVars, moveVars>>

MoveFramebuffers ==
  /\ library = "moves" /\ Moves!Next
  /\ UNCHANGED <<library, vars, drawVars, valueVars, busVars>>

LibrariesNext == UsePool \/ Draw \/ UseValues \/ UseBus \/ MoveFramebuffers

(* Each library with the fairness of its own module. *)
LibrariesSpec ==
  /\ LibrariesInit
  /\ [][LibrariesNext]_allVars
  /\ Fairness
  /\ WF_drawVars(Drawing!TurnPage /\ program = "sheet")
  /\ Bus!Fairness

-----------------------------------------------------------------------------
(* Every shape looks like its definition, and the parts of a frame of       *)
(* terminal_display stay in their areas: Canvas, TerminalFrame.             *)
DrawingInv == Drawing!ShapesInv /\ Drawing!FrameLaidOut

(* A text area is a grid of cells: Canvas and TextArea. *)
ImplementsTextGrid == Drawing!ImplementsTextGrid

(* One member of a bivariant is alive, each Poll is what it was meant to    *)
(* be, and the remote is called once for each request: PollValues.          *)
FuturesInv == Values!VariantsInv /\ Values!CalledOnce

(* Transfers have the bus for themselves, and their status tells what       *)
(* happened: I2cInitiator.                                                  *)
BusInv == Bus!BusInv

(* No buffer is shared and none lost on its way: FramebufferMoves. *)
MovesInv == Moves!MovesInv

(* Every call of the pool and of the bus comes back, though it may have to  *)
(* wait for a release, and each page of a sprite sheet comes round.         *)
NothingStops == GetFramebufferReturns /\ Bus!CallsReturn /\ Drawing!EveryPageShown
=============================================================================
