# A formal model of pigweed-experimental

TLA+ modules, TLC configurations and TLAPS proofs for the graphics stack, the
display back ends, the boards' set-up and the applications of this repository.
Source paths below are relative to the repository (`src/`).  `PROJECT.json` lists
components, runs, mutations, hazards and theorems, and maps each definition to the
lines it models.

Run a check with `tlc -config X.cfg M` and a proof with `tlapm M.tla`; which
module goes with which configuration is in the table of runs.

## 1. Inventory

### The display stack

The code is a set of Pigweed modules.  An application draws into a *framebuffer*
it gets from a *display* and gives it back; the display forwards it to a *display
driver*, the driver or a helper writes it to the panel, and when the transfer is
over a callback, often in an interrupt, returns the framebuffer to a *pool*.

    application -> Display -> FramebufferPool.GetFramebuffer
         |                          ^
         v                          | callback (interrupt)
       Display.ReleaseFramebuffer   |
         -> DisplayDriver.WriteFramebuffer -> PixelPusher / MIPI device / SPI

| Component | State | Operations | What is hard |
|---|---|---|---|
| `pw_framebuffer_pool` | a counting semaphore, a volatile round-robin index | `GetFramebuffer`, `ReleaseFramebuffer` | the index is neither atomic nor locked; releases come from interrupts; the semaphore is the only accounting |
| `pw_framebuffer` | data pointer, format, size, row bytes | constructors, moves, pixel reader and writer | coordinates are unsigned 16 bits, drawing uses signed ones |
| `pw_display` | none of its own (driver, pool, size) | `GetFramebuffer`, `ReleaseFramebuffer`, nearest neighbour resize | ownership passes through an asynchronous callback that asserts success |
| `pw_pixel_pusher_rp2040_pio` | file statics shared with a DMA interrupt handler; DMA channel, scanline count, PIO machine | `Init`, `SetPixelDouble`, `WriteFramebuffer`, `irq_handler` | thread, DMA, handler and PIO machine race for every frame; row doubling by restarting the DMA |
| `pw_mipi_dsi_mcuxpresso` `FramebufferDevice` | memory pool, binary semaphore, one static callback slot, `enabled_` | `Init`, `Close`, `Enable`, `Disable`, `GetFramebuffer`, `WriteFramebuffer`, `WriteComplete`, `BufferSwitchOff` | completion in an interrupt or, on failure, on the thread; order of put, release and callback |
| `pw_mipi_dsi_mcuxpresso` `MCUXpressoDevice` | one static callback and framebuffer, the context of a chunked DSI write | `Init`, `WriteFramebuffer`, tearing-effect interrupt, `DSI_MemWrite` and its callback | a frame is a chain of interrupts; each may fail |
| `pw_display_driver_mipi` | one static callback slot | `WriteFramebuffer` | overwrites the slot, its assertion is commented out |
| `pw_display_driver_{ili9341,st7789,st7735}`, `pw_spi_*` | the panel's registers, lazily initialised initiators | `Init`, `WriteFramebuffer`, `WriteRow`; `Configure`, `WriteRead`, chip select | partial failure between bands and commands; word size shared by two initiators |
| `pw_display_driver_imgui` | textures, filter, scale, mouse | `Init`, `WriteFramebuffer`, `Render` | the user acts between frames; framebuffer and window may differ in width |
| `pw_draw`, `pw_color`, `pw_math` | none, or a cursor | lines, circles, rectangles, text, sprites, blits, RGB565 | integer geometry, clipping, wrapping and scrolling |
| `applications/terminal_display` | text buffer with cursor, ANSI decoder, main loop | `DrawCharacter`, `ProcessChar`, `MainTask` | cursor and scrolling at the edges; a byte-wise state machine with a bounded buffer |
| `applications/32blit_demo` | the rain's clock, draw and flush times | `Rain`, the display loop | differences of a millisecond counter that wraps |
| `applications/app_common_impl`, `targets/*/boot.cc` | what a board wires together; clocks and interrupts | boot hooks, `Common::Init` | order of initialisation |

### Other applications and drivers

| Component | State | Operations | What is hard |
|---|---|---|---|
| `pw_async_bench` | dispatcher queue, tasks, echo futures, tagged unions | callback and poll `Echo`, `PostEcho`; `Poll` and `bivariant` | two threads run one dispatcher; wake before `Pending`; a result slot read by main; lifetimes in a union |
| `applications/tls_example` | TLS session, record buffers | handshake, `Read`, `Write`, loading certificates | partial reads and writes, three back ends of one interface, a transport that does not tell that it is gone |
| `applications/rpc`, `pw_sys_io_baremetal_stm32f769` | decoder, blink state, UART registers | a super-loop over a UART of one byte | bytes arrive while the loop does something else |
| `applications/blinky`, board LEDs | the pin, on some boards also a variable | `TurnOn`, `TurnOff`, `Toggle` | the two must agree |
| `pw_i2c_rp2040` | `enabled_`, a mutex | `Enable`, `Disable`, `DoWriteReadFor` | a write and its read are two calls; early returns; `Disable` from another thread; unused but for `Enable` |
| digital I/O, spin delays | registers | single writes; a counted loop | how long the loop takes is an estimate |

`PROJECT.json` names these under `components` with what is and is not modelled,
and lists under `hazards` each point where one of them could go wrong in a way
that a unit test would hardly reach.

### What makes each part correct

* Pool: no framebuffer has two users, only valid ones are returned, none is
  lost, a caller that waits is woken.
* Pixel pusher: each row and each pixel goes out twice and in order, whatever the
  height, down to the bits on the wire; the callback comes once, last, and for
  every frame; the pixels stay put while the DMA reads them.
* Display pipelines: every frame is shown whole, once and in the order drawn;
  no assertion fails; the loop never blocks for good.
* SPI panels: what is shown is the frame that was drawn, scaled, with no pixel sent
  beyond the glass, unless an error was swallowed; a failed transfer that is noticed
  stops the application with its status.
* MIPI device: one framebuffer out at a time, no leak, no null pointer, the
  callback slots fill and empty together; enabling and disabling pair up.
* DSI write: the area is sent in order and whole, or the failure is reported;
  the ongoing flag never sticks.
* Text window: it shows exactly the last rows of the text that was logged, in the
  colours asked for.
* Drawing: each algorithm agrees with its reference and stays in the buffer; the
  parts of a frame stay in their own areas.
* Echo: every request is answered once, with its own value.
* TLS client: the dialogue is in turn, the response is complete and in order; what
  arrived before the connection broke is still given out.
* Futures: exactly one member of a union is alive, and the remote is called once for
  each request.
* I2C: a transfer has the bus for itself from the write to the end of the read, its
  status is true, every call returns.
* Framebuffers: however they are moved, two never refer to one buffer.
* Bring-up: nothing is used before it is up; no interrupt fires into nothing; no
  clock is too fast; divided rates hold.

## 2. Modules

| Module | Models | Kind |
|---|---|---|
| `FifoPool` | what a pool promises: take a free buffer, return the oldest | abstract |
| `FramebufferPool` | `pw_framebuffer_pool/framebuffer_pool.cc` | detailed; implements `FifoPool` |
| `MCFramebufferPool` | thread symmetry for TLC | instance |
| `FramebufferPoolProofs` | theorems about the pool | proofs |
| `PixelPusher` | `pw_pixel_pusher_rp2040_pio/pixel_pusher.cc` | detailed |
| `DisplayPio` | application loop + pool + display + pusher on the Pico | composition of `FramebufferPool` and `PixelPusher` |
| `PioPrograms` | the programs of `st7789.pio.h` and the machine that runs them | detailed |
| `PicoOutput` | the Pico pipeline down to the wire | composition of `DisplayPio` and `PioPrograms` |
| `PicoOutputProofs` | theorems about the pusher, the Pico pipeline and the wire | proofs |
| `FramebufferDevice` | `pw_mipi_dsi_mcuxpresso/framebuffer_device.cc` | detailed; implements `FifoPool` |
| `DsiMemWrite` | the chunked DSI write of `pw_mipi_dsi_mcuxpresso/device.cc` | operations only |
| `MipiDisplay` | application loop + display + driver + device on the i.MX RT595 | composition of `FramebufferDevice` and `DsiMemWrite` |
| `MipiDisplayProofs` | theorems about the device, the DSI write and the pipeline | proofs |
| `SpiInitiator` | `pw_spi_stm32cube`, `pw_spi_arduino` | operations only |
| `LcdDrivers` | ILI9341, ST7789 and ST7735 drivers and their panels | operations only |
| `SpiDisplay` | application loop + display with resize + driver + initiator | composition of `SpiInitiator` and `LcdDrivers` |
| `Terminal` | a log window: the last rows of the text, cut to the width | abstract |
| `TextBuffer` | `terminal_display/text_buffer.cc` | operations; implements `Terminal` |
| `AnsiDecoder` | `terminal_display/ansi.h` writing into a text buffer | composition with `TextBuffer` |
| `AnsiDecoderProofs` | theorems about the decoder and the window it writes | proofs |
| `Drawing` | `pw_draw/draw.cc`, `pw_framebuffer/writer.cc` | operators |
| `TextGrid` | a grid of cells in which text is typed | abstract |
| `TextArea` | `pw_draw/text_area.cc` | detailed; implements `TextGrid` |
| `TerminalFrame` | what `terminal_display/main.cc` draws, and where | detailed |
| `Canvas` | programs that draw | composition of `Drawing`, `TextArea`, `TerminalFrame` |
| `FramebufferMoves` | `pw_framebuffer/framebuffer.cc` | the moves of framebuffers between application, display, driver and pool |
| `AsyncEcho` | `pw_async_bench`, both builds | detailed |
| `Bivariant` | `pw_async_bench/bivariant.h` | operators |
| `PollValues` | `poll.h`, `poll_impl.cc`, `poll_echo.h` | detailed, over `Bivariant` |
| `I2cInitiator` | `pw_i2c_rp2040/initiator.cc` | detailed |
| `Libraries` | one of the libraries at a time, in use | `FramebufferPool`, `Canvas`, `PollValues`, `I2cInitiator`, `FramebufferMoves` side by side |
| `AsyncEchoProofs` | theorems about the echo programs | proofs |
| `TlsClient` | `tls_example`, three back ends and a transport | detailed |
| `TlsClientProofs` | theorems about the dialogue | proofs |
| `BringUp` | boot hooks, `main`, `Common::Init`, vector tables | detailed |
| `Superloop` | `rpc`, `blinky`, LEDs, the UART | detailed |
| `DisplayLoop` | the display loops' times and the rain's clock | detailed |
| `HostDisplay` | `pw_display_driver_imgui` | detailed |
| `Applications`, `MCApplications` | each application from reset, on its boards | composition of the four above |
| `ApplicationsProofs` | theorems about the loops of rpc and of the displays, and the host's window | proofs |
| `Induction` | induction over the naturals, sums of sequences, division | lemmas |

Variables and operators carry the names of the code.  Conventions:

* **Grain of atomicity.**  A thread is preempted between any two accesses to
  shared state, so each access is an action (`LoadIdx`, `StoreIdx`, ...), with
  the thread's next step in `pc`, `pusherPc` or `appPc`.  An interrupt handler
  runs to its end before the thread goes on and is one action, together with
  the callbacks it calls.  Where one task runs alone (`SpiDisplay`, `TlsClient`,
  `BringUp`, ...) a step is a call that can fail, or a stretch between two.
* **Hardware and vendor code** (the DMA engine, the PIO machine, the panels, the
  display controller, the TLS libraries, the dispatcher) is modelled from how
  the code uses it, as actions that may happen whenever the code has set them
  going; `PROJECT.json` marks it external.
* **Histories** (`wire`, `link`, `shown`, `drawn`, `owed`, `silent`, ...) record
  what the outside saw; they appear in no guard of a step of the code.

Definitions called `Mutant...` are deliberate slips: with one in place of the
definition it mutates, the property named for it in `PROJECT.json` fails.  They
are not part of any specification.

### FramebufferPool

`framebuffer_semaphore_` and `next_fb_idx_` are the two fields.  `idx[t]` is the
local of `GetFramebuffer`, whose single expression `idx = next_fb_idx_++` is a
load and a store of a volatile, followed by a second load in the comparison and
perhaps a store of 0: five steps after the semaphore.  `out` is the sequence of
buffers handed out.  `InOrder` says whether buffers come back oldest first, as
they do with one display driver, or in any order.  The index counts modulo
`SizeLimit`, standing for 2^32.

### PixelPusher, DisplayPio, PioPrograms, PicoOutput

`Spin` is the wait in `WriteFramebuffer`, `Latch` the assertion and the statics,
`Start` the first transfer.  `DmaComplete` is the hardware; `IrqFrameDone` and
`IrqNextRows` are the two branches of `irq_handler`.  `wire` holds the offsets of
the pixels read, in order, so that the property can speak of each row of the
display.  `ClaimedChannel` is separate from the static `dma_channel` because the
code confuses them: `SetPixelDouble` acts on the static, which is 0 until the
first write.

`DisplayPio` is the main loop of `terminal_display` with the pool and the pusher.
The callback that `Display::ReleaseFramebuffer` passes down is the part of
`IrqHandler` that releases the framebuffer.  `content[b]` is the number of the
frame last drawn in `b`, or `Partial` between `Fill` and the end of `DrawFrame`.

`PioPrograms` executes the two programs of `st7789.pio.h` instruction by
instruction with side-set, autopull and stall, and `SetupWriteFramebuffer` is the
sequence by which the thread stops the machine, sends the command byte through
it, waits for the stall flag, raises D/CX and switches to the pixel program.
`PanelReads` says what the panel samples at each rising clock.  A pixel is
`2 * HalfBits` bits wide in the code's 16.  `PicoOutput` adds the DMA, which moves
words to the machine's queue of `FifoDepth` and is done before they are sent.

### FramebufferDevice, DsiMemWrite, MipiDisplay

`Init` gives the semaphore one unit and the pool all buffers, or fails and leaves
what it had done, as it does when the device is already enabled; `BufferSwitchOff`
is the controller's interrupt, in which the buffer is put back, the semaphore
released and the callback called.  When `setFrameBuffer` fails the same callback
runs on the thread, in two preemptible steps (`WriteCompleteRelease`,
`WriteCompleteCallback`), and the buffer is not put back.  `MayFail` names the
vendor calls that may fail.  `DeviceSpec` leaves out failing writes, which
`MipiDisplay` has.

`DSI_MemWrite` sends the first packet and each packet's interrupt sends the next
(`NextChunck`) or ends the write (`MemoryDone`).  A packet is its command and the
offsets of its bytes.

`MipiDisplay` adds the main task, the tearing-effect interrupt that starts a
transfer, and the callback slots of `device.cc` and `display_driver.cc`.
`Complete` is the completion's way back up through them.

### SpiInitiator, LcdDrivers, SpiDisplay

A driver's operation is a `script`: the commands and pixels it has still to send.
Each is a transfer of an initiator that may be initialised first and may fail; the
panel is its registers (address window, pixel format, sleep) and a memory of one
frame number and pixel per cell, written from the window's corner on.  `silent`
remembers that a status was ignored, as the drivers do during `Init` and in
`WriteRow`'s commands.  `Nearest` is the resize.  Boards differ in initiator,
chip, reset pin and framebuffer size, and only combinations of the repository occur
(`BoardsUsed`); the Pico's initiator is Pigweed's own and does what Arduino's does.

`WriteRow` opens an address window whose last column is one past the glass.
`CellOf` follows that window, and the panel drops what falls outside the glass;
`PixelsOnGlass` says that nothing does.  An initiator sets the peripheral
to a word size, a bit order and a clock mode (`Settings`); the panel takes only words of
the right size with the right bit first, in a mode in which the first bit is there in
time (`FirstBitInTime`).  The two initiators make different modes of one `Config`.

### TextBuffer and AnsiDecoder

A buffer is a record of `text_rows_` and `cursor_`; `InsertNewline` and `Store` are
the two branches of `DrawCharacter`.  The cursor may stand one
column past the last, where characters are dropped.  The decoder has the fields
of `AnsiDecoder` and `ProcessChar` for every byte.  Its input is a stream of log
messages, as `LogCallback` receives them: letters, line ends, colour sequences,
and stray escapes.  Letters are none of the escape, the placeholder `Wrong` and the
character of a cleared cell, and stray escapes come in logs without sequences and
with no bracket after them (section 5 says why).  `owed` is the text still to be
shown, `fg` and `bg` the colours it asks for.

### Drawing, TextArea, TerminalFrame, Canvas

A framebuffer is a function from points to colours.  The drawing operators follow
the algorithms of `draw.cc`; `Canvas` draws every shape within bounds, also
partly off the framebuffer, and compares with its definition: a line has one
point per step of its longer axis within half a point of the exact line, a circle
all points nearest to its radius, and so on.  `TextArea` draws text glyph by
glyph and implements `TextGrid`, a grid of cells.  `TerminalFrame` computes where
the parts of a frame of `terminal_display` go, with the code's numbers.

### AsyncEcho and TlsClient

`AsyncEcho` has two threads that take tasks from one queue; each access of the
queue, a future or a result is a step.  The poll build's future goes from
`WaitingOnRemote` to its result through the waker, which posts the task while it
still runs.  `TlsClient` is the client's `main`, with each back end's `Handshake`,
`Write` and `Read` in steps of one transport call; the transport delivers bytes in
any pieces and may accept part of a write.  The connection may break at any point.
Then a write fails, but `TransportRead` returns 0, as `TeensyEthernetTransport::Read` does
for a connection that is gone and for one on which nothing has arrived; the loops of
the back ends then poll.  The library accepts or refuses the server's certificate
(`Verdicts`): only if one is stored, and not always then.

### Bivariant, PollValues, FramebufferMoves, I2cInitiator

In `Bivariant` an object is its tag and the state of both members of the union; it
remembers whether a member was made over a living one, or was read, assigned to or
destroyed when it was dead.  `PollValues` gives a client two `Poll` objects to make,
copy, move, assign (also to themselves) and destroy in any order, and follows the
state of each echo's future from the one that `Echo` returns into its task.

`FramebufferMoves` has a `Framebuffer` in each variable and parameter through which
`terminal_display`'s frame goes, and an application that may also assign over a framebuffer
it still has, or lose it; the pool cannot tell.

In `I2cInitiator` each call of the SDK is two steps, its start and its end, and each
thread calls what it likes.

`Libraries` puts these, the pool and `Canvas` side by side.  They share nothing, so each
behaviour uses one of them, `library`, and the rest stays as it was made; each keeps the
fairness and the properties of its module.

### BringUp, Superloop, DisplayLoop, HostDisplay, Applications

`BringUp` makes each board's calls in order.  A call is described by what it needs,
gives and takes away; on clocks, derived rates and interrupts it acts.  `Superloop`
is the iteration of `rpc` with a UART that holds one byte: an iteration without
output is shorter than a byte, output is longer.  `DisplayLoop` runs on a
millisecond counter that wraps; `since` counts the true time since the last report.  `HostDisplay` is the window: texels, textures,
filter, scale and mouse.  `Applications` runs them one after the other.

## 3. Runs

All `pass` runs explore their whole state space.

| Run | Module | Instance | Properties and what they show |
|---|---|---|---|
| `Libraries` | `Libraries` | pool: 1 thread, 5 buffers, in order; drawing: 7x6 points, radius to 4, shapes to a point off the edge, texts of 2 characters; futures: 2 polls, 2 values, 2 requests; bus: 2 threads; moves: 3 buffers, both kinds of driver | pool: `ExclusiveUse`, `Conservation`, refinement of `FifoPool` (`ImplementsFifoPool`); drawing: shapes agree with their references and a frame is laid out (`DrawingInv`), refinement of `TextGrid` (`ImplementsTextGrid`); one member of a union alive, each object what it was meant to be, one call a request (`FuturesInv`); transfers on the bus whole and truthfully reported (`BusInv`); no buffer shared, none lost but by the application (`MovesInv`); `NothingStops`: every call of the pool and of the bus returns, each sprite page comes round |
| `PoolThreadSafe` (violation) | `MCFramebufferPool` | 2 threads (symmetric) | two threads can be given one buffer, though the header calls the function thread-safe |
| `PipelineTwoBuffers` | `PicoOutput` | 4x3 pixels, 2 buffers, frames modulo 4, pixels of 6 bits, a queue of 3 | frames whole, in order, once (`ShowsFramesInOrder`, `FrameHeldWhileSent`); rows doubled (`RowsDoubled`) and the right bits clocked out in the right D/CX mode (`PanelReads`); callback last and its slot free (`CallbackAfterWholeFrame`, `CallbackSlotFree`); no buffer lost, queues within bounds (`OutputInv`); buffers back in order (`ReleasesInOrder`); the screen never freezes (`FramesKeepComing`) |
| `FbdevThreads` | `FramebufferDevice` | 2 threads, 2 buffers, `init`, `enableLayer` and `disableLayer` may fail | `DeviceInv`: assertions hold, one buffer out, none lost (`NoBufferLeaks`) or in two places (`NoBufferTwice`), no null; refinement of `FifoPool` |
| `FbdevDisable` (violation) | `FramebufferDevice` | 1 thread | after a successful `Enable`, `Disable` leaves the layer on |
| `MipiPipeline` | `MipiDisplay` | 2 buffers, frames of three packets, every vendor call may fail | packets in order and whole or failure reported (`DsiInv`); slots together, no slot or null assertion fails (`CallbacksInv`); only whole frames sent (`SendsWholeFrames`); frames keep coming |
| `SpiBoards` | `SpiDisplay` | 4x4 panel, bands of 2 rows, framebuffers narrower, equal, wider and taller, transfers fail | the panel shows the frame, no pixel is sent beyond the glass, word sizes agree (`PanelShows`); frames keep coming |
| `TextWindow` | `AnsiDecoder` | 2x2 characters, 1 letter, vector of 6 | the text shown, in its colours (`DecoderInv`); refinement of `Terminal` |
| `AsyncBench` | `AsyncEcho` | 3 requests | no echo lost, no future polled after it is ready (`EchoInv`); the one way in which main's assertion fails (`AbortsOnlyEarly`); both programs end (`MainEnds`) |
| `TlsExample` | `TlsClient` | 3 records of 3 bytes, buffers of 5 and 2, 2 certificates | certificates stored, dialogue in turn, response in order (`DialogueInv`) and complete (`ResponseArrives`); after a break what had arrived is given out, and a failing write stops the client or it polls in vain (`BreakSettles`) |
| `TlsHandshakeFails` (violation) | `TlsClient` | 1 record, 1 certificate | a connection lost before the last flight leaves BoringSSL's `Handshake` trying for ever |
| `Applications` | `MCApplications` | 9 pairs of application and board; counter wraps at 18 | order of bring-up (`BringUpInv`), clocks and rates (`ClocksInv`); packets served (`SuperloopInv`); LED blinks (`Blinking`); times and reports (`LoopTimes`); the window (`HostWindow`) |

Properties whose names end in `Inv`, and `LoopTimes`, `HostWindow` and `PanelShows`,
are conjunctions of named parts: the types of the module and the statements that
belong together.  Each part has a definition and a comment of its own, and
mutations of its own under the name of the conjunction.

**Why the bounds are enough.**  The pool's index logic depends on the number of
buffers only through the wrap; 5 and 2 cover odd and even and the proofs cover
the rest.  The pusher's arithmetic distinguishes the first row, pairs of rows and
the last row; a height of 3 has each, and the proof covers all heights.  The PIO
programs treat a pixel as two halves and a word as two pixels; three bits a half
show every loop's first, middle and last round, and a queue of 3 can be full,
partly full and empty while a line has 4 words.  Frame numbers are counted modulo
more than could be confused: on the Pico the frame drawn is ahead of the frame
shown by at most the number of buffers, on the other boards by at most one.  A
frame of 10 bytes with packets of 4 has a first, a middle and a shorter last
packet; a panel of 4 rows in bands of 2 a first and a last band.  A window of 2
by 2 has a first and a last row and column, and the vector of 6 places fills up
within two colour sequences as the code's ten do within a few.  Shapes of up to 4
points on 7x6 reach each octant and cross each edge.  Three requests let one be
queued, one run and one be done.  Records of 3, a receive buffer of 5 and reads of
2 share no divisor, so every alignment of record, buffer and read occurs.  A
counter that wraps at 18, a report every 4 and steps of up to 2 meet the wrap at
every phase of the loop.  Of two threads on the I2C bus one can wait while the other takes turns;
two `Poll` objects are all that one operation names, and a third would only hold a
copy; three buffers fill both of the application's variables and the driver at once.

**Deadlock** is checked except where the system may stop: a closed device
(`Fbdev*`), a task whose initialisation or assertion failed (`MipiPipeline`,
`SpiBoards`), the text task, which stops where a full vector is an error
(`TextWindow`), a program that ends (`AsyncBench`, `Tls*`), and in `Libraries` a text at
the bound of its length and an application that has lost every buffer of its pool.

**Fairness.**  The main loop is a loop that never exits and runs whenever it is
not blocked; a started DMA or DSI transfer ends; the PIO machine's clock runs; a
pending, enabled interrupt is taken; the panel keeps raising its tearing-effect
line; both threads of the benchmark are scheduled; bytes that were sent over the
network arrive or the connection breaks; a client of the pool returns what it
took, as `framebuffer_pool.h` demands.  These are weak fairness on whole components
of the next-state relation, never on one branch of a choice.  `Libraries` adds strong
fairness of taking the mutex, since FreeRTOS gives one that is released to a thread that
waits for it.  No fairness is
assumed of `Call...` actions of clients that need not call, of failures, of the
user, or of bytes on the UART.  `LoopTimes`, `HostWindow`, `PanelShows`
and `PanelReads` state invariants and what a step may do, and need none.  In `MipiPipeline` and `SpiBoards` a frame may be lost for good if transfers
fail again and again or the task stopped on a failed write: `FramesKeepComing`
says so.

## 4. Proofs

Assumptions on constants are the named `ASSUME`s of each module; TLC evaluates
them in every run.  All theorems hold for all values of the constants that
satisfy them, so for every number of buffers, threads and requests and every size
of frame, packet, record and buffer.  Where a theorem assumes more, its statement
says so; three such assumptions occur:

* `PicoSetup`: pixel doubling on, channel 0 claimed, even width.  All Pico
  configurations of the repository are of this kind; without doubling the
  pipeline stops at its second frame (section 5).
* `~MayReopen`: the device is not initialised again after `Close`.  No application
  closes it; the other case is in section 5.
* `EnoughBuffers`: two framebuffers or more, or no failing `setFrameBuffer`.  The
  RT595 has two (`common_mimxrt595.cc:48`); section 5 says what happens with one.

Each proof rests on an inductive invariant whose name ends in `IInv` (`CountInv`,
`ClientInv` and `PusherInv` of the pool and the pusher, `LoopInv`, `RpcInv` and
`WindowInv` of the applications, `GridOK` of the text window), stated with its parts before the proofs.

**FramebufferPoolProofs.**

* `BuffersConserved`, `PoolTypeCorrect`: for any finite set of threads and any
  order of release, the free units, the claims of threads inside
  `GetFramebuffer`, and the buffers out add up to the size of the pool, so the
  semaphore never exceeds it.  The invariant `CountInv` is the types with
  `framebuffer_semaphore_ \in Nat` and `Conservation`.
* `SingleClientExclusive`, `SingleClientValid`, `SingleClientFifo`: for a single
  thread and release in order, no buffer has two users, each index is valid, and
  the pool implements `FifoPool`.  `ExclusiveUse` is not inductive: it does not
  say that the *next* index is free.  `ClientInv` says that the buffers out are
  exactly those before the frontier of the round robin, and gives the index at
  each step of the call.

**PicoOutputProofs: the pusher.**  Under `PicoSetup`: `RowsAlwaysDoubled`,
`AssertionNeverFails`, `CallbackIsLast`, `FrameHeld` and `PusherTypeCorrect`.  The
invariant `PusherInv` ties the three parties together: while a transfer or its
interrupt is outstanding the scanline is at most the height, which keeps the
thread in its wait, and the number of pixels sent is a function of the scanline;
when nothing is outstanding the callback has run.  `NextRowsDoubled` is the
arithmetic core: after an odd number of rows, the two rows from the scanline on
complete one pair and begin the next.

**PicoOutputProofs: the pipeline** is compositional.  `RunsPusher` says that the pipeline only
ever makes steps of `PixelPusher`, because it never writes a framebuffer that the
pusher holds; `RunsPoolInOrder` that it only makes steps of a pool whose single
client returns buffers in order.  So the theorems above hold in it, and their
invariants are parts of `DisplayIInv`.  The rest is who holds what: the buffers
out of the pool are, oldest first, the one being sent, the one in
`WriteFramebuffer` and the one of the main loop (`NoBufferLost`), and the number
of frames drawn and not shown is the number of whole frames held.  The two need
each other: the pool hands out a free buffer only if releases are in order, they
are in order only if the pusher holds the oldest, and a frame is not overwritten
only if the pool hands out a free one.  From this follow `FramesShownInOrder`,
`BuffersReleasedInOrder`, `NoBufferEverLost` and `DisplayTypeCorrect`.

**PicoOutputProofs: the wire.**  `OutputRunsDisplay`: machine, queue and set-up add no
behaviour, so all of the above holds down to the wire.  `OutputCorrect`:
the queue never overflows, the machine stays within its programs and its registers
within their width, and the DMA never reads past its transfer.  The last is why
the invariant says that pixels go out only after the set-up and by halfwords in
pairs, and why it needs the width to be even.

`PanelSeesPixels` proves `PanelReads` for every width of a pixel, of a command and
every depth of the queue.  `PanelIInv` accounts for all bits that are due.  Once
the machine runs the second program they are `Owed`, which gives for each of its
seventeen addresses the bits it has still to send of the word it pulled (so many of
the shift register, then the pixels kept in `x` and `y`), then the words in the
queue (`Rest`), then the pixels the DMA has not moved (`Unfed`).  Each instruction
leaves that sequence alone but for the jump, on which the clock rises and the panel
takes its first bit; a word moved passes from the last part to the second, and a
transfer extends the last.  Before that (`AtCommand`) the queue and the register hold
the command or nothing, and the stall flag tells the thread the truth: when it sees
the flag after the byte, the last bit has been read.  The conditional jump's test and
the three counts at which the register is reloaded are what make this an argument
about addresses and counts together.  `NextPixel` and `TwoPixels` unfold the bits of a sequence of
pixels from its front by the division lemmas of `Induction`.

**MipiDisplayProofs: the device.**  `DeviceCorrect` (all of `DeviceInv`) and
`DeviceImplementsFifo`.  `DeviceIInv` says where the semaphore's one unit is: free,
with a thread between taking it and handing its buffer over, or with the
controller; and that the callback slot is full exactly in the last case.
`NoBufferTwice` is what the refinement needs beyond the safety of the slot.

**MipiDisplayProofs: the pipeline.**  `MemWriteCorrect`: `DsiInv` for areas and packets of all
lengths and every pattern of failures.  `DsiIInv` gives the packets sent as a
function of the bytes that remain; the ongoing flag is set exactly while a packet
is under way.  `CallbacksCorrect` and `WholeFramesSent`: `MipiIInv` adds which of the
three slots, the waiting picture and the transfer belongs to which step of the
main task, and counts the buffers that failures have lost.

**AsyncEchoProofs.**  `EveryEchoAnsweredOnce` and `CallbackAbortsOnlyEarly`, for any
set of requests and both programs.  `EchoIInv` says that each request has exactly
one owner from the time it is posted: a task in the queue, a task being run, or its
answer.  `NoEchoLost` is not inductive because it also counts a task that has done
its part and only has to return.

**TlsClientProofs.**  `DialogueCorrect`: `DialogueInv` for all three back ends, any
sizes, any pieces and a break at any point.  `ReadsInOrder` says nothing of the
bytes under way, so `BytesInv` does: what the caller was given, the decoded bytes,
the incomplete record and the receive buffer are, one after the other, the bytes
read from the transport.  `SpokenInv` gives what was said at each step and what
is prepared in picotls' buffer.

**ApplicationsProofs.**  The loops of the applications, within `Applications`, whose
other steps leave each of them alone.

* `TimesOfTheLoop`: `LoopTimes` for a counter of any width, any number of samples and
  steps of any length below an eighth of a turn (`LoopAssumption`; the code's
  counter turns in seven weeks).  The part about the reports says what happens in every
  second, that in which the counter wraps included, where the code's comparison
  of sums fails (section 5).  `LoopInv` says where each time of a frame is
  while the frame is under way: the two rings of samples are of one length, or
  that of the drawing is one ahead, and each pair is the time its frame took.
  The reports' averages are quotients of sums, so the proof needs that sums of two
  sequences add up, for sequences of every length.
* `RpcIsServed`: `SuperloopInv` for any packets, none sent twice, and any
  addresses.  `RpcInv` says how far the loop has got with the bytes sent: byte `h` is the last
  that the decoder was given, the register holds the next, and every byte between
  the register's and the last to arrive is of a packet counted lost.  `Collects`
  says that what the decoder holds is at most two bytes for each packet begun and
  that what was served comes before them; `Keeps` that a packet that lost nothing
  is in the decoder byte by byte until its flag, and served from then on.  A frame
  may join bytes of two packets that lost theirs; `WholeIsLater` shows that it
  passes the check only if both are of one packet, later than all that were served.
* `WindowOfTheHost`: `HostWindow` for every size of window, framebuffer and palette,
  scale and position of the mouse (`HostAssumption`), whatever the user does.
  `WindowInv` says which texels can be set and to what, and that the last texture
  has the filter the driver takes for the old one, which is the current one while
  a frame is rendered.  `ColoursConvertBack` is the arithmetic: of each of the 65536
  colours, the eight-bit channels convert back to it.

**AnsiDecoderProofs.**  For windows of every size, every set of letters, colours and
other parameters of up to three digits, and vectors of two places or more
(`DecoderAssumption`; the code's have ten).

* `LogIsShown`: `DecoderInv`.  The invariant `DecoderIInv` says, for each state of the
  decoder, what can still be to come of the piece being written: a letter, an escape
  and its letter, or the rest of a sequence.  In a sequence the digits read and those
  to come make up the parameter, and the parameters read and to come are those
  that the message asks for, so that the colours at its end are those of the history.
  The vector of parameters never fills up; that of buffered characters does, because only
  an error empties it, so that an error after a sequence would show the sequence: the
  messages have none then, nor a sequence after a stray escape (`Stray`, `Select`).
* `WindowIsTerminal`: `ImplementsTerminal`, where lines are cut and not wrapped
  (`~character_wrap_enabled_`, as in the program; with wrapping a line would not be
  cut).  `GridOK` says that each row holds its characters from its first column on, the
  row of the cursor exactly as many as the cursor's column, and that the rows below
  are cleared.  `NewlineShown` and `StoreShown` then say that drawing a
  character does to the rows what `Terminal!Written` does to the lines, and
  `DrawsShown` says so of any number of characters.

Both speak of folds.  `FoldLeft` takes its step as a parameter, which the prover
cannot instantiate, so `DrawFolds`, `ColourFolds` and `WriteFolds` unfold it for
each of the three steps into the recursive function `FoldOf` over sets of
positions, and `FoldStep` gives its value at each beginning of the sequence.

**Induction.**  The prover cannot instantiate the library's induction rules, whose
hypothesis is a predicate.  `SetInduction` states induction for a set, and follows
from the least element of a set of naturals, which the library gives without a
predicate.  With it `SumSteps` and `SumOfSums` speak of the recursive function that adds a
sequence up.

**Only model-checked.**

* Liveness (`NothingStops`, `FramesKeepComing`, `MainEnds`, `BreakSettles`,
  `ResponseArrives`, `Blinking`): fairness is outside the
  prover's reach.
* `DrawingInv`: the loops of lines and circles are recursive functions with an error
  term, compared with distances; for every size that is nonlinear arithmetic.
* `BringUpInv`, `ClocksInv`, and the layout of a frame in `DrawingInv`: statements about
  fixed boards and a fixed screen, without a parameter; the run is exhaustive.
* `ImplementsTextGrid`, `PanelShows`, `BusInv`, `FuturesInv`,
  `MovesInv`: not proved.

## 5. What the model found

The `violation` runs show disagreements between the code and its documentation;
each is under `findings`:

1. `framebuffer_pool.h:66` calls `GetFramebuffer` thread-safe; two threads past
   the semaphore can load the same index (`PoolThreadSafe`).
2. `Enable` sets `enabled_` on failure rather than success, so `Disable` leaves
   the layer on (`FbdevDisable`).
3. `boringssl`'s `BioRead` sets the retry flag and nothing clears it
   (`boringssl_backend.cc:26`), so after the first wait a failing write looks like a
   retry and `Handshake` never returns the negative value that
   `backend_interface.h:44` promises (`TlsHandshakeFails`).

The following came up while modelling.  The models either show them when a
constant is changed, as noted, or name them as an exception in the property they
would break.

*Display stack.*

* With pixel doubling off (`PixelDouble = FALSE` in `PixelPusher`) the interrupt
  is never enabled, the completion callback never runs, and the second
  `WriteFramebuffer` fails its assertion (`pixel_pusher.cc:189`).
* A failed `setFrameBuffer` releases the semaphore and loses the buffer
  (`framebuffer_device.cc:131`), so that `GetFramebuffer` later returns a null pointer
  instead of blocking, against `framebuffer_device.h:56`.  It also releases the semaphore
  before it empties the callback slot, so with two threads the other's write can fail
  its assertion.  In `MipiDisplay` the application survives
  one failure, that of the black frame which `Init` writes and whose status it ignores;
  with a single buffer the pool is empty after it, and the next frame is null.
* `Init` after `Close` (`MayReopen = TRUE`) gives the device's semaphore a second
  unit, against the comment at `framebuffer_device.cc:39`.
* One thread that releases out of order (`InOrder = FALSE`) is given a buffer still
  in use; two threads can push the pool's index past the last buffer.
* `Display::ReleaseFramebuffer` returns before the transfer has ended on the Pico,
  though `display.h:43-45` says that it blocks.
* On the STM32 boards both SPI initiators initialise the one peripheral once only,
  and the word size is that of the last to do so.  A board that resized frames
  would alternate between them and send pixels as bytes; none does, and `SpiBoards`
  takes resizing only with the Arduino initiator.
* `DisplayDriverST7735::WriteRow` is an assertion that fails, so that panel cannot
  be resized (`display_driver.cc:333` of the driver).
* The drivers' `Init` and the commands of `WriteRow` ignore the status of each
  transfer: a panel that missed one is used as if it were set up, and `ShowsTheFrame`
  says nothing of runs in which one failed.
* `WriteRow` opens a window one column wider than the glass when a row reaches its
  edge (`display_driver.cc:483-484` of the ILI9341, `:229-231` of the ST7789).  It does
  no harm as long as no buffer holds more pixels than are left of the row, which is
  what `PixelsOnGlass` checks.
* `GetSpiSettings` takes a phase for the other edge than the STM32's `GetPhase`, so the
  same `Config` is clock mode 2 on the STM32 and mode 3 on an Arduino.  The panels
  read the bits at the rising edge and manage with both.
* On the Pico with PIO the status of the driver's `Init` is ignored
  (`common_pico.cc:252`).

*Display loops.*

* "Every second make a log message" (`main.cc:503` of `terminal_display`, also
  `32blit_demo`): the test compares the counter with a sum that wraps.  If the sum wraps
  first, every frame reports until the counter has wrapped too; if the counter steps
  over a sum just below the wrap, none reports for 49 days.  `ReportsWhenDue` says
  exactly when.

*Drawing.*

* `TextArea` scrolls by whole glyphs; on a framebuffer whose height is not a
  multiple of the glyph it loses part of a line (`text_area.cc:147`), and a
  `SetFont` to another size would misplace the line's start (`:67`).
* `RotateIndexPingPong` reads past the sheet when it has one page, or after
  `SetIndex` to the last (`sprite_sheet.cc:31`).
* The banner of `terminal_display` is 324 points wide on a display of 320
  (`main.cc:319`); nothing shows since the last column of a glyph is blank.  The
  log window has nine rows and room for eight and a half; the last is blank
  between messages.
* `DrawCharacter` reports a width of 0 for a character outside the font
  (`draw.cc:232`), which would shift the rest of a row of the log.

*Text window.*

* Only an error empties the decoder's buffered characters (`ansi.h:179-184`), so an
  escape without a sequence shows, before itself, what is left of the sequences
  before it.
* After an error the state stays that of an escape (`ansi.h:38-45`), in which an
  ordinary bracket begins a sequence and hides the text up to its end.

*Echo benchmark.*

* The callback program's main asserts the result when its queue is empty, which it
  can be while the work thread is in the middle of the call
  (`callback_executable.cc:42-44`): `AbortsOnlyEarly` says that this is the only way.
* The poll program always fails its assertion: `RemoteEcho::Echo` returns a default
  `EchoFuture` (`poll_executable.cc:53`), so the response is empty.

*TLS example.*

* The Teensy transport's `Read` returns 0 when the connection is gone, like an absence
  of data (`teensy_ethernet.cc:58-61`), so `Read` of every back end polls for ever instead
  of failing, against `backend_interface.h:50`: the exception in `BreakSettles`.
* `picotls` takes the number of certificates in a PEM for a status: none is
  success, and some is a failure after which the text is tried as DER
  (`picotls_backend.cc:173`).  Its `Handshake` ignores short writes (`:81-87`), its
  `Write` never resets the offset of its buffer (`:110-115`) and returns 0, against
  `backend_interface.h:46`; `LoadCrl` without certificates dereferences null (`:195`).

*Boards.*

* `targets/stm32f769i_disc0_stm32cube/boot.cc:84` says that the clock is set to 180 MHz; it is
  200 MHz.  `HSE_VALUE` there is that of another board
  (`stm32f7xx_hal_conf.h:21-22`), so that `SystemCoreClock` is 64 MHz and every
  rate computed from it is wrong: `RatesHold` leaves this board out.
* On the Pico `32blit_demo` raises the clock after the scheduler has started
  (`common_pico.cc:211-216`); the kernel's tick is then too fast.
* On the host the framebuffer's width is a build argument but the window's is fixed;
  `WindowShowsFrame` holds for narrower and wider ones.  `RecreateLcdTexture` never
  deletes the old texture.  With the null driver the pool has no buffer and the
  first `GetFramebuffer` blocks for good.
* The RT595's driver enables the tearing-effect interrupt and powers the panel before
  the layer has its callback (`device.cc:262`); no frame is pending then, so the
  handler has nothing to send.
* `common_arduino.cc:99-104` uses fields of a configuration which no longer exist.
* `sys_io_baremetal.cc:113` would overflow above 171 MHz; it runs at 16 MHz.

The limits of the pool, of the pixel pusher and of the MIPI device do not occur in
the applications of the repository, which have one drawing thread, never close the
device, double their pixels, and do not rely on blocking; those of the SPI panels
and of the boards do.

## 6. Plan

Done: pool, pixel pusher and Pico pipeline down to the wire, all with proofs; MIPI
device, DSI write and RT595 pipeline, with proofs; SPI panels and resize; text
window with decoder, with proofs; drawing; echo and TLS, with proofs; applications from reset,
on boards and host; I2C bus, unions and futures, moves of framebuffers.  To come, in this order:

1. `TextArea`: `ImplementsTextGrid` for every font and framebuffer.
2. `SpiDisplay`: `PanelShows` for every size of band and panel.
3. `I2cInitiator`: `BusInv` for any number of threads.

## 7. Not modelled

* The wording of logs and reports, the pixels of fonts and sprites, palettes: data
  of which the properties tell nothing apart.  The rain's particles in
  `32blit_demo`.  The frame counters that a report resets.
* `irq_fire_count`, which is never read; `PixelPusherRp2040Pio::Clear` and
  `VsyncCallback`, which nothing calls; the PIO's chip select.
* The SmartDMA build of the MIPI device beyond its set-up: it hands the whole write
  to the SDK.
* The panels' offsets, gamma and power settings beyond the commands that make them
  show something; resizing on the STM32 and on the ST7735 (see section 5).
* SPI reads, which no driver makes, and the chip select of the one panel.
* The decoder on a `[` that follows a stray escape, and on sequences mixed with stray
  escapes: the text owed is not defined there (section 5).
* How long a delay lasts that counts instructions: `delay.cc:22-24` of
  `pw_spin_delay_stm32f429i_disc1` calls it a rough estimate.
* Two threads that draw on the MIPI device while writes fail: the run with two threads
  leaves failing writes out, the pipeline with failing writes has one thread.
* The channel of the DMA being another than 0 (`SetPixelDouble` acts on the static before it
  is set): an assumption of the proofs, not a property.
* `cur_val_` of the decoder overflowing on a parameter of ten digits, and what a full
  `pw::Vector` does beyond ignoring the push or asserting.
* The Arduino boards' application loop, which does not compile (section 5); the
  Pico's boot code, which has an `#error`; the Nucleo boards, which have no
  application; the null host display; `strings`, a demonstration without state.
* Memory ordering: the Pico and the RT595 run the display on one core, so an
  interrupt sees the thread's writes in program order.
* Build files, Python tools and the test runner, third-party code.
