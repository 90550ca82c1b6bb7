----------------------------- MODULE HostDisplay ----------------------------
(***************************************************************************)
(* The display of the host build: pw_display_driver_imgui draws a          *)
(* framebuffer as a texture in a window whose user scales it, switches its *)
(* filter, points at it and closes it, all between two frames of the       *)
(* application.  The libraries' calls that keep no state of ours (the dock *)
(* space, the demo window, styles and texts) are left out.                 *)
(***************************************************************************)
EXTENDS Integers, Sequences

CONSTANTS
  kDisplayWidth, kDisplayHeight,
  FramebufferWidths,   \* DISPLAY_WIDTH is a build argument, kDisplayWidth is not
  Palette,             \* a sequence of RGB565 colours that frames are drawn in
  Scales,              \* of lcd_texture_display_scale, 1..10 in the code
  Cursors              \* where the mouse may be, relative to the image

Rgb565 == {v \in Nat : v < 65536}

ASSUME HostAssumption ==
  /\ kDisplayWidth \in Nat \ {0} /\ kDisplayHeight \in Nat \ {0}
  /\ FramebufferWidths \subseteq Nat \ {0}
  /\ 3 \in Scales /\ Scales \subseteq Nat \ {0}
  /\ Palette \in Seq(Rgb565) /\ Palette # << >>
  /\ Cursors \subseteq Int \X Int

VARIABLES
  fbWidth,         \* the pool's framebuffer has kDisplayHeight rows of these
  hostAt,          \* where the main loop is
  drawing,         \* the frame in the framebuffer, modulo Len(Palette)
  lcd_pixel_data,  \* the texels by their index, 0 where none was set
  gl,              \* the textures: filter and pixels, in the order they were made
  lcd_texture,     \* the driver's
  control,         \* lcd_texture_display_scale, ..._mode_nearest and the old one
  mouse,           \* touchscreen_mouse_position
  window           \* the image that the last swap showed, and where the mouse was

hostVars == <<fbWidth, hostAt, drawing, lcd_pixel_data, gl, lcd_texture, control, mouse, window>>

Columns == 0 .. kDisplayWidth - 1
Rows == 0 .. kDisplayHeight - 1
Texels == 0 .. kDisplayWidth * kDisplayHeight - 1

\* round(255.0 * v / top)
Scaled(v, top) == (2 * 255 * v + top) \div (2 * top)
ColorRGBA(rgb565) ==
  [r |-> Scaled(rgb565 \div 2048, 31), g |-> Scaled((rgb565 \div 32) % 64, 63),
   b |-> Scaled(rgb565 % 32, 31), a |-> 255]
ToRgb565Of(c) == (c.r \div 8) * 2048 + (c.g \div 4) * 32 + c.b \div 8
Unset == [r |-> 0, g |-> 0, b |-> 0, a |-> 0]

\* What the application draws: every pixel of a frame differs from its
\* neighbours and from that of the frame before.
PixelOf(frame, x, y) == Palette[((frame + x + kDisplayWidth * y) % Len(Palette)) + 1]
GetPixel(x, y) == x < fbWidth /\ y < kDisplayHeight

HostGoto(from, to) == hostAt = from /\ hostAt' = to

InitHost(widths) ==
  /\ fbWidth \in widths
  /\ hostAt = "init" /\ drawing = 0
  /\ lcd_pixel_data = [t \in Texels |-> Unset]
  /\ gl = << >> /\ lcd_texture = 0
  /\ control = [scale |-> 3, nearest |-> TRUE, old |-> TRUE]
  /\ mouse = [pressed |-> FALSE, at |-> <<0, 0>>]
  /\ window = << >>

Filter(nearest) == IF nearest THEN "NEAREST" ELSE "LINEAR"

\* A new texture; the one before it is never deleted. Only the two last are
\* kept here.
SetupLcdTexture ==
  /\ gl' = Append(IF Len(gl) = 2 THEN Tail(gl) ELSE gl,
                  [filter |-> Filter(control.nearest), pixels |-> lcd_pixel_data])
  /\ lcd_texture' = Len(gl')

\* The end of Init, which glfw and the window's creation may fail before.
InitTexture ==
  /\ HostGoto("init", "get")
  /\ SetupLcdTexture
  /\ UNCHANGED <<fbWidth, drawing, lcd_pixel_data, control, mouse, window>>

\* The pool has one framebuffer, which the last callback returned.
DrawHostFrame ==
  /\ HostGoto("get", "write")
  /\ drawing' = (drawing + 1) % Len(Palette)
  /\ UNCHANGED <<fbWidth, lcd_pixel_data, gl, lcd_texture, control, mouse, window>>

MutantRecreate == control' = [control EXCEPT !.old = control.nearest] /\ UNCHANGED <<gl, lcd_texture>>
RecreateLcdTexture ==
  IF control.old # control.nearest
  THEN control' = [control EXCEPT !.old = control.nearest] /\ SetupLcdTexture
  ELSE UNCHANGED <<control, gl, lcd_texture>>

MutantSetPixels ==
  lcd_pixel_data' = [t \in Texels |->
    LET x == t % kDisplayWidth
        y == t \div kDisplayWidth
    IN  ColorRGBA(PixelOf(drawing, x % fbWidth, y))]
\* Those the framebuffer has; the others keep what they were.
_SetTexturePixel ==
  lcd_pixel_data' = [t \in Texels |->
    LET x == t % kDisplayWidth
        y == t \div kDisplayWidth
    IN  IF GetPixel(x, y) THEN ColorRGBA(PixelOf(drawing, x, y)) ELSE lcd_pixel_data[t]]

WriteTexture ==
  /\ HostGoto("write", "render")
  /\ RecreateLcdTexture
  /\ _SetTexturePixel
  /\ UNCHANGED <<fbWidth, drawing, mouse, window>>

\* The texel the image has at a cursor, rounded towards minus infinity.
MutantMouseAt(cursor) ==
  LET Cut(n) == IF n < 0 THEN - ((- n) \div control.scale) ELSE n \div control.scale
  IN  <<Cut(cursor[1]), Cut(cursor[2])>>
MouseAt(cursor) == <<cursor[1] \div control.scale, cursor[2] \div control.scale>>

UpdateLcdTexture == gl' = [gl EXCEPT ![lcd_texture].pixels = lcd_pixel_data]

\* The image is drawn before the settings below it may change. Closing the
\* window ends the program after the swap, and so no callback comes.
RenderHost ==
  /\ hostAt = "render"
  /\ UpdateLcdTexture
  /\ \E cursor \in Cursors, pressed \in BOOLEAN :
       /\ mouse' = [pressed |-> pressed, at |-> MouseAt(cursor)]
       /\ window' = [texture |-> gl'[lcd_texture], scale |-> control.scale, cursor |-> cursor]
  /\ \E s \in Scales, n \in BOOLEAN : control' = [control EXCEPT !.scale = s, !.nearest = n]
  /\ \E closes \in BOOLEAN : hostAt' = IF closes THEN "exited" ELSE "callback"
  /\ UNCHANGED <<fbWidth, drawing, lcd_pixel_data, lcd_texture>>

\* Options, Quit: between the events and the image.
Quit ==
  /\ HostGoto("render", "exited")
  /\ UpdateLcdTexture
  /\ \E pressed \in BOOLEAN : mouse' = [mouse EXCEPT !.pressed = pressed]
  /\ UNCHANGED <<fbWidth, drawing, lcd_pixel_data, lcd_texture, control, window>>

\* The callback returns the framebuffer to the pool.
HostCallback ==
  /\ HostGoto("callback", "get")
  /\ UNCHANGED <<fbWidth, drawing, lcd_pixel_data, gl, lcd_texture, control, mouse, window>>

HostStep == InitTexture \/ DrawHostFrame \/ WriteTexture \/ RenderHost \/ Quit \/ HostCallback
Exited == hostAt = "exited" /\ UNCHANGED hostVars

HostTypeOK ==
  /\ hostAt \in {"init", "get", "write", "render", "callback", "exited"}
  /\ lcd_texture \in 0 .. Len(gl) /\ Len(gl) <= 2
  /\ control.scale \in Scales
  /\ \A k \in DOMAIN gl : DOMAIN gl[k].pixels = Texels

-----------------------------------------------------------------------------
(* When the callback gets the framebuffer, the window shows its pixels,     *)
(* each of the very colour (the one that converts back to it), whatever the *)
(* user did to the texture meanwhile; a framebuffer narrower than the       *)
(* window leaves the rest as it was (display_driver.cc:395-413).            *)
WindowShowsFrame ==
  hostAt = "callback" =>
    \A x \in Columns, y \in Rows :
      LET c == window.texture.pixels[y * kDisplayWidth + x]
      IN  IF x < fbWidth THEN c.a = 255 /\ ToRgb565Of(c) = PixelOf(drawing, x, y)
          ELSE c = Unset

(* A frame is filtered as the settings were when it was written, although   *)
(* the settings change in the frame that shows them and a texture keeps the *)
(* filter it was made with (display_driver.cc:229-235, 358).                *)
FilterFollows ==
  [][hostAt = "render" /\ hostAt' = "callback" =>
       window'.texture.filter = Filter(control.nearest)]_hostVars

(* The mouse is over the pixel that is reported, and off the image reports  *)
(* none of its pixels (display_driver.cc:337-340, 362-363).                 *)
MouseOnPixel ==
  [][hostAt = "render" /\ hostAt' = "callback" =>
       \A d \in {1, 2} :
         /\ mouse'.at[d] * window'.scale <= window'.cursor[d]
         /\ window'.cursor[d] < (mouse'.at[d] + 1) * window'.scale]_hostVars

(* The window shows the frames, and does what its user says.                *)
HostWindow == [](HostTypeOK /\ WindowShowsFrame) /\ FilterFollows /\ MouseOnPixel
=============================================================================
