--------------------------- MODULE MCApplications --------------------------
\* The packets on the wire: two for the server around one for another address;
\* the boards each application is built for and modelled on.
EXTENDS Applications
Sent == << [id |-> 1, address |-> "rpc"], [id |-> 2, address |-> "log"], [id |-> 3, address |-> "rpc"] >>
On(name, boards) == [app : {name}, board : boards]
Built ==
  On("rpc", {"stm32f769i_disc0"})
    \cup On("blinky", {"stm32f769i_disc0_stm32cube", "pico", "stm32f429i_disc1"})
    \cup On("terminal_display", {"mimxrt595_evk", "stm32f429i_disc1_stm32cube", "host"})
    \cup On("32blit_demo", {"pico", "pico_pio"})
\* Black, white, and two colours with odd channels; beside, on and beyond the image.
Colours4 == << 0, 65535, 35361, 2080 >>
MousePositions == { <<-1, -2>>, <<0, 1>>, <<2, 5>>, <<9, -1>> }
=============================================================================
