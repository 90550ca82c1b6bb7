------------------------------- MODULE BringUp ------------------------------
(***************************************************************************)
(* From reset to an application's loop: the boards' boot hooks, main, the  *)
(* first task and Common::Init, as the sequence of calls each makes.  A    *)
(* call is known by the facilities it needs, those it gives and those it   *)
(* takes away; on the clocks, the rates derived from them and the          *)
(* interrupts it acts as the call does.                                    *)
(* A call that can fail does so at any time, and ends where the code       *)
(* leaves it: in PostMain's endless loop or in a failed check.             *)
(***************************************************************************)
EXTENDS Integers, Sequences

CONSTANT Programs     \* of the applications and the boards they run on

VARIABLES
  program,   \* [app, board]
  calls,     \* calls made since reset
  at,        \* "boot", "loop", "halted" or "crashed"
  up,        \* facilities
  early,     \* calls that were made before something they need was up
  cpu,       \* MHz of the PLL and the core, overdrive, wait states, SystemCoreClock
  rates,     \* core clock a device's divider was computed for, 0 if it was not
  irq        \* enabled interrupts and their priorities

bringVars == <<program, calls, at, up, early, cpu, rates, irq>>

app == program.app
board == program.board

Call(name, needs, gives) ==
  [name |-> name, needs |-> needs, gives |-> gives, takes |-> {}, fails |-> "never",
   clock |-> "none", rate |-> "none", enable |-> {}, prio |-> << >>]
Fails(name, needs, gives, how) == [Call(name, needs, gives) EXCEPT !.fails = how]
Clock(name, what, how) == [Fails(name, {"static_memory"}, {}, how) EXCEPT !.clock = what]
Rate(name, needs, device) == [Call(name, needs, {device}) EXCEPT !.rate = device]
Enable(name, needs, gives, which) == [Call(name, needs, gives) EXCEPT !.enable = {which}]
NVIC_SetPriority(which, n) == [Call("NVIC_SetPriority", {}, {}) EXCEPT !.prio = <<which, n>>]

(***************************************************************************)
(* Clocks                                                                  *)
(***************************************************************************)
\* The crystal on the board; HSE_VALUE, of which the HAL computes
\* SystemCoreClock; the PLL's factors and the dividers.
Crystal == [stm32f429i_disc1_stm32cube |-> 8, stm32f769i_disc0_stm32cube |-> 25]
F429Clock == [hse |-> 8, m |-> 4, n |-> 180, p |-> 2, ws |-> 5, apb1 |-> 4, apb2 |-> 2]
F769Clock == [hse |-> 8, m |-> 25, n |-> 400, p |-> 2, ws |-> 6, apb1 |-> 4, apb2 |-> 2]
Cube == DOMAIN Crystal
ClockOf(b) == IF b = "stm32f429i_disc1_stm32cube" THEN F429Clock ELSE F769Clock

F429SystemClock == <<
  Clock("HAL_RCC_OscConfig", "pll", "halted"),
  Clock("HAL_PWREx_EnableOverDrive", "overdrive", "halted"),
  Clock("HAL_RCC_ClockConfig", "switch", "halted") >>
MutantF769SystemClock == <<
  Clock("HAL_RCC_OscConfig", "pll", "halted"),
  Fails("HAL_RCCEx_PeriphCLKConfig", {"static_memory"}, {"clk48"}, "halted"),
  Clock("HAL_RCC_ClockConfig", "switch", "halted"),
  Clock("HAL_PWREx_EnableOverDrive", "overdrive", "halted") >>
F769SystemClock == <<
  Clock("HAL_RCC_OscConfig", "pll", "halted"),
  Clock("HAL_PWREx_EnableOverDrive", "overdrive", "halted"),
  Fails("HAL_RCCEx_PeriphCLKConfig", {"static_memory"}, {"clk48"}, "halted"),
  Clock("HAL_RCC_ClockConfig", "switch", "halted") >>
BOARD_BootClockRUN ==
  [Clock("BOARD_BootClockRUN", "run", "never") EXCEPT !.gives = {"run_clock"}, !.takes = {"dsi_clock"}]

\* What a call does to the clocks: the PLL's output, and its source of time.
Clocked(c, what) ==
  LET k == ClockOf(board)
  IN  CASE what = "pll" -> [c EXCEPT !.pll = (Crystal[board] * k.n) \div (k.m * k.p)]
        [] what = "overdrive" -> [c EXCEPT !.overdrive = TRUE]
        [] what = "switch" -> [c EXCEPT !.core = c.pll, !.ws = k.ws,
                                        !.SystemCoreClock = (k.hse * k.n) \div (k.m * k.p)]
        [] what = "run" -> [c EXCEPT !.core = 198, !.SystemCoreClock = 198]
        [] what = "250" -> [c EXCEPT !.core = 250, !.SystemCoreClock = 250]
        [] OTHER -> c

AtReset(b) ==
  LET mhz == CASE b = "mimxrt595_evk" -> 48 [] b = "pico" \/ b = "pico_pio" -> 125 [] OTHER -> 16
  IN  [pll |-> 0, core |-> mhz, overdrive |-> FALSE, ws |-> 0, SystemCoreClock |-> mhz]

(***************************************************************************)
(* Interrupts: what makes each fire, what its handler uses, and whether    *)
(* the handler calls the kernel                                            *)
(***************************************************************************)
Interrupts == [
  SysTick |-> [source |-> "scheduler", uses |-> {"scheduler"}, kernel |-> FALSE],
  TIM6_DAC |-> [source |-> "hal", uses |-> {"static_memory"}, kernel |-> FALSE],
  UTICK0 |-> [source |-> "millis", uses |-> {"static_memory"}, kernel |-> FALSE],
  GPIO_INTA |-> [source |-> "panel", uses |-> {}, kernel |-> TRUE],
  SDMA |-> [source |-> "transfer", uses |-> {"smartdma", "dsi_handle"}, kernel |-> TRUE],
  DMA_IRQ_0 |-> [source |-> "transfer", uses |-> {"pusher", "irq_handler"}, kernel |-> TRUE] ]
\* The panel's interrupt does nothing while no frame is to be shown, and sends
\* one that is, whose end calls the layer's callback.
Uses(i) ==
  Interrupts[i].uses \cup
    IF i = "GPIO_INTA" /\ "transfer" \in up THEN {"s_device", "dsi_handle", "callback", "layer"} ELSE {}
MaxSyscall == [b \in {"mimxrt595_evk", "pico", "pico_pio"} |-> IF b = "mimxrt595_evk" THEN 2 ELSE 0]

F429Vectors == {"SVC", "PendSV", "SysTick", "TIM6_DAC"}
F769Vectors == {"SVC", "PendSV", "SysTick", "TIM6_DAC"}
\* Every entry of the RT595 that is not the core's goes to the driver's
\* handler, a weak alias of the default one that some file may define: here
\* fsl_utick and device.cc.
MimxrtVector(i) == IF i \in {"SVC", "PendSV", "SysTick"} THEN i ELSE "driver"
DriverHandler(i) == IF i \in {"UTICK0", "GPIO_INTA", "SDMA"} THEN i ELSE "DefaultInterruptHandler"

Handled(i) ==
  CASE board \in Cube -> i \in IF board = "stm32f429i_disc1_stm32cube" THEN F429Vectors ELSE F769Vectors
    [] board = "mimxrt595_evk" -> MimxrtVector(i) = i \/ DriverHandler(i) = i
    [] board = "stm32f769i_disc0" -> FALSE
    [] OTHER -> TRUE

(***************************************************************************)
(* The boards' boot                                                        *)
(***************************************************************************)
StaticMemory == Call("static memory", {}, {"static_memory"})
Constructors == Call("static constructors", {"static_memory"}, {"objects"})
MallocInit == Call("pw_MallocInit", {}, {"heap"})
pw_sys_io_Init == Rate("pw_sys_io_Init", {"hal"}, "uart")
HAL_Init == Enable("HAL_Init", {"static_memory"}, {"hal"}, "TIM6_DAC")

MutantF429Boot == <<StaticMemory, Call("SystemInit", {}, {"fpu"}), HAL_Init, pw_sys_io_Init>>
  \o F429SystemClock \o <<MallocInit, Constructors>>
F429Boot == <<StaticMemory, Call("SystemInit", {}, {"fpu"}), HAL_Init>>
  \o F429SystemClock \o <<MallocInit, Constructors, pw_sys_io_Init>>
F769Boot == <<StaticMemory, Call("SystemInit", {}, {"fpu"}), HAL_Init>>
  \o F769SystemClock \o <<MallocInit, Constructors, pw_sys_io_Init>>
\* On the internal oscillator, without the HAL.
BaremetalBoot == <<Call("pw_boot_PreStaticMemoryInit", {}, {"fpu"}),
  StaticMemory, MallocInit, Constructors>>
BaremetalUart == Rate("pw_sys_io_stm32f769_Init", {}, "uart")
Device == Call("MCUXpressoDevice", {"static_memory"}, {"s_device"})
MimxrtBoot == <<Call("SystemInit", {}, {"fpu"}), StaticMemory, MallocInit,
  Device, Constructors,
  Call("CLOCK_AttachClk", {}, {"utick_clock"}), Call("BOARD_InitBootPins", {}, {"boot_pins"}),
  BOARD_BootClockRUN, Rate("pw_sys_io_mcuxpresso_Init", {"boot_pins", "run_clock"}, "uart")>>
\* The SDK's, Pigweed's for the STM32F429 without the HAL, the C library's.
PicoBoot == <<StaticMemory, Constructors>>

(***************************************************************************)
(* main and the first task                                                 *)
(***************************************************************************)
\* Tasks and their memory, the kernel's own included, are static; SysTick is
\* the kernel's.
FreeRTOS == <<Fails("xTaskCreateStatic", {"static_memory"}, {"main_task"}, "crashed"),
  [Rate("vTaskStartScheduler", {"main_task", "fpu"}, "tick") EXCEPT !.gives = {"scheduler"}, !.enable = {"SysTick"}]>>
PicoFreeRTOS == <<FreeRTOS[1], [FreeRTOS[2] EXCEPT !.needs = {"main_task"}]>>

InitTickTimer == Enable("UTICK_SetTick", {"utick_clock"}, {"millis"}, "UTICK0")
SetOutput == Call("SetOutput", {"objects"}, {"log"})
GetFirstFramebuffer == Call("GetFramebuffer", {"objects", "pool"}, {"frame"})
RegisterServices == Call("RegisterServices", {"objects"}, {"services"})

F429Common == <<
  Call("__HAL_RCC_GPIO_CLK_ENABLE", {}, {"gpio"}), Call("__HAL_RCC_SPI5_CLK_ENABLE", {}, {"spi_clock"}),
  Call("s_display_cs_pin.Enable", {"gpio"}, {"cs"}), Call("s_display_dc_pin.Enable", {"gpio"}, {"dc_pin"}),
  Call("InitSPIPins", {"gpio"}, {"spi_pins"}),
  Call("DisplayDriverILI9341::Init", {"cs", "dc_pin", "spi_pins", "spi_clock", "hal"}, {"panel", "pool"}) >>

\* The panel's TE pin interrupts from here on, which the panel drives once it
\* has been powered.
InitMipiPanelTEPin == <<Call("GPIO_PinInit", {"gpio"}, {"te_pin"}), NVIC_SetPriority("GPIO_INTA", 3),
  Enable("NVIC_EnableIRQ", {"te_pin"}, {}, "GPIO_INTA")>>
InitDisplayInterface == <<
  Call("InitMipiDsiClock", {"run_clock"}, {"dsi_clock"}),
  Call("SetMipiDsiConfig", {"dsi_clock"}, {"dsi"}),
  Call("InitLcdPanel", {"gpio", "mipi_pins"}, {"panel_pins"}) >> \o InitMipiPanelTEPin
MutantInitSmartDMA == <<Enable("NVIC_EnableIRQ", {"dsi"}, {"smartdma"}, "SDMA")>>
InitSmartDMA == <<Enable("NVIC_EnableIRQ", {"dsi"}, {"smartdma"}, "SDMA"), NVIC_SetPriority("SDMA", 3)>>
PrepareDisplayController == InitDisplayInterface \o InitSmartDMA
  \o <<Fails("DSI_TransferCreateHandleSMARTDMA", {"smartdma", "dsi"}, {"dsi_handle"}, "crashed")>>
MutantInitDisplayController == <<
  Call("dc_ = dc", {"s_device"}, {"dc"}),
  Fails("ops->init", {"dc", "dsi_handle", "panel_pins"}, {"panel"}, "crashed"),
  Fails("ops->getLayerDefaultConfig", {"dc"}, {}, "crashed"),
  Fails("ops->setLayerConfig", {"dc"}, {"layer"}, "crashed") >>
\* Powers the panel, then sets up its layer.
InitDisplayController == <<
  Call("dc_ = dc", {"s_device"}, {"dc"}),
  Fails("ops->init", {"dc", "dsi_handle", "panel_pins"}, {"panel"}, "crashed"),
  Fails("ops->getLayerDefaultConfig", {"dc"}, {}, "crashed"),
  Call("ops->setCallback", {"dc"}, {"callback"}),
  Fails("ops->setLayerConfig", {"dc"}, {"layer"}, "crashed") >>
InitVideoMemPool == <<Call("VIDEO_MEMPOOL_Put", {"pool"}, {"buffers"})>>
\* The device: a controller, a panel that is switched on, a black frame.
DeviceInit == PrepareDisplayController \o InitDisplayController \o InitVideoMemPool \o <<
  Fails("FramebufferDevice::GetFramebuffer", {"buffers"}, {"buffer"}, "crashed"),
  Call("memset", {"buffer", "psram"}, {}),
  Call("FramebufferDevice::WriteFramebuffer", {"dc", "buffer", "dsi_clock"}, {"transfer"}),
  Fails("FramebufferDevice::Enable", {"dc"}, {"display_on"}, "crashed") >>
MimxrtCommon == <<
  Call("InitMipiPins", {"boot_pins"}, {"mipi_pins"}), Call("BOARD_InitPsRam", {"run_clock"}, {"psram"}),
  Call("GPIO_PortInit", {}, {"gpio"}), BOARD_BootClockRUN,
  Call("FramebufferPoolMCUXpresso::Init", {"objects"}, {"pool"}) >> \o DeviceInit

\* Raises the core clock of a running system.
Overclock == [Call("set_sys_clock_khz", {}, {}) EXCEPT !.clock = "250", !.takes = {"uart", "spi"}]
I2cEnable == Call("PicoInitiator::Enable", {"objects"}, {"i2c"})
\* The pusher takes the pins from the SPI port, so the panel has to have been
\* set up before.
PusherInit ==
  [Enable("PixelPusherRp2040Pio::Init", {"objects"}, {"pusher", "irq_handler"}, "DMA_IRQ_0") EXCEPT !.takes = {"spi_pins"}]
MutantPicoCommon(pio) == <<
  Overclock, Rate("stdio_init_all", {}, "uart"),
  Call("pins' Enable", {"objects"}, {"cs", "dc_pin"}), I2cEnable, Call("SetBacklight", {}, {"backlight"}),
  Rate("spi_init", {}, "spi"), Call("gpio_set_function", {}, {"spi_pins"}) >>
  \o (IF pio THEN <<PusherInit>> ELSE << >>)
  \o <<Call("DisplayDriver::Init", {"cs", "dc_pin", "spi", "spi_pins"}, {"panel", "pool"})>>
PicoCommon(pio) == <<
  Overclock, Rate("stdio_init_all", {}, "uart"),
  Call("pins' Enable", {"objects"}, {"cs", "dc_pin"}), I2cEnable, Call("SetBacklight", {}, {"backlight"}),
  Rate("spi_init", {}, "spi"), Call("gpio_set_function", {}, {"spi_pins"}),
  Call("DisplayDriver::Init", {"cs", "dc_pin", "spi", "spi_pins"}, {"panel", "pool"}) >>
  \o (IF pio THEN <<PusherInit, Call("SetPixelDouble", {"pusher"}, {})>> ELSE << >>)

\* Without a desktop there is no window.
HostCommon == <<
  Fails("glfwInit", {"objects"}, {"glfw"}, "crashed"), Fails("glfwCreateWindow", {"glfw"}, {"gl_context"}, "crashed"),
  Call("ImGui::CreateContext", {}, {"imgui"}), Call("SetupLcdTexture", {"imgui", "gl_context"}, {"panel", "pool"}) >>

Led == Call("board_led::Init", {}, {"led"})
\* The clock of the port, then the mode of its pin.
GpioLed == <<Call("ahb1_config", {}, {"gpio"}), Call("modes, out_type", {"gpio"}, {"led"})>>
FirstFrame(needs, gives) == <<GetFirstFramebuffer, Call("ReleaseFramebuffer", {"frame", "panel"} \cup needs, gives)>>
TerminalDisplayMain ==
  CASE board = "mimxrt595_evk" -> FreeRTOS \o <<InitTickTimer, SetOutput, Led>> \o MimxrtCommon \o FirstFrame({"dsi_clock"}, {"transfer"})
    [] board = "host" -> <<SetOutput, Led>> \o HostCommon \o FirstFrame({}, {})
    [] OTHER -> FreeRTOS \o <<SetOutput, Led>> \o F429Common \o FirstFrame({"spi_pins"}, {})
BlitDemoMain == PicoFreeRTOS \o <<Led>> \o PicoCommon(board = "pico_pio") \o FirstFrame({}, {"transfer"})

BootOf(b) ==
  CASE b = "stm32f429i_disc1_stm32cube" -> F429Boot
    [] b = "stm32f769i_disc0_stm32cube" -> F769Boot
    [] b = "mimxrt595_evk" -> MimxrtBoot
    [] OTHER -> PicoBoot
Boot ==
  CASE app = "rpc" -> BaremetalBoot \o <<BaremetalUart>> \o GpioLed \o <<RegisterServices>>
    [] app = "blinky" -> BootOf(board) \o (IF board = "stm32f429i_disc1" THEN GpioLed ELSE <<Led>>)
    [] app = "terminal_display" -> BootOf(board) \o TerminalDisplayMain
    [] app = "32blit_demo" -> BootOf(board) \o BlitDemoMain

\* What the loops use.
LoopNeeds ==
  CASE app = "rpc" -> {"led", "uart", "services"}
    [] app = "blinky" -> {"led"} \cup IF board \in Cube THEN {"hal", "uart"} ELSE {}
    [] OTHER -> {"led", "panel", "pool", "frame"} \cup IF board = "host" THEN {} ELSE {"uart"}

(***************************************************************************)
(* Behaviour                                                               *)
(***************************************************************************)
InitBringUp ==
  /\ program \in Programs
  /\ calls = 0 /\ at = "boot"
  /\ up = {} /\ early = {}
  /\ cpu = AtReset(program.board)
  /\ rates = [uart |-> 0, tick |-> 0, spi |-> 0]
  /\ irq = [enabled |-> {}, priority |-> [i \in DOMAIN Interrupts |-> 0]]

Missed(needs, name) == early' = early \cup IF needs \subseteq up THEN {} ELSE {name}

Succeeds(call) ==
  /\ up' = (up \ call.takes) \cup call.gives
  /\ cpu' = Clocked(cpu, call.clock)
  /\ rates' = IF call.rate = "none" THEN rates
              ELSE [rates EXCEPT ![call.rate] = cpu.SystemCoreClock]
  /\ irq' = [enabled |-> irq.enabled \cup call.enable,
             priority |-> IF call.prio = << >> THEN irq.priority
                          ELSE [irq.priority EXCEPT ![call.prio[1]] = call.prio[2]]]
  /\ UNCHANGED at

MakeCall ==
  /\ at = "boot" /\ calls < Len(Boot)
  /\ LET call == Boot[calls + 1]
     IN  /\ Missed(call.needs, call.name)
         /\ \/ Succeeds(call)
            \/ call.fails # "never" /\ at' = call.fails /\ UNCHANGED <<up, cpu, rates, irq>>
  /\ calls' = calls + 1
  /\ UNCHANGED program

EnterLoop ==
  /\ at = "boot" /\ calls = Len(Boot)
  /\ at' = "loop"
  /\ Missed(LoopNeeds, "loop")
  /\ UNCHANGED <<program, calls, up, cpu, rates, irq>>

\* Until the device is reset.
Stays == at \in {"halted", "crashed"} /\ UNCHANGED bringVars

BringUpStep == MakeCall \/ EnterLoop

BringUpTypeOK ==
  /\ program \in Programs /\ calls \in 0 .. Len(Boot)
  /\ at \in {"boot", "loop", "halted", "crashed"}
  /\ irq.enabled \subseteq DOMAIN Interrupts
  /\ irq.priority \in [DOMAIN Interrupts -> 0 .. 7]

(***************************************************************************)
(* Properties                                                              *)
(***************************************************************************)
\* Nothing is used before it is up, nor after a later call took it away: the
\* memory, clocks, pins and objects each call needs are there on every board,
\* and the loop finds its LED, panel and framebuffer (boot.cc, common_*.cc).
UpBeforeUse == early = {}

\* An interrupt whose source can fire has a handler that is not the default
\* one, the handler finds what it uses, and if it calls the kernel its
\* priority is one from which it may (vector_table.c, device.cc:48-58).
InterruptsHandled ==
  \A i \in irq.enabled : Interrupts[i].source \in up =>
    /\ Handled(i)
    /\ Uses(i) \subseteq up
    /\ Interrupts[i].kernel => irq.priority[i] >= MaxSyscall[board]

\* The order of bring-up is right: nothing is used before it is up, and no
\* interrupt fires before it can be served.
BringUpInv == UpBeforeUse /\ InterruptsHandled

\* At no time does a core or a bus of the STM32s run faster than overdrive and
\* wait states allow (boot.cc:88-136, 49-83).
WithinLimits ==
  board \in Cube =>
    LET f429 == board = "stm32f429i_disc1_stm32cube"
        k == ClockOf(board)
    IN  /\ cpu.core <= IF ~cpu.overdrive THEN (IF f429 THEN 168 ELSE 180) ELSE (IF f429 THEN 180 ELSE 216)
        /\ cpu.core <= 30 * (cpu.ws + 1)
        /\ cpu.core > 16 =>
             cpu.core <= k.apb1 * (IF f429 THEN 45 ELSE 54) /\ cpu.core <= k.apb2 * (IF f429 THEN 90 ELSE 108)

\* In the loop every divider was computed for the clock that is running; but
\* for the kernel's tick of the Pico, which the overclocking of Common::Init
\* comes too late for, and the STM32F769 with its HSE_VALUE of another board
\* (common_pico.cc:210-241, stm32f7xx_hal_conf.h:22).
RatesHold ==
  at = "loop" /\ board # "stm32f769i_disc0_stm32cube" =>
    \A d \in DOMAIN rates \ (IF app = "32blit_demo" THEN {"tick"} ELSE {}) : rates[d] \in {0, cpu.core}

\* Clocks, and what is divided from them, are right at every step.
ClocksInv == BringUpTypeOK /\ WithinLimits /\ RatesHold
=============================================================================
