---------------------------- MODULE SpiInitiator ----------------------------
(***************************************************************************)
(* pw_spi_stm32cube and pw_spi_arduino: the two initiators over which the  *)
(* display drivers talk to a panel, as functions of the state of the bus.  *)
(*                                                                         *)
(* A board has one SPI peripheral and two devices on it, one for words of  *)
(* 8 bits and one for words of 16, and each device has an initiator of its *)
(* own.  The STM32 initiator hands its settings to the peripheral when it  *)
(* is first used and never again; the Arduino one before each transfer.    *)
(* The HAL and the Arduino core are external: the peripheral is set up by  *)
(* HAL_SPI_Init and by beginTransaction and transfer16, and                *)
(* HAL_SPI_Transmit counts words in 16 bits (modulo HalLimit here).        *)
(***************************************************************************)
EXTENDS Integers, Sequences

CONSTANT HalLimit

ASSUME HalAssumption == HalLimit \in Nat \ {0}

WordSizes == {8, 16}
HalStatuses == {"HAL_OK", "HAL_ERROR", "HAL_BUSY", "HAL_TIMEOUT"}
Statuses == {"OK", "INTERNAL", "UNAVAILABLE", "DEADLINE_EXCEEDED"}

ConvertStatus(hal) ==
  CASE hal = "HAL_OK"      -> "OK"
    [] hal = "HAL_ERROR"   -> "INTERNAL"
    [] hal = "HAL_BUSY"    -> "UNAVAILABLE"
    [] hal = "HAL_TIMEOUT" -> "DEADLINE_EXCEEDED"

-----------------------------------------------------------------------------
(* What a peripheral is set to: the size of a word, which of its bits goes  *)
(* first, the clock's level at rest, and whether bits are read at the first *)
(* edge of the clock or at the second.                                      *)
Settings(size, first, polarity, phase) ==
  [DataSize |-> size, FirstBit |-> first, CLKPolarity |-> polarity, CLKPhase |-> phase]

(* The Config of the device for words of d bits. *)
Config(phase, d) ==
  [polarity |-> "kActiveHigh", phase |-> phase, bits_per_word |-> d, bit_order |-> "kMsbFirst"]

GetBitOrder(order) == IF order = "kLsbFirst" THEN "LSB" ELSE "MSB"
GetPhase(phase) == IF phase = "kFallingEdge" THEN "1EDGE" ELSE "2EDGE"
GetPolarity(polarity) == IF polarity = "kActiveHigh" THEN "HIGH" ELSE "LOW"

(* A plausible slip: the settings of the modes with an active clock are     *)
(* those of the modes without.                                              *)
MutantGetSpiSettings(c) ==
  Settings(c.bits_per_word, GetBitOrder(c.bit_order),
           IF c.polarity = "kActiveHigh" THEN "LOW" ELSE "HIGH",
           IF c.phase = "kRisingEdge" THEN "1EDGE" ELSE "2EDGE")

(* Modes 0 and 1 of the Arduino core rest low, 2 and 3 high; modes 1 and 3  *)
(* read at the second edge.  A phase means the other edge than on an STM32. *)
GetSpiSettings(c) ==
  Settings(c.bits_per_word, GetBitOrder(c.bit_order),
           IF c.polarity = "kActiveLow" THEN "LOW" ELSE "HIGH",
           IF c.phase = "kRisingEdge" THEN "1EDGE" ELSE "2EDGE")

(* A panel takes a bit at each rising edge of the clock.  The first bit is  *)
(* there by then unless it is sent out by that very edge, which is the case *)
(* of a clock that rests low and is read at the second.                     *)
FirstBitInTime(s) == s.CLKPolarity = "HIGH" \/ s.CLKPhase = "1EDGE"

-----------------------------------------------------------------------------
(* The initiator of each device before it is used, and the peripheral. *)
Stm32CubeInitiator ==
  LET Unused == Settings(8, "MSB", "LOW", "1EDGE")
  IN  [handle |-> [d \in WordSizes |->
                     [Init |-> Unused, initialized |-> FALSE, init_status |-> "OK"]],
       spi |-> Unused]

(* The first use initialises the peripheral; its status is for good. *)
LazyInit(bus, d, hal) ==
  IF bus.handle[d].initialized THEN bus
  ELSE [handle |-> [bus.handle EXCEPT
                      ![d].initialized = TRUE,
                      ![d].init_status = ConvertStatus(hal)],
        spi |-> IF hal = "HAL_OK" THEN bus.handle[d].Init ELSE bus.spi]

InitOf(c) ==
  Settings(c.bits_per_word, GetBitOrder(c.bit_order), GetPolarity(c.polarity), GetPhase(c.phase))

(* A plausible slip: the peripheral is initialised before the settings of  *)
(* the device are in its handle.                                           *)
MutantConfigure(bus, c, hal) ==
  [LazyInit(bus, c.bits_per_word, hal) EXCEPT !.handle[c.bits_per_word].Init = InitOf(c)]

(* Configure, with the device's Config, at the start of a transaction. *)
Configure(bus, c, hal) ==
  LazyInit([bus EXCEPT !.handle[c.bits_per_word].Init = InitOf(c)], c.bits_per_word, hal)

(* Device::Transaction::Write: Configure, then WriteRead without a read    *)
(* buffer, of n words.  hal is what HAL_SPI_Init and HAL_SPI_Transmit      *)
(* return; words is how many reach the wire if the transmission succeeds.  *)
HalSucceeds == [init |-> "HAL_OK", transmit |-> "HAL_OK"]
Stm32Write(bus, c, n, hal) ==
  LET after == Configure(bus, c, hal.init)
      init  == after.handle[c.bits_per_word].init_status
  IN  [bus |-> after,
       status |-> IF init # "OK" THEN init ELSE ConvertStatus(hal.transmit),
       words |-> n % HalLimit]

(* The Arduino initiator: LazyInit and SPI's functions cannot fail. *)
ArduinoWrite(bus, c, n, hal) ==
  [bus |-> [bus EXCEPT !.handle[c.bits_per_word].Init = GetSpiSettings(c),
                       !.spi = GetSpiSettings(c)],
   status |-> "OK",
   words |-> n]
=============================================================================
