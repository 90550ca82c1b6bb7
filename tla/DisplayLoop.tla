---------------------------- MODULE DisplayLoop ----------------------------
(***************************************************************************)
(* The display loop of terminal_display and 32blit_demo on the boards'     *)
(* millisecond counter, which wraps: the draw and flush times, the report  *)
(* every second, and the clock of 32blit_demo's rain.  What is drawn is    *)
(* in TerminalFrame; of the frame counter, which each report resets, no    *)
(* property is stated.                                                     *)
(***************************************************************************)
EXTENDS Integers, Sequences

CONSTANTS
  Wrap,      \* the counter's range, 2^32 in the code
  Second,    \* milliseconds between two reports
  MaxStep,   \* the longest a frame is drawn, flushed or reported
  Samples    \* entries of draw_times and flush_times

\* No frame takes an eighth of the counter's range, 149 hours in the code.
ASSUME LoopAssumption ==
  /\ {Wrap, Second, MaxStep, Samples} \subseteq Nat
  /\ Samples > 0
  /\ 4 * MaxStep < Wrap \div 2 /\ Second < Wrap \div 2

VARIABLES
  clock,     \* Millis()
  phase,     \* where the loop is: "start", "drawn", "flushed"
  start,     \* of what is timed
  times,     \* draw_times and flush_times
  frame_start_millis,
  rain,      \* delta_screen_draw, last_time_ms, elapsed_ms; first if rain has not run
  took,      \* by the board, the time from start to flush of the same frames
  since      \* by the board, the time since the last report, SinceMax if it
             \* is too long

loopVars == <<clock, phase, start, times, frame_start_millis, rain, took, since>>

Plus(a, b) == (a + b) % Wrap
Signed(n) == IF n < Wrap \div 2 THEN n ELSE n - Wrap
SinceMax == Second + 2 * MaxStep + 1

\* PrefixedEntryRingBuffer: the oldest entry makes room.
PushBack(ring, n) ==
  Append(IF Len(ring) < Samples THEN ring ELSE Tail(ring), n)

InitLoop ==
  /\ clock \in 0 .. Wrap - 1 /\ start = clock /\ frame_start_millis = clock
  /\ phase = "start"
  /\ times = [draw |-> << >>, flush |-> << >>]
  /\ rain = [delta |-> 0, last |-> clock, elapsed |-> 0, first |-> TRUE]
  /\ took = << >> /\ since = 0

Passes(n) ==
  /\ clock' = Plus(clock, n)
  /\ since' = IF since + n > SinceMax THEN SinceMax ELSE since + n

MutantRain(now, drawn) ==
  LET time_ms == Plus(now, - rain.delta)
      last == IF rain.first THEN 0 ELSE rain.last
  IN  [delta |-> drawn, last |-> time_ms, elapsed |-> Signed(Plus(time_ms, - last)), first |-> FALSE]
\* The rain falls for the time since its last call, both less what the frame
\* before took to draw.
Rain(now, drawn) ==
  LET time_ms == Plus(now, - rain.delta)
      last == IF rain.first THEN time_ms ELSE rain.last
  IN  [delta |-> drawn, last |-> time_ms, elapsed |-> Signed(Plus(time_ms, - last)), first |-> FALSE]

MutantDrawFrame(raining) ==
  /\ phase = "start"
  /\ \E n \in 0 .. MaxStep :
       /\ Passes(n)
       /\ \E drawn \in 0 .. n : rain' = IF raining THEN Rain(clock, drawn) ELSE rain
       /\ start' = clock
       /\ times' = [times EXCEPT !.draw = PushBack(@, n)]
       /\ took' = PushBack(took, n)
  /\ phase' = "drawn"
  /\ UNCHANGED frame_start_millis
\* Gets a framebuffer, draws, and takes the time: 32blit_demo twice.
DrawFrame(raining) ==
  /\ phase = "start"
  /\ \E n \in 0 .. MaxStep :
       /\ Passes(n)
       /\ \E drawn \in 0 .. n : rain' = IF raining THEN Rain(clock, drawn) ELSE rain
       /\ start' = clock'
       /\ times' = [times EXCEPT !.draw = PushBack(@, Plus(clock', - clock))]
       /\ took' = PushBack(took, n)
  /\ phase' = "drawn"
  /\ UNCHANGED frame_start_millis

\* Releases the framebuffer, which returns when the frame is on its way.
FlushFrame ==
  /\ phase = "drawn"
  /\ \E n \in 0 .. MaxStep :
       /\ Passes(n)
       /\ times' = [times EXCEPT !.flush = PushBack(@, Plus(clock', - start))]
       /\ took' = [took EXCEPT ![Len(took)] = @ + n]
  /\ phase' = "flushed"
  /\ UNCHANGED <<start, frame_start_millis, rain>>

Due == clock > Plus(frame_start_millis, Second)

MutantReport ==
  /\ Due
  /\ \E n \in 0 .. MaxStep :
       /\ clock' = Plus(clock, n)
       /\ since' = 0
       /\ frame_start_millis' = Plus(frame_start_millis, Second)
\* The report takes time of its own, from which the next second is counted.
Report ==
  /\ Due
  /\ \E n \in 0 .. MaxStep :
       /\ clock' = Plus(clock, n)
       /\ since' = 0
       /\ frame_start_millis' = clock'

CheckTime ==
  /\ phase = "flushed"
  /\ \/ Report
     \/ ~Due /\ UNCHANGED <<clock, since, frame_start_millis>>
  /\ phase' = "start"
  /\ UNCHANGED <<start, times, rain, took>>

CalcAverageUint32Value(ring) ==
  LET sum[k \in 0 .. Len(ring)] == IF k = 0 THEN 0 ELSE sum[k - 1] + ring[k]
  IN  IF ring = << >> THEN 0 ELSE sum[Len(ring)] \div Len(ring)

LoopTypeOK ==
  /\ {clock, start, frame_start_millis, rain.last} \subseteq 0 .. Wrap - 1
  /\ phase \in {"start", "drawn", "flushed"}
  /\ Len(took) <= Samples /\ since \in 0 .. SinceMax
  /\ rain.delta \in 0 .. MaxStep

(***************************************************************************)
(* Properties                                                              *)
(***************************************************************************)
\* The two averages a report shows account for whole frames, whenever the
\* counter wraps: they add up to the average time of the same frames, but for
\* what the two divisions cut off (main.cc:481-515).
TimesAddUp ==
  phase # "drawn" =>
    CalcAverageUint32Value(took)
      - CalcAverageUint32Value(times.draw) - CalcAverageUint32Value(times.flush) \in {0, 1}

\* Rain never falls upwards: although each call subtracts another frame's
\* drawing time, the time between two calls is never negative, and never more
\* than two frames (32blit_demo main.cc:103-106, 207-228).
RainNeverRunsBack == rain.elapsed \in 0 .. 4 * MaxStep

\* When the next report is meant, before the code's sum wraps, and whether the
\* counter has wrapped since the last one.
Mark == frame_start_millis + Second
Wrapped == clock < frame_start_millis
OnTime == IF since > Second THEN 0 ELSE since

\* A second after the last report, and no sooner, the next frame reports; but
\* in the second in which the counter wraps, every frame does until it has
\* wrapped if the mark lies beyond the wrap, and none does if the mark lies
\* before it and the frames have stepped over what was left between the two:
\* the report then waits a turn of the counter (main.cc:503-521).
ReportsWhenDue ==
  /\ Mark + 2 * MaxStep < Wrap => since' = OnTime
  /\ Mark >= Wrap => since' = IF Wrapped THEN OnTime ELSE 0
  /\ Mark < Wrap /\ since < SinceMax => since' = IF Wrapped THEN since ELSE OnTime
ReportsEverySecond ==
  [][phase = "flushed" /\ phase' = "start" => ReportsWhenDue]_loopVars

\* The times a display loop reports and hands to the rain, across the wrap of
\* the counter.
LoopTimes == [](LoopTypeOK /\ TimesAddUp /\ RainNeverRunsBack) /\ ReportsEverySecond
=============================================================================
