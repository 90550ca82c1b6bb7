------------------------- MODULE ApplicationsProofs -------------------------
(***************************************************************************)
(* Proofs of what the applications' loops promise, for any time a frame    *)
(* takes, any counter and any number of samples, packets, pixels and       *)
(* colours.                                                                *)
(***************************************************************************)
EXTENDS Applications, Induction, SequenceTheorems

(***************************************************************************)
(* The display loop                                                        *)
(***************************************************************************)
LoopTypes ==
  /\ clock \in 0 .. Wrap - 1 /\ start \in 0 .. Wrap - 1 /\ frame_start_millis \in 0 .. Wrap - 1
  /\ phase \in {"start", "drawn", "flushed"}
  /\ times \in [draw : Seq(Nat), flush : Seq(Nat)] /\ took \in Seq(Nat)
  /\ rain \in [delta : 0 .. MaxStep, last : 0 .. Wrap - 1, elapsed : 0 .. 4 * MaxStep, first : BOOLEAN]
  /\ since \in 0 .. SinceMax

\* The samples of the two times are of the same frames; while a frame is drawn
\* and not yet flushed the flush times are one behind, and in a full ring of
\* them the oldest is of a frame whose drawing time has made room.
Behind == Len(times.flush) - (Len(took) - 1)
SampledTogether ==
  /\ Len(times.draw) = Len(took) /\ Len(took) <= Samples
  /\ IF phase = "drawn"
     THEN /\ Len(took) > 0 /\ start = clock
          /\ took[Len(took)] = times.draw[Len(took)]
          /\ Behind = 0 \/ (Behind = 1 /\ Len(took) = Samples)
          /\ \A j \in 1 .. Len(took) - 1 : took[j] = times.draw[j] + times.flush[j + Behind]
     ELSE /\ Len(times.flush) = Len(took)
          /\ \A j \in 1 .. Len(took) : took[j] = times.draw[j] + times.flush[j]

\* How long ago the rain's clock stood at last_time_ms: no less than what it
\* will subtract, no more than the frames since.
Frames == CASE phase = "drawn" -> 2 [] phase = "flushed" -> 3 [] OTHER -> 4
RainIsBehind ==
  IF rain.first THEN rain.delta = 0 /\ rain.elapsed = 0
  ELSE /\ app = "32blit_demo"
       /\ Plus(clock, - rain.last) \in rain.delta .. Frames * MaxStep

\* The counter shows the time since the last report unless that is too long,
\* which it never is but with the mark shortly before the wrap; the loop has
\* looked at it once a frame.
Unseen == CASE phase = "drawn" -> 1 [] phase = "flushed" -> 2 [] OTHER -> 0
CountsFromReport ==
  /\ since < SinceMax => clock = Plus(frame_start_millis, since)
  /\ Mark + 2 * MaxStep < Wrap \/ Mark >= Wrap => since <= Second + Unseen * MaxStep

LoopInv == LoopTypes /\ SampledTogether /\ RainIsBehind /\ CountsFromReport

LEMMA LoopConstants ==
  /\ Wrap \in Nat /\ Second \in Nat /\ MaxStep \in Nat /\ Samples \in Nat
  /\ Samples > 0 /\ Wrap > 0 /\ Wrap > 8 * MaxStep /\ 4 * MaxStep < Wrap \div 2
  /\ Second < Wrap /\ Second + 2 * MaxStep + 1 <= Wrap
  BY LoopAssumption

\* The counter plus a time of at most one turn.
LEMMA PlusTurns ==
  ASSUME NEW a \in 0 .. Wrap - 1, NEW n \in Int, - Wrap <= n, n <= Wrap
  PROVE  /\ Plus(a, n) \in 0 .. Wrap - 1
         /\ Plus(a, n) = IF a + n < 0 THEN a + n + Wrap
                         ELSE IF a + n < Wrap THEN a + n ELSE a + n - Wrap
<1>1. Wrap \in Int /\ Wrap > 0 /\ a + n \in Int /\ - Wrap <= a + n /\ a + n < 2 * Wrap
  BY LoopConstants
<1>2. (a + n) % Wrap = IF a + n < 0 THEN a + n + Wrap
                       ELSE IF a + n < Wrap THEN a + n ELSE a + n - Wrap
  BY ONLY <1>1, Turn
<1> QED BY <1>1, <1>2 DEF Plus

LEMMA Difference ==
  ASSUME NEW c \in 0 .. Wrap - 1, NEW b \in 0 .. Wrap - 1
  PROVE  /\ Plus(c, - b) \in 0 .. Wrap - 1
         /\ Plus(c, - b) = IF c < b THEN c - b + Wrap ELSE c - b
<1>1. - b \in Int /\ - Wrap <= - b /\ - b <= Wrap /\ - b <= 0 /\ c + (- b) = c - b
  BY LoopConstants
<1>2. /\ Plus(c, - b) \in 0 .. Wrap - 1
      /\ Plus(c, - b) = IF c + (- b) < 0 THEN c + (- b) + Wrap
                        ELSE IF c + (- b) < Wrap THEN c + (- b) ELSE c + (- b) - Wrap
  BY ONLY <1>1, PlusTurns, c \in 0 .. Wrap - 1
<1> QED BY <1>1, <1>2, LoopConstants

\* A time of less than half a turn is what the counter shows of it.
LEMMA Elapses ==
  ASSUME NEW a \in 0 .. Wrap - 1, NEW b \in 0 .. Wrap - 1,
         NEW n \in 0 .. Wrap - 1, Plus(a, - b) + n < Wrap
  PROVE  Plus(Plus(a, n), - b) = Plus(a, - b) + n
<1>1. /\ Plus(a, n) \in 0 .. Wrap - 1
      /\ Plus(a, n) = IF a + n < Wrap THEN a + n ELSE a + n - Wrap
  BY PlusTurns, LoopConstants
<1>2. \A c \in 0 .. Wrap - 1 :
        Plus(c, - b) = IF c < b THEN c - b + Wrap ELSE c - b
  BY Difference
<1> QED BY <1>1, <1>2, LoopConstants

LEMMA PushedBack ==
  ASSUME NEW ring \in Seq(Nat), Len(ring) <= Samples, NEW n \in Nat
  PROVE  /\ PushBack(ring, n) \in Seq(Nat)
         /\ Len(PushBack(ring, n)) = IF Len(ring) < Samples THEN Len(ring) + 1 ELSE Samples
         /\ PushBack(ring, n)[Len(PushBack(ring, n))] = n
         /\ \A j \in 1 .. Len(PushBack(ring, n)) - 1 :
              PushBack(ring, n)[j] = ring[IF Len(ring) < Samples THEN j ELSE j + 1]
<1> DEFINE r == IF Len(ring) < Samples THEN ring ELSE Tail(ring)
<1>1. Len(ring) \in Nat /\ Samples \in Nat /\ Samples > 0
  BY LoopConstants
<1>2. CASE Len(ring) < Samples
  <2>1. PushBack(ring, n) = Append(ring, n)
    BY <1>2 DEF PushBack
  <2> QED BY <1>1, <1>2, <2>1
<1>3. CASE ~(Len(ring) < Samples)
  <2>1. PushBack(ring, n) = Append(Tail(ring), n)
    BY <1>3 DEF PushBack
  <2>2. ring # << >> /\ Len(ring) = Samples
    BY <1>1, <1>3
  <2>3. /\ Tail(ring) \in Seq(Nat) /\ Len(Tail(ring)) = Samples - 1
        /\ \A j \in 1 .. Samples - 1 : Tail(ring)[j] = ring[j + 1]
    BY <1>1, <2>2
  <2> HIDE DEF r
  <2> QED BY <1>1, <1>3, <2>1, <2>2, <2>3
<1> QED BY <1>2, <1>3

LEMMA LoopStarts == InitLoop => LoopInv
<1> SUFFICES ASSUME InitLoop PROVE LoopInv
  OBVIOUS
<1>1. LoopTypes
  BY LoopConstants DEF InitLoop, LoopTypes, SinceMax
<1>2. SampledTogether
  BY LoopConstants DEF InitLoop, SampledTogether
<1>3. RainIsBehind
  BY LoopConstants DEF InitLoop, RainIsBehind
<1>4. clock = Plus(clock, 0)
  <2>1. 0 \in Int /\ - Wrap <= 0 /\ 0 <= Wrap /\ clock \in 0 .. Wrap - 1
    BY LoopConstants DEF InitLoop
  <2> QED BY ONLY <2>1, PlusTurns, LoopConstants
<1>5. CountsFromReport
  BY <1>4, LoopConstants DEF InitLoop, CountsFromReport, Unseen
<1> QED BY <1>1, <1>2, <1>3, <1>5 DEF LoopInv

\* The clock and the board's account of it go on together.
LEMMA TimePasses ==
  ASSUME LoopTypes, CountsFromReport, NEW n \in 0 .. MaxStep, Passes(n),
         frame_start_millis' = frame_start_millis, Unseen' = Unseen + 1, Unseen \in {0, 1}
  PROVE  clock' \in 0 .. Wrap - 1 /\ since' \in 0 .. SinceMax /\ CountsFromReport'
<1>0. n \in Int /\ - Wrap <= n /\ n <= Wrap /\ n < Wrap /\ clock \in 0 .. Wrap - 1
  BY LoopConstants DEF LoopTypes
<1>1. clock' = Plus(clock, n) /\ clock' \in 0 .. Wrap - 1
  BY <1>0, PlusTurns DEF Passes
<1>2. since' \in 0 .. SinceMax /\ (since + n <= SinceMax => since' = since + n)
  BY LoopConstants DEF LoopTypes, Passes, SinceMax
<1>3. ASSUME since' < SinceMax PROVE clock' = Plus(frame_start_millis', since')
  <2>1. since' = since + n /\ since < SinceMax /\ since \in 0 .. SinceMax /\ since + n < SinceMax
    BY <1>3, LoopConstants DEF LoopTypes, Passes, SinceMax
  <2>2. clock = Plus(frame_start_millis, since) /\ frame_start_millis \in 0 .. Wrap - 1
    BY <2>1 DEF CountsFromReport, LoopTypes
  <2>3. /\ since \in Int /\ - Wrap <= since /\ since <= Wrap
        /\ since + n \in Int /\ - Wrap <= since + n /\ since + n <= Wrap
    BY ONLY <1>0, <2>1, LoopConstants, n \in 0 .. MaxStep DEF SinceMax
  <2>4. /\ Plus(clock, n) = IF clock + n < Wrap THEN clock + n ELSE clock + n - Wrap
        /\ Plus(frame_start_millis, since) = IF frame_start_millis + since < Wrap
             THEN frame_start_millis + since ELSE frame_start_millis + since - Wrap
        /\ Plus(frame_start_millis, since + n) = IF frame_start_millis + (since + n) < Wrap
             THEN frame_start_millis + (since + n) ELSE frame_start_millis + (since + n) - Wrap
    <3>1. /\ Plus(clock, n) = IF clock + n < 0 THEN clock + n + Wrap
             ELSE IF clock + n < Wrap THEN clock + n ELSE clock + n - Wrap
      BY ONLY <1>0, PlusTurns
    <3>2. Plus(frame_start_millis, since) = IF frame_start_millis + since < 0 THEN frame_start_millis + since + Wrap
             ELSE IF frame_start_millis + since < Wrap THEN frame_start_millis + since ELSE frame_start_millis + since - Wrap
      BY ONLY <2>2, <2>3, PlusTurns
    <3>3. Plus(frame_start_millis, since + n) = IF frame_start_millis + (since + n) < 0 THEN frame_start_millis + (since + n) + Wrap
             ELSE IF frame_start_millis + (since + n) < Wrap THEN frame_start_millis + (since + n)
             ELSE frame_start_millis + (since + n) - Wrap
      BY ONLY <2>2, <2>3, PlusTurns
    <3> QED BY ONLY <1>0, <2>1, <2>2, <3>1, <3>2, <3>3, LoopConstants, n \in 0 .. MaxStep
  <2>5. Plus(clock, n) = Plus(frame_start_millis, since + n)
    BY ONLY <1>0, <2>1, <2>2, <2>3, <2>4, LoopConstants, n \in 0 .. MaxStep
  <2> QED BY <1>1, <2>1, <2>5
<1>4. ASSUME Mark + 2 * MaxStep < Wrap \/ Mark >= Wrap
      PROVE  since' <= Second + (Unseen + 1) * MaxStep
  <2>1. since <= Second + Unseen * MaxStep /\ since \in 0 .. SinceMax
    BY <1>4 DEF CountsFromReport, LoopTypes
  <2>2. Unseen * MaxStep + n <= (Unseen + 1) * MaxStep /\ (Unseen + 1) * MaxStep <= 2 * MaxStep
        /\ Unseen * MaxStep \in Nat /\ (Unseen + 1) * MaxStep \in Nat
    BY LoopConstants
  <2>3. since + n <= Second + (Unseen + 1) * MaxStep /\ since + n <= SinceMax
    BY ONLY <1>0, <2>1, <2>2, LoopConstants DEF SinceMax
  <2> QED BY <1>2, <2>3
<1>5. Mark' = Mark
  BY DEF Mark
<1>6. CountsFromReport'
  BY ONLY <1>3, <1>4, <1>5, Unseen' = Unseen + 1 DEF CountsFromReport, SinceMax
<1> QED BY <1>1, <1>2, <1>6

\* The rain's clock is as far behind as before, and the frame.
LEMMA RainWaits ==
  ASSUME LoopTypes, RainIsBehind, NEW n \in 0 .. MaxStep, clock' = Plus(clock, n),
         UNCHANGED <<rain, program>>, Frames' = Frames + 1, Frames \in 2 .. 3
  PROVE  RainIsBehind'
<1> SUFFICES ASSUME ~rain.first
             PROVE  Plus(clock', - rain.last) \in rain.delta .. Frames' * MaxStep
  BY DEF RainIsBehind, app
<1>1. Plus(clock, - rain.last) \in rain.delta .. Frames * MaxStep
  BY DEF RainIsBehind
<1>2. /\ clock \in 0 .. Wrap - 1 /\ rain.last \in 0 .. Wrap - 1 /\ n \in 0 .. Wrap - 1
      /\ rain.delta \in Int
  BY LoopConstants DEF LoopTypes
<1>3. Frames * MaxStep + n <= Frames' * MaxStep /\ Frames' * MaxStep <= 4 * MaxStep
      /\ Frames * MaxStep \in Int /\ Frames' * MaxStep \in Int
  BY LoopConstants
<1>4. Plus(clock, - rain.last) + n < Wrap
  BY <1>1, <1>2, <1>3, LoopConstants
<1>5. Plus(clock', - rain.last) = Plus(clock, - rain.last) + n
  BY <1>2, <1>4, Elapses
<1> QED BY <1>1, <1>2, <1>3, <1>5

LEMMA EntryReplaced ==
  ASSUME NEW s \in Seq(Nat), NEW k \in 1 .. Len(s), NEW v \in Nat
  PROVE  /\ [s EXCEPT ![k] = v] \in Seq(Nat) /\ Len([s EXCEPT ![k] = v]) = Len(s)
         /\ [s EXCEPT ![k] = v][k] = v
         /\ \A j \in 1 .. Len(s) : j # k => [s EXCEPT ![k] = v][j] = s[j]
  OBVIOUS

LEMMA FlushFrameSamples ==
  ASSUME LoopInv, NEW n \in 0 .. MaxStep, phase = "drawn", phase' = "flushed",
         clock' = Plus(clock, n),
         times' = [times EXCEPT !.flush = PushBack(@, Plus(clock', - start))],
         took' = [took EXCEPT ![Len(took)] = @ + n]
  PROVE  /\ times' \in [draw : Seq(Nat), flush : Seq(Nat)] /\ took' \in Seq(Nat)
         /\ SampledTogether'
<1>0. LoopTypes /\ SampledTogether
  BY DEF LoopInv
<1>1. clock \in 0 .. Wrap - 1 /\ n \in 0 .. Wrap - 1 /\ n \in Nat
  <2>1. clock \in 0 .. Wrap - 1
    BY <1>0 DEF LoopTypes
  <2> QED BY ONLY <2>1, LoopConstants, n \in 0 .. MaxStep
<1>2. Plus(clock, - clock) = 0
  <2>1. Plus(clock, - clock) = IF clock < clock THEN clock - clock + Wrap ELSE clock - clock
    BY ONLY <1>1, Difference
  <2> QED BY ONLY <1>1, <2>1, LoopConstants
<1>3. Plus(clock', - start) = n
  <2>1. start = clock
    BY <1>0 DEF SampledTogether
  <2>2. Plus(clock, - clock) + n < Wrap
    BY <1>1, <1>2, LoopConstants
  <2>3. Plus(Plus(clock, n), - clock) = Plus(clock, - clock) + n
    BY ONLY <1>1, <2>2, Elapses
  <2> QED BY ONLY <1>1, <1>2, <2>1, <2>3, clock' = Plus(clock, n)
<1>4. times.flush \in Seq(Nat) /\ times.draw \in Seq(Nat) /\ took \in Seq(Nat)
      /\ times = [draw |-> times.draw, flush |-> times.flush]
  BY <1>0 DEF LoopTypes
<1> DEFINE flush == PushBack(times.flush, n)
           l == Len(took)
<1>5. times' = [draw |-> times.draw, flush |-> flush]
  BY <1>3, <1>4
<1>6. /\ l > 0 /\ l <= Samples /\ Len(times.draw) = l /\ took[l] = times.draw[l]
      /\ Behind = Len(times.flush) - (l - 1)
      /\ Behind = 0 \/ (Behind = 1 /\ l = Samples)
      /\ \A j \in 1 .. l - 1 : took[j] = times.draw[j] + times.flush[j + Behind]
  BY <1>0 DEF SampledTogether, Behind
<1>7. l \in Nat /\ Len(times.flush) \in Nat /\ took[l] \in Nat
  BY <1>4, <1>6
<1>8. Len(times.flush) <= Samples
  <2>1. /\ Behind = Len(times.flush) - (l - 1) /\ l <= Samples
        /\ Behind = 0 \/ (Behind = 1 /\ l = Samples)
    BY ONLY <1>6
  <2> HIDE DEF l
  <2> QED BY ONLY <1>7, <2>1, LoopConstants
<1>9. /\ flush \in Seq(Nat)
      /\ Len(flush) = IF Len(times.flush) < Samples THEN Len(times.flush) + 1 ELSE Samples
      /\ flush[Len(flush)] = n
      /\ \A j \in 1 .. Len(flush) - 1 :
           flush[j] = times.flush[IF Len(times.flush) < Samples THEN j ELSE j + 1]
  BY <1>1, <1>4, <1>8, PushedBack
<1>10. took' = [took EXCEPT ![l] = took[l] + n]
  OBVIOUS
<1>11. /\ took' \in Seq(Nat) /\ Len(took') = l
       /\ took'[l] = took[l] + n /\ \A j \in 1 .. l - 1 : took'[j] = took[j]
  <2>1. l \in 1 .. Len(took) /\ took[l] + n \in Nat /\ \A j \in 1 .. l - 1 : j \in 1 .. Len(took) /\ j # l
    BY ONLY <1>1, <1>6, <1>7
  <2> HIDE DEF l
  <2>2. /\ [took EXCEPT ![l] = took[l] + n] \in Seq(Nat)
        /\ Len([took EXCEPT ![l] = took[l] + n]) = Len(took)
        /\ [took EXCEPT ![l] = took[l] + n][l] = took[l] + n
        /\ \A j \in 1 .. Len(took) : j # l => [took EXCEPT ![l] = took[l] + n][j] = took[j]
    BY ONLY <1>4, <2>1, EntryReplaced
  <2> QED BY ONLY <1>10, <2>1, <2>2 DEF l
<1> DEFINE b == Behind
           lf == Len(times.flush)
<1> HIDE DEF flush, l, b, lf
<1>12. Len(flush) = l /\ \A j \in 1 .. l : took'[j] = times.draw[j] + flush[j]
  <2>1. b = lf - (l - 1) /\ (b = 0 \/ (b = 1 /\ l = Samples))
    BY <1>6 DEF b, lf
  <2>2. l \in Nat /\ lf \in Nat /\ l > 0 /\ l <= Samples /\ lf <= Samples
    BY <1>6, <1>7, <1>8 DEF lf
  <2>3. /\ Len(flush) = IF lf < Samples THEN lf + 1 ELSE Samples
        /\ flush[Len(flush)] = n
        /\ \A j \in 1 .. Len(flush) - 1 : flush[j] = times.flush[IF lf < Samples THEN j ELSE j + 1]
    BY <1>9 DEF lf
  <2>4. Len(flush) = l /\ b = IF lf < Samples THEN 0 ELSE 1
    BY ONLY <2>1, <2>2, <2>3, LoopConstants
  <2>5. \A j \in 1 .. l - 1 : flush[j] = times.flush[j + b]
    BY ONLY <2>2, <2>3, <2>4
  <2>6. \A j \in 1 .. l - 1 : took[j] = times.draw[j] + times.flush[j + b]
    BY <1>6 DEF b
  <2>7. \A j \in 1 .. l - 1 : took'[j] = times.draw[j] + flush[j]
    BY ONLY <2>2, <2>5, <2>6, <1>11
  <2>8. took'[l] = times.draw[l] + flush[l]
    BY ONLY <1>6, <1>11, <2>3, <2>4
  <2> QED BY ONLY <2>2, <2>4, <2>7, <2>8
<1>13. SampledTogether'
  <2>1. times'.draw = times.draw /\ times'.flush = flush
    BY <1>5
  <2>2. /\ Len(times'.draw) = Len(took') /\ Len(took') <= Samples
        /\ Len(times'.flush) = Len(took')
    BY ONLY <1>6, <1>11, <1>12, <2>1
  <2>3. Len(took') = l
    BY ONLY <1>11
  <2>4. \A j \in 1 .. Len(took') : took'[j] = times'.draw[j] + times'.flush[j]
    BY ONLY <1>12, <2>1, <2>3, ZenonT(30)
  <2> QED BY ONLY <2>2, <2>4, phase' = "flushed" DEF SampledTogether
<1>14. times' \in [draw : Seq(Nat), flush : Seq(Nat)]
  BY ONLY <1>4, <1>5, <1>9
<1> QED BY ONLY <1>11, <1>13, <1>14

LEMMA FlushFrameStep ==
  ASSUME LoopInv, FlushFrame, program' = program PROVE LoopInv'
<1>1. PICK n \in 0 .. MaxStep :
        /\ Passes(n)
        /\ times' = [times EXCEPT !.flush = PushBack(@, Plus(clock', - start))]
        /\ took' = [took EXCEPT ![Len(took)] = @ + n]
  BY DEF FlushFrame
<1>2. /\ phase = "drawn" /\ phase' = "flushed" /\ clock' = Plus(clock, n)
      /\ start' = start /\ frame_start_millis' = frame_start_millis /\ rain' = rain
  BY <1>1 DEF FlushFrame, Passes
<1>3. LoopTypes /\ RainIsBehind /\ CountsFromReport
  BY DEF LoopInv
<1>4. Unseen = 1 /\ Unseen' = 2 /\ Frames = 2 /\ Frames' = 3
  BY <1>2 DEF Unseen, Frames
<1>5. clock' \in 0 .. Wrap - 1 /\ since' \in 0 .. SinceMax /\ CountsFromReport'
  BY <1>1, <1>2, <1>3, <1>4, TimePasses
<1>6. RainIsBehind'
  BY <1>2, <1>3, <1>4, RainWaits
<1>7. /\ times' \in [draw : Seq(Nat), flush : Seq(Nat)] /\ took' \in Seq(Nat)
      /\ SampledTogether'
  BY <1>1, <1>2, FlushFrameSamples
<1>8. LoopTypes'
  BY <1>2, <1>3, <1>5, <1>7 DEF LoopTypes, SinceMax
<1> QED BY <1>5, <1>6, <1>7, <1>8 DEF LoopInv

LEMMA DrawFrameSamples ==
  ASSUME LoopInv, NEW n \in 0 .. MaxStep, phase = "start", phase' = "drawn",
         clock' = Plus(clock, n), start' = clock',
         times' = [times EXCEPT !.draw = PushBack(@, Plus(clock', - clock))],
         took' = PushBack(took, n)
  PROVE  /\ times' \in [draw : Seq(Nat), flush : Seq(Nat)] /\ took' \in Seq(Nat)
         /\ SampledTogether'
<1>0. LoopTypes /\ SampledTogether
  BY DEF LoopInv
<1>1. clock \in 0 .. Wrap - 1 /\ n \in 0 .. Wrap - 1 /\ n \in Nat
  <2>1. clock \in 0 .. Wrap - 1
    BY <1>0 DEF LoopTypes
  <2> QED BY ONLY <2>1, LoopConstants, n \in 0 .. MaxStep
<1>2. Plus(clock', - clock) = n
  <2>1. Plus(clock, - clock) = IF clock < clock THEN clock - clock + Wrap ELSE clock - clock
    BY ONLY <1>1, Difference
  <2>3. Plus(clock, - clock) = 0
    BY ONLY <1>1, <2>1, LoopConstants
  <2>4. Plus(clock, - clock) + n < Wrap
    BY <1>1, <2>3, LoopConstants
  <2>5. Plus(Plus(clock, n), - clock) = Plus(clock, - clock) + n
    BY ONLY <1>1, <2>4, Elapses
  <2> QED BY ONLY <1>1, <2>3, <2>5, clock' = Plus(clock, n)
<1>3. times.flush \in Seq(Nat) /\ times.draw \in Seq(Nat) /\ took \in Seq(Nat)
      /\ times = [draw |-> times.draw, flush |-> times.flush]
  BY <1>0 DEF LoopTypes
<1> DEFINE draw == PushBack(times.draw, n)
           t == PushBack(took, n)
           l == Len(took)
           i == IF l < Samples THEN 0 ELSE 1
           m == IF l < Samples THEN l + 1 ELSE Samples
<1>4. times' = [draw |-> draw, flush |-> times.flush]
  BY <1>2, <1>3
<1>5. /\ l <= Samples /\ Len(times.draw) = l /\ Len(times.flush) = l
      /\ \A j \in 1 .. l : took[j] = times.draw[j] + times.flush[j]
  BY <1>0, phase = "start" DEF SampledTogether
<1>6. /\ draw \in Seq(Nat) /\ Len(draw) = m /\ draw[Len(draw)] = n
      /\ \A j \in 1 .. Len(draw) - 1 : draw[j] = times.draw[IF Len(times.draw) < Samples THEN j ELSE j + 1]
  <2>1. times.draw \in Seq(Nat) /\ Len(times.draw) <= Samples /\ n \in Nat /\ Len(times.draw) = l
    BY ONLY <1>1, <1>3, <1>5
  <2> HIDE DEF l
  <2> QED BY ONLY <2>1, PushedBack
<1>7. /\ t \in Seq(Nat) /\ Len(t) = m /\ t[Len(t)] = n
      /\ \A j \in 1 .. Len(t) - 1 : t[j] = took[IF Len(took) < Samples THEN j ELSE j + 1]
  BY <1>1, <1>3, <1>5, PushedBack
<1>8. l \in Nat /\ m \in Nat /\ i \in {0, 1} /\ m > 0 /\ m <= Samples /\ i = l - (m - 1)
      /\ (i = 1 => m = Samples) /\ \A j \in 1 .. m - 1 : j + i \in 1 .. l
  <2>1. l \in Nat
    BY ONLY <1>3
  <2>2. l <= Samples
    BY ONLY <1>5
  <2> HIDE DEF l
  <2> QED BY ONLY <2>1, <2>2, LoopConstants
<1>9. \A j \in 1 .. m - 1 : draw[j] = times.draw[j + i] /\ t[j] = took[j + i]
  <2> HIDE DEF draw, t
  <2>1. \A j \in 1 .. m - 1 : (IF l < Samples THEN j ELSE j + 1) = j + i
    BY <1>8
  <2> QED BY ONLY <1>5, <1>6, <1>7, <2>1
<1> HIDE DEF draw, t, l, i, m
<1>10. \A j \in 1 .. m - 1 : t[j] = draw[j] + times.flush[j + i]
  BY ONLY <1>5, <1>8, <1>9
<1>11. SampledTogether'
  <2>1. times'.draw = draw /\ times'.flush = times.flush /\ took' = t
    BY <1>4 DEF t
  <2>2. Behind' = i
    BY ONLY <1>5, <1>7, <1>8, <2>1 DEF Behind
  <2>3. Len(times'.draw) = Len(took') /\ Len(took') <= Samples /\ Len(took') > 0 /\ Len(took') = m
    BY ONLY <1>6, <1>7, <1>8, <2>1
  <2>4. took'[Len(took')] = times'.draw[Len(took')]
    BY ONLY <1>6, <1>7, <2>1
  <2>5. \A j \in 1 .. Len(took') - 1 : took'[j] = times'.draw[j] + times'.flush[j + Behind']
    BY ONLY <1>10, <2>1, <2>2, <2>3, ZenonT(30)
  <2>6. Behind' = 0 \/ (Behind' = 1 /\ Len(took') = Samples)
    BY ONLY <1>8, <2>2, <2>3
  <2> QED BY ONLY <2>3, <2>4, <2>5, <2>6, phase' = "drawn", start' = clock' DEF SampledTogether
<1>12. times' \in [draw : Seq(Nat), flush : Seq(Nat)]
  BY ONLY <1>3, <1>4, <1>6
<1>13. took' \in Seq(Nat)
  BY ONLY <1>7, took' = PushBack(took, n) DEF t
<1> QED BY ONLY <1>11, <1>12, <1>13

\* Each fall of the rain takes up what the last one left.
LEMMA RainFalls ==
  ASSUME LoopTypes, RainIsBehind, phase = "start", phase' = "drawn", app = "32blit_demo",
         NEW n \in 0 .. MaxStep, NEW drawn \in 0 .. n, clock' = Plus(clock, n),
         rain' = Rain(clock, drawn), program' = program
  PROVE  /\ rain' \in [delta : 0 .. MaxStep, last : 0 .. Wrap - 1, elapsed : 0 .. 4 * MaxStep, first : BOOLEAN]
         /\ RainIsBehind'
<1> DEFINE d == rain.delta
           time_ms == Plus(clock, - d)
           last == IF rain.first THEN time_ms ELSE rain.last
           e == Plus(time_ms, - last)
<1>1. /\ clock \in 0 .. Wrap - 1 /\ d \in 0 .. MaxStep /\ rain.last \in 0 .. Wrap - 1
      /\ rain.first \in BOOLEAN
  BY DEF LoopTypes
<1>2. d \in 0 .. Wrap - 1 /\ n \in 0 .. Wrap - 1 /\ drawn \in 0 .. MaxStep
  BY ONLY <1>1, LoopConstants, n \in 0 .. MaxStep, drawn \in 0 .. n
<1>3. rain' = [delta |-> drawn, last |-> time_ms, elapsed |-> Signed(e), first |-> FALSE]
  BY DEF Rain
<1>4. rain.first => d = 0
  BY DEF RainIsBehind
<1>5. ~rain.first => Plus(clock, - rain.last) \in d .. 4 * MaxStep
  BY phase = "start" DEF RainIsBehind, Frames
<1> HIDE DEF d
<1>6. time_ms \in 0 .. Wrap - 1 /\ time_ms = IF clock < d THEN clock - d + Wrap ELSE clock - d
  BY ONLY <1>1, <1>2, Difference
<1> HIDE DEF time_ms
<1>7. last \in 0 .. Wrap - 1
  BY ONLY <1>1, <1>6
<1>8. e = IF time_ms < last THEN time_ms - last + Wrap ELSE time_ms - last
  BY ONLY <1>6, <1>7, Difference
<1>9. e \in 0 .. 4 * MaxStep
  <2>1. CASE rain.first
    BY ONLY <1>6, <1>8, <2>1, LoopConstants DEF last
  <2>2. CASE ~rain.first
    <3>1. Plus(clock, - rain.last) = IF clock < rain.last THEN clock - rain.last + Wrap ELSE clock - rain.last
      BY ONLY <1>1, Difference
    <3>2. last = rain.last
      BY <2>2
    <3> HIDE DEF last, e
    <3> QED BY ONLY <1>1, <1>5, <1>6, <1>8, <2>2, <3>1, <3>2, LoopConstants
  <2> QED BY <2>1, <2>2
<1> HIDE DEF last, e
<1>10. Signed(e) = e
  BY ONLY <1>9, LoopConstants DEF Signed
<1>11. rain' \in [delta : 0 .. MaxStep, last : 0 .. Wrap - 1, elapsed : 0 .. 4 * MaxStep, first : BOOLEAN]
  BY ONLY <1>2, <1>3, <1>6, <1>9, <1>10
<1>12. RainIsBehind'
  <2>1. Plus(clock, - time_ms) = IF clock < time_ms THEN clock - time_ms + Wrap ELSE clock - time_ms
    BY ONLY <1>1, <1>6, Difference
  <2>2. Plus(clock, - time_ms) = d
    BY ONLY <1>1, <1>2, <1>6, <2>1, LoopConstants
  <2>3. Plus(clock, - time_ms) + n < Wrap
    BY ONLY <1>1, <2>2, LoopConstants, n \in 0 .. MaxStep
  <2>4. Plus(Plus(clock, n), - time_ms) = Plus(clock, - time_ms) + n
    BY ONLY <1>1, <1>2, <1>6, <2>3, Elapses
  <2>5. Plus(clock', - time_ms) \in drawn .. 2 * MaxStep
    BY ONLY <1>1, <2>2, <2>4, LoopConstants, n \in 0 .. MaxStep, drawn \in 0 .. n, clock' = Plus(clock, n)
  <2>6. rain'.last = time_ms /\ rain'.delta = drawn /\ ~rain'.first
    BY <1>3
  <2>7. app' = "32blit_demo"
    BY DEF app
  <2>8. Frames' = 2
    BY DEF Frames
  <2> QED BY ONLY <2>5, <2>6, <2>7, <2>8 DEF RainIsBehind
<1> QED BY ONLY <1>11, <1>12

LEMMA DrawFrameStep ==
  ASSUME LoopInv, DrawFrame(app = "32blit_demo"), program' = program PROVE LoopInv'
<1>1. PICK n \in 0 .. MaxStep :
        /\ Passes(n)
        /\ \E drawn \in 0 .. n : rain' = IF app = "32blit_demo" THEN Rain(clock, drawn) ELSE rain
        /\ times' = [times EXCEPT !.draw = PushBack(@, Plus(clock', - clock))]
        /\ took' = PushBack(took, n) /\ start' = clock'
  BY DEF DrawFrame
<1>2. /\ phase = "start" /\ phase' = "drawn" /\ clock' = Plus(clock, n)
      /\ start' = clock' /\ frame_start_millis' = frame_start_millis
  BY <1>1 DEF DrawFrame, Passes
<1>3. LoopTypes /\ RainIsBehind /\ CountsFromReport
  BY DEF LoopInv
<1>4. Unseen = 0 /\ Unseen' = 1
  BY <1>2 DEF Unseen
<1>5. clock' \in 0 .. Wrap - 1 /\ since' \in 0 .. SinceMax /\ CountsFromReport'
  BY <1>1, <1>2, <1>3, <1>4, TimePasses
<1>6. /\ rain' \in [delta : 0 .. MaxStep, last : 0 .. Wrap - 1, elapsed : 0 .. 4 * MaxStep, first : BOOLEAN]
      /\ RainIsBehind'
  <2>1. PICK drawn \in 0 .. n : rain' = IF app = "32blit_demo" THEN Rain(clock, drawn) ELSE rain
    BY <1>1
  <2>2. CASE app = "32blit_demo"
    <3>1. rain' = Rain(clock, drawn)
      BY <2>1, <2>2
    <3> QED BY ONLY <1>2, <1>3, <2>2, <3>1, program' = program, RainFalls
  <2>3. CASE app # "32blit_demo"
    <3>1. rain' = rain /\ rain.first
      BY <1>3, <2>1, <2>3 DEF RainIsBehind
    <3> QED BY ONLY <1>3, <3>1 DEF RainIsBehind, LoopTypes
  <2> QED BY ONLY <2>2, <2>3
<1>7. /\ times' \in [draw : Seq(Nat), flush : Seq(Nat)] /\ took' \in Seq(Nat)
      /\ SampledTogether'
  BY <1>1, <1>2, DrawFrameSamples
<1>8. LoopTypes'
  BY ONLY <1>2, <1>3, <1>5, <1>6, <1>7 DEF LoopTypes, SinceMax
<1> QED BY ONLY <1>5, <1>6, <1>7, <1>8 DEF LoopInv

\* The report, and the property of it.
LEMMA CheckTimeStep ==
  ASSUME LoopInv, CheckTime, program' = program
  PROVE  /\ LoopInv'
         /\ ReportsWhenDue
<1>1. /\ phase = "flushed" /\ phase' = "start" /\ start' = start /\ times' = times
      /\ rain' = rain /\ took' = took
      /\ Report \/ (~Due /\ clock' = clock /\ since' = since /\ frame_start_millis' = frame_start_millis)
  BY DEF CheckTime
<1>2. LoopTypes /\ RainIsBehind /\ CountsFromReport /\ SampledTogether
  BY DEF LoopInv
<1>3. /\ clock \in 0 .. Wrap - 1 /\ frame_start_millis \in 0 .. Wrap - 1 /\ since \in Nat
      /\ since \in 0 .. SinceMax
  BY <1>2, LoopConstants DEF LoopTypes, SinceMax
<1>4. Unseen = 2 /\ Unseen' = 0 /\ Frames = 3 /\ Frames' = 4
  BY <1>1 DEF Unseen, Frames
<1>5. /\ Mark + 2 * MaxStep < Wrap => (Due <=> since > Second)
      /\ Mark >= Wrap => (Due <=> ~Wrapped \/ since > Second) 
      /\ Mark < Wrap /\ since < SinceMax => (Due <=> ~Wrapped /\ since > Second)
      /\ Mark + 2 * MaxStep < Wrap \/ Mark >= Wrap => since < SinceMax
  <2>1. Plus(frame_start_millis, Second) = IF Mark < Wrap THEN Mark ELSE Mark - Wrap
    <3>1. Second \in Int /\ - Wrap <= Second /\ Second <= Wrap
      BY LoopConstants
    <3>2. Plus(frame_start_millis, Second) = IF frame_start_millis + Second < 0 THEN frame_start_millis + Second + Wrap
            ELSE IF frame_start_millis + Second < Wrap THEN frame_start_millis + Second ELSE frame_start_millis + Second - Wrap
      BY ONLY <1>3, <3>1, PlusTurns
    <3> QED BY ONLY <1>3, <3>2, LoopConstants DEF Mark
  <2>2. since < SinceMax =>
          clock = IF frame_start_millis + since < Wrap THEN frame_start_millis + since
                  ELSE frame_start_millis + since - Wrap
    <3> HAVE since < SinceMax
    <3>1. since \in Int /\ - Wrap <= since /\ since <= Wrap
      BY <1>3, LoopConstants DEF SinceMax
    <3>2. Plus(frame_start_millis, since) = IF frame_start_millis + since < 0 THEN frame_start_millis + since + Wrap
            ELSE IF frame_start_millis + since < Wrap THEN frame_start_millis + since ELSE frame_start_millis + since - Wrap
      BY ONLY <1>3, <3>1, PlusTurns
    <3>3. clock = Plus(frame_start_millis, since)
      BY <1>2 DEF CountsFromReport
    <3> QED BY ONLY <1>3, <3>2, <3>3, LoopConstants
  <2>3. Mark + 2 * MaxStep < Wrap \/ Mark >= Wrap => since <= Second + 2 * MaxStep
    BY ONLY <1>2, <1>4 DEF CountsFromReport
  <2>4. Mark + 2 * MaxStep < Wrap \/ Mark >= Wrap => since < SinceMax
    BY ONLY <1>3, <2>3, LoopConstants DEF SinceMax
  <2>5. since < SinceMax => since < Wrap
    BY ONLY <1>3, LoopConstants DEF SinceMax
  <2>6. since < SinceMax /\ Mark < Wrap => (Due <=> ~Wrapped /\ since > Second)
    BY ONLY <1>3, <2>1, <2>2, <2>5, LoopConstants DEF Due, Wrapped, Mark
  <2>7. since < SinceMax /\ Mark >= Wrap => (Due <=> ~Wrapped \/ since > Second)
    BY ONLY <1>3, <2>1, <2>2, <2>5, LoopConstants DEF Due, Wrapped, Mark
  <2>8. Mark + 2 * MaxStep < Wrap => ~Wrapped /\ Mark < Wrap
    BY ONLY <1>3, <2>2, <2>3, <2>4, LoopConstants DEF Wrapped, Mark
  <2>9. Mark \in Int /\ Wrap \in Int
    BY ONLY <1>3, LoopConstants DEF Mark
  <2> QED BY ONLY <2>4, <2>6, <2>7, <2>8, <2>9
<1>6. SampledTogether'
  BY ONLY <1>1, <1>2 DEF SampledTogether
<1>7. ASSUME NEW n \in 0 .. MaxStep, clock' = Plus(clock, n)
      PROVE  clock' \in 0 .. Wrap - 1 /\ RainIsBehind'
  <2>1. n \in Int /\ - Wrap <= n /\ n <= Wrap
    BY LoopConstants
  <2>2. clock' \in 0 .. Wrap - 1
    BY ONLY <1>3, <1>7, <2>1, PlusTurns
  <2>3. RainIsBehind'
    BY <1>1, <1>2, <1>4, <1>7, RainWaits
  <2> QED BY <2>2, <2>3
<1>8. CASE Report
  <2>1. PICK n \in 0 .. MaxStep : clock' = Plus(clock, n)
    BY <1>8 DEF Report
  <2>2. Due /\ since' = 0 /\ frame_start_millis' = clock'
    BY <1>8 DEF Report
  <2>3. clock' \in 0 .. Wrap - 1 /\ RainIsBehind'
    BY <1>7, <2>1
  <2>4. CountsFromReport'
    <3>1. Unseen' * MaxStep = 0
      BY ONLY <1>4, LoopConstants
    <3>2. clock' = Plus(frame_start_millis', since')
      <4>1. 0 \in Int /\ - Wrap <= 0 /\ 0 <= Wrap
        BY ONLY LoopConstants
      <4>2. clock' = Plus(clock', 0)
        BY ONLY <2>3, <4>1, PlusTurns, LoopConstants
      <4> QED BY ONLY <2>2, <4>2, Zenon
    <3>3. since' <= Second + Unseen' * MaxStep
      BY ONLY <2>2, <3>1, LoopConstants
    <3> QED BY ONLY <3>2, <3>3 DEF CountsFromReport
  <2>5. LoopTypes'
    BY ONLY <1>1, <1>2, <2>2, <2>3, LoopConstants DEF LoopTypes, SinceMax
  <2>6. ReportsWhenDue
    BY ONLY <1>3, <1>5, <2>2 DEF ReportsWhenDue, OnTime
  <2> QED BY ONLY <1>6, <2>3, <2>4, <2>5, <2>6 DEF LoopInv
<1>9. CASE ~Due /\ clock' = clock /\ since' = since /\ frame_start_millis' = frame_start_millis
  <2>1. clock = Plus(clock, 0) /\ 0 \in 0 .. MaxStep
    <3>1. 0 \in Int /\ - Wrap <= 0 /\ 0 <= Wrap /\ 0 \in 0 .. MaxStep
      BY ONLY LoopConstants
    <3>2. Plus(clock, 0) = IF clock + 0 < 0 THEN clock + 0 + Wrap
                           ELSE IF clock + 0 < Wrap THEN clock + 0 ELSE clock + 0 - Wrap
      BY ONLY <1>3, <3>1, PlusTurns
    <3> QED BY ONLY <1>3, <3>1, <3>2, LoopConstants
  <2>2. RainIsBehind'
    BY <1>7, <1>9, <2>1
  <2>3. CountsFromReport'
    <3>1. Mark' = Mark /\ (Mark + 2 * MaxStep < Wrap \/ Mark >= Wrap => since <= Second)
      BY ONLY <1>3, <1>5, <1>9, LoopConstants DEF Mark
    <3>2. Unseen' * MaxStep = 0
      BY ONLY <1>4, LoopConstants
    <3>3. Mark' + 2 * MaxStep < Wrap \/ Mark' >= Wrap => since' <= Second + Unseen' * MaxStep
      BY ONLY <1>3, <1>9, <3>1, <3>2, LoopConstants
    <3>4. since' < SinceMax => clock' = Plus(frame_start_millis', since')
      BY ONLY <1>2, <1>9 DEF CountsFromReport
    <3> QED BY ONLY <3>3, <3>4 DEF CountsFromReport, SinceMax
  <2>4. LoopTypes'
    BY ONLY <1>1, <1>2, <1>3, <1>9, LoopConstants DEF LoopTypes, SinceMax
  <2>5. ReportsWhenDue
    BY ONLY <1>3, <1>5, <1>9 DEF ReportsWhenDue, OnTime
  <2> QED BY ONLY <1>6, <2>2, <2>3, <2>4, <2>5 DEF LoopInv
<1> QED BY ONLY <1>1, <1>8, <1>9

LEMMA LoopStands ==
  ASSUME LoopInv, UNCHANGED <<loopVars, program>> PROVE LoopInv'
<1>1. /\ clock' = clock /\ phase' = phase /\ start' = start /\ times' = times
      /\ frame_start_millis' = frame_start_millis /\ rain' = rain /\ took' = took /\ since' = since
      /\ program' = program
  BY DEF loopVars
<1> QED BY ONLY <1>1, LoopInv
    DEF LoopInv, LoopTypes, SampledTogether, Behind, RainIsBehind, Frames, CountsFromReport, Unseen, Mark, SinceMax, app

\* The average of the sums is the two averages' sum, but for what both cut off.
LEMMA Average ==
  ASSUME NEW ring \in Seq(Nat)
  PROVE  CalcAverageUint32Value(ring) = IF ring = << >> THEN 0 ELSE Sum(ring) \div Len(ring)
  BY DEF CalcAverageUint32Value, SumsOf, Adds, Sum

LEMMA EmptyIff ==
  ASSUME NEW s \in Seq(Nat) PROVE Len(s) \in Nat /\ (Len(s) = 0 <=> s = << >>)
  OBVIOUS

LEMMA AveragesAddUp ==
  ASSUME NEW a \in Seq(Nat), NEW b \in Seq(Nat), NEW c \in Seq(Nat),
         Len(a) = Len(b), Len(a) = Len(c), EachAdds(a, b, c, Len(a))
  PROVE  CalcAverageUint32Value(a) - CalcAverageUint32Value(b) - CalcAverageUint32Value(c) \in {0, 1}
<1> DEFINE l == Len(a)
<1>0. /\ l \in Nat /\ (l = 0 <=> a = << >>)
      /\ (Len(b) = 0 <=> b = << >>) /\ (Len(c) = 0 <=> c = << >>)
  BY EmptyIff
<1>3. /\ CalcAverageUint32Value(a) = IF l = 0 THEN 0 ELSE Sum(a) \div l
      /\ CalcAverageUint32Value(b) = IF l = 0 THEN 0 ELSE Sum(b) \div l
      /\ CalcAverageUint32Value(c) = IF l = 0 THEN 0 ELSE Sum(c) \div l
  BY <1>0, Average, ZenonT(30)
<1> HIDE DEF l
<1>1. CASE l = 0
  BY ONLY <1>1, <1>3
<1>2. CASE l # 0
  <2>1. l \in Int /\ l > 0
    BY ONLY <1>0, <1>2
  <2>2. Sum(a) = Sum(b) + Sum(c)
    BY SumOfSums DEF EachAdds
  <2>3. Sum(b) \in Int /\ Sum(c) \in Int
    BY SumNat
  <2>4. (Sum(b) + Sum(c)) \div l - Sum(b) \div l - Sum(c) \div l \in {0, 1}
    BY ONLY <2>1, <2>3, DivisionOfSums
  <2> QED BY ONLY <1>2, <1>3, <2>2, <2>4
<1> QED BY <1>1, <1>2

LEMMA LoopInvMeans == LoopInv => LoopTypeOK /\ TimesAddUp /\ RainNeverRunsBack
<1> SUFFICES ASSUME LoopInv PROVE LoopTypeOK /\ TimesAddUp /\ RainNeverRunsBack
  OBVIOUS
<1>1. LoopTypes /\ SampledTogether
  BY DEF LoopInv
<1>2. LoopTypeOK
  BY <1>1 DEF LoopTypes, LoopTypeOK, SampledTogether
<1>3. TimesAddUp
  <2> SUFFICES ASSUME phase # "drawn"
               PROVE  CalcAverageUint32Value(took) - CalcAverageUint32Value(times.draw)
                        - CalcAverageUint32Value(times.flush) \in {0, 1}
    BY DEF TimesAddUp
  <2>1. times.draw \in Seq(Nat) /\ times.flush \in Seq(Nat) /\ took \in Seq(Nat)
    BY <1>1 DEF LoopTypes
  <2>2. Len(took) = Len(times.draw) /\ Len(took) = Len(times.flush)
        /\ EachAdds(took, times.draw, times.flush, Len(took))
    BY <1>1 DEF SampledTogether, EachAdds
  <2> QED BY ONLY <2>1, <2>2, AveragesAddUp
<1>4. RainNeverRunsBack
  BY <1>1 DEF LoopTypes, RainNeverRunsBack
<1> QED BY <1>2, <1>3, <1>4

\* What DisplayLoop's steps do in the applications.
LEMMA TimesStep ==
  ASSUME LoopInv, [Next]_vars
  PROVE  /\ LoopInv'
         /\ phase = "flushed" /\ phase' = "start" => ReportsWhenDue
<1>1. CASE UNCHANGED <<loopVars, program>>
  <2>1. phase' = phase
    BY <1>1 DEF loopVars
  <2> QED BY <1>1, <2>1, LoopStands
<1>2. CASE DisplayLoopStep
  <2>1. program' = program
    BY <1>2 DEF DisplayLoopStep, Runs, bringVars
  <2>2. CASE DrawFrame(app = "32blit_demo")
    BY <2>1, <2>2, DrawFrameStep DEF DrawFrame
  <2>3. CASE FlushFrame
    BY <2>1, <2>3, FlushFrameStep DEF FlushFrame
  <2>4. CASE CheckTime
    BY <2>1, <2>4, CheckTimeStep
  <2> QED BY <1>2, <2>2, <2>3, <2>4 DEF DisplayLoopStep
<1>3. CASE Bring
  <2>1. program' = program
    BY <1>3 DEF Bring, BringUpStep, MakeCall, EnterLoop, Stays, bringVars
  <2> QED BY <1>1, <1>3, <2>1 DEF Bring
<1>4. CASE Rpc \/ BlinkyLoop \/ HostLoop \/ UNCHANGED vars
  BY <1>1, <1>4 DEF Rpc, BlinkyLoop, HostLoop, Runs, bringVars, vars
<1> QED BY <1>2, <1>3, <1>4 DEF Next

\* The times that the display loops report and hand to the rain are right,
\* whenever the counter wraps; a report comes each second but for the one in
\* which it wraps, where every frame reports or none does for a turn
\* (terminal_display main.cc:481-521, 32blit_demo main.cc:103-106).
THEOREM TimesOfTheLoop == Spec => LoopTimes
<1>1. Init => LoopInv
  BY LoopStarts DEF Init
<1>2. LoopInv /\ [Next]_vars => LoopInv'
  BY TimesStep
<1>3. LoopInv => LoopTypeOK /\ TimesAddUp /\ RainNeverRunsBack
  BY LoopInvMeans
<1>4. LoopInv /\ [Next]_vars =>
        [phase = "flushed" /\ phase' = "start" => ReportsWhenDue]_loopVars
  BY TimesStep
<1> QED BY <1>1, <1>2, <1>3, <1>4, PTL DEF Spec, LoopTimes, ReportsEverySecond

(***************************************************************************)
(* The superloop of rpc                                                    *)
(***************************************************************************)
N == Len(Packets)
Arrived == 4 * N - Len(wire)

SentBytes == [of : ToSet(Packets), byte : 0 .. 2]
\* Which packet the n-th byte is of.
Nth(n) == (n - 1) \div 4 + 1

\* How many of the first h bytes are no flags.
Bodies(h) == (h + 1) \div 4 + (h + 2) \div 4

SuperloopTypes ==
  /\ lost \subseteq ToSet(Packets)
  /\ output \in {"none", "log", "blink"}
  /\ blink \in [state : {0, 1}, counter : 0 .. CounterMax - 1]
  /\ led \in [pin : BOOLEAN, led_on : BOOLEAN]

\* h bytes have been through the decoder or were lost; the next is in the
\* register, and those that came in behind it are lost.
InFlight(h) ==
  /\ wire \in Seq(SentBytes) /\ Len(wire) <= 4 * N
  /\ \A k \in 1 .. Len(wire) : wire[k] = Sending[Arrived + k]
  /\ \/ rdr = << >> /\ h = Arrived
     \/ /\ h < Arrived /\ rdr = <<Sending[h + 1]>>
        /\ \A n \in h + 2 .. Arrived : Sending[n].of \in lost

\* The server has got some of the packets sent, in order.
Serves(sent, got) ==
  /\ sent \in [1 .. Len(got) -> 1 .. N]
  /\ \A k \in 1 .. Len(got) : got[k] = Packets[sent[k]] /\ got[k].address = RpcAddress
  /\ \A j, k \in 1 .. Len(got) : j < k => sent[j] < sent[k]

\* What the decoder holds came after the packet that the server got last.
Latest(sent, got) == IF Len(got) = 0 THEN 0 ELSE sent[Len(got)]
Collects(h, sent, held, got) ==
  /\ 4 * Latest(sent, got) <= h
  /\ \A k \in 1 .. Len(held) :
       held[k].byte # Flag /\ \E n \in 4 * Latest(sent, got) + 1 .. h : held[k] = Sending[n]
  /\ Len(held) <= Bodies(h)

\* The decoder holds what it has had of a packet of which nothing is lost, and
\* has given it to the server after its last byte.
Keeps(h, held, got, gone) ==
  \A i \in 1 .. N : Packets[i] \notin gone =>
    /\ h = 4 * i - 3 => held = << >>
    /\ h = 4 * i - 2 => held = <<Sending[4 * i - 2]>>
    /\ h = 4 * i - 1 => held = <<Sending[4 * i - 2], Sending[4 * i - 1]>>
    /\ h >= 4 * i /\ Packets[i].address = RpcAddress =>
         \E k \in 1 .. Len(got) : got[k] = Packets[i]

Decodes(h, held, got, gone) ==
  /\ held \in Seq(SentBytes) /\ got \in Seq(ToSet(Packets))
  /\ \E sent : Serves(sent, got) /\ Collects(h, sent, held, got)
  /\ Keeps(h, held, got, gone)

RpcInv ==
  /\ SuperloopTypes
  /\ \E h \in 0 .. 4 * N : InFlight(h) /\ Decodes(h, collected, served, lost)

LEMMA SentPackets ==
  /\ N \in Nat /\ CounterMax \in Nat /\ CounterMax > 0
  /\ \A i \in 1 .. N : Packets[i] \in ToSet(Packets)
  /\ \A i, j \in 1 .. N : Packets[i] = Packets[j] => i = j
  /\ ToSet(Packets) = {Packets[i] : i \in 1 .. N}
<1>1. N \in Nat /\ DOMAIN Packets = 1 .. N
  BY PacketsAssumption DEF N
<1>2. ToSet(Packets) = {Packets[i] : i \in 1 .. N}
  BY ONLY <1>1 DEF ToSet
<1>3. \A i, j \in 1 .. N : Packets[i] = Packets[j] => i = j
  BY ONLY <1>1, PacketsAssumption, Zenon
<1>4. CounterMax \in Nat /\ CounterMax > 0
  BY PacketsAssumption
<1> QED BY ONLY <1>1, <1>2, <1>3, <1>4

LEMMA SentByte ==
  ASSUME NEW n \in 1 .. 4 * N
  PROVE  /\ Nth(n) \in 1 .. N
         /\ Sending[n] = [of |-> Packets[Nth(n)],
                          byte |-> IF n % 4 = 2 THEN 1 ELSE IF n % 4 = 3 THEN 2 ELSE Flag]
         /\ Sending[n] \in SentBytes
<1>1. Nth(n) \in 1 .. N
  BY SentPackets DEF Nth
<1>2. Sending[n] = Bytes(Packets[Nth(n)])[((n - 1) % 4) + 1]
  BY DEF Sending, Nth, N
<1>3. CASE n % 4 = 1
  <2>1. ((n - 1) % 4) + 1 = 1
    BY <1>3, SentPackets
  <2>2. Sending[n] = [of |-> Packets[Nth(n)], byte |-> Flag]
    BY ONLY <1>2, <2>1 DEF Bytes
  <2> QED BY <1>1, <1>3, <2>2, SentPackets DEF SentBytes, Flag
<1>4. CASE n % 4 = 2
  <2>1. ((n - 1) % 4) + 1 = 2
    BY <1>4, SentPackets
  <2>2. Sending[n] = [of |-> Packets[Nth(n)], byte |-> 1]
    BY ONLY <1>2, <2>1 DEF Bytes
  <2> QED BY <1>1, <1>4, <2>2, SentPackets DEF SentBytes, Flag
<1>5. CASE n % 4 = 3
  <2>1. ((n - 1) % 4) + 1 = 3
    BY <1>5, SentPackets
  <2>2. Sending[n] = [of |-> Packets[Nth(n)], byte |-> 2]
    BY ONLY <1>2, <2>1 DEF Bytes
  <2> QED BY <1>1, <1>5, <2>2, SentPackets DEF SentBytes, Flag
<1>6. CASE n % 4 = 0
  <2>1. ((n - 1) % 4) + 1 = 4
    BY <1>6, SentPackets
  <2>2. Sending[n] = [of |-> Packets[Nth(n)], byte |-> Flag]
    BY ONLY <1>2, <2>1 DEF Bytes
  <2> QED BY <1>1, <1>6, <2>2, SentPackets DEF SentBytes, Flag
<1>7. n % 4 \in 0 .. 3
  BY SentPackets
<1> QED BY <1>3, <1>4, <1>5, <1>6, <1>7

\* The four bytes of the i-th packet.
LEMMA FourBytes ==
  ASSUME NEW i \in 1 .. N
  PROVE  /\ Sending[4 * i - 3] = [of |-> Packets[i], byte |-> Flag]
         /\ Sending[4 * i - 2] = [of |-> Packets[i], byte |-> 1]
         /\ Sending[4 * i - 1] = [of |-> Packets[i], byte |-> 2]
         /\ Sending[4 * i] = [of |-> Packets[i], byte |-> Flag]
<1>1. N \in Nat /\ i \in Int
  BY SentPackets
<1>2. \A n \in {4 * i - 3, 4 * i - 2, 4 * i - 1, 4 * i} : n \in 1 .. 4 * N /\ Nth(n) = i
  BY ONLY <1>1, i \in 1 .. N DEF Nth
<1>3. /\ (4 * i - 3) % 4 = 1 /\ (4 * i - 2) % 4 = 2 /\ (4 * i - 1) % 4 = 3 /\ (4 * i) % 4 = 0
  BY ONLY <1>1
<1>4. Sending[4 * i - 3] = [of |-> Packets[i], byte |-> Flag]
  BY ONLY <1>2, <1>3, SentByte
<1>5. Sending[4 * i - 2] = [of |-> Packets[i], byte |-> 1]
  BY ONLY <1>2, <1>3, SentByte
<1>6. Sending[4 * i - 1] = [of |-> Packets[i], byte |-> 2]
  BY ONLY <1>2, <1>3, SentByte
<1>7. Sending[4 * i] = [of |-> Packets[i], byte |-> Flag]
  BY ONLY <1>2, <1>3, SentByte
<1> QED BY <1>4, <1>5, <1>6, <1>7

LEMMA RpcStarts == InitSuperloop => RpcInv
<1> SUFFICES ASSUME InitSuperloop PROVE RpcInv
  OBVIOUS
<1>1. /\ wire = Sending /\ rdr = << >> /\ lost = {} /\ collected = << >> /\ served = << >>
      /\ output = "none" /\ blink = [state |-> 0, counter |-> 0] /\ led = Off
  BY DEF InitSuperloop
<1>2. SuperloopTypes
  BY <1>1, SentPackets DEF SuperloopTypes, Off
<1>3. Sending \in Seq(SentBytes) /\ Len(Sending) = 4 * N
  <2>1. Sending = [n \in 1 .. 4 * N |-> Sending[n]]
    BY DEF Sending, N
  <2>2. 4 * N \in Nat
    BY SentPackets
  <2>3. \A n \in 1 .. 4 * N : Sending[n] \in SentBytes
    BY SentByte
  <2>4. Sending \in [1 .. 4 * N -> SentBytes]
    BY ONLY <2>1, <2>3
  <2> QED BY ONLY <2>2, <2>4
<1>4. Arrived = 0
  BY <1>1, <1>3, SentPackets DEF Arrived
<1>5. InFlight(0)
  <2>1. \A k \in 1 .. Len(wire) : wire[k] = Sending[0 + k]
    BY <1>1, <1>3, SentPackets
  <2> QED BY <1>1, <1>3, <1>4, <2>1, SentPackets DEF InFlight
<1>6. Decodes(0, << >>, << >>, {})
  <2>1. Serves(<< >>, << >>) /\ Collects(0, << >>, << >>, << >>)
    BY DEF Serves, Collects, Latest, Bodies
  <2>2. Keeps(0, << >>, << >>, {})
    BY SentPackets DEF Keeps
  <2> QED BY <2>1, <2>2 DEF Decodes
<1>7. 0 \in 0 .. 4 * N
  BY SentPackets
<1> QED BY <1>1, <1>2, <1>5, <1>6, <1>7 DEF RpcInv

\* Bytes lost behind the register do not reach the decoder.
LEMMA Skips ==
  ASSUME NEW held, NEW got, NEW gone, NEW h \in 0 .. 4 * N, NEW m \in h .. 4 * N,
         Decodes(h, held, got, gone), \A n \in h + 1 .. m : Sending[n].of \in gone
  PROVE  Decodes(m, held, got, gone)
<1>0. N \in Nat /\ h \in Nat /\ m \in Nat /\ h <= m /\ m <= 4 * N
  BY SentPackets
<1>1. PICK sent : Serves(sent, got) /\ Collects(h, sent, held, got)
  BY DEF Decodes
<1>2. Collects(m, sent, held, got)
  <2> DEFINE l == 4 * Latest(sent, got)
  <2>1. got \in Seq(ToSet(Packets)) /\ held \in Seq(SentBytes)
    BY DEF Decodes
  <2>2. Latest(sent, got) \in Nat
    BY ONLY <1>0, <1>1, <2>1 DEF Latest, Serves
  <2>3. Bodies(h) <= Bodies(m) /\ Bodies(h) \in Nat /\ Bodies(m) \in Nat /\ Len(held) \in Nat
    BY ONLY <1>0, <2>1 DEF Bodies
  <2>4. l \in Nat /\ l <= h /\ Len(held) <= Bodies(h)
    BY ONLY <1>1, <2>2 DEF Collects
  <2>5. \A k \in 1 .. Len(held) : held[k].byte # Flag /\ \E n \in l + 1 .. h : held[k] = Sending[n]
    BY ONLY <1>1 DEF Collects
  <2> HIDE DEF l
  <2>6. \A n \in l + 1 .. h : n \in l + 1 .. m
    BY ONLY <1>0, <2>4
  <2>7. \A k \in 1 .. Len(held) : held[k].byte # Flag /\ \E n \in l + 1 .. m : held[k] = Sending[n]
    BY ONLY <2>5, <2>6, Zenon
  <2>8. l <= m /\ Len(held) <= Bodies(m)
    BY ONLY <1>0, <2>3, <2>4
  <2> QED BY ONLY <2>7, <2>8 DEF Collects, l
<1>3. Keeps(m, held, got, gone)
  <2>1. Keeps(h, held, got, gone)
    BY DEF Decodes
  <2>2. CASE m = h
    BY <2>1, <2>2
  <2>3. CASE h < m
    <3> SUFFICES ASSUME NEW i \in 1 .. N, Packets[i] \notin gone
                 PROVE  /\ m = 4 * i - 3 => held = << >>
                        /\ m = 4 * i - 2 => held = <<Sending[4 * i - 2]>>
                        /\ m = 4 * i - 1 => held = <<Sending[4 * i - 2], Sending[4 * i - 1]>>
                        /\ m >= 4 * i /\ Packets[i].address = RpcAddress =>
                             \E k \in 1 .. Len(got) : got[k] = Packets[i]
      BY DEF Keeps
    <3>1. \A n \in {4 * i - 3, 4 * i - 2, 4 * i - 1, 4 * i} : Sending[n].of = Packets[i]
      <4>1. /\ Sending[4 * i - 3] = [of |-> Packets[i], byte |-> Flag]
            /\ Sending[4 * i - 2] = [of |-> Packets[i], byte |-> 1]
            /\ Sending[4 * i - 1] = [of |-> Packets[i], byte |-> 2]
            /\ Sending[4 * i] = [of |-> Packets[i], byte |-> Flag]
        BY ONLY FourBytes, i \in 1 .. N
      <4>2. /\ Sending[4 * i - 3].of = Packets[i] /\ Sending[4 * i - 2].of = Packets[i]
            /\ Sending[4 * i - 1].of = Packets[i] /\ Sending[4 * i].of = Packets[i]
        BY ONLY <4>1
      <4> QED BY ONLY <4>2
    <3>2. {4 * i - 3, 4 * i - 2, 4 * i - 1, 4 * i} \cap (h + 1 .. m) = {}
      BY ONLY <3>1, Packets[i] \notin gone, \A n \in h + 1 .. m : Sending[n].of \in gone
    <3>3. 4 * i <= h \/ m < 4 * i - 3
      <4>1. \A n \in {4 * i - 3, 4 * i - 2, 4 * i - 1, 4 * i} : n < h + 1 \/ n > m
        BY ONLY <1>0, <3>2, i \in 1 .. N
      <4> QED BY ONLY <1>0, <2>3, <4>1, i \in 1 .. N
    <3>4. h >= 4 * i /\ Packets[i].address = RpcAddress =>
            \E k \in 1 .. Len(got) : got[k] = Packets[i]
      BY ONLY <2>1, i \in 1 .. N, Packets[i] \notin gone DEF Keeps
    <3>5. ~(m = 4 * i - 3) /\ ~(m = 4 * i - 2) /\ ~(m = 4 * i - 1) /\ (m >= 4 * i => h >= 4 * i)
      BY ONLY <1>0, <2>3, <3>3, i \in 1 .. N
    <3> QED BY ONLY <3>4, <3>5
  <2> QED BY ONLY <1>0, <2>2, <2>3
<1> QED BY <1>1, <1>2, <1>3 DEF Decodes

LEMMA Appended ==
  ASSUME NEW S, NEW s \in Seq(S), NEW e \in S
  PROVE  /\ Append(s, e) \in Seq(S) /\ Len(Append(s, e)) = Len(s) + 1 /\ Append(s, e)[Len(s) + 1] = e
         /\ \A k \in 1 .. Len(s) : Append(s, e)[k] = s[k]
         /\ Len(s) \in Nat /\ (Len(s) = 0 => Append(s, e) = <<e>>)
         /\ \A x : s = <<x>> => Append(s, e) = <<x, e>>
<1>1. /\ Append(s, e) \in Seq(S) /\ Len(Append(s, e)) = Len(s) + 1 /\ Append(s, e)[Len(s) + 1] = e
      /\ \A k \in 1 .. Len(s) : Append(s, e)[k] = s[k]
      /\ Len(s) \in Nat
  OBVIOUS
<1>2. Len(s) = 0 => Append(s, e) = <<e>>
  OBVIOUS
<1>3. ASSUME NEW x, s = <<x>> PROVE Append(s, e) = <<x, e>>
  <2>1. Len(s) = 1 /\ s[1] = x
    BY ONLY <1>3
  <2>2. x \in S
    BY <2>1
  <2>3. <<x, e>> \in Seq(S) /\ Len(<<x, e>>) = 2
    BY ONLY <2>2, e \in S
  <2>4. Append(s, e)[1] = x /\ Append(s, e)[2] = e /\ Len(Append(s, e)) = 2
    BY ONLY <1>1, <2>1
  <2>5. \A k \in 1 .. 2 : Append(s, e)[k] = <<x, e>>[k]
    BY ONLY <2>4
  <2> DEFINE a == Append(s, e)
  <2> HIDE DEF a
  <2>6. a \in Seq(S) /\ Len(a) = Len(<<x, e>>) /\ \A k \in 1 .. Len(a) : a[k] = <<x, e>>[k]
    BY ONLY <1>1, <2>3, <2>4, <2>5 DEF a
  <2> QED BY ONLY <2>3, <2>6, SeqEqual DEF a
<1> QED BY <1>1, <1>2, <1>3

\* What the decoder makes of the next byte.
LEMMA TakesBody ==
  ASSUME NEW held, NEW got, NEW gone, NEW h \in 0 .. 4 * N - 1,
         Decodes(h, held, got, gone), Sending[h + 1].byte # Flag
  PROVE  Decodes(h + 1, Append(held, Sending[h + 1]), got, gone)
<1> DEFINE b == Sending[h + 1]
           held1 == Append(held, b)
<1>0. N \in Nat /\ h \in Nat /\ h + 1 \in 1 .. 4 * N
  BY SentPackets
<1>1. held \in Seq(SentBytes) /\ got \in Seq(ToSet(Packets)) /\ Keeps(h, held, got, gone)
  BY DEF Decodes
<1>2. PICK sent : Serves(sent, got) /\ Collects(h, sent, held, got)
  BY DEF Decodes
<1>3. /\ b \in SentBytes /\ b.byte = IF (h + 1) % 4 = 2 THEN 1 ELSE IF (h + 1) % 4 = 3 THEN 2 ELSE Flag
      /\ Nth(h + 1) \in 1 .. N /\ b.of = Packets[Nth(h + 1)]
  <2>1. /\ Nth(h + 1) \in 1 .. N /\ b \in SentBytes
        /\ b = [of |-> Packets[Nth(h + 1)],
                byte |-> IF (h + 1) % 4 = 2 THEN 1 ELSE IF (h + 1) % 4 = 3 THEN 2 ELSE Flag]
    BY ONLY <1>0, SentByte
  <2> HIDE DEF b
  <2> QED BY ONLY <2>1
<1>4. (h + 1) % 4 \in {2, 3}
  BY ONLY <1>0, <1>3, b.byte # Flag
<1>5. /\ held1 \in Seq(SentBytes) /\ Len(held1) = Len(held) + 1 /\ held1[Len(held) + 1] = b
      /\ \A k \in 1 .. Len(held) : held1[k] = held[k]
      /\ Len(held) \in Nat /\ (Len(held) = 0 => held1 = <<b>>)
      /\ \A x : held = <<x>> => held1 = <<x, b>>
  <2> HIDE DEF b
  <2> QED BY ONLY <1>1, <1>3, Appended
<1>6. Collects(h + 1, sent, held1, got)
  <2> DEFINE l == 4 * Latest(sent, got)
  <2>1. Latest(sent, got) \in Nat
    BY ONLY <1>0, <1>1, <1>2 DEF Latest, Serves
  <2>2. Bodies(h + 1) = Bodies(h) + 1 /\ Bodies(h) \in Nat
    BY ONLY <1>0, <1>4 DEF Bodies
  <2>3. l \in Nat /\ l <= h /\ Len(held) <= Bodies(h)
    BY ONLY <1>2, <2>1 DEF Collects
  <2>4. \A k \in 1 .. Len(held) : held[k].byte # Flag /\ \E n \in l + 1 .. h : held[k] = Sending[n]
    BY ONLY <1>2 DEF Collects
  <2> HIDE DEF l, held1, b
  <2>5. \A n \in l + 1 .. h : n \in l + 1 .. h + 1
    BY ONLY <1>0, <2>3
  <2>6. ASSUME NEW k \in 1 .. Len(held1)
        PROVE  held1[k].byte # Flag /\ \E n \in l + 1 .. h + 1 : held1[k] = Sending[n]
    <3>1. CASE k = Len(held) + 1
      <4>1. held1[k] = Sending[h + 1]
        BY ONLY <1>5, <3>1 DEF b
      <4>2. h + 1 \in l + 1 .. h + 1
        BY ONLY <1>0, <2>3
      <4> QED BY ONLY <4>1, <4>2, Sending[h + 1].byte # Flag
    <3>2. CASE k \in 1 .. Len(held)
      <4>1. held1[k] = held[k]
        BY ONLY <1>5, <3>2
      <4> QED BY ONLY <2>4, <2>5, <3>2, <4>1
    <3> QED BY ONLY <1>5, <3>1, <3>2, k \in 1 .. Len(held1)
  <2>7. l <= h + 1 /\ Len(held1) <= Bodies(h + 1)
    BY ONLY <1>0, <1>5, <2>2, <2>3
  <2> QED BY ONLY <2>6, <2>7 DEF Collects, l
<1>7. Keeps(h + 1, held1, got, gone)
  <2> SUFFICES ASSUME NEW i \in 1 .. N, Packets[i] \notin gone
               PROVE  /\ h + 1 = 4 * i - 3 => held1 = << >>
                      /\ h + 1 = 4 * i - 2 => held1 = <<Sending[4 * i - 2]>>
                      /\ h + 1 = 4 * i - 1 => held1 = <<Sending[4 * i - 2], Sending[4 * i - 1]>>
                      /\ h + 1 >= 4 * i /\ Packets[i].address = RpcAddress =>
                           \E k \in 1 .. Len(got) : got[k] = Packets[i]
    BY DEF Keeps
  <2>1. /\ h = 4 * i - 3 => held = << >>
        /\ h = 4 * i - 2 => held = <<Sending[4 * i - 2]>>
        /\ h >= 4 * i /\ Packets[i].address = RpcAddress =>
             \E k \in 1 .. Len(got) : got[k] = Packets[i]
    BY ONLY <1>1, i \in 1 .. N, Packets[i] \notin gone DEF Keeps
  <2>2. h + 1 # 4 * i - 3 /\ (h + 1 >= 4 * i => h >= 4 * i)
    BY ONLY <1>0, <1>4, i \in 1 .. N
  <2> HIDE DEF held1
  <2>3. h + 1 = 4 * i - 2 => held1 = <<Sending[4 * i - 2]>>
    <3> HAVE h + 1 = 4 * i - 2
    <3>1. h = 4 * i - 3
      BY ONLY <1>0, h + 1 = 4 * i - 2, i \in 1 .. N
    <3>2. Len(held) = 0
      BY ONLY <2>1, <3>1
    <3> QED BY ONLY <1>5, <3>2, h + 1 = 4 * i - 2
  <2>4. h + 1 = 4 * i - 1 => held1 = <<Sending[4 * i - 2], Sending[4 * i - 1]>>
    <3> HAVE h + 1 = 4 * i - 1
    <3>1. h = 4 * i - 2
      BY ONLY <1>0, h + 1 = 4 * i - 1, i \in 1 .. N
    <3>2. held = <<Sending[4 * i - 2]>>
      BY ONLY <2>1, <3>1
    <3> QED BY ONLY <1>5, <3>2, h + 1 = 4 * i - 1
  <2> QED BY ONLY <2>1, <2>2, <2>3, <2>4
<1> HIDE DEF b, held1
<1>8. Decodes(h + 1, held1, got, gone)
  BY ONLY <1>1, <1>2, <1>5, <1>6, <1>7 DEF Decodes
<1> QED BY ONLY <1>8 DEF held1, b

\* A flag ends what the decoder holds; the server gets it if it is a packet.
Whole(held) ==
  Len(held) = 2 /\ held[1].of = held[2].of /\ held[1].byte = 1 /\ held[2].byte = 2

LEMMA WholeIsLater ==
  ASSUME NEW held, NEW got, NEW h \in 0 .. 4 * N - 1, NEW sent, held \in Seq(SentBytes),
         got \in Seq(ToSet(Packets)),
         Serves(sent, got), Collects(h, sent, held, got), Whole(held)
  PROVE  \E i \in 1 .. N : /\ Latest(sent, got) < i /\ 4 * i <= h + 1 /\ held[1].of = Packets[i]
<1> DEFINE l == Latest(sent, got)
<1>0. N \in Nat /\ h \in Nat /\ h < 4 * N
  BY SentPackets
<1>1. l \in Nat
  BY ONLY <1>0, got \in Seq(ToSet(Packets)), Serves(sent, got) DEF Latest, Serves
<1>2. /\ \E n \in 4 * l + 1 .. h : held[1] = Sending[n]
      /\ \E n \in 4 * l + 1 .. h : held[2] = Sending[n]
  <2>1. 1 \in 1 .. Len(held) /\ 2 \in 1 .. Len(held)
    BY ONLY Whole(held) DEF Whole
  <2> QED BY ONLY <2>1, Collects(h, sent, held, got), Zenon DEF Collects
<1> HIDE DEF l
<1>3. PICK n1 \in 4 * l + 1 .. h : held[1] = Sending[n1]
  BY <1>2
<1>4. PICK n2 \in 4 * l + 1 .. h : held[2] = Sending[n2]
  BY <1>2
<1>5. n1 \in 1 .. 4 * N /\ n2 \in 1 .. 4 * N
  BY ONLY <1>0, <1>1, n1 \in 4 * l + 1 .. h, n2 \in 4 * l + 1 .. h
<1>6. /\ Nth(n1) \in 1 .. N /\ Sending[n1].of = Packets[Nth(n1)]
      /\ Nth(n2) \in 1 .. N /\ Sending[n2].of = Packets[Nth(n2)]
      /\ Sending[n2].byte = IF n2 % 4 = 2 THEN 1 ELSE IF n2 % 4 = 3 THEN 2 ELSE Flag
  <2>1. /\ Nth(n1) \in 1 .. N
        /\ Sending[n1] = [of |-> Packets[Nth(n1)],
                          byte |-> IF n1 % 4 = 2 THEN 1 ELSE IF n1 % 4 = 3 THEN 2 ELSE Flag]
    BY ONLY <1>5, SentByte
  <2>2. /\ Nth(n2) \in 1 .. N
        /\ Sending[n2] = [of |-> Packets[Nth(n2)],
                          byte |-> IF n2 % 4 = 2 THEN 1 ELSE IF n2 % 4 = 3 THEN 2 ELSE Flag]
    BY ONLY <1>5, SentByte
  <2>3. /\ Sending[n2].of = Packets[Nth(n2)] /\ Sending[n1].of = Packets[Nth(n1)]
        /\ Sending[n2].byte = IF n2 % 4 = 2 THEN 1 ELSE IF n2 % 4 = 3 THEN 2 ELSE Flag
    BY ONLY <2>1, <2>2
  <2> QED BY ONLY <2>1, <2>2, <2>3
<1>7. Nth(n1) = Nth(n2)
  BY ONLY <1>3, <1>4, <1>6, Whole(held), SentPackets DEF Whole
<1>8. n2 % 4 = 3
  BY ONLY <1>4, <1>6, Whole(held) DEF Whole, Flag
<1>9. l < Nth(n2) /\ 4 * Nth(n2) <= h + 1
  BY ONLY <1>0, <1>1, <1>5, <1>8, n2 \in 4 * l + 1 .. h DEF Nth
<1>10. held[1].of = Packets[Nth(n2)]
  BY ONLY <1>3, <1>6, <1>7
<1> QED BY ONLY <1>6, <1>9, <1>10 DEF l

\* The server gets one packet more, sent after those it has.
LEMMA ServesMore ==
  ASSUME NEW got \in Seq(ToSet(Packets)), NEW sent, Serves(sent, got),
         NEW i \in 1 .. N, Latest(sent, got) < i, Packets[i].address = RpcAddress
  PROVE  \E sent1 : /\ Serves(sent1, Append(got, Packets[i]))
                    /\ Latest(sent1, Append(got, Packets[i])) = i
<1> DEFINE n == Len(got)
           got1 == Append(got, Packets[i])
           sent1 == [k \in 1 .. n + 1 |-> IF k = n + 1 THEN i ELSE sent[k]]
<1>0. N \in Nat /\ n \in Nat /\ Packets[i] \in ToSet(Packets)
  BY SentPackets
<1>1. /\ got1 \in Seq(ToSet(Packets)) /\ Len(got1) = n + 1 /\ got1[n + 1] = Packets[i]
      /\ \A k \in 1 .. n : got1[k] = got[k]
  BY ONLY <1>0, got \in Seq(ToSet(Packets)), Appended
<1>2. /\ sent \in [1 .. n -> 1 .. N]
      /\ \A k \in 1 .. n : got[k] = Packets[sent[k]] /\ got[k].address = RpcAddress
      /\ \A j, k \in 1 .. n : j < k => sent[j] < sent[k]
  BY DEF Serves
<1>3. Latest(sent, got) = IF n = 0 THEN 0 ELSE sent[n]
  BY DEF Latest
<1> HIDE DEF n, got1
<1>4. \A k \in 1 .. n : sent[k] < i
  BY ONLY <1>0, <1>2, <1>3, Latest(sent, got) < i, i \in 1 .. N
<1>5. /\ sent1 \in [1 .. n + 1 -> 1 .. N] /\ sent1[n + 1] = i
      /\ \A k \in 1 .. n : sent1[k] = sent[k] /\ sent1[k] \in 1 .. N
  BY ONLY <1>0, <1>2, i \in 1 .. N
<1> HIDE DEF sent1
<1>6. \A k \in 1 .. n + 1 : k \in 1 .. n \/ k = n + 1
  BY ONLY <1>0
<1>7. \A k \in 1 .. n + 1 : got1[k] = Packets[sent1[k]] /\ got1[k].address = RpcAddress
  BY ONLY <1>1, <1>2, <1>5, <1>6, Packets[i].address = RpcAddress
<1>8. \A j, k \in 1 .. n + 1 : j < k => sent1[j] < sent1[k]
  <2> TAKE j, k \in 1 .. n + 1
  <2> HAVE j < k
  <2>1. j \in 1 .. n
    BY ONLY <1>0, j \in 1 .. n + 1, k \in 1 .. n + 1, j < k
  <2>2. CASE k = n + 1
    BY ONLY <1>4, <1>5, <2>1, <2>2
  <2>3. CASE k \in 1 .. n
    <3>1. sent[j] < sent[k]
      BY ONLY <1>2, <2>1, <2>3, j < k
    <3> QED BY ONLY <1>5, <2>1, <2>3, <3>1
  <2> QED BY ONLY <1>6, <2>2, <2>3, k \in 1 .. n + 1
<1>9. Serves(sent1, got1)
  BY ONLY <1>1, <1>5, <1>7, <1>8 DEF Serves
<1>10. Latest(sent1, got1) = i
  BY ONLY <1>0, <1>1, <1>5 DEF Latest
<1> QED BY ONLY <1>9, <1>10 DEF got1

LEMMA TakesFlag ==
  ASSUME NEW held, NEW got, NEW gone, NEW h \in 0 .. 4 * N - 1,
         Decodes(h, held, got, gone), Sending[h + 1].byte = Flag
  PROVE  Decodes(h + 1, << >>, got \o Addressed(IF Whole(held) THEN <<held[1].of>> ELSE << >>), gone)
<1> DEFINE got1 == got \o Addressed(IF Whole(held) THEN <<held[1].of>> ELSE << >>)
<1>0. N \in Nat /\ h \in Nat /\ h < 4 * N /\ h + 1 \in 1 .. 4 * N
  BY SentPackets
<1>1. /\ held \in Seq(SentBytes) /\ got \in Seq(ToSet(Packets)) /\ Len(got) \in Nat
      /\ Keeps(h, held, got, gone)
  BY DEF Decodes
<1>2. PICK sent : Serves(sent, got) /\ Collects(h, sent, held, got)
  BY DEF Decodes
<1>3. << >> \in Seq(SentBytes) /\ Len(<< >>) = 0 /\ 0 <= Bodies(h + 1)
  BY ONLY <1>0 DEF Bodies
<1>4. (h + 1) % 4 \in {0, 1}
  <2>1. Sending[h + 1] = [of |-> Packets[Nth(h + 1)],
                          byte |-> IF (h + 1) % 4 = 2 THEN 1 ELSE IF (h + 1) % 4 = 3 THEN 2 ELSE Flag]
    BY ONLY <1>0, SentByte
  <2>2. Sending[h + 1].byte = IF (h + 1) % 4 = 2 THEN 1 ELSE IF (h + 1) % 4 = 3 THEN 2 ELSE Flag
    BY ONLY <2>1
  <2> QED BY ONLY <1>0, <2>2, Sending[h + 1].byte = Flag DEF Flag
\* The packet that ends here, if nothing of it is lost.
<1>5. ASSUME NEW j \in 1 .. N, Packets[j] \notin gone, h + 1 = 4 * j
      PROVE  Whole(held) /\ held[1].of = Packets[j]
  <2>1. held = <<Sending[4 * j - 2], Sending[4 * j - 1]>>
    <3>1. h = 4 * j - 1
      BY ONLY <1>0, <1>5
    <3> QED BY ONLY <1>1, <1>5, <3>1 DEF Keeps
  <2>2. Sending[4 * j - 2] = [of |-> Packets[j], byte |-> 1] /\ Sending[4 * j - 1] = [of |-> Packets[j], byte |-> 2]
    BY FourBytes
  <2> QED BY ONLY <2>1, <2>2 DEF Whole
\* An older packet was got before; the flags of two packets stand side by side.
<1>6. ASSUME NEW g,
             \A j \in 1 .. N : Packets[j] \notin gone /\ h + 1 >= 4 * j /\ Packets[j].address = RpcAddress
                => \E k \in 1 .. Len(g) : g[k] = Packets[j]
      PROVE  Keeps(h + 1, << >>, g, gone)
  <2>1. \A j \in 1 .. N : h + 1 # 4 * j - 2 /\ h + 1 # 4 * j - 1
    BY ONLY <1>0, <1>4
  <2> QED BY ONLY <1>6, <2>1 DEF Keeps
<1>7. ASSUME NEW j \in 1 .. N, Packets[j] \notin gone, h >= 4 * j, Packets[j].address = RpcAddress
      PROVE  \E k \in 1 .. Len(got) : got[k] = Packets[j]
  BY ONLY <1>1, <1>7 DEF Keeps
<1>8. \A j \in 1 .. N : h + 1 >= 4 * j => h >= 4 * j \/ h + 1 = 4 * j
  BY ONLY <1>0
<1>9. CASE Whole(held) /\ held[1].of.address = RpcAddress
  <2>1. PICK i \in 1 .. N : Latest(sent, got) < i /\ 4 * i <= h + 1 /\ held[1].of = Packets[i]
    BY ONLY <1>1, <1>2, <1>9, WholeIsLater, h \in 0 .. 4 * N - 1
  <2>2. Packets[i] \in ToSet(Packets) /\ Packets[i].address = RpcAddress
    BY ONLY <1>9, <2>1, SentPackets
  <2>3. got1 = Append(got, Packets[i])
    <3>1. got1 = got \o <<Packets[i]>>
      BY ONLY <1>9, <2>1, <2>2 DEF Addressed
    <3> HIDE DEF got1
    <3> QED BY ONLY <1>1, <2>2, <3>1
  <2>4. PICK sent1 : Serves(sent1, Append(got, Packets[i])) /\ Latest(sent1, Append(got, Packets[i])) = i
    BY ONLY <1>1, <1>2, <2>1, <2>2, ServesMore
  <2> HIDE DEF got1
  <2>5. /\ got1 \in Seq(ToSet(Packets)) /\ Len(got1) = Len(got) + 1 /\ got1[Len(got) + 1] = Packets[i]
        /\ \A k \in 1 .. Len(got) : got1[k] = got[k]
    BY ONLY <1>1, <2>2, <2>3, Appended
  <2>6. Collects(h + 1, sent1, << >>, got1)
    <3>1. 4 * Latest(sent1, got1) <= h + 1
      BY ONLY <2>1, <2>3, <2>4
    <3> QED BY ONLY <1>3, <3>1 DEF Collects
  <2>7. \A j \in 1 .. N :
          Packets[j] \notin gone /\ h + 1 >= 4 * j /\ Packets[j].address = RpcAddress
            => \E k \in 1 .. Len(got1) : got1[k] = Packets[j]
    <3> SUFFICES ASSUME NEW j \in 1 .. N, Packets[j] \notin gone, h + 1 >= 4 * j, Packets[j].address = RpcAddress
                 PROVE  \E k \in 1 .. Len(got1) : got1[k] = Packets[j]
      OBVIOUS
    <3>1. CASE h >= 4 * j
      <4>1. PICK k \in 1 .. Len(got) : got[k] = Packets[j]
        BY <1>7, <3>1
      <4>2. k \in 1 .. Len(got1) /\ got1[k] = Packets[j]
        BY ONLY <1>1, <2>5, <4>1, k \in 1 .. Len(got)
      <4> QED BY ONLY <4>2
    <3>2. CASE h + 1 = 4 * j
      <4>1. Packets[j] = Packets[i]
        BY <1>5, <2>1, <3>2
      <4>2. Len(got) + 1 \in 1 .. Len(got1) /\ got1[Len(got) + 1] = Packets[j]
        BY ONLY <1>1, <2>5, <4>1
      <4> QED BY ONLY <4>2
    <3> QED BY ONLY <1>8, <3>1, <3>2, h + 1 >= 4 * j, j \in 1 .. N
  <2>8. Keeps(h + 1, << >>, got1, gone)
    BY <1>6, <2>7
  <2> QED BY ONLY <1>3, <2>3, <2>4, <2>5, <2>6, <2>8 DEF Decodes, got1
<1>10. CASE ~(Whole(held) /\ held[1].of.address = RpcAddress)
  <2>1. got1 = got
    <3>1. Addressed(IF Whole(held) THEN <<held[1].of>> ELSE << >>) = << >>
      BY ONLY <1>10 DEF Addressed
    <3> QED BY ONLY <1>1, <3>1
  <2>2. Collects(h + 1, sent, << >>, got)
    <3>1. 4 * Latest(sent, got) <= h + 1
      <4>1. Latest(sent, got) \in Nat
        BY ONLY <1>0, <1>1, <1>2 DEF Latest, Serves
      <4> QED BY ONLY <1>0, <1>2, <4>1 DEF Collects
    <3> QED BY ONLY <1>3, <3>1 DEF Collects
  <2>3. \A j \in 1 .. N :
          Packets[j] \notin gone /\ h + 1 >= 4 * j /\ Packets[j].address = RpcAddress
            => \E k \in 1 .. Len(got) : got[k] = Packets[j]
    <3> SUFFICES ASSUME NEW j \in 1 .. N, Packets[j] \notin gone, h + 1 >= 4 * j, Packets[j].address = RpcAddress
                 PROVE  \E k \in 1 .. Len(got) : got[k] = Packets[j]
      OBVIOUS
    <3>1. h + 1 # 4 * j
      BY <1>5, <1>10
    <3> QED BY <1>7, <1>8, <3>1
  <2> HIDE DEF got1
  <2>4. Keeps(h + 1, << >>, got, gone)
    BY <1>6, <2>3
  <2> QED BY ONLY <1>1, <1>2, <1>3, <2>1, <2>2, <2>4 DEF Decodes, got1
<1> QED BY ONLY <1>9, <1>10

LEMMA ParseStep ==
  ASSUME NEW h \in 0 .. 4 * N, InFlight(h), Decodes(h, collected, served, lost),
         ParseByteFromUartAndHandleRpcs, wire' = wire, lost' = lost
  PROVE  \E m \in 0 .. 4 * N : InFlight(m)' /\ Decodes(m, collected', served', lost')
<1>0. N \in Nat /\ h \in Nat
  BY SentPackets
<1>1. Arrived' = Arrived /\ Arrived \in 0 .. 4 * N
  <2>1. Len(wire) \in Nat /\ Len(wire) <= 4 * N
    BY DEF InFlight
  <2> QED BY <1>0, <2>1 DEF Arrived
<1>2. CASE rdr = << >> /\ UNCHANGED <<rdr, collected, served>>
  <2>1. rdr' = rdr /\ collected' = collected /\ served' = served
    BY <1>2
  <2>2. InFlight(h)'
    BY ONLY <1>1, <2>1, wire' = wire, lost' = lost, InFlight(h) DEF InFlight
  <2>3. Decodes(h, collected', served', lost')
    BY ONLY <2>1, lost' = lost, Decodes(h, collected, served, lost)
  <2> QED BY <2>2, <2>3
<1>3. ASSUME NEW byte, TryReadByte(byte), collected' = Process(collected, byte).collected,
             served' = served \o Addressed(Process(collected, byte).frame)
      PROVE  \E m \in 0 .. 4 * N : InFlight(m)' /\ Decodes(m, collected', served', lost')
  <2>1. rdr = <<byte>> /\ rdr' = << >>
    BY <1>3 DEF TryReadByte
  <2>2. h < Arrived /\ byte = Sending[h + 1] /\ \A n \in h + 2 .. Arrived : Sending[n].of \in lost
    BY <2>1 DEF InFlight
  <2>3. h \in 0 .. 4 * N - 1 /\ h + 1 \in 0 .. 4 * N /\ Arrived \in h + 1 .. 4 * N
        /\ h + 1 + 1 = h + 2
    BY ONLY <1>0, <1>1, <2>2
  <2>4. Decodes(h + 1, collected', served', lost)
    <3>1. CASE byte.byte # Flag
      <4>1. Process(collected, byte) = [collected |-> Append(collected, byte), frame |-> << >>]
        BY <3>1 DEF Process
      <4>2. collected' = Append(collected, Sending[h + 1])
        BY <1>3, <2>2, <4>1
      <4>3. served' = served
        <5>1. served' = served \o << >>
          BY <1>3, <4>1 DEF Addressed
        <5>2. served \in Seq(ToSet(Packets))
          BY DEF Decodes
        <5> QED BY ONLY <5>1, <5>2
      <4>4. Decodes(h + 1, Append(collected, Sending[h + 1]), served, lost)
        BY ONLY <2>2, <2>3, <3>1, Decodes(h, collected, served, lost), TakesBody
      <4> QED BY ONLY <4>2, <4>3, <4>4
    <3>2. CASE byte.byte = Flag
      <4>1. Process(collected, byte)
              = [collected |-> << >>, frame |-> IF Whole(collected) THEN <<collected[1].of>> ELSE << >>]
        BY <3>2 DEF Process, Whole
      <4>2. /\ collected' = << >>
            /\ served' = served \o Addressed(IF Whole(collected) THEN <<collected[1].of>> ELSE << >>)
        BY <1>3, <4>1
      <4>3. Decodes(h + 1, << >>,
              served \o Addressed(IF Whole(collected) THEN <<collected[1].of>> ELSE << >>), lost)
        BY ONLY <2>2, <2>3, <3>2, Decodes(h, collected, served, lost), TakesFlag
      <4> QED BY ONLY <4>2, <4>3
    <3> QED BY <3>1, <3>2
  <2>5. \A n \in h + 1 + 1 .. Arrived : Sending[n].of \in lost
    BY ONLY <2>2, <2>3
  <2>6. Decodes(Arrived, collected', served', lost)
    BY ONLY <2>3, <2>4, <2>5, Skips
  <2>7. InFlight(Arrived)'
    BY ONLY <1>1, <2>1, wire' = wire, InFlight(h) DEF InFlight
  <2> QED BY ONLY <1>1, <2>6, <2>7, lost' = lost
<1> QED BY <1>2, <1>3 DEF ParseByteFromUartAndHandleRpcs

LEMMA ReceiveStep ==
  ASSUME NEW h \in 0 .. 4 * N, InFlight(h), Decodes(h, collected, served, lost), lost \subseteq ToSet(Packets),
         Receive
  PROVE  /\ lost' \subseteq ToSet(Packets)
         /\ InFlight(h)' /\ Decodes(h, collected', served', lost')
<1>0. N \in Nat /\ h \in Nat
  BY SentPackets
<1>1. /\ wire \in Seq(SentBytes) /\ Len(wire) <= 4 * N
      /\ \A k \in 1 .. Len(wire) : wire[k] = Sending[Arrived + k]
  BY DEF InFlight
<1>2. wire # << >> /\ wire' = Tail(wire) /\ collected' = collected /\ served' = served
  BY DEF Receive
<1>3. /\ Len(wire) \in Nat /\ Len(wire) > 0 /\ wire' \in Seq(SentBytes) /\ Len(wire') = Len(wire) - 1
      /\ \A k \in 1 .. Len(wire') : wire'[k] = wire[k + 1]
      /\ Head(wire) = wire[1] /\ Head(wire) \in SentBytes
  <2>1. /\ Len(wire) \in Nat /\ Len(wire) > 0 /\ Tail(wire) \in Seq(SentBytes) /\ Len(Tail(wire)) = Len(wire) - 1
        /\ \A k \in 1 .. Len(Tail(wire)) : Tail(wire)[k] = wire[k + 1]
        /\ Head(wire) = wire[1] /\ Head(wire) \in SentBytes
    BY ONLY <1>1, <1>2
  <2> QED BY ONLY <1>2, <2>1
<1>4. /\ Arrived = 4 * N - Len(wire) /\ Arrived' = 4 * N - Len(wire')
  BY DEF Arrived
<1>5. Arrived \in Nat /\ Arrived' = Arrived + 1 /\ Head(wire) = Sending[Arrived + 1]
  BY ONLY <1>0, <1>1, <1>3, <1>4
<1>6. \A k \in 1 .. Len(wire') : wire'[k] = Sending[Arrived' + k]
  BY ONLY <1>1, <1>3, <1>5
<1>7. Len(wire') <= 4 * N
  BY ONLY <1>0, <1>1, <1>3
<1>8. CASE rdr = << >>
  <2>1. rdr' = <<Head(wire)>> /\ lost' = lost
    BY <1>8 DEF Receive
  <2>2. h = Arrived
    BY <1>8 DEF InFlight
  <2>3. h < Arrived' /\ rdr' = <<Sending[h + 1]>> /\ h + 2 .. Arrived' = {}
    BY ONLY <1>0, <1>5, <2>1, <2>2
  <2>4. InFlight(h)'
    BY ONLY <1>3, <1>6, <1>7, <2>3 DEF InFlight
  <2> QED BY <1>2, <2>1, <2>4
<1>9. CASE rdr # << >>
  <2>1. lost' = lost \cup {Head(wire).of} /\ rdr' = rdr
    BY <1>9 DEF Receive
  <2>2. h < Arrived /\ rdr = <<Sending[h + 1]>> /\ \A n \in h + 2 .. Arrived : Sending[n].of \in lost
    BY <1>9 DEF InFlight
  <2>3. Head(wire).of \in ToSet(Packets)
    BY ONLY <1>3 DEF SentBytes
  <2>4. \A n \in h + 2 .. Arrived' : n \in h + 2 .. Arrived \/ n = Arrived + 1
    BY ONLY <1>0, <1>5
  <2>5. \A n \in h + 2 .. Arrived' : Sending[n].of \in lost'
    BY ONLY <1>5, <2>1, <2>2, <2>4
  <2>6. h < Arrived'
    BY ONLY <1>0, <1>5, <2>2
  <2>7. InFlight(h)'
    BY ONLY <1>3, <1>6, <1>7, <2>1, <2>2, <2>5, <2>6 DEF InFlight
  <2>8. Keeps(h, collected, served, lost')
    <3>1. Keeps(h, collected, served, lost)
      BY DEF Decodes
    <3> QED BY ONLY <2>1, <3>1 DEF Keeps
  <2>9. Decodes(h, collected, served, lost')
    BY ONLY <2>8, Decodes(h, collected, served, lost) DEF Decodes
  <2> QED BY ONLY <1>2, <2>1, <2>3, <2>7, <2>9, lost \subseteq ToSet(Packets)
<1> QED BY <1>8, <1>9

LEMMA Leds ==
  ASSUME led \in [pin : BOOLEAN, led_on : BOOLEAN]
  PROVE  {TurnOn(led), TurnOff(led), Toggle(led), TogglePin(led)} \subseteq [pin : BOOLEAN, led_on : BOOLEAN]
<1> DEFINE Pins == [pin : BOOLEAN, led_on : BOOLEAN]
<1>1. TurnOn(led) \in Pins /\ TurnOff(led) \in Pins
  BY DEF TurnOn, TurnOff
<1>2. Toggle(led) \in Pins
  BY <1>1 DEF Toggle
<1>3. TogglePin(led) \in Pins
  <2>1. \A v \in BOOLEAN : [led EXCEPT !.pin = v] \in Pins
    OBVIOUS
  <2>2. ("low" = "low") \in BOOLEAN /\ ("high" = "low") \in BOOLEAN
    OBVIOUS
  <2> HIDE DEF Pins
  <2>3. BitSet(led, "low") \in Pins /\ BitSet(led, "high") \in Pins
    BY ONLY <2>1, <2>2, Zenon DEF BitSet
  <2> QED BY ONLY <2>3 DEF TogglePin
<1> QED BY <1>1, <1>2, <1>3

LEMMA BlinkCounts ==
  ASSUME blink \in [state : {0, 1}, counter : 0 .. CounterMax - 1]
  PROVE  Blink(blink) \in [state : {0, 1}, counter : 0 .. CounterMax - 1]
<1>1. /\ blink.state \in {0, 1} /\ blink.counter \in 0 .. CounterMax - 1
      /\ blink = [state |-> blink.state, counter |-> blink.counter]
  OBVIOUS
<1>2. CASE blink.counter + 1 < CounterMax
  <2>1. Blink(blink) = [blink EXCEPT !.counter = blink.counter + 1]
    BY <1>2 DEF Blink
  <2>2. blink.counter + 1 \in 0 .. CounterMax - 1
    BY ONLY <1>1, <1>2, SentPackets
  <2> QED BY ONLY <1>1, <2>1, <2>2
<1>3. CASE ~(blink.counter + 1 < CounterMax)
  <2>1. Blink(blink) = [state |-> 1 - blink.state, counter |-> 0]
    BY <1>3 DEF Blink
  <2>2. 1 - blink.state \in {0, 1} /\ 0 \in 0 .. CounterMax - 1
    BY ONLY <1>1, SentPackets
  <2> QED BY ONLY <2>1, <2>2
<1> QED BY <1>2, <1>3

\* What neither the wire nor the decoder takes part in.
LEMMA RpcStands ==
  ASSUME RpcInv, wire' = wire, rdr' = rdr, lost' = lost, collected' = collected, served' = served,
         output' \in {"none", "log", "blink"},
         blink' \in [state : {0, 1}, counter : 0 .. CounterMax - 1],
         led' \in [pin : BOOLEAN, led_on : BOOLEAN]
  PROVE  RpcInv'
<1>1. PICK h \in 0 .. 4 * N : InFlight(h) /\ Decodes(h, collected, served, lost)
  BY DEF RpcInv
<1>2. InFlight(h)'
  BY ONLY <1>1, wire' = wire, rdr' = rdr, lost' = lost DEF InFlight, Arrived
<1>3. SuperloopTypes
  BY DEF RpcInv
<1>4. SuperloopTypes'
  BY <1>3 DEF SuperloopTypes
<1>5. Decodes(h, collected', served', lost')
  BY <1>1
<1> QED BY ONLY <1>2, <1>4, <1>5, h \in 0 .. 4 * N DEF RpcInv

LEMMA RpcSteps ==
  ASSUME RpcInv, Receive \/ LoopStep PROVE RpcInv'
<1>1. PICK h \in 0 .. 4 * N : InFlight(h) /\ Decodes(h, collected, served, lost)
  BY DEF RpcInv
<1>2. /\ lost \subseteq ToSet(Packets) /\ output \in {"none", "log", "blink"}
      /\ blink \in [state : {0, 1}, counter : 0 .. CounterMax - 1]
      /\ led \in [pin : BOOLEAN, led_on : BOOLEAN]
  BY DEF RpcInv, SuperloopTypes
<1>3. CASE Receive
  <2>1. output' = output /\ blink' = blink /\ led' = led
    BY <1>3 DEF Receive
  <2>2. lost' \subseteq ToSet(Packets) /\ InFlight(h)' /\ Decodes(h, collected', served', lost')
    BY ONLY <1>1, <1>2, <1>3, ReceiveStep
  <2> QED BY ONLY <1>2, <2>1, <2>2, h \in 0 .. 4 * N DEF RpcInv, SuperloopTypes
<1>5. CASE WriteDone
  BY <1>2, <1>5, RpcStands DEF WriteDone
<1>6. CASE Blinks
  <2>1. blink' \in [state : {0, 1}, counter : 0 .. CounterMax - 1]
    BY <1>2, <1>6, BlinkCounts DEF Blinks
  <2>2. led' \in [pin : BOOLEAN, led_on : BOOLEAN]
    BY <1>2, <1>6, Leds DEF Blinks
  <2> QED BY <1>6, <2>1, <2>2, RpcStands DEF Blinks
<1>7. ASSUME ParseByteFromUartAndHandleRpcs, wire' = wire, lost' = lost,
             blink' \in [state : {0, 1}, counter : 0 .. CounterMax - 1],
             led' \in [pin : BOOLEAN, led_on : BOOLEAN]
      PROVE  RpcInv'
  <2>1. PICK m \in 0 .. 4 * N : InFlight(m)' /\ Decodes(m, collected', served', lost')
    BY ONLY <1>1, <1>7, ParseStep
  <2>2. output' \in {"none", "log", "blink"}
    BY <1>7 DEF ParseByteFromUartAndHandleRpcs
  <2> QED BY ONLY <1>2, <1>7, <2>1, <2>2 DEF RpcInv, SuperloopTypes
<1>8. CASE AfterBlink
  BY <1>2, <1>7, <1>8 DEF AfterBlink
<1>9. CASE Iterates
  <2>1. blink' \in [state : {0, 1}, counter : 0 .. CounterMax - 1]
    BY <1>2, <1>9, BlinkCounts DEF Iterates
  <2> QED BY <1>2, <1>7, <1>9, <2>1 DEF Iterates
<1> QED BY <1>3, <1>5, <1>6, <1>8, <1>9 DEF LoopStep

LEMMA RpcInvMeans == RpcInv => SuperloopInv
<1> SUFFICES ASSUME RpcInv PROVE SuperloopInv
  OBVIOUS
<1>1. PICK h \in 0 .. 4 * N : InFlight(h) /\ Decodes(h, collected, served, lost)
  BY DEF RpcInv
<1>2. PICK sent : Serves(sent, served) /\ Collects(h, sent, collected, served)
  BY <1>1 DEF Decodes
<1>3. /\ served \in Seq(ToSet(Packets)) /\ DOMAIN served = 1 .. Len(served) /\ DOMAIN Packets = 1 .. N
      /\ N = Len(Packets) /\ N \in Nat /\ h \in Nat /\ h <= 4 * N
  <2>1. served \in Seq(ToSet(Packets))
    BY ONLY <1>1 DEF Decodes
  <2>2. DOMAIN Packets = 1 .. N
    BY PacketsAssumption DEF N
  <2> QED BY ONLY <2>1, <2>2, SentPackets, h \in 0 .. 4 * N DEF N
<1>4. SuperloopTypeOK
  <2>1. Len(wire) <= 4 * Len(Packets) /\ Len(rdr) <= 1
    <3>1. Len(wire) <= 4 * N /\ (rdr = << >> \/ rdr = <<Sending[h + 1]>>)
      BY ONLY <1>1 DEF InFlight
    <3>2. Len(rdr) <= 1
      <4>1. \A x : Len(<< >>) = 0 /\ Len(<<x>>) = 1
        OBVIOUS
      <4>2. Len(rdr) \in {0, 1}
        BY ONLY <3>1, <4>1, Zenon
      <4>3. \A n \in {0, 1} : n <= 1
        OBVIOUS
      <4> QED BY ONLY <4>2, <4>3, Zenon
    <3> QED BY ONLY <1>3, <3>1, <3>2
  <2>2. Len(collected) <= 2 * Len(Packets)
    <3>1. collected \in Seq(SentBytes) /\ Len(collected) <= Bodies(h)
      BY ONLY <1>1, <1>2 DEF Decodes, Collects
    <3>2. Bodies(h) <= 2 * N /\ Bodies(h) \in Nat
      BY ONLY <1>3 DEF Bodies
    <3> QED BY ONLY <1>3, <3>1, <3>2
  <2>3. ToSet(served) \subseteq ToSet(Packets)
    <3>1. \A k \in 1 .. Len(served) : served[k] \in ToSet(Packets)
      BY ONLY <1>3
    <3>2. ToSet(served) = {served[k] : k \in 1 .. Len(served)}
      BY ONLY <1>3 DEF ToSet
    <3> QED BY ONLY <3>1, <3>2
  <2>4. SuperloopTypes
    BY DEF RpcInv
  <2> QED BY ONLY <2>1, <2>2, <2>3, <2>4 DEF SuperloopTypeOK, SuperloopTypes
<1>5. ServedInOrder
  <2>1. /\ sent \in [DOMAIN served -> DOMAIN Packets]
        /\ \A k \in DOMAIN served : served[k] = Packets[sent[k]] /\ served[k].address = RpcAddress
        /\ \A j, k \in DOMAIN served : j < k => sent[j] < sent[k]
    BY ONLY <1>2, <1>3 DEF Serves
  <2> QED BY ONLY <2>1 DEF ServedInOrder
<1>6. ReceivedMeansServed
  <2> SUFFICES ASSUME wire = << >>, rdr = << >>, NEW i \in 1 .. N,
                      Packets[i].address = RpcAddress, Packets[i] \notin lost
               PROVE  \E k \in 1 .. Len(served) : served[k] = Packets[i]
    BY <1>3, Zenon DEF ReceivedMeansServed
  <2>1. h = 4 * N
    <3>1. h = Arrived /\ Arrived = 4 * N - Len(wire)
      BY ONLY <1>1, rdr = << >> DEF InFlight, Arrived
    <3> QED BY ONLY <1>3, <3>1, wire = << >>
  <2>2. h >= 4 * i
    BY ONLY <1>3, <2>1, i \in 1 .. N
  <2>3. Keeps(h, collected, served, lost)
    BY <1>1 DEF Decodes
  <2> QED BY ONLY <2>2, <2>3, i \in 1 .. N, Packets[i].address = RpcAddress, Packets[i] \notin lost DEF Keeps
<1> QED BY <1>4, <1>5, <1>6 DEF SuperloopInv

LEMMA SuperloopSteps == RpcInv /\ [Next]_vars => RpcInv'
<1> SUFFICES ASSUME RpcInv, [Next]_vars PROVE RpcInv'
  OBVIOUS
<1>1. /\ output \in {"none", "log", "blink"} /\ led \in [pin : BOOLEAN, led_on : BOOLEAN]
      /\ blink \in [state : {0, 1}, counter : 0 .. CounterMax - 1]
  BY DEF RpcInv, SuperloopTypes
<1>2. CASE UNCHANGED superVars
  BY <1>1, <1>2, RpcStands DEF superVars
<1>3. CASE Rpc
  BY <1>3, RpcSteps DEF Rpc
<1>4. CASE BlinkyLoop
  <2>1. PICK kept \in BOOLEAN : Blinky(kept)
    BY <1>4 DEF BlinkyLoop
  <2>2. led' \in [pin : BOOLEAN, led_on : BOOLEAN]
    BY <1>1, <2>1, Leds DEF Blinky
  <2> QED BY <1>1, <2>1, <2>2, RpcStands DEF Blinky
<1>5. CASE Bring \/ DisplayLoopStep \/ HostLoop \/ UNCHANGED vars
  BY <1>2, <1>5 DEF Bring, DisplayLoopStep, HostLoop, vars
<1> QED BY <1>3, <1>4, <1>5 DEF Next

\* The server of rpc gets the packets of its address, each once and in order,
\* and every one that lost no byte, whatever the loop was writing when the
\* bytes came in (rpc main.cc:93-134, 177-191).
THEOREM RpcIsServed == Spec => []SuperloopInv
<1>1. Init => RpcInv
  BY RpcStarts DEF Init
<1> QED BY <1>1, SuperloopSteps, RpcInvMeans, PTL DEF Spec

(***************************************************************************)
(* The host's window                                                       *)
(***************************************************************************)
Colour == {Unset} \cup {ColorRGBA(v) : v \in Rgb565}
Texture == [filter : {"NEAREST", "LINEAR"}, pixels : [Texels -> Colour]]

WindowTypes ==
  /\ hostAt \in {"init", "get", "write", "render", "callback", "exited"}
  /\ fbWidth \in Nat /\ drawing \in Nat
  /\ lcd_pixel_data \in [Texels -> Colour]
  /\ gl \in Seq(Texture) /\ Len(gl) <= 2 /\ lcd_texture = Len(gl)
  /\ control \in [scale : Scales, nearest : BOOLEAN, old : BOOLEAN]

\* Texels that no framebuffer has a pixel for are never set; the others show
\* the frame from its writing to the callback.
Pixels ==
  /\ \A t \in Texels : t % kDisplayWidth >= fbWidth => lcd_pixel_data[t] = Unset
  /\ hostAt \in {"render", "callback"} =>
       \A t \in Texels : t % kDisplayWidth < fbWidth /\ t \div kDisplayWidth < kDisplayHeight =>
         lcd_pixel_data[t] = ColorRGBA(PixelOf(drawing, t % kDisplayWidth, t \div kDisplayWidth))

\* The last texture has the filter that the driver takes for the old one.
Filtered ==
  /\ IF hostAt = "init" THEN control.old = control.nearest
     ELSE Len(gl) > 0 /\ gl[Len(gl)].filter = Filter(control.old)
  /\ hostAt = "render" => control.old = control.nearest

WindowInv ==
  /\ WindowTypes /\ Pixels /\ Filtered
  /\ hostAt = "callback" => window.texture.pixels = lcd_pixel_data

LEMMA HostConstants ==
  /\ kDisplayWidth \in Nat /\ kDisplayWidth > 0 /\ kDisplayHeight \in Nat /\ kDisplayHeight > 0
  /\ FramebufferWidths \subseteq Nat /\ 3 \in Scales /\ \A n \in Scales : n \in Int /\ n > 0
  /\ Len(Palette) \in Nat /\ Len(Palette) > 0 /\ \A k \in 1 .. Len(Palette) : Palette[k] \in Rgb565
<1>1. /\ kDisplayWidth \in Nat /\ kDisplayWidth > 0 /\ kDisplayHeight \in Nat /\ kDisplayHeight > 0
      /\ FramebufferWidths \subseteq Nat
  BY HostAssumption
<1>2. 3 \in Scales /\ \A n \in Scales : n \in Int /\ n > 0
  BY HostAssumption
<1>3. Len(Palette) \in Nat /\ Len(Palette) > 0 /\ \A k \in 1 .. Len(Palette) : Palette[k] \in Rgb565
  <2>1. Palette \in Seq(Rgb565) /\ Palette # << >>
    BY HostAssumption
  <2> QED BY ONLY <2>1
<1> QED BY <1>1, <1>2, <1>3, HostAssumption

\* The colour of a texel converts back to the very RGB565 colour.
LEMMA ColoursConvertBack ==
  ASSUME NEW v \in Rgb565
  PROVE  ColorRGBA(v).a = 255 /\ ToRgb565Of(ColorRGBA(v)) = v
<1> DEFINE r == v \div 2048
           g == (v \div 32) % 64
           b == v % 32
<1>0. v \in Int /\ 0 <= v /\ v < 65536
  BY ONLY v \in Rgb565 DEF Rgb565
<1>1. r \in 0 .. 31 /\ g \in 0 .. 63 /\ b \in 0 .. 31
  BY ONLY <1>0
<1>2. v = r * 2048 + g * 32 + b
  BY ONLY <1>0
<1> HIDE DEF r, g, b
<1>3. Scaled(r, 31) \div 8 = r
  BY ONLY <1>1 DEF Scaled
<1>4. Scaled(b, 31) \div 8 = b
  BY ONLY <1>1 DEF Scaled
<1>5. Scaled(g, 63) \div 4 = g
  BY ONLY <1>1 DEF Scaled
<1>6. ColorRGBA(v) = [r |-> Scaled(r, 31), g |-> Scaled(g, 63), b |-> Scaled(b, 31), a |-> 255]
  BY DEF ColorRGBA, r, g, b
<1>7. ToRgb565Of(ColorRGBA(v)) = (Scaled(r, 31) \div 8) * 2048 + (Scaled(g, 63) \div 4) * 32 + Scaled(b, 31) \div 8
  BY ONLY <1>6 DEF ToRgb565Of
<1> QED BY ONLY <1>2, <1>3, <1>4, <1>5, <1>6, <1>7

LEMMA PixelsAreColours ==
  ASSUME NEW frame \in Nat, NEW x \in Int, NEW y \in Int
  PROVE  PixelOf(frame, x, y) \in Rgb565
<1> DEFINE n == frame + x + kDisplayWidth * y
<1>1. n \in Int
  BY HostConstants
<1> HIDE DEF n
<1>2. n % Len(Palette) \in 0 .. Len(Palette) - 1
  BY ONLY <1>1, HostConstants, Division
<1>3. (n % Len(Palette)) + 1 \in 1 .. Len(Palette)
  BY ONLY <1>2, HostConstants
<1> QED BY ONLY <1>3, HostConstants DEF PixelOf, n

\* Where a pixel of the image is among the texels.
LEMMA TexelOf ==
  ASSUME NEW x \in Columns, NEW y \in Rows
  PROVE  /\ y * kDisplayWidth + x \in Texels
         /\ (y * kDisplayWidth + x) % kDisplayWidth = x /\ (y * kDisplayWidth + x) \div kDisplayWidth = y
<1>1. /\ kDisplayWidth \in Int /\ kDisplayWidth > 0 /\ y \in Int /\ x \in 0 .. kDisplayWidth - 1 /\ x \in Nat
      /\ y >= 0 /\ y <= kDisplayHeight - 1 /\ kDisplayHeight \in Int
      /\ y * kDisplayWidth + x = kDisplayWidth * y + x
  BY HostConstants DEF Columns, Rows
<1>2. (kDisplayWidth * y + x) % kDisplayWidth = x /\ (kDisplayWidth * y + x) \div kDisplayWidth = y
  BY ONLY <1>1, Quotient
<1>3. kDisplayWidth * y >= 0 /\ kDisplayWidth * y <= kDisplayWidth * (kDisplayHeight - 1)
      /\ kDisplayWidth * (kDisplayHeight - 1) = kDisplayWidth * kDisplayHeight - kDisplayWidth
      /\ kDisplayWidth * y \in Int /\ kDisplayWidth * kDisplayHeight \in Int
  BY ONLY <1>1
<1>4. kDisplayWidth * y + x \in 0 .. kDisplayWidth * kDisplayHeight - 1
  BY ONLY <1>1, <1>3
<1> QED BY ONLY <1>1, <1>2, <1>4 DEF Texels

LEMMA TexelParts ==
  ASSUME NEW t \in Texels PROVE t \in Nat /\ t % kDisplayWidth \in Nat /\ t \div kDisplayWidth \in Int
<1>1. t \in Nat
  BY HostConstants DEF Texels
<1> QED BY ONLY <1>1, HostConstants, Division

LEMMA WindowStarts ==
  ASSUME NEW widths, widths \subseteq Nat, InitHost(widths) PROVE WindowInv
<1>1. /\ hostAt = "init" /\ drawing = 0 /\ fbWidth \in Nat
      /\ lcd_pixel_data = [t \in Texels |-> Unset]
      /\ gl = << >> /\ lcd_texture = 0
      /\ control = [scale |-> 3, nearest |-> TRUE, old |-> TRUE]
  BY DEF InitHost
<1>2. WindowTypes
  BY <1>1, HostConstants DEF WindowTypes, Colour
<1>3. Pixels /\ Filtered
  BY <1>1 DEF Pixels, Filtered
<1> QED BY <1>1, <1>2, <1>3 DEF WindowInv

LEMMA LastKept ==
  ASSUME NEW S, NEW s \in Seq(S), Len(s) <= 2
  PROVE  /\ (IF Len(s) = 2 THEN Tail(s) ELSE s) \in Seq(S)
         /\ Len(IF Len(s) = 2 THEN Tail(s) ELSE s) <= 1
<1>1. CASE Len(s) = 2
  <2>1. Tail(s) \in Seq(S) /\ Len(Tail(s)) = Len(s) - 1
    BY ONLY <1>1, s \in Seq(S), HeadTailProperties
  <2>2. Len(Tail(s)) <= 1
    <3>1. \A m, n \in Nat : m = n - 1 /\ n = 2 => m <= 1
      OBVIOUS
    <3>2. Len(Tail(s)) \in Nat /\ Len(s) \in Nat
      BY ONLY <2>1, s \in Seq(S), LenProperties
    <3> QED BY ONLY <1>1, <2>1, <3>1, <3>2, Zenon
  <2>3. (IF Len(s) = 2 THEN Tail(s) ELSE s) = Tail(s)
    BY ONLY <1>1, Zenon
  <2> HIDE <1>1
  <2> QED BY ONLY <2>1, <2>2, <2>3, Zenon
<1>2. CASE Len(s) # 2
  <2>1. Len(s) <= 1
    <3>1. Len(s) \in Nat
      BY ONLY s \in Seq(S)
    <3>2. \A n \in Nat : n <= 2 /\ n # 2 => n <= 1
      OBVIOUS
    <3> QED BY ONLY <1>2, <3>1, <3>2, Len(s) <= 2, Zenon
  <2>2. (IF Len(s) = 2 THEN Tail(s) ELSE s) = s
    BY ONLY <1>2, Zenon
  <2> QED BY ONLY <2>1, <2>2, s \in Seq(S), Zenon
<1> QED BY ONLY <1>1, <1>2, Zenon

LEMMA TextureMade ==
  ASSUME WindowTypes, SetupLcdTexture
  PROVE  /\ gl' \in Seq(Texture) /\ Len(gl') <= 2 /\ Len(gl') > 0 /\ lcd_texture' = Len(gl')
         /\ gl'[Len(gl')].filter = Filter(control.nearest)
<1> DEFINE new == [filter |-> Filter(control.nearest), pixels |-> lcd_pixel_data]
           kept == IF Len(gl) = 2 THEN Tail(gl) ELSE gl
<1>1. gl \in Seq(Texture) /\ Len(gl) <= 2 /\ lcd_pixel_data \in [Texels -> Colour]
  BY DEF WindowTypes
<1>2. new \in Texture /\ new.filter = Filter(control.nearest)
  BY ONLY <1>1 DEF Filter, Texture
<1>3. gl' = Append(kept, new) /\ lcd_texture' = Len(gl')
  BY DEF SetupLcdTexture
<1>4. kept \in Seq(Texture) /\ Len(kept) <= 1
  BY ONLY <1>1, LastKept
<1> HIDE DEF new, kept
<1>5. /\ Append(kept, new) \in Seq(Texture) /\ Len(Append(kept, new)) = Len(kept) + 1
      /\ Append(kept, new)[Len(kept) + 1] = new /\ Len(kept) \in Nat
  BY ONLY <1>2, <1>4, Appended
<1>6. /\ Append(kept, new) \in Seq(Texture) /\ Len(Append(kept, new)) <= 2 /\ Len(Append(kept, new)) > 0
      /\ Append(kept, new)[Len(Append(kept, new))] = new
  BY ONLY <1>4, <1>5
<1> QED BY ONLY <1>2, <1>3, <1>6, Zenon

LEMMA InitTextureStep ==
  ASSUME WindowInv, InitTexture PROVE WindowInv'
<1>1. WindowTypes /\ Pixels /\ Filtered
  BY DEF WindowInv
<1>2. /\ hostAt = "init" /\ hostAt' = "get" /\ SetupLcdTexture
      /\ fbWidth' = fbWidth /\ drawing' = drawing /\ lcd_pixel_data' = lcd_pixel_data
      /\ control' = control
  BY DEF InitTexture, HostGoto
<1>3. /\ gl' \in Seq(Texture) /\ Len(gl') <= 2 /\ Len(gl') > 0 /\ lcd_texture' = Len(gl')
      /\ gl'[Len(gl')].filter = Filter(control.nearest)
  BY ONLY <1>1, <1>2, TextureMade
<1>4. WindowTypes'
  BY ONLY <1>1, <1>2, <1>3 DEF WindowTypes
<1>5. Pixels'
  BY ONLY <1>1, <1>2 DEF Pixels
<1>6. Filtered'
  <2>1. control.old = control.nearest
    BY ONLY <1>1, <1>2 DEF Filtered
  <2> QED BY ONLY <1>2, <1>3, <2>1 DEF Filtered
<1> QED BY ONLY <1>2, <1>4, <1>5, <1>6 DEF WindowInv

LEMMA DrawHostFrameStep ==
  ASSUME WindowInv, DrawHostFrame PROVE WindowInv'
<1>1. WindowTypes /\ Pixels /\ Filtered
  BY DEF WindowInv
<1>2. /\ hostAt = "get" /\ hostAt' = "write" /\ drawing' = (drawing + 1) % Len(Palette)
      /\ fbWidth' = fbWidth /\ lcd_pixel_data' = lcd_pixel_data /\ gl' = gl
      /\ lcd_texture' = lcd_texture /\ control' = control
  BY DEF DrawHostFrame, HostGoto
<1>3. drawing' \in Nat
  <2>1. drawing + 1 \in Int
    BY ONLY <1>1 DEF WindowTypes
  <2>2. (drawing + 1) % Len(Palette) \in 0 .. Len(Palette) - 1
    BY ONLY <2>1, HostConstants, Division
  <2>3. (drawing + 1) % Len(Palette) \in Nat
    BY ONLY <2>2, HostConstants
  <2> QED BY ONLY <1>2, <2>3
<1>4. WindowTypes'
  BY ONLY <1>1, <1>2, <1>3 DEF WindowTypes
<1>5. Pixels' /\ Filtered'
  BY ONLY <1>1, <1>2 DEF Pixels, Filtered
<1> QED BY ONLY <1>2, <1>4, <1>5 DEF WindowInv

LEMMA WriteTextureStep ==
  ASSUME WindowInv, WriteTexture PROVE WindowInv'
<1>1. WindowTypes /\ Pixels /\ Filtered
  BY DEF WindowInv
<1>2. /\ hostAt = "write" /\ hostAt' = "render" /\ RecreateLcdTexture /\ _SetTexturePixel
      /\ fbWidth' = fbWidth /\ drawing' = drawing
  BY DEF WriteTexture, HostGoto
<1> DEFINE Set(t) == IF GetPixel(t % kDisplayWidth, t \div kDisplayWidth)
                     THEN ColorRGBA(PixelOf(drawing, t % kDisplayWidth, t \div kDisplayWidth))
                     ELSE lcd_pixel_data[t]
<1>3. lcd_pixel_data' = [t \in Texels |-> Set(t)]
  BY <1>2 DEF _SetTexturePixel
<1>4. lcd_pixel_data' \in [Texels -> Colour]
  <2>1. ASSUME NEW t \in Texels PROVE Set(t) \in Colour
    <3>1. t % kDisplayWidth \in Int /\ t \div kDisplayWidth \in Int
      BY TexelParts
    <3>2. drawing \in Nat /\ lcd_pixel_data[t] \in Colour
      BY <1>1 DEF WindowTypes
    <3>3. PixelOf(drawing, t % kDisplayWidth, t \div kDisplayWidth) \in Rgb565
      BY ONLY <3>1, <3>2, PixelsAreColours
    <3> QED BY ONLY <3>2, <3>3 DEF Colour
  <2> HIDE DEF Set
  <2> QED BY ONLY <1>3, <2>1
<1>5. Pixels'
  <2>1. ASSUME NEW t \in Texels, t % kDisplayWidth >= fbWidth PROVE lcd_pixel_data'[t] = Unset
    <3>1. ~GetPixel(t % kDisplayWidth, t \div kDisplayWidth)
      <4>1. t % kDisplayWidth \in Int /\ fbWidth \in Int
        BY <1>1, TexelParts DEF WindowTypes
      <4> QED BY ONLY <2>1, <4>1 DEF GetPixel
    <3>2. lcd_pixel_data[t] = Unset
      BY <1>1, <2>1 DEF Pixels
    <3>3. Set(t) = Unset
      BY <3>1, <3>2
    <3> HIDE DEF Set
    <3> QED BY ONLY <1>3, <3>3, t \in Texels
  <2>2. ASSUME NEW t \in Texels, t % kDisplayWidth < fbWidth, t \div kDisplayWidth < kDisplayHeight
        PROVE  lcd_pixel_data'[t] = ColorRGBA(PixelOf(drawing', t % kDisplayWidth, t \div kDisplayWidth))
    <3>1. Set(t) = ColorRGBA(PixelOf(drawing, t % kDisplayWidth, t \div kDisplayWidth))
      BY <2>2 DEF GetPixel
    <3> HIDE DEF Set
    <3> QED BY ONLY <1>2, <1>3, <3>1, t \in Texels
  <2> HIDE DEF Set
  <2> QED BY ONLY <1>2, <2>1, <2>2, Zenon DEF Pixels
<1> HIDE DEF Set
<1>6. CASE control.old # control.nearest
  <2>1. control' = [control EXCEPT !.old = control.nearest] /\ SetupLcdTexture
    BY <1>2, <1>6 DEF RecreateLcdTexture
  <2>2. /\ gl' \in Seq(Texture) /\ Len(gl') <= 2 /\ Len(gl') > 0 /\ lcd_texture' = Len(gl')
        /\ gl'[Len(gl')].filter = Filter(control.nearest)
    BY ONLY <1>1, <2>1, TextureMade
  <2>3. /\ control' \in [scale : Scales, nearest : BOOLEAN, old : BOOLEAN]
        /\ control'.old = control.nearest /\ control'.nearest = control.nearest
    BY ONLY <1>1, <2>1 DEF WindowTypes
  <2>4. WindowTypes'
    BY ONLY <1>1, <1>2, <1>4, <2>2, <2>3 DEF WindowTypes
  <2>5. Filtered'
    BY ONLY <1>2, <2>2, <2>3 DEF Filtered
  <2> QED BY ONLY <1>2, <1>5, <2>4, <2>5 DEF WindowInv
<1>7. CASE ~(control.old # control.nearest)
  <2>1. control' = control /\ gl' = gl /\ lcd_texture' = lcd_texture
    BY <1>2, <1>7 DEF RecreateLcdTexture
  <2>2. WindowTypes'
    BY ONLY <1>1, <1>2, <1>4, <2>1 DEF WindowTypes
  <2>3. Filtered'
    BY ONLY <1>1, <1>2, <1>7, <2>1 DEF Filtered
  <2> QED BY ONLY <1>2, <1>5, <2>2, <2>3 DEF WindowInv
<1> QED BY ONLY <1>6, <1>7

\* The image is of the pixels in memory, filtered as the texture was made.
LEMMA TextureUpdated ==
  ASSUME WindowTypes, Len(gl) > 0, UpdateLcdTexture
  PROVE  /\ gl' \in Seq(Texture) /\ Len(gl') = Len(gl)
         /\ gl'[lcd_texture].filter = gl[Len(gl)].filter /\ gl'[lcd_texture].pixels = lcd_pixel_data
<1> DEFINE l == Len(gl)
           new == [gl[l] EXCEPT !.pixels = lcd_pixel_data]
<1>1. /\ gl \in Seq(Texture) /\ l \in 1 .. Len(gl) /\ lcd_texture = l
      /\ lcd_pixel_data \in [Texels -> Colour] /\ gl[l] \in Texture
  BY DEF WindowTypes
<1>2. gl' = [gl EXCEPT ![l] = new]
  BY <1>1 DEF UpdateLcdTexture
<1>3. new \in Texture /\ new.filter = gl[l].filter /\ new.pixels = lcd_pixel_data
  BY ONLY <1>1 DEF Texture
<1> HIDE DEF new
<1>4. [gl EXCEPT ![l] = new] \in Seq(Texture) /\ Len([gl EXCEPT ![l] = new]) = Len(gl)
      /\ [gl EXCEPT ![l] = new][l] = new
  BY ONLY <1>1, <1>3
<1> QED BY ONLY <1>1, <1>2, <1>3, <1>4

LEMMA RenderHostStep ==
  ASSUME WindowInv, RenderHost
  PROVE  /\ WindowInv'
         /\ hostAt' = "callback" => window'.texture.filter = Filter(control.nearest)
         /\ \A d \in {1, 2} :
              /\ mouse'.at[d] * window'.scale <= window'.cursor[d]
              /\ window'.cursor[d] < (mouse'.at[d] + 1) * window'.scale
<1>1. WindowTypes /\ Pixels /\ Filtered
  BY DEF WindowInv
<1>2. /\ hostAt = "render" /\ hostAt' \in {"exited", "callback"} /\ UpdateLcdTexture
      /\ fbWidth' = fbWidth /\ drawing' = drawing /\ lcd_pixel_data' = lcd_pixel_data
      /\ lcd_texture' = lcd_texture
  BY DEF RenderHost
<1>3. PICK s \in Scales, n \in BOOLEAN : control' = [control EXCEPT !.scale = s, !.nearest = n]
  BY DEF RenderHost
<1>4. PICK cursor \in Cursors, pressed \in BOOLEAN :
        /\ mouse' = [pressed |-> pressed, at |-> MouseAt(cursor)]
        /\ window' = [texture |-> gl'[lcd_texture], scale |-> control.scale, cursor |-> cursor]
  BY DEF RenderHost
<1>5. Len(gl) > 0 /\ gl[Len(gl)].filter = Filter(control.old) /\ control.old = control.nearest
  BY ONLY <1>1, <1>2 DEF Filtered
<1>6. /\ gl' \in Seq(Texture) /\ Len(gl') = Len(gl)
      /\ gl'[lcd_texture].filter = gl[Len(gl)].filter /\ gl'[lcd_texture].pixels = lcd_pixel_data
  BY ONLY <1>1, <1>2, <1>5, TextureUpdated
<1>7. /\ control' \in [scale : Scales, nearest : BOOLEAN, old : BOOLEAN] /\ control'.old = control.old
      /\ control.scale \in Scales
  BY ONLY <1>1, <1>3, s \in Scales, n \in BOOLEAN DEF WindowTypes
<1>8. WindowTypes'
  BY ONLY <1>1, <1>2, <1>6, <1>7 DEF WindowTypes
<1>9. Pixels'
  BY ONLY <1>1, <1>2 DEF Pixels
<1>10. Filtered'
  <2>1. lcd_texture = Len(gl')
    BY ONLY <1>1, <1>6 DEF WindowTypes
  <2>2. gl'[Len(gl')].filter = Filter(control'.old) /\ Len(gl') > 0
    BY ONLY <1>5, <1>6, <1>7, <2>1
  <2> QED BY ONLY <1>2, <2>2 DEF Filtered
<1>11. window'.texture.pixels = lcd_pixel_data /\ window'.texture.filter = Filter(control.nearest)
  BY ONLY <1>4, <1>5, <1>6
<1>12. ASSUME NEW d \in {1, 2}
       PROVE  /\ mouse'.at[d] * window'.scale <= window'.cursor[d]
              /\ window'.cursor[d] < (mouse'.at[d] + 1) * window'.scale
  <2> DEFINE c == cursor[d]
             k == control.scale
             q == c \div k
  <2>1. c \in Int
    BY HostAssumption
  <2>2. k \in Int /\ k > 0
    BY ONLY <1>7, HostConstants
  <2>3. mouse'.at[d] = q /\ window'.scale = k /\ window'.cursor[d] = c
    BY ONLY <1>4, d \in {1, 2} DEF MouseAt
  <2> HIDE DEF c, k
  <2>4. q \in Int /\ c % k \in 0 .. k - 1 /\ c = k * q + (c % k)
    BY ONLY <2>1, <2>2, Division
  <2> HIDE DEF q
  <2>5. q * k <= c /\ c < (q + 1) * k
    BY ONLY <2>1, <2>2, <2>4
  <2> QED BY ONLY <2>3, <2>5
<1>13. WindowInv'
  BY ONLY <1>2, <1>8, <1>9, <1>10, <1>11 DEF WindowInv
<1> QED BY ONLY <1>11, <1>12, <1>13

LEMMA QuitStep ==
  ASSUME WindowInv, Quit PROVE WindowInv'
<1>1. WindowTypes /\ Pixels /\ Filtered
  BY DEF WindowInv
<1>2. /\ hostAt = "render" /\ hostAt' = "exited" /\ UpdateLcdTexture
      /\ fbWidth' = fbWidth /\ drawing' = drawing /\ lcd_pixel_data' = lcd_pixel_data
      /\ lcd_texture' = lcd_texture /\ control' = control
  BY DEF Quit, HostGoto
<1>3. Len(gl) > 0 /\ gl[Len(gl)].filter = Filter(control.old)
  BY ONLY <1>1, <1>2 DEF Filtered
<1>4. /\ gl' \in Seq(Texture) /\ Len(gl') = Len(gl) /\ gl'[lcd_texture].filter = gl[Len(gl)].filter
  BY ONLY <1>1, <1>2, <1>3, TextureUpdated
<1>5. WindowTypes'
  BY ONLY <1>1, <1>2, <1>4 DEF WindowTypes
<1>6. Pixels'
  BY ONLY <1>1, <1>2 DEF Pixels
<1>7. Filtered'
  <2>1. lcd_texture = Len(gl')
    BY ONLY <1>1, <1>4 DEF WindowTypes
  <2> QED BY ONLY <1>2, <1>3, <1>4, <2>1 DEF Filtered
<1> QED BY ONLY <1>2, <1>5, <1>6, <1>7 DEF WindowInv

LEMMA WindowStands ==
  ASSUME WindowInv, UNCHANGED hostVars PROVE WindowInv'
<1>1. /\ fbWidth' = fbWidth /\ hostAt' = hostAt /\ drawing' = drawing /\ lcd_pixel_data' = lcd_pixel_data
      /\ gl' = gl /\ lcd_texture' = lcd_texture /\ control' = control /\ window' = window
  BY DEF hostVars
<1> QED BY ONLY <1>1, WindowInv DEF WindowInv, WindowTypes, Pixels, Filtered

LEMMA HostCallbackStep ==
  ASSUME WindowInv, HostCallback PROVE WindowInv'
<1>1. WindowTypes /\ Pixels /\ Filtered
  BY DEF WindowInv
<1>2. /\ hostAt = "callback" /\ hostAt' = "get"
      /\ fbWidth' = fbWidth /\ drawing' = drawing /\ lcd_pixel_data' = lcd_pixel_data
      /\ gl' = gl /\ lcd_texture' = lcd_texture /\ control' = control
  BY DEF HostCallback, HostGoto
<1>3. WindowTypes' /\ Pixels' /\ Filtered'
  BY ONLY <1>1, <1>2 DEF WindowTypes, Pixels, Filtered
<1> QED BY ONLY <1>2, <1>3 DEF WindowInv

LEMMA WindowInvMeans == WindowInv => HostTypeOK /\ WindowShowsFrame
<1> SUFFICES ASSUME WindowInv PROVE HostTypeOK /\ WindowShowsFrame
  OBVIOUS
<1>1. WindowTypes /\ Pixels
  BY DEF WindowInv
<1>2. HostTypeOK
  <2>1. /\ gl \in Seq(Texture) /\ Len(gl) <= 2 /\ lcd_texture = Len(gl)
        /\ control \in [scale : Scales, nearest : BOOLEAN, old : BOOLEAN]
        /\ hostAt \in {"init", "get", "write", "render", "callback", "exited"}
    BY ONLY <1>1 DEF WindowTypes
  <2>2. ASSUME NEW k \in DOMAIN gl PROVE DOMAIN gl[k].pixels = Texels
    <3>1. gl[k] \in Texture
      BY ONLY <2>1, k \in DOMAIN gl
    <3> QED BY ONLY <3>1 DEF Texture
  <2>3. lcd_texture \in 0 .. Len(gl)
    BY ONLY <2>1
  <2>4. control.scale \in Scales
    BY ONLY <2>1
  <2> QED BY ONLY <2>1, <2>2, <2>3, <2>4 DEF HostTypeOK
<1>3. WindowShowsFrame
  <2> SUFFICES ASSUME hostAt = "callback", NEW x \in Columns, NEW y \in Rows
               PROVE  LET c == window.texture.pixels[y * kDisplayWidth + x]
                      IN  IF x < fbWidth THEN c.a = 255 /\ ToRgb565Of(c) = PixelOf(drawing, x, y)
                          ELSE c = Unset
    BY DEF WindowShowsFrame
  <2> DEFINE t == y * kDisplayWidth + x
             v == PixelOf(drawing, x, y)
  <2>1. t \in Texels /\ t % kDisplayWidth = x /\ t \div kDisplayWidth = y
    BY TexelOf
  <2>2. window.texture.pixels[t] = lcd_pixel_data[t]
    BY DEF WindowInv
  <2>3. /\ x \in Int /\ y \in Int /\ y < kDisplayHeight /\ fbWidth \in Int /\ drawing \in Nat
    BY <1>1, HostConstants DEF Columns, Rows, WindowTypes
  <2>4. v \in Rgb565
    BY ONLY <2>3, PixelsAreColours
  <2>5. CASE x < fbWidth
    <3>1. lcd_pixel_data[t] = ColorRGBA(v)
      BY ONLY <1>1, <2>1, <2>3, <2>5, hostAt = "callback" DEF Pixels
    <3>2. ColorRGBA(v).a = 255 /\ ToRgb565Of(ColorRGBA(v)) = v
      BY ONLY <2>4, ColoursConvertBack
    <3> QED BY ONLY <2>2, <2>5, <3>1, <3>2
  <2>6. CASE ~(x < fbWidth)
    <3>1. lcd_pixel_data[t] = Unset
      BY ONLY <1>1, <2>1, <2>3, <2>6 DEF Pixels
    <3> QED BY ONLY <2>2, <2>6, <3>1
  <2> QED BY ONLY <2>5, <2>6
<1> QED BY ONLY <1>2, <1>3

\* What a step of any application does to the window.
LEMMA WindowSteps ==
  ASSUME WindowInv, [Next]_vars
  PROVE  /\ WindowInv'
         /\ hostAt = "render" /\ hostAt' = "callback" => RenderHost
<1>1. CASE UNCHANGED hostVars
  <2>1. hostAt' = hostAt
    BY <1>1 DEF hostVars
  <2> QED BY <1>1, <2>1, WindowStands
<1>2. CASE InitTexture
  BY <1>2, InitTextureStep DEF InitTexture, HostGoto
<1>3. CASE DrawHostFrame
  BY <1>3, DrawHostFrameStep DEF DrawHostFrame, HostGoto
<1>4. CASE WriteTexture
  BY <1>4, WriteTextureStep DEF WriteTexture, HostGoto
<1>5. CASE RenderHost
  BY <1>5, RenderHostStep
<1>6. CASE Quit
  BY <1>6, QuitStep DEF Quit, HostGoto
<1>7. CASE HostCallback
  BY <1>7, HostCallbackStep DEF HostCallback, HostGoto
<1>8. CASE Bring \/ Rpc \/ BlinkyLoop \/ DisplayLoopStep \/ UNCHANGED vars
  BY <1>1, <1>8 DEF Bring, Rpc, BlinkyLoop, DisplayLoopStep, vars
<1>9. CASE HostLoop
  BY <1>1, <1>2, <1>3, <1>4, <1>5, <1>6, <1>7, <1>9 DEF HostLoop, HostStep, Exited
<1> QED BY <1>8, <1>9 DEF Next

\* When a frame's callback comes, the window of the host shows its very
\* colours, filtered as the settings were when it was written, and the mouse
\* over the pixel that is reported: for displays, framebuffers and palettes of
\* every size, whatever the user did (display_driver.cc:229-235, 337-413).
THEOREM WindowOfTheHost == Spec => HostWindow
<1>1. Init => WindowInv
  <2> SUFFICES ASSUME Init PROVE WindowInv
    OBVIOUS
  <2> DEFINE widths == IF board = "host" THEN FramebufferWidths ELSE {kDisplayWidth}
  <2>1. InitHost(widths)
    BY DEF Init
  <2>2. widths \subseteq Nat
    BY HostConstants
  <2> HIDE DEF widths
  <2> QED BY ONLY <2>1, <2>2, WindowStarts
<1>2. WindowInv /\ [Next]_vars => WindowInv'
  BY WindowSteps
<1>3. WindowInv /\ [Next]_vars =>
        [hostAt = "render" /\ hostAt' = "callback" =>
           window'.texture.filter = Filter(control.nearest)]_hostVars
  BY WindowSteps, RenderHostStep
<1>4. WindowInv /\ [Next]_vars =>
        [hostAt = "render" /\ hostAt' = "callback" =>
           \A d \in {1, 2} :
             /\ mouse'.at[d] * window'.scale <= window'.cursor[d]
             /\ window'.cursor[d] < (mouse'.at[d] + 1) * window'.scale]_hostVars
  BY WindowSteps, RenderHostStep
<1> QED BY <1>1, <1>2, <1>3, <1>4, WindowInvMeans, PTL DEF Spec, HostWindow, FilterFollows, MouseOnPixel
=============================================================================
