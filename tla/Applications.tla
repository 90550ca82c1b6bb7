---------------------------- MODULE Applications ---------------------------
(***************************************************************************)
(* The applications from reset: a board is brought up, then its loop runs, *)
(* that of rpc, blinky, terminal_display or 32blit_demo, on the host's      *)
(* window as well; there the loop's times are left out.                    *)
(***************************************************************************)
EXTENDS Superloop, DisplayLoop, BringUp, HostDisplay

vars == <<superVars, loopVars, bringVars, hostVars>>

Init ==
  /\ InitSuperloop /\ InitLoop /\ InitBringUp
  /\ app \in {"rpc", "blinky"} \/ board = "host" => clock = 0
  /\ InitHost(IF board = "host" THEN FramebufferWidths ELSE {kDisplayWidth})

Bring == (BringUpStep \/ Stays) /\ UNCHANGED <<superVars, loopVars, hostVars>>
Runs(apps) == at = "loop" /\ app \in apps /\ UNCHANGED bringVars
Rpc == Runs({"rpc"}) /\ (Receive \/ LoopStep) /\ UNCHANGED <<loopVars, hostVars>>
BlinkyLoop == Runs({"blinky"}) /\ Blinky(board = "pico") /\ UNCHANGED <<loopVars, hostVars>>
DisplayLoopStep ==
  /\ Runs({"terminal_display", "32blit_demo"}) /\ board # "host"
  /\ DrawFrame(app = "32blit_demo") \/ FlushFrame \/ CheckTime
  /\ UNCHANGED <<superVars, hostVars>>
HostLoop ==
  /\ Runs({"terminal_display"}) /\ board = "host"
  /\ HostStep \/ Exited
  /\ UNCHANGED <<superVars, loopVars>>

Next == Bring \/ Rpc \/ BlinkyLoop \/ DisplayLoopStep \/ HostLoop

\* The processor goes on; what comes over the wire is not promised.
Fairness ==
  /\ WF_vars(BringUpStep /\ UNCHANGED <<superVars, loopVars, hostVars>>)
  /\ WF_vars(Runs({"rpc"}) /\ LoopStep /\ UNCHANGED <<loopVars, hostVars>>)
  /\ WF_vars(BlinkyLoop)

Spec == Init /\ [][Next]_vars /\ Fairness

\* A board gets to its loop and blinks for ever, but for the STM32Cube ones,
\* which may halt (main.cc:143-161, 183-191; boot.cc:111-135).
Blinking ==
  app \in {"rpc", "blinky"} =>
    BlinksForever \/ (board \in Cube /\ <>(at = "halted"))
=============================================================================
