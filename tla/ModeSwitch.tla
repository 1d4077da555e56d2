----------------------------- MODULE ModeSwitch -----------------------------
(***************************************************************************)
(* What one capture session of the agent promises to the control server:   *)
(* it is asked for a mode ("want"), it captures in some mode or not at all *)
(* ("have"), a capture only ever starts in the mode wanted at that moment, *)
(* never changes mode while it runs, and one that runs in a mode nobody    *)
(* wants any more is stopped.                                              *)
(***************************************************************************)
VARIABLES want, have

vars == <<want, have>>

Off  == "off"     \* tcpdump only
On   == "on"      \* tcpdump | tshark
None == "none"    \* no capture is running

Init ==
  /\ want = Off
  /\ have = None

Ask(m) ==
  /\ want' = m
  /\ UNCHANGED have

StartCapture ==
  /\ have = None
  /\ have' = want
  /\ UNCHANGED want

StopCapture ==
  /\ have # None
  /\ have' = None
  /\ UNCHANGED want

StopStale == have # want /\ StopCapture

Next == (\E m \in {Off, On}: Ask(m)) \/ StartCapture \/ StopCapture

SafeSpec == Init /\ [][Next]_vars

Spec == SafeSpec /\ WF_vars(StopStale)
=============================================================================
