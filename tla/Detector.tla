------------------------------- MODULE Detector -------------------------------
(***************************************************************************)
(* The BargeInDetector port of core/ports.py: what the orchestrator may    *)
(* assume of whatever watches the microphone while a reply is spoken.      *)
(* Arming forgets what an earlier reply heard, disarmed or not; speech is  *)
(* reported only between arm and disarm, and once reported it stays        *)
(* reported until the next arm.                                            *)
(***************************************************************************)
VARIABLES
  armed,      \* between the start of arm() and the return of disarm()
  speaking    \* what speaking() answers

detectorVars == <<armed, speaking>>

Init == armed = FALSE /\ speaking = FALSE

Arm == armed' = TRUE /\ speaking' = FALSE

Hear == armed /\ ~speaking /\ speaking' = TRUE /\ UNCHANGED armed

Disarm == armed /\ armed' = FALSE /\ UNCHANGED speaking

Next == Arm \/ Hear \/ Disarm

Spec == Init /\ [][Next]_detectorVars
===============================================================================
