---------------------------- MODULE OneController ----------------------------
(***************************************************************************)
(* What LocalShift promises about who commands the battery.  A config      *)
(* entry is set up, unloaded and set up again, each time with a new        *)
(* coordinator.  At most one of them is live; only the live one sends the  *)
(* battery a command of its own; and one that was retired stays retired.   *)
(***************************************************************************)
CONSTANT Instances      \* the coordinators, in the order they are created

VARIABLES
  live,                 \* the coordinators in charge: none or one
  retired,              \* those that were in charge and no longer are
  commander             \* whoever sent the last command: none or one

vars == <<live, retired, commander>>

Init == live = {} /\ retired = {} /\ commander = {}

Take(i) ==
  /\ live = {} /\ i \notin retired
  /\ live' = {i}
  /\ UNCHANGED <<retired, commander>>

Command ==
  /\ live # {}
  /\ commander' = live
  /\ UNCHANGED <<live, retired>>

Retire ==
  /\ live # {}
  /\ retired' = retired \cup live
  /\ live' = {}
  /\ UNCHANGED commander

Next == Command \/ Retire \/ \E i \in Instances : Take(i)

Spec == Init /\ [][Next]_vars
=============================================================================
