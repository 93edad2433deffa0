--------------------------- MODULE MCActuationLive ---------------------------
(* Instances of ActuationLive for TLC.                                      *)
EXTENDS ActuationLive

\* boost_charging differs from grid_charging in its values only
Four == {"self_consumption", "grid_charging", "proactive_export",
         "spike_discharge"}
=============================================================================
