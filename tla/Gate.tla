-------------------------------- MODULE Gate --------------------------------
(***************************************************************************)
(* The gate as its caller meets it: the request against the catalog and    *)
(* the launcher (GateLaunch), and the command that judges what is admitted *)
(* on quota (GateCommand).  Neither writes what the other reads, so they   *)
(* take their steps apart.                                                 *)
(***************************************************************************)
EXTENDS GateCommand, GateLaunch

GateSide == LaunchSpec /\ GateSpec

(* The recommendation's offers stand up to the gate, be it the catalog or  *)
(* the measurement that decides (_evaluate, gate_check).                   *)
OffersStand == OffersAreLaunchable /\ OffersAgree
=============================================================================
