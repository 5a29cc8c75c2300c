--------------------------- MODULE MCConnectivity ---------------------------
(***************************************************************************)
(* Model-checking module: the constants get their values in                *)
(* Connectivity.cfg, where the delays are 1, 2 and 4 ticks.                *)
(***************************************************************************)
EXTENDS Connectivity
=============================================================================
