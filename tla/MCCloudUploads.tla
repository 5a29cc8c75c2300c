--------------------------- MODULE MCCloudUploads ---------------------------
(***************************************************************************)
(* Model-checking module: the constants get their values in                *)
(* CloudUploads.cfg.                                                       *)
(***************************************************************************)
EXTENDS CloudUploads
=============================================================================
