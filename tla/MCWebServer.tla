----------------------------- MODULE MCWebServer -----------------------------
(***************************************************************************)
(* Model-checking module: the constants get their values in the .cfg       *)
(* files WebSafety.cfg and WebLiveness.cfg.                                *)
(***************************************************************************)
EXTENDS WebServer
=============================================================================
