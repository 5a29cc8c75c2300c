----------------------------- MODULE MCOtaClients -----------------------------
(* A command line and a page; the constants are in OtaClients.cfg. *)
EXTENDS OtaClients
=============================================================================
