---------------------------- MODULE MCHttpExchange ----------------------------
(* One connection; the constants are in HttpExchange.cfg and HttpApply.cfg. *)
EXTENDS HttpExchange
=============================================================================
