------------------------------ MODULE MCVncClient ------------------------------
(***************************************************************************)
(* Constants for the model checker: which functions the application of an  *)
(* instance calls.                                                         *)
(***************************************************************************)
EXTENDS VncClient

CallsLifecycle == {"destroy", "disconnect", "credentials", "framebuffer", "viewonly"}
CallsProgress == {"destroy", "disconnect", "framebuffer", "input"}
CallsTraffic == {"disconnect", "input", "request", "rectangle"}
CallsReconnect == {"disconnect"}
CallsQuitLost == {"destroy", "input"}
=============================================================================
