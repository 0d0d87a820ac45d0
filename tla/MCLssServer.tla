---------------------------- MODULE MCLssServer ----------------------------
(* Model checking of LssServer; the bounds are in the configuration. *)
EXTENDS LssServer
=============================================================================
