-------------------------- MODULE MCServerSession --------------------------
(* Values for the model checking of ServerSession. *)
EXTENDS ServerSession

\* Two addresses: the first attempt, and one after a failure.
MCMaxEndpoints == 2
=============================================================================
