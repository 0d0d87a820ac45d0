------------------------------ MODULE MCStore ------------------------------
(* Values for the model checking of Store. *)
EXTENDS Store

CONSTANTS p1, p2, p3, c1, c2, c3

MCProducers == {p1, p2, p3}
MCConsumers == {c1, c2, c3}

\* reserve() shrinks the store below its contents, to nothing, and enlarges it.
MCResized == {0, 1, 3}
=============================================================================
