---------------------------- MODULE MCLssReader ----------------------------
(* Values for the model checking of LssReader. *)
EXTENDS LssReader

\* Six packets with 3, 1, 9, 2, 1 and 4 bytes of data, a buffer for 8: the third
\* packet does not fit, two of the others may arrive in one read.
MCPackets == 6
MCBoundary == <<0, 7, 12, 25, 31, 36, 44>>
MCMaxLength == 8

\* Bytes taken for a header announce one of these lengths.
MCMisread == {0, 1, 5}
=============================================================================
