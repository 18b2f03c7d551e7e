-------------------------- MODULE MCReliableQueue --------------------------
(* A small instance of ReliableQueue in which the second payload is poison *)
EXTENDS ReliableQueue

MCPoison == {2}
=============================================================================
