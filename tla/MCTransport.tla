---------------------------- MODULE MCTransport ----------------------------
(* Finite instances of Transport.                                          *)
EXTENDS Transport
=============================================================================
