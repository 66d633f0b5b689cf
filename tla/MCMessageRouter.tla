-------------------------- MODULE MCMessageRouter --------------------------
(* Two clients, for TLC. *)
EXTENDS MessageRouter, TLC

CONSTANTS c1, c2

MCClients == {c1, c2}
=============================================================================
