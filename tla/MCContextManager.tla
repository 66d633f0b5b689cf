-------------------------- MODULE MCContextManager --------------------------
(* Two states and two requests, for TLC. *)
EXTENDS ContextManager, TLC

CONSTANTS n1, n2, r1, r2

MCNames == {n1, n2}
MCRequesters == {r1, r2}
=============================================================================
