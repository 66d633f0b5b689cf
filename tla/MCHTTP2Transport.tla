-------------------------- MODULE MCHTTP2Transport --------------------------
(* Two messages of clients beside the event, for TLC. *)
EXTENDS HTTP2Transport, TLC

CONSTANTS r1, r2

MCRequests == {r1, r2}
=============================================================================
