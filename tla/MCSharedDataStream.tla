------------------------- MODULE MCSharedDataStream -------------------------
(* Two readers and a buffer of two words, for TLC. *)
EXTENDS SharedDataStream, TLC

MCPolicies == {"NONBLOCKABLE", "ALL_OR_NOTHING", "BLOCKING"}
=============================================================================
