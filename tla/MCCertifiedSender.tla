------------------------- MODULE MCCertifiedSender -------------------------
(* Three messages, and room for two, for TLC. *)
EXTENDS CertifiedSender, TLC

CONSTANTS m1, m2, m3

MCMessages == {m1, m2, m3}
=============================================================================
