------------------------ MODULE MCSpeechSynthesizer ------------------------
(* Two directives, for TLC. *)
EXTENDS SpeechSynthesizer, TLC

CONSTANTS d1, d2

MCDirectives == {d1, d2}
=============================================================================
