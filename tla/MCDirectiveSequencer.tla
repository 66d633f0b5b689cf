------------------------ MODULE MCDirectiveSequencer ------------------------
(* Two directives, one of a dialog and one of none, for TLC. *)
EXTENDS DirectiveSequencer, TLC

CONSTANTS d1, d2, dialogA

MCDirectives == {d1, d2}
MCDialogs == {dialogA}
MCDialogOf == (d1 :> dialogA) @@ (d2 :> NoDialog)
=============================================================================
