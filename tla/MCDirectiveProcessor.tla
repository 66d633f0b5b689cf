------------------------ MODULE MCDirectiveProcessor ------------------------
(* Three directives, two of one dialog and one of none, for TLC. *)
EXTENDS DirectiveProcessor, TLC

CONSTANTS d1, d2, d3, dialogA, dialogB

MCDirectives == {d1, d2, d3}
MCDialogs == {dialogA, dialogB}
MCDialogOf == (d1 :> dialogA) @@ (d2 :> dialogA) @@ (d3 :> NoDialog)

\* d1 and d2 are of the same dialog and play the same part.
MCSymmetry == Permutations({d1, d2})
=============================================================================
