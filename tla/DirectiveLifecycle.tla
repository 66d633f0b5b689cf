------------------------- MODULE DirectiveLifecycle -------------------------
(***************************************************************************)
(* What a DirectiveHandler may rely on (AVSCommon's                        *)
(* DirectiveHandlerInterface and the class comment of DirectiveProcessor), *)
(* without queues, locks or threads: each directive passes once, forward,  *)
(* through the phases below; at most one is in a blocking phase at a time; *)
(* and a dialog ends as a whole.  DirectiveProcessor implements this.      *)
(***************************************************************************)
CONSTANTS
  Directives, \* the directives
  Dialogs,    \* the dialogs they may belong to
  DialogOf    \* the dialog of each directive, or a value outside Dialogs for none

VARIABLE phase \* the phase of each directive

(* "new"       not offered to a handler                                     *)
(* "offered"   the handler is being asked to pre-handle it                  *)
(* "pending"   pre-handled, awaiting its turn                               *)
(* "handling"  the handler was asked to handle it and others wait for it    *)
(* "canceling" the handler is to be told that it is canceled                *)
(* "over"      nothing further is asked of the handler                      *)
Active == {"offered", "pending", "handling"}
Phases == Active \cup {"new", "canceling", "over"}

InPhase(p) == {d \in Directives : phase[d] = p}

Init == phase = [d \in Directives |-> "new"]

Advance(d, from, to) == phase[d] = from /\ phase' = [phase EXCEPT ![d] = to]

Offer(d) == InPhase("offered") = {} /\ Advance(d, "new", "offered")
Admit(d) == Advance(d, "offered", "pending")
Begin(d) == InPhase("handling") = {} /\ Advance(d, "pending", "handling")

\* d is over and every active directive of ending is to be canceled.
End(over, ending) ==
  phase' = [e \in Directives |-> IF e \in over THEN "over"
                                 ELSE IF e \in ending /\ phase[e] \in Active THEN "canceling"
                                 ELSE phase[e]]

Finish(d) == phase[d] # "new" /\ End({d}, {})
Fail(d) == phase[d] # "new" /\ End({d}, {e \in Directives : DialogOf[e] = DialogOf[d]})
CancelDialog(id) == End({}, {e \in Directives : DialogOf[e] = id})
CancelAll == End({}, Directives)

Next ==
  \/ \E d \in Directives : Offer(d) \/ Admit(d) \/ Begin(d) \/ Finish(d)
  \/ \E d \in Directives : DialogOf[d] \in Dialogs /\ Fail(d)
  \/ \E id \in Dialogs : CancelDialog(id)
  \/ CancelAll

Spec == Init /\ [][Next]_phase
=============================================================================
