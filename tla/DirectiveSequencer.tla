------------------------- MODULE DirectiveSequencer -------------------------
(***************************************************************************)
(* ADSL/src/DirectiveSequencer.cpp with the DirectiveProcessor it drives.  *)
(* Directives arrive from the connection in onDirective(); the receiving   *)
(* thread takes them one by one and offers each to a handler whose policy  *)
(* is HANDLE_IMMEDIATELY, and otherwise to the processor.  The default     *)
(* build, without DIALOG_REQUEST_ID_IN_ALL_RESPONSE_DIRECTIVES.            *)
(*                                                                         *)
(* disable() and enable() call the processor with the sequencer's m_mutex  *)
(* held; disable() makes two calls, and "disabling" is the time between.   *)
(* The processor's clients are the sequencer's; its receiving thread is    *)
(* the sequencer's; its shutdown() is called from doShutdown().            *)
(***************************************************************************)
EXTENDS DirectiveProcessor

VARIABLES
  seq,       \* the members guarded by the sequencer's m_mutex, and who holds it
  recv,      \* the receiving thread: its place in receivingLoop(), its directive
  arrived,   \* directives that onDirective() accepted, in order
  immediate, \* directives passed to a handler's handleDirectiveImmediately()
  dropped,   \* directives the processor dropped for their dialogRequestId
  sent       \* directives answered with an ExceptionEncountered event

seqVars == <<seq, recv, arrived, immediate, dropped, sent>>
allVars == <<vars, seqVars>>

\* m_mutex is free for another thread.
Free == seq.holder = "none"

Waiting == Elements(seq.receivingQueue)

SeqInit ==
  /\ Init
  /\ seq = [isEnabled |-> TRUE, isShuttingDown |-> FALSE, receivingQueue |-> << >>, holder |-> "none"]
  /\ recv = [pc |-> "loop", directive |-> NoDirective]
  /\ arrived = << >> /\ immediate = {} /\ dropped = {} /\ sent = {}

\* m_wakeReceivingLoop.notify_one()
Woken(r) == IF r.pc = "asleep" THEN [r EXCEPT !.pc = "loop"] ELSE r

-----------------------------------------------------------------------------
(* Clients *)

\* Fault: onDirective() does not wake the receiving thread.
DirectiveArrivesUnnoticed(d) ==
  /\ Free /\ seq.isEnabled /\ ~seq.isShuttingDown
  /\ d \notin Elements(arrived)
  /\ seq' = [seq EXCEPT !.receivingQueue = Append(@, d)]
  /\ arrived' = Append(arrived, d)
  /\ UNCHANGED <<vars, recv, immediate, dropped, sent>>

\* onDirective(); refused, with no effect, while disabled or shutting down.
DirectiveArrives(d) ==
  /\ Free /\ seq.isEnabled /\ ~seq.isShuttingDown
  /\ d \notin Elements(arrived)
  /\ seq' = [seq EXCEPT !.receivingQueue = Append(@, d)]
  /\ recv' = Woken(recv)
  /\ arrived' = Append(arrived, d)
  /\ UNCHANGED <<vars, immediate, dropped, sent>>

\* setDialogRequestId() does not take the sequencer's m_mutex.
ChangeDialog(id) == SetDialogRequestId(id) /\ UNCHANGED seqVars

\* disable(): with m_mutex held, the processor is told to leave the dialog ...
BeginDisable ==
  /\ Free
  /\ seq' = [seq EXCEPT !.isEnabled = FALSE, !.holder = "disabling"]
  /\ SetDialogRequestId(NoDialog)
  /\ UNCHANGED <<recv, arrived, immediate, dropped, sent>>

\* ... and then to disable itself.
EndDisable ==
  /\ seq.holder = "disabling"
  /\ seq' = [seq EXCEPT !.holder = "none"]
  /\ Disable
  /\ recv' = Woken(recv)
  /\ UNCHANGED <<arrived, immediate, dropped, sent>>

EnableAll ==
  /\ Free
  /\ seq' = [seq EXCEPT !.isEnabled = TRUE]
  /\ Enable
  /\ recv' = Woken(recv)
  /\ UNCHANGED <<arrived, immediate, dropped, sent>>

-----------------------------------------------------------------------------
(* The receiving thread: receivingLoop() *)

RecvLoop == recv.pc = "loop" /\ Free

RecvSleep ==
  /\ RecvLoop /\ seq.receivingQueue = << >> /\ ~seq.isShuttingDown
  /\ recv' = [recv EXCEPT !.pc = "asleep"]
  /\ UNCHANGED <<vars, seq, arrived, immediate, dropped, sent>>

RecvExit ==
  /\ RecvLoop /\ seq.isShuttingDown
  /\ recv' = [recv EXCEPT !.pc = "exited"]
  /\ UNCHANGED <<vars, seq, arrived, immediate, dropped, sent>>

\* receiveDirectiveLocked(): take a directive and release m_mutex.  Whether the sequencer
\* has been disabled since the directive arrived is not looked at.
Take ==
  /\ RecvLoop /\ seq.receivingQueue # << >> /\ ~seq.isShuttingDown
  /\ seq' = [seq EXCEPT !.receivingQueue = Tail(@)]
  /\ recv' = [pc |-> "taken", directive |-> Head(seq.receivingQueue)]
  /\ UNCHANGED <<vars, arrived, immediate, dropped, sent>>

Finished == [pc |-> "loop", directive |-> NoDirective]

\* handleDirectiveWithPolicyHandleImmediately() found a handler and called it.
HandleImmediately ==
  /\ recv.pc = "taken"
  /\ immediate' = immediate \cup {recv.directive}
  /\ recv' = Finished
  /\ UNCHANGED <<vars, seq, arrived, dropped, sent>>

\* It did not: the directive goes to the processor.
CallProcessor ==
  /\ recv.pc = "taken"
  /\ recv' = [recv EXCEPT !.pc = "processor"]
  /\ UNCHANGED <<vars, seq, arrived, immediate, dropped, sent>>

ProcessorAccepts ==
  /\ recv.pc = "processor"
  /\ Accept(recv.directive)
  /\ UNCHANGED seqVars

\* The processor returned false at once (disabled: an exception is sent) or dropped it.
ProcessorRefuses ==
  /\ recv.pc = "processor"
  /\ Refuse(recv.directive)
  /\ IF dp.isEnabled /\ ~dp.isShuttingDown
     THEN dropped' = dropped \cup {recv.directive} /\ UNCHANGED sent
     ELSE sent' = sent \cup {recv.directive} /\ UNCHANGED dropped
  /\ recv' = Finished
  /\ UNCHANGED <<seq, arrived, immediate>>

\* Fault: a directive that was canceled while it was pre-handled counts as not handled.
AnsweredIfQueued(wasHandled) == wasHandled /\ dp.beingPreHandled # NoDirective

\* What the processor's onDirective() returns after pre-handling.
Answered(wasHandled) == wasHandled

\* The processor returned whether there was a handler.
ProcessorReturns(wasHandled) ==
  /\ recv.pc = "processor"
  /\ ReturnPreHandle(wasHandled)
  /\ sent' = IF Answered(wasHandled) THEN sent ELSE sent \cup {recv.directive}
  /\ recv' = Finished
  /\ UNCHANGED <<seq, arrived, immediate, dropped>>

-----------------------------------------------------------------------------
(* doShutdown() *)

BeginShutdown ==
  /\ Free /\ ~seq.isShuttingDown
  /\ seq' = [seq EXCEPT !.isShuttingDown = TRUE]
  /\ recv' = Woken(recv)
  /\ UNCHANGED <<vars, arrived, immediate, dropped, sent>>

\* The receiving thread is joined, then the processor is shut down.
ShutdownProcessor ==
  /\ seq.isShuttingDown /\ recv.pc = "exited"
  /\ EraseHandle
  /\ UNCHANGED seqVars

ProcessorShutdown == (QueueAll \/ Join) /\ UNCHANGED seqVars

-----------------------------------------------------------------------------
SeqClient ==
  \/ \E d \in Directives : DirectiveArrives(d)
  \/ \E id \in Ids : ChangeDialog(id)
  \/ BeginDisable \/ EnableAll \/ BeginShutdown

\* The steps of the receiving thread up to the processor's verdict.
RecvStep ==
  \/ RecvSleep \/ RecvExit \/ Take \/ HandleImmediately \/ CallProcessor
  \/ ProcessorAccepts \/ ProcessorRefuses
  \/ \E wasHandled \in BOOLEAN : ProcessorReturns(wasHandled)
  \/ EnterPreHandle /\ UNCHANGED seqVars

ShutdownStep == ShutdownProcessor \/ ProcessorShutdown

SeqNext ==
  \/ SeqClient
  \/ EndDisable
  \/ RecvStep
  \/ Handler /\ UNCHANGED seqVars
  \/ Processing /\ UNCHANGED seqVars
  \/ ShutdownStep

SeqSpec == SeqInit /\ [][SeqNext]_allVars

\* The receiving, processing and shutdown threads run, a client that holds m_mutex goes on,
\* and handlers return from the calls made to them.
SeqFairness ==
  /\ WF_allVars(EndDisable)
  /\ SF_allVars(RecvStep)
  /\ WF_allVars(Processing /\ UNCHANGED seqVars)
  /\ WF_allVars(ShutdownStep)

FairSeqSpec == SeqSpec /\ SeqFairness

\* In addition every handler reports the result of each directive it was asked to handle.
HandledReport(d) == d \in handled /\ (SetCompleted(d) \/ SetFailed(d)) /\ UNCHANGED seqVars
ReportingSeqSpec == FairSeqSpec /\ \A d \in Directives : WF_allVars(HandledReport(d))

-----------------------------------------------------------------------------
(* Properties *)

RecvPcs == {"loop", "asleep", "taken", "processor", "exited"}

\* The members, the receiving thread and the records of answers have their types, and the
\* processor's.
SeqTypeOK ==
  /\ TypeOK
  /\ seq \in [isEnabled : BOOLEAN, isShuttingDown : BOOLEAN, receivingQueue : Seq(Directives),
              holder : {"none", "disabling"}]
  /\ recv \in [pc : RecvPcs, directive : Directives \cup {NoDirective}]
  /\ arrived \in Seq(Directives)
  /\ immediate \subseteq Directives /\ dropped \subseteq Directives /\ sent \subseteq Directives

\* No directive gets two answers: handled at once, dropped, or offered to the processor; and
\* an ExceptionEncountered event ("unsupported operation") is never sent for a directive that
\* some handler was given, even when it was canceled in the middle of preHandleDirective().
OneAnswer ==
  /\ immediate \cap (Elements(offered) \cup dropped \cup sent) = {}
  /\ dropped \cap (Elements(offered) \cup sent) = {}
  /\ sent \cap (preHandled \cup handled) = {}

\* Directives reach handleDirective() in the order in which they arrived, across both queues
\* and both threads.
HandledInArrivalOrder ==
  [][\A i, j \in DOMAIN arrived :
       i < j /\ arrived[i] \in handled' \ handled => arrived[j] \notin handled]_allVars

\* After the processor's shutdown() returned no handler is called again, by any thread.
NothingAfterShutdown ==
  [][shutdownPc = "done" => UNCHANGED <<immediate, preHandled, handled, canceled>>]_allVars

\* The receiving thread sleeps only while nothing waits and nobody shuts down, although one
\* notify_one() is all that a directive has.
ReceiverSleepsOnlyIdle ==
  recv.pc = "asleep" => seq.receivingQueue = << >> /\ ~seq.isShuttingDown

\* Every accepted directive is answered unless the sequencer is shut down: no wake-up of the
\* receiving thread is lost and it does not wait for the processing thread.
EveryDirectiveAnswered ==
  \A d \in Directives :
    d \in Elements(arrived) ~>
      d \in immediate \cup dropped \cup sent \cup Elements(offered) \/ seq.isShuttingDown

\* doShutdown() returns from the processor's shutdown().
SeqShutdownReturns == seq.isShuttingDown ~> shutdownPc = "done"
=============================================================================
