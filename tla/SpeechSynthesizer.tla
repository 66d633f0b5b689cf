-------------------------- MODULE SpeechSynthesizer --------------------------
(***************************************************************************)
(* CapabilityAgents/SpeechSynthesizer/src/SpeechSynthesizer.cpp: Speak     *)
(* directives are spoken one after the other, each with the focus of the   *)
(* Dialog channel.                                                         *)
(*                                                                         *)
(* The directive sequencer, the media player and the focus manager call    *)
(* from threads of their own.  What they ask for is done by tasks of       *)
(* m_executor, and onFocusChanged() keeps the focus manager's thread until *)
(* they have done it, for five seconds at most.  A task is one step: its   *)
(* calls of the others only queue something there, or are answered later.  *)
(*                                                                         *)
(* The state of the agent is one record, and a handler is a function of    *)
(* it, because handlers call each other.  Events sent to AVS and the state *)
(* given to the context manager are left out.                              *)
(***************************************************************************)
EXTENDS Naturals, Sequences, FiniteSets, SequencesExt

CONSTANTS
  Directives,   \* the Speak directives
  None,         \* no directive, no source
  MaxEvents     \* bound: payloads that are not as they should be, failures of the player, times that another observer takes the channel, and times that the dialog UX state becomes IDLE

ASSUME SpeechAssumption ==
  /\ None \notin Directives
  /\ MaxEvents \in Nat

VARIABLES
  agent,     \* the SpeechSynthesizer, and the MediaPlayer that only it uses
  channel,   \* the focus of the Dialog channel that the agent was last told of
  caller,    \* where the focus manager's thread is
  shutdown,  \* where doShutdown() is
  asked,     \* what the sequencer has asked for each directive
  events     \* such events so far

speechVars == <<agent, channel, caller, shutdown, asked, events>>

Silent == [source |-> None, does |-> "nothing"]

\* A source is named by its directive, whose reader is moved to the player.
SpeechInit ==
  /\ agent = [tasks |-> << >>,         \* m_executor
              queue |-> << >>,         \* m_speakInfoQueue
              current |-> None,        \* m_currentInfo
              mapped |-> {},           \* m_speakDirectiveInfoMap
              known |-> {},            \* m_directiveInfoMap of CapabilityAgent
              readers |-> {},          \* the infos with an attachmentReader
              completes |-> {},        \* the infos with sendCompletedMessage
              state |-> "FINISHED",    \* m_currentState
              desired |-> "FINISHED",  \* m_desiredState
              focus |-> "NONE",        \* m_currentFocus
              source |-> None,         \* m_mediaSourceId
              stopping |-> FALSE,      \* m_isAlreadyStopping
              focusTasks |-> << >>,    \* what it has asked of the focus manager
              results |-> [d \in Directives |-> << >>], \* the calls of each DirectiveHandlerResult
              player |-> Silent,
              disturbed |-> FALSE,     \* history: there was an error while something was current, or a timeout
              again |-> FALSE,         \* history: the player was to play while it had a source
              halted |-> "no"]         \* a null pointer was used, or m_mutex locked twice
  /\ channel = "NONE" /\ caller = "away" /\ shutdown = "no"
  /\ asked = [d \in Directives |-> "nothing"]
  /\ events = 0

Elements(s) == {s[i] : i \in DOMAIN s}
Running == agent.halted = "no"
Event == events < MaxEvents /\ events' = events + 1

Posted(s, op, d) == [s EXCEPT !.tasks = Append(@, [op |-> op, directive |-> d])]
\* A directive to be handled immediately has no result.
Result(s, D, r) ==
  [s EXCEPT !.results = [d \in Directives |-> IF d \in D /\ asked[d] # "immediate" THEN Append(@[d], r) ELSE @[d]]]
Cleared(s, D) == [s EXCEPT !.readers = @ \ D, !.completes = @ \ D]
Crashed(s) == [s EXCEPT !.halted = "crashed"]

-----------------------------------------------------------------------------
(* The handlers of the agent *)

\* resetCurrentInfo()
Reset(s) ==
  [Cleared(s, {s.current}) EXCEPT !.current = None, !.mapped = @ \ {s.current}, !.known = @ \ {s.current}]

\* executePlaybackError(): the focus is released, and the whole queue has failed.
PlaybackError(s) ==
  LET all == Elements(s.queue)
  IN IF s.current = None THEN s
     ELSE [Cleared(Result(Reset(s), all, "failed"), all) EXCEPT
             !.state = "FINISHED", !.focus = "NONE", !.focusTasks = Append(@, "release"),
             !.source = None, !.queue = << >>, !.known = @ \ all, !.disturbed = TRUE]

\* stop() succeeds while the player has the source.
CanStop(s) == s.player.source = s.source /\ s.player.does \in {"start", "play", "wait"}

\* Fault: the state is the desired one before the player has stopped.
StopPlayingAtOnce(s) ==
  IF s.source = None \/ s.stopping THEN s
  ELSE IF CanStop(s)
       THEN [s EXCEPT !.stopping = TRUE, !.state = "FINISHED",
                      !.player.does = IF @ = "play" THEN "stop" ELSE "startAndStop"]
  ELSE PlaybackError(s)

\* stopPlaying()
StopPlaying(s) ==
  IF s.source = None \/ s.stopping THEN s
  ELSE IF CanStop(s)
       THEN [s EXCEPT !.stopping = TRUE, !.player.does = IF @ = "play" THEN "stop" ELSE "startAndStop"]
  ELSE PlaybackError(s)

\* A callback of the player, about its source: a task, unless doShutdown() has begun.  If that
\* is not the source it was last given, the task is one of error.
Callback(s, op) ==
  IF shutdown # "no" THEN s
  ELSE Posted(s, IF op = "error" \/ s.player.source = s.source THEN op ELSE "error", None)

\* setSource() stops a source that was not at its end.
Discarded(s) ==
  [IF s.player = Silent THEN s ELSE Callback(s, "finished") EXCEPT
     !.player = Silent]

\* startPlaying(): if the player fails there is an error; if there is no reader, the player waits
\* for data.
StartPlaying(s, fails) ==
  LET d == s.current
      t == [Discarded(s) EXCEPT !.readers = @ \ {d}, !.again = IF s.source = None THEN @ ELSE TRUE]
  IN IF d = None THEN Crashed(s)
     ELSE IF fails THEN PlaybackError([t EXCEPT !.source = None])
     ELSE [t EXCEPT !.source = d, !.stopping = FALSE,
                    !.player = [source |-> d, does |-> IF d \in s.readers THEN "start" ELSE "wait"]]

Speaks(s) == s.state \in {"PLAYING", "GAINING_FOCUS"}

\* sendExceptionEncounteredAndReportFailed(): what is spoken is stopped, whatever it is.
ReportedFailed(s, d) == [Cleared(Result(s, {d}, "failed"), {d}) EXCEPT !.known = @ \ {d}]
Failed(s, d) ==
  LET t == ReportedFailed(s, d) IN IF Speaks(s) THEN StopPlaying(t) ELSE t

\* executeHandleAfterValidation()
HandleNow(s, d) == [s EXCEPT !.current = d, !.focusTasks = Append(@, "acquire")]

\* Fault: whoever comes is handled, and the queue is for the others.
QueuedAndHandled(s, d) == HandleNow([s EXCEPT !.queue = Append(@, d)], d)

\* addToDirectiveQueue()
Queued(s, d) ==
  LET t == [s EXCEPT !.queue = Append(@, d)] IN IF s.queue = << >> THEN HandleNow(t, d) ELSE t

\* executePreHandleAfterValidation(): a payload that is not as it should be does not get into the
\* map; one whose format is unknown, or of which there is nothing to read, does.
PreHandled(s, d, payload) ==
  CASE payload = "good" -> [s EXCEPT !.mapped = @ \cup {d}, !.readers = @ \cup {d}]
    [] payload = "bad" -> Failed(s, d)
    [] payload = "unknownFormat" -> [Failed(s, d) EXCEPT !.mapped = @ \cup {d}, !.readers = @ \cup {d}]
    [] payload = "unreadable" -> [Failed(s, d) EXCEPT !.mapped = @ \cup {d}]

\* validateInfo() makes a new info for a directive that is not in the map.
IsCurrent(s, d) == s.current = d /\ d \in s.mapped

\* executeCancel() of a directive that is not the current one, and of the current one.
CancelledWaiting(s, d) ==
  [IF d \in s.mapped THEN Cleared(s, {d}) ELSE s EXCEPT
     !.mapped = @ \ {d}, !.known = @ \ {d}, !.queue = RemoveFirst(@, d)]

CancelledCurrent(s, d) ==
  IF s.desired = "FINISHED" THEN s
  ELSE LET t == [s EXCEPT !.desired = "FINISHED"]
       IN IF Speaks(s) THEN StopPlaying([t EXCEPT !.completes = @ \ {d}]) ELSE t

Cancelled(s, d) == IF IsCurrent(s, d) THEN CancelledCurrent(s, d) ELSE CancelledWaiting(s, d)

\* executeStateChange()
StateChanged(s, fails) ==
  IF s.desired = "PLAYING"
  THEN StartPlaying([s EXCEPT !.completes = IF s.current = None THEN @ ELSE @ \cup {s.current}], fails)
  ELSE StopPlaying(s)

\* executePlaybackStarted()
Started(s) == IF s.current = None THEN s ELSE [s EXCEPT !.state = "PLAYING"]

\* Fault: the flag of the current info is looked at when that has been reset.
CompletedTooLate(s) == s

\* setHandlingCompleted()
Completed(s) == IF s.current \in s.completes THEN Result(s, {s.current}, "completed") ELSE s

\* executePlaybackFinished(): the front of the queue, which should be the current one, is popped.
Finished(s) ==
  LET t == Reset(Completed(s))
      rest == Tail(s.queue)
      u == [t EXCEPT !.state = "FINISHED", !.queue = rest, !.source = None]
  IN IF s.current = None THEN s
     ELSE IF s.queue = << >> THEN Crashed(s)
     ELSE IF rest = << >> THEN u ELSE HandleNow(u, Head(rest))

\* executeOnDialogUXStateChanged() of IDLE.
Idled(s) ==
  IF s.focus # "NONE" /\ s.state # "GAINING_FOCUS"
  THEN [s EXCEPT !.focus = "NONE", !.focusTasks = Append(@, "release")] ELSE s

-----------------------------------------------------------------------------
(* m_executor *)

Does(op) == Running /\ shutdown # "done" /\ agent.tasks # << >> /\ Head(agent.tasks).op = op
D == Head(agent.tasks).directive
Taken == [agent EXCEPT !.tasks = Tail(@)]
OnlyTheAgent == UNCHANGED <<channel, caller, shutdown, asked, events>>

WithPayload(payload, then) ==
  /\ agent' = then
  /\ IF payload = "good" THEN UNCHANGED events ELSE Event
  /\ UNCHANGED <<channel, caller, shutdown, asked>>

ExecutePreHandle(payload) == Does("preHandle") /\ WithPayload(payload, PreHandled(Taken, D, payload))
ExecuteHandleImmediately(payload) ==
  Does("handleImmediately") /\ WithPayload(payload, Queued(PreHandled(Taken, D, payload), D))
ExecuteHandle == Does("handle") /\ agent' = Queued(Taken, D) /\ OnlyTheAgent
ExecuteCancel == Does("cancel") /\ agent' = Cancelled(Taken, D) /\ OnlyTheAgent
ExecuteStateChange == Does("stateChange") /\ agent' = StateChanged(Taken, FALSE) /\ OnlyTheAgent
\* setSource(), or play(), fails.
ExecuteStateChangeFailing ==
  /\ Does("stateChange") /\ agent.desired = "PLAYING" /\ Event
  /\ agent' = StateChanged(Taken, TRUE) /\ UNCHANGED <<channel, caller, shutdown, asked>>
ExecutePlaybackStarted == Does("started") /\ agent' = Started(Taken) /\ OnlyTheAgent
ExecutePlaybackFinished == Does("finished") /\ agent' = Finished(Taken) /\ OnlyTheAgent
ExecutePlaybackError == Does("error") /\ agent' = PlaybackError(Taken) /\ OnlyTheAgent
ExecuteIdle == Does("idle") /\ agent' = Idled(Taken) /\ OnlyTheAgent

-----------------------------------------------------------------------------
(* The directive sequencer, which calls while the agent has its handlers *)

Up == Running /\ shutdown = "no"
Asks(d, what, task) == asked' = [asked EXCEPT ![d] = what] /\ agent' = task /\ UNCHANGED <<channel, caller, shutdown, events>>

PreHandleDirective(d) ==
  /\ Up /\ asked[d] = "nothing"
  /\ Asks(d, "preHandle", Posted([agent EXCEPT !.known = @ \cup {d}], "preHandle", d))

\* Speak is BLOCKING: the one before has got its result, or was cancelled.
HandleDirective(d) ==
  /\ Up /\ asked[d] = "preHandle" /\ d \in agent.known
  /\ \A e \in Directives : asked[e] = "handle" => agent.results[e] # << >>
  /\ Asks(d, "handle", Posted(agent, "handle", d))

HandleDirectiveImmediately(d) ==
  /\ Up /\ asked[d] = "nothing"
  /\ Asks(d, "immediate", Posted(agent, "handleImmediately", d))

CancelDirective(d) ==
  /\ Up /\ asked[d] \in {"preHandle", "handle"} /\ agent.results[d] = << >> /\ d \in agent.known
  /\ Asks(d, "cancel", Posted(agent, "cancel", d))

OnDialogUXStateChanged ==
  /\ Up /\ Event
  /\ agent' = Posted(agent, "idle", None)
  /\ UNCHANGED <<channel, caller, shutdown, asked>>

-----------------------------------------------------------------------------
(* The player's thread *)

PlayerDoes(now, callbacks, then) ==
  /\ Running /\ agent.player.does = now
  /\ agent' = [callbacks EXCEPT !.player = then]
  /\ OnlyTheAgent

PlayerStarts == PlayerDoes("start", Callback(agent, "started"), [agent.player EXCEPT !.does = "play"])
PlayerFinishes == PlayerDoes("play", Callback(agent, "finished"), Silent)
PlayerStops == PlayerDoes("stop", Callback(agent, "finished"), Silent)
\* What was to be played is stopped: both are called back.
PlayerStartsAndStops == PlayerDoes("startAndStop", Callback(Callback(agent, "started"), "finished"), Silent)

PlayerFails ==
  /\ Running /\ agent.player # Silent /\ Event
  /\ agent' = [Callback(agent, "error") EXCEPT !.player = Silent]
  /\ UNCHANGED <<channel, caller, shutdown, asked>>

-----------------------------------------------------------------------------
(* The focus manager's thread *)

\* onFocusChanged()
FocusChanged(s, focus) ==
  LET desired == IF focus = "FOREGROUND" THEN "PLAYING" ELSE "FINISHED"
      t == [s EXCEPT !.focus = focus, !.desired = desired]
      u == IF focus = "FOREGROUND" THEN [t EXCEPT !.state = "GAINING_FOCUS"] ELSE t
  IN /\ channel' = focus
     /\ IF s.state = desired
        THEN agent' = t /\ UNCHANGED caller
        ELSE agent' = (IF shutdown = "done" THEN u ELSE Posted(u, "stateChange", None)) /\ caller' = "waiting"

NextFocusTask(what) == Running /\ caller = "away" /\ agent.focusTasks # << >> /\ Head(agent.focusTasks) = what
FocusTaskTaken == [agent EXCEPT !.focusTasks = Tail(@)]

\* acquireChannelHelper(): who has the channel loses it first, even if it is the same.
Reacquire ==
  /\ NextFocusTask("acquire") /\ channel = "FOREGROUND"
  /\ FocusChanged(agent, "NONE") /\ UNCHANGED <<shutdown, asked, events>>

AcquireDialog ==
  /\ NextFocusTask("acquire") /\ channel = "NONE"
  /\ FocusChanged(FocusTaskTaken, "FOREGROUND") /\ UNCHANGED <<shutdown, asked, events>>

ReleaseDialog ==
  /\ NextFocusTask("release")
  /\ IF channel = "NONE" THEN agent' = FocusTaskTaken /\ UNCHANGED <<channel, caller>>
                         ELSE FocusChanged(FocusTaskTaken, "NONE")
  /\ UNCHANGED <<shutdown, asked, events>>

\* Another observer acquires the channel, or the foreground activity is stopped.
LoseDialog ==
  /\ Running /\ caller = "away" /\ channel = "FOREGROUND" /\ Event
  /\ FocusChanged(agent, "NONE") /\ UNCHANGED <<shutdown, asked>>

Wake ==
  /\ Running /\ caller = "waiting" /\ agent.state = agent.desired
  /\ caller' = "away" /\ UNCHANGED <<agent, channel, shutdown, asked, events>>

\* wait_for() times out; m_currentInfo is looked at, and used once m_mutex is unlocked.
Timeout ==
  /\ Running /\ caller = "waiting" /\ agent.state # agent.desired
  /\ agent' = [agent EXCEPT !.disturbed = TRUE]
  /\ caller' = IF agent.current = None THEN "away" ELSE "reporting"
  /\ UNCHANGED <<channel, shutdown, asked, events>>

ReportTimeout ==
  /\ Running /\ caller = "reporting"
  /\ agent' = IF agent.current = None THEN Crashed(agent) ELSE ReportedFailed(agent, agent.current)
  /\ caller' = IF Speaks(agent) THEN "stopping" ELSE "away"
  /\ UNCHANGED <<channel, shutdown, asked, events>>

StopAfterTimeout ==
  /\ Running /\ caller = "stopping"
  /\ agent' = IF shutdown = "done" /\ agent.source # None /\ ~agent.stopping THEN Crashed(agent) ELSE StopPlaying(agent)
  /\ caller' = "away"
  /\ UNCHANGED <<channel, shutdown, asked, events>>

-----------------------------------------------------------------------------
(* doShutdown() *)

\* With m_mutex: if the player has stopped already, executePlaybackError() locks it again.
ShutdownPlayer ==
  LET s == [agent EXCEPT !.desired = "FINISHED"]
      fails == s.source # None /\ ~s.stopping /\ ~CanStop(s) /\ s.current # None
  IN /\ Up /\ shutdown' = "stopped"
     /\ agent' = IF ~ (agent.state = "PLAYING" \/ agent.desired = "PLAYING") THEN agent
                 ELSE IF fails THEN [s EXCEPT !.halted = "deadlocked"]
                 ELSE [StopPlaying(s) EXCEPT !.state = "FINISHED", !.focus = "NONE",
                                             !.focusTasks = Append(@, "release")]
     /\ UNCHANGED <<channel, caller, asked, events>>

ShutdownQueue ==
  LET all == Elements(agent.queue)
  IN /\ Running /\ shutdown = "stopped" /\ shutdown' = "failed"
     /\ agent' = [Result(agent, all, "failed") EXCEPT !.mapped = @ \ all, !.known = @ \ all]
     /\ UNCHANGED <<channel, caller, asked, events>>

ShutdownExecutor ==
  /\ Running /\ shutdown = "failed" /\ shutdown' = "done"
  /\ agent' = [agent EXCEPT !.tasks = << >>]
  /\ UNCHANGED <<channel, caller, asked, events>>

-----------------------------------------------------------------------------
Payloads == {"good", "bad", "unknownFormat", "unreadable"}

Execute ==
  \/ \E payload \in Payloads : ExecutePreHandle(payload) \/ ExecuteHandleImmediately(payload)
  \/ ExecuteHandle \/ ExecuteCancel \/ ExecuteStateChange \/ ExecuteStateChangeFailing
  \/ ExecutePlaybackStarted \/ ExecutePlaybackFinished \/ ExecutePlaybackError \/ ExecuteIdle

FocusManager == Reacquire \/ AcquireDialog \/ ReleaseDialog \/ Wake \/ Timeout \/ ReportTimeout \/ StopAfterTimeout

PlayerGoesOn == PlayerStarts \/ PlayerFinishes \/ PlayerStops \/ PlayerStartsAndStops

SpeechNext ==
  \/ \E d \in Directives :
       PreHandleDirective(d) \/ HandleDirective(d) \/ HandleDirectiveImmediately(d) \/ CancelDirective(d)
  \/ OnDialogUXStateChanged
  \/ Execute \/ FocusManager \/ LoseDialog \/ PlayerGoesOn \/ PlayerFails
  \/ ShutdownPlayer \/ ShutdownQueue \/ ShutdownExecutor

SpeechSpec == SpeechInit /\ [][SpeechNext]_speechVars

\* The threads run, and the player plays.
FairSpeechSpec == SpeechSpec /\ WF_speechVars(Execute) /\ WF_speechVars(FocusManager) /\ WF_speechVars(PlayerGoesOn)

-----------------------------------------------------------------------------
(* Properties *)

\* What is current is in the front of the queue, with both changed in turn by handling, cancelling,
\* finishing, and failing: executePlaybackFinished() pops the front in its place.
FrontIsCurrent ==
  Running /\ agent.current \in agent.mapped => agent.queue # << >> /\ Head(agent.queue) = agent.current

\* When onFocusChanged(NONE) has returned, so that another observer gets the channel, the player
\* is silent, whatever has been queued in between: unless there was a timeout or an error, or the
\* player was to play while it had a source.  That happens when the playback ends by itself and
\* onFocusChanged(NONE) returns, but the executeStateChange() that it queued is still in
\* m_executor: with the next focus there are two of them that start playing, and
\* executePlaybackFinished() of the source that the second one takes away forgets the new one.
SilentWithoutFocus ==
  Running /\ ~agent.disturbed /\ ~agent.again /\ shutdown = "no" /\ channel = "NONE" /\ caller = "away" => agent.player = Silent

Waited == \E d \in Directives : asked[d] = "handle" /\ agent.results[d] = << >>
Calm ==
  /\ ~agent.disturbed /\ shutdown = "no"
  /\ \A d \in Directives : asked[d] # "cancel" /\ "failed" \notin Elements(agent.results[d])

\* What the sequencer waits for is answered, while speech goes on and the channel comes and goes:
\* unless something was cancelled or failed.
HandledIsAnswered == Waited ~> ~Waited \/ ~Calm

\* "Block until we achieve the desired state." (onFocusChanged()): what would achieve it is under
\* way.
AwaitedIsUnderWay ==
  Running /\ shutdown = "no" /\ caller = "waiting" /\ agent.state # agent.desired
    => agent.tasks # << >> \/ agent.player # Silent
=============================================================================
