---------------------------- MODULE FocusManager ----------------------------
(***************************************************************************)
(* AFML/src/FocusManager.cpp and Channel.cpp: which activity may use the   *)
(* audio (or visual) channels, and with what focus.                        *)
(*                                                                         *)
(* Requests become tasks of one Executor, whose thread runs them one by    *)
(* one; a task calls the observers of the channels between its critical    *)
(* sections of m_mutex, so it is modelled in steps.  Clients add tasks at  *)
(* the back, except stopForegroundActivity(): it reads the foreground      *)
(* activity under m_mutex, lets go of it and then adds a task in front.    *)
(*                                                                         *)
(* An activity is one acquireChannel() call.  Executor and TaskQueue       *)
(* (AVSCommon/Utils) are modelled by their queue and the running task.     *)
(***************************************************************************)
EXTENDS Naturals, Sequences, FiniteSets

CONSTANTS
  Channels,
  Priority,     \* of a channel; lower numbers are of higher priority
  Activities,   \* the calls of acquireChannel()
  ChannelOf,    \* the channel an activity asks for
  ObserverOf,   \* the ChannelObserverInterface object of an activity
  InterfaceOf,  \* the name of its AVS interface
  NoActivity,
  NoChannel,
  MaxQueue      \* bound: the length of the task queue

ASSUME PriorityAssumption ==
  /\ Priority \in [Channels -> Nat]
  /\ \A c, d \in Channels : Priority[c] = Priority[d] => c = d
  /\ ChannelOf \in [Activities -> Channels]
  /\ NoActivity \notin Activities /\ NoChannel \notin Channels

VARIABLES
  queue,      \* the tasks of m_executor
  task,       \* the running task and where it is, or Idle
  focus,      \* m_state.focusState of each channel
  owner,      \* the activity whose observer is m_observer of the channel
  interface,  \* the activity whose interface name is m_state.interfaceName
  active,     \* m_activeChannels
  stopper,    \* what a thread in stopForegroundActivity() read
  requested,  \* activities whose acquireChannel() was called
  told        \* the focus the observer was last told, for each activity

vars == <<queue, task, focus, owner, interface, active, stopper, requested, told>>

States == {"NONE", "BACKGROUND", "FOREGROUND"}

Idle == [kind |-> "idle", activity |-> NoActivity, channel |-> NoChannel, pc |-> "idle",
         foreground |-> NoChannel]

\* The task of a request, with the channel and activity it was made for.
Task(kind, c, a) == [Idle EXCEPT !.kind = kind, !.channel = c, !.activity = a, !.pc = "start"]

\* getHighestPriorityActiveChannelLocked()
Highest(A) == IF A = {} THEN NoChannel
              ELSE CHOOSE c \in A : \A d \in A : Priority[c] <= Priority[d]

SameInterface(a, b) ==
  IF a = NoActivity \/ b = NoActivity THEN a = b ELSE InterfaceOf[a] = InterfaceOf[b]

Init ==
  /\ queue = << >> /\ task = Idle
  /\ focus = [c \in Channels |-> "NONE"]
  /\ owner = [c \in Channels |-> NoActivity]
  /\ interface = [c \in Channels |-> NoActivity]
  /\ active = {}
  /\ stopper = Idle
  /\ requested = {} /\ told = [a \in Activities |-> "NONE"]

-----------------------------------------------------------------------------
(* Clients *)

\* acquireChannel()
Acquire(a) ==
  /\ a \notin requested /\ Len(queue) < MaxQueue
  /\ queue' = Append(queue, Task("acquire", ChannelOf[a], a))
  /\ requested' = requested \cup {a}
  /\ UNCHANGED <<task, focus, owner, interface, active, stopper, told>>

\* releaseChannel(), with the observer of activity a.
Release(a) ==
  /\ Len(queue) < MaxQueue
  /\ queue' = Append(queue, Task("release", ChannelOf[a], a))
  /\ UNCHANGED <<task, focus, owner, interface, active, stopper, requested, told>>

\* stopForegroundActivity(): the foreground channel and its interface are read ...
ReadForeground ==
  /\ stopper = Idle /\ active # {}
  /\ LET c == Highest(active) IN stopper' = Task("stop", c, interface[c])
  /\ UNCHANGED <<queue, task, focus, owner, interface, active, requested, told>>

\* ... and the task is put in front of all others.
SubmitStop ==
  /\ stopper # Idle /\ Len(queue) < MaxQueue
  /\ queue' = <<stopper>> \o queue
  /\ stopper' = Idle
  /\ UNCHANGED <<task, focus, owner, interface, active, requested, told>>

-----------------------------------------------------------------------------
(* The executor's thread *)

Take ==
  /\ task = Idle /\ queue # << >>
  /\ task' = Head(queue) /\ queue' = Tail(queue)
  /\ UNCHANGED <<focus, owner, interface, active, stopper, requested, told>>

\* setChannelFocus(): the observer of the channel is told, and forgotten with the focus.
SetFocus(c, f) ==
  IF focus[c] = f THEN UNCHANGED <<focus, owner, told>>
  ELSE /\ focus' = [focus EXCEPT ![c] = f]
       /\ told' = IF owner[c] = NoActivity THEN told ELSE [told EXCEPT ![owner[c]] = f]
       /\ owner' = IF f = "NONE" THEN [owner EXCEPT ![c] = NoActivity] ELSE owner

At(kind, pc) == task.kind = kind /\ task.pc = pc
Goto(pc) == task' = [task EXCEPT !.pc = pc]
Clients == <<queue, stopper, requested>>

(* acquireChannelHelper() *)

\* Fault: the old observer is not told.
DropNobody == At("acquire", "start") /\ Goto("enter")
              /\ UNCHANGED <<focus, owner, told, interface, active, Clients>>

\* The old observer, if there is one, loses focus.
DropOldObserver ==
  /\ At("acquire", "start")
  /\ SetFocus(task.channel, "NONE")
  /\ Goto("enter")
  /\ UNCHANGED <<interface, active, Clients>>

\* Under m_mutex the channel gets its interface and becomes active; then its observer.
EnterActive ==
  /\ At("acquire", "enter")
  /\ interface' = [interface EXCEPT ![task.channel] = task.activity]
  /\ active' = active \cup {task.channel}
  /\ owner' = [owner EXCEPT ![task.channel] = task.activity]
  /\ task' = [task EXCEPT !.pc = "grant", !.foreground = Highest(active)]
  /\ UNCHANGED <<focus, told, Clients>>

Outranks(c, d) == Priority[c] < Priority[d]

\* Fault: the previous foreground channel keeps its focus.
GrantOnly ==
  /\ At("acquire", "grant")
  /\ LET c == task.channel
         d == task.foreground
     IN  IF d \in {NoChannel, c} \/ Outranks(c, d)
         THEN SetFocus(c, "FOREGROUND") ELSE SetFocus(c, "BACKGROUND")
  /\ task' = Idle
  /\ UNCHANGED <<interface, active, Clients>>

\* Only the channel of highest priority gets the foreground, and the previous one leaves
\* it first.
Grant ==
  /\ At("acquire", "grant")
  /\ LET c == task.channel
         d == task.foreground
     IN  \/ /\ d \in {NoChannel, c}
            /\ SetFocus(c, "FOREGROUND") /\ task' = Idle
         \/ /\ d \notin {NoChannel, c} /\ Outranks(c, d)
            /\ SetFocus(d, "BACKGROUND") /\ Goto("grantNext")
         \/ /\ d \notin {NoChannel, c} /\ ~Outranks(c, d)
            /\ SetFocus(c, "BACKGROUND") /\ task' = Idle
  /\ UNCHANGED <<interface, active, Clients>>

GrantNext ==
  /\ At("acquire", "grantNext")
  /\ SetFocus(task.channel, "FOREGROUND")
  /\ task' = Idle
  /\ UNCHANGED <<interface, active, Clients>>

(* releaseChannelHelper() *)

\* doesObserverOwnChannel(): by the observer, not by the activity.
Owns(c, a) == owner[c] # NoActivity /\ ObserverOf[owner[c]] = ObserverOf[a]

RefuseRelease ==
  /\ At("release", "start") /\ ~Owns(task.channel, task.activity)
  /\ task' = Idle
  /\ UNCHANGED <<focus, owner, told, interface, active, Clients>>

\* The channel leaves the active ones; whether it was the foreground one is noted.
LeaveActive ==
  /\ At("release", "start") /\ Owns(task.channel, task.activity)
  /\ active' = active \ {task.channel}
  /\ task' = [task EXCEPT !.pc = "drop", !.foreground = Highest(active)]
  /\ UNCHANGED <<focus, owner, told, interface, Clients>>

DropReleased ==
  /\ At("release", "drop")
  /\ SetFocus(task.channel, "NONE")
  /\ task' = IF task.foreground = task.channel THEN [task EXCEPT !.pc = "next"] ELSE Idle
  /\ UNCHANGED <<interface, active, Clients>>

(* stopForegroundActivityHelper() *)

\* The same interface still has the channel, and somebody observes it.
Stoppable(c, a) == SameInterface(interface[c], a) /\ owner[c] # NoActivity

RefuseStop ==
  /\ At("stop", "start") /\ ~Stoppable(task.channel, task.activity)
  /\ task' = Idle
  /\ UNCHANGED <<focus, owner, told, interface, active, Clients>>

StopForeground ==
  /\ At("stop", "start") /\ Stoppable(task.channel, task.activity)
  /\ SetFocus(task.channel, "NONE")
  /\ Goto("leave")
  /\ UNCHANGED <<interface, active, Clients>>

\* Fault: the stopped channel stays active.
StayActive ==
  /\ At("stop", "leave")
  /\ Goto("next")
  /\ UNCHANGED <<focus, owner, told, interface, active, Clients>>

LeaveStopped ==
  /\ At("stop", "leave")
  /\ active' = active \ {task.channel}
  /\ Goto("next")
  /\ UNCHANGED <<focus, owner, told, interface, Clients>>

\* Fault: the channel that was the foreground one is taken for the next one.
ForegroundUnchanged ==
  /\ task.pc = "next"
  /\ task' = Idle
  /\ UNCHANGED <<focus, owner, told, interface, active, Clients>>

\* foregroundHighestPriorityActiveChannel()
ForegroundNext ==
  /\ task.pc = "next"
  /\ IF active = {} THEN UNCHANGED <<focus, owner, told>> ELSE SetFocus(Highest(active), "FOREGROUND")
  /\ task' = Idle
  /\ UNCHANGED <<interface, active, Clients>>

-----------------------------------------------------------------------------
Client == (\E a \in Activities : Acquire(a) \/ Release(a)) \/ ReadForeground \/ SubmitStop

Executor ==
  \/ Take
  \/ DropOldObserver \/ EnterActive \/ Grant \/ GrantNext
  \/ RefuseRelease \/ LeaveActive \/ DropReleased
  \/ RefuseStop \/ StopForeground \/ LeaveStopped
  \/ ForegroundNext

Next == Client \/ Executor

Spec == Init /\ [][Next]_vars

\* The executor's thread runs.
FairSpec == Spec /\ WF_vars(Executor)

-----------------------------------------------------------------------------
(* Properties *)

Tasks ==
  [kind : {"idle", "acquire", "release", "stop"}, activity : Activities \cup {NoActivity},
   channel : Channels \cup {NoChannel}, foreground : Channels \cup {NoChannel},
   pc : {"idle", "start", "enter", "grant", "grantNext", "drop", "leave", "next"}]

\* The tasks, the channels and the records of requests have their types.
TypeOK ==
  /\ queue \in Seq(Tasks) /\ task \in Tasks /\ stopper \in Tasks
  /\ focus \in [Channels -> States]
  /\ owner \in [Channels -> Activities \cup {NoActivity}]
  /\ interface \in [Channels -> Activities \cup {NoActivity}]
  /\ active \subseteq Channels
  /\ requested \subseteq Activities
  /\ told \in [Activities -> States]

\* "The invariant that there can only be one Foreground Channel is held" (FocusManager.h),
\* in the middle of every task too, while observers are being called.
OneForeground ==
  \A c, d \in Channels : focus[c] = "FOREGROUND" /\ focus[d] = "FOREGROUND" => c = d

\* Between tasks the active channel of highest priority has the foreground, every other
\* active one the background, and no other channel has focus or an observer.
FocusByPriority ==
  task = Idle =>
    \A c \in Channels :
      /\ focus[c] = IF c \notin active THEN "NONE"
                    ELSE IF c = Highest(active) THEN "FOREGROUND" ELSE "BACKGROUND"
      /\ owner[c] = NoActivity <=> c \notin active

\* What an observer was last told is true: an activity that believes it has focus owns its
\* channel, which has that focus.  So the old observer of a channel is told NONE before the
\* new one is told anything.
ToldIsTrue ==
  \A a \in Activities :
    told[a] # "NONE" => owner[ChannelOf[a]] = a /\ focus[ChannelOf[a]] = told[a]

\* A release that was queued before the channel changed hands takes nothing from the new
\* owner: what it ends is an activity of the observer that asked for it.
OnlyOwnerReleases ==
  [][\A c \in Channels :
       task.kind = "release" /\ owner[c] # NoActivity /\ owner'[c] = NoActivity =>
         c = ChannelOf[task.activity] /\ ObserverOf[task.activity] = ObserverOf[owner[c]]]_vars

\* Every request to acquire a channel is served: stops in front of the queue do not starve it.
AcquireServed ==
  \A a \in Activities : a \in requested ~> \A i \in DOMAIN queue : queue[i] # Task("acquire", ChannelOf[a], a)
=============================================================================
