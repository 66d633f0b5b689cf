------------------------- MODULE FocusManagerProofs -------------------------
(* What FocusManager.tla promises for any channels, activities and requests: *)
(* one foreground, given by priority, and observers who are told the truth.  *)
(* After it, what SpeechSynthesizer.tla makes of the focus that it is told   *)
(* of, for any directives: the next one to be spoken is the front of the     *)
(* queue, and without focus the player is silent.                            *)
EXTENDS FocusManager, SpeechSynthesizer, WellFoundedInduction, TLAPS

(* The inductive invariant *)

\* The focus of channel c when f is the foreground channel of the active ones.
FocusAs(c, f) ==
  focus[c] = IF c \notin active THEN "NONE" ELSE IF c = f THEN "FOREGROUND" ELSE "BACKGROUND"
Observed(c) == owner[c] = NoActivity <=> c \notin active
Vacant(c) == focus[c] = "NONE" /\ owner[c] = NoActivity

\* What is true of the other channels while a task is busy with one of them.
OthersAs(f) == \A c \in Channels \ {task.channel} : FocusAs(c, f) /\ Observed(c)

BetweenTasks ==
  task.pc \in {"idle", "start"} => \A c \in Channels : FocusAs(c, Highest(active)) /\ Observed(c)

Entering == task.pc = "enter" => OthersAs(Highest(active)) /\ Vacant(task.channel)

\* The channel has entered; task.foreground is the one that was the foreground channel before.
Granting ==
  task.pc = "grant" =>
    LET c == task.channel
        f == task.foreground
    IN  /\ OthersAs(f) /\ c \in active /\ focus[c] = "NONE" /\ owner[c] # NoActivity
        /\ f = NoChannel => active = {c}
        /\ f = c => c = Highest(active)
        /\ f \notin {NoChannel, c} => f = Highest(active \ {c}) /\ f \in active

GrantingNext ==
  task.pc = "grantNext" =>
    LET c == task.channel
    IN  /\ OthersAs(c) /\ c = Highest(active) /\ c \in active
        /\ focus[c] = "NONE" /\ owner[c] # NoActivity

\* The channel has left the active ones, and its observer has not been told.
Dropping ==
  task.pc = "drop" =>
    LET c == task.channel
    IN  /\ OthersAs(task.foreground) /\ c \notin active
        /\ task.foreground = Highest(active \cup {c})
        /\ focus[c] = IF c = task.foreground THEN "FOREGROUND" ELSE "BACKGROUND"

Leaving ==
  task.pc = "leave" => OthersAs(Highest(active)) /\ Vacant(task.channel) /\ task.channel \in active

\* Nobody but the channel of highest priority may have the foreground already.
PassingOn ==
  task.pc = "next" =>
    \A c \in Channels : Observed(c) /\ \E f \in {Highest(active), NoChannel} : FocusAs(c, f)

\* Tasks are made for a channel, and those of a request for the channel of its activity.
StartTasks ==
  {Task("acquire", ChannelOf[a], a) : a \in Activities} \cup {Task("release", ChannelOf[a], a) : a \in Activities}
    \cup {Task("stop", c, a) : c \in Channels, a \in Activities \cup {NoActivity}}

PcsOf(kind) ==
  CASE kind = "acquire" -> {"start", "enter", "grant", "grantNext"}
    [] kind = "release" -> {"start", "drop", "next"}
    [] kind = "stop" -> {"start", "leave", "next"}

MadeFor(t) ==
  /\ t.kind \in {"acquire", "release", "stop"} /\ t.channel \in Channels
  /\ t.kind \in {"acquire", "release"} => t.activity \in Activities /\ ChannelOf[t.activity] = t.channel

TaskFits == task = Idle \/ (MadeFor(task) /\ task.pc \in PcsOf(task.kind))

TasksFit ==
  /\ queue \in Seq(StartTasks) /\ stopper \in StartTasks \cup {Idle} /\ TaskFits

OwnersFit == \A c \in Channels : owner[c] # NoActivity => ChannelOf[owner[c]] = c

FocusInv ==
  /\ TypeOK /\ TasksFit /\ OwnersFit /\ ToldIsTrue
  /\ BetweenTasks /\ Entering /\ Granting /\ GrantingNext /\ Dropping /\ Leaving /\ PassingOn

-----------------------------------------------------------------------------
(* getHighestPriorityActiveChannelLocked() *)

\* Every set of numbers that is not empty has a least element.
LEMMA LeastElement ==
  ASSUME NEW T, T \subseteq Nat, T # {}
  PROVE  \E x \in T : \A y \in T : x <= y
<1>1. PICK x \in T : \A y \in T : ~ (<<y, x>> \in OpToRel(<, Nat))
  BY NatLessThanWellFounded, WFMin
<1>2. \A y \in T : ~(y < x)
  BY <1>1 DEF OpToRel
<1> QED BY <1>2

\* Among active channels there is one of highest priority.
LEMMA HighestIs ==
  ASSUME NEW A \in SUBSET Channels, A # {}
  PROVE  /\ Highest(A) \in A
         /\ \A d \in A : Priority[Highest(A)] <= Priority[d]
<1> DEFINE T == {Priority[c] : c \in A}
<1>1. T \subseteq Nat /\ T # {}
  BY PriorityAssumption
<1> HIDE DEF T
<1>2. PICK x \in T : \A y \in T : x <= y
  BY <1>1, LeastElement
<1>3. PICK c \in A : x = Priority[c]
  BY <1>2 DEF T
<1>4. \A d \in A : Priority[c] <= Priority[d]
  BY <1>2, <1>3 DEF T
<1> QED
  BY <1>4 DEF Highest

\* It is the only one.
LEMMA HighestUnique ==
  ASSUME NEW A \in SUBSET Channels, NEW c \in A, \A d \in A : Priority[c] <= Priority[d]
  PROVE  c = Highest(A)
<1>1. Highest(A) \in A /\ Priority[Highest(A)] <= Priority[c]
  BY HighestIs
<1>2. Priority[c] <= Priority[Highest(A)]
  BY <1>1
<1>3. Priority[c] \in Nat /\ Priority[Highest(A)] \in Nat
  BY <1>1, PriorityAssumption
<1>4. Priority[c] = Priority[Highest(A)]
  BY <1>1, <1>2, <1>3
<1> QED
  BY <1>1, <1>4, PriorityAssumption

\* It remains so when another channel leaves ...
LEMMA HighestWithout ==
  ASSUME NEW A \in SUBSET Channels, NEW c \in A, c # Highest(A)
  PROVE  Highest(A \ {c}) = Highest(A)
<1>1. Highest(A) \in A \ {c} /\ \A d \in A \ {c} : Priority[Highest(A)] <= Priority[d]
  BY HighestIs
<1> QED
  BY <1>1, HighestUnique

\* ... and when one of lower priority enters; one of higher priority takes its place.
LEMMA HighestWith ==
  ASSUME NEW A \in SUBSET Channels, A # {}, NEW c \in Channels \ A
  PROVE  Highest(A \cup {c}) = IF Outranks(c, Highest(A)) THEN c ELSE Highest(A)
<1>1. Highest(A) \in A /\ \A d \in A : Priority[Highest(A)] <= Priority[d]
  BY HighestIs
<1>2. \A d \in A \cup {c} : Priority[d] \in Nat
  BY PriorityAssumption
<1>3. CASE Outranks(c, Highest(A))
  <2>1. \A d \in A \cup {c} : Priority[c] <= Priority[d]
    BY <1>1, <1>2, <1>3 DEF Outranks
  <2> QED
    BY <1>3, <2>1, HighestUnique
<1>4. CASE ~Outranks(c, Highest(A))
  <2>1. \A d \in A \cup {c} : Priority[Highest(A)] <= Priority[d]
    BY <1>1, <1>2, <1>4 DEF Outranks
  <2> QED
    BY <1>1, <1>4, <2>1, HighestUnique
<1> QED
  BY <1>3, <1>4

LEMMA HighestOfOne == ASSUME NEW c \in Channels PROVE Highest({c}) = c
  BY HighestIs

\* The highest channel of any set is one of it, or none.
LEMMA HighestType == \A A \in SUBSET Channels : Highest(A) \in A \cup {NoChannel}
  BY HighestIs DEF Highest

-----------------------------------------------------------------------------
(* setChannelFocus() *)

LEMMA SetFocusEffect ==
  ASSUME TypeOK, OwnersFit, ToldIsTrue, NEW c \in Channels, NEW f \in States, SetFocus(c, f)
  PROVE  /\ focus' = [focus EXCEPT ![c] = f]
         /\ owner' = IF f = "NONE" /\ focus[c] # f THEN [owner EXCEPT ![c] = NoActivity] ELSE owner
         /\ focus' \in [Channels -> States] /\ owner' \in [Channels -> Activities \cup {NoActivity}]
         /\ told' \in [Activities -> States]
         /\ OwnersFit' /\ ToldIsTrue'
<1>1. CASE focus[c] = f
  BY <1>1 DEF SetFocus, TypeOK, OwnersFit, ToldIsTrue
<1>2. CASE focus[c] # f
  <2>1. /\ focus' = [focus EXCEPT ![c] = f]
        /\ told' = IF owner[c] = NoActivity THEN told ELSE [told EXCEPT ![owner[c]] = f]
        /\ owner' = IF f = "NONE" THEN [owner EXCEPT ![c] = NoActivity] ELSE owner
    BY <1>2 DEF SetFocus
  <2>2. /\ focus' \in [Channels -> States] /\ owner' \in [Channels -> Activities \cup {NoActivity}]
        /\ told' \in [Activities -> States]
    BY <2>1 DEF TypeOK
  <2>3. OwnersFit'
    BY <2>1 DEF OwnersFit, TypeOK
  <2>4. ToldIsTrue'
    <3> SUFFICES ASSUME NEW a \in Activities, told'[a] # "NONE"
                 PROVE  owner'[ChannelOf[a]] = a /\ focus'[ChannelOf[a]] = told'[a]
      BY DEF ToldIsTrue
    <3>1. ChannelOf[a] \in Channels /\ a # NoActivity
      BY PriorityAssumption
    <3>2. CASE owner[c] = a
      <4>1. ChannelOf[a] = c /\ told'[a] = f
        BY <2>1, <3>1, <3>2 DEF OwnersFit, TypeOK
      <4> QED
        BY <2>1, <3>2, <4>1 DEF TypeOK
    <3>3. CASE owner[c] # a
      <4>1. told'[a] = told[a]
        BY <2>1, <3>3 DEF TypeOK
      <4>2. owner[ChannelOf[a]] = a /\ focus[ChannelOf[a]] = told[a]
        BY <4>1 DEF ToldIsTrue
      <4>3. ChannelOf[a] # c
        BY <3>3, <4>2
      <4> QED
        BY <2>1, <3>1, <4>1, <4>2, <4>3 DEF TypeOK
    <3> QED
      BY <3>2, <3>3
  <2> QED
    BY <1>2, <2>1, <2>2, <2>3, <2>4
<1> QED
  BY <1>1, <1>2

\* A task is busy with its channel only: the others keep their focus and observers.
LEMMA OthersKept ==
  ASSUME TypeOK, NEW c \in Channels, NEW f, NEW A, NEW B,
         active' = active \/ (active' \cup {c} = active \cup {c} /\ active' \subseteq Channels),
         \A d \in Channels \ {c} : FocusAs(d, f) /\ Observed(d),
         focus' = focus \/ focus' = [focus EXCEPT ![c] = A],
         owner' = owner \/ owner' = [owner EXCEPT ![c] = B]
  PROVE  \A d \in Channels \ {c} : FocusAs(d, f)' /\ Observed(d)'
<1> SUFFICES ASSUME NEW d \in Channels \ {c} PROVE (FocusAs(d, f) /\ Observed(d))'
  OBVIOUS
<1>1. focus'[d] = focus[d] /\ owner'[d] = owner[d]
  BY DEF TypeOK
<1>2. d \in active' <=> d \in active
  OBVIOUS
<1> QED
  BY <1>1, <1>2 DEF FocusAs, Observed

-----------------------------------------------------------------------------
(* The invariant, action by action *)

LEMMA StartTasksType ==
  /\ Idle \in Tasks
  /\ \A t \in StartTasks : t \in Tasks /\ t.pc = "start" /\ MadeFor(t)
<1>1. \A a \in Activities : ChannelOf[a] \in Channels
  BY PriorityAssumption
<1>2. ASSUME NEW k \in {"acquire", "release", "stop"}, NEW c \in Channels, NEW a \in Activities \cup {NoActivity},
             k \in {"acquire", "release"} => a \in Activities /\ ChannelOf[a] = c
      PROVE  Task(k, c, a) \in Tasks /\ Task(k, c, a).pc = "start" /\ MadeFor(Task(k, c, a))
  BY <1>2 DEF Task, Idle, Tasks, MadeFor
<1>3. ASSUME NEW t \in StartTasks
      PROVE  t \in Tasks /\ t.pc = "start" /\ MadeFor(t)
  <2>1. CASE \E a \in Activities : t = Task("acquire", ChannelOf[a], a) \/ t = Task("release", ChannelOf[a], a)
    BY <1>1, <1>2, <2>1
  <2>2. CASE \E c \in Channels, a \in Activities \cup {NoActivity} : t = Task("stop", c, a)
    BY <1>2, <2>2
  <2> QED
    BY <2>1, <2>2 DEF StartTasks
<1> QED
  BY <1>3 DEF Idle, Tasks

Parts == BetweenTasks /\ Entering /\ Granting /\ GrantingNext /\ Dropping /\ Leaving /\ PassingOn

LEMMA InitInv == Init => FocusInv
<1> SUFFICES ASSUME Init PROVE FocusInv
  OBVIOUS
<1>1. TypeOK /\ TasksFit /\ OwnersFit /\ ToldIsTrue
  BY DEF Init, TypeOK, TasksFit, TaskFits, OwnersFit, ToldIsTrue, States, Idle, Tasks
<1>2. Parts
  BY DEF Init, Idle, Parts, BetweenTasks, Entering, Granting, GrantingNext, Dropping, Leaving, PassingOn,
         FocusAs, Observed
<1> QED
  BY <1>1, <1>2 DEF FocusInv, Parts

\* What clients do concerns the queue and the stopper only.
LEMMA ClientInv == ASSUME FocusInv, Client PROVE FocusInv'
<1>0. TypeOK /\ TasksFit
  BY DEF FocusInv
<1> DEFINE OnlyRequests == /\ UNCHANGED <<task, focus, owner, interface, active, told>>
                           /\ queue' \in Seq(StartTasks) /\ stopper' \in StartTasks \cup {Idle}
                           /\ requested' \subseteq Activities
<1>1. OnlyRequests
  <2>1. ASSUME NEW a \in Activities, Acquire(a) \/ Release(a)
        PROVE  OnlyRequests
    <3>1. \E t \in StartTasks : queue' = Append(queue, t)
      BY <2>1 DEF Acquire, Release, StartTasks
    <3>2. queue' \in Seq(StartTasks)
      BY <1>0, <3>1 DEF TasksFit
    <3> QED
      BY <1>0, <2>1, <3>2 DEF Acquire, Release, TasksFit, TypeOK
  <2>2. CASE ReadForeground
    <3>1. Highest(active) \in Channels
      BY <1>0, <2>2, HighestIs DEF ReadForeground, TypeOK
    <3>2. interface[Highest(active)] \in Activities \cup {NoActivity}
      BY <1>0, <3>1 DEF TypeOK
    <3> QED
      BY <1>0, <2>2, <3>1, <3>2 DEF ReadForeground, TasksFit, StartTasks, TypeOK
  <2>3. CASE SubmitStop
    <3>1. stopper \in StartTasks
      BY <1>0, <2>3 DEF SubmitStop, TasksFit
    <3>2. <<stopper>> \in Seq(StartTasks)
      BY <3>1
    <3>3. <<stopper>> \o queue \in Seq(StartTasks)
      BY <1>0, <3>2 DEF TasksFit
    <3> QED
      BY <1>0, <2>3, <3>3 DEF SubmitStop, TasksFit, TypeOK
  <2> QED
    BY <2>1, <2>2, <2>3 DEF Client
<1>2. queue' \in Seq(Tasks) /\ stopper' \in Tasks
  BY <1>1, StartTasksType
<1>3. TypeOK' /\ TasksFit'
  BY <1>0, <1>1, <1>2 DEF TypeOK, TasksFit, TaskFits
<1>4. (OwnersFit /\ ToldIsTrue)'
  BY <1>1 DEF FocusInv, OwnersFit, ToldIsTrue
<1>5. Parts'
  BY <1>1 DEF FocusInv, Parts, BetweenTasks, Entering, Granting, GrantingNext, Dropping, Leaving, PassingOn,
              OthersAs, FocusAs, Observed, Vacant
<1> QED
  BY <1>3, <1>4, <1>5 DEF FocusInv, Parts

LEMMA TaskParts ==
  ASSUME FocusInv, task # Idle
  PROVE  task \in Tasks /\ task.channel \in Channels /\ MadeFor(task) /\ task.pc \in PcsOf(task.kind)
  BY DEF FocusInv, TypeOK, TasksFit, TaskFits, MadeFor

\* A task goes on, or ends.
LEMMA Going ==
  ASSUME FocusInv, task # Idle, NEW p \in PcsOf(task.kind), NEW f \in Channels \cup {NoChannel},
         task' \in {[task EXCEPT !.pc = p], [task EXCEPT !.pc = p, !.foreground = f]}
  PROVE  /\ task' \in Tasks /\ TaskFits' /\ task'.pc = p /\ task'.channel = task.channel
         /\ task'.foreground \in {f, task.foreground}
<1>1. /\ task \in Tasks /\ MadeFor(task)
      /\ p \in {"start", "enter", "grant", "grantNext", "drop", "leave", "next"}
  BY TaskParts DEF PcsOf, MadeFor
<1> QED
  BY <1>1 DEF Tasks, TaskFits, MadeFor

LEMMA Ending == task' = Idle => task' \in Tasks /\ TaskFits' /\ task'.pc = "idle"
  BY DEF Idle, Tasks, TaskFits

\* What the tasks of the executor leave alone.
LEMMA TaskStep ==
  ASSUME FocusInv, UNCHANGED Clients, task' \in Tasks, TaskFits',
         interface' \in [Channels -> Activities \cup {NoActivity}], active' \subseteq Channels,
         focus' \in [Channels -> States], owner' \in [Channels -> Activities \cup {NoActivity}],
         told' \in [Activities -> States]
  PROVE  TypeOK' /\ TasksFit'
  BY DEF FocusInv, TypeOK, TasksFit, Clients

\* A step that calls an observer.
LEMMA TellStep ==
  ASSUME FocusInv, NEW c \in Channels, NEW f \in States, SetFocus(c, f), UNCHANGED <<interface, active, Clients>>,
         task' \in Tasks, TaskFits'
  PROVE  /\ TypeOK' /\ TasksFit' /\ OwnersFit' /\ ToldIsTrue'
         /\ focus' = [focus EXCEPT ![c] = f]
         /\ owner' = IF f = "NONE" /\ focus[c] # f THEN [owner EXCEPT ![c] = NoActivity] ELSE owner
         /\ TypeOK
<1>1. TypeOK /\ OwnersFit /\ ToldIsTrue
  BY DEF FocusInv
<1>2. active' \subseteq Channels /\ interface' \in [Channels -> Activities \cup {NoActivity}] /\ UNCHANGED Clients
  BY <1>1 DEF TypeOK
<1> QED
  BY <1>1, <1>2, SetFocusEffect, TaskStep

LEMMA TakeInv == ASSUME FocusInv, Take PROVE FocusInv'
<1>0. TypeOK /\ TasksFit /\ queue # << >>
  BY DEF FocusInv, Take
<1>1. /\ task' \in StartTasks /\ queue' \in Seq(StartTasks) /\ task.pc = "idle"
      /\ UNCHANGED <<focus, owner, interface, active, stopper, requested, told>>
  BY <1>0 DEF Take, TasksFit, Idle
<1>2. task'.pc = "start" /\ TaskFits'
  BY <1>1, StartTasksType DEF TaskFits, PcsOf, MadeFor
<1>3. TypeOK' /\ TasksFit'
  BY <1>0, <1>1, <1>2, StartTasksType DEF TypeOK, TasksFit
<1>4. (OwnersFit /\ ToldIsTrue)'
  BY <1>1 DEF FocusInv, OwnersFit, ToldIsTrue
<1>5. Parts'
  BY <1>1, <1>2 DEF FocusInv, Parts, BetweenTasks, Entering, Granting, GrantingNext, Dropping, Leaving, PassingOn,
                    FocusAs, Observed
<1> QED
  BY <1>3, <1>4, <1>5 DEF FocusInv, Parts

LEMMA DropOldObserverInv == ASSUME FocusInv, DropOldObserver PROVE FocusInv'
<1> DEFINE c == task.channel
<1>0. /\ task.kind = "acquire" /\ task.pc = "start" /\ task # Idle
      /\ task' = [task EXCEPT !.pc = "enter"] /\ UNCHANGED <<interface, active, Clients>>
      /\ SetFocus(c, "NONE")
  BY DEF DropOldObserver, At, Goto, Idle
<1>1. c \in Channels
  BY <1>0, TaskParts
<1>2. task' \in Tasks /\ TaskFits' /\ task'.pc = "enter" /\ task'.channel = c
  BY <1>0, Going DEF PcsOf
<1>3. /\ TypeOK' /\ TasksFit' /\ OwnersFit' /\ ToldIsTrue' /\ TypeOK
      /\ focus' = [focus EXCEPT ![c] = "NONE"]
      /\ owner' = IF focus[c] # "NONE" THEN [owner EXCEPT ![c] = NoActivity] ELSE owner
  BY <1>0, <1>1, <1>2, TellStep DEF States
<1>5. \A d \in Channels : FocusAs(d, Highest(active)) /\ Observed(d)
  BY <1>0 DEF FocusInv, BetweenTasks
<1>6. \A d \in Channels \ {c} : FocusAs(d, Highest(active))' /\ Observed(d)'
  BY <1>0, <1>1, <1>3, <1>5 DEF FocusAs, Observed, TypeOK
<1>7. Vacant(c)'
  <2>1. focus[c] = "NONE" => owner[c] = NoActivity
    BY <1>1, <1>5 DEF FocusAs, Observed
  <2> QED
    BY <1>0, <1>1, <1>3, <2>1 DEF Vacant, TypeOK
<1>8. Parts'
  BY <1>2, <1>6, <1>7 DEF Parts, BetweenTasks, Entering, Granting, GrantingNext, Dropping, Leaving, PassingOn,
                    OthersAs, Vacant, FocusAs, Observed
<1> QED
  BY <1>3, <1>8 DEF FocusInv, Parts

LEMMA EnterActiveInv == ASSUME FocusInv, EnterActive PROVE FocusInv'
<1>a. PICK c, f : c = task.channel /\ f = Highest(active)
  OBVIOUS
<1>0. /\ task.kind = "acquire" /\ task.pc = "enter" /\ task # Idle
      /\ interface' = [interface EXCEPT ![c] = task.activity]
      /\ active' = active \cup {c} /\ owner' = [owner EXCEPT ![c] = task.activity]
      /\ task' = [task EXCEPT !.pc = "grant", !.foreground = f] /\ UNCHANGED <<focus, told, Clients>>
      /\ TypeOK /\ OwnersFit /\ ToldIsTrue
  BY <1>a DEF EnterActive, At, Idle, FocusInv
<1>1. c \in Channels /\ task.activity \in Activities /\ ChannelOf[task.activity] = c /\ task \in Tasks
  BY <1>a, <1>0, TaskParts DEF MadeFor
<1>2. f \in active \cup {NoChannel} /\ (active # {} => f \in active) /\ f \in Channels \cup {NoChannel}
  BY <1>a, <1>0, HighestType, HighestIs DEF TypeOK
<1>3. task' \in Tasks /\ TaskFits' /\ task'.pc = "grant" /\ task'.channel = c /\ task'.foreground = f
  <2>1. "grant" \in PcsOf(task.kind)
    BY <1>0 DEF PcsOf
  <2> QED
    BY <1>a, <1>0, <1>1, <1>2, <2>1, Going DEF Tasks
<1>4. TypeOK' /\ TasksFit'
  BY <1>0, <1>1, <1>3, TaskStep DEF TypeOK
<1>5. OthersAs(f) /\ Vacant(c)
  BY <1>a, <1>0 DEF FocusInv, Entering
<1>6. OwnersFit' /\ ToldIsTrue'
  BY <1>0, <1>1, <1>5, PriorityAssumption DEF OwnersFit, ToldIsTrue, Vacant, TypeOK
<1>7. \A d \in Channels \ {c} : FocusAs(d, f)' /\ Observed(d)'
  BY <1>a, <1>0, <1>1, <1>5 DEF OthersAs, FocusAs, Observed, TypeOK
<1>8. f = NoChannel => active' = {c}
  BY <1>0, <1>2, PriorityAssumption DEF TypeOK
<1>9. f = c => c = Highest(active')
  <2>1. f = c => active' = active
    BY <1>0, <1>1, <1>2, PriorityAssumption
  <2> QED
    BY <1>a, <2>1
<1>10. f \notin {NoChannel, c} => f = Highest(active' \ {c}) /\ f \in active'
  <2> SUFFICES ASSUME f \notin {NoChannel, c} PROVE f = Highest(active' \ {c}) /\ f \in active'
    OBVIOUS
  <2>1. f \in active /\ active \in SUBSET Channels
    BY <1>0, <1>2 DEF TypeOK
  <2>2. active' \ {c} = active \ {c}
    BY <1>0
  <2>3. CASE c \in active
    BY <1>a, <1>0, <2>1, <2>2, <2>3, HighestWithout
  <2>4. CASE c \notin active
    <3>1. active' \ {c} = active
      BY <2>2, <2>4
    <3> QED
      BY <1>a, <1>0, <2>1, <3>1
  <2> QED
    BY <2>3, <2>4
<1>11. c \in active' /\ focus'[c] = "NONE" /\ owner'[c] # NoActivity
  BY <1>0, <1>1, <1>5, PriorityAssumption DEF Vacant, TypeOK
<1>12. Granting'
  BY <1>3, <1>7, <1>8, <1>9, <1>10, <1>11 DEF Granting, OthersAs
<1>13. Parts'
  BY <1>3, <1>12 DEF Parts, BetweenTasks, Entering, GrantingNext, Dropping, Leaving, PassingOn
<1> QED
  BY <1>4, <1>6, <1>13 DEF FocusInv, Parts

LEMMA GrantInv == ASSUME FocusInv, Grant PROVE FocusInv'
<1>a. PICK c, f : c = task.channel /\ f = task.foreground
  OBVIOUS
<1>0. /\ task.kind = "acquire" /\ task.pc = "grant" /\ task # Idle
      /\ UNCHANGED <<interface, active, Clients>> /\ TypeOK
  BY DEF Grant, At, Idle, FocusInv
<1>1. c \in Channels /\ active \in SUBSET Channels
  BY <1>a, <1>0, TaskParts DEF TypeOK
<1>2. /\ \A d \in Channels \ {c} : FocusAs(d, f) /\ Observed(d)
      /\ c \in active /\ focus[c] = "NONE" /\ owner[c] # NoActivity
      /\ f = NoChannel => active = {c}
      /\ f = c => c = Highest(active)
      /\ f \notin {NoChannel, c} => f = Highest(active \ {c}) /\ f \in active
  BY <1>a, <1>0 DEF FocusInv, Granting, OthersAs
<1>3. CASE f \in {NoChannel, c}
  <2>1. SetFocus(c, "FOREGROUND") /\ task' = Idle
    BY <1>a, <1>3 DEF Grant
  <2>2. /\ TypeOK' /\ TasksFit' /\ OwnersFit' /\ ToldIsTrue' /\ task'.pc = "idle"
        /\ focus' = [focus EXCEPT ![c] = "FOREGROUND"] /\ owner' = owner
    BY <1>0, <1>1, <2>1, Ending, TellStep DEF States
  <2>3. c = Highest(active)
    BY <1>1, <1>2, <1>3, HighestOfOne
  <2>4. \A d \in Channels : FocusAs(d, Highest(active))' /\ Observed(d)'
    BY <1>0, <1>1, <1>2, <1>3, <2>2, <2>3 DEF FocusAs, Observed, TypeOK
  <2>5. Parts'
    BY <2>2, <2>4 DEF Parts, BetweenTasks, Entering, Granting, GrantingNext, Dropping, Leaving, PassingOn
  <2> QED
    BY <2>2, <2>5 DEF FocusInv, Parts
<1>4. CASE f \notin {NoChannel, c} /\ Outranks(c, f)
  <2>0. f \in Channels /\ f \in active \ {c} /\ f # c
    BY <1>1, <1>2, <1>4
  <2>1. SetFocus(f, "BACKGROUND") /\ task' = [task EXCEPT !.pc = "grantNext"]
    BY <1>a, <1>4 DEF Grant, Goto
  <2>2. task' \in Tasks /\ TaskFits' /\ task'.pc = "grantNext" /\ task'.channel = c
    BY <1>a, <1>0, <2>0, <2>1, Going DEF PcsOf
  <2>3. /\ TypeOK' /\ TasksFit' /\ OwnersFit' /\ ToldIsTrue'
        /\ focus' = [focus EXCEPT ![f] = "BACKGROUND"] /\ owner' = owner
    BY <1>0, <2>0, <2>1, <2>2, TellStep DEF States
  <2>4. c = Highest(active)
    <3>1. (active \ {c}) \cup {c} = active /\ active \ {c} \in SUBSET Channels /\ c \in Channels \ (active \ {c})
      BY <1>1, <1>2
    <3> QED
      BY <1>2, <1>4, <2>0, <3>1, HighestWith
  <2>5. \A d \in Channels \ {c} : FocusAs(d, c)' /\ Observed(d)'
    BY <1>0, <1>1, <1>2, <2>0, <2>3 DEF FocusAs, Observed, TypeOK
  <2>6. GrantingNext'
    BY <1>0, <1>1, <1>2, <2>0, <2>2, <2>3, <2>4, <2>5 DEF GrantingNext, OthersAs, TypeOK
  <2>7. Parts'
    BY <2>2, <2>6 DEF Parts, BetweenTasks, Entering, Granting, Dropping, Leaving, PassingOn
  <2> QED
    BY <2>3, <2>7 DEF FocusInv, Parts
<1>5. CASE f \notin {NoChannel, c} /\ ~Outranks(c, f)
  <2>1. SetFocus(c, "BACKGROUND") /\ task' = Idle
    BY <1>a, <1>5 DEF Grant
  <2>2. /\ TypeOK' /\ TasksFit' /\ OwnersFit' /\ ToldIsTrue' /\ task'.pc = "idle"
        /\ focus' = [focus EXCEPT ![c] = "BACKGROUND"] /\ owner' = owner
    BY <1>0, <1>1, <2>1, Ending, TellStep DEF States
  <2>3. f = Highest(active)
    <3>1. (active \ {c}) \cup {c} = active /\ active \ {c} \in SUBSET Channels /\ c \in Channels \ (active \ {c})
      BY <1>1, <1>2
    <3>2. f \in active \ {c}
      BY <1>2, <1>5
    <3> QED
      BY <1>2, <1>5, <3>1, <3>2, HighestWith
  <2>4. \A d \in Channels : FocusAs(d, Highest(active))' /\ Observed(d)'
    BY <1>0, <1>1, <1>2, <1>5, <2>2, <2>3 DEF FocusAs, Observed, TypeOK
  <2>5. Parts'
    BY <2>2, <2>4 DEF Parts, BetweenTasks, Entering, Granting, GrantingNext, Dropping, Leaving, PassingOn
  <2> QED
    BY <2>2, <2>5 DEF FocusInv, Parts
<1> QED
  BY <1>3, <1>4, <1>5

LEMMA GrantNextInv == ASSUME FocusInv, GrantNext PROVE FocusInv'
<1> DEFINE c == task.channel
<1>0. /\ task.kind = "acquire" /\ task.pc = "grantNext" /\ task # Idle
      /\ UNCHANGED <<interface, active, Clients>> /\ SetFocus(c, "FOREGROUND") /\ task' = Idle
  BY DEF GrantNext, At, Idle
<1>1. c \in Channels
  BY <1>0, TaskParts
<1>2. /\ TypeOK' /\ TasksFit' /\ OwnersFit' /\ ToldIsTrue' /\ task'.pc = "idle" /\ TypeOK
      /\ focus' = [focus EXCEPT ![c] = "FOREGROUND"] /\ owner' = owner
  BY <1>0, <1>1, Ending, TellStep DEF States
<1>3. /\ \A d \in Channels \ {c} : FocusAs(d, c) /\ Observed(d)
      /\ c = Highest(active) /\ c \in active /\ focus[c] = "NONE" /\ owner[c] # NoActivity
  BY <1>0 DEF FocusInv, GrantingNext, OthersAs
<1>4. \A d \in Channels : FocusAs(d, Highest(active))' /\ Observed(d)'
  BY <1>0, <1>1, <1>2, <1>3 DEF FocusAs, Observed, TypeOK
<1>5. Parts'
  BY <1>2, <1>4 DEF Parts, BetweenTasks, Entering, Granting, GrantingNext, Dropping, Leaving, PassingOn
<1> QED
  BY <1>2, <1>5 DEF FocusInv, Parts

\* A release or a stop that finds somebody else there does nothing.
LEMMA RefuseInv == ASSUME FocusInv, RefuseRelease \/ RefuseStop PROVE FocusInv'
<1>1. /\ task.pc = "start" /\ task # Idle /\ task' = Idle
      /\ UNCHANGED <<focus, owner, told, interface, active, Clients>>
  BY DEF RefuseRelease, RefuseStop, At, Idle
<1>2. TypeOK' /\ TasksFit' /\ task'.pc = "idle"
  BY <1>1, Ending, TaskStep DEF FocusInv, TypeOK
<1>3. OwnersFit' /\ ToldIsTrue'
  BY <1>1 DEF FocusInv, OwnersFit, ToldIsTrue
<1>4. Parts'
  BY <1>1, <1>2 DEF FocusInv, Parts, BetweenTasks, Entering, Granting, GrantingNext, Dropping, Leaving, PassingOn,
                    FocusAs, Observed
<1> QED
  BY <1>2, <1>3, <1>4 DEF FocusInv, Parts

LEMMA LeaveActiveInv == ASSUME FocusInv, LeaveActive PROVE FocusInv'
<1>a. PICK c, f : c = task.channel /\ f = Highest(active)
  OBVIOUS
<1>0. /\ task.kind = "release" /\ task.pc = "start" /\ task # Idle /\ owner[c] # NoActivity
      /\ active' = active \ {c} /\ task' = [task EXCEPT !.pc = "drop", !.foreground = f]
      /\ UNCHANGED <<focus, owner, told, interface, Clients>> /\ TypeOK
  BY <1>a DEF LeaveActive, At, Idle, Owns, FocusInv
<1>1. c \in Channels /\ active \in SUBSET Channels /\ f \in Channels \cup {NoChannel} /\ task \in Tasks
  BY <1>a, <1>0, TaskParts, HighestType DEF TypeOK
<1>2. task' \in Tasks /\ TaskFits' /\ task'.pc = "drop" /\ task'.channel = c /\ task'.foreground = f
  BY <1>a, <1>0, <1>1, Going DEF PcsOf, Tasks
<1>3. TypeOK' /\ TasksFit'
  BY <1>0, <1>2, TaskStep DEF TypeOK
<1>4. OwnersFit' /\ ToldIsTrue'
  BY <1>0 DEF FocusInv, OwnersFit, ToldIsTrue
<1>5. \A d \in Channels : FocusAs(d, f) /\ Observed(d)
  BY <1>a, <1>0 DEF FocusInv, BetweenTasks
<1>6. c \in active /\ focus[c] = IF c = f THEN "FOREGROUND" ELSE "BACKGROUND"
  BY <1>0, <1>1, <1>5 DEF FocusAs, Observed
<1>7. \A d \in Channels \ {c} : FocusAs(d, f)' /\ Observed(d)'
  BY <1>0, <1>1, <1>5 DEF FocusAs, Observed
<1>8. active' \cup {c} = active /\ c \notin active'
  BY <1>0, <1>6
<1>9. f = Highest(active' \cup {c})
  BY <1>a, <1>8
<1>10. Dropping'
  BY <1>0, <1>2, <1>6, <1>7, <1>8, <1>9 DEF Dropping, OthersAs
<1>11. Parts'
  BY <1>2, <1>10 DEF Parts, BetweenTasks, Entering, Granting, GrantingNext, Leaving, PassingOn
<1> QED
  BY <1>3, <1>4, <1>11 DEF FocusInv, Parts

LEMMA DropReleasedInv == ASSUME FocusInv, DropReleased PROVE FocusInv'
<1>a. PICK c, f : c = task.channel /\ f = task.foreground
  OBVIOUS
<1>0. /\ task.kind = "release" /\ task.pc = "drop" /\ task # Idle /\ SetFocus(c, "NONE")
      /\ task' = IF f = c THEN [task EXCEPT !.pc = "next"] ELSE Idle
      /\ UNCHANGED <<interface, active, Clients>> /\ TypeOK
  BY <1>a DEF DropReleased, At, Idle, FocusInv
<1>1. c \in Channels /\ active \in SUBSET Channels
  BY <1>a, <1>0, TaskParts DEF TypeOK
<1>2. /\ \A d \in Channels \ {c} : FocusAs(d, f) /\ Observed(d)
      /\ c \notin active /\ f = Highest(active \cup {c})
      /\ focus[c] = IF c = f THEN "FOREGROUND" ELSE "BACKGROUND"
  BY <1>a, <1>0 DEF FocusInv, Dropping, OthersAs
<1>3. task' \in Tasks /\ TaskFits' /\ task'.pc = IF f = c THEN "next" ELSE "idle"
  <2>1. "next" \in PcsOf(task.kind)
    BY <1>0 DEF PcsOf
  <2>2. CASE f = c
    BY <1>0, <1>1, <2>1, <2>2, Going
  <2>3. CASE f # c
    BY <1>0, <2>3, Ending
  <2> QED
    BY <2>2, <2>3
<1>4. /\ TypeOK' /\ TasksFit' /\ OwnersFit' /\ ToldIsTrue'
      /\ focus' = [focus EXCEPT ![c] = "NONE"] /\ owner' = [owner EXCEPT ![c] = NoActivity]
  BY <1>0, <1>1, <1>2, <1>3, TellStep DEF States
<1>5. \A d \in Channels \ {c} : FocusAs(d, f)' /\ Observed(d)'
  BY <1>0, <1>1, <1>2, <1>4 DEF FocusAs, Observed, TypeOK
<1>6. focus'[c] = "NONE" /\ Observed(c)' /\ c \notin active'
  BY <1>0, <1>1, <1>2, <1>4 DEF Observed, TypeOK
<1>7. CASE f = c
  <2>1. \A d \in Channels : Observed(d)' /\ FocusAs(d, NoChannel)'
    BY <1>5, <1>6, <1>7, PriorityAssumption DEF FocusAs
  <2>2. PassingOn'
    BY <2>1 DEF PassingOn
  <2>3. Parts'
    BY <1>3, <1>7, <2>2 DEF Parts, BetweenTasks, Entering, Granting, GrantingNext, Dropping, Leaving
  <2> QED
    BY <1>4, <2>3 DEF FocusInv, Parts
<1>8. CASE f # c
  <2>1. f = Highest(active')
    <3>1. (active \cup {c}) \ {c} = active' /\ active \cup {c} \in SUBSET Channels
      BY <1>0, <1>1, <1>2
    <3> QED
      BY <1>2, <1>8, <3>1, HighestWithout
  <2>2. \A d \in Channels : FocusAs(d, f)' /\ Observed(d)'
    BY <1>5, <1>6 DEF FocusAs
  <2>3. BetweenTasks'
    BY <2>1, <2>2 DEF BetweenTasks
  <2>4. Parts'
    BY <1>3, <1>8, <2>3 DEF Parts, Entering, Granting, GrantingNext, Dropping, Leaving, PassingOn
  <2> QED
    BY <1>4, <2>4 DEF FocusInv, Parts
<1> QED
  BY <1>7, <1>8

LEMMA StopForegroundInv == ASSUME FocusInv, StopForeground PROVE FocusInv'
<1> DEFINE c == task.channel
<1>0. /\ task.kind = "stop" /\ task.pc = "start" /\ task # Idle /\ owner[c] # NoActivity
      /\ SetFocus(c, "NONE") /\ task' = [task EXCEPT !.pc = "leave"]
      /\ UNCHANGED <<interface, active, Clients>>
  BY DEF StopForeground, At, Idle, Goto, Stoppable
<1>1. c \in Channels
  BY <1>0, TaskParts
<1>2. task' \in Tasks /\ TaskFits' /\ task'.pc = "leave" /\ task'.channel = c
  BY <1>0, Going DEF PcsOf
<1>3. \A d \in Channels : FocusAs(d, Highest(active)) /\ Observed(d)
  BY <1>0 DEF FocusInv, BetweenTasks
<1>4. c \in active /\ focus[c] # "NONE"
  BY <1>0, <1>1, <1>3 DEF FocusAs, Observed
<1>5. /\ TypeOK' /\ TasksFit' /\ OwnersFit' /\ ToldIsTrue' /\ TypeOK
      /\ focus' = [focus EXCEPT ![c] = "NONE"] /\ owner' = [owner EXCEPT ![c] = NoActivity]
  BY <1>0, <1>1, <1>2, <1>4, TellStep DEF States
<1>6. \A d \in Channels \ {c} : FocusAs(d, Highest(active))' /\ Observed(d)'
  BY <1>0, <1>1, <1>3, <1>5 DEF FocusAs, Observed, TypeOK
<1>7. Leaving'
  BY <1>0, <1>1, <1>2, <1>4, <1>5, <1>6 DEF Leaving, OthersAs, Vacant, TypeOK
<1>8. Parts'
  BY <1>2, <1>7 DEF Parts, BetweenTasks, Entering, Granting, GrantingNext, Dropping, PassingOn
<1> QED
  BY <1>5, <1>8 DEF FocusInv, Parts

LEMMA LeaveStoppedInv == ASSUME FocusInv, LeaveStopped PROVE FocusInv'
<1>a. PICK c, f : c = task.channel /\ f = Highest(active)
  OBVIOUS
<1>0. /\ task.kind = "stop" /\ task.pc = "leave" /\ task # Idle
      /\ active' = active \ {c} /\ task' = [task EXCEPT !.pc = "next"]
      /\ UNCHANGED <<focus, owner, told, interface, Clients>> /\ TypeOK
  BY <1>a DEF LeaveStopped, At, Idle, Goto, FocusInv
<1>1. c \in Channels /\ active \in SUBSET Channels
  BY <1>a, <1>0, TaskParts DEF TypeOK
<1>2. task' \in Tasks /\ TaskFits' /\ task'.pc = "next"
  BY <1>0, <1>1, Going DEF PcsOf
<1>3. TypeOK' /\ TasksFit'
  BY <1>0, <1>2, TaskStep DEF TypeOK
<1>4. OwnersFit' /\ ToldIsTrue'
  BY <1>0 DEF FocusInv, OwnersFit, ToldIsTrue
<1>5. /\ \A d \in Channels \ {c} : FocusAs(d, f) /\ Observed(d)
      /\ focus[c] = "NONE" /\ owner[c] = NoActivity /\ c \in active
  BY <1>a, <1>0 DEF FocusInv, Leaving, OthersAs, Vacant
<1>6. \A d \in Channels \ {c} : FocusAs(d, f)' /\ Observed(d)'
  BY <1>0, <1>1, <1>5 DEF FocusAs, Observed
<1>7. Observed(c)' /\ c \notin active' /\ focus'[c] = "NONE"
  BY <1>0, <1>5 DEF Observed
<1>8. PassingOn'
  <2>1. CASE f = c
    <3>1. \A d \in Channels : Observed(d)' /\ FocusAs(d, NoChannel)'
      BY <1>6, <1>7, <2>1, PriorityAssumption DEF FocusAs
    <3> QED
      BY <3>1 DEF PassingOn
  <2>2. CASE f # c
    <3>1. f = Highest(active')
      BY <1>a, <1>0, <1>1, <1>5, <2>2, HighestWithout
    <3>2. \A d \in Channels : Observed(d)' /\ FocusAs(d, f)'
      BY <1>6, <1>7 DEF FocusAs
    <3> QED
      BY <3>1, <3>2 DEF PassingOn
  <2> QED
    BY <2>1, <2>2
<1>9. Parts'
  BY <1>2, <1>8 DEF Parts, BetweenTasks, Entering, Granting, GrantingNext, Dropping, Leaving
<1> QED
  BY <1>3, <1>4, <1>9 DEF FocusInv, Parts

LEMMA ForegroundNextInv == ASSUME FocusInv, ForegroundNext PROVE FocusInv'
<1>a. PICK h : h = Highest(active)
  OBVIOUS
<1>0. /\ task.pc = "next" /\ task # Idle /\ task' = Idle /\ UNCHANGED <<interface, active, Clients>>
      /\ TypeOK /\ OwnersFit /\ ToldIsTrue
  BY DEF ForegroundNext, Idle, FocusInv
<1>1. \A d \in Channels : Observed(d) /\ (FocusAs(d, h) \/ FocusAs(d, NoChannel))
  BY <1>a, <1>0 DEF FocusInv, PassingOn
<1>2. task' \in Tasks /\ TaskFits' /\ task'.pc = "idle"
  BY <1>0, Ending
<1>3. CASE active = {}
  <2>1. UNCHANGED <<focus, owner, told>>
    BY <1>3 DEF ForegroundNext
  <2>2. TypeOK' /\ TasksFit'
    BY <1>0, <1>2, <2>1, TaskStep DEF TypeOK
  <2>3. OwnersFit' /\ ToldIsTrue'
    BY <1>0, <2>1 DEF OwnersFit, ToldIsTrue
  <2>4. \A d \in Channels : FocusAs(d, Highest(active))' /\ Observed(d)'
    BY <1>0, <1>1, <1>3, <2>1 DEF FocusAs, Observed
  <2>5. Parts'
    BY <1>2, <2>4 DEF Parts, BetweenTasks, Entering, Granting, GrantingNext, Dropping, Leaving, PassingOn
  <2> QED
    BY <2>2, <2>3, <2>5 DEF FocusInv, Parts
<1>4. CASE active # {}
  <2>1. SetFocus(h, "FOREGROUND") /\ h \in Channels /\ h \in active
    BY <1>a, <1>0, <1>4, HighestIs DEF ForegroundNext, TypeOK
  <2>2. /\ TypeOK' /\ TasksFit' /\ OwnersFit' /\ ToldIsTrue'
        /\ focus' = [focus EXCEPT ![h] = "FOREGROUND"] /\ owner' = owner
    BY <1>0, <1>2, <2>1, TellStep DEF States
  <2>3. \A d \in Channels : FocusAs(d, h)' /\ Observed(d)'
    <3> SUFFICES ASSUME NEW d \in Channels PROVE FocusAs(d, h)' /\ Observed(d)'
      OBVIOUS
    <3>1. Observed(d) /\ d = NoChannel => FALSE
      BY <1>1, PriorityAssumption
    <3>2. CASE d = h
      BY <1>0, <1>1, <2>1, <2>2, <3>2 DEF FocusAs, Observed, TypeOK
    <3>3. CASE d # h
      BY <1>0, <1>1, <2>1, <2>2, <3>1, <3>3 DEF FocusAs, Observed, TypeOK
    <3> QED
      BY <3>2, <3>3
  <2>4. h = Highest(active')
    BY <1>a, <1>0
  <2>5. Parts'
    BY <1>2, <2>3, <2>4 DEF Parts, BetweenTasks, Entering, Granting, GrantingNext, Dropping, Leaving, PassingOn
  <2> QED
    BY <2>2, <2>5 DEF FocusInv, Parts
<1> QED
  BY <1>3, <1>4

-----------------------------------------------------------------------------
(* The theorems *)

\* The invariant holds from the start, whatever clients ask and however tasks are queued.
THEOREM Invariant == Spec => []FocusInv
<1>1. ASSUME FocusInv, UNCHANGED vars PROVE FocusInv'
  BY <1>1 DEF vars, FocusInv, TypeOK, TasksFit, TaskFits, OwnersFit, ToldIsTrue, BetweenTasks, Entering, Granting,
              GrantingNext, Dropping, Leaving, PassingOn, OthersAs, Vacant, FocusAs, Observed
<1>2. ASSUME FocusInv, [Next]_vars PROVE FocusInv'
  <2>1. CASE Client
    BY <1>2, <2>1, ClientInv
  <2>2. CASE Executor
    BY <1>2, <2>2, TakeInv, DropOldObserverInv, EnterActiveInv, GrantInv, GrantNextInv, RefuseInv, LeaveActiveInv,
       DropReleasedInv, StopForegroundInv, LeaveStoppedInv, ForegroundNextInv DEF Executor
  <2>3. CASE UNCHANGED vars
    BY <1>1, <1>2, <2>3
  <2> QED
    BY <1>2, <2>1, <2>2, <2>3 DEF Next
<1> QED
  BY <1>2, InitInv, PTL DEF Spec

\* Tasks, channels and the records of what observers were told keep their types.
THEOREM TypeCorrect == Spec => []TypeOK
<1>1. FocusInv => TypeOK
  BY DEF FocusInv
<1> QED
  BY <1>1, Invariant, PTL

\* No two channels have the foreground, not even while a task is moving it from one channel
\* to another and observers are being called (setChannelFocus()).
THEOREM ForegroundIsOne == Spec => []OneForeground
<1>1. FocusInv => OneForeground
  <2> SUFFICES ASSUME FocusInv PROVE OneForeground
    OBVIOUS
  <2>1. /\ task.pc \in {"idle", "start", "enter", "grant", "grantNext", "drop", "leave", "next"}
        /\ task.pc # "idle" => task.channel \in Channels
    <3>1. CASE task = Idle
      BY <3>1 DEF Idle
    <3>2. CASE task # Idle
      BY <3>2, TaskParts DEF Tasks
    <3> QED
      BY <3>1, <3>2
  <2>2. /\ BetweenTasks /\ Entering /\ Granting /\ GrantingNext /\ Dropping /\ Leaving /\ PassingOn
    BY DEF FocusInv
  <2>3. \E h \in {Highest(active), task.foreground, NoChannel, task.channel} :
           \A c \in Channels : focus[c] = "FOREGROUND" => c = h
    <3>1. CASE task.pc \in {"idle", "start"}
      BY <2>2, <3>1 DEF BetweenTasks, FocusAs
    <3>2. CASE task.pc = "enter"
      BY <2>1, <2>2, <3>2 DEF Entering, OthersAs, FocusAs, Vacant
    <3>3. CASE task.pc = "grant"
      BY <2>1, <2>2, <3>3 DEF Granting, OthersAs, FocusAs
    <3>4. CASE task.pc = "grantNext"
      BY <2>1, <2>2, <3>4 DEF GrantingNext, OthersAs, FocusAs
    <3>5. CASE task.pc = "drop"
      BY <2>1, <2>2, <3>5 DEF Dropping, OthersAs, FocusAs
    <3>6. CASE task.pc = "leave"
      BY <2>1, <2>2, <3>6 DEF Leaving, OthersAs, FocusAs, Vacant
    <3>7. CASE task.pc = "next"
      <4>1. \A c \in Channels : FocusAs(c, Highest(active)) \/ FocusAs(c, NoChannel)
        BY <2>2, <3>7 DEF PassingOn
      <4> QED
        BY <4>1, PriorityAssumption DEF FocusAs
    <3> QED
      BY <2>1, <3>1, <3>2, <3>3, <3>4, <3>5, <3>6, <3>7
  <2> QED
    BY <2>3 DEF OneForeground
<1> QED
  BY <1>1, Invariant, PTL

\* Between tasks focus is given by priority, and a channel has an observer just when it is
\* active: a stop, a release and an acquisition in any order leave no channel behind.
THEOREM FocusIsByPriority == Spec => []FocusByPriority
<1>1. FocusInv => FocusByPriority
  BY DEF FocusInv, BetweenTasks, FocusByPriority, FocusAs, Observed, Idle
<1> QED
  BY <1>1, Invariant, PTL

\* An observer that was told it has focus has it still: whoever takes its channel tells it
\* NONE first, so no activity goes on playing on a channel that is another's.
THEOREM ObserversKnow == Spec => []ToldIsTrue
<1>1. FocusInv => ToldIsTrue
  BY DEF FocusInv
<1> QED
  BY <1>1, Invariant, PTL

\* A channel that is being released is still owned by the observer that released it: what was
\* tested before the mutex was let go is true when the observer is told.
ReleasedIsOwned == At("release", "drop") => Owns(task.channel, task.activity)

\* Only the executor changes owners, and it works on one task at a time.
LEMMA ReleasedStep == ASSUME FocusInv, ReleasedIsOwned, [Next]_vars PROVE ReleasedIsOwned'
<1>0. task \in Tasks
  BY DEF FocusInv, TypeOK
<1>1. CASE UNCHANGED <<task, owner>>
  BY <1>1 DEF ReleasedIsOwned, At, Owns
<1>2. ASSUME ~At("release", "drop")' PROVE ReleasedIsOwned'
  BY <1>2 DEF ReleasedIsOwned, At
<1>3. CASE Client \/ UNCHANGED vars
  BY <1>1, <1>3 DEF Client, Acquire, Release, ReadForeground, SubmitStop, vars
<1>4. CASE Take
  <2>1. task' \in StartTasks
    BY <1>4 DEF Take, FocusInv, TasksFit
  <2>2. task'.pc # "drop"
    BY <2>1, StartTasksType
  <2> QED BY <1>2, <2>2 DEF At
<1>5. CASE LeaveActive
  <2>1. /\ task' = [task EXCEPT !.pc = "drop", !.foreground = Highest(active)]
        /\ owner' = owner /\ Owns(task.channel, task.activity)
    BY <1>5 DEF LeaveActive
  <2>2. task'.channel = task.channel /\ task'.activity = task.activity
    BY <1>0, <2>1 DEF Tasks
  <2> QED BY <2>1, <2>2 DEF ReleasedIsOwned, Owns
<1>6. CASE DropOldObserver \/ EnterActive \/ Grant \/ GrantNext \/ RefuseRelease \/ DropReleased
           \/ RefuseStop \/ StopForeground \/ LeaveStopped \/ ForegroundNext
  <2>1. task' = Idle \/ task'.pc # "drop"
    BY <1>0, <1>6 DEF DropOldObserver, EnterActive, Grant, GrantNext, RefuseRelease, DropReleased, RefuseStop,
       StopForeground, LeaveStopped, ForegroundNext, Goto, Tasks
  <2> QED BY <1>2, <2>1 DEF At, Idle
<1> QED BY <1>3, <1>4, <1>5, <1>6 DEF Next, Executor

\* A release ends the focus of nobody but the observer that asked for it, on the channel that it
\* named, however often that channel has changed hands since the request was queued.
THEOREM OwnersRelease == Spec => OnlyOwnerReleases
<1>1. Init => ReleasedIsOwned
  BY DEF Init, ReleasedIsOwned, At, Idle
<1>2. ASSUME FocusInv, ReleasedIsOwned, [Next]_vars, NEW c \in Channels,
             task.kind = "release", owner[c] # NoActivity, owner'[c] = NoActivity
      PROVE  c = ChannelOf[task.activity] /\ ObserverOf[task.activity] = ObserverOf[owner[c]]
  <2>0. /\ TypeOK /\ OwnersFit /\ ToldIsTrue /\ TaskFits /\ task \in Tasks
    BY <1>2 DEF FocusInv, TasksFit, TypeOK
  <2>1. MadeFor(task)
    BY <1>2, <2>0 DEF TaskFits, Idle
  <2>2. task.channel = ChannelOf[task.activity] /\ task.channel \in Channels
    BY <1>2, <2>1 DEF MadeFor
  <2>3. CASE DropReleased
    <3>1. At("release", "drop") /\ SetFocus(task.channel, "NONE")
      BY <2>3 DEF DropReleased
    <3>2. owner' \in {owner, [owner EXCEPT ![task.channel] = NoActivity]}
      BY <2>0, <2>2, <3>1, SetFocusEffect DEF States
    <3>3. c = task.channel
      BY <1>2, <2>0, <3>2 DEF TypeOK
    <3> QED BY <1>2, <2>2, <3>1, <3>3 DEF ReleasedIsOwned, Owns
  <2>4. CASE ForegroundNext /\ active # {}
    <3>1. Highest(active) \in Channels /\ SetFocus(Highest(active), "FOREGROUND")
      BY <2>0, <2>4, HighestIs DEF ForegroundNext, TypeOK
    <3>2. owner' = owner
      BY <2>0, <3>1, SetFocusEffect DEF States
    <3> QED BY <1>2, <3>2
  <2>5. CASE UNCHANGED owner
    BY <1>2, <2>5
  <2>6. ~DropOldObserver /\ ~EnterActive /\ ~Grant /\ ~GrantNext /\ ~StopForeground
    BY <1>2 DEF DropOldObserver, EnterActive, Grant, GrantNext, StopForeground, At
  <2> QED
    BY <1>2, <2>3, <2>4, <2>5, <2>6 DEF Next, Executor, Client, Acquire, Release, ReadForeground, SubmitStop, Take,
       RefuseRelease, LeaveActive, RefuseStop, LeaveStopped, ForegroundNext, vars
<1>3. FocusInv /\ ReleasedIsOwned /\ [Next]_vars =>
        [\A c \in Channels :
           task.kind = "release" /\ owner[c] # NoActivity /\ owner'[c] = NoActivity =>
             c = ChannelOf[task.activity] /\ ObserverOf[task.activity] = ObserverOf[owner[c]]]_vars
  BY <1>2
<1>4. FocusInv /\ ReleasedIsOwned /\ [Next]_vars => ReleasedIsOwned'
  BY ReleasedStep
<1> QED BY <1>1, <1>3, <1>4, Invariant, PTL DEF Spec, OnlyOwnerReleases

-----------------------------------------------------------------------------
(* SpeechSynthesizer.tla: the inductive invariant *)

\* The tasks of m_executor that are about a directive, and those that are not.
DirectiveOps == {"preHandle", "handleImmediately", "handle", "cancel"}
OwnOps == {"stateChange", "started", "finished", "error", "idle"}
AgentTasks == [op : DirectiveOps, directive : Directives] \cup [op : OwnOps, directive : {None}]

PlayerType == [source : Directives \cup {None}, does : {"nothing", "start", "play", "stop", "startAndStop", "wait"}]

Fields ==
  {"tasks", "queue", "current", "mapped", "known", "readers", "completes", "state", "desired", "focus", "source",
   "stopping", "focusTasks", "results", "player", "disturbed", "again", "halted"}

\* The agent is a record with these fields.
AgentTypeOK(s) ==
  /\ s = [f \in Fields |-> s[f]]
  /\ s.tasks \in Seq(AgentTasks) /\ s.queue \in Seq(Directives) /\ s.current \in Directives \cup {None}
  /\ s.mapped \in SUBSET Directives /\ s.known \in SUBSET Directives
  /\ s.readers \in SUBSET Directives /\ s.completes \in SUBSET Directives
  /\ s.state \in {"FINISHED", "GAINING_FOCUS", "PLAYING"} /\ s.desired \in {"FINISHED", "PLAYING"}
  /\ s.focus \in {"NONE", "FOREGROUND"} /\ s.source \in Directives \cup {None} /\ s.stopping \in BOOLEAN
  /\ s.focusTasks \in Seq({"acquire", "release"})
  /\ s.results \in [Directives -> Seq({"completed", "failed"})]
  /\ s.player \in PlayerType
  /\ s.disturbed \in BOOLEAN /\ s.again \in BOOLEAN /\ s.halted \in {"no", "crashed", "deadlocked"}

SpeechTypeOK ==
  /\ AgentTypeOK(agent)
  /\ channel \in {"NONE", "FOREGROUND"} /\ caller \in {"away", "waiting", "reporting", "stopping"}
  /\ shutdown \in {"no", "stopped", "failed", "done"}
  /\ asked \in [Directives -> {"nothing", "preHandle", "handle", "immediate", "cancel"}]
  /\ events \in Nat

\* FrontIsCurrent of an agent, in a handler too.
FrontHolds(s) == s.current \in s.mapped => s.queue # << >> /\ Head(s.queue) = s.current

\* A directive that is to be put into the map is neither current nor in the queue, and nothing
\* that is to be done before can bring it there.
NewIsNew(s) ==
  \A i \in DOMAIN s.tasks :
    s.tasks[i].op \in {"preHandle", "handleImmediately"} =>
      /\ s.tasks[i].directive \notin Elements(s.queue) /\ s.tasks[i].directive # s.current
      /\ \A j \in DOMAIN s.tasks : j < i => s.tasks[j].directive # s.tasks[i].directive

\* The agent has nothing of a directive that it was not asked for.
Unasked(s) ==
  \A d \in Directives :
    asked[d] = "nothing" =>
      /\ d \notin Elements(s.queue) /\ d # s.current
      /\ \A i \in DOMAIN s.tasks : s.tasks[i].directive # d

FrontInv == FrontHolds(agent) /\ NewIsNew(agent) /\ Unasked(agent)

\* Neither an error nor a timeout, and no shutdown.
Undisturbed == Running /\ ~agent.disturbed /\ ~agent.again /\ shutdown = "no"

IsPending(s, op) == \E i \in DOMAIN s.tasks : s.tasks[i].op = op
\* No task of the first kind is behind one of the second, and of one kind there is one at most.
InOrder(s, first, second) ==
  \A i, j \in DOMAIN s.tasks : s.tasks[i].op = first /\ s.tasks[j].op = second => i <= j

\* Without a source the player is silent, and nothing that it did is still to be heard of; a
\* playback that has finished is heard of once, and after its start.
SourceHolds(s) ==
  /\ s.state = "FINISHED" => s.source = None
  /\ s.source = None =>
       s.player = Silent /\ s.state # "PLAYING" /\ ~IsPending(s, "started") /\ ~IsPending(s, "finished")
  /\ IsPending(s, "finished") => s.player = Silent
  /\ InOrder(s, "started", "finished") /\ InOrder(s, "finished", "finished")

\* The changes of state that a focus brings come before the end of what is played with it; one
\* of an earlier focus may be left while the channel is another's.
FocusHolds(s) ==
  /\ channel = "NONE" => s.desired = "FINISHED"
  /\ channel = "FOREGROUND" =>
       InOrder(s, "stateChange", "finished") /\ (s.state = "FINISHED" => ~IsPending(s, "stateChange"))

\* onFocusChanged() has returned in the state that it was to achieve.
CallerHolds(s) ==
  /\ caller \in {"away", "waiting"}
  /\ caller = "away" => s.state # "GAINING_FOCUS" /\ (channel = "NONE" => s.state = "FINISHED")

SilentInv == Undisturbed => SourceHolds(agent) /\ FocusHolds(agent) /\ CallerHolds(agent)

-----------------------------------------------------------------------------
(* The queue *)

\* Cancelling removes the directive from where it waits, and nothing that is not the directive.
LEMMA RemovedFirst ==
  ASSUME NEW q \in Seq(Directives), NEW d \in Directives
  PROVE  /\ RemoveFirst(q, d) \in Seq(Directives)
         /\ Elements(RemoveFirst(q, d)) \subseteq Elements(q)
         /\ q # << >> /\ Head(q) # d => RemoveFirst(q, d) # << >> /\ Head(RemoveFirst(q, d)) = Head(q)
<1> DEFINE I == {i \in 1..Len(q) : q[i] = d}
           k == SelectInSeq(q, LAMBDA v : v = d)
<1>1. CASE I = {}
  BY <1>1 DEF RemoveFirst
<1>2. CASE I # {}
  <2>1. PICK m \in I : \A i \in I : m <= i
    <3>1. I \subseteq Nat
      OBVIOUS
    <3> QED BY <1>2, <3>1, LeastElement
  <2>2. k = m
    BY <1>2, <2>1 DEF SelectInSeq, Min
  <2>3. RemoveFirst(q, d) = SubSeq(q, 1, m - 1) \o SubSeq(q, m + 1, Len(q))
    BY <2>1, <2>2 DEF RemoveFirst, RemoveAt
  <2> DEFINE r == RemoveFirst(q, d)
             before == SubSeq(q, 1, m - 1)
             after == SubSeq(q, m + 1, Len(q))
  <2>4. m \in 1..Len(q) /\ q[m] = d
    BY <2>1
  <2>5. /\ before \in Seq(Directives) /\ Len(before) = m - 1 /\ \A i \in 1..m - 1 : before[i] = q[i]
        /\ after \in Seq(Directives) /\ Len(after) = Len(q) - m
        /\ \A i \in 1..Len(q) - m : after[i] = q[i + m]
    BY <2>4
  <2>6. r = before \o after
    BY <2>3
  <2> HIDE DEF r, before, after
  <2>7. r \in Seq(Directives) /\ Len(r) = Len(q) - 1
    <3>1. r \in Seq(Directives) /\ Len(r) = Len(before) + Len(after)
      BY <2>5, <2>6
    <3> QED BY <3>1, <2>4, <2>5
  <2>8. \A i \in 1..Len(r) : r[i] = IF i < m THEN q[i] ELSE q[i + 1]
    <3> TAKE i \in 1..Len(r)
    <3>1. CASE i < m
      <4>1. r[i] = before[i]
        BY <3>1, <2>6, <2>4, <2>5, <2>7
      <4> QED BY <3>1, <4>1, <2>4, <2>5
    <3>2. CASE ~(i < m)
      <4> DEFINE j == i - (m - 1)
      <4>1. j \in 1..Len(q) - m /\ j + m = i + 1
        BY <3>2, <2>4, <2>7
      <4>2. r[i] = after[j]
        BY <3>2, <4>1, <2>6, <2>4, <2>5, <2>7
      <4>3. after[j] = q[j + m]
        BY <4>1, <2>5
      <4> QED BY <3>2, <4>1, <4>2, <4>3
    <3> QED BY <3>1, <3>2
  <2>9. Elements(r) \subseteq Elements(q)
    <3>1. \A i \in DOMAIN r : i \in DOMAIN q /\ i + 1 \in DOMAIN q
      BY <2>4, <2>7
    <3>2. DOMAIN r = 1..Len(r)
      BY <2>7
    <3> QED BY <2>8, <3>1, <3>2 DEF Elements
  <2>10. q # << >> /\ Head(q) # d => r # << >> /\ Head(r) = Head(q)
    <3> SUFFICES ASSUME q # << >>, Head(q) # d PROVE r # << >> /\ Head(r) = Head(q)
      OBVIOUS
    <3>1. m > 1
      BY <2>4
    <3> QED BY <3>1, <2>4, <2>7, <2>8
  <2> QED BY <2>7, <2>9, <2>10 DEF r
<1> QED BY <1>1, <1>2

-----------------------------------------------------------------------------
(* The handlers of the agent *)

\* A record with one field changed ...
LEMMA Updated ==
  ASSUME NEW s, s = [f \in Fields |-> s[f]], NEW g \in Fields, NEW x, NEW t, t = [s EXCEPT ![g] = x]
  PROVE  t = [f \in Fields |-> t[f]] /\ t[g] = x /\ \A f \in Fields \ {g} : t[f] = s[f]
OBVIOUS

\* ... is an agent, if the field is as it may be.
LEMMA Updates ==
  ASSUME NEW s, AgentTypeOK(s)
  PROVE  /\ \A x \in Seq(AgentTasks) : AgentTypeOK([s EXCEPT !.tasks = x])
         /\ \A x \in Seq(Directives) : AgentTypeOK([s EXCEPT !.queue = x])
         /\ \A x \in Directives \cup {None} : AgentTypeOK([s EXCEPT !.current = x])
         /\ \A x \in SUBSET Directives : AgentTypeOK([s EXCEPT !.mapped = x])
         /\ \A x \in SUBSET Directives : AgentTypeOK([s EXCEPT !.known = x])
         /\ \A x \in SUBSET Directives : AgentTypeOK([s EXCEPT !.readers = x])
         /\ \A x \in SUBSET Directives : AgentTypeOK([s EXCEPT !.completes = x])
         /\ \A x \in {"FINISHED", "GAINING_FOCUS", "PLAYING"} : AgentTypeOK([s EXCEPT !.state = x])
         /\ \A x \in {"FINISHED", "PLAYING"} : AgentTypeOK([s EXCEPT !.desired = x])
         /\ \A x \in {"NONE", "FOREGROUND"} : AgentTypeOK([s EXCEPT !.focus = x])
         /\ \A x \in Directives \cup {None} : AgentTypeOK([s EXCEPT !.source = x])
         /\ \A x \in BOOLEAN : AgentTypeOK([s EXCEPT !.stopping = x])
         /\ \A x \in Seq({"acquire", "release"}) : AgentTypeOK([s EXCEPT !.focusTasks = x])
         /\ \A x \in [Directives -> Seq({"completed", "failed"})] : AgentTypeOK([s EXCEPT !.results = x])
         /\ \A x \in PlayerType : AgentTypeOK([s EXCEPT !.player = x])
         /\ \A x \in BOOLEAN : AgentTypeOK([s EXCEPT !.disturbed = x])
         /\ \A x \in BOOLEAN : AgentTypeOK([s EXCEPT !.again = x])
         /\ \A x \in {"no", "crashed", "deadlocked"} : AgentTypeOK([s EXCEPT !.halted = x])
<1>1. ASSUME NEW x \in Seq(AgentTasks) PROVE AgentTypeOK([s EXCEPT !.tasks = x])
  <2>1. PICK t : t = [s EXCEPT !.tasks = x]
    OBVIOUS
  <2>2. t = [f \in Fields |-> t[f]] /\ t.tasks = x /\ \A f \in Fields \ {"tasks"} : t[f] = s[f]
    BY <2>1, Updated DEF AgentTypeOK, Fields
  <2>3. AgentTypeOK(t)
    BY <2>2, <1>1, Zenon DEF AgentTypeOK, Fields
  <2> QED BY <2>1, <2>3
<1>2. ASSUME NEW x \in Seq(Directives) PROVE AgentTypeOK([s EXCEPT !.queue = x])
  <2>1. PICK t : t = [s EXCEPT !.queue = x]
    OBVIOUS
  <2>2. t = [f \in Fields |-> t[f]] /\ t.queue = x /\ \A f \in Fields \ {"queue"} : t[f] = s[f]
    BY <2>1, Updated DEF AgentTypeOK, Fields
  <2>3. AgentTypeOK(t)
    BY <2>2, <1>2, Zenon DEF AgentTypeOK, Fields
  <2> QED BY <2>1, <2>3
<1>3. ASSUME NEW x \in Directives \cup {None} PROVE AgentTypeOK([s EXCEPT !.current = x])
  <2>1. PICK t : t = [s EXCEPT !.current = x]
    OBVIOUS
  <2>2. t = [f \in Fields |-> t[f]] /\ t.current = x /\ \A f \in Fields \ {"current"} : t[f] = s[f]
    BY <2>1, Updated DEF AgentTypeOK, Fields
  <2>3. AgentTypeOK(t)
    BY <2>2, <1>3, Zenon DEF AgentTypeOK, Fields
  <2> QED BY <2>1, <2>3
<1>4. ASSUME NEW x \in SUBSET Directives PROVE AgentTypeOK([s EXCEPT !.mapped = x])
  <2>1. PICK t : t = [s EXCEPT !.mapped = x]
    OBVIOUS
  <2>2. t = [f \in Fields |-> t[f]] /\ t.mapped = x /\ \A f \in Fields \ {"mapped"} : t[f] = s[f]
    BY <2>1, Updated DEF AgentTypeOK, Fields
  <2>3. AgentTypeOK(t)
    BY <2>2, <1>4, Zenon DEF AgentTypeOK, Fields
  <2> QED BY <2>1, <2>3
<1>5. ASSUME NEW x \in SUBSET Directives PROVE AgentTypeOK([s EXCEPT !.known = x])
  <2>1. PICK t : t = [s EXCEPT !.known = x]
    OBVIOUS
  <2>2. t = [f \in Fields |-> t[f]] /\ t.known = x /\ \A f \in Fields \ {"known"} : t[f] = s[f]
    BY <2>1, Updated DEF AgentTypeOK, Fields
  <2>3. AgentTypeOK(t)
    BY <2>2, <1>5, Zenon DEF AgentTypeOK, Fields
  <2> QED BY <2>1, <2>3
<1>6. ASSUME NEW x \in SUBSET Directives PROVE AgentTypeOK([s EXCEPT !.readers = x])
  <2>1. PICK t : t = [s EXCEPT !.readers = x]
    OBVIOUS
  <2>2. t = [f \in Fields |-> t[f]] /\ t.readers = x /\ \A f \in Fields \ {"readers"} : t[f] = s[f]
    BY <2>1, Updated DEF AgentTypeOK, Fields
  <2>3. AgentTypeOK(t)
    BY <2>2, <1>6, Zenon DEF AgentTypeOK, Fields
  <2> QED BY <2>1, <2>3
<1>7. ASSUME NEW x \in SUBSET Directives PROVE AgentTypeOK([s EXCEPT !.completes = x])
  <2>1. PICK t : t = [s EXCEPT !.completes = x]
    OBVIOUS
  <2>2. t = [f \in Fields |-> t[f]] /\ t.completes = x /\ \A f \in Fields \ {"completes"} : t[f] = s[f]
    BY <2>1, Updated DEF AgentTypeOK, Fields
  <2>3. AgentTypeOK(t)
    BY <2>2, <1>7, Zenon DEF AgentTypeOK, Fields
  <2> QED BY <2>1, <2>3
<1>8. ASSUME NEW x \in {"FINISHED", "GAINING_FOCUS", "PLAYING"} PROVE AgentTypeOK([s EXCEPT !.state = x])
  <2>1. PICK t : t = [s EXCEPT !.state = x]
    OBVIOUS
  <2>2. t = [f \in Fields |-> t[f]] /\ t.state = x /\ \A f \in Fields \ {"state"} : t[f] = s[f]
    BY <2>1, Updated DEF AgentTypeOK, Fields
  <2>3. AgentTypeOK(t)
    BY <2>2, <1>8, Zenon DEF AgentTypeOK, Fields
  <2> QED BY <2>1, <2>3
<1>9. ASSUME NEW x \in {"FINISHED", "PLAYING"} PROVE AgentTypeOK([s EXCEPT !.desired = x])
  <2>1. PICK t : t = [s EXCEPT !.desired = x]
    OBVIOUS
  <2>2. t = [f \in Fields |-> t[f]] /\ t.desired = x /\ \A f \in Fields \ {"desired"} : t[f] = s[f]
    BY <2>1, Updated DEF AgentTypeOK, Fields
  <2>3. AgentTypeOK(t)
    BY <2>2, <1>9, Zenon DEF AgentTypeOK, Fields
  <2> QED BY <2>1, <2>3
<1>10. ASSUME NEW x \in {"NONE", "FOREGROUND"} PROVE AgentTypeOK([s EXCEPT !.focus = x])
  <2>1. PICK t : t = [s EXCEPT !.focus = x]
    OBVIOUS
  <2>2. t = [f \in Fields |-> t[f]] /\ t.focus = x /\ \A f \in Fields \ {"focus"} : t[f] = s[f]
    BY <2>1, Updated DEF AgentTypeOK, Fields
  <2>3. AgentTypeOK(t)
    BY <2>2, <1>10, Zenon DEF AgentTypeOK, Fields
  <2> QED BY <2>1, <2>3
<1>11. ASSUME NEW x \in Directives \cup {None} PROVE AgentTypeOK([s EXCEPT !.source = x])
  <2>1. PICK t : t = [s EXCEPT !.source = x]
    OBVIOUS
  <2>2. t = [f \in Fields |-> t[f]] /\ t.source = x /\ \A f \in Fields \ {"source"} : t[f] = s[f]
    BY <2>1, Updated DEF AgentTypeOK, Fields
  <2>3. AgentTypeOK(t)
    BY <2>2, <1>11, Zenon DEF AgentTypeOK, Fields
  <2> QED BY <2>1, <2>3
<1>12. ASSUME NEW x \in BOOLEAN PROVE AgentTypeOK([s EXCEPT !.stopping = x])
  <2>1. PICK t : t = [s EXCEPT !.stopping = x]
    OBVIOUS
  <2>2. t = [f \in Fields |-> t[f]] /\ t.stopping = x /\ \A f \in Fields \ {"stopping"} : t[f] = s[f]
    BY <2>1, Updated DEF AgentTypeOK, Fields
  <2>3. AgentTypeOK(t)
    BY <2>2, <1>12, Zenon DEF AgentTypeOK, Fields
  <2> QED BY <2>1, <2>3
<1>13. ASSUME NEW x \in Seq({"acquire", "release"}) PROVE AgentTypeOK([s EXCEPT !.focusTasks = x])
  <2>1. PICK t : t = [s EXCEPT !.focusTasks = x]
    OBVIOUS
  <2>2. t = [f \in Fields |-> t[f]] /\ t.focusTasks = x /\ \A f \in Fields \ {"focusTasks"} : t[f] = s[f]
    BY <2>1, Updated DEF AgentTypeOK, Fields
  <2>3. AgentTypeOK(t)
    BY <2>2, <1>13, Zenon DEF AgentTypeOK, Fields
  <2> QED BY <2>1, <2>3
<1>14. ASSUME NEW x \in [Directives -> Seq({"completed", "failed"})] PROVE AgentTypeOK([s EXCEPT !.results = x])
  <2>1. PICK t : t = [s EXCEPT !.results = x]
    OBVIOUS
  <2>2. t = [f \in Fields |-> t[f]] /\ t.results = x /\ \A f \in Fields \ {"results"} : t[f] = s[f]
    BY <2>1, Updated DEF AgentTypeOK, Fields
  <2>3. AgentTypeOK(t)
    BY <2>2, <1>14, Zenon DEF AgentTypeOK, Fields
  <2> QED BY <2>1, <2>3
<1>15. ASSUME NEW x \in PlayerType PROVE AgentTypeOK([s EXCEPT !.player = x])
  <2>1. PICK t : t = [s EXCEPT !.player = x]
    OBVIOUS
  <2>2. t = [f \in Fields |-> t[f]] /\ t.player = x /\ \A f \in Fields \ {"player"} : t[f] = s[f]
    BY <2>1, Updated DEF AgentTypeOK, Fields
  <2>3. AgentTypeOK(t)
    BY <2>2, <1>15, Zenon DEF AgentTypeOK, Fields
  <2> QED BY <2>1, <2>3
<1>16. ASSUME NEW x \in BOOLEAN PROVE AgentTypeOK([s EXCEPT !.disturbed = x])
  <2>1. PICK t : t = [s EXCEPT !.disturbed = x]
    OBVIOUS
  <2>2. t = [f \in Fields |-> t[f]] /\ t.disturbed = x /\ \A f \in Fields \ {"disturbed"} : t[f] = s[f]
    BY <2>1, Updated DEF AgentTypeOK, Fields
  <2>3. AgentTypeOK(t)
    BY <2>2, <1>16, Zenon DEF AgentTypeOK, Fields
  <2> QED BY <2>1, <2>3
<1>17. ASSUME NEW x \in BOOLEAN PROVE AgentTypeOK([s EXCEPT !.again = x])
  <2>1. PICK t : t = [s EXCEPT !.again = x]
    OBVIOUS
  <2>2. t = [f \in Fields |-> t[f]] /\ t.again = x /\ \A f \in Fields \ {"again"} : t[f] = s[f]
    BY <2>1, Updated DEF AgentTypeOK, Fields
  <2>3. AgentTypeOK(t)
    BY <2>2, <1>17, Zenon DEF AgentTypeOK, Fields
  <2> QED BY <2>1, <2>3
<1>18. ASSUME NEW x \in {"no", "crashed", "deadlocked"} PROVE AgentTypeOK([s EXCEPT !.halted = x])
  <2>1. PICK t : t = [s EXCEPT !.halted = x]
    OBVIOUS
  <2>2. t = [f \in Fields |-> t[f]] /\ t.halted = x /\ \A f \in Fields \ {"halted"} : t[f] = s[f]
    BY <2>1, Updated DEF AgentTypeOK, Fields
  <2>3. AgentTypeOK(t)
    BY <2>2, <1>18, Zenon DEF AgentTypeOK, Fields
  <2> QED BY <2>1, <2>3
<1> QED BY <1>1, <1>2, <1>3, <1>4, <1>5, <1>6, <1>7, <1>8, <1>9, <1>10, <1>11, <1>12, <1>13, <1>14, <1>15, <1>16, <1>17, <1>18

\* A handler that is about directive d, or about none, makes s into t: what is in the queue, or
\* current, then was there or is d, and the front is kept.
Handled(s, t, d) ==
  /\ AgentTypeOK(t) /\ t.tasks = s.tasks
  /\ Elements(t.queue) \subseteq Elements(s.queue) \cup {d}
  /\ t.current \in Elements(s.queue) \cup {s.current, None, d}
  /\ FrontHolds(t)

\* Unless there was an error, the player goes on as before, or is only told to stop.
Alike(s, t) ==
  ~t.disturbed =>
    /\ ~s.disturbed /\ t.again = s.again /\ t.tasks = s.tasks
    /\ t.state = s.state /\ t.source = s.source /\ t.desired \in {s.desired, "FINISHED"}
    /\ t.player = Silent <=> s.player = Silent

LEMMA HandledOn ==
  ASSUME NEW s, NEW t, NEW u, NEW d, Handled(s, t, d), Handled(t, u, d)
  PROVE  Handled(s, u, d)
BY DEF Handled

LEMMA AlikeOn ==
  ASSUME NEW s, NEW t, NEW u, Alike(s, t), Alike(t, u)
  PROVE  Alike(s, u)
BY DEF Alike

LEMMA ResultIn ==
  ASSUME NEW s, AgentTypeOK(s), NEW X, NEW r \in {"completed", "failed"}
  PROVE  /\ AgentTypeOK(Result(s, X, r))
         /\ \E f : Result(s, X, r) = [s EXCEPT !.results = f]
<1> DEFINE f == [d \in Directives |-> IF d \in X /\ asked[d] # "immediate" THEN Append(s.results[d], r) ELSE s.results[d]]
<1>1. f \in [Directives -> Seq({"completed", "failed"})]
  BY DEF AgentTypeOK
<1>2. Result(s, X, r) = [s EXCEPT !.results = f]
  BY DEF Result
<1> HIDE DEF f
<1>3. AgentTypeOK([s EXCEPT !.results = f])
  BY <1>1, Updates, Zenon
<1> QED BY <1>2, <1>3

\* resetCurrentInfo() leaves nothing current.
LEMMA ResetIs ==
  ASSUME NEW s, AgentTypeOK(s)
  PROVE  /\ AgentTypeOK(Reset(s)) /\ Reset(s).current = None /\ Reset(s).mapped \subseteq Directives
         /\ Reset(s).tasks = s.tasks /\ Reset(s).desired = s.desired /\ Reset(s).player = s.player
         /\ Reset(s).disturbed = s.disturbed /\ Reset(s).again = s.again
<1>1. /\ s.readers \ {s.current} \in SUBSET Directives /\ s.completes \ {s.current} \in SUBSET Directives
      /\ s.mapped \ {s.current} \in SUBSET Directives /\ s.known \ {s.current} \in SUBSET Directives
      /\ DOMAIN s = Fields
  BY DEF AgentTypeOK
<1>2. AgentTypeOK(Reset(s))
  BY <1>1, Updates DEF Reset, Cleared, Fields
<1>3. /\ Reset(s).current = None /\ Reset(s).mapped = s.mapped \ {s.current} /\ Reset(s).tasks = s.tasks
      /\ Reset(s).desired = s.desired /\ Reset(s).player = s.player
      /\ Reset(s).disturbed = s.disturbed /\ Reset(s).again = s.again
  BY <1>1 DEF Reset, Cleared, Fields
<1> QED BY <1>1, <1>2, <1>3

LEMMA ErrorHandled ==
  ASSUME NEW s, AgentTypeOK(s), NEW d \in Directives \cup {None}, FrontHolds(s)
  PROVE  Handled(s, PlaybackError(s), d) /\ Alike(s, PlaybackError(s))
<1> DEFINE all == Elements(s.queue)
           r == Reset(s)
           f == Result(r, all, "failed")
           t == PlaybackError(s)
<1>1. CASE s.current = None
  BY <1>1 DEF PlaybackError, Handled, Alike
<1>2. CASE s.current # None
  <2>1. all \subseteq Directives /\ s.mapped \subseteq Directives /\ DOMAIN s = Fields
    BY DEF AgentTypeOK, Elements
  <2>2. AgentTypeOK(r)
    BY ResetIs
  <2>3. r.tasks = s.tasks /\ r.current = None /\ r.mapped \subseteq Directives
    BY ResetIs
  <2> HIDE DEF r
  <2>4. AgentTypeOK(f) /\ \E g : f = [r EXCEPT !.results = g]
    BY <2>2, ResultIn
  <2>5. DOMAIN r = Fields /\ DOMAIN f = Fields
    BY <2>2, <2>4 DEF AgentTypeOK
  <2>6. f.tasks = s.tasks /\ f.current = None /\ f.mapped = r.mapped
    BY <2>3, <2>4, <2>5 DEF Fields
  <2>7. t = [Cleared(f, all) EXCEPT
             !.state = "FINISHED", !.focus = "NONE", !.focusTasks = Append(@, "release"),
             !.source = None, !.queue = << >>, !.known = @ \ all, !.disturbed = TRUE]
    BY <1>2 DEF PlaybackError, r
  <2> HIDE DEF f, all
  <2>8. AgentTypeOK(t)
    <3>1. PICK c : c = Cleared(f, all)
      OBVIOUS
    <3>2. AgentTypeOK(c)
      <4>1. f.readers \ all \in SUBSET Directives /\ f.completes \ all \in SUBSET Directives
        BY <2>4 DEF AgentTypeOK
      <4> QED BY <3>1, <4>1, <2>4, <2>5, Updates DEF Cleared, Fields
    <3>3. Append(c.focusTasks, "release") \in Seq({"acquire", "release"}) /\ c.known \ all \in SUBSET Directives /\ DOMAIN c = Fields
      BY <3>2 DEF AgentTypeOK
    <3>4. t = [c EXCEPT !.state = "FINISHED", !.focus = "NONE", !.focusTasks = Append(c.focusTasks, "release"),
             !.source = None, !.queue = << >>, !.known = c.known \ all, !.disturbed = TRUE]
      BY <3>1, <3>3, <2>7 DEF Fields
    <3>5. /\ "FINISHED" \in {"FINISHED", "GAINING_FOCUS", "PLAYING"} /\ "NONE" \in {"NONE", "FOREGROUND"}
          /\ None \in Directives \cup {None} /\ << >> \in Seq(Directives) /\ TRUE \in BOOLEAN
      OBVIOUS
    <3> QED BY <3>2, <3>3, <3>4, <3>5, Updates, Zenon
  <2>9. t.tasks = s.tasks /\ t.current = None /\ t.queue = << >> /\ t.disturbed
    BY <2>5, <2>6, <2>7 DEF Cleared, Fields
  <2> HIDE DEF t
  <2>10. t.mapped \subseteq Directives
    BY <2>8 DEF AgentTypeOK
  <2>11. FrontHolds(t)
    BY <2>9, <2>10, SpeechAssumption DEF FrontHolds
  <2>12. Handled(s, t, d)
    BY <2>8, <2>9, <2>11 DEF Handled, Elements
  <2>13. Alike(s, t)
    BY <2>9, Zenon DEF Alike
  <2> QED BY <2>12, <2>13 DEF t
<1> QED BY <1>1, <1>2

LEMMA StopHandled ==
  ASSUME NEW s, AgentTypeOK(s), NEW d \in Directives \cup {None}, FrontHolds(s)
  PROVE  Handled(s, StopPlaying(s), d) /\ Alike(s, StopPlaying(s))
<1> DEFINE t == StopPlaying(s)
<1>1. CASE s.source = None \/ s.stopping
  BY <1>1 DEF StopPlaying, Handled, Alike
<1>2. CASE ~(s.source = None \/ s.stopping) /\ CanStop(s)
  <2>1. t = [s EXCEPT !.stopping = TRUE, !.player.does = IF @ = "play" THEN "stop" ELSE "startAndStop"]
    BY <1>2 DEF StopPlaying
  <2>2. DOMAIN s = Fields /\ s.player \in PlayerType
    BY DEF AgentTypeOK
  <2>3. PICK does \in {"stop", "startAndStop"} : t = [s EXCEPT !.stopping = TRUE, !.player = [s.player EXCEPT !.does = does]]
    BY <2>1, <2>2 DEF Fields
  <2>4. [s.player EXCEPT !.does = does] \in PlayerType /\ [s.player EXCEPT !.does = does].does = does
    BY <2>2 DEF PlayerType
  <2>5. AgentTypeOK(t)
    <3>1. AgentTypeOK([s EXCEPT !.stopping = TRUE])
      BY Updates
    <3>2. AgentTypeOK([[s EXCEPT !.stopping = TRUE] EXCEPT !.player = [s.player EXCEPT !.does = does]])
      BY <3>1, <2>4, Updates, Zenon
    <3> QED BY <3>2, <2>3, Zenon
  <2>6. /\ t.tasks = s.tasks /\ t.queue = s.queue /\ t.current = s.current /\ t.mapped = s.mapped
        /\ t.disturbed = s.disturbed /\ t.again = s.again /\ t.state = s.state /\ t.source = s.source
        /\ t.desired = s.desired /\ t.player = [s.player EXCEPT !.does = does]
    BY <2>2, <2>3 DEF Fields
  <2>7. s.player # Silent /\ t.player # Silent
    BY <1>2, <2>4, <2>6 DEF CanStop, Silent
  <2> HIDE DEF t
  <2>8. Handled(s, t, d)
    BY <2>5, <2>6 DEF Handled, FrontHolds
  <2>9. Alike(s, t)
    BY <2>6, <2>7, Zenon DEF Alike
  <2> QED BY <2>8, <2>9 DEF t
<1>3. CASE ~(s.source = None \/ s.stopping) /\ ~CanStop(s)
  BY <1>3, ErrorHandled DEF StopPlaying
<1> QED BY <1>1, <1>2, <1>3

\* What the invariants are about is left alone.
Aside(s, t) ==
  /\ AgentTypeOK(t) /\ t.tasks = s.tasks /\ t.queue = s.queue /\ t.current = s.current /\ t.mapped = s.mapped
  /\ t.state = s.state /\ t.desired = s.desired /\ t.source = s.source /\ t.player = s.player
  /\ t.disturbed = s.disturbed /\ t.again = s.again /\ t.halted = s.halted

LEMMA AsideHandled ==
  ASSUME NEW s, NEW t, Aside(s, t), NEW d, FrontHolds(s)
  PROVE  Handled(s, t, d) /\ Alike(s, t)
<1>1. Handled(s, t, d)
  BY DEF Aside, Handled, FrontHolds
<1>2. Alike(s, t)
  BY Zenon DEF Aside, Alike
<1> QED BY <1>1, <1>2

LEMMA ClearedAside ==
  ASSUME NEW s, AgentTypeOK(s), NEW X
  PROVE  Aside(s, Cleared(s, X))
<1>1. s.readers \ X \in SUBSET Directives /\ s.completes \ X \in SUBSET Directives /\ DOMAIN s = Fields
  BY DEF AgentTypeOK
<1>2. AgentTypeOK(Cleared(s, X))
  BY <1>1, Updates DEF Cleared, Fields
<1> QED BY <1>1, <1>2 DEF Aside, Cleared, Fields

LEMMA ResultAside ==
  ASSUME NEW s, AgentTypeOK(s), NEW X, NEW r \in {"completed", "failed"}
  PROVE  Aside(s, Result(s, X, r))
<1>1. AgentTypeOK(Result(s, X, r))
  BY ResultIn
<1>2. DOMAIN s = Fields
  BY DEF AgentTypeOK
<1>3. PICK f : Result(s, X, r) = [s EXCEPT !.results = f]
  BY ResultIn
<1> QED BY <1>1, <1>2, <1>3 DEF Aside, Fields

\* What a directive is not in progress any more is known of.
LEMMA ForgottenAside ==
  ASSUME NEW s, AgentTypeOK(s), NEW X
  PROVE  Aside(s, [s EXCEPT !.known = @ \ X])
<1>1. s.known \ X \in SUBSET Directives /\ DOMAIN s = Fields
  BY DEF AgentTypeOK
<1>2. AgentTypeOK([s EXCEPT !.known = @ \ X])
  BY <1>1, Updates DEF Fields
<1> QED BY <1>1, <1>2 DEF Aside, Fields

LEMMA AsideOn ==
  ASSUME NEW s, NEW t, NEW u, Aside(s, t), Aside(t, u)
  PROVE  Aside(s, u)
BY DEF Aside

LEMMA ReportedAside ==
  ASSUME NEW s, AgentTypeOK(s), NEW d
  PROVE  Aside(s, ReportedFailed(s, d))
<1> DEFINE r == Result(s, {d}, "failed")
           c == Cleared(r, {d})
           t == ReportedFailed(s, d)
<1>1. Aside(s, r)
  BY ResultAside
<1>2. Aside(r, c)
  BY <1>1, ClearedAside DEF Aside
<1>3. AgentTypeOK(c)
  BY <1>2 DEF Aside
<1>4. t = [c EXCEPT !.known = @ \ {d}]
  BY DEF ReportedFailed
<1> HIDE DEF r, c, t
<1>5. Aside(c, t)
  BY <1>3, <1>4, ForgottenAside
<1>6. Aside(s, c)
  BY <1>1, <1>2, AsideOn
<1> QED BY <1>5, <1>6, AsideOn DEF t

LEMMA FailedHandled ==
  ASSUME NEW s, AgentTypeOK(s), NEW d \in Directives, NEW e \in Directives \cup {None}, FrontHolds(s)
  PROVE  Handled(s, Failed(s, d), e) /\ Alike(s, Failed(s, d))
<1> DEFINE r == ReportedFailed(s, d)
           t == StopPlaying(r)
<1>1. Handled(s, r, e) /\ Alike(s, r)
  BY ReportedAside, AsideHandled
<1>2. Handled(r, t, e) /\ Alike(r, t)
  BY <1>1, StopHandled DEF Handled
<1>3. Failed(s, d) = IF Speaks(s) THEN t ELSE r
  BY DEF Failed
<1> HIDE DEF r, t
<1>4. Handled(s, t, e) /\ Alike(s, t)
  BY <1>1, <1>2, HandledOn, AlikeOn
<1> QED BY <1>1, <1>3, <1>4

\* A directive becomes the current one.
LEMMA HandleNowIs ==
  ASSUME NEW s, AgentTypeOK(s), NEW d \in Directives
  PROVE  /\ AgentTypeOK(HandleNow(s, d)) /\ HandleNow(s, d).current = d
         /\ Aside([s EXCEPT !.current = d], HandleNow(s, d))
<1> DEFINE c == [s EXCEPT !.current = d]
           t == HandleNow(s, d)
<1>1. AgentTypeOK(c)
  <2>1. d \in Directives \cup {None}
    OBVIOUS
  <2> QED BY <2>1, Updates, Zenon
<1>2. DOMAIN s = Fields /\ DOMAIN c = Fields /\ Append(c.focusTasks, "acquire") \in Seq({"acquire", "release"})
  BY <1>1 DEF AgentTypeOK
<1>3. t = [c EXCEPT !.focusTasks = Append(c.focusTasks, "acquire")]
  BY <1>2 DEF HandleNow, Fields
<1>4. AgentTypeOK([c EXCEPT !.focusTasks = Append(c.focusTasks, "acquire")])
  BY <1>1, <1>2, Updates, Zenon
<1>5. c.current = d
  BY <1>2 DEF Fields
<1> HIDE DEF c, t
<1>6. Aside(c, t)
  BY <1>2, <1>3, <1>4 DEF Aside, Fields
<1> QED BY <1>5, <1>6 DEF Aside, c, t

LEMMA QueuedHandled ==
  ASSUME NEW s, AgentTypeOK(s), NEW d \in Directives, FrontHolds(s)
  PROVE  Handled(s, Queued(s, d), d) /\ Alike(s, Queued(s, d))
<1> DEFINE q == [s EXCEPT !.queue = Append(@, d)]
           t == Queued(s, d)
<1>1. s.queue \in Seq(Directives) /\ DOMAIN s = Fields
  BY DEF AgentTypeOK
<1>2. q = [s EXCEPT !.queue = Append(s.queue, d)] /\ Append(s.queue, d) \in Seq(Directives)
  BY <1>1 DEF Fields
<1>3. AgentTypeOK(q)
  <2>1. AgentTypeOK([s EXCEPT !.queue = Append(s.queue, d)])
    BY <1>2, Updates, Zenon
  <2> QED BY <1>2, <2>1
<1>4. /\ q.queue = Append(s.queue, d) /\ q.tasks = s.tasks /\ q.current = s.current /\ q.mapped = s.mapped
      /\ q.state = s.state /\ q.desired = s.desired /\ q.source = s.source /\ q.player = s.player
      /\ q.disturbed = s.disturbed /\ q.again = s.again
  BY <1>1 DEF Fields
<1>5. Elements(q.queue) \subseteq Elements(s.queue) \cup {d}
  BY <1>1, <1>4 DEF Elements
<1>6. t = IF s.queue = << >> THEN HandleNow(q, d) ELSE q
  BY DEF Queued
<1> HIDE DEF q
<1>7. CASE s.queue # << >>
  <2>1. t = q
    BY <1>6, <1>7
  <2> HIDE DEF t
  <2>2. Append(s.queue, d) # << >> /\ Head(Append(s.queue, d)) = Head(s.queue)
    BY <1>1, <1>7
  <2>3. FrontHolds(q)
    BY <2>2, <1>4 DEF FrontHolds
  <2>4. Handled(s, q, d)
    BY <2>3, <1>3, <1>4, <1>5 DEF Handled
  <2>5. Alike(s, q)
    BY <1>4, Zenon DEF Alike
  <2> QED BY <2>1, <2>4, <2>5 DEF t
<1>8. CASE s.queue = << >>
  <2> DEFINE c == [q EXCEPT !.current = d]
  <2>1. t = HandleNow(q, d)
    BY <1>6, <1>8
  <2> HIDE DEF t
  <2>2. AgentTypeOK(t) /\ t.current = d /\ Aside(c, t)
    BY <2>1, <1>3, HandleNowIs
  <2>3. DOMAIN q = Fields
    BY <1>3 DEF AgentTypeOK
  <2>4. /\ c.queue = q.queue /\ c.tasks = q.tasks /\ c.state = q.state /\ c.desired = q.desired
        /\ c.source = q.source /\ c.player = q.player /\ c.disturbed = q.disturbed /\ c.again = q.again
    BY <2>3 DEF Fields
  <2> HIDE DEF c
  <2>9. q.queue = <<d>>
    BY <1>4, <1>8
  <2>5. /\ t.queue = q.queue /\ t.tasks = s.tasks /\ t.state = s.state /\ t.desired = s.desired
        /\ t.source = s.source /\ t.player = s.player /\ t.disturbed = s.disturbed /\ t.again = s.again
    BY <2>2, <2>4, <1>4 DEF Aside
  <2>6. FrontHolds(t)
    BY <2>2, <2>5, <2>9 DEF FrontHolds
  <2>7. Handled(s, t, d)
    BY <2>2, <2>5, <2>6, <1>5 DEF Handled
  <2>8. Alike(s, t)
    BY <2>5, Zenon DEF Alike
  <2> QED BY <2>7, <2>8 DEF t
<1> QED BY <1>7, <1>8

LEMMA MappedHandled ==
  ASSUME NEW s, AgentTypeOK(s), FrontHolds(s), NEW d \in Directives, d # s.current, NEW X \in SUBSET Directives
  PROVE  LET t == [s EXCEPT !.mapped = @ \cup {d}, !.readers = @ \cup X] IN Handled(s, t, d) /\ Alike(s, t)
<1> DEFINE m == [s EXCEPT !.mapped = s.mapped \cup {d}]
           t == [s EXCEPT !.mapped = @ \cup {d}, !.readers = @ \cup X]
<1>1. DOMAIN s = Fields /\ s.mapped \cup {d} \in SUBSET Directives
  BY DEF AgentTypeOK
<1>2. AgentTypeOK(m)
  BY <1>1, Updates, Zenon
<1>3. DOMAIN m = Fields /\ m.readers \cup X \in SUBSET Directives
  BY <1>2 DEF AgentTypeOK
<1>4. t = [m EXCEPT !.readers = m.readers \cup X]
  BY <1>1, <1>3 DEF Fields
<1>5. AgentTypeOK(t)
  <2>1. AgentTypeOK([m EXCEPT !.readers = m.readers \cup X])
    BY <1>2, <1>3, Updates, Zenon
  <2> QED BY <2>1, <1>4
<1>6. /\ t.tasks = s.tasks /\ t.queue = s.queue /\ t.current = s.current /\ t.mapped = s.mapped \cup {d}
      /\ t.state = s.state /\ t.desired = s.desired /\ t.source = s.source /\ t.player = s.player
      /\ t.disturbed = s.disturbed /\ t.again = s.again
  BY <1>1 DEF Fields
<1> HIDE DEF t
<1>7. Handled(s, t, d)
  BY <1>5, <1>6 DEF Handled, FrontHolds
<1>8. Alike(s, t)
  BY <1>6, Zenon DEF Alike
<1> QED BY <1>7, <1>8 DEF t

\* A directive that is neither current nor in the queue is put into the map, or has failed.
LEMMA PreHandledHandled ==
  ASSUME NEW s, AgentTypeOK(s), FrontHolds(s), NEW d \in Directives, d # s.current, d \notin Elements(s.queue),
         NEW payload \in Payloads
  PROVE  Handled(s, PreHandled(s, d, payload), d) /\ Alike(s, PreHandled(s, d, payload))
<1> DEFINE f == Failed(s, d)
           t == PreHandled(s, d, payload)
<1>1. Handled(s, f, None) /\ Handled(s, f, d) /\ Alike(s, f)
  BY FailedHandled
<1>2. f.current # d /\ AgentTypeOK(f) /\ FrontHolds(f) /\ DOMAIN f = Fields
  BY <1>1, SpeechAssumption DEF Handled, AgentTypeOK
<1> HIDE DEF f
<1>3. CASE payload = "good"
  <2> DEFINE m == [s EXCEPT !.mapped = @ \cup {d}, !.readers = @ \cup {d}]
  <2>1. t = m
    BY <1>3 DEF PreHandled
  <2>2. Handled(s, m, d) /\ Alike(s, m)
    BY MappedHandled
  <2> HIDE DEF m, t
  <2> QED BY <2>1, <2>2 DEF t
<1>4. CASE payload = "bad"
  BY <1>4, <1>1 DEF PreHandled, f
<1>5. CASE payload = "unknownFormat"
  <2> DEFINE m == [f EXCEPT !.mapped = @ \cup {d}, !.readers = @ \cup {d}]
  <2>1. t = m
    BY <1>5 DEF PreHandled, f
  <2>2. Handled(f, m, d) /\ Alike(f, m)
    BY <1>2, MappedHandled
  <2> HIDE DEF m, t
  <2> QED BY <2>1, <2>2, <1>1, HandledOn, AlikeOn DEF t
<1>6. CASE payload = "unreadable"
  <2> DEFINE m == [f EXCEPT !.mapped = @ \cup {d}, !.readers = @ \cup {}]
  <2>1. t = [f EXCEPT !.mapped = @ \cup {d}]
    BY <1>6 DEF PreHandled, f
  <2>2. Handled(f, m, d) /\ Alike(f, m)
    BY <1>2, MappedHandled
  <2>3. m = [f EXCEPT !.mapped = @ \cup {d}]
    BY <1>2 DEF Fields, AgentTypeOK
  <2> HIDE DEF m, t
  <2> QED BY <2>1, <2>2, <2>3, <1>1, HandledOn, AlikeOn DEF t
<1> QED BY <1>3, <1>4, <1>5, <1>6 DEF Payloads

\* A directive that is not the current one is taken out of the queue, behind the current one.
LEMMA CancelledWaitingHandled ==
  ASSUME NEW s, AgentTypeOK(s), FrontHolds(s), NEW d \in Directives, ~IsCurrent(s, d)
  PROVE  Handled(s, CancelledWaiting(s, d), d) /\ Alike(s, CancelledWaiting(s, d))
<1> DEFINE c == IF d \in s.mapped THEN Cleared(s, {d}) ELSE s
           m == [c EXCEPT !.mapped = c.mapped \ {d}]
           k == [m EXCEPT !.known = m.known \ {d}]
           q == [k EXCEPT !.queue = RemoveFirst(k.queue, d)]
           t == CancelledWaiting(s, d)
<1>1. Aside(s, c)
  BY ClearedAside DEF Aside
<1>2. t = [c EXCEPT !.mapped = @ \ {d}, !.known = @ \ {d}, !.queue = RemoveFirst(@, d)]
  BY DEF CancelledWaiting
<1> HIDE DEF c, t
<1>3. AgentTypeOK(c) /\ DOMAIN c = Fields /\ c.mapped \ {d} \in SUBSET Directives
  BY <1>1 DEF Aside, AgentTypeOK
<1>4. AgentTypeOK(m)
  BY <1>3, Updates, Zenon
<1>5. DOMAIN m = Fields /\ m.known \ {d} \in SUBSET Directives
  BY <1>4 DEF AgentTypeOK
<1>6. AgentTypeOK(k)
  BY <1>4, <1>5, Updates, Zenon
<1>7. DOMAIN k = Fields /\ k.queue \in Seq(Directives)
  BY <1>6 DEF AgentTypeOK
<1>8. k.queue = s.queue /\ s.queue \in Seq(Directives)
  BY <1>1, <1>3, <1>5, <1>7 DEF Aside, Fields
<1> DEFINE r == RemoveFirst(s.queue, d)
<1>9. /\ r \in Seq(Directives) /\ Elements(r) \subseteq Elements(s.queue)
      /\ s.queue # << >> /\ Head(s.queue) # d => r # << >> /\ Head(r) = Head(s.queue)
  BY <1>8, RemovedFirst
<1> HIDE DEF r
<1>10. q = [k EXCEPT !.queue = r]
  BY <1>8 DEF r
<1>11. AgentTypeOK(q)
  <2>1. AgentTypeOK([k EXCEPT !.queue = r])
    BY <1>6, <1>9, Updates, Zenon
  <2> QED BY <1>10, <2>1
<1>12. t = q
  BY <1>2, <1>3, <1>5, <1>7 DEF Fields
<1>13. /\ q.queue = r /\ q.mapped = s.mapped \ {d} /\ q.tasks = s.tasks /\ q.current = s.current
       /\ q.state = s.state /\ q.desired = s.desired /\ q.source = s.source /\ q.player = s.player
       /\ q.disturbed = s.disturbed /\ q.again = s.again
  BY <1>1, <1>3, <1>5, <1>7, <1>10 DEF Aside, Fields
<1> HIDE DEF q
<1>14. FrontHolds(q)
  BY <1>9, <1>13 DEF FrontHolds, IsCurrent
<1>15. Handled(s, q, d)
  BY <1>9, <1>11, <1>13, <1>14 DEF Handled
<1>16. Alike(s, q)
  BY <1>13, Zenon DEF Alike
<1> QED BY <1>12, <1>15, <1>16 DEF t

\* What is spoken is stopped.
LEMMA CancelledCurrentHandled ==
  ASSUME NEW s, AgentTypeOK(s), FrontHolds(s), NEW d \in Directives
  PROVE  Handled(s, CancelledCurrent(s, d), d) /\ Alike(s, CancelledCurrent(s, d))
<1> DEFINE f == [s EXCEPT !.desired = "FINISHED"]
           c == [f EXCEPT !.completes = f.completes \ {d}]
           t == CancelledCurrent(s, d)
<1>1. CASE s.desired = "FINISHED"
  <2>1. Aside(s, s)
    BY DEF Aside
  <2> QED BY <1>1, <2>1, AsideHandled DEF CancelledCurrent
<1>2. CASE s.desired # "FINISHED"
  <2>1. AgentTypeOK(f) /\ DOMAIN s = Fields
    <3>1. "FINISHED" \in {"FINISHED", "PLAYING"}
      OBVIOUS
    <3>2. AgentTypeOK(f)
      BY <3>1, Updates, Zenon
    <3> QED BY <3>2 DEF AgentTypeOK
  <2>2. /\ f.tasks = s.tasks /\ f.queue = s.queue /\ f.current = s.current /\ f.mapped = s.mapped
        /\ f.state = s.state /\ f.desired = "FINISHED" /\ f.source = s.source /\ f.player = s.player
        /\ f.disturbed = s.disturbed /\ f.again = s.again /\ f.halted = s.halted
    BY <2>1 DEF Fields
  <2>3. t = IF Speaks(s) THEN StopPlaying([f EXCEPT !.completes = @ \ {d}]) ELSE f
    BY <1>2 DEF CancelledCurrent
  <2> HIDE DEF f, t
  <2>4. Handled(s, f, d)
    BY <2>1, <2>2 DEF Handled, FrontHolds
  <2>5. Alike(s, f)
    BY <2>2, Zenon DEF Alike
  <2>6. DOMAIN f = Fields /\ f.completes \ {d} \in SUBSET Directives
    BY <2>1 DEF AgentTypeOK
  <2>7. AgentTypeOK(c)
    BY <2>1, <2>6, Updates, Zenon
  <2>8. c = [f EXCEPT !.completes = @ \ {d}]
    BY <2>6 DEF Fields
  <2>9. Aside(f, c)
    BY <2>6, <2>7 DEF Aside, Fields
  <2> HIDE DEF c
  <2>10. Handled(f, c, d) /\ Alike(f, c)
    BY <2>9, <2>4, AsideHandled DEF Handled
  <2>11. Handled(c, StopPlaying(c), d) /\ Alike(c, StopPlaying(c))
    BY <2>10, StopHandled DEF Handled
  <2>12. Handled(s, StopPlaying(c), d) /\ Alike(s, StopPlaying(c))
    BY <2>4, <2>5, <2>10, <2>11, HandledOn, AlikeOn
  <2> QED BY <2>3, <2>4, <2>5, <2>8, <2>12 DEF t
<1> QED BY <1>1, <1>2

LEMMA CancelledHandled ==
  ASSUME NEW s, AgentTypeOK(s), FrontHolds(s), NEW d \in Directives
  PROVE  Handled(s, Cancelled(s, d), d) /\ Alike(s, Cancelled(s, d))
BY CancelledWaitingHandled, CancelledCurrentHandled DEF Cancelled

\* A change of the focus that the agent knows of, and a call of the focus manager.
LEMMA FocusAside ==
  ASSUME NEW s, AgentTypeOK(s)
  PROVE  Aside(s, [s EXCEPT !.focus = "NONE", !.focusTasks = Append(@, "release")])
<1> DEFINE f == [s EXCEPT !.focus = "NONE"]
           t == [f EXCEPT !.focusTasks = Append(f.focusTasks, "release")]
<1>1. AgentTypeOK(f)
  <2>1. "NONE" \in {"NONE", "FOREGROUND"}
    OBVIOUS
  <2> QED BY <2>1, Updates, Zenon
<1>2. DOMAIN s = Fields /\ DOMAIN f = Fields /\ Append(f.focusTasks, "release") \in Seq({"acquire", "release"})
  BY <1>1 DEF AgentTypeOK
<1>3. AgentTypeOK(t)
  BY <1>1, <1>2, Updates, Zenon
<1>4. t = [s EXCEPT !.focus = "NONE", !.focusTasks = Append(@, "release")]
  BY <1>2 DEF Fields
<1>5. Aside(s, t)
  BY <1>2, <1>3 DEF Aside, Fields
<1> QED BY <1>4, <1>5

LEMMA IdledHandled ==
  ASSUME NEW s, AgentTypeOK(s), FrontHolds(s)
  PROVE  Handled(s, Idled(s), None) /\ Alike(s, Idled(s))
<1>1. Aside(s, Idled(s))
  <2>1. Aside(s, s)
    BY DEF Aside
  <2> QED BY <2>1, FocusAside DEF Idled
<1> QED BY <1>1, AsideHandled

LEMMA ErrorDisturbs ==
  ASSUME NEW s, AgentTypeOK(s), s.current # None
  PROVE  PlaybackError(s).disturbed = TRUE /\ PlaybackError(s).current = None
<1> DEFINE f == Cleared(Result(Reset(s), Elements(s.queue), "failed"), Elements(s.queue))
           t == PlaybackError(s)
<1>1. t = [f EXCEPT !.state = "FINISHED", !.focus = "NONE", !.focusTasks = Append(@, "release"),
                    !.source = None, !.queue = << >>, !.known = @ \ Elements(s.queue), !.disturbed = TRUE]
  BY DEF PlaybackError
<1>2. DOMAIN f = DOMAIN s /\ DOMAIN s = Fields
  BY DEF Cleared, Result, Reset, AgentTypeOK
<1>3. f.current = None
  BY <1>2 DEF Cleared, Result, Reset, Fields
<1> HIDE DEF f, t
<1>4. t.disturbed = TRUE /\ t.current = None
  BY <1>1, <1>2, <1>3 DEF Fields
<1> QED BY <1>4 DEF t

\* stopPlaying() changes what is current by an error at most.
LEMMA StopKeepsCurrent ==
  ASSUME NEW s, AgentTypeOK(s)
  PROVE  StopPlaying(s).current \in {s.current, None}
<1>1. PlaybackError(s).current \in {s.current, None}
  <2>1. CASE s.current = None
    BY <2>1 DEF PlaybackError
  <2> QED BY <2>1, ErrorDisturbs
<1>2. DOMAIN s = Fields
  BY DEF AgentTypeOK
<1>3. [s EXCEPT !.stopping = TRUE, !.player.does = IF @ = "play" THEN "stop" ELSE "startAndStop"].current = s.current
  BY <1>2 DEF Fields
<1> QED BY <1>1, <1>3 DEF StopPlaying

\* A task is put behind the others.
PostedAs(s, t, x) ==
  /\ AgentTypeOK(t) /\ t.tasks = Append(s.tasks, x) /\ t.queue = s.queue /\ t.current = s.current /\ t.mapped = s.mapped
  /\ t.state = s.state /\ t.desired = s.desired /\ t.source = s.source /\ t.player = s.player
  /\ t.disturbed = s.disturbed /\ t.again = s.again /\ t.halted = s.halted

OwnTask(op) == [op |-> op, directive |-> None]

LEMMA PostedIs ==
  ASSUME NEW s, AgentTypeOK(s), NEW op, NEW d, [op |-> op, directive |-> d] \in AgentTasks
  PROVE  PostedAs(s, Posted(s, op, d), [op |-> op, directive |-> d])
<1> DEFINE x == [op |-> op, directive |-> d]
           t == [s EXCEPT !.tasks = Append(s.tasks, x)]
<1> HIDE DEF x
<1>1. DOMAIN s = Fields /\ s.tasks \in Seq(AgentTasks)
  BY DEF AgentTypeOK
<1>2. Append(s.tasks, x) \in Seq(AgentTasks)
  BY <1>1 DEF x
<1>3. AgentTypeOK(t)
  BY <1>2, Updates, Zenon
<1>4. Posted(s, op, d) = t
  BY <1>1 DEF Posted, Fields, x
<1>5. PostedAs(s, t, x)
  BY <1>1, <1>3 DEF PostedAs, Fields
<1> QED BY <1>4, <1>5 DEF x

LEMMA OwnTasks == \A op \in OwnOps : OwnTask(op) \in AgentTasks
BY DEF OwnTask, AgentTasks

\* What the player tells is a task for the agent, or, in doShutdown(), nothing.
LEMMA CallbackIs ==
  ASSUME NEW s, AgentTypeOK(s), NEW op \in {"started", "finished", "error"}
  PROVE  \/ shutdown # "no" /\ Callback(s, op) = s
         \/ PostedAs(s, Callback(s, op), OwnTask(op))
         \/ PostedAs(s, Callback(s, op), OwnTask("error"))
<1>1. PostedAs(s, Posted(s, op, None), OwnTask(op)) /\ PostedAs(s, Posted(s, "error", None), OwnTask("error"))
  BY PostedIs, OwnTasks DEF OwnTask, OwnOps
<1> QED BY <1>1 DEF Callback

\* Nothing but the player, and what it may tell.
Told(s, t) ==
  /\ AgentTypeOK(t) /\ t.queue = s.queue /\ t.current = s.current /\ t.mapped = s.mapped
  /\ t.tasks = s.tasks \/ \E op \in {"started", "finished", "error"} : t.tasks = Append(s.tasks, OwnTask(op))
  /\ t.state = s.state /\ t.desired = s.desired /\ t.source = s.source
  /\ t.disturbed = s.disturbed /\ t.again = s.again /\ t.halted = s.halted

\* It tells of op, or of an error.
TellsOf(s, t, op) ==
  \/ shutdown # "no" /\ t.tasks = s.tasks
  \/ t.tasks = Append(s.tasks, OwnTask(op)) \/ t.tasks = Append(s.tasks, OwnTask("error"))

LEMMA ToldIs ==
  ASSUME NEW s, AgentTypeOK(s), NEW op \in {"started", "finished", "error"}, NEW p \in PlayerType, NEW t,
         t = [Callback(s, op) EXCEPT !.player = p]
  PROVE  Told(s, t) /\ t.player = p /\ TellsOf(s, t, op)
<1>1. PICK c : c = Callback(s, op)
  OBVIOUS
<1>2. \/ shutdown # "no" /\ c = s
      \/ PostedAs(s, c, OwnTask(op)) \/ PostedAs(s, c, OwnTask("error"))
  BY <1>1, CallbackIs
<1>3. AgentTypeOK(c) /\ DOMAIN c = Fields
  BY <1>2 DEF PostedAs, AgentTypeOK
<1>4. AgentTypeOK([c EXCEPT !.player = p])
  BY <1>3, Updates, Zenon
<1>5. t = [c EXCEPT !.player = p]
  BY <1>1
<1>6. /\ AgentTypeOK(t) /\ t.player = p /\ t.tasks = c.tasks /\ t.queue = c.queue /\ t.current = c.current
      /\ t.mapped = c.mapped /\ t.state = c.state /\ t.desired = c.desired /\ t.source = c.source
      /\ t.disturbed = c.disturbed /\ t.again = c.again /\ t.halted = c.halted
  BY <1>3, <1>4, <1>5 DEF Fields
<1> QED BY <1>2, <1>6 DEF Told, PostedAs, TellsOf

LEMMA DiscardedIs ==
  ASSUME NEW s, AgentTypeOK(s)
  PROVE  /\ Told(s, Discarded(s)) /\ Discarded(s).player = Silent
         /\ s.player = Silent => Discarded(s).tasks = s.tasks
<1> DEFINE t == Discarded(s)
<1>1. Silent \in PlayerType
  BY DEF Silent, PlayerType
<1>2. CASE s.player = Silent
  <2>1. t = [s EXCEPT !.player = Silent]
    BY <1>2 DEF Discarded
  <2>2. AgentTypeOK([s EXCEPT !.player = Silent])
    BY <1>1, Updates, Zenon
  <2>3. DOMAIN s = Fields
    BY DEF AgentTypeOK
  <2>4. /\ AgentTypeOK(t) /\ t.player = Silent /\ t.tasks = s.tasks /\ t.queue = s.queue /\ t.current = s.current
        /\ t.mapped = s.mapped /\ t.state = s.state /\ t.desired = s.desired /\ t.source = s.source
        /\ t.disturbed = s.disturbed /\ t.again = s.again /\ t.halted = s.halted
    BY <2>1, <2>2, <2>3 DEF Fields
  <2> HIDE DEF t
  <2> QED BY <2>4 DEF Told, t
<1>3. CASE s.player # Silent
  <2>1. t = [Callback(s, "finished") EXCEPT !.player = Silent]
    BY <1>3 DEF Discarded
  <2> HIDE DEF t
  <2>2. Told(s, t) /\ t.player = Silent
    BY <2>1, <1>1, ToldIs
  <2> QED BY <2>2, <1>3 DEF t
<1> QED BY <1>2, <1>3

\* startPlaying(): what is current stays, or all has failed; the player is heard of at most once.
Restarted(s, t) ==
  /\ AgentTypeOK(t) /\ FrontHolds(t)
  /\ Elements(t.queue) \subseteq Elements(s.queue) /\ t.current \in {s.current, None}
  /\ t.tasks = s.tasks \/ \E op \in {"started", "finished", "error"} : t.tasks = Append(s.tasks, OwnTask(op))

\* A player that is silent is to play the current directive, if nothing goes wrong.
Plays(s, t) ==
  t.halted = "no" /\ ~t.disturbed /\ ~t.again =>
    /\ ~s.disturbed /\ ~s.again /\ s.source = None
    /\ t.source # None /\ t.state = s.state /\ t.desired = s.desired
    /\ s.player = Silent => t.tasks = s.tasks

LEMMA CrashedIs ==
  ASSUME NEW s, AgentTypeOK(s)
  PROVE  /\ AgentTypeOK(Crashed(s)) /\ Crashed(s).halted = "crashed"
         /\ Crashed(s).tasks = s.tasks /\ Crashed(s).queue = s.queue
         /\ Crashed(s).current = s.current /\ Crashed(s).mapped = s.mapped
<1>1. "crashed" \in {"no", "crashed", "deadlocked"}
  OBVIOUS
<1>2. AgentTypeOK([s EXCEPT !.halted = "crashed"])
  BY <1>1, Updates, Zenon
<1>3. DOMAIN s = Fields
  BY DEF AgentTypeOK
<1> QED BY <1>2, <1>3 DEF Crashed, Fields

LEMMA StartPlayingIs ==
  ASSUME NEW s, AgentTypeOK(s), FrontHolds(s), NEW fails \in BOOLEAN
  PROVE  Restarted(s, StartPlaying(s, fails)) /\ Plays(s, StartPlaying(s, fails))
<1> DEFINE d == s.current
           p == Discarded(s)
           r == [p EXCEPT !.readers = p.readers \ {d}]
           u == [r EXCEPT !.again = IF s.source = None THEN r.again ELSE TRUE]
           n == [u EXCEPT !.source = None]
           t == StartPlaying(s, fails)
<1>1. Told(s, p) /\ p.player = Silent /\ (s.player = Silent => p.tasks = s.tasks)
  BY DiscardedIs
<1>2. d \in Directives \cup {None}
  BY DEF AgentTypeOK
<1>3. /\ d = None => t = Crashed(s)
      /\ d # None /\ fails => t = PlaybackError([[p EXCEPT !.readers = @ \ {d}, !.again = IF s.source = None THEN @ ELSE TRUE] EXCEPT !.source = None])
      /\ d # None /\ ~fails => t = [[p EXCEPT !.readers = @ \ {d}, !.again = IF s.source = None THEN @ ELSE TRUE] EXCEPT
            !.source = d, !.stopping = FALSE,
            !.player = [source |-> d, does |-> IF d \in s.readers THEN "start" ELSE "wait"]]
  BY DEF StartPlaying
<1> HIDE DEF d, p, t
<1>4. AgentTypeOK(p) /\ DOMAIN p = Fields /\ p.readers \ {d} \in SUBSET Directives
  BY <1>1 DEF Told, AgentTypeOK
<1>5. AgentTypeOK(r)
  BY <1>4, Updates, Zenon
<1>6. DOMAIN r = Fields /\ (IF s.source = None THEN r.again ELSE TRUE) \in BOOLEAN
  BY <1>5 DEF AgentTypeOK
<1>7. AgentTypeOK(u)
  BY <1>5, <1>6, Updates, Zenon
<1>8. u = [p EXCEPT !.readers = @ \ {d}, !.again = IF s.source = None THEN @ ELSE TRUE]
  BY <1>4, <1>6 DEF Fields
<1>9. /\ u.tasks = p.tasks /\ u.queue = s.queue /\ u.current = s.current /\ u.mapped = s.mapped
      /\ u.state = s.state /\ u.desired = s.desired /\ u.disturbed = s.disturbed /\ DOMAIN u = Fields
      /\ u.again = IF s.source = None THEN s.again ELSE TRUE
  BY <1>1, <1>4, <1>6 DEF Told, Fields
<1> HIDE DEF u
<1>10. CASE d = None
  <2>1. t = Crashed(s)
    BY <1>3, <1>10
  <2> QED BY <2>1, CrashedIs DEF Restarted, Plays, FrontHolds, t
<1>11. CASE d # None /\ fails
  <2>1. t = PlaybackError(n)
    BY <1>3, <1>8, <1>11
  <2>2. AgentTypeOK(n)
    <3>1. None \in Directives \cup {None}
      OBVIOUS
    <3> QED BY <3>1, <1>7, Updates, Zenon
  <2>3. n.tasks = p.tasks /\ n.queue = s.queue /\ n.current = s.current /\ n.mapped = s.mapped
    BY <1>9 DEF Fields
  <2> HIDE DEF n
  <2>4. FrontHolds(n) /\ n.current # None
    BY <2>3, <1>11 DEF FrontHolds, d
  <2>5. Handled(n, t, None) /\ t.disturbed = TRUE /\ t.current = None
    BY <2>1, <2>2, <2>4, ErrorHandled, ErrorDisturbs
  <2>6. Elements(t.queue) \subseteq Elements(s.queue)
    <3>1. t.queue \in Seq(Directives)
      BY <2>5 DEF Handled, AgentTypeOK
    <3>2. None \notin Elements(t.queue)
      BY <3>1, SpeechAssumption DEF Elements
    <3> QED BY <3>2, <2>5, <2>3 DEF Handled
  <2>7. t.current \in {s.current, None}
    BY <2>5
  <2>8. Restarted(s, t)
    BY <1>1, <2>3, <2>5, <2>6, <2>7 DEF Restarted, Handled, Told
  <2>9. Plays(s, t)
    BY <2>5, Zenon DEF Plays
  <2> QED BY <2>8, <2>9 DEF t
<1>12. CASE d # None /\ ~fails
  <2> DEFINE y == [source |-> d, does |-> IF d \in s.readers THEN "start" ELSE "wait"]
             o == [u EXCEPT !.source = d]
             g == [o EXCEPT !.stopping = FALSE]
             h == [g EXCEPT !.player = y]
  <2>1. y \in PlayerType
    BY <1>2 DEF PlayerType
  <2> HIDE DEF y
  <2>2. AgentTypeOK(o)
    BY <1>7, <1>2, Updates, Zenon
  <2>3. AgentTypeOK(g)
    <3>1. FALSE \in BOOLEAN
      OBVIOUS
    <3> QED BY <3>1, <2>2, Updates, Zenon
  <2>4. AgentTypeOK(h)
    BY <2>1, <2>3, Updates, Zenon
  <2>5. t = h
    BY <1>3, <1>8, <1>12 DEF y
  <2>6. /\ h.tasks = p.tasks /\ h.queue = s.queue /\ h.current = s.current /\ h.mapped = s.mapped
        /\ h.state = s.state /\ h.desired = s.desired /\ h.disturbed = s.disturbed /\ h.source = d
        /\ h.again = IF s.source = None THEN s.again ELSE TRUE
    BY <1>9 DEF Fields
  <2> HIDE DEF h
  <2>7. Restarted(s, h)
    BY <1>1, <2>4, <2>6 DEF Restarted, Told, FrontHolds
  <2>8. Plays(s, h)
    BY <1>1, <1>12, <2>6 DEF Plays
  <2> QED BY <2>5, <2>7, <2>8 DEF t
<1> QED BY <1>10, <1>11, <1>12

\* executeStateChange()
LEMMA StateChangedIs ==
  ASSUME NEW s, AgentTypeOK(s), FrontHolds(s), NEW fails \in BOOLEAN
  PROVE  LET t == StateChanged(s, fails)
         IN /\ Restarted(s, t)
            /\ s.desired = "FINISHED" => Alike(s, t)
            /\ s.desired = "PLAYING" => Plays(s, t)
<1> DEFINE t == StateChanged(s, fails)
           C == IF s.current = None THEN s.completes ELSE s.completes \cup {s.current}
           c == [s EXCEPT !.completes = C]
<1>1. s.desired \in {"FINISHED", "PLAYING"} /\ DOMAIN s = Fields
  BY DEF AgentTypeOK
<1>2. CASE s.desired = "FINISHED"
  <2>1. t = StopPlaying(s)
    BY <1>2 DEF StateChanged
  <2>2. Handled(s, t, None) /\ Alike(s, t)
    BY <2>1, StopHandled
  <2>3. Handled(s, t, s.current)
    <3>1. s.current \in Directives \cup {None}
      BY DEF AgentTypeOK
    <3> QED BY <3>1, <2>1, StopHandled
  <2> HIDE DEF t
  <2>4. Elements(t.queue) \subseteq Elements(s.queue)
    <3>1. t.queue \in Seq(Directives)
      BY <2>2 DEF Handled, AgentTypeOK
    <3>2. None \notin Elements(t.queue)
      BY <3>1, SpeechAssumption DEF Elements
    <3> QED BY <3>2, <2>2 DEF Handled
  <2>5. t.current \in {s.current, None}
    BY <1>2, StopKeepsCurrent DEF t, StateChanged
  <2>6. Restarted(s, t)
    BY <2>2, <2>4, <2>5 DEF Restarted, Handled
  <2> QED BY <2>2, <2>6, <1>2 DEF t
<1>3. CASE s.desired = "PLAYING"
  <2>1. C \in SUBSET Directives
    BY DEF AgentTypeOK
  <2>2. t = StartPlaying(c, fails)
    BY <1>1, <1>3 DEF StateChanged, Fields
  <2> HIDE DEF C
  <2>3. AgentTypeOK(c)
    BY <2>1, Updates, Zenon
  <2>4. Aside(s, c)
    BY <1>1, <2>3 DEF Aside, Fields
  <2> HIDE DEF c, t
  <2>5. FrontHolds(c)
    BY <2>4 DEF Aside, FrontHolds
  <2>6. Restarted(c, t) /\ Plays(c, t)
    BY <2>2, <2>3, <2>5, StartPlayingIs
  <2>7. Restarted(s, t)
    BY <2>4, <2>6 DEF Restarted, Aside
  <2>8. Plays(s, t)
    BY <2>4, <2>6 DEF Plays, Aside
  <2> QED BY <2>7, <2>8, <1>3 DEF t
<1> QED BY <1>1, <1>2, <1>3

\* executePlaybackStarted()
LEMMA StartedIs ==
  ASSUME NEW s, AgentTypeOK(s), FrontHolds(s)
  PROVE  LET t == Started(s)
         IN /\ Handled(s, t, None)
            /\ \/ t = s
               \/ /\ t.state = "PLAYING" /\ t.desired = s.desired /\ t.source = s.source /\ t.player = s.player
                  /\ t.disturbed = s.disturbed /\ t.again = s.again
<1> DEFINE t == [s EXCEPT !.state = "PLAYING"]
<1>1. AgentTypeOK(t)
  <2>1. "PLAYING" \in {"FINISHED", "GAINING_FOCUS", "PLAYING"}
    OBVIOUS
  <2> QED BY <2>1, Updates, Zenon
<1>2. DOMAIN s = Fields
  BY DEF AgentTypeOK
<1>3. /\ t.tasks = s.tasks /\ t.queue = s.queue /\ t.current = s.current /\ t.mapped = s.mapped
      /\ t.state = "PLAYING" /\ t.desired = s.desired /\ t.source = s.source /\ t.player = s.player
      /\ t.disturbed = s.disturbed /\ t.again = s.again
  BY <1>2 DEF Fields
<1>4. Started(s) = IF s.current = None THEN s ELSE t
  BY DEF Started
<1> HIDE DEF t
<1>5. Handled(s, t, None) /\ Handled(s, s, None)
  BY <1>1, <1>3 DEF Handled, FrontHolds
<1> QED BY <1>3, <1>4, <1>5

\* executePlaybackFinished(): the next one in the queue becomes the current one.
LEMMA FinishedIs ==
  ASSUME NEW s, AgentTypeOK(s), FrontHolds(s)
  PROVE  LET t == Finished(s)
         IN /\ Handled(s, t, None)
            /\ \/ t = s \/ t.halted = "crashed"
               \/ /\ t.state = "FINISHED" /\ t.source = None /\ t.desired = s.desired /\ t.player = s.player
                  /\ t.disturbed = s.disturbed /\ t.again = s.again
<1> DEFINE c == Completed(s)
           r == Reset(c)
           rest == Tail(s.queue)
           f == [r EXCEPT !.state = "FINISHED"]
           q == [f EXCEPT !.queue = rest]
           u == [q EXCEPT !.source = None]
           t == Finished(s)
<1>1. Aside(s, c)
  <2>1. Aside(s, s)
    BY DEF Aside
  <2> QED BY <2>1, ResultAside DEF Completed
<1>2. /\ s.current = None => t = s
      /\ s.current # None /\ s.queue = << >> => t = Crashed(s)
      /\ s.current # None /\ s.queue # << >> /\ rest = << >> => t = [r EXCEPT !.state = "FINISHED", !.queue = rest, !.source = None]
      /\ s.current # None /\ s.queue # << >> /\ rest # << >> =>
           t = HandleNow([r EXCEPT !.state = "FINISHED", !.queue = rest, !.source = None], Head(rest))
  BY DEF Finished
<1> HIDE DEF c, t
<1>3. AgentTypeOK(c)
  BY <1>1 DEF Aside
<1>4. AgentTypeOK(r) /\ DOMAIN r = Fields
  BY <1>3, ResetIs DEF AgentTypeOK
<1>5. r.tasks = c.tasks /\ r.current = None /\ r.desired = c.desired /\ r.player = c.player
      /\ r.disturbed = c.disturbed /\ r.again = c.again /\ r.mapped \subseteq Directives
  BY <1>3, ResetIs
<1> HIDE DEF r
<1>6. CASE s.current = None
  BY <1>2, <1>6 DEF Handled, t
<1>7. CASE s.current # None /\ s.queue = << >>
  <2>1. t = Crashed(s)
    BY <1>2, <1>7
  <2>2. Handled(s, t, None) /\ t.halted = "crashed"
    BY <2>1, CrashedIs DEF Handled, FrontHolds
  <2> QED BY <2>2 DEF t
<1>8. CASE s.current # None /\ s.queue # << >>
  <2>1. s.queue \in Seq(Directives)
    BY DEF AgentTypeOK
  <2>2. /\ rest \in Seq(Directives) /\ Elements(rest) \subseteq Elements(s.queue)
        /\ rest # << >> => Head(rest) \in Directives /\ Head(rest) \in Elements(s.queue)
    BY <2>1, <1>8 DEF Elements
  <2> HIDE DEF rest
  <2>3. AgentTypeOK(f)
    <3>1. "FINISHED" \in {"FINISHED", "GAINING_FOCUS", "PLAYING"}
      OBVIOUS
    <3> QED BY <3>1, <1>4, Updates, Zenon
  <2>4. AgentTypeOK(q)
    BY <2>2, <2>3, Updates, Zenon
  <2>5. AgentTypeOK(u)
    <3>1. None \in Directives \cup {None}
      OBVIOUS
    <3> QED BY <3>1, <2>4, Updates, Zenon
  <2>6. u = [r EXCEPT !.state = "FINISHED", !.queue = rest, !.source = None]
    BY <1>4 DEF Fields
  <2>7. /\ u.tasks = s.tasks /\ u.queue = rest /\ u.current = None /\ u.mapped \subseteq Directives
        /\ u.state = "FINISHED" /\ u.desired = s.desired /\ u.source = None /\ u.player = s.player
        /\ u.disturbed = s.disturbed /\ u.again = s.again /\ DOMAIN u = Fields
    BY <1>1, <1>4, <1>5 DEF Aside, Fields
  <2> HIDE DEF u
  <2>8. CASE rest = << >>
    <3>1. t = u
      BY <1>2, <1>8, <2>6, <2>8
    <3>2. FrontHolds(u)
      BY <2>7, SpeechAssumption DEF FrontHolds
    <3>3. Handled(s, u, None)
      BY <2>2, <2>5, <2>7, <3>2 DEF Handled
    <3> QED BY <3>1, <3>3, <2>7 DEF t
  <2>9. CASE rest # << >>
    <3> DEFINE d == Head(rest)
               k == [u EXCEPT !.current = d]
    <3>1. t = HandleNow(u, d)
      BY <1>2, <1>8, <2>6, <2>9
    <3>2. AgentTypeOK(t) /\ t.current = d /\ Aside(k, t)
      BY <3>1, <2>2, <2>5, <2>9, HandleNowIs
    <3>3. /\ k.tasks = s.tasks /\ k.queue = rest /\ k.state = "FINISHED" /\ k.desired = s.desired
          /\ k.source = None /\ k.player = s.player /\ k.disturbed = s.disturbed /\ k.again = s.again
      BY <2>7 DEF Fields
    <3> HIDE DEF k
    <3>4. /\ t.tasks = s.tasks /\ t.queue = rest /\ t.state = "FINISHED" /\ t.desired = s.desired
          /\ t.source = None /\ t.player = s.player /\ t.disturbed = s.disturbed /\ t.again = s.again
      BY <3>2, <3>3 DEF Aside
    <3>5. FrontHolds(t)
      BY <3>2, <3>4, <2>9 DEF FrontHolds
    <3>6. Handled(s, t, None)
      BY <3>2, <3>4, <3>5, <2>2, <2>9 DEF Handled
    <3> QED BY <3>4, <3>6 DEF t
  <2> QED BY <2>8, <2>9
<1> QED BY <1>6, <1>7, <1>8

-----------------------------------------------------------------------------
(* The tasks of m_executor *)

LEMMA AgentTaskFits ==
  ASSUME NEW x \in AgentTasks
  PROVE  /\ x.op \in DirectiveOps => x.directive \in Directives
         /\ x.op \notin DirectiveOps => x.directive = None
         /\ x.op \in DirectiveOps \cup OwnOps /\ x.directive \in Directives \cup {None}
BY DEF AgentTasks, DirectiveOps, OwnOps

\* The first task is taken.
LEMMA TakenIs ==
  ASSUME NEW s, AgentTypeOK(s), s.tasks # << >>, NEW t, t = [s EXCEPT !.tasks = Tail(@)]
  PROVE  /\ AgentTypeOK(t) /\ t.tasks = Tail(s.tasks) /\ t.queue = s.queue /\ t.current = s.current /\ t.mapped = s.mapped
         /\ t.state = s.state /\ t.desired = s.desired /\ t.source = s.source /\ t.player = s.player
         /\ t.disturbed = s.disturbed /\ t.again = s.again /\ t.halted = s.halted
<1>1. DOMAIN s = Fields /\ s.tasks \in Seq(AgentTasks)
  BY DEF AgentTypeOK
<1>2. Tail(s.tasks) \in Seq(AgentTasks)
  BY <1>1
<1>3. AgentTypeOK([s EXCEPT !.tasks = Tail(s.tasks)])
  BY <1>2, Updates, Zenon
<1>4. t = [s EXCEPT !.tasks = Tail(s.tasks)]
  BY <1>1 DEF Fields
<1>5. AgentTypeOK(t)
  BY <1>3, <1>4
<1> QED BY <1>1, <1>4, <1>5 DEF Fields

LEMMA TailTasks ==
  ASSUME NEW s, s.tasks \in Seq(AgentTasks), s.tasks # << >>, NEW t, t.tasks = Tail(s.tasks)
  PROVE  /\ \A op : IsPending(t, op) => IsPending(s, op)
         /\ \A a, b : InOrder(s, a, b) => InOrder(t, a, b) /\ (Head(s.tasks).op = b => ~IsPending(t, a))
<1>1. /\ DOMAIN t.tasks = 1..Len(s.tasks) - 1 /\ DOMAIN s.tasks = 1..Len(s.tasks) /\ Len(s.tasks) \in Nat \ {0}
      /\ \A i \in DOMAIN t.tasks : i \in Nat /\ i + 1 \in DOMAIN s.tasks /\ t.tasks[i] = s.tasks[i + 1]
      /\ 1 \in DOMAIN s.tasks /\ Head(s.tasks) = s.tasks[1]
  OBVIOUS
<1>2. ASSUME NEW op, IsPending(t, op) PROVE IsPending(s, op)
  BY <1>1, <1>2 DEF IsPending
<1>3. ASSUME NEW a, NEW b, InOrder(s, a, b) PROVE InOrder(t, a, b) /\ (Head(s.tasks).op = b => ~IsPending(t, a))
  <2>1. InOrder(t, a, b)
    <3> SUFFICES ASSUME NEW i \in DOMAIN t.tasks, NEW j \in DOMAIN t.tasks, t.tasks[i].op = a, t.tasks[j].op = b
                 PROVE  i <= j
      BY DEF InOrder
    <3>1. i + 1 <= j + 1
      BY <1>1, <1>3 DEF InOrder
    <3> QED BY <3>1, <1>1
  <2>2. ASSUME Head(s.tasks).op = b, NEW i \in DOMAIN t.tasks, t.tasks[i].op = a PROVE FALSE
    <3>1. i + 1 <= 1
      BY <1>1, <1>3, <2>2 DEF InOrder
    <3> QED BY <3>1, <1>1
  <2> QED BY <2>1, <2>2 DEF IsPending
<1> QED BY <1>2, <1>3

LEMMA AppendTasks ==
  ASSUME NEW s, s.tasks \in Seq(AgentTasks), NEW x \in AgentTasks, NEW t, t.tasks = Append(s.tasks, x)
  PROVE  /\ \A op : IsPending(t, op) <=> IsPending(s, op) \/ x.op = op
         /\ \A a, b : InOrder(s, a, b) /\ (x.op = a => ~IsPending(s, b)) => InOrder(t, a, b)
<1>1. /\ DOMAIN s.tasks = 1..Len(s.tasks) /\ DOMAIN t.tasks = 1..Len(s.tasks) + 1 /\ Len(s.tasks) \in Nat
      /\ \A i \in DOMAIN s.tasks : i \in DOMAIN t.tasks /\ i <= Len(s.tasks) /\ t.tasks[i] = s.tasks[i]
      /\ t.tasks[Len(s.tasks) + 1] = x
      /\ \A i \in DOMAIN t.tasks : i \in Nat /\ (i \in DOMAIN s.tasks \/ i = Len(s.tasks) + 1)
  OBVIOUS
<1>2. ASSUME NEW op PROVE IsPending(t, op) <=> IsPending(s, op) \/ x.op = op
  BY <1>1 DEF IsPending
<1>3. ASSUME NEW a, NEW b, InOrder(s, a, b), x.op = a => ~IsPending(s, b) PROVE InOrder(t, a, b)
  <2> SUFFICES ASSUME NEW i \in DOMAIN t.tasks, NEW j \in DOMAIN t.tasks, t.tasks[i].op = a, t.tasks[j].op = b
               PROVE  i <= j
    BY DEF InOrder
  <2>1. CASE j = Len(s.tasks) + 1
    BY <2>1, <1>1
  <2>2. CASE j \in DOMAIN s.tasks
    <3>1. IsPending(s, b)
      BY <2>2, <1>1 DEF IsPending
    <3>2. i \in DOMAIN s.tasks
      BY <3>1, <1>1, <1>3
    <3> QED BY <3>2, <2>2, <1>1, <1>3 DEF InOrder
  <2> QED BY <2>1, <2>2, <1>1
<1> QED BY <1>2, <1>3

-----------------------------------------------------------------------------
(* The front of the queue *)

\* What is done next may be about directive d: no later task is to put it into the map.
Heard(s, d) ==
  /\ d \in Directives => asked[d] # "nothing"
  /\ \A i \in DOMAIN s.tasks : s.tasks[i].op \in {"preHandle", "handleImmediately"} => s.tasks[i].directive # d

LEMMA FrontTaken ==
  ASSUME NEW s, AgentTypeOK(s), s.tasks # << >>, FrontHolds(s), NewIsNew(s), Unasked(s),
         NEW t, t = [s EXCEPT !.tasks = Tail(@)]
  PROVE  LET x == Head(s.tasks)
         IN /\ AgentTypeOK(t) /\ FrontHolds(t) /\ NewIsNew(t) /\ Unasked(t)
            /\ Heard(t, x.directive) /\ x.directive \in Directives \cup {None}
            /\ x.op \in {"preHandle", "handleImmediately"} =>
                 x.directive \notin Elements(t.queue) /\ x.directive # t.current
<1> DEFINE x == Head(s.tasks)
<1>1. /\ AgentTypeOK(t) /\ t.tasks = Tail(s.tasks) /\ t.queue = s.queue /\ t.current = s.current /\ t.mapped = s.mapped
  BY TakenIs
<1>2. s.tasks \in Seq(AgentTasks)
  BY DEF AgentTypeOK
<1>3. /\ \A i \in DOMAIN t.tasks : i \in Nat /\ i + 1 \in DOMAIN s.tasks /\ t.tasks[i] = s.tasks[i + 1] /\ 1 < i + 1
      /\ 1 \in DOMAIN s.tasks /\ x = s.tasks[1] /\ x \in AgentTasks
  BY <1>1, <1>2
<1> HIDE DEF x
<1>4. FrontHolds(t)
  BY <1>1 DEF FrontHolds
<1>5. NewIsNew(t)
  <2> SUFFICES ASSUME NEW i \in DOMAIN t.tasks, t.tasks[i].op \in {"preHandle", "handleImmediately"}
               PROVE  /\ t.tasks[i].directive \notin Elements(t.queue) /\ t.tasks[i].directive # t.current
                      /\ \A j \in DOMAIN t.tasks : j < i => t.tasks[j].directive # t.tasks[i].directive
    BY DEF NewIsNew
  <2>1. t.tasks[i].directive \notin Elements(t.queue) /\ t.tasks[i].directive # t.current
    BY <1>1, <1>3 DEF NewIsNew
  <2>2. ASSUME NEW j \in DOMAIN t.tasks, j < i PROVE t.tasks[j].directive # t.tasks[i].directive
    <3>1. j + 1 < i + 1
      BY <2>2, <1>3
    <3> QED BY <3>1, <1>3 DEF NewIsNew
  <2> QED BY <2>1, <2>2
<1>6. Unasked(t)
  BY <1>1, <1>3 DEF Unasked
<1>7. Heard(t, x.directive)
  BY <1>3 DEF Heard, Unasked, NewIsNew
<1>8. x.directive \in Directives \cup {None}
  BY <1>3, AgentTaskFits
<1>9. x.op \in {"preHandle", "handleImmediately"} => x.directive \notin Elements(t.queue) /\ x.directive # t.current
  BY <1>1, <1>3 DEF NewIsNew
<1> QED BY <1>1, <1>4, <1>5, <1>6, <1>7, <1>8, <1>9 DEF x

LEMMA FrontHandled ==
  ASSUME NEW s, AgentTypeOK(s), NewIsNew(s), Unasked(s), NEW d, Heard(s, d), NEW t, Handled(s, t, d)
  PROVE  FrontHolds(t) /\ NewIsNew(t) /\ Unasked(t)
<1>1. s.tasks \in Seq(AgentTasks)
  BY DEF AgentTypeOK
<1>2. \A i \in DOMAIN s.tasks : s.tasks[i].op \in {"preHandle", "handleImmediately"} => s.tasks[i].directive # None
  <2> TAKE i \in DOMAIN s.tasks
  <2>1. s.tasks[i] \in AgentTasks
    BY <1>1
  <2> QED BY <2>1, AgentTaskFits, SpeechAssumption DEF DirectiveOps
<1>3. NewIsNew(t)
  BY <1>2 DEF NewIsNew, Handled, Heard
<1>4. Unasked(t)
  BY SpeechAssumption DEF Unasked, Handled, Heard
<1> QED BY <1>3, <1>4 DEF Handled

\* Nothing comes to the front, and a task that is about no directive is added at most.
LEMMA FrontKept ==
  ASSUME NEW s, AgentTypeOK(s), NewIsNew(s), Unasked(s), NEW t,
         Elements(t.queue) \subseteq Elements(s.queue), t.current \in {s.current, None},
         t.tasks = s.tasks \/ \E op \in OwnOps : t.tasks = Append(s.tasks, OwnTask(op))
  PROVE  NewIsNew(t) /\ Unasked(t)
<1>1. s.tasks \in Seq(AgentTasks)
  BY DEF AgentTypeOK
<1>2. \A i \in DOMAIN s.tasks : s.tasks[i].op \in {"preHandle", "handleImmediately"} => s.tasks[i].directive # None
  <2> TAKE i \in DOMAIN s.tasks
  <2>1. s.tasks[i] \in AgentTasks
    BY <1>1
  <2> QED BY <2>1, AgentTaskFits, SpeechAssumption DEF DirectiveOps
<1>3. CASE t.tasks = s.tasks
  <2>1. NewIsNew(t)
    BY <1>2, <1>3 DEF NewIsNew
  <2>2. Unasked(t)
    BY <1>3, SpeechAssumption DEF Unasked
  <2> QED BY <2>1, <2>2
<1>4. ASSUME NEW op \in OwnOps, t.tasks = Append(s.tasks, OwnTask(op)) PROVE NewIsNew(t) /\ Unasked(t)
  <2>1. OwnTask(op).op = op /\ OwnTask(op).directive = None /\ op \notin {"preHandle", "handleImmediately"}
    BY DEF OwnTask, OwnOps
  <2>2. \A i \in DOMAIN t.tasks : (i \in DOMAIN s.tasks /\ t.tasks[i] = s.tasks[i]) \/ (i = Len(s.tasks) + 1 /\ t.tasks[i] = OwnTask(op))
    BY <1>1, <1>4
  <2>3. \A i, j \in DOMAIN t.tasks : i \in DOMAIN s.tasks /\ j < i => j \in DOMAIN s.tasks
    BY <1>1, <1>4
  <2>4. NewIsNew(t)
    BY <1>2, <2>1, <2>2, <2>3 DEF NewIsNew
  <2>5. Unasked(t)
    BY <2>1, <2>2, SpeechAssumption DEF Unasked
  <2> QED BY <2>4, <2>5
<1> QED BY <1>3, <1>4


LEMMA TakenFits ==
  ASSUME SpeechTypeOK, FrontInv, NEW op, Does(op)
  PROVE  /\ AgentTypeOK(Taken) /\ FrontHolds(Taken) /\ NewIsNew(Taken) /\ Unasked(Taken)
         /\ Heard(Taken, D)
         /\ op \in DirectiveOps => D \in Directives
         /\ op \notin DirectiveOps => D = None
         /\ op \in {"preHandle", "handleImmediately"} => D \notin Elements(Taken.queue) /\ D # Taken.current
<1>1. AgentTypeOK(agent) /\ agent.tasks # << >> /\ Head(agent.tasks).op = op
  BY DEF SpeechTypeOK, Does
<1>2. Head(agent.tasks) \in AgentTasks
  BY <1>1 DEF AgentTypeOK
<1>3. D = Head(agent.tasks).directive /\ Taken = [agent EXCEPT !.tasks = Tail(@)]
  BY DEF D, Taken
<1>4. FrontHolds(agent) /\ NewIsNew(agent) /\ Unasked(agent)
  BY DEF FrontInv
<1> QED BY <1>1, <1>2, <1>3, <1>4, FrontTaken, AgentTaskFits

\* A task makes an agent out of an agent, with the front as it should be.
LEMMA TaskDone ==
  ASSUME SpeechTypeOK, FrontInv, NEW op, Does(op), Handled(Taken, agent', D)
  PROVE  AgentTypeOK(agent') /\ FrontHolds(agent') /\ NewIsNew(agent') /\ Unasked(agent')
<1>1. AgentTypeOK(Taken) /\ NewIsNew(Taken) /\ Unasked(Taken) /\ Heard(Taken, D)
  BY TakenFits
<1>2. AgentTypeOK(agent')
  BY DEF Handled
<1> QED BY <1>1, <1>2, FrontHandled

LEMMA StateChangeDone ==
  ASSUME SpeechTypeOK, FrontInv, NEW op, Does(op), Restarted(Taken, agent')
  PROVE  AgentTypeOK(agent') /\ FrontHolds(agent') /\ NewIsNew(agent') /\ Unasked(agent')
<1>1. AgentTypeOK(Taken) /\ NewIsNew(Taken) /\ Unasked(Taken)
  BY TakenFits
<1> QED BY <1>1, FrontKept DEF Restarted, OwnOps

\* What is left of the state is unchanged by the tasks, or is another event.
LEMMA EventType == ASSUME SpeechTypeOK, Event PROVE events' \in Nat
BY DEF SpeechTypeOK, Event

LEMMA PreHandleDone ==
  ASSUME SpeechTypeOK, FrontInv, NEW payload \in Payloads, NEW op \in {"preHandle", "handleImmediately"}, Does(op)
  PROVE  LET p == PreHandled(Taken, D, payload)
         IN Handled(Taken, p, D) /\ Alike(Taken, p) /\ Handled(Taken, Queued(p, D), D) /\ Alike(Taken, Queued(p, D))
<1> DEFINE p == PreHandled(Taken, D, payload)
<1>1. AgentTypeOK(Taken) /\ FrontHolds(Taken) /\ D \in Directives /\ D \notin Elements(Taken.queue) /\ D # Taken.current
  BY TakenFits DEF DirectiveOps
<1>2. Handled(Taken, p, D) /\ Alike(Taken, p)
  BY <1>1, PreHandledHandled
<1> HIDE DEF p
<1>3. Handled(p, Queued(p, D), D) /\ Alike(p, Queued(p, D))
  BY <1>1, <1>2, QueuedHandled DEF Handled
<1>4. Handled(Taken, Queued(p, D), D) /\ Alike(Taken, Queued(p, D))
  BY <1>2, <1>3, HandledOn, AlikeOn
<1> QED BY <1>2, <1>4 DEF p

LEMMA ExecuteFront ==
  ASSUME SpeechTypeOK, FrontInv, Execute
  PROVE  /\ AgentTypeOK(agent') /\ FrontHolds(agent') /\ NewIsNew(agent') /\ Unasked(agent')
         /\ UNCHANGED <<channel, caller, shutdown, asked>> /\ events' \in Nat
<1>1. ASSUME NEW payload \in Payloads, NEW p, WithPayload(payload, p)
      PROVE  agent' = p /\ UNCHANGED <<channel, caller, shutdown, asked>> /\ events' \in Nat
  BY <1>1, EventType DEF WithPayload, SpeechTypeOK
<1>2. ASSUME OnlyTheAgent PROVE UNCHANGED <<channel, caller, shutdown, asked>> /\ events' \in Nat
  BY <1>2 DEF OnlyTheAgent, SpeechTypeOK
<1>3. ASSUME NEW payload \in Payloads, ExecutePreHandle(payload)
      PROVE  AgentTypeOK(agent') /\ FrontHolds(agent') /\ NewIsNew(agent') /\ Unasked(agent')
             /\ UNCHANGED <<channel, caller, shutdown, asked>> /\ events' \in Nat
  <2>1. Does("preHandle") /\ WithPayload(payload, PreHandled(Taken, D, payload))
    BY <1>3 DEF ExecutePreHandle
  <2>2. Handled(Taken, agent', D)
    BY <1>1, <2>1, PreHandleDone
  <2> QED BY <1>1, <2>1, <2>2, TaskDone
<1>4. ASSUME NEW payload \in Payloads, ExecuteHandleImmediately(payload)
      PROVE  AgentTypeOK(agent') /\ FrontHolds(agent') /\ NewIsNew(agent') /\ Unasked(agent')
             /\ UNCHANGED <<channel, caller, shutdown, asked>> /\ events' \in Nat
  <2>1. Does("handleImmediately") /\ WithPayload(payload, Queued(PreHandled(Taken, D, payload), D))
    BY <1>4 DEF ExecuteHandleImmediately
  <2>2. Handled(Taken, agent', D)
    BY <1>1, <2>1, PreHandleDone
  <2> QED BY <1>1, <2>1, <2>2, TaskDone
<1>5. CASE ExecuteHandle
  <2>1. Does("handle") /\ agent' = Queued(Taken, D) /\ OnlyTheAgent
    BY <1>5 DEF ExecuteHandle
  <2>2. AgentTypeOK(Taken) /\ FrontHolds(Taken) /\ D \in Directives
    BY <2>1, TakenFits DEF DirectiveOps
  <2>3. Handled(Taken, agent', D)
    BY <2>1, <2>2, QueuedHandled
  <2> QED BY <1>2, <2>1, <2>3, TaskDone
<1>6. CASE ExecuteCancel
  <2>1. Does("cancel") /\ agent' = Cancelled(Taken, D) /\ OnlyTheAgent
    BY <1>6 DEF ExecuteCancel
  <2>2. AgentTypeOK(Taken) /\ FrontHolds(Taken) /\ D \in Directives
    BY <2>1, TakenFits DEF DirectiveOps
  <2>3. Handled(Taken, agent', D)
    BY <2>1, <2>2, CancelledHandled
  <2> QED BY <1>2, <2>1, <2>3, TaskDone
<1>7. CASE ExecuteStateChange
  <2>1. Does("stateChange") /\ agent' = StateChanged(Taken, FALSE) /\ OnlyTheAgent
    BY <1>7 DEF ExecuteStateChange
  <2>2. AgentTypeOK(Taken) /\ FrontHolds(Taken)
    BY <2>1, TakenFits
  <2>3. Restarted(Taken, agent')
    BY <2>1, <2>2, StateChangedIs
  <2> QED BY <1>2, <2>1, <2>3, StateChangeDone
<1>8. CASE ExecuteStateChangeFailing
  <2>1. /\ Does("stateChange") /\ agent' = StateChanged(Taken, TRUE)
        /\ Event /\ UNCHANGED <<channel, caller, shutdown, asked>>
    BY <1>8 DEF ExecuteStateChangeFailing
  <2>2. AgentTypeOK(Taken) /\ FrontHolds(Taken)
    BY <2>1, TakenFits
  <2>3. Restarted(Taken, agent')
    BY <2>1, <2>2, StateChangedIs
  <2> QED BY <2>1, <2>3, StateChangeDone, EventType
<1>9. CASE ExecutePlaybackStarted
  <2>1. Does("started") /\ agent' = Started(Taken) /\ OnlyTheAgent
    BY <1>9 DEF ExecutePlaybackStarted
  <2>2. AgentTypeOK(Taken) /\ FrontHolds(Taken) /\ D = None
    BY <2>1, TakenFits DEF DirectiveOps
  <2>3. Handled(Taken, agent', D)
    BY <2>1, <2>2, StartedIs
  <2> QED BY <1>2, <2>1, <2>3, TaskDone
<1>10. CASE ExecutePlaybackFinished
  <2>1. Does("finished") /\ agent' = Finished(Taken) /\ OnlyTheAgent
    BY <1>10 DEF ExecutePlaybackFinished
  <2>2. AgentTypeOK(Taken) /\ FrontHolds(Taken) /\ D = None
    BY <2>1, TakenFits DEF DirectiveOps
  <2>3. Handled(Taken, agent', D)
    BY <2>1, <2>2, FinishedIs
  <2> QED BY <1>2, <2>1, <2>3, TaskDone
<1>11. CASE ExecutePlaybackError
  <2>1. Does("error") /\ agent' = PlaybackError(Taken) /\ OnlyTheAgent
    BY <1>11 DEF ExecutePlaybackError
  <2>2. AgentTypeOK(Taken) /\ FrontHolds(Taken) /\ D = None
    BY <2>1, TakenFits DEF DirectiveOps
  <2>3. Handled(Taken, agent', D)
    BY <2>1, <2>2, ErrorHandled
  <2> QED BY <1>2, <2>1, <2>3, TaskDone
<1>12. CASE ExecuteIdle
  <2>1. Does("idle") /\ agent' = Idled(Taken) /\ OnlyTheAgent
    BY <1>12 DEF ExecuteIdle
  <2>2. AgentTypeOK(Taken) /\ FrontHolds(Taken) /\ D = None
    BY <2>1, TakenFits DEF DirectiveOps
  <2>3. Handled(Taken, agent', D)
    BY <2>1, <2>2, IdledHandled
  <2> QED BY <1>2, <2>1, <2>3, TaskDone
<1> QED BY <1>3, <1>4, <1>5, <1>6, <1>7, <1>8, <1>9, <1>10, <1>11, <1>12 DEF Execute

\* The sequencer asks for a directive that the agent has nothing of, or has it done what it was
\* asked for before.
LEMMA AskedFront ==
  ASSUME SpeechTypeOK, FrontInv, NEW d \in Directives, NEW what \in {"preHandle", "handle", "immediate", "cancel"},
         NEW op \in DirectiveOps, op \in {"preHandle", "handleImmediately"} => asked[d] = "nothing",
         NEW s, Aside(agent, s), Asks(d, what, Posted(s, op, d))
  PROVE  /\ PostedAs(agent, agent', [op |-> op, directive |-> d])
         /\ FrontHolds(agent') /\ NewIsNew(agent') /\ Unasked(agent)'
<1> DEFINE x == [op |-> op, directive |-> d]
<1>1. asked' = [asked EXCEPT ![d] = what] /\ agent' = Posted(s, op, d) /\ asked \in [Directives -> {"nothing", "preHandle", "handle", "immediate", "cancel"}]
  BY DEF Asks, SpeechTypeOK
<1>2. x \in AgentTasks
  BY DEF AgentTasks
<1>3. PostedAs(s, agent', x)
  BY <1>1, <1>2, PostedIs DEF Aside
<1>4. x.op = op /\ x.directive = d
  OBVIOUS
<1> HIDE DEF x
<1>5. PostedAs(agent, agent', x)
  BY <1>3 DEF PostedAs, Aside
<1>6. agent.tasks \in Seq(AgentTasks) /\ agent'.tasks = Append(agent.tasks, x)
  BY <1>5 DEF SpeechTypeOK, AgentTypeOK, PostedAs
<1>7. \A i \in DOMAIN agent'.tasks :
        (i \in DOMAIN agent.tasks /\ agent'.tasks[i] = agent.tasks[i]) \/ (i = Len(agent.tasks) + 1 /\ agent'.tasks[i] = x)
  BY <1>6
<1>8. agent'.queue = agent.queue /\ agent'.current = agent.current /\ agent'.mapped = agent.mapped
  BY <1>5 DEF PostedAs
<1>9. FrontHolds(agent')
  BY <1>8 DEF FrontHolds, FrontInv
<1>10. NewIsNew(agent')
  <2> SUFFICES ASSUME NEW i \in DOMAIN agent'.tasks, agent'.tasks[i].op \in {"preHandle", "handleImmediately"}
               PROVE  /\ agent'.tasks[i].directive \notin Elements(agent'.queue) /\ agent'.tasks[i].directive # agent'.current
                      /\ \A j \in DOMAIN agent'.tasks : j < i => agent'.tasks[j].directive # agent'.tasks[i].directive
    BY DEF NewIsNew
  <2>1. CASE i \in DOMAIN agent.tasks /\ agent'.tasks[i] = agent.tasks[i]
    <3>1. /\ agent.tasks[i].directive \notin Elements(agent.queue) /\ agent.tasks[i].directive # agent.current
          /\ \A j \in DOMAIN agent.tasks : j < i => agent.tasks[j].directive # agent.tasks[i].directive
      BY <2>1 DEF FrontInv, NewIsNew
    <3>2. \A j \in DOMAIN agent'.tasks : j < i => j \in DOMAIN agent.tasks /\ agent'.tasks[j] = agent.tasks[j]
      BY <2>1, <1>6
    <3> QED BY <2>1, <3>1, <3>2, <1>8
  <2>2. CASE i = Len(agent.tasks) + 1 /\ agent'.tasks[i] = x
    <3>1. asked[d] = "nothing"
      BY <2>2, <1>4
    <3>2. d \notin Elements(agent.queue) /\ d # agent.current /\ \A j \in DOMAIN agent.tasks : agent.tasks[j].directive # d
      BY <3>1 DEF FrontInv, Unasked
    <3>3. \A j \in DOMAIN agent'.tasks : j < i => j \in DOMAIN agent.tasks /\ agent'.tasks[j] = agent.tasks[j]
      BY <2>2, <1>6
    <3> QED BY <2>2, <3>2, <3>3, <1>4, <1>8
  <2> QED BY <2>1, <2>2, <1>7
<1>11. Unasked(agent)'
  <2> SUFFICES ASSUME NEW e \in Directives, asked'[e] = "nothing"
               PROVE  /\ e \notin Elements(agent'.queue) /\ e # agent'.current
                      /\ \A i \in DOMAIN agent'.tasks : agent'.tasks[i].directive # e
    BY DEF Unasked
  <2>1. e # d /\ asked[e] = "nothing"
    BY <1>1
  <2> QED BY <2>1, <1>4, <1>7, <1>8 DEF FrontInv, Unasked
<1> QED BY <1>5, <1>9, <1>10, <1>11 DEF x

LEMMA SequencerFront ==
  ASSUME SpeechTypeOK, FrontInv, NEW d \in Directives,
         PreHandleDirective(d) \/ HandleDirective(d) \/ HandleDirectiveImmediately(d) \/ CancelDirective(d)
  PROVE  /\ \E op \in DirectiveOps : PostedAs(agent, agent', [op |-> op, directive |-> d])
         /\ SpeechTypeOK' /\ FrontInv' /\ UNCHANGED <<channel, caller, shutdown>>
<1>1. AgentTypeOK(agent)
  BY DEF SpeechTypeOK
<1>2. Aside(agent, agent)
  BY <1>1 DEF Aside
<1>3. Aside(agent, [agent EXCEPT !.known = @ \cup {d}])
  <2>1. agent.known \cup {d} \in SUBSET Directives /\ DOMAIN agent = Fields
    BY <1>1 DEF AgentTypeOK
  <2>2. AgentTypeOK([agent EXCEPT !.known = agent.known \cup {d}])
    BY <1>1, <2>1, Updates, Zenon
  <2>3. [agent EXCEPT !.known = agent.known \cup {d}] = [agent EXCEPT !.known = @ \cup {d}]
    BY <2>1 DEF Fields
  <2> QED BY <2>1, <2>2, <2>3 DEF Aside, Fields
<1>4. ASSUME NEW what \in {"preHandle", "handle", "immediate", "cancel"}, NEW op \in DirectiveOps,
             op \in {"preHandle", "handleImmediately"} => asked[d] = "nothing",
             NEW s, Aside(agent, s), Asks(d, what, Posted(s, op, d))
      PROVE  /\ \E o \in DirectiveOps : PostedAs(agent, agent', [op |-> o, directive |-> d])
             /\ SpeechTypeOK' /\ FrontInv' /\ UNCHANGED <<channel, caller, shutdown>>
  <2>1. PostedAs(agent, agent', [op |-> op, directive |-> d]) /\ FrontHolds(agent') /\ NewIsNew(agent') /\ Unasked(agent)'
    BY <1>4, AskedFront
  <2>2. asked' = [asked EXCEPT ![d] = what] /\ UNCHANGED <<channel, caller, shutdown, events>>
    BY <1>4 DEF Asks
  <2>3. AgentTypeOK(agent')
    BY <2>1 DEF PostedAs
  <2>4. AgentTypeOK(agent)'
    BY <2>3
  <2>5. SpeechTypeOK'
    BY <2>2, <2>4 DEF SpeechTypeOK
  <2>6. FrontInv'
    BY <2>1 DEF FrontInv
  <2> QED BY <2>1, <2>2, <2>5, <2>6
<1>5. CASE PreHandleDirective(d)
  BY <1>3, <1>4, <1>5 DEF PreHandleDirective, DirectiveOps
<1>6. CASE HandleDirective(d)
  BY <1>2, <1>4, <1>6 DEF HandleDirective, DirectiveOps
<1>7. CASE HandleDirectiveImmediately(d)
  BY <1>2, <1>4, <1>7 DEF HandleDirectiveImmediately, DirectiveOps
<1>8. CASE CancelDirective(d)
  BY <1>2, <1>4, <1>8 DEF CancelDirective, DirectiveOps
<1> QED BY <1>5, <1>6, <1>7, <1>8

\* onFocusChanged() is given a focus: the state is the desired one, or a task is to bring it about.
FocusGiven(s, f) ==
  /\ AgentTypeOK(agent') /\ channel' = f
  /\ agent'.queue = s.queue /\ agent'.current = s.current /\ agent'.mapped = s.mapped
  /\ agent'.source = s.source /\ agent'.player = s.player
  /\ agent'.disturbed = s.disturbed /\ agent'.again = s.again /\ agent'.halted = s.halted
  /\ agent'.desired = IF f = "FOREGROUND" THEN "PLAYING" ELSE "FINISHED"
  /\ \/ /\ agent'.state = s.state /\ s.state = agent'.desired /\ agent'.tasks = s.tasks /\ caller' = caller
     \/ /\ s.state # agent'.desired /\ caller' = "waiting"
        /\ agent'.state = IF f = "FOREGROUND" THEN "GAINING_FOCUS" ELSE s.state
        /\ agent'.tasks = IF shutdown = "done" THEN s.tasks ELSE Append(s.tasks, OwnTask("stateChange"))

LEMMA FocusChangedIs ==
  ASSUME NEW s, AgentTypeOK(s), NEW f \in {"NONE", "FOREGROUND"}, FocusChanged(s, f)
  PROVE  FocusGiven(s, f)
<1> DEFINE desired == IF f = "FOREGROUND" THEN "PLAYING" ELSE "FINISHED"
           a == [s EXCEPT !.focus = f]
           t == [a EXCEPT !.desired = desired]
           g == [t EXCEPT !.state = "GAINING_FOCUS"]
           u == IF f = "FOREGROUND" THEN g ELSE t
<1>1. DOMAIN s = Fields
  BY DEF AgentTypeOK
<1>2. AgentTypeOK(a)
  BY Updates, Zenon
<1>3. desired \in {"FINISHED", "PLAYING"}
  OBVIOUS
<1>4. AgentTypeOK(t)
  BY <1>2, <1>3, Updates, Zenon
<1>5. AgentTypeOK(g)
  <2>1. "GAINING_FOCUS" \in {"FINISHED", "GAINING_FOCUS", "PLAYING"}
    OBVIOUS
  <2> QED BY <2>1, <1>4, Updates, Zenon
<1>6. AgentTypeOK(u)
  BY <1>4, <1>5
<1>7. PostedAs(u, Posted(u, "stateChange", None), OwnTask("stateChange"))
  BY <1>6, PostedIs, OwnTasks DEF OwnTask, OwnOps
<1>8. /\ channel' = f
      /\ \/ s.state = desired /\ agent' = t /\ caller' = caller
         \/ /\ s.state # desired /\ caller' = "waiting"
            /\ agent' = (IF shutdown = "done" THEN u ELSE Posted(u, "stateChange", None))
  <2>1. t = [s EXCEPT !.focus = f, !.desired = desired]
    BY <1>1 DEF Fields
  <2> QED BY <2>1 DEF FocusChanged
<1>9. /\ t.queue = s.queue /\ t.current = s.current /\ t.mapped = s.mapped /\ t.source = s.source /\ t.player = s.player
      /\ t.disturbed = s.disturbed /\ t.again = s.again /\ t.halted = s.halted /\ t.tasks = s.tasks
      /\ t.state = s.state /\ t.desired = desired /\ DOMAIN t = Fields
  BY <1>1 DEF Fields
<1> HIDE DEF t, desired
<1>10. /\ u.queue = s.queue /\ u.current = s.current /\ u.mapped = s.mapped /\ u.source = s.source /\ u.player = s.player
       /\ u.disturbed = s.disturbed /\ u.again = s.again /\ u.halted = s.halted /\ u.tasks = s.tasks
       /\ u.state = (IF f = "FOREGROUND" THEN "GAINING_FOCUS" ELSE s.state) /\ u.desired = desired
  BY <1>9 DEF Fields
<1> HIDE DEF u
<1>11. CASE s.state = desired /\ agent' = t /\ caller' = caller
  BY <1>4, <1>8, <1>9, <1>11 DEF FocusGiven, desired
<1>12. CASE s.state # desired /\ caller' = "waiting" /\ shutdown = "done" /\ agent' = u
  BY <1>6, <1>8, <1>10, <1>12 DEF FocusGiven, desired
<1>13. CASE s.state # desired /\ caller' = "waiting" /\ shutdown # "done" /\ agent' = Posted(u, "stateChange", None)
  BY <1>7, <1>8, <1>10, <1>13 DEF FocusGiven, desired, PostedAs
<1> QED BY <1>8, <1>11, <1>12, <1>13

LEMMA FocusGivenFront ==
  ASSUME SpeechTypeOK, FrontInv, NEW s, Aside(agent, s), NEW f \in {"NONE", "FOREGROUND"}, FocusGiven(s, f)
  PROVE  AgentTypeOK(agent') /\ FrontHolds(agent') /\ NewIsNew(agent') /\ Unasked(agent')
         /\ channel' \in {"NONE", "FOREGROUND"} /\ caller' \in {caller, "waiting"}
<1>1. agent'.queue = agent.queue /\ agent'.current = agent.current /\ agent'.mapped = agent.mapped
  BY DEF FocusGiven, Aside
<1>2. agent'.tasks = agent.tasks \/ \E op \in OwnOps : agent'.tasks = Append(agent.tasks, OwnTask(op))
  BY DEF FocusGiven, Aside, OwnOps
<1>3. AgentTypeOK(agent) /\ FrontHolds(agent) /\ NewIsNew(agent) /\ Unasked(agent)
  BY DEF SpeechTypeOK, FrontInv
<1>4. NewIsNew(agent') /\ Unasked(agent')
  BY <1>1, <1>2, <1>3, FrontKept
<1>5. FrontHolds(agent')
  BY <1>1, <1>3 DEF FrontHolds
<1> QED BY <1>4, <1>5 DEF FocusGiven

\* The state after a step in which the agent has kept its front, and nothing was asked for.
LEMMA InvariantKept ==
  ASSUME SpeechTypeOK, AgentTypeOK(agent'), FrontHolds(agent'), NewIsNew(agent'), Unasked(agent'), asked' = asked,
         channel' \in {"NONE", "FOREGROUND"}, caller' \in {"away", "waiting", "reporting", "stopping"},
         shutdown' \in {"no", "stopped", "failed", "done"}, events' \in Nat
  PROVE  SpeechTypeOK' /\ FrontInv'
<1>1. AgentTypeOK(agent)' /\ FrontHolds(agent)' /\ NewIsNew(agent)'
  BY Zenon
<1>2. Unasked(agent)'
  BY DEF Unasked
<1>3. SpeechTypeOK'
  BY <1>1 DEF SpeechTypeOK
<1>4. FrontInv'
  BY <1>1, <1>2 DEF FrontInv
<1> QED BY <1>3, <1>4

LEMMA ToldFront ==
  ASSUME NEW s, AgentTypeOK(s), FrontHolds(s), NewIsNew(s), Unasked(s), NEW t, Told(s, t)
  PROVE  AgentTypeOK(t) /\ FrontHolds(t) /\ NewIsNew(t) /\ Unasked(t)
<1>1. t.tasks = s.tasks \/ \E op \in OwnOps : t.tasks = Append(s.tasks, OwnTask(op))
  BY DEF Told, OwnOps
<1>2. NewIsNew(t) /\ Unasked(t)
  BY <1>1, FrontKept DEF Told
<1> QED BY <1>2 DEF Told, FrontHolds

\* What the player does, and what it tells of it.
PlayerSays(s, t) ==
  /\ Told(s, t) /\ s.player # Silent
  /\ \/ t.player # Silent /\ \E op \in {"started", "error"} : t.tasks = Append(s.tasks, OwnTask(op))
     \/ t.player = Silent /\ \E op \in {"finished", "error"} : t.tasks = Append(s.tasks, OwnTask(op))
     \/ shutdown # "no"

LEMMA PlayerGoesOnTells ==
  ASSUME SpeechTypeOK, PlayerStarts \/ PlayerFinishes \/ PlayerStops \/ PlayerFails
  PROVE  PlayerSays(agent, agent') /\ events' \in Nat /\ UNCHANGED <<channel, caller, shutdown, asked>>
<1>1. AgentTypeOK(agent)
  BY DEF SpeechTypeOK
<1>2. agent.player \in PlayerType /\ Silent \in PlayerType /\ Silent.does = "nothing"
  BY <1>1 DEF AgentTypeOK, Silent, PlayerType
<1>3. CASE PlayerStarts
  <2>1. PICK p : p = [agent.player EXCEPT !.does = "play"]
    OBVIOUS
  <2>2. agent.player.does = "start" /\ OnlyTheAgent /\ agent' = [Callback(agent, "started") EXCEPT !.player = p]
    BY <1>3, <2>1 DEF PlayerStarts, PlayerDoes
  <2>3. p \in PlayerType /\ p # Silent
    BY <1>2, <2>1 DEF PlayerType
  <2>4. Told(agent, agent') /\ agent'.player = p /\ TellsOf(agent, agent', "started")
    <3>1. "started" \in {"started", "finished", "error"}
      OBVIOUS
    <3> QED BY <3>1, <1>1, <2>2, <2>3, ToldIs
  <2>5. PlayerSays(agent, agent')
    BY <1>2, <2>2, <2>3, <2>4 DEF PlayerSays, TellsOf
  <2> QED BY <2>2, <2>5 DEF OnlyTheAgent, SpeechTypeOK
<1>4. CASE PlayerFinishes \/ PlayerStops
  <2>1. /\ agent.player # Silent /\ OnlyTheAgent
        /\ agent' = [Callback(agent, "finished") EXCEPT !.player = Silent]
    BY <1>2, <1>4 DEF PlayerFinishes, PlayerStops, PlayerDoes
  <2>2. Told(agent, agent') /\ agent'.player = Silent /\ TellsOf(agent, agent', "finished")
    BY <1>1, <1>2, <2>1, ToldIs
  <2>3. PlayerSays(agent, agent')
    BY <2>1, <2>2 DEF PlayerSays, TellsOf
  <2> QED BY <2>1, <2>3 DEF OnlyTheAgent, SpeechTypeOK
<1>5. CASE PlayerFails
  <2>1. /\ agent.player # Silent /\ Event /\ UNCHANGED <<channel, caller, shutdown, asked>>
        /\ agent' = [Callback(agent, "error") EXCEPT !.player = Silent]
    BY <1>5 DEF PlayerFails
  <2>2. Told(agent, agent') /\ agent'.player = Silent /\ TellsOf(agent, agent', "error")
    BY <1>1, <1>2, <2>1, ToldIs
  <2>3. PlayerSays(agent, agent')
    BY <2>1, <2>2 DEF PlayerSays, TellsOf
  <2> QED BY <2>1, <2>3, EventType
<1> QED BY <1>3, <1>4, <1>5

\* What was to be played is stopped before: the player says both.
LEMMA StartsAndStopsTells ==
  ASSUME SpeechTypeOK, PlayerStartsAndStops
  PROVE  /\ \E s : (Told(agent, s) /\ PlayerSays(s, agent') /\ s.player = agent.player
                   /\ (shutdown # "no" \/ \E op \in {"started", "error"} : s.tasks = Append(agent.tasks, OwnTask(op))))
         /\ OnlyTheAgent
<1> DEFINE s == Callback(agent, "started")
<1>1. AgentTypeOK(agent)
  BY DEF SpeechTypeOK
<1>2. /\ agent.player # Silent /\ OnlyTheAgent
      /\ agent' = [Callback(s, "finished") EXCEPT !.player = Silent]
  BY DEF PlayerStartsAndStops, PlayerDoes, Silent
<1>3. \/ shutdown # "no" /\ s = agent
      \/ PostedAs(agent, s, OwnTask("started")) \/ PostedAs(agent, s, OwnTask("error"))
  BY <1>1, CallbackIs
<1> HIDE DEF s
<1>4. /\ Told(agent, s) /\ s.player = agent.player
      /\ (shutdown # "no" \/ \E op \in {"started", "error"} : s.tasks = Append(agent.tasks, OwnTask(op)))
  BY <1>1, <1>3 DEF Told, PostedAs
<1>5. AgentTypeOK(s) /\ Silent \in PlayerType
  BY <1>4 DEF Told, Silent, PlayerType
<1>6. Told(s, agent') /\ agent'.player = Silent /\ TellsOf(s, agent', "finished")
  BY <1>2, <1>5, ToldIs
<1>7. PlayerSays(s, agent')
  BY <1>2, <1>4, <1>6 DEF PlayerSays, TellsOf
<1> QED BY <1>2, <1>4, <1>7

\* The focus manager takes a call of the agent, or another observer takes the channel.
LEMMA FocusStep ==
  ASSUME SpeechTypeOK, Reacquire \/ AcquireDialog \/ ReleaseDialog \/ LoseDialog
  PROVE  /\ UNCHANGED <<shutdown, asked>> /\ events' \in Nat /\ caller = "away"
         /\ \E s : /\ Aside(agent, s)
                   /\ \/ agent' = s /\ UNCHANGED <<channel, caller>>
                      \/ channel = "FOREGROUND" /\ FocusGiven(s, "NONE")
                      \/ channel = "NONE" /\ FocusGiven(s, "FOREGROUND")
<1> DEFINE t == [agent EXCEPT !.focusTasks = Tail(agent.focusTasks)]
<1>1. AgentTypeOK(agent) /\ channel \in {"NONE", "FOREGROUND"} /\ events \in Nat
  BY DEF SpeechTypeOK
<1>2. Aside(agent, agent)
  BY <1>1 DEF Aside
<1>3. ASSUME NEW what, NextFocusTask(what) PROVE caller = "away" /\ FocusTaskTaken = t /\ Aside(agent, t)
  <2>1. agent.focusTasks \in Seq({"acquire", "release"}) /\ agent.focusTasks # << >> /\ DOMAIN agent = Fields /\ caller = "away"
    BY <1>1, <1>3 DEF NextFocusTask, AgentTypeOK
  <2>2. Tail(agent.focusTasks) \in Seq({"acquire", "release"})
    BY <2>1
  <2>3. AgentTypeOK(t)
    BY <1>1, <2>2, Updates, Zenon
  <2>4. FocusTaskTaken = t
    BY <2>1 DEF FocusTaskTaken, Fields
  <2> QED BY <2>1, <2>3, <2>4 DEF Aside, Fields
<1> HIDE DEF t
<1>4. CASE Reacquire
  <2>1. NextFocusTask("acquire") /\ channel = "FOREGROUND" /\ FocusChanged(agent, "NONE") /\ UNCHANGED <<shutdown, asked, events>>
    BY <1>4 DEF Reacquire
  <2>2. FocusGiven(agent, "NONE")
    BY <1>1, <2>1, FocusChangedIs
  <2> QED BY <1>1, <1>2, <1>3, <2>1, <2>2
<1>5. CASE AcquireDialog
  <2>1. /\ NextFocusTask("acquire") /\ channel = "NONE" /\ FocusChanged(FocusTaskTaken, "FOREGROUND")
        /\ UNCHANGED <<shutdown, asked, events>>
    BY <1>5 DEF AcquireDialog
  <2>2. Aside(agent, t) /\ FocusChanged(t, "FOREGROUND")
    BY <1>3, <2>1
  <2>3. FocusGiven(t, "FOREGROUND")
    BY <2>2, FocusChangedIs DEF Aside
  <2> QED BY <1>1, <1>3, <2>1, <2>2, <2>3
<1>6. CASE ReleaseDialog
  <2>1. /\ NextFocusTask("release") /\ UNCHANGED <<shutdown, asked, events>>
        /\ \/ agent' = FocusTaskTaken /\ UNCHANGED <<channel, caller>>
           \/ channel # "NONE" /\ FocusChanged(FocusTaskTaken, "NONE")
    BY <1>6 DEF ReleaseDialog
  <2>2. Aside(agent, t) /\ FocusTaskTaken = t
    BY <1>3, <2>1
  <2>3. FocusChanged(t, "NONE") => FocusGiven(t, "NONE")
    BY <2>2, FocusChangedIs DEF Aside
  <2> QED BY <1>1, <1>3, <2>1, <2>2, <2>3
<1>7. CASE LoseDialog
  <2>1. caller = "away" /\ channel = "FOREGROUND" /\ Event /\ FocusChanged(agent, "NONE") /\ UNCHANGED <<shutdown, asked>>
    BY <1>7 DEF LoseDialog
  <2>2. FocusGiven(agent, "NONE")
    BY <1>1, <2>1, FocusChangedIs
  <2> QED BY <1>2, <2>1, <2>2, EventType
<1> QED BY <1>4, <1>5, <1>6, <1>7

LEMMA HeardNone == ASSUME NEW s, AgentTypeOK(s) PROVE Heard(s, None)
<1>1. \A i \in DOMAIN s.tasks : s.tasks[i].op \in {"preHandle", "handleImmediately"} => s.tasks[i].directive # None
  <2> TAKE i \in DOMAIN s.tasks
  <2>1. s.tasks[i] \in AgentTasks
    BY DEF AgentTypeOK
  <2> QED BY <2>1, AgentTaskFits, SpeechAssumption DEF DirectiveOps
<1> QED BY <1>1, SpeechAssumption DEF Heard

\* What the focus manager's thread does about a timeout.
LEMMA TimeoutFront ==
  ASSUME SpeechTypeOK, FrontInv, Wake \/ Timeout \/ ReportTimeout \/ StopAfterTimeout
  PROVE  /\ Handled(agent, agent', None) /\ UNCHANGED <<channel, shutdown, asked, events>>
         /\ caller' \in {"away", "reporting", "stopping"}
<1>1. AgentTypeOK(agent) /\ FrontHolds(agent) /\ DOMAIN agent = Fields /\ Aside(agent, agent)
  BY DEF SpeechTypeOK, FrontInv, AgentTypeOK, Aside
<1>2. Handled(agent, Crashed(agent), None)
  BY <1>1, CrashedIs DEF Handled, FrontHolds
<1>3. CASE Wake
  <2>1. agent' = agent /\ UNCHANGED <<channel, shutdown, asked, events>> /\ caller' = "away"
    BY <1>3 DEF Wake
  <2> QED BY <1>1, <2>1, AsideHandled
<1>4. CASE Timeout
  <2> DEFINE t == [agent EXCEPT !.disturbed = TRUE]
  <2>1. agent' = t /\ UNCHANGED <<channel, shutdown, asked, events>> /\ caller' \in {"away", "reporting"}
    BY <1>4 DEF Timeout
  <2>2. AgentTypeOK(t)
    BY <1>1, Updates
  <2>3. Handled(agent, t, None)
    BY <1>1, <2>2 DEF Handled, FrontHolds, Fields
  <2> QED BY <2>1, <2>3
<1>5. CASE ReportTimeout
  <2>1. /\ agent' = (IF agent.current = None THEN Crashed(agent) ELSE ReportedFailed(agent, agent.current))
        /\ UNCHANGED <<channel, shutdown, asked, events>> /\ caller' \in {"stopping", "away"}
    BY <1>5 DEF ReportTimeout
  <2>2. Handled(agent, ReportedFailed(agent, agent.current), None)
    BY <1>1, ReportedAside, AsideHandled
  <2> QED BY <1>2, <2>1, <2>2
<1>6. CASE StopAfterTimeout
  <2>1. /\ agent' \in {Crashed(agent), StopPlaying(agent)}
        /\ UNCHANGED <<channel, shutdown, asked, events>> /\ caller' = "away"
    BY <1>6 DEF StopAfterTimeout
  <2>2. Handled(agent, StopPlaying(agent), None)
    BY <1>1, StopHandled
  <2> QED BY <1>2, <2>1, <2>2
<1> QED BY <1>3, <1>4, <1>5, <1>6

LEMMA ShutdownPlayerFront ==
  ASSUME SpeechTypeOK, FrontInv, ShutdownPlayer
  PROVE  Handled(agent, agent', None) /\ shutdown' = "stopped" /\ UNCHANGED <<channel, caller, asked, events>>
<1> DEFINE s == [agent EXCEPT !.desired = "FINISHED"]
           p == StopPlaying(s)
           f == [p EXCEPT !.state = "FINISHED"]
           o == [p EXCEPT !.state = "FINISHED", !.focus = "NONE", !.focusTasks = Append(@, "release")]
           h == [s EXCEPT !.halted = "deadlocked"]
<1>1. agent' \in {agent, h, o} /\ shutdown' = "stopped" /\ UNCHANGED <<channel, caller, asked, events>>
  BY DEF ShutdownPlayer
<1>2. AgentTypeOK(agent) /\ FrontHolds(agent) /\ DOMAIN agent = Fields
  BY DEF SpeechTypeOK, FrontInv, AgentTypeOK
<1>3. AgentTypeOK(s)
  <2>1. "FINISHED" \in {"FINISHED", "PLAYING"}
    OBVIOUS
  <2> QED BY <1>2, <2>1, Updates, Zenon
<1>4. Handled(agent, agent, None)
  BY <1>2 DEF Handled
<1>5. Handled(agent, s, None) /\ DOMAIN s = Fields
  BY <1>2, <1>3 DEF Handled, FrontHolds, Fields
<1> HIDE DEF s
<1>6. Handled(agent, h, None)
  <2>1. AgentTypeOK(h)
    <3>1. "deadlocked" \in {"no", "crashed", "deadlocked"}
      OBVIOUS
    <3> QED BY <1>3, <3>1, Updates, Zenon
  <2> QED BY <2>1, <1>5 DEF Handled, FrontHolds, Fields
<1>7. Handled(s, p, None)
  BY <1>3, <1>5, StopHandled DEF Handled
<1> HIDE DEF p
<1>8. Handled(agent, p, None)
  BY <1>5, <1>7, HandledOn
<1>9. Handled(p, f, None)
  <2>1. AgentTypeOK(p) /\ DOMAIN p = Fields
    BY <1>7 DEF Handled, AgentTypeOK
  <2>2. AgentTypeOK(f)
    <3>1. "FINISHED" \in {"FINISHED", "GAINING_FOCUS", "PLAYING"}
      OBVIOUS
    <3> QED BY <2>1, <3>1, Updates, Zenon
  <2> QED BY <2>1, <2>2, <1>8 DEF Handled, FrontHolds, Fields
<1>10. o = [f EXCEPT !.focus = "NONE", !.focusTasks = Append(@, "release")]
  <2>1. DOMAIN p = Fields
    BY <1>7 DEF Handled, AgentTypeOK
  <2> QED BY <2>1 DEF Fields
<1> HIDE DEF o, f
<1>11. Aside(f, [f EXCEPT !.focus = "NONE", !.focusTasks = Append(@, "release")])
  BY <1>9, FocusAside DEF Handled
<1>12. Handled(f, o, None)
  BY <1>9, <1>10, <1>11, AsideHandled DEF Handled
<1>13. Handled(agent, o, None)
  BY <1>8, <1>9, <1>12, HandledOn
<1> QED BY <1>1, <1>4, <1>6, <1>13

LEMMA ShutdownQueueFront ==
  ASSUME SpeechTypeOK, FrontInv, ShutdownQueue
  PROVE  Handled(agent, agent', None) /\ shutdown' = "failed" /\ UNCHANGED <<channel, caller, asked, events>>
<1> DEFINE all == Elements(agent.queue)
           r == Result(agent, all, "failed")
           m == [r EXCEPT !.mapped = r.mapped \ all]
           t == [m EXCEPT !.known = m.known \ all]
<1>1. /\ agent' = [r EXCEPT !.mapped = @ \ all, !.known = @ \ all]
      /\ shutdown' = "failed" /\ UNCHANGED <<channel, caller, asked, events>>
  BY DEF ShutdownQueue
<1>2. AgentTypeOK(agent) /\ FrontHolds(agent)
  BY DEF SpeechTypeOK, FrontInv
<1>3. Aside(agent, r)
  BY <1>2, ResultAside
<1> HIDE DEF r, all
<1>4. AgentTypeOK(r) /\ DOMAIN r = Fields /\ r.mapped \ all \in SUBSET Directives
  BY <1>3 DEF Aside, AgentTypeOK
<1>5. AgentTypeOK(m)
  BY <1>4, Updates, Zenon
<1>6. DOMAIN m = Fields /\ m.known \ all \in SUBSET Directives
  BY <1>5 DEF AgentTypeOK
<1>7. AgentTypeOK(t)
  BY <1>5, <1>6, Updates, Zenon
<1>8. agent' = t
  BY <1>1, <1>4, <1>6 DEF Fields
<1>9. t.tasks = agent.tasks /\ t.queue = agent.queue /\ t.current = agent.current /\ t.mapped = agent.mapped \ all
  BY <1>3, <1>4, <1>6 DEF Aside, Fields
<1> HIDE DEF t
<1>10. Handled(agent, t, None)
  BY <1>2, <1>7, <1>9 DEF Handled, FrontHolds
<1> QED BY <1>1, <1>8, <1>10

LEMMA ShutdownExecutorFront ==
  ASSUME SpeechTypeOK, FrontInv, ShutdownExecutor
  PROVE  /\ AgentTypeOK(agent') /\ FrontHolds(agent') /\ NewIsNew(agent') /\ Unasked(agent')
         /\ shutdown' = "done" /\ UNCHANGED <<channel, caller, asked, events>>
<1>1. agent' = [agent EXCEPT !.tasks = << >>] /\ shutdown' = "done" /\ UNCHANGED <<channel, caller, asked, events>>
  BY DEF ShutdownExecutor
<1>2. AgentTypeOK(agent) /\ DOMAIN agent = Fields
  BY DEF SpeechTypeOK, AgentTypeOK
<1>3. AgentTypeOK(agent')
  <2>1. << >> \in Seq(AgentTasks)
    OBVIOUS
  <2> QED BY <1>1, <1>2, <2>1, Updates, Zenon
<1>4. /\ agent'.tasks = << >> /\ agent'.queue = agent.queue /\ agent'.current = agent.current /\ agent'.mapped = agent.mapped
  BY <1>1, <1>2 DEF Fields
<1>5. FrontHolds(agent') /\ NewIsNew(agent') /\ Unasked(agent')
  BY <1>4 DEF FrontInv, FrontHolds, NewIsNew, Unasked
<1> QED BY <1>1, <1>3, <1>5

LEMMA SpeechBegins == SpeechInit => SpeechTypeOK /\ FrontInv
<1> SUFFICES ASSUME SpeechInit PROVE SpeechTypeOK /\ FrontInv
  OBVIOUS
<1>1. /\ agent.tasks = << >> /\ agent.queue = << >> /\ agent.current = None /\ agent.mapped = {} /\ agent.known = {}
      /\ agent.readers = {} /\ agent.completes = {} /\ agent.state = "FINISHED" /\ agent.desired = "FINISHED"
      /\ agent.focus = "NONE" /\ agent.source = None /\ agent.stopping = FALSE /\ agent.focusTasks = << >>
      /\ agent.results = [d \in Directives |-> << >>] /\ agent.player = Silent
      /\ agent.disturbed = FALSE /\ agent.again = FALSE /\ agent.halted = "no"
  BY DEF SpeechInit
<1>2. agent = [f \in Fields |-> agent[f]]
  BY DEF SpeechInit, Fields
<1>3. Silent \in PlayerType
  BY DEF Silent, PlayerType
<1>4. AgentTypeOK(agent)
  <2>1. /\ << >> \in Seq(AgentTasks) /\ << >> \in Seq(Directives) /\ << >> \in Seq({"acquire", "release"})
        /\ [d \in Directives |-> << >>] \in [Directives -> Seq({"completed", "failed"})]
        /\ {} \in SUBSET Directives /\ None \in Directives \cup {None} /\ FALSE \in BOOLEAN
        /\ "FINISHED" \in {"FINISHED", "GAINING_FOCUS", "PLAYING"} /\ "FINISHED" \in {"FINISHED", "PLAYING"}
        /\ "NONE" \in {"NONE", "FOREGROUND"} /\ "no" \in {"no", "crashed", "deadlocked"}
    OBVIOUS
  <2> QED BY <1>1, <1>2, <1>3, <2>1, Zenon DEF AgentTypeOK
<1>5. SpeechTypeOK
  BY <1>4 DEF SpeechInit, SpeechTypeOK
<1>6. FrontInv
  BY <1>1, SpeechAssumption DEF FrontInv, FrontHolds, NewIsNew, Unasked, Elements
<1> QED BY <1>5, <1>6

LEMMA SpeechGoesOn == SpeechTypeOK /\ FrontInv /\ [SpeechNext]_speechVars => SpeechTypeOK' /\ FrontInv'
<1> SUFFICES ASSUME SpeechTypeOK, FrontInv, [SpeechNext]_speechVars PROVE SpeechTypeOK' /\ FrontInv'
  OBVIOUS
<1>1. /\ AgentTypeOK(agent) /\ FrontHolds(agent) /\ NewIsNew(agent) /\ Unasked(agent) /\ Heard(agent, None)
      /\ channel \in {"NONE", "FOREGROUND"} /\ caller \in {"away", "waiting", "reporting", "stopping"}
      /\ shutdown \in {"no", "stopped", "failed", "done"} /\ events \in Nat
  BY HeardNone DEF SpeechTypeOK, FrontInv
<1>2. ASSUME Handled(agent, agent', None)
      PROVE  AgentTypeOK(agent') /\ FrontHolds(agent') /\ NewIsNew(agent') /\ Unasked(agent')
  <2>1. AgentTypeOK(agent')
    BY <1>2 DEF Handled
  <2> QED BY <1>1, <1>2, <2>1, FrontHandled
<1>3. CASE UNCHANGED speechVars
  <2>1. AgentTypeOK(agent') /\ FrontHolds(agent') /\ NewIsNew(agent') /\ Unasked(agent')
    BY <1>1, <1>3 DEF speechVars
  <2> QED BY <1>1, <1>3, <2>1, InvariantKept DEF speechVars
<1>4. ASSUME NEW d \in Directives,
             PreHandleDirective(d) \/ HandleDirective(d) \/ HandleDirectiveImmediately(d) \/ CancelDirective(d)
      PROVE  SpeechTypeOK' /\ FrontInv'
  BY <1>4, SequencerFront
<1>5. CASE OnDialogUXStateChanged
  <2>1. Event /\ agent' = Posted(agent, "idle", None) /\ UNCHANGED <<channel, caller, shutdown, asked>>
    BY <1>5 DEF OnDialogUXStateChanged
  <2>2. OwnTask("idle") \in AgentTasks /\ "idle" \in OwnOps
    BY OwnTasks DEF OwnOps
  <2>3. PostedAs(agent, agent', OwnTask("idle"))
    BY <1>1, <2>1, <2>2, PostedIs DEF OwnTask
  <2>4. NewIsNew(agent') /\ Unasked(agent')
    BY <1>1, <2>2, <2>3, FrontKept DEF PostedAs
  <2>5. AgentTypeOK(agent') /\ FrontHolds(agent')
    BY <1>1, <2>3 DEF PostedAs, FrontHolds
  <2> QED BY <1>1, <2>1, <2>4, <2>5, InvariantKept, EventType
<1>6. CASE Execute
  BY <1>1, <1>6, ExecuteFront, InvariantKept
<1>7. CASE Reacquire \/ AcquireDialog \/ ReleaseDialog \/ LoseDialog
  <2>1. PICK s : /\ UNCHANGED <<shutdown, asked>> /\ events' \in Nat /\ Aside(agent, s)
                 /\ \/ agent' = s /\ UNCHANGED <<channel, caller>>
                    \/ channel = "FOREGROUND" /\ FocusGiven(s, "NONE")
                    \/ channel = "NONE" /\ FocusGiven(s, "FOREGROUND")
    BY <1>7, FocusStep
  <2>2. CASE agent' = s /\ UNCHANGED <<channel, caller>>
    <3>1. Handled(agent, agent', None)
      BY <1>1, <2>1, <2>2, AsideHandled
    <3> QED BY <1>1, <1>2, <2>1, <2>2, <3>1, InvariantKept
  <2>3. ASSUME NEW f \in {"NONE", "FOREGROUND"}, FocusGiven(s, f) PROVE SpeechTypeOK' /\ FrontInv'
    <3>1. AgentTypeOK(agent') /\ FrontHolds(agent') /\ NewIsNew(agent') /\ Unasked(agent')
          /\ channel' \in {"NONE", "FOREGROUND"} /\ caller' \in {caller, "waiting"}
      BY <2>1, <2>3, FocusGivenFront
    <3> QED BY <1>1, <2>1, <3>1, InvariantKept
  <2> QED BY <2>1, <2>2, <2>3
<1>8. CASE Wake \/ Timeout \/ ReportTimeout \/ StopAfterTimeout
  BY <1>1, <1>2, <1>8, TimeoutFront, InvariantKept
<1>9. CASE PlayerStarts \/ PlayerFinishes \/ PlayerStops \/ PlayerFails
  <2>1. PlayerSays(agent, agent') /\ events' \in Nat /\ UNCHANGED <<channel, caller, shutdown, asked>>
    BY <1>9, PlayerGoesOnTells
  <2>2. AgentTypeOK(agent') /\ FrontHolds(agent') /\ NewIsNew(agent') /\ Unasked(agent')
    BY <1>1, <2>1, ToldFront DEF PlayerSays
  <2> QED BY <1>1, <2>1, <2>2, InvariantKept
<1>10. CASE PlayerStartsAndStops
  <2>1. PICK s : Told(agent, s) /\ PlayerSays(s, agent')
    BY <1>10, StartsAndStopsTells
  <2>2. OnlyTheAgent
    BY <1>10, StartsAndStopsTells
  <2>3. AgentTypeOK(s) /\ FrontHolds(s) /\ NewIsNew(s) /\ Unasked(s)
    BY <1>1, <2>1, ToldFront
  <2>4. AgentTypeOK(agent') /\ FrontHolds(agent') /\ NewIsNew(agent') /\ Unasked(agent')
    BY <2>1, <2>3, ToldFront DEF PlayerSays
  <2> QED BY <1>1, <2>2, <2>4, InvariantKept DEF OnlyTheAgent
<1>11. CASE ShutdownPlayer \/ ShutdownQueue
  BY <1>1, <1>2, <1>11, ShutdownPlayerFront, ShutdownQueueFront, InvariantKept
<1>12. CASE ShutdownExecutor
  BY <1>1, <1>12, ShutdownExecutorFront, InvariantKept
<1> QED BY <1>3, <1>4, <1>5, <1>6, <1>7, <1>8, <1>9, <1>10, <1>11, <1>12 DEF SpeechNext, FocusManager, PlayerGoesOn

\* Whatever is handled, cancelled, failed, finished or shut down, in any order, what is current is
\* the front of the queue, and what is put into the map is new: the invariant of all that follows.
THEOREM SpeechInvariant == SpeechSpec => [](SpeechTypeOK /\ FrontInv)
<1>1. SpeechInit => SpeechTypeOK /\ FrontInv
  BY SpeechBegins
<1>2. (SpeechTypeOK /\ FrontInv) /\ [SpeechNext]_speechVars => (SpeechTypeOK /\ FrontInv)'
  BY SpeechGoesOn
<1> QED BY <1>1, <1>2, PTL DEF SpeechSpec

\* The agent, and the threads that call it, have values of their types in every state.
THEOREM SpeechTypeCorrect == SpeechSpec => []SpeechTypeOK
BY SpeechInvariant, PTL

\* For any directives: m_currentInfo, while it is in the map, is the front of m_speakInfoQueue, so
\* executePlaybackFinished() pops the directive that was spoken and no other.
THEOREM FrontIsAlwaysCurrent == SpeechSpec => []FrontIsCurrent
<1>1. SpeechTypeOK /\ FrontInv => FrontIsCurrent
  BY DEF FrontInv, FrontHolds, FrontIsCurrent
<1> QED BY <1>1, SpeechInvariant, PTL
-----------------------------------------------------------------------------
(* The player is silent *)

\* What holds of the agent when a task is taken, by the kind of task.
LEMMA TakenIsSilent ==
  ASSUME SpeechTypeOK, FrontInv, SilentInv, NEW op, Does(op)
  PROVE  /\ Taken.disturbed = agent.disturbed /\ Taken.again = agent.again /\ Taken.state = agent.state
         /\ Taken.desired = agent.desired /\ Taken.source = agent.source /\ Taken.player = agent.player
         /\ Undisturbed =>
              /\ SourceHolds(Taken) /\ FocusHolds(Taken) /\ CallerHolds(Taken)
              /\ op = "stateChange" => ~ (channel = "FOREGROUND" /\ Taken.state = "FINISHED")
              /\ op = "started" => Taken.source # None
              /\ op = "finished" =>
                   /\ Taken.player = Silent /\ ~IsPending(Taken, "started") /\ ~IsPending(Taken, "finished")
                   /\ channel = "FOREGROUND" => ~IsPending(Taken, "stateChange")
<1>1. AgentTypeOK(agent) /\ agent.tasks # << >> /\ Head(agent.tasks).op = op /\ agent.tasks \in Seq(AgentTasks)
  BY DEF SpeechTypeOK, Does, AgentTypeOK
<1>2. Taken = [agent EXCEPT !.tasks = Tail(@)]
  BY DEF Taken
<1>3. /\ Taken.disturbed = agent.disturbed /\ Taken.again = agent.again /\ Taken.state = agent.state
      /\ Taken.desired = agent.desired /\ Taken.source = agent.source /\ Taken.player = agent.player
      /\ Taken.tasks = Tail(agent.tasks)
  BY <1>1, <1>2, TakenIs
<1>4. /\ \A o : IsPending(Taken, o) => IsPending(agent, o)
      /\ \A a, b : InOrder(agent, a, b) => InOrder(Taken, a, b) /\ (op = b => ~IsPending(Taken, a))
  BY <1>1, <1>3, TailTasks
<1>5. IsPending(agent, op)
  <2>1. 1 \in DOMAIN agent.tasks /\ agent.tasks[1].op = op
    BY <1>1
  <2> QED BY <2>1 DEF IsPending
<1>6. ASSUME Undisturbed PROVE SourceHolds(agent) /\ FocusHolds(agent) /\ CallerHolds(agent)
  BY <1>6 DEF SilentInv
<1>7. ASSUME Undisturbed PROVE SourceHolds(Taken) /\ FocusHolds(Taken) /\ CallerHolds(Taken)
  <2>1. SourceHolds(Taken)
    BY <1>3, <1>4, <1>6, <1>7 DEF SourceHolds
  <2>2. FocusHolds(Taken)
    BY <1>3, <1>4, <1>6, <1>7 DEF FocusHolds
  <2>3. CallerHolds(Taken)
    BY <1>3, <1>6, <1>7 DEF CallerHolds
  <2> QED BY <2>1, <2>2, <2>3
<1>8. ASSUME Undisturbed, op = "stateChange" PROVE ~ (channel = "FOREGROUND" /\ Taken.state = "FINISHED")
  BY <1>3, <1>5, <1>6, <1>8 DEF FocusHolds
<1>9. ASSUME Undisturbed, op = "started" PROVE Taken.source # None
  BY <1>3, <1>5, <1>6, <1>9 DEF SourceHolds
<1>10. ASSUME Undisturbed, op = "finished"
       PROVE  /\ Taken.player = Silent /\ ~IsPending(Taken, "started") /\ ~IsPending(Taken, "finished")
              /\ channel = "FOREGROUND" => ~IsPending(Taken, "stateChange")
  BY <1>3, <1>4, <1>5, <1>6, <1>10 DEF SourceHolds, FocusHolds
<1> QED BY <1>3, <1>7, <1>8, <1>9, <1>10

LEMMA AlikeSilent ==
  ASSUME NEW s, NEW t, Alike(s, t), ~t.disturbed, SourceHolds(s), FocusHolds(s), CallerHolds(s)
  PROVE  ~s.disturbed /\ t.again = s.again /\ SourceHolds(t) /\ FocusHolds(t) /\ CallerHolds(t)
<1>1. /\ ~s.disturbed /\ t.again = s.again /\ t.tasks = s.tasks
      /\ t.state = s.state /\ t.source = s.source /\ t.desired \in {s.desired, "FINISHED"}
      /\ t.player = Silent <=> s.player = Silent
  BY Zenon DEF Alike
<1>2. SourceHolds(t)
  BY <1>1 DEF SourceHolds, IsPending, InOrder
<1>3. FocusHolds(t)
  BY <1>1 DEF FocusHolds, IsPending, InOrder
<1>4. CallerHolds(t)
  BY <1>1 DEF CallerHolds
<1> QED BY <1>1, <1>2, <1>3, <1>4

\* A task that leaves the channel, and onFocusChanged(), as they are.
LEMMA SilentKept ==
  ASSUME UNCHANGED <<channel, caller>>, Undisturbed' => SourceHolds(agent') /\ FocusHolds(agent') /\ CallerHolds(agent')
  PROVE  SilentInv'
<1>1. SourceHolds(agent') => SourceHolds(agent)'
  BY Zenon
<1>2. FocusHolds(agent') => FocusHolds(agent)'
  BY DEF FocusHolds
<1>3. CallerHolds(agent') => CallerHolds(agent)'
  BY DEF CallerHolds
<1> QED BY <1>1, <1>2, <1>3 DEF SilentInv

LEMMA TaskSilent ==
  ASSUME SpeechTypeOK, FrontInv, SilentInv, NEW op, Does(op), UNCHANGED <<channel, caller, shutdown>>, Alike(Taken, agent')
  PROVE  SilentInv'
<1>1. ASSUME Undisturbed' PROVE SourceHolds(agent') /\ FocusHolds(agent') /\ CallerHolds(agent')
  <2>1. ~agent'.disturbed /\ ~agent'.again /\ shutdown = "no" /\ Running
    BY <1>1, Zenon DEF Undisturbed, Does
  <2>2. ~Taken.disturbed /\ Taken.again = agent'.again
    BY <2>1, Zenon DEF Alike
  <2>3. Undisturbed
    BY <2>1, <2>2, TakenIsSilent, Zenon DEF Undisturbed
  <2>4. SourceHolds(Taken) /\ FocusHolds(Taken) /\ CallerHolds(Taken)
    BY <2>3, TakenIsSilent
  <2> QED BY <2>1, <2>4, AlikeSilent
<1> QED BY <1>1, SilentKept

LEMMA StateChangeSilent ==
  ASSUME SpeechTypeOK, FrontInv, SilentInv, Does("stateChange"), UNCHANGED <<channel, caller, shutdown>>,
         NEW fails \in BOOLEAN, agent' = StateChanged(Taken, fails)
  PROVE  SilentInv'
<1>1. AgentTypeOK(Taken) /\ FrontHolds(Taken) /\ channel \in {"NONE", "FOREGROUND"}
  BY TakenFits DEF SpeechTypeOK
<1>2. Taken.desired \in {"PLAYING", "FINISHED"} /\ Taken.state \in {"FINISHED", "GAINING_FOCUS", "PLAYING"}
  BY <1>1 DEF AgentTypeOK
<1>3. /\ Taken.desired = "FINISHED" => Alike(Taken, agent')
      /\ Taken.desired = "PLAYING" => Plays(Taken, agent')
  BY <1>1, StateChangedIs
<1>4. CASE Taken.desired = "FINISHED"
  BY <1>3, <1>4, TaskSilent
<1>5. CASE Taken.desired = "PLAYING"
  <2>1. ASSUME Undisturbed' PROVE SourceHolds(agent') /\ FocusHolds(agent') /\ CallerHolds(agent')
    <3>1. agent'.halted = "no" /\ ~agent'.disturbed /\ ~agent'.again /\ shutdown = "no" /\ Running
      BY <2>1, Zenon DEF Undisturbed, Does, Running
    <3>2. /\ ~Taken.disturbed /\ ~Taken.again /\ Taken.source = None
          /\ agent'.source # None /\ agent'.state = Taken.state /\ agent'.desired = Taken.desired
          /\ Taken.player = Silent => agent'.tasks = Taken.tasks
      BY <1>3, <1>5, <3>1, Zenon DEF Plays
    <3>3. Undisturbed
      BY <3>1, <3>2, TakenIsSilent, Zenon DEF Undisturbed
    <3>4. /\ SourceHolds(Taken) /\ FocusHolds(Taken) /\ CallerHolds(Taken)
          /\ ~ (channel = "FOREGROUND" /\ Taken.state = "FINISHED")
      BY <3>3, TakenIsSilent
    <3>5. channel = "FOREGROUND"
      BY <1>1, <1>5, <3>4 DEF FocusHolds
    <3>6. Taken.player = Silent /\ ~IsPending(Taken, "started") /\ ~IsPending(Taken, "finished")
      BY <3>2, <3>4 DEF SourceHolds
    <3>7. SourceHolds(agent')
      BY <3>2, <3>4, <3>5, <3>6 DEF SourceHolds, IsPending, InOrder
    <3>8. FocusHolds(agent')
      BY <3>2, <3>4, <3>6 DEF FocusHolds, IsPending, InOrder
    <3>9. CallerHolds(agent')
      BY <3>2, <3>4 DEF CallerHolds
    <3> QED BY <3>7, <3>8, <3>9
  <2> QED BY <2>1, SilentKept
<1> QED BY <1>2, <1>4, <1>5

LEMMA StartedSilent ==
  ASSUME SpeechTypeOK, FrontInv, SilentInv, ExecutePlaybackStarted
  PROVE  SilentInv'
<1>1. Does("started") /\ agent' = Started(Taken) /\ UNCHANGED <<channel, caller, shutdown>>
  BY DEF ExecutePlaybackStarted, OnlyTheAgent
<1>2. /\ Handled(Taken, agent', None)
      /\ \/ agent' = Taken
         \/ /\ agent'.state = "PLAYING" /\ agent'.desired = Taken.desired /\ agent'.source = Taken.source
            /\ agent'.player = Taken.player /\ agent'.disturbed = Taken.disturbed /\ agent'.again = Taken.again
  <2>1. AgentTypeOK(Taken) /\ FrontHolds(Taken)
    BY <1>1, TakenFits
  <2> QED BY <1>1, <2>1, StartedIs
<1>3. ASSUME Undisturbed' PROVE SourceHolds(agent') /\ FocusHolds(agent') /\ CallerHolds(agent')
  <2>1. ~agent'.disturbed /\ ~agent'.again /\ shutdown = "no" /\ Running
    BY <1>1, <1>3, Zenon DEF Undisturbed, Does
  <2>2. ~Taken.disturbed /\ ~Taken.again
    BY <1>2, <2>1, Zenon
  <2>3. Undisturbed
    BY <1>1, <2>1, <2>2, TakenIsSilent, Zenon DEF Undisturbed
  <2>4. SourceHolds(Taken) /\ FocusHolds(Taken) /\ CallerHolds(Taken) /\ Taken.source # None
    BY <1>1, <2>3, TakenIsSilent
  <2>5. CASE agent' = Taken
    BY <2>4, <2>5
  <2>6. CASE /\ agent'.state = "PLAYING" /\ agent'.desired = Taken.desired /\ agent'.source = Taken.source
             /\ agent'.player = Taken.player
    <3>1. agent'.tasks = Taken.tasks
      BY <1>2 DEF Handled
    <3>2. SourceHolds(agent')
      BY <2>4, <2>6, <3>1 DEF SourceHolds, IsPending, InOrder
    <3>3. FocusHolds(agent')
      BY <2>4, <2>6, <3>1 DEF FocusHolds, IsPending, InOrder
    <3>4. CallerHolds(agent')
      BY <2>4, <2>6 DEF CallerHolds, SourceHolds
    <3> QED BY <3>2, <3>3, <3>4
  <2> QED BY <1>2, <2>5, <2>6
<1> QED BY <1>1, <1>3, SilentKept

LEMMA FinishedSilent ==
  ASSUME SpeechTypeOK, FrontInv, SilentInv, ExecutePlaybackFinished
  PROVE  SilentInv'
<1>1. Does("finished") /\ agent' = Finished(Taken) /\ UNCHANGED <<channel, caller, shutdown>>
  BY DEF ExecutePlaybackFinished, OnlyTheAgent
<1>2. /\ Handled(Taken, agent', None)
      /\ \/ agent' = Taken \/ agent'.halted = "crashed"
         \/ /\ agent'.state = "FINISHED" /\ agent'.source = None /\ agent'.desired = Taken.desired
            /\ agent'.player = Taken.player /\ agent'.disturbed = Taken.disturbed /\ agent'.again = Taken.again
  <2>1. AgentTypeOK(Taken) /\ FrontHolds(Taken)
    BY <1>1, TakenFits
  <2> QED BY <1>1, <2>1, FinishedIs
<1>3. ASSUME Undisturbed' PROVE SourceHolds(agent') /\ FocusHolds(agent') /\ CallerHolds(agent')
  <2>1. ~agent'.disturbed /\ ~agent'.again /\ shutdown = "no" /\ Running /\ agent'.halted = "no"
    BY <1>1, <1>3, Zenon DEF Undisturbed, Does, Running
  <2>2. agent'.halted # "crashed"
    BY <2>1
  <2>3. ~Taken.disturbed /\ ~Taken.again
    BY <1>2, <2>1, <2>2, Zenon
  <2>4. Undisturbed
    BY <1>1, <2>1, <2>3, TakenIsSilent, Zenon DEF Undisturbed
  <2>5. /\ SourceHolds(Taken) /\ FocusHolds(Taken) /\ CallerHolds(Taken)
        /\ Taken.player = Silent /\ ~IsPending(Taken, "started") /\ ~IsPending(Taken, "finished")
        /\ channel = "FOREGROUND" => ~IsPending(Taken, "stateChange")
    BY <1>1, <2>4, TakenIsSilent
  <2>6. CASE agent' = Taken
    BY <2>5, <2>6
  <2>7. CASE /\ agent'.state = "FINISHED" /\ agent'.source = None /\ agent'.desired = Taken.desired
             /\ agent'.player = Taken.player
    <3>1. agent'.tasks = Taken.tasks
      BY <1>2 DEF Handled
    <3>2. SourceHolds(agent')
      BY <2>5, <2>7, <3>1 DEF SourceHolds, IsPending, InOrder
    <3>3. FocusHolds(agent')
      BY <2>5, <2>7, <3>1 DEF FocusHolds, IsPending, InOrder
    <3>4. CallerHolds(agent')
      BY <2>5, <2>7 DEF CallerHolds
    <3> QED BY <3>2, <3>3, <3>4
  <2> QED BY <1>2, <2>2, <2>6, <2>7
<1> QED BY <1>1, <1>3, SilentKept

LEMMA ExecuteSilent ==
  ASSUME SpeechTypeOK, FrontInv, SilentInv, Execute
  PROVE  SilentInv'
<1>1. UNCHANGED <<channel, caller, shutdown>>
  BY ExecuteFront
<1>2. ASSUME NEW payload \in Payloads, ExecutePreHandle(payload) PROVE SilentInv'
  <2>1. Does("preHandle") /\ agent' = PreHandled(Taken, D, payload)
    BY <1>2 DEF ExecutePreHandle, WithPayload
  <2>2. Alike(Taken, agent')
    BY <2>1, PreHandleDone
  <2> QED BY <1>1, <2>1, <2>2, TaskSilent
<1>3. ASSUME NEW payload \in Payloads, ExecuteHandleImmediately(payload) PROVE SilentInv'
  <2>1. Does("handleImmediately") /\ agent' = Queued(PreHandled(Taken, D, payload), D)
    BY <1>3 DEF ExecuteHandleImmediately, WithPayload
  <2>2. Alike(Taken, agent')
    BY <2>1, PreHandleDone
  <2> QED BY <1>1, <2>1, <2>2, TaskSilent
<1>4. CASE ExecuteHandle \/ ExecuteCancel
  <2>1. PICK op \in {"handle", "cancel"} : Does(op) /\ agent' \in {Queued(Taken, D), Cancelled(Taken, D)}
    BY <1>4 DEF ExecuteHandle, ExecuteCancel
  <2>2. AgentTypeOK(Taken) /\ FrontHolds(Taken) /\ D \in Directives
    BY <2>1, TakenFits DEF DirectiveOps
  <2>3. Alike(Taken, Queued(Taken, D)) /\ Alike(Taken, Cancelled(Taken, D))
    BY <2>2, QueuedHandled, CancelledHandled
  <2> QED BY <1>1, <2>1, <2>3, TaskSilent
<1>5. CASE ExecuteStateChange
  BY <1>1, <1>5, StateChangeSilent DEF ExecuteStateChange
<1>6. CASE ExecuteStateChangeFailing
  BY <1>1, <1>6, StateChangeSilent DEF ExecuteStateChangeFailing
<1>7. CASE ExecutePlaybackStarted
  BY <1>7, StartedSilent
<1>8. CASE ExecutePlaybackFinished
  BY <1>8, FinishedSilent
<1>9. CASE ExecutePlaybackError \/ ExecuteIdle
  <2>1. PICK op \in {"error", "idle"} : Does(op) /\ agent' \in {PlaybackError(Taken), Idled(Taken)}
    BY <1>9 DEF ExecutePlaybackError, ExecuteIdle
  <2>2. AgentTypeOK(Taken) /\ FrontHolds(Taken)
    BY <2>1, TakenFits
  <2>3. Alike(Taken, PlaybackError(Taken)) /\ Alike(Taken, Idled(Taken))
    BY <2>2, ErrorHandled, IdledHandled
  <2> QED BY <1>1, <2>1, <2>3, TaskSilent
<1> QED BY <1>2, <1>3, <1>4, <1>5, <1>6, <1>7, <1>8, <1>9 DEF Execute

\* A task that is not about the player is put behind the others.
LEMMA PostedSilent ==
  ASSUME SpeechTypeOK, SilentInv, NEW x \in AgentTasks, x.op \notin {"started", "finished", "stateChange"},
         PostedAs(agent, agent', x), UNCHANGED <<channel, caller, shutdown>>
  PROVE  SilentInv'
<1>1. agent.tasks \in Seq(AgentTasks) /\ agent'.tasks = Append(agent.tasks, x)
  BY DEF SpeechTypeOK, AgentTypeOK, PostedAs
<1>2. /\ \A op : IsPending(agent', op) <=> IsPending(agent, op) \/ x.op = op
      /\ \A a, b : InOrder(agent, a, b) /\ (x.op = a => ~IsPending(agent, b)) => InOrder(agent', a, b)
  BY <1>1, AppendTasks
<1>3. /\ agent'.state = agent.state /\ agent'.desired = agent.desired /\ agent'.source = agent.source
      /\ agent'.player = agent.player /\ agent'.disturbed = agent.disturbed /\ agent'.again = agent.again
      /\ agent'.halted = agent.halted
  BY DEF PostedAs
<1>4. ASSUME Undisturbed' PROVE SourceHolds(agent') /\ FocusHolds(agent') /\ CallerHolds(agent')
  <2>1. Undisturbed
    BY <1>3, <1>4, Zenon DEF Undisturbed, Running
  <2>2. SourceHolds(agent) /\ FocusHolds(agent) /\ CallerHolds(agent)
    BY <2>1 DEF SilentInv
  <2>3. SourceHolds(agent')
    BY <1>2, <1>3, <2>2 DEF SourceHolds
  <2>4. FocusHolds(agent')
    BY <1>2, <1>3, <2>2 DEF FocusHolds
  <2>5. CallerHolds(agent')
    BY <1>3, <2>2 DEF CallerHolds
  <2> QED BY <2>3, <2>4, <2>5
<1> QED BY <1>4, SilentKept

\* What the player tells, it tells in order: it is silent when it has finished.
LEMMA SaysSilent ==
  ASSUME NEW s, NEW t, AgentTypeOK(s), SourceHolds(s), FocusHolds(s), CallerHolds(s), PlayerSays(s, t), shutdown = "no"
  PROVE  SourceHolds(t) /\ FocusHolds(t) /\ CallerHolds(t)
<1>1. /\ t.state = s.state /\ t.desired = s.desired /\ t.source = s.source /\ s.player # Silent
      /\ \/ t.player # Silent /\ \E op \in {"started", "error"} : t.tasks = Append(s.tasks, OwnTask(op))
         \/ t.player = Silent /\ \E op \in {"finished", "error"} : t.tasks = Append(s.tasks, OwnTask(op))
  BY DEF PlayerSays, Told
<1>2. PICK op \in {"started", "finished", "error"} :
        t.tasks = Append(s.tasks, OwnTask(op)) /\ (op = "started" => t.player # Silent) /\ (op = "finished" => t.player = Silent)
  BY <1>1
<1>3. s.tasks \in Seq(AgentTasks) /\ OwnTask(op) \in AgentTasks /\ OwnTask(op).op = op
  BY OwnTasks DEF AgentTypeOK, OwnTask, OwnOps
<1>4. /\ \A o : IsPending(t, o) <=> IsPending(s, o) \/ op = o
      /\ \A a, b : InOrder(s, a, b) /\ (op = a => ~IsPending(s, b)) => InOrder(t, a, b)
  BY <1>2, <1>3, AppendTasks
<1>5. s.source # None /\ ~IsPending(s, "finished")
  BY <1>1 DEF SourceHolds
<1>6. SourceHolds(t)
  BY <1>1, <1>2, <1>4, <1>5 DEF SourceHolds
<1>7. FocusHolds(t)
  BY <1>1, <1>4, <1>5 DEF FocusHolds
<1>8. CallerHolds(t)
  BY <1>1 DEF CallerHolds
<1> QED BY <1>6, <1>7, <1>8

LEMMA PlayerSilent ==
  ASSUME SpeechTypeOK, SilentInv, PlayerGoesOn \/ PlayerFails
  PROVE  SilentInv'
<1>1. CASE PlayerStarts \/ PlayerFinishes \/ PlayerStops \/ PlayerFails
  <2>1. PlayerSays(agent, agent') /\ UNCHANGED <<channel, caller, shutdown>>
    BY <1>1, PlayerGoesOnTells
  <2>2. ASSUME Undisturbed' PROVE SourceHolds(agent') /\ FocusHolds(agent') /\ CallerHolds(agent')
    <3>1. Undisturbed
      BY <2>1, <2>2, Zenon DEF Undisturbed, Running, PlayerSays, Told
    <3>2. SourceHolds(agent) /\ FocusHolds(agent) /\ CallerHolds(agent) /\ AgentTypeOK(agent) /\ shutdown = "no"
      BY <3>1 DEF SilentInv, SpeechTypeOK, Undisturbed
    <3> QED BY <2>1, <3>2, SaysSilent
  <2> QED BY <2>1, <2>2, SilentKept
<1>2. CASE PlayerStartsAndStops
  <2>1. PICK s : /\ Told(agent, s) /\ PlayerSays(s, agent') /\ s.player = agent.player
                 /\ (shutdown # "no" \/ \E op \in {"started", "error"} : s.tasks = Append(agent.tasks, OwnTask(op)))
    BY <1>2, StartsAndStopsTells
  <2>2. UNCHANGED <<channel, caller, shutdown>>
    BY <1>2, StartsAndStopsTells DEF OnlyTheAgent
  <2>3. ASSUME Undisturbed' PROVE SourceHolds(agent') /\ FocusHolds(agent') /\ CallerHolds(agent')
    <3>1. Undisturbed
      BY <2>1, <2>2, <2>3, Zenon DEF Undisturbed, Running, PlayerSays, Told
    <3>2. SourceHolds(agent) /\ FocusHolds(agent) /\ CallerHolds(agent) /\ AgentTypeOK(agent) /\ shutdown = "no"
      BY <3>1 DEF SilentInv, SpeechTypeOK, Undisturbed
    <3>3. PlayerSays(agent, s)
      BY <2>1, <3>2 DEF PlayerSays
    <3>4. SourceHolds(s) /\ FocusHolds(s) /\ CallerHolds(s) /\ AgentTypeOK(s)
      BY <3>2, <3>3, SaysSilent DEF PlayerSays, Told
    <3> QED BY <2>1, <3>2, <3>4, SaysSilent
  <2> QED BY <2>2, <2>3, SilentKept
<1> QED BY <1>1, <1>2 DEF PlayerGoesOn

\* A focus is given by a thread that waits for none; one that was given is the last when it is taken.
LEMMA FocusSilent ==
  ASSUME SpeechTypeOK, FrontInv, SilentInv, Reacquire \/ AcquireDialog \/ ReleaseDialog \/ LoseDialog
  PROVE  SilentInv'
<1>1. caller = "away" /\ UNCHANGED shutdown /\ channel \in {"NONE", "FOREGROUND"}
  BY FocusStep DEF SpeechTypeOK
<1>2. PICK s : /\ Aside(agent, s)
               /\ \/ agent' = s /\ UNCHANGED <<channel, caller>>
                  \/ channel = "FOREGROUND" /\ FocusGiven(s, "NONE")
                  \/ channel = "NONE" /\ FocusGiven(s, "FOREGROUND")
  BY FocusStep
<1>3. /\ s.tasks = agent.tasks /\ s.state = agent.state /\ s.desired = agent.desired /\ s.source = agent.source
      /\ s.player = agent.player /\ s.disturbed = agent.disturbed /\ s.again = agent.again /\ s.halted = agent.halted
      /\ agent.tasks \in Seq(AgentTasks)
  BY <1>2 DEF Aside, SpeechTypeOK, AgentTypeOK
<1>4. agent'.disturbed = agent.disturbed /\ agent'.again = agent.again /\ agent'.halted = agent.halted
  BY <1>2, <1>3 DEF FocusGiven
<1> SUFFICES ASSUME Undisturbed' PROVE SourceHolds(agent)' /\ FocusHolds(agent)' /\ CallerHolds(agent)'
  BY DEF SilentInv
<1>5. Undisturbed
  BY <1>1, <1>4, Zenon DEF Undisturbed, Running
<1>6. SourceHolds(agent) /\ FocusHolds(agent) /\ CallerHolds(agent) /\ shutdown = "no"
  BY <1>5 DEF SilentInv, Undisturbed
<1>7. CASE agent' = s /\ UNCHANGED <<channel, caller>>
  <2>1. SourceHolds(agent)'
    BY <1>3, <1>6, <1>7 DEF SourceHolds, IsPending, InOrder
  <2>2. FocusHolds(agent)'
    BY <1>3, <1>6, <1>7 DEF FocusHolds, IsPending, InOrder
  <2>3. CallerHolds(agent)'
    BY <1>3, <1>6, <1>7 DEF CallerHolds
  <2> QED BY <2>1, <2>2, <2>3
<1>8. ASSUME agent'.tasks = Append(agent.tasks, OwnTask("stateChange"))
      PROVE  /\ \A op : IsPending(agent', op) <=> IsPending(agent, op) \/ op = "stateChange"
             /\ \A a, b : InOrder(agent, a, b) /\ (a = "stateChange" => ~IsPending(agent, b)) => InOrder(agent', a, b)
  <2>1. OwnTask("stateChange") \in AgentTasks /\ OwnTask("stateChange").op = "stateChange"
    BY OwnTasks DEF OwnTask, OwnOps
  <2> QED BY <1>3, <1>8, <2>1, AppendTasks
<1>9. CASE channel = "FOREGROUND" /\ FocusGiven(s, "NONE")
  <2>1. /\ channel' = "NONE" /\ agent'.desired = "FINISHED" /\ agent'.source = agent.source /\ agent'.player = agent.player
        /\ agent'.state = agent.state
        /\ \/ agent.state = "FINISHED" /\ agent'.tasks = agent.tasks /\ caller' = caller
           \/ caller' = "waiting" /\ agent'.tasks = Append(agent.tasks, OwnTask("stateChange"))
    BY <1>3, <1>6, <1>9 DEF FocusGiven
  <2>2. SourceHolds(agent')
    <3>1. CASE agent'.tasks = agent.tasks
      BY <1>6, <2>1, <3>1 DEF SourceHolds, IsPending, InOrder
    <3>2. CASE agent'.tasks = Append(agent.tasks, OwnTask("stateChange"))
      BY <1>6, <1>8, <2>1, <3>2 DEF SourceHolds
    <3> QED BY <2>1, <3>1, <3>2
  <2>3. FocusHolds(agent)'
    BY <2>1 DEF FocusHolds
  <2>4. CallerHolds(agent)'
    BY <1>1, <1>6, <2>1 DEF CallerHolds
  <2> QED BY <2>2, <2>3, <2>4, Zenon
<1>10. CASE channel = "NONE" /\ FocusGiven(s, "FOREGROUND")
  <2>1. agent.state = "FINISHED" /\ agent.source = None
    BY <1>1, <1>6, <1>10 DEF CallerHolds, SourceHolds
  <2>2. /\ channel' = "FOREGROUND" /\ agent'.source = None /\ agent'.player = agent.player
        /\ agent'.state = "GAINING_FOCUS" /\ caller' = "waiting"
        /\ agent'.tasks = Append(agent.tasks, OwnTask("stateChange"))
    BY <1>3, <1>6, <1>10, <2>1 DEF FocusGiven
  <2>3. ~IsPending(agent, "finished") /\ ~IsPending(agent, "started") /\ agent.player = Silent
    BY <1>6, <2>1 DEF SourceHolds
  <2>4. SourceHolds(agent')
    BY <1>6, <1>8, <2>2, <2>3 DEF SourceHolds
  <2>5. InOrder(agent', "stateChange", "finished")
    <3>1. InOrder(agent, "stateChange", "finished")
      BY <2>3 DEF IsPending, InOrder
    <3> QED BY <1>8, <2>2, <2>3, <3>1
  <2>6. FocusHolds(agent)'
    <3>1. InOrder(agent, "stateChange", "finished")'
      BY <2>5, Zenon
    <3> QED BY <2>2, <3>1 DEF FocusHolds
  <2>7. CallerHolds(agent)'
    BY <2>2 DEF CallerHolds
  <2> QED BY <2>4, <2>6, <2>7, Zenon
<1> QED BY <1>2, <1>7, <1>9, <1>10

LEMMA TimeoutSilent ==
  ASSUME SpeechTypeOK, FrontInv, SilentInv, Wake \/ Timeout \/ ReportTimeout \/ StopAfterTimeout
  PROVE  SilentInv'
<1>1. AgentTypeOK(agent) /\ FrontHolds(agent) /\ DOMAIN agent = Fields
  BY DEF SpeechTypeOK, FrontInv, AgentTypeOK
<1>2. CASE Wake
  <2>1. caller = "waiting" /\ agent.state = agent.desired /\ caller' = "away" /\ UNCHANGED <<agent, channel, shutdown>>
    BY <1>2 DEF Wake
  <2> SUFFICES ASSUME Undisturbed' PROVE SourceHolds(agent)' /\ FocusHolds(agent)' /\ CallerHolds(agent)'
    BY DEF SilentInv
  <2>2. Undisturbed
    BY <2>1, Zenon DEF Undisturbed, Running
  <2>3. SourceHolds(agent) /\ FocusHolds(agent)
    BY <2>2 DEF SilentInv
  <2>4. agent.state # "GAINING_FOCUS"
    BY <1>1, <2>1 DEF AgentTypeOK
  <2>5. SourceHolds(agent)'
    BY <2>1, <2>3 DEF SourceHolds, IsPending, InOrder
  <2>6. FocusHolds(agent)'
    BY <2>1, <2>3 DEF FocusHolds, IsPending, InOrder
  <2>7. CallerHolds(agent)'
    BY <2>1, <2>3, <2>4 DEF CallerHolds, FocusHolds
  <2> QED BY <2>5, <2>6, <2>7
<1>3. CASE Timeout
  <2>1. agent'.disturbed = TRUE
    BY <1>1, <1>3 DEF Timeout, Fields
  <2> QED BY <2>1, Zenon DEF SilentInv, Undisturbed
<1>4. CASE ReportTimeout \/ StopAfterTimeout
  <2> SUFFICES ASSUME Undisturbed' PROVE FALSE
    BY DEF SilentInv
  <2>1. caller \in {"reporting", "stopping"} /\ UNCHANGED shutdown /\ Running
        /\ agent' \in {Crashed(agent), ReportedFailed(agent, agent.current), StopPlaying(agent)}
    BY <1>4 DEF ReportTimeout, StopAfterTimeout
  <2>2. agent' # Crashed(agent)
    <3>1. agent'.halted = "no"
      BY Zenon DEF Undisturbed, Running
    <3> QED BY <1>1, <3>1, CrashedIs
  <2>3. Alike(agent, agent')
    <3>1. Alike(agent, ReportedFailed(agent, agent.current)) /\ Alike(agent, StopPlaying(agent))
      BY <1>1, ReportedAside, AsideHandled, StopHandled
    <3> QED BY <2>1, <2>2, <3>1
  <2>4. Undisturbed
    BY <2>1, <2>3, Zenon DEF Undisturbed, Alike
  <2> QED BY <2>1, <2>4 DEF SilentInv, CallerHolds
<1> QED BY <1>2, <1>3, <1>4

LEMMA SilentGoesOn ==
  SpeechTypeOK /\ FrontInv /\ SilentInv /\ [SpeechNext]_speechVars => SilentInv'
<1> SUFFICES ASSUME SpeechTypeOK, FrontInv, SilentInv, [SpeechNext]_speechVars PROVE SilentInv'
  OBVIOUS
<1>1. CASE UNCHANGED speechVars
  BY <1>1 DEF speechVars, SilentInv, Undisturbed, Running, SourceHolds, FocusHolds, CallerHolds, IsPending, InOrder
<1>2. ASSUME NEW d \in Directives,
             PreHandleDirective(d) \/ HandleDirective(d) \/ HandleDirectiveImmediately(d) \/ CancelDirective(d)
      PROVE  SilentInv'
  <2>1. UNCHANGED <<channel, caller, shutdown>>
    BY <1>2, SequencerFront
  <2>2. PICK op \in DirectiveOps : PostedAs(agent, agent', [op |-> op, directive |-> d])
    BY <1>2, SequencerFront
  <2> DEFINE x == [op |-> op, directive |-> d]
  <2>3. x \in AgentTasks /\ x.op \notin {"started", "finished", "stateChange"}
    BY DEF AgentTasks, DirectiveOps
  <2>4. PostedAs(agent, agent', x)
    BY <2>2
  <2> HIDE DEF x
  <2> QED BY <2>1, <2>3, <2>4, PostedSilent
<1>3. CASE OnDialogUXStateChanged
  <2>1. agent' = Posted(agent, "idle", None) /\ UNCHANGED <<channel, caller, shutdown>> /\ AgentTypeOK(agent)
    BY <1>3 DEF OnDialogUXStateChanged, SpeechTypeOK
  <2>2. OwnTask("idle") \in AgentTasks /\ OwnTask("idle").op = "idle"
    BY OwnTasks DEF OwnOps, OwnTask
  <2>3. PostedAs(agent, agent', OwnTask("idle"))
    BY <2>1, <2>2, PostedIs DEF OwnTask
  <2> QED BY <2>1, <2>2, <2>3, PostedSilent
<1>4. CASE ShutdownPlayer \/ ShutdownQueue \/ ShutdownExecutor
  <2>1. shutdown' # "no"
    BY <1>4 DEF ShutdownPlayer, ShutdownQueue, ShutdownExecutor
  <2> QED BY <2>1 DEF SilentInv, Undisturbed
<1> QED BY <1>1, <1>2, <1>3, <1>4, ExecuteSilent, PlayerSilent, FocusSilent, TimeoutSilent DEF SpeechNext, FocusManager

\* For any directives and any coming and going of the channel: the player is silent when
\* onFocusChanged(NONE) has returned, so that nothing is heard over another observer, unless there
\* was an error or a timeout, or the player was given a source while it had one.
THEOREM SilentUnlessFocused == SpeechSpec => []SilentWithoutFocus
<1>1. SpeechInit => SilentInv
  <2> SUFFICES ASSUME SpeechInit PROVE SilentInv
    OBVIOUS
  <2>1. agent.tasks = << >> /\ agent.state = "FINISHED" /\ agent.desired = "FINISHED" /\ agent.source = None
        /\ agent.player = Silent /\ channel = "NONE" /\ caller = "away"
    BY DEF SpeechInit
  <2> QED BY <2>1 DEF SilentInv, SourceHolds, FocusHolds, CallerHolds, IsPending, InOrder
<1>2. SpeechTypeOK /\ FrontInv /\ SilentInv /\ [SpeechNext]_speechVars => SilentInv'
  BY SilentGoesOn
<1>3. SilentInv => SilentWithoutFocus
  BY Zenon DEF SilentInv, Undisturbed, SilentWithoutFocus, SourceHolds, CallerHolds
<1> QED BY <1>1, <1>2, <1>3, SpeechInvariant, PTL DEF SpeechSpec
=============================================================================
