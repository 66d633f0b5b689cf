--------------------------- MODULE MCFocusManager ---------------------------
(* Three channels and four activities: two of one interface on the same     *)
(* channel, each with its own observer, for TLC.                            *)
EXTENDS FocusManager, TLC

CONSTANTS dialog, alerts, content, a1, a2, a3, a4, o1, o2, o3

MCChannels == {dialog, alerts, content}
MCPriority == (dialog :> 100) @@ (alerts :> 200) @@ (content :> 300)
MCActivities == {a1, a2, a3, a4}
MCChannelOf == (a1 :> dialog) @@ (a2 :> dialog) @@ (a3 :> alerts) @@ (a4 :> content)
MCObserverOf == (a1 :> o1) @@ (a2 :> o2) @@ (a3 :> o3) @@ (a4 :> o3)
MCInterfaceOf == (a1 :> "SpeechSynthesizer") @@ (a2 :> "SpeechSynthesizer")
                 @@ (a3 :> "Alerts") @@ (a4 :> "AudioPlayer")
=============================================================================
