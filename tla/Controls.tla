------------------------------ MODULE Controls ------------------------------
(***************************************************************************)
(* The settings menu over the input host: devices are chosen from the host's*)
(* catalogue, and bindings captured from the frames it takes, while pads    *)
(* come and go.  All of it is one thread, that of the window: a message, a  *)
(* click and a save are each handled before the next, and only the user, the*)
(* disk and the end of the process come in between.                         *)
(***************************************************************************)
EXTENDS InputHost, SettingsMenu

CONSTANT
    MaxEvents           \* bound: what the user does to pads and in menus

ASSUME ControlsAssumption == MaxEvents \in Nat

VARIABLES
    capture,            \* the control asked for and how its device was held then
    events              \* how much the user has done

vars == <<hostVars, settingsVars, capture, events>>

NoCapture == <<>>
Capturing == capture # NoCapture

Init == HostInit /\ SettingsInit /\ capture = NoCapture /\ events = 0

UserEvent == events < MaxEvents /\ events' = events + 1

-----------------------------------------------------------------------------
\* What happens to the pads in the course of a save, or while there is no process,
\* nobody sees before it is over: it happens then.
World ==
    /\ Idle /\ UserEvent
    /\ \/ \E d \in Pads : Plug(d) \/ Unplug(d)
       \/ \E d \in HidPads : \E s \in Positions[d] : Hold(d, s)
    /\ UNCHANGED <<settingsVars, capture>>

\* WM_DEVICECHANGE and WM_INPUT
Host ==
    /\ Idle
    /\ \E found \in SUBSET Pads : RefreshDevices(found) \/ HandleRawInput(found)
    /\ UNCHANGED <<settingsVars, capture, events>>

\* A new process has a new host, and a queue of its own.
Start ==
    /\ Launch
    /\ registry' = {Keyboard} \cup plugged /\ hidStates' = <<>>
    /\ UNCHANGED <<worldVars, capture, events>>

End ==
    /\ Die
    /\ inbox' = <<>> /\ registry' = {Keyboard} /\ hidStates' = <<>>
    /\ capture' = NoCapture
    /\ UNCHANGED <<plugged, held, events>>

Alter ==
    /\ \/ \E page \in Pages, p \in Players : MoveCursor(page, p)
       \/ \E g \in Graphics : SetGraphics(g)
       \/ \E a \in Audio : SetAudio(a)
       \/ \E p \in Players, d \in Devices : SelectDevice(p, d, registry)
    /\ ~Capturing /\ UserEvent
    /\ UNCHANGED <<hostVars, capture>>

Settle ==
    /\ \/ \E r \in Roots : ChooseRoot(r)
       \/ OpenMenu \/ Commit \/ Discard \/ CloseMenu \/ Save
    /\ ~Capturing
    /\ UNCHANGED <<hostVars, capture, events>>

-----------------------------------------------------------------------------
(* Capturing a binding.  The frame before is the one taken when it is asked *)
(* for; of it only the device concerned is kept.                            *)

BeginCapture(p, a, d) ==
    /\ Idle /\ open /\ ~Capturing /\ d \in registry /\ UserEvent
    /\ \E frame \in Snapshots :
        capture' = [player |-> p, action |-> a, device |-> d,
                    before |-> [e \in {d} \cap DOMAIN frame |-> frame[e]]]
    /\ UNCHANGED <<hostVars, settingsVars>>

\* capture_binding and, when it finds one, bind_action
EndCapture ==
    /\ Capturing
    /\ \E frame \in Snapshots : \E b \in Captured(capture.device, capture.before, frame) :
        BindAction(capture.player, capture.action, b)
    /\ capture' = NoCapture
    /\ UNCHANGED <<hostVars, events>>

GiveUpCapture ==
    /\ Capturing /\ Idle
    /\ capture' = NoCapture
    /\ UNCHANGED <<hostVars, settingsVars, events>>

Next ==
    \/ World \/ Host \/ Start \/ End \/ Alter \/ Settle
    \/ \E p \in Players, a \in Actions, d \in Devices : BeginCapture(p, a, d)
    \/ EndCapture \/ GiveUpCapture

Spec == Init /\ [][Next]_vars

TypeOK ==
    /\ HostTypeOK /\ SettingsTypeOK /\ events \in 0..MaxEvents
    /\ Capturing => /\ open
                    /\ capture.player \in Players /\ capture.action \in Actions
                    /\ capture.device \in Devices
                    /\ DOMAIN capture.before \subseteq {capture.device}
                    /\ \A d \in DOMAIN capture.before : capture.before[d] \in State(d)
=============================================================================
