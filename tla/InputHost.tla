------------------------------ MODULE InputHost ------------------------------
(***************************************************************************)
(* Win32InputHost (src/platform/windows/controller_win32.cpp): a catalogue *)
(* of devices that is refreshed when its owner says so, and the states of  *)
(* HID controllers, which come as Raw Input messages and are kept between  *)
(* them.  XInput slots and the keyboard are asked when a frame is taken.   *)
(*                                                                         *)
(* The world is the user, who plugs, unplugs and presses at any moment, and*)
(* Windows, which queues a message for the reports of a controller and may *)
(* put several into one (RAWHID.dwCount).                                  *)
(***************************************************************************)
EXTENDS Input, Sequences

CONSTANTS
    Positions,          \* states each controller can be held in
    MaxReports,         \* bound: reports in one message
    MaxMessages         \* bound: messages in the queue

Pads == XInputPads \cup HidPads
Gone == "gone"          \* the sender of a message, once it was unplugged
AllPositions == UNION {Positions[d] : d \in Pads}
Neutral == [pressed |-> {}, axes |-> [x \in Axes |-> 0]]
Unheard == [pressed |-> {}, axes |-> <<>>]     \* a HID pad that has not reported

ASSUME InputHostAssumption ==
    /\ Gone \notin HidPads
    /\ \A d \in Pads :
        /\ Neutral \in Positions[d]
        /\ Positions[d] \subseteq [pressed : SUBSET Buttons, axes : [Axes -> Levels]]
    /\ MaxReports \in Nat \ {0} /\ MaxMessages \in Nat \ {0}

VARIABLES
    plugged,            \* controllers that are there
    held,               \* how each HID controller is held
    inbox,              \* WM_INPUT messages not yet handled
    registry,           \* registry_
    hidStates           \* hid_states_

worldVars == <<plugged, held, inbox>>
hostVars == <<plugged, held, inbox, registry, hidStates>>

Message == UNION {[device : {d, Gone}, reports : Seq(Positions[d])] : d \in HidPads}

HostTypeOK ==
    /\ plugged \subseteq Pads
    /\ DOMAIN held = HidPads /\ \A d \in HidPads : held[d] \in Positions[d]
    /\ inbox \in Seq(Message) /\ \A i \in DOMAIN inbox : inbox[i].reports # <<>>
    /\ registry \subseteq Devices /\ Keyboard \in registry
    /\ DOMAIN hidStates \subseteq HidPads
    /\ \A d \in DOMAIN hidStates : hidStates[d] \in State(d)

\* The constructor refreshes; nothing is plugged in yet.
HostInit ==
    /\ plugged = {} /\ held = [d \in HidPads |-> Neutral] /\ inbox = <<>>
    /\ registry = {Keyboard} /\ hidStates = <<>>

-----------------------------------------------------------------------------
(* The world                                                               *)

Plug(d) ==
    /\ d \in Pads \ plugged
    /\ plugged' = plugged \cup {d}
    /\ UNCHANGED <<held, inbox, registry, hidStates>>

\* What is queued stays queued, but its device handle means nothing any more.
Unplug(d) ==
    /\ d \in plugged
    /\ plugged' = plugged \ {d}
    /\ held' = [h \in HidPads |-> IF h = d THEN Neutral ELSE held[h]]
    /\ inbox' = [i \in DOMAIN inbox |->
                    IF inbox[i].device = d THEN [inbox[i] EXCEPT !.device = Gone] ELSE inbox[i]]
    /\ UNCHANGED <<registry, hidStates>>

\* A report joins the message before it, or starts one.
Reported(d, s) ==
    \/ /\ Len(inbox) < MaxMessages
       /\ inbox' = Append(inbox, [device |-> d, reports |-> <<s>>])
    \/ /\ inbox # <<>>
       /\ LET last == inbox[Len(inbox)]
          IN  /\ last.device = d /\ Len(last.reports) < MaxReports
              /\ inbox' = [inbox EXCEPT ![Len(inbox)].reports = Append(last.reports, s)]

Hold(d, s) ==
    /\ d \in plugged \cap HidPads /\ s \in Positions[d] \ {held[d]}
    /\ held' = [held EXCEPT ![d] = s]
    /\ Reported(d, s)
    /\ UNCHANGED <<plugged, registry, hidStates>>

-----------------------------------------------------------------------------
(* The host                                                                *)

\* enumerate_input_devices: every controller is asked on its own, and one that
\* does not answer is not in the list.
Enumerated(found) == {Keyboard} \cup found

Kept(states, catalogue) == [d \in DOMAIN states \cap catalogue |-> states[d]]

\* Mutant of Refreshed: the states of devices that are gone are kept.
RefreshedOnly(states, found) ==
    /\ registry' = Enumerated(found)
    /\ hidStates' = states

\* refresh_devices, from the states it finds.
Refreshed(states, found) ==
    /\ registry' = Enumerated(found)
    /\ hidStates' = Kept(states, Enumerated(found))

RefreshDevices(found) ==
    /\ found \subseteq plugged
    /\ Refreshed(hidStates, found)
    /\ UNCHANGED worldVars

\* Mutant of Decoded: the first report of a message is taken for all.
DecodedFirst(reports) == reports[1]

\* decode_hid_report of every report, one after another, into one state: buttons
\* are only ever added, axes are overwritten.
Decoded(reports) ==
    [pressed |-> UNION {reports[i].pressed : i \in DOMAIN reports},
     axes |-> reports[Len(reports)].axes]

With(states, d, s) == [e \in DOMAIN states \cup {d} |-> IF e = d THEN s ELSE states[e]]

\* handle_raw_input.  The name of a device that is gone cannot be asked; one that
\* is not in the catalogue has it refreshed, and the changes are dropped.
HandleRawInput(found) ==
    /\ inbox # <<>> /\ found \subseteq plugged
    /\ LET m == Head(inbox)
           states == With(hidStates, m.device, Decoded(m.reports))
       IN  IF m.device = Gone THEN UNCHANGED <<registry, hidStates>>
           ELSE IF m.device \in registry THEN hidStates' = states /\ UNCHANGED registry
           ELSE Refreshed(states, found)
    /\ inbox' = Tail(inbox)
    /\ UNCHANGED <<plugged, held>>

\* snapshot, with what the keyboard and the XInput slots answer.
Snapshot(keys, slots) ==
    [d \in {Keyboard} \cup (registry \cap (HidPads \cup (plugged \cap XInputPads))) |->
        IF d = Keyboard THEN [pressed |-> keys, axes |-> <<>>]
        ELSE IF d \in XInputPads THEN slots[d]
        ELSE IF d \in DOMAIN hidStates THEN hidStates[d]
        ELSE Unheard]

Snapshots ==
    {Snapshot(keys, slots) : keys \in SUBSET Keys,
                             slots \in {f \in [XInputPads -> AllPositions] :
                                            \A d \in XInputPads : f[d] \in Positions[d]}}

HostNext ==
    \/ \E d \in Pads : Plug(d) \/ Unplug(d)
    \/ \E d \in HidPads : \E s \in Positions[d] : Hold(d, s)
    \/ \E found \in SUBSET Pads : RefreshDevices(found) \/ HandleRawInput(found)

HostSpec == HostInit /\ [][HostNext]_hostVars

-----------------------------------------------------------------------------
\* No state is kept of a device that is not in the catalogue, although states
\* come with messages and the catalogue with refreshes: what is unplugged speaks
\* no more once the catalogue was refreshed, and comes back unheard.
StatesAreCatalogued == DOMAIN hidStates \subseteq registry

Quiet(d) == d \in plugged /\ \A i \in DOMAIN inbox : inbox[i].device # d

\* Once its messages are handled no button that is held on a controller is missing
\* from its state, however its reports were spread over messages.
NoPressMissed ==
    \A d \in DOMAIN hidStates :
        Quiet(d) => held[d].pressed \subseteq hidStates[d].pressed

\* What the settings and input design says of a device state: its buttons are those
\* currently pressed.
HeldIsCurrent ==
    \A d \in DOMAIN hidStates :
        Quiet(d) => hidStates[d].pressed \subseteq held[d].pressed
=============================================================================
