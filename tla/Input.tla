-------------------------------- MODULE Input --------------------------------
(***************************************************************************)
(* The portable half of the input contract, src/core/input.cpp: bindings,  *)
(* which of them a frame activates, how a new one is captured, and what a  *)
(* refresh of the device catalogue reports.                                *)
(*                                                                         *)
(* Device ids and codes are atoms: no host makes one with a `|' or a blank *)
(* at its end, the only text a settings file would not give back.  An axis *)
(* is where it stands to the activation threshold: -1 at or beyond the     *)
(* negative one, 1 at or beyond the positive one, else 0.                  *)
(***************************************************************************)
EXTENDS Integers

CONSTANTS
    Players,
    Actions,            \* all_game_actions()
    XInputPads,         \* ids of XInput slots
    HidPads,            \* ids of HID controllers
    Keys,               \* codes of keys,
    Buttons,            \* of buttons
    Axes                \* and of axes, whose bindings end in + or -

Keyboard == "keyboard:default"
Devices == {Keyboard} \cup XInputPads \cup HidPads

ASSUME InputAssumption ==
    /\ Keyboard \notin XInputPads \cup HidPads
    /\ XInputPads \cap HidPads = {}
    /\ Keys \cap Buttons = {}

AxisCodes == Axes \X {"+", "-"}

\* InputBinding
Binding ==
    [device : Devices, kind : {"keyboard_key"}, code : Keys]
    \cup [device : Devices, kind : {"gamepad_button"}, code : Buttons]
    \cup [device : Devices, kind : {"gamepad_axis"}, code : AxisCodes]

\* InputDeviceState.  A controller may not have told of all its axes yet.
Levels == {-1, 0, 1}
State(d) ==
    IF d = Keyboard
    THEN [pressed : SUBSET Keys, axes : {<<>>}]
    ELSE [pressed : SUBSET Buttons, axes : UNION {[known -> Levels] : known \in SUBSET Axes}]

\* What a binding of an axis in a direction needs of a state.
Deflected(state, code) ==
    code[1] \in DOMAIN state.axes /\ state.axes[code[1]] = IF code[2] = "+" THEN 1 ELSE -1

\* binding_active
BindingActive(b, d, state) ==
    IF b.kind = "keyboard_key" THEN d = Keyboard /\ b.code \in state.pressed
    ELSE IF b.kind = "gamepad_button" THEN d # Keyboard /\ b.code \in state.pressed
    ELSE d # Keyboard /\ Deflected(state, b.code)

\* resolve_player_actions: a frame maps the devices it shows to their states.
Resolve(bindings, frame) ==
    [p \in Players |-> {a \in Actions :
        LET b == bindings[p][a]
        IN  b.device \in DOMAIN frame /\ BindingActive(b, b.device, frame[b.device])}]

-----------------------------------------------------------------------------
\* The state of a device in the previous frame, if it was there.
Before(previous, d) ==
    IF d \in DOMAIN previous THEN previous[d] ELSE [pressed |-> {}, axes |-> <<>>]

LevelBefore(previous, d, axis) ==
    LET axes == Before(previous, d).axes
    IN  IF axis \in DOMAIN axes THEN axes[axis] ELSE 0

\* capture_binding: the first new key or button, else the first axis that has
\* newly crossed the threshold.  The order of codes is left open; {} is a failure.
Captured(d, previous, current) ==
    IF d \notin DOMAIN current THEN {}
    ELSE LET now == current[d]
             new == now.pressed \ Before(previous, d).pressed
             kind == IF d = Keyboard THEN "keyboard_key" ELSE "gamepad_button"
             crossed == {c \in AxisCodes :
                            /\ d # Keyboard /\ Deflected(now, c)
                            /\ LevelBefore(previous, d, c[1]) # now.axes[c[1]]}
         IN  IF new # {}
             THEN {[device |-> d, kind |-> kind, code |-> c] : c \in new}
             ELSE {[device |-> d, kind |-> "gamepad_axis", code |-> c] : c \in crossed}

-----------------------------------------------------------------------------
\* InputDeviceRegistry::refresh: what is reported when the catalogue changes.
Change == [kind : {"connected", "disconnected"}, device : Devices]

Changes(old, new) ==
    {[kind |-> "disconnected", device |-> d] : d \in old \ new}
    \cup {[kind |-> "connected", device |-> d] : d \in new \ old}

\* The catalogue of a consumer that follows the reports.
Following(catalogue, changes) ==
    (catalogue \ {c.device : c \in {x \in changes : x.kind = "disconnected"}})
    \cup {c.device : c \in {x \in changes : x.kind = "connected"}}
=============================================================================
