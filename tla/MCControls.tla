----------------------------- MODULE MCControls -----------------------------
(***************************************************************************)
(* Two players with one action each; a keyboard of one key, one XInput slot *)
(* and one HID pad, both with a button and an axis.                         *)
(***************************************************************************)
EXTENDS Controls, TLC

CONSTANTS act, slot, pad, key, btn, axis, r1, g1, g2, g3, a1, a3

Pressed == [Neutral EXCEPT !.pressed = {btn}]
Tilted == [Neutral EXCEPT !.axes[axis] = 1]
TheirPositions == (slot :> {Neutral, Pressed, Tilted}) @@ (pad :> {Neutral, Pressed})

OnKey == [device |-> Keyboard, kind |-> "keyboard_key", code |-> key]
OnPad == [device |-> pad, kind |-> "gamepad_axis", code |-> <<axis, "-">>]

KeysForAll == [p \in Players |-> [a \in Actions |-> OnKey]]

\* Nothing; a file of an older version, in which player one has a pad that is not
\* there; one with a line that does not parse; and one out of range.
Files ==
    {<<>>,
     <<Line("selected_device", 0, "none", pad), Line("bind", 0, act, OnPad)>>,
     <<Line("selected_device.p", 2, "none", pad), Line(Unparsable, 0, "none", "none")>>,
     <<Line("graphics", 0, "none", g3)>>}
=============================================================================
