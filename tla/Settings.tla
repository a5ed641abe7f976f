------------------------------ MODULE Settings ------------------------------
(***************************************************************************)
(* AppSettings and its text form, src/core/settings.cpp: what is valid, the*)
(* lines save_settings_atomic writes and what load_settings makes of lines,*)
(* those of older versions and of an editor included.                      *)
(*                                                                         *)
(* The nine keys of graphics and the four of audio are one line each, with *)
(* a value in range or not; a line is a key and a value already parsed, or *)
(* one that cannot be.  Blank lines, comments, unknown keys and install_dir*)
(* are left out: loading passes over the first three.                      *)
(***************************************************************************)
EXTENDS Input, SequencesExt

CONSTANTS
    Roots,              \* install roots; NoRoot is the empty path
    Graphics,           \* GraphicsSettings in range, and out of it
    GraphicsInRange,
    Audio,              \* AudioSettings likewise
    AudioInRange,
    DefaultGraphics, DefaultAudio,
    DefaultBindings     \* default_bindings, for each player

NoRoot == "none"
PlayerOne == CHOOSE p \in Players : \A q \in Players : p <= q

ASSUME SettingsAssumption ==
    /\ Players \subseteq Nat /\ Players # {} /\ IsFiniteSet(Players)
    /\ IsFiniteSet(Actions) /\ NoRoot \notin Roots
    /\ DefaultGraphics \in GraphicsInRange /\ GraphicsInRange \subseteq Graphics
    /\ DefaultAudio \in AudioInRange /\ AudioInRange \subseteq Audio
    /\ DefaultBindings \in [Players -> [Actions -> Binding]]

AppSettings ==
    [install_root : Roots \cup {NoRoot},
     graphics : Graphics, audio : Audio,
     selected : [Players -> Devices],
     bindings : [Players -> [Actions -> Binding]]]

Defaults ==
    [install_root |-> NoRoot, graphics |-> DefaultGraphics, audio |-> DefaultAudio,
     selected |-> [p \in Players |-> Keyboard], bindings |-> DefaultBindings]

\* validate_graphics, validate_audio; validate_input asks for ids and codes that
\* are not empty, and every Device and Binding has them.
Valid(s) == s.graphics \in GraphicsInRange /\ s.audio \in AudioInRange

-----------------------------------------------------------------------------
(* Lines                                                                   *)

Line(key, player, action, value) ==
    [key |-> key, player |-> player, action |-> action, value |-> value]

Global(key, value) == Line(key, 0, "none", value)

\* A key of an older version speaks of player one.
Legacy(key) == key \in {"selected_device", "bind"}

\* The key of a line whose key is known and whose value does not parse.
Unparsable == "unparsable"

\* Lines whose values have been parsed, as an earlier version or an editor may have
\* left them.
Parsed ==
    [key : {"install_root"}, player : {0}, action : {"none"}, value : Roots \cup {NoRoot}]
    \cup [key : {"graphics"}, player : {0}, action : {"none"}, value : Graphics]
    \cup [key : {"audio"}, player : {0}, action : {"none"}, value : Audio]
    \cup [key : {"selected_device"}, player : {0}, action : {"none"}, value : Devices]
    \cup [key : {"selected_device.p"}, player : Players, action : {"none"}, value : Devices]
    \cup [key : {"bind"}, player : {0}, action : Actions, value : Binding]
    \cup [key : {"bind.p"}, player : Players, action : Actions, value : Binding]
    \cup [key : {Unparsable}, player : {0}, action : {"none"}, value : {"none"}]

InSomeOrder(S) == SetToSeq(S)

\* Mutant of Lines: the second player's lines are taken for the first's.
LinesOfOne(s) ==
    <<Global("install_root", s.install_root), Global("graphics", s.graphics),
      Global("audio", s.audio)>>
    \o InSomeOrder({Line("selected_device.p", PlayerOne, "none", s.selected[p]) : p \in Players})
    \o InSomeOrder({Line("bind.p", PlayerOne, a, s.bindings[p][a]) : p \in Players, a \in Actions})

\* What save_settings_atomic writes.
Lines(s) ==
    <<Global("install_root", s.install_root), Global("graphics", s.graphics),
      Global("audio", s.audio)>>
    \o InSomeOrder({Line("selected_device.p", p, "none", s.selected[p]) : p \in Players})
    \o InSomeOrder({Line("bind.p", p, a, s.bindings[p][a]) : p \in Players, a \in Actions})

\* The setting a line is of.
Target(line) ==
    LET player == IF Legacy(line.key) THEN PlayerOne ELSE line.player
    IN  IF line.key \in {"selected_device", "selected_device.p"}
        THEN <<"selected", player, line.action>>
        ELSE IF line.key \in {"bind", "bind.p"} THEN <<"bindings", player, line.action>>
        ELSE <<line.key, player, line.action>>

LinesOf(lines, target) == {i \in DOMAIN lines : Target(lines[i]) = target}

\* The loop of load_settings: each line overwrites what one before it gave.
Given(lines, target, default) ==
    LET mine == LinesOf(lines, target)
    IN  IF mine = {} THEN default ELSE lines[Max(mine)].value

\* What the settings are after the last line.
Content(lines) ==
    [install_root |-> Given(lines, <<"install_root", 0, "none">>, NoRoot),
     graphics |-> Given(lines, <<"graphics", 0, "none">>, DefaultGraphics),
     audio |-> Given(lines, <<"audio", 0, "none">>, DefaultAudio),
     selected |-> [p \in Players |-> Given(lines, <<"selected", p, "none">>, Keyboard)],
     bindings |-> [p \in Players |-> [a \in Actions |->
                    Given(lines, <<"bindings", p, a>>, DefaultBindings[p][a])]]]

\* load_settings, and what is in force when it fails: a line that cannot be parsed, or
\* a result that is not valid, and nothing of the file is loaded.
Parses(lines) == \A i \in DOMAIN lines : lines[i].key # Unparsable

Loaded(lines) ==
    LET s == Content(lines) IN IF Parses(lines) /\ Valid(s) THEN s ELSE Defaults
=============================================================================
