---------------------------- MODULE ControlsProofs ----------------------------
(***************************************************************************)
(* The settings menu over the input host, for any players, actions, pads,  *)
(* codes and settings, any files left by older versions, messages of any   *)
(* length and any number of events: a saved file loads to what was saved,  *)
(* only what is valid is ever in force, and no press is missed.            *)
(***************************************************************************)
EXTENDS Controls, FiniteSetTheorems, WellFoundedInduction, TLAPS

-----------------------------------------------------------------------------
(* The lines of a settings file.                                           *)

\* The last of some lines is one of them.
LEMMA LastOfSome ==
    ASSUME NEW n \in Nat, NEW S \in SUBSET (1 .. n), S # {}
    PROVE  Max(S) \in S
<1> DEFINE less == OpToRel(<, Nat)
<1>1. IsWellFoundedOn(less, Nat)
  BY NatLessThanWellFounded, Zenon
<1>2. \A a, b \in Nat : <<a, b>> \notin less => b <= a
  BY DEF OpToRel
<1> HIDE DEF less
<1> DEFINE down == {n - i : i \in S}
<1>3. down \subseteq Nat /\ down # {}
  <2>1. PICK i : i \in S
    OBVIOUS
  <2>2. n - i \in down
    BY <2>1
  <2>3. \A e \in S : n - e \in Nat
    OBVIOUS
  <2> QED BY <2>2, <2>3
<1>4. PICK x \in down : \A y \in down : <<y, x>> \notin less
  <2> HIDE DEF down
  <2> QED BY <1>1, <1>3, WFMin, Zenon
<1>5. \A y \in down : x <= y
  BY <1>2, <1>3, <1>4
<1>6. PICK i \in S : x = n - i
  BY <1>4
<1>7. ASSUME NEW j \in S PROVE i >= j
  BY <1>5, <1>6, <1>7
<1> QED
  BY <1>7 DEF Max

\* What a file gives a setting is the value of one of the setting's lines.
LEMMA GivenIs ==
    ASSUME NEW P, NEW lines \in Seq(P), NEW target, NEW default, NEW T, default \in T,
           \A i \in DOMAIN lines : Target(lines[i]) = target => lines[i].value \in T
    PROVE  Given(lines, target, default) \in T
<1> DEFINE mine == LinesOf(lines, target)
<1>1. mine \in SUBSET (1 .. Len(lines)) /\ Len(lines) \in Nat
  BY DEF LinesOf
<1>2. CASE mine = {}
  BY <1>2 DEF Given
<1>3. CASE mine # {}
  <2>1. Max(mine) \in mine
    <3> HIDE DEF mine
    <3> QED BY <1>1, <1>3, LastOfSome
  <2>2. lines[Max(mine)].value \in T
    BY <2>1 DEF LinesOf
  <2> QED
    BY <1>3, <2>2 DEF Given
<1> QED
  BY <1>2, <1>3

LEMMA PlayerOneIsOne == PlayerOne \in Players
<1> DEFINE less == OpToRel(<, Nat)
<1>1. IsWellFoundedOn(less, Nat)
  BY NatLessThanWellFounded, Zenon
<1>2. \A a, b \in Nat : <<a, b>> \notin less => b <= a
  BY DEF OpToRel
<1> HIDE DEF less
<1>3. PICK p \in Players : \A q \in Players : <<q, p>> \notin less
  BY <1>1, WFMin, SettingsAssumption, Zenon
<1>4. \A q \in Players : p <= q
  BY <1>2, <1>3, SettingsAssumption
<1> QED
  BY <1>3, <1>4 DEF PlayerOne

LEMMA DefaultsFit == Defaults \in AppSettings /\ Valid(Defaults)
BY SettingsAssumption DEF Defaults, AppSettings, Valid, Devices

\* Whatever lines there are, what they give is settings.
LEMMA ContentFits ==
    ASSUME NEW lines \in Seq(Parsed)
    PROVE  Content(lines) \in AppSettings
<1> DEFINE T(i) == Target(lines[i])
<1>0. ASSUME NEW i \in DOMAIN lines PROVE lines[i] \in Parsed
  BY <1>0
<1>1. Given(lines, <<"install_root", 0, "none">>, NoRoot) \in Roots \cup {NoRoot}
  <2>1. ASSUME NEW i \in DOMAIN lines, T(i) = <<"install_root", 0, "none">>
        PROVE  lines[i].value \in Roots \cup {NoRoot}
    BY <1>0, <2>1 DEF Parsed, Target, Unparsable
  <2> DEFINE R == Roots \cup {NoRoot}
  <2>2. NoRoot \in R
    OBVIOUS
  <2> HIDE DEF R
  <2> QED BY <2>1, <2>2, GivenIs DEF R
<1>2. Given(lines, <<"graphics", 0, "none">>, DefaultGraphics) \in Graphics
  <2>1. ASSUME NEW i \in DOMAIN lines, T(i) = <<"graphics", 0, "none">>
        PROVE  lines[i].value \in Graphics
    BY <1>0, <2>1 DEF Parsed, Target, Unparsable
  <2> QED BY <2>1, GivenIs, SettingsAssumption
<1>3. Given(lines, <<"audio", 0, "none">>, DefaultAudio) \in Audio
  <2>1. ASSUME NEW i \in DOMAIN lines, T(i) = <<"audio", 0, "none">>
        PROVE  lines[i].value \in Audio
    BY <1>0, <2>1 DEF Parsed, Target, Unparsable
  <2> QED BY <2>1, GivenIs, SettingsAssumption
<1>4. ASSUME NEW p \in Players
      PROVE  Given(lines, <<"selected", p, "none">>, Keyboard) \in Devices
  <2>1. ASSUME NEW i \in DOMAIN lines, T(i) = <<"selected", p, "none">>
        PROVE  lines[i].value \in Devices
    BY <1>0, <2>1 DEF Parsed, Target, Unparsable
  <2>2. Keyboard \in Devices
    BY DEF Devices
  <2> QED BY <2>1, <2>2, GivenIs
<1>5. ASSUME NEW p \in Players, NEW a \in Actions
      PROVE  Given(lines, <<"bindings", p, a>>, DefaultBindings[p][a]) \in Binding
  <2>1. ASSUME NEW i \in DOMAIN lines, T(i) = <<"bindings", p, a>>
        PROVE  lines[i].value \in Binding
    BY <1>0, <2>1 DEF Parsed, Target, Unparsable
  <2>2. DefaultBindings[p][a] \in Binding
    BY SettingsAssumption
  <2> QED BY <2>1, <2>2, GivenIs
<1> QED
  BY <1>1, <1>2, <1>3, <1>4, <1>5 DEF Content, AppSettings

LEMMA LoadedFits ==
    ASSUME NEW lines \in Seq(Parsed)
    PROVE  Loaded(lines) \in AppSettings /\ Valid(Loaded(lines))
BY ContentFits, DefaultsFit DEF Loaded

\* In some order: every element is there, and nothing else.
LEMMA InSomeOrderIs ==
    ASSUME NEW S, IsFiniteSet(S)
    PROVE  /\ InSomeOrder(S) \in Seq(S)
           /\ \A x \in S : \E i \in DOMAIN InSomeOrder(S) : InSomeOrder(S)[i] = x
<1> DEFINE n == Cardinality(S)
<1>1. n \in Nat /\ ExistsBijection(1 .. n, S)
  BY FS_CardinalityType
<1>2. PICK g \in Bijection(1 .. n, S) : TRUE
  BY <1>1 DEF ExistsBijection
<1>3. g \in [1 .. n -> S] /\ IsInjective(g)
  BY <1>2 DEF Bijection, Injection, Surjection, IsInjective
<1>4. InSomeOrder(S) \in [1 .. n -> S] /\ IsInjective(InSomeOrder(S))
  BY <1>3 DEF InSomeOrder, SetToSeq
<1>5. InSomeOrder(S) \in Injection(1 .. n, S)
  BY <1>4 DEF Injection, IsInjective
<1>6. IsFiniteSet(1 .. n) /\ Cardinality(1 .. n) = n
  BY <1>1, FS_Interval
<1>7. InSomeOrder(S) \in Surjection(1 .. n, S)
  BY <1>5, <1>6, FS_Injection
<1>8. InSomeOrder(S) \in Seq(S)
  BY <1>1, <1>4
<1> QED
  BY <1>4, <1>7, <1>8 DEF Surjection

Holds(lines, x) == \E i \in DOMAIN lines : lines[i] = x

LEMMA JoinedHolds ==
    ASSUME NEW A, NEW u \in Seq(A), NEW v \in Seq(A), NEW x
    PROVE  /\ u \o v \in Seq(A)
           /\ Holds(u \o v, x) <=> Holds(u, x) \/ Holds(v, x)
<1>1. ASSUME NEW i \in DOMAIN u PROVE i \in DOMAIN (u \o v) /\ (u \o v)[i] = u[i]
  OBVIOUS
<1>2. ASSUME NEW i \in DOMAIN v
      PROVE  Len(u) + i \in DOMAIN (u \o v) /\ (u \o v)[Len(u) + i] = v[i]
  OBVIOUS
<1>3. ASSUME NEW i \in DOMAIN (u \o v)
      PROVE  \/ i \in DOMAIN u /\ (u \o v)[i] = u[i]
             \/ i - Len(u) \in DOMAIN v /\ (u \o v)[i] = v[i - Len(u)]
  OBVIOUS
<1>4. u \o v \in Seq(A)
  OBVIOUS
<1>5. Holds(u, x) => Holds(u \o v, x)
  BY <1>1, Zenon DEF Holds
<1>6. Holds(v, x) => Holds(u \o v, x)
  BY <1>2, Zenon DEF Holds
<1>7. Holds(u \o v, x) => Holds(u, x) \/ Holds(v, x)
  BY <1>3, Zenon DEF Holds
<1> QED
  BY <1>4, <1>5, <1>6, <1>7

\* The lines of s, as a set.
SelectedLines(s) == {Line("selected_device.p", p, "none", s.selected[p]) : p \in Players}
BindingLines(s) == {Line("bind.p", p, a, s.bindings[p][a]) : p \in Players, a \in Actions}
SavedLines(s) ==
    {Global("install_root", s.install_root), Global("graphics", s.graphics),
     Global("audio", s.audio)}
    \cup SelectedLines(s) \cup BindingLines(s)

LEMMA FiniteLines ==
    ASSUME NEW s PROVE IsFiniteSet(SelectedLines(s)) /\ IsFiniteSet(BindingLines(s))
<1>1. IsFiniteSet(SelectedLines(s))
  <2> DEFINE f == [p \in Players |-> Line("selected_device.p", p, "none", s.selected[p])]
  <2>1. f \in Surjection(Players, SelectedLines(s))
    BY DEF Surjection, SelectedLines
  <2> QED BY <2>1, FS_Surjection, SettingsAssumption
<1>2. IsFiniteSet(BindingLines(s))
  <2> DEFINE f == [x \in Players \X Actions |->
                     Line("bind.p", x[1], x[2], s.bindings[x[1]][x[2]])]
  <2>1. f \in Surjection(Players \X Actions, BindingLines(s))
    <3>1. ASSUME NEW l \in BindingLines(s)
          PROVE  \E x \in Players \X Actions : f[x] = l
      <4>1. PICK p \in Players, a \in Actions : l = Line("bind.p", p, a, s.bindings[p][a])
        BY DEF BindingLines
      <4>2. <<p, a>> \in Players \X Actions /\ f[<<p, a>>] = l
        BY <4>1
      <4> QED BY <4>2
    <3>2. \A x \in Players \X Actions : f[x] \in BindingLines(s)
      BY DEF BindingLines
    <3> QED BY <3>1, <3>2 DEF Surjection
  <2>2. IsFiniteSet(Players \X Actions)
    BY FS_Product, SettingsAssumption
  <2> QED BY <2>1, <2>2, FS_Surjection
<1> QED BY <1>1, <1>2

LEMMA LinesHold ==
    ASSUME NEW s
    PROVE  /\ Lines(s) \in Seq(SavedLines(s))
           /\ \A x \in SavedLines(s) : Holds(Lines(s), x)
<1> DEFINE A == SavedLines(s)
           globals == <<Global("install_root", s.install_root), Global("graphics", s.graphics),
                        Global("audio", s.audio)>>
           selected == InSomeOrder(SelectedLines(s))
           bindings == InSomeOrder(BindingLines(s))
<1>1. globals \in Seq(A) /\ Len(globals) = 3
  BY DEF SavedLines
<1>2. selected \in Seq(SelectedLines(s)) /\ \A x \in SelectedLines(s) : Holds(selected, x)
  BY FiniteLines, InSomeOrderIs DEF Holds
<1>3. bindings \in Seq(BindingLines(s)) /\ \A x \in BindingLines(s) : Holds(bindings, x)
  BY FiniteLines, InSomeOrderIs DEF Holds
<1>4. selected \in Seq(A) /\ bindings \in Seq(A)
  BY <1>2, <1>3 DEF SavedLines
<1>5. Lines(s) = (globals \o selected) \o bindings
  BY DEF Lines, SelectedLines, BindingLines
<1>6. Holds(globals, Global("install_root", s.install_root))
      /\ Holds(globals, Global("graphics", s.graphics))
      /\ Holds(globals, Global("audio", s.audio))
  <2>1. /\ 1 \in DOMAIN globals /\ globals[1] = Global("install_root", s.install_root)
        /\ 2 \in DOMAIN globals /\ globals[2] = Global("graphics", s.graphics)
        /\ 3 \in DOMAIN globals /\ globals[3] = Global("audio", s.audio)
    OBVIOUS
  <2> QED BY <2>1 DEF Holds
<1> HIDE DEF globals, selected, bindings, A
<1>7. /\ globals \o selected \in Seq(A)
      /\ \A x : Holds(globals \o selected, x) <=> Holds(globals, x) \/ Holds(selected, x)
  BY <1>1, <1>4, JoinedHolds
<1>8. /\ Lines(s) \in Seq(A)
      /\ \A x : Holds(Lines(s), x) <=> Holds(globals \o selected, x) \/ Holds(bindings, x)
  <2> DEFINE front == globals \o selected
  <2>1. front \in Seq(A) /\ Lines(s) = front \o bindings
    BY <1>5, <1>7
  <2> HIDE DEF front
  <2>2. front \o bindings \in Seq(A)
        /\ \A x : Holds(front \o bindings, x) <=> Holds(front, x) \/ Holds(bindings, x)
    BY <1>4, <2>1, JoinedHolds
  <2> QED BY <2>1, <2>2 DEF front
<1> QED
  BY <1>2, <1>3, <1>6, <1>7, <1>8 DEF A, SavedLines

\* A setting that some lines give, and all of them alike.
LEMMA GivenAlike ==
    ASSUME NEW A, NEW lines \in Seq(A), NEW target, NEW default, NEW line,
           Holds(lines, line), Target(line) = target,
           \A i \in DOMAIN lines : Target(lines[i]) = target => lines[i].value = line.value
    PROVE  Given(lines, target, default) = line.value
<1> DEFINE mine == LinesOf(lines, target)
<1>1. mine \in SUBSET (1 .. Len(lines)) /\ Len(lines) \in Nat /\ mine # {}
  BY DEF LinesOf, Holds
<1>2. Max(mine) \in mine
  <2> HIDE DEF mine
  <2> QED BY <1>1, LastOfSome
<1>3. lines[Max(mine)].value = line.value
  BY <1>2 DEF LinesOf
<1> QED
  BY <1>1, <1>3 DEF Given

\* What is saved loads to what was saved.
LEMMA SavedLoads ==
    ASSUME NEW s \in AppSettings, Valid(s)
    PROVE  Loaded(Lines(s)) = s
<1> DEFINE lines == Lines(s)
<1>1. lines \in Seq(SavedLines(s)) /\ \A x \in SavedLines(s) : Holds(lines, x)
  BY LinesHold
<1>2. ASSUME NEW i \in DOMAIN lines PROVE lines[i] \in SavedLines(s)
  BY <1>1
<1> HIDE DEF lines
<1>3. Given(lines, <<"install_root", 0, "none">>, NoRoot) = s.install_root
  <2> DEFINE line == Global("install_root", s.install_root)
  <2>1. Holds(lines, line)
    BY <1>1 DEF SavedLines
  <2>2. Target(line) = <<"install_root", 0, "none">> /\ line.value = s.install_root
    BY DEF Target, Global, Line, Legacy
  <2>3. ASSUME NEW i \in DOMAIN lines, Target(lines[i]) = <<"install_root", 0, "none">>
        PROVE  lines[i].value = line.value
    BY <1>2, <2>3, <2>2 DEF SavedLines, SelectedLines, BindingLines, Target, Global, Line, Legacy
  <2> HIDE DEF line
  <2> QED BY <1>1, <2>1, <2>2, <2>3, GivenAlike
<1>4. Given(lines, <<"graphics", 0, "none">>, DefaultGraphics) = s.graphics
  <2> DEFINE line == Global("graphics", s.graphics)
  <2>1. Holds(lines, line)
    BY <1>1 DEF SavedLines
  <2>2. Target(line) = <<"graphics", 0, "none">> /\ line.value = s.graphics
    BY DEF Target, Global, Line, Legacy
  <2>3. ASSUME NEW i \in DOMAIN lines, Target(lines[i]) = <<"graphics", 0, "none">>
        PROVE  lines[i].value = line.value
    BY <1>2, <2>3, <2>2 DEF SavedLines, SelectedLines, BindingLines, Target, Global, Line, Legacy
  <2> HIDE DEF line
  <2> QED BY <1>1, <2>1, <2>2, <2>3, GivenAlike
<1>5. Given(lines, <<"audio", 0, "none">>, DefaultAudio) = s.audio
  <2> DEFINE line == Global("audio", s.audio)
  <2>1. Holds(lines, line)
    BY <1>1 DEF SavedLines
  <2>2. Target(line) = <<"audio", 0, "none">> /\ line.value = s.audio
    BY DEF Target, Global, Line, Legacy
  <2>3. ASSUME NEW i \in DOMAIN lines, Target(lines[i]) = <<"audio", 0, "none">>
        PROVE  lines[i].value = line.value
    BY <1>2, <2>3, <2>2 DEF SavedLines, SelectedLines, BindingLines, Target, Global, Line, Legacy
  <2> HIDE DEF line
  <2> QED BY <1>1, <2>1, <2>2, <2>3, GivenAlike
<1>6. ASSUME NEW p \in Players
      PROVE  Given(lines, <<"selected", p, "none">>, Keyboard) = s.selected[p]
  <2> DEFINE line == Line("selected_device.p", p, "none", s.selected[p])
  <2>1. Holds(lines, line)
    BY <1>1 DEF SavedLines, SelectedLines
  <2>2. Target(line) = <<"selected", p, "none">> /\ line.value = s.selected[p]
    BY DEF Target, Line, Legacy
  <2>3. ASSUME NEW i \in DOMAIN lines, Target(lines[i]) = <<"selected", p, "none">>
        PROVE  lines[i].value = line.value
    BY <1>2, <2>3, <2>2 DEF SavedLines, SelectedLines, BindingLines, Target, Global, Line, Legacy
  <2> HIDE DEF line
  <2> QED BY <1>1, <2>1, <2>2, <2>3, GivenAlike
<1>7. ASSUME NEW p \in Players, NEW a \in Actions
      PROVE  Given(lines, <<"bindings", p, a>>, DefaultBindings[p][a]) = s.bindings[p][a]
  <2> DEFINE line == Line("bind.p", p, a, s.bindings[p][a])
  <2>1. Holds(lines, line)
    BY <1>1 DEF SavedLines, BindingLines
  <2>2. Target(line) = <<"bindings", p, a>> /\ line.value = s.bindings[p][a]
    BY DEF Target, Line, Legacy
  <2>3. ASSUME NEW i \in DOMAIN lines, Target(lines[i]) = <<"bindings", p, a>>
        PROVE  lines[i].value = line.value
    BY <1>2, <2>3, <2>2 DEF SavedLines, SelectedLines, BindingLines, Target, Global, Line, Legacy
  <2> HIDE DEF line
  <2> QED BY <1>1, <2>1, <2>2, <2>3, GivenAlike
<1>8. Content(lines) = s
  BY <1>3, <1>4, <1>5, <1>6, <1>7 DEF Content, AppSettings
<1>9. Parses(lines)
  BY <1>2 DEF Parses, SavedLines, SelectedLines, BindingLines, Global, Line, Unparsable
<1> QED
  BY <1>8, <1>9 DEF Loaded, lines

-----------------------------------------------------------------------------
(* The host.                                                               *)

\* What the last message of a controller leads to is how it is held; what is not
\* plugged in is held by nobody and has sent nothing that is still from it.
LastIsHeld ==
    \A d \in HidPads :
        /\ d \notin plugged => held[d].pressed = {} /\ \A i \in DOMAIN inbox : inbox[i].device # d
        /\ \A i \in DOMAIN inbox :
            /\ inbox[i].device = d
            /\ \A j \in DOMAIN inbox : inbox[j].device = d => j <= i
            => inbox[i].reports[Len(inbox[i].reports)] = held[d]

HostInv == HostTypeOK /\ StatesAreCatalogued /\ LastIsHeld /\ NoPressMissed

LEMMA PositionsFit ==
    ASSUME NEW d \in Pads, NEW s \in Positions[d]
    PROVE  s \in State(d)
<1>1. s \in [pressed : SUBSET Buttons, axes : [Axes -> Levels]]
  BY InputHostAssumption
<1>2. d # Keyboard
  BY InputAssumption DEF Pads
<1> QED
  BY <1>1, <1>2 DEF State

LEMMA NoAxes == ASSUME NEW S PROVE <<>> \in [{} -> S]
OBVIOUS

\* A frame shows devices, each in one of its states.
LEMMA SnapshotFits ==
    ASSUME HostTypeOK, NEW frame \in Snapshots
    PROVE  DOMAIN frame \subseteq Devices /\ \A d \in DOMAIN frame : frame[d] \in State(d)
<1>1. PICK keys \in SUBSET Keys, slots \in [XInputPads -> AllPositions] :
        /\ frame = Snapshot(keys, slots)
        /\ \A d \in XInputPads : slots[d] \in Positions[d]
  BY DEF Snapshots
<1>2. DOMAIN frame \subseteq Devices
  BY <1>1 DEF Snapshot, Devices
<1>3. ASSUME NEW d \in DOMAIN frame PROVE frame[d] \in State(d)
  <2>1. CASE d = Keyboard
    BY <1>1, <2>1 DEF Snapshot, State
  <2>2. CASE d # Keyboard /\ d \in XInputPads
    BY <1>1, <2>2, PositionsFit DEF Snapshot, Pads
  <2>3. CASE d # Keyboard /\ d \notin XInputPads /\ d \in DOMAIN hidStates
    BY <1>1, <2>3 DEF Snapshot, HostTypeOK
  <2>4. CASE d # Keyboard /\ d \notin XInputPads /\ d \notin DOMAIN hidStates
    <3>1. frame[d] = Unheard
      BY <1>1, <2>4 DEF Snapshot
    <3>2. <<>> \in UNION {[known -> Levels] : known \in SUBSET Axes}
      <4>1. {} \in SUBSET Axes /\ <<>> \in [{} -> Levels]
        BY NoAxes
      <4> QED BY <4>1
    <3> QED BY <2>4, <3>1, <3>2 DEF Unheard, State
  <2> QED BY <2>1, <2>2, <2>3, <2>4
<1> QED BY <1>2, <1>3

\* What is captured from two frames is a binding.
LEMMA CapturedFits ==
    ASSUME HostTypeOK, NEW frame \in Snapshots, NEW previous, NEW d,
           NEW b \in Captured(d, previous, frame)
    PROVE  b \in Binding
<1>1. d \in DOMAIN frame
  BY DEF Captured
<1>2. d \in Devices /\ frame[d] \in State(d)
  BY <1>1, SnapshotFits
<1> DEFINE new == frame[d].pressed \ Before(previous, d).pressed
<1>3. CASE new # {}
  <2>1. PICK c \in new : b = [device |-> d, code |-> c,
                              kind |-> IF d = Keyboard THEN "keyboard_key" ELSE "gamepad_button"]
    BY <1>1, <1>3 DEF Captured
  <2>2. c \in IF d = Keyboard THEN Keys ELSE Buttons
    BY <1>2, <2>1 DEF State
  <2> QED BY <1>2, <2>1, <2>2 DEF Binding
<1>4. CASE new = {}
  <2>1. PICK c \in AxisCodes : b = [device |-> d, kind |-> "gamepad_axis", code |-> c]
    BY <1>1, <1>4 DEF Captured
  <2> QED BY <1>2, <2>1 DEF Binding
<1> QED BY <1>3, <1>4

\* A binding is captured from what the device has newly done: it is active in the
\* frame it comes from and was not in the one before, and once it is bound the action
\* answers to it at once.
THEOREM CapturedIsNew ==
    ASSUME HostTypeOK, NEW frame \in Snapshots, NEW previous, NEW d,
           NEW b \in Captured(d, previous, frame),
           NEW bindings \in [Players -> [Actions -> Binding]],
           NEW p \in Players, NEW a \in Actions
    PROVE  /\ BindingActive(b, d, frame[d])
           /\ ~BindingActive(b, d, Before(previous, d))
           /\ a \in Resolve([bindings EXCEPT ![p][a] = b], frame)[p]
<1>1. d \in DOMAIN frame
  BY DEF Captured
<1> DEFINE new == frame[d].pressed \ Before(previous, d).pressed
<1>2. b.device = d /\ BindingActive(b, d, frame[d]) /\ ~BindingActive(b, d, Before(previous, d))
  <2>1. CASE new # {}
    <3>1. PICK c \in new :
            b = [device |-> d, code |-> c,
                 kind |-> IF d = Keyboard THEN "keyboard_key" ELSE "gamepad_button"]
      BY <1>1, <2>1 DEF Captured
    <3> QED BY <3>1 DEF BindingActive
  <2>2. CASE new = {}
    <3>1. PICK c \in AxisCodes :
            /\ b = [device |-> d, kind |-> "gamepad_axis", code |-> c]
            /\ d # Keyboard /\ Deflected(frame[d], c)
            /\ LevelBefore(previous, d, c[1]) # frame[d].axes[c[1]]
      BY <1>1, <2>2 DEF Captured
    <3>2. ~Deflected(Before(previous, d), c)
      BY <3>1 DEF Deflected, LevelBefore
    <3> QED BY <3>1, <3>2 DEF BindingActive
  <2> QED BY <2>1, <2>2
<1>3. [bindings EXCEPT ![p][a] = b][p][a] = b
  OBVIOUS
<1> QED
  BY <1>1, <1>2, <1>3 DEF Resolve

\* Whoever follows the changes a refresh reports has the catalogue.
THEOREM FollowersAgree ==
    ASSUME NEW old, NEW new
    PROVE  Following(old, Changes(old, new)) = new
<1> DEFINE changes == Changes(old, new)
<1>1. {c.device : c \in {x \in changes : x.kind = "disconnected"}} = old \ new
  <2> DEFINE these == {x \in changes : x.kind = "disconnected"}
  <2>1. these = {[kind |-> "disconnected", device |-> d] : d \in old \ new}
    BY DEF Changes
  <2> HIDE DEF these
  <2>2. \A c \in these : c.device \in old \ new
    BY <2>1
  <2>3. ASSUME NEW d \in old \ new PROVE \E c \in these : c.device = d
    <3>1. [kind |-> "disconnected", device |-> d] \in these
      BY <2>1
    <3> QED BY <3>1
  <2> QED BY <2>2, <2>3 DEF these
<1>2. {c.device : c \in {x \in changes : x.kind = "connected"}} = new \ old
  <2> DEFINE these == {x \in changes : x.kind = "connected"}
  <2>1. these = {[kind |-> "connected", device |-> d] : d \in new \ old}
    BY DEF Changes
  <2> HIDE DEF these
  <2>2. \A c \in these : c.device \in new \ old
    BY <2>1
  <2>3. ASSUME NEW d \in new \ old PROVE \E c \in these : c.device = d
    <3>1. [kind |-> "connected", device |-> d] \in these
      BY <2>1
    <3> QED BY <3>1
  <2> QED BY <2>2, <2>3 DEF these
<1> HIDE DEF changes
<1> QED BY <1>1, <1>2 DEF Following, changes

LEMMA HostStart == ASSUME HostInit PROVE HostInv
<1>1. HostTypeOK
  BY InputHostAssumption DEF HostInit, HostTypeOK, Pads, Devices
<1>2. StatesAreCatalogued /\ NoPressMissed
  BY DEF HostInit, StatesAreCatalogued, NoPressMissed
<1>3. LastIsHeld
  BY DEF HostInit, LastIsHeld, Neutral
<1> QED BY <1>1, <1>2, <1>3 DEF HostInv

LEMMA PlugStep == ASSUME HostInv, NEW d \in Pads, Plug(d) PROVE HostInv'
<1>1. HostTypeOK'
  BY DEF HostInv, HostTypeOK, Plug
<1>2. StatesAreCatalogued'
  BY DEF HostInv, StatesAreCatalogued, Plug
<1>3. LastIsHeld'
  BY DEF HostInv, LastIsHeld, Plug
<1>4. NoPressMissed'
  <2> SUFFICES ASSUME NEW h \in DOMAIN hidStates', Quiet(h)'
               PROVE  held'[h].pressed \subseteq hidStates'[h].pressed
    BY DEF NoPressMissed
  <2>1. h \in DOMAIN hidStates /\ held' = held /\ hidStates' = hidStates /\ inbox' = inbox
        /\ h \in HidPads
    BY DEF Plug, HostInv, HostTypeOK
  <2>2. CASE h \in plugged
    BY <2>1, <2>2 DEF Quiet, HostInv, NoPressMissed
  <2>3. CASE h \notin plugged
    BY <2>1, <2>3 DEF HostInv, LastIsHeld
  <2> QED BY <2>2, <2>3
<1> QED BY <1>1, <1>2, <1>3, <1>4 DEF HostInv

LEMMA UnplugStep == ASSUME HostInv, NEW d \in Pads, Unplug(d) PROVE HostInv'
<1> DEFINE sent(i) == IF inbox[i].device = d THEN [inbox[i] EXCEPT !.device = Gone] ELSE inbox[i]
<1>1. /\ plugged' = plugged \ {d} /\ UNCHANGED <<registry, hidStates>>
      /\ held' = [h \in HidPads |-> IF h = d THEN Neutral ELSE held[h]]
      /\ inbox' = [i \in DOMAIN inbox |-> sent(i)]
  BY DEF Unplug
<1>2. /\ inbox \in Seq(Message) /\ \A i \in DOMAIN inbox : inbox[i].reports # <<>>
  BY DEF HostInv, HostTypeOK
<1>3. ASSUME NEW i \in DOMAIN inbox
      PROVE  /\ sent(i) \in Message /\ sent(i).reports = inbox[i].reports
             /\ sent(i).device = IF inbox[i].device = d THEN Gone ELSE inbox[i].device
  BY <1>2 DEF Message
<1> HIDE DEF sent
<1>4. inbox' \in Seq(Message) /\ Len(inbox') = Len(inbox) /\ DOMAIN inbox' = DOMAIN inbox
  BY <1>1, <1>2, <1>3
<1>5. HostTypeOK'
  <2>1. \A h \in HidPads : held'[h] \in Positions[h]
    BY <1>1, InputHostAssumption DEF HostInv, HostTypeOK, Pads
  <2>2. \A i \in DOMAIN inbox' : inbox'[i].reports # <<>>
    BY <1>1, <1>2, <1>3
  <2> QED BY <1>1, <1>4, <2>1, <2>2 DEF HostInv, HostTypeOK
<1>6. StatesAreCatalogued'
  BY <1>1 DEF HostInv, StatesAreCatalogued
<1>7. ASSUME NEW h \in HidPads, NEW i \in DOMAIN inbox
      PROVE  /\ inbox'[i].reports = inbox[i].reports
             /\ inbox'[i].device = h <=> inbox[i].device = h /\ h # d
  BY <1>1, <1>3, <1>7, InputHostAssumption
<1>8. LastIsHeld'
  <2> SUFFICES ASSUME NEW h \in HidPads
               PROVE  /\ h \notin plugged' => held'[h].pressed = {} /\ \A i \in DOMAIN inbox' : inbox'[i].device # h
                      /\ \A i \in DOMAIN inbox' :
                          /\ inbox'[i].device = h
                          /\ \A j \in DOMAIN inbox' : inbox'[j].device = h => j <= i
                          => inbox'[i].reports[Len(inbox'[i].reports)] = held'[h]
    BY DEF LastIsHeld
  <2>1. CASE h = d
    BY <1>1, <1>4, <1>7, <2>1 DEF Neutral
  <2>2. CASE h # d
    BY <1>1, <1>4, <1>7, <2>2 DEF HostInv, LastIsHeld
  <2> QED BY <2>1, <2>2
<1>9. NoPressMissed'
  <2> SUFFICES ASSUME NEW h \in DOMAIN hidStates', Quiet(h)'
               PROVE  held'[h].pressed \subseteq hidStates'[h].pressed
    BY DEF NoPressMissed
  <2>1. h \in HidPads /\ h \in DOMAIN hidStates /\ h \in plugged /\ h # d
    BY <1>1 DEF HostInv, HostTypeOK, Quiet
  <2>2. Quiet(h)
    BY <1>4, <1>7, <2>1 DEF Quiet
  <2> QED BY <1>1, <2>1, <2>2 DEF HostInv, NoPressMissed
<1> QED BY <1>5, <1>6, <1>8, <1>9 DEF HostInv

LEMMA HoldStep ==
    ASSUME HostInv, NEW d \in HidPads, NEW s \in Positions[d], Hold(d, s)
    PROVE  HostInv'
<1> DEFINE last == inbox[Len(inbox)]
<1>1. /\ d \in plugged /\ held' = [held EXCEPT ![d] = s]
      /\ UNCHANGED <<plugged, registry, hidStates>>
      /\ \/ inbox' = Append(inbox, [device |-> d, reports |-> <<s>>])
         \/ /\ inbox # <<>> /\ last.device = d
            /\ inbox' = [inbox EXCEPT ![Len(inbox)].reports = Append(last.reports, s)]
  BY DEF Hold, Reported
<1>2. /\ inbox \in Seq(Message) /\ \A i \in DOMAIN inbox : inbox[i].reports # <<>>
      /\ DOMAIN held = HidPads
  BY DEF HostInv, HostTypeOK
\* The message the report is in is the last, and all the others are as they were.
<1>3. PICK n \in Nat \ {0} :
        /\ inbox' \in Seq(Message) /\ Len(inbox') = n /\ Len(inbox) <= n
        /\ inbox'[n].device = d
        /\ inbox'[n].reports # <<>>
        /\ inbox'[n].reports[Len(inbox'[n].reports)] = s
        /\ \A i \in 1 .. n - 1 : i \in DOMAIN inbox /\ inbox'[i] = inbox[i]
        /\ n \in DOMAIN inbox => inbox[n].device = d
  <2>1. CASE inbox' = Append(inbox, [device |-> d, reports |-> <<s>>])
    <3> DEFINE n == Len(inbox) + 1  m == [device |-> d, reports |-> <<s>>]
    <3>1. m \in Message /\ m.device = d /\ m.reports # <<>> /\ m.reports[Len(m.reports)] = s
      BY DEF Message
    <3>2. /\ n \in Nat \ {0} /\ inbox' \in Seq(Message) /\ Len(inbox') = n /\ Len(inbox) <= n
          /\ inbox'[n] = m /\ n \notin DOMAIN inbox
          /\ \A i \in 1 .. n - 1 : i \in DOMAIN inbox /\ inbox'[i] = inbox[i]
      <4> HIDE DEF m
      <4> QED BY <1>2, <2>1, <3>1 DEF m
    <3> HIDE DEF m, n
    <3> QED BY <3>1, <3>2
  <2>2. CASE /\ inbox # <<>> /\ last.device = d
             /\ inbox' = [inbox EXCEPT ![Len(inbox)].reports = Append(last.reports, s)]
    <3> DEFINE n == Len(inbox)  m == [last EXCEPT !.reports = Append(last.reports, s)]
    <3>1. n \in Nat \ {0} /\ n \in DOMAIN inbox /\ last \in Message
      BY <1>2, <2>2
    <3>2. last.reports \in Seq(Positions[d]) /\ last \in [device : {d, Gone}, reports : Seq(Positions[d])]
      BY <2>2, <3>1, InputHostAssumption DEF Message
    <3>3. /\ Append(last.reports, s) \in Seq(Positions[d])
          /\ Len(Append(last.reports, s)) = Len(last.reports) + 1
          /\ Append(last.reports, s)[Len(last.reports) + 1] = s
          /\ Len(last.reports) \in Nat
      <4> DEFINE q == last.reports
      <4>1. q \in Seq(Positions[d])
        BY <3>2
      <4> HIDE DEF q
      <4>2. /\ Append(q, s) \in Seq(Positions[d]) /\ Len(Append(q, s)) = Len(q) + 1
            /\ Append(q, s)[Len(q) + 1] = s /\ Len(q) \in Nat
        BY <4>1
      <4> QED BY <4>2 DEF q
    <3>4. m.reports = Append(last.reports, s) /\ m.device = d
          /\ m \in [device : {d, Gone}, reports : Seq(Positions[d])]
      BY <2>2, <3>2, <3>3
    <3>5. m \in Message /\ m.reports # <<>> /\ m.reports[Len(m.reports)] = s
      <4> DEFINE longer == Append(last.reports, s)
      <4>1. m \in Message
        <5> HIDE DEF m
        <5> QED BY <3>4 DEF Message
      <4>2. longer # <<>> /\ longer[Len(longer)] = s
        <5> HIDE DEF longer
        <5>1. longer \in Seq(Positions[d]) /\ Len(longer) # 0
          BY <3>3 DEF longer
        <5>2. longer[Len(longer)] = s
          BY <3>3 DEF longer
        <5> QED BY <5>1, <5>2
      <4> HIDE DEF m, longer
      <4> QED BY <3>4, <4>1, <4>2 DEF longer
    <3>6. inbox' = [inbox EXCEPT ![n] = m]
      BY <2>2
    <3>7. /\ inbox' \in Seq(Message) /\ Len(inbox') = n /\ inbox'[n] = m
          /\ \A i \in 1 .. n - 1 : i \in DOMAIN inbox /\ inbox'[i] = inbox[i]
      <4> HIDE DEF m
      <4> QED BY <1>2, <3>1, <3>5, <3>6
    <3> HIDE DEF m
    <3> QED BY <2>2, <3>1, <3>4, <3>5, <3>7
  <2> QED BY <1>1, <2>1, <2>2
<1>4. DOMAIN inbox' = 1 .. n /\ DOMAIN inbox = 1 .. Len(inbox) /\ Len(inbox) \in Nat
  BY <1>2, <1>3
<1>5. HostTypeOK'
  <2>1. \A i \in DOMAIN inbox' : inbox'[i].reports # <<>>
    BY <1>2, <1>3, <1>4
  <2>2. DOMAIN held' = HidPads /\ \A h \in HidPads : held'[h] \in Positions[h]
    BY <1>1, <1>2 DEF HostInv, HostTypeOK
  <2> QED BY <1>1, <1>3, <2>1, <2>2 DEF HostInv, HostTypeOK
<1>6. StatesAreCatalogued'
  BY <1>1 DEF HostInv, StatesAreCatalogued
<1>7. ASSUME NEW h \in HidPads, h # d, NEW i \in 1 .. n, inbox'[i].device = h
      PROVE  i \in 1 .. n - 1 /\ i \in DOMAIN inbox /\ inbox'[i] = inbox[i]
  BY <1>3, <1>7
<1>8. LastIsHeld'
  <2> SUFFICES ASSUME NEW h \in HidPads
               PROVE  /\ h \notin plugged' => held'[h].pressed = {} /\ \A i \in DOMAIN inbox' : inbox'[i].device # h
                      /\ \A i \in DOMAIN inbox' :
                          /\ inbox'[i].device = h
                          /\ \A j \in DOMAIN inbox' : inbox'[j].device = h => j <= i
                          => inbox'[i].reports[Len(inbox'[i].reports)] = held'[h]
    BY DEF LastIsHeld
  <2>1. CASE h = d
    <3>1. held'[h] = s /\ h \in plugged'
      BY <1>1, <1>2, <2>1
    <3>2. ASSUME NEW i \in 1 .. n, \A j \in 1 .. n : inbox'[j].device = h => j <= i PROVE i = n
      BY <1>3, <2>1, <3>2
    <3> QED BY <1>3, <1>4, <3>1, <3>2
  <2>2. CASE h # d
    <3>1. held'[h] = held[h]
      BY <1>1, <1>2, <2>2
    <3>2. h \notin plugged' => held'[h].pressed = {} /\ \A i \in DOMAIN inbox' : inbox'[i].device # h
      BY <1>1, <1>4, <1>7, <2>2, <3>1 DEF HostInv, LastIsHeld
    <3>3. ASSUME NEW i \in DOMAIN inbox', inbox'[i].device = h,
                 \A j \in DOMAIN inbox' : inbox'[j].device = h => j <= i
          PROVE  inbox'[i].reports[Len(inbox'[i].reports)] = held'[h]
      <4>1. i \in DOMAIN inbox /\ inbox'[i] = inbox[i] /\ i \in 1 .. n - 1
        BY <1>4, <1>7, <2>2, <3>3
      <4>2. ASSUME NEW j \in DOMAIN inbox, inbox[j].device = h PROVE j <= i
        <5>1. CASE j \in 1 .. n - 1
          BY <1>3, <1>4, <3>3, <4>2, <5>1
        <5>2. CASE j \notin 1 .. n - 1
          BY <1>3, <1>4, <2>2, <4>2, <5>2
        <5> QED BY <5>1, <5>2
      <4> QED BY <3>1, <3>3, <4>1, <4>2 DEF HostInv, LastIsHeld
    <3> QED BY <3>2, <3>3
  <2> QED BY <2>1, <2>2
<1>9. NoPressMissed'
  <2> SUFFICES ASSUME NEW h \in DOMAIN hidStates', Quiet(h)'
               PROVE  held'[h].pressed \subseteq hidStates'[h].pressed
    BY DEF NoPressMissed
  <2>1. h \in HidPads /\ h \in DOMAIN hidStates /\ h \in plugged
    BY <1>1 DEF HostInv, HostTypeOK, Quiet
  <2>2. h # d
    BY <1>3, <1>4 DEF Quiet
  <2>3. ASSUME NEW i \in DOMAIN inbox, inbox[i].device = h PROVE FALSE
    <3>1. i \in 1 .. n - 1
      BY <1>3, <1>4, <2>2, <2>3
    <3> QED BY <1>3, <1>4, <2>3, <3>1 DEF Quiet
  <2> QED BY <1>1, <1>2, <2>1, <2>2, <2>3 DEF HostInv, NoPressMissed, Quiet
<1> QED BY <1>5, <1>6, <1>8, <1>9 DEF HostInv

LEMMA RefreshStep ==
    ASSUME HostInv, NEW found \in SUBSET Pads, RefreshDevices(found)
    PROVE  HostInv'
<1>1. /\ found \subseteq plugged /\ UNCHANGED worldVars
      /\ registry' = Enumerated(found) /\ hidStates' = Kept(hidStates, Enumerated(found))
  BY DEF RefreshDevices, Refreshed
<1>2. HostTypeOK'
  BY <1>1 DEF HostInv, HostTypeOK, worldVars, Enumerated, Kept, Devices, Pads
<1>3. StatesAreCatalogued'
  BY <1>1 DEF StatesAreCatalogued, Kept
<1>4. LastIsHeld'
  BY <1>1 DEF HostInv, LastIsHeld, worldVars
<1>5. NoPressMissed'
  BY <1>1 DEF HostInv, NoPressMissed, Quiet, worldVars, Kept
<1> QED BY <1>2, <1>3, <1>4, <1>5 DEF HostInv

LEMMA HandleStep ==
    ASSUME HostInv, NEW found \in SUBSET Pads, HandleRawInput(found)
    PROVE  HostInv'
<1> DEFINE m == Head(inbox)
           states == With(hidStates, m.device, Decoded(m.reports))
<1>1. /\ inbox # <<>> /\ found \subseteq plugged /\ UNCHANGED <<plugged, held>>
      /\ inbox' = Tail(inbox)
      /\ \/ m.device = Gone /\ UNCHANGED <<registry, hidStates>>
         \/ m.device # Gone /\ m.device \in registry /\ hidStates' = states /\ UNCHANGED registry
         \/ /\ m.device # Gone /\ m.device \notin registry
            /\ registry' = Enumerated(found) /\ hidStates' = Kept(states, Enumerated(found))
  BY DEF HandleRawInput, Refreshed
<1>2. /\ inbox \in Seq(Message) /\ \A i \in DOMAIN inbox : inbox[i].reports # <<>>
  BY DEF HostInv, HostTypeOK
<1>3. /\ inbox' \in Seq(Message) /\ Len(inbox) \in Nat \ {0} /\ Len(inbox') = Len(inbox) - 1
      /\ \A i \in DOMAIN inbox' : i + 1 \in DOMAIN inbox /\ inbox'[i] = inbox[i + 1]
      /\ m = inbox[1] /\ m \in Message /\ 1 \in DOMAIN inbox
      /\ \A i \in DOMAIN inbox : i = 1 \/ i - 1 \in DOMAIN inbox'
  BY <1>1, <1>2
<1>4. m.reports # <<>>
  BY <1>2, <1>3
\* What the message makes of the state of its sender.
<1>5. ASSUME m.device # Gone
      PROVE  /\ m.device \in HidPads
             /\ Decoded(m.reports) \in State(m.device)
             /\ m.reports[Len(m.reports)].pressed \subseteq Decoded(m.reports).pressed
  <2>1. PICK d \in HidPads : m \in [device : {d, Gone}, reports : Seq(Positions[d])]
    BY <1>3 DEF Message
  <2>2. m.device = d /\ m.reports \in Seq(Positions[d])
    BY <1>5, <2>1
  <2> DEFINE r == m.reports
  <2>3. r \in Seq(Positions[d]) /\ r # <<>>
    BY <1>4, <2>2
  <2> HIDE DEF r
  <2>4. Len(r) \in DOMAIN r /\ \A i \in DOMAIN r : r[i] \in Positions[d]
    BY <2>3
  <2>5. d \in Pads /\ d # Keyboard
    BY InputAssumption DEF Pads
  <2>6. \A i \in DOMAIN r : r[i] \in [pressed : SUBSET Buttons, axes : [Axes -> Levels]]
    BY <2>4, <2>5, InputHostAssumption
  <2>7. Decoded(r) \in State(d)
    <3>1. UNION {r[i].pressed : i \in DOMAIN r} \subseteq Buttons
      BY <2>6
    <3>2. r[Len(r)].axes \in UNION {[known -> Levels] : known \in SUBSET Axes}
      BY <2>4, <2>6
    <3> QED BY <2>5, <3>1, <3>2 DEF Decoded, State
  <2>8. r[Len(r)].pressed \subseteq Decoded(r).pressed
    BY <2>4 DEF Decoded
  <2> QED BY <2>2, <2>7, <2>8 DEF r
<1> HIDE DEF m
<1>6. ASSUME m.device # Gone
      PROVE  /\ DOMAIN states = DOMAIN hidStates \cup {m.device}
             /\ states[m.device] = Decoded(m.reports)
             /\ \A d \in DOMAIN hidStates : d # m.device => states[d] = hidStates[d]
             /\ DOMAIN states \subseteq HidPads
             /\ \A d \in DOMAIN states : states[d] \in State(d)
  BY <1>5, <1>6 DEF With, HostInv, HostTypeOK
<1> HIDE DEF states
<1>7. /\ DOMAIN hidStates' \subseteq HidPads
      /\ \A d \in DOMAIN hidStates' :
            /\ hidStates'[d] \in State(d)
            /\ IF d = m.device THEN hidStates'[d] = Decoded(m.reports)
               ELSE d \in DOMAIN hidStates /\ hidStates'[d] = hidStates[d]
  <2>1. CASE m.device = Gone
    BY <1>1, <2>1, InputHostAssumption DEF HostInv, HostTypeOK
  <2>2. CASE m.device # Gone /\ hidStates' = states
    BY <1>6, <2>2
  <2>3. CASE m.device # Gone /\ hidStates' = Kept(states, Enumerated(found))
    BY <1>6, <2>3 DEF Kept
  <2> QED BY <1>1, <2>1, <2>2, <2>3
<1>8. HostTypeOK'
  <2>1. registry' \subseteq Devices /\ Keyboard \in registry'
    BY <1>1 DEF HostInv, HostTypeOK, Enumerated, Devices, Pads
  <2>2. \A i \in DOMAIN inbox' : inbox'[i].reports # <<>>
    BY <1>2, <1>3
  <2> QED BY <1>1, <1>3, <1>7, <2>1, <2>2 DEF HostInv, HostTypeOK
<1>9. StatesAreCatalogued'
  <2>1. CASE m.device = Gone
    BY <1>1, <2>1 DEF HostInv, StatesAreCatalogued
  <2>2. CASE m.device # Gone /\ m.device \in registry
    BY <1>1, <1>6, <2>2 DEF HostInv, StatesAreCatalogued
  <2>3. CASE m.device # Gone /\ m.device \notin registry
    BY <1>1, <2>3 DEF StatesAreCatalogued, Kept
  <2> QED BY <2>1, <2>2, <2>3
<1>10. LastIsHeld'
  <2> SUFFICES ASSUME NEW h \in HidPads
               PROVE  /\ h \notin plugged' => held'[h].pressed = {} /\ \A i \in DOMAIN inbox' : inbox'[i].device # h
                      /\ \A i \in DOMAIN inbox' :
                          /\ inbox'[i].device = h
                          /\ \A j \in DOMAIN inbox' : inbox'[j].device = h => j <= i
                          => inbox'[i].reports[Len(inbox'[i].reports)] = held'[h]
    BY DEF LastIsHeld
  <2>1. h \notin plugged' => held'[h].pressed = {} /\ \A i \in DOMAIN inbox' : inbox'[i].device # h
    BY <1>1, <1>3 DEF HostInv, LastIsHeld
  <2>2. ASSUME NEW i \in DOMAIN inbox', inbox'[i].device = h,
               \A j \in DOMAIN inbox' : inbox'[j].device = h => j <= i
        PROVE  inbox'[i].reports[Len(inbox'[i].reports)] = held'[h]
    <3>1. i + 1 \in DOMAIN inbox /\ inbox'[i] = inbox[i + 1] /\ i \in Nat \ {0}
      BY <1>3, <2>2
    <3>2. ASSUME NEW j \in DOMAIN inbox, inbox[j].device = h PROVE j <= i + 1
      <4>1. CASE j = 1
        BY <3>1, <4>1
      <4>2. CASE j # 1
        <5>1. j - 1 \in DOMAIN inbox' /\ j \in Nat
          BY <1>2, <1>3, <4>2
        <5>2. inbox'[j - 1] = inbox[j]
          BY <1>3, <5>1
        <5> QED BY <2>2, <3>1, <3>2, <5>1, <5>2
      <4> QED BY <4>1, <4>2
    <3> QED BY <1>1, <2>2, <3>1, <3>2 DEF HostInv, LastIsHeld
  <2> QED BY <2>1, <2>2
<1>11. NoPressMissed'
  <2> SUFFICES ASSUME NEW h \in DOMAIN hidStates', Quiet(h)'
               PROVE  held'[h].pressed \subseteq hidStates'[h].pressed
    BY DEF NoPressMissed
  <2>1. h \in HidPads /\ h \in plugged /\ held' = held
    BY <1>1, <1>7 DEF Quiet
  <2>2. \A j \in DOMAIN inbox : inbox[j].device = h => j = 1
    <3> SUFFICES ASSUME NEW j \in DOMAIN inbox, inbox[j].device = h, j # 1 PROVE FALSE
      OBVIOUS
    <3>1. j - 1 \in DOMAIN inbox' /\ j \in Nat
      BY <1>2, <1>3
    <3>2. inbox'[j - 1] = inbox[j]
      BY <1>3, <3>1
    <3> QED BY <3>1, <3>2 DEF Quiet
  <2>3. CASE h = m.device
    <3>1. m.device # Gone
      BY <2>1, <2>3, InputHostAssumption
    <3>2. m.reports[Len(m.reports)] = held[h]
      <4>1. inbox[1].device = h /\ 1 \in DOMAIN inbox /\ inbox[1] = m
        BY <1>3, <2>3
      <4>2. \A j \in DOMAIN inbox : inbox[j].device = h => j <= 1
        BY <2>2
      <4>3. inbox[1].reports[Len(inbox[1].reports)] = held[h]
        BY <2>1, <4>1, <4>2 DEF HostInv, LastIsHeld
      <4> QED BY <4>1, <4>3
    <3> QED BY <1>5, <1>7, <2>1, <2>3, <3>1, <3>2
  <2>4. CASE h # m.device
    <3>1. Quiet(h) /\ h \in DOMAIN hidStates /\ hidStates'[h] = hidStates[h]
      BY <1>3, <1>7, <2>1, <2>2, <2>4 DEF Quiet
    <3> QED BY <2>1, <3>1 DEF HostInv, NoPressMissed
  <2> QED BY <2>3, <2>4
<1> QED BY <1>8, <1>9, <1>10, <1>11 DEF HostInv

\* When the last message of a controller is handled its axes are as they are held,
\* and if that message has one report its buttons are as well: it takes reports that
\* Windows puts into one message for a button to be kept that was let go.
LastReportTells(found) ==
    HandleRawInput(found) =>
        LET m == Head(inbox)
        IN  \A d \in DOMAIN hidStates' : m.device = d /\ Quiet(d)' =>
                /\ hidStates'[d].axes = held'[d].axes
                /\ Len(m.reports) = 1 => hidStates'[d] = held'[d]

LEMMA HandleTells ==
    ASSUME HostInv, NEW found \in SUBSET Pads
    PROVE  LastReportTells(found)
<1> DEFINE m == Head(inbox)
           r == m.reports
<1> SUFFICES ASSUME HandleRawInput(found), NEW d \in DOMAIN hidStates', m.device = d, Quiet(d)'
             PROVE  /\ hidStates'[d].axes = held'[d].axes
                    /\ Len(r) = 1 => hidStates'[d] = held'[d]
  BY DEF LastReportTells
<1>1. /\ inbox # <<>> /\ UNCHANGED <<plugged, held>> /\ inbox' = Tail(inbox)
      /\ inbox \in Seq(Message)
  BY DEF HandleRawInput, HostInv, HostTypeOK
<1>2. /\ m = inbox[1] /\ m \in Message /\ 1 \in DOMAIN inbox
      /\ \A j \in DOMAIN inbox :
            j = 1 \/ (j - 1 \in DOMAIN inbox' /\ inbox'[j - 1] = inbox[j])
  BY <1>1
<1>3. d \in Pads
  BY <1>1 DEF Quiet, HostInv, HostTypeOK
<1>4. PICK h \in HidPads : m \in [device : {h, Gone}, reports : Seq(Positions[h])]
  BY <1>2 DEF Message
<1>5. d \in HidPads /\ r \in Seq(Positions[d])
  <2>1. d # Gone
    <3>1. d = Gone => d \in HidPads
      BY DEF HandleRawInput, HostInv, HostTypeOK
    <3> QED BY <3>1, InputHostAssumption
  <2> QED BY <1>4, <2>1
<1>6. r[Len(r)] = held[d]
  <2>1. \A j \in DOMAIN inbox : inbox[j].device = d => j = 1
    BY <1>2 DEF Quiet
  <2>2. 1 \in DOMAIN inbox /\ inbox[1].device = d /\ \A j \in DOMAIN inbox : inbox[j].device = d => j <= 1
    BY <1>2, <2>1
  <2> HIDE DEF m
  <2>3. inbox[1].reports[Len(inbox[1].reports)] = held[d]
    BY <1>5, <2>2 DEF HostInv, LastIsHeld
  <2> QED BY <1>2, <2>3
<1>7. hidStates'[d] = Decoded(r)
  BY <1>5, InputHostAssumption DEF HandleRawInput, Refreshed, Kept, With
<1> HIDE DEF r
<1>8. Decoded(r).axes = held[d].axes
  BY <1>6 DEF Decoded
<1>9. ASSUME Len(r) = 1 PROVE Decoded(r) = held[d]
  <2>1. DOMAIN r = 1 .. 1 /\ r[1] = held[d] /\ r[1] \in Positions[d]
    <3>1. DOMAIN r = 1 .. Len(r) /\ \A i \in 1 .. Len(r) : r[i] \in Positions[d]
      BY <1>5
    <3> QED BY <1>6, <1>9, <3>1
  <2>2. held[d] \in [pressed : SUBSET Buttons, axes : [Axes -> Levels]]
    BY <1>3, <2>1, InputHostAssumption
  <2>3. held[d] = [pressed |-> held[d].pressed, axes |-> held[d].axes]
    BY <2>2
  <2>4. UNION {r[j].pressed : j \in DOMAIN r} = held[d].pressed
    <3>1. DOMAIN r = {1}
      BY <2>1
    <3> QED BY <2>1, <3>1
  <2>5. Decoded(r) = [pressed |-> held[d].pressed, axes |-> held[d].axes]
    BY <1>6, <2>4 DEF Decoded
  <2> QED BY <2>3, <2>5
<1> QED BY <1>1, <1>7, <1>8, <1>9

-----------------------------------------------------------------------------
(* The settings.                                                           *)

\* Only what is valid gets into force, into a session or into the file, so no save is
\* refused; a save under way writes what is in force; a clean session is its baseline,
\* and that is what is in force.
SettingsInv ==
    /\ SettingsTypeOK
    /\ Valid(app) /\ Valid(baseline) /\ Valid(draft) /\ Valid(stored)
    /\ open => baseline = app
    /\ ~dirty => draft = baseline
    /\ CleanIsSaved
    /\ open => alive
    /\ saving # "no" => alive
    /\ saving = "replacing" => temp = Lines(app)
    /\ StoredSettingsLoad

LEMMA SettingsStart == ASSUME SettingsInit PROVE SettingsInv
<1>1. file \in Seq(Parsed)
  BY SettingsMenuAssumption DEF SettingsInit
<1>2. stored \in AppSettings /\ Valid(stored)
  BY <1>1, LoadedFits DEF SettingsInit
<1> QED
  BY <1>2, DefaultsFit, PlayerOneIsOne, SettingsMenuAssumption
  DEF SettingsInit, SettingsInv, SettingsTypeOK, CleanIsSaved, StoredSettingsLoad, Idle, TopOfMenu

LEMMA LaunchStep == ASSUME SettingsInv, Launch PROVE SettingsInv'
BY PlayerOneIsOne, SettingsMenuAssumption
DEF SettingsInv, SettingsTypeOK, CleanIsSaved, StoredSettingsLoad, Idle, Launch, Session,
    TopOfMenu, diskVars

LEMMA DieStep == ASSUME SettingsInv, Die PROVE SettingsInv'
BY DefaultsFit, PlayerOneIsOne, SettingsMenuAssumption
DEF SettingsInv, SettingsTypeOK, CleanIsSaved, StoredSettingsLoad, Idle, Die, Session, TopOfMenu

LEMMA ChooseRootStep ==
    ASSUME SettingsInv, NEW r \in Roots, ChooseRoot(r) PROVE SettingsInv'
<1>1. app' \in AppSettings /\ Valid(app')
  BY DEF SettingsInv, SettingsTypeOK, ChooseRoot, AppSettings, Valid
<1> QED
  BY <1>1, PlayerOneIsOne, SettingsMenuAssumption
  DEF SettingsInv, SettingsTypeOK, CleanIsSaved, StoredSettingsLoad, Idle, ChooseRoot, Session,
      TopOfMenu, BeginSave, diskVars

LEMMA MenuStep ==
    ASSUME SettingsInv, OpenMenu \/ Commit \/ Discard \/ CloseMenu PROVE SettingsInv'
<1>1. CASE OpenMenu
  BY <1>1, PlayerOneIsOne, SettingsMenuAssumption
  DEF SettingsInv, SettingsTypeOK, CleanIsSaved, StoredSettingsLoad, Idle, OpenMenu, Session,
      TopOfMenu, diskVars
<1>2. CASE Commit
  BY <1>2
  DEF SettingsInv, SettingsTypeOK, CleanIsSaved, StoredSettingsLoad, Idle, Commit, BeginSave,
      diskVars
<1>3. CASE Discard
  BY <1>3
  DEF SettingsInv, SettingsTypeOK, CleanIsSaved, StoredSettingsLoad, Idle, Discard, diskVars
<1>4. CASE CloseMenu
  BY <1>4, PlayerOneIsOne, SettingsMenuAssumption
  DEF SettingsInv, SettingsTypeOK, CleanIsSaved, StoredSettingsLoad, Idle, CloseMenu, Session,
      TopOfMenu, diskVars
<1> QED BY <1>1, <1>2, <1>3, <1>4

LEMMA MoveCursorStep ==
    ASSUME SettingsInv, NEW page \in Pages, NEW p \in Players, MoveCursor(page, p)
    PROVE  SettingsInv'
BY DEF SettingsInv, SettingsTypeOK, CleanIsSaved, StoredSettingsLoad, Idle, MoveCursor, diskVars

LEMMA EditStep ==
    ASSUME SettingsInv, NEW s \in AppSettings, Valid(s), Edit(s) PROVE SettingsInv'
BY DEF SettingsInv, SettingsTypeOK, CleanIsSaved, StoredSettingsLoad, Idle, Edit, diskVars

LEMMA AlterStep ==
    ASSUME SettingsInv, HostTypeOK, Alter PROVE SettingsInv'
<1>0. draft \in AppSettings /\ Valid(draft)
  BY DEF SettingsInv, SettingsTypeOK
<1>1. ASSUME NEW g \in Graphics, SetGraphics(g) PROVE SettingsInv'
  <2>1. [draft EXCEPT !.graphics = g] \in AppSettings /\ Valid([draft EXCEPT !.graphics = g])
    BY <1>0, <1>1 DEF AppSettings, Valid, SetGraphics
  <2> QED BY <1>1, <2>1, EditStep DEF SetGraphics
<1>2. ASSUME NEW a \in Audio, SetAudio(a) PROVE SettingsInv'
  <2>1. [draft EXCEPT !.audio = a] \in AppSettings /\ Valid([draft EXCEPT !.audio = a])
    BY <1>0, <1>2 DEF AppSettings, Valid, SetAudio
  <2> QED BY <1>2, <2>1, EditStep DEF SetAudio
<1>3. ASSUME NEW p \in Players, NEW d \in Devices, SelectDevice(p, d, registry)
      PROVE  SettingsInv'
  <2> DEFINE s == [draft EXCEPT !.selected[p] = d]
  <2>1. s \in AppSettings /\ Valid(s)
    BY <1>0 DEF AppSettings, Valid
  <2> QED BY <1>3, <2>1, EditStep DEF SelectDevice
<1> QED BY <1>1, <1>2, <1>3, MoveCursorStep DEF Alter

LEMMA BindStep ==
    ASSUME SettingsInv, NEW p \in Players, NEW a \in Actions, NEW b \in Binding,
           BindAction(p, a, b)
    PROVE  SettingsInv'
<1> DEFINE s == [draft EXCEPT !.bindings[p][a] = b]
<1>1. s \in AppSettings /\ Valid(s)
  BY DEF SettingsInv, SettingsTypeOK, AppSettings, Valid
<1> QED BY <1>1, EditStep DEF BindAction

LEMMA SaveStep == ASSUME SettingsInv, Save PROVE SettingsInv'
<1>1. CASE OpenTemp
  BY <1>1 DEF SettingsInv, SettingsTypeOK, CleanIsSaved, StoredSettingsLoad, Idle, OpenTemp,
              Step, sessionVars
<1>2. CASE WriteTemp
  BY <1>2 DEF SettingsInv, SettingsTypeOK, CleanIsSaved, StoredSettingsLoad, Idle, WriteTemp,
              Step, sessionVars
<1>3. CASE ReplaceFile
  <2>1. Loaded(temp) = app
    BY <1>3, SavedLoads
    DEF SettingsInv, SettingsTypeOK, ReplaceFile, Step
  <2> QED
    BY <1>3, <2>1 DEF SettingsInv, SettingsTypeOK, CleanIsSaved, StoredSettingsLoad, Idle,
                      ReplaceFile, Step, sessionVars
<1>4. CASE FailSave
  BY <1>4 DEF SettingsInv, SettingsTypeOK, CleanIsSaved, StoredSettingsLoad, Idle, FailSave,
              Step, sessionVars
<1> QED BY <1>1, <1>2, <1>3, <1>4 DEF Save

-----------------------------------------------------------------------------
(* The whole.                                                              *)

\* A control is asked for only in a session.
CaptureInv ==
    Capturing =>
        /\ open
        /\ capture.player \in Players /\ capture.action \in Actions /\ capture.device \in Devices
        /\ DOMAIN capture.before \subseteq {capture.device}
        /\ \A d \in DOMAIN capture.before : capture.before[d] \in State(d)

IInv == HostInv /\ SettingsInv /\ CaptureInv /\ events \in 0 .. MaxEvents

LEMMA InitInv == ASSUME Init PROVE IInv
BY HostStart, SettingsStart, ControlsAssumption DEF Init, IInv, CaptureInv, Capturing

\* The host's part reads no other variable, nor does the menu's.
LEMMA HostUnchanged == ASSUME HostInv, UNCHANGED hostVars PROVE HostInv'
BY DEF hostVars, HostInv, HostTypeOK, StatesAreCatalogued, LastIsHeld, NoPressMissed, Quiet

LEMMA SettingsUnchanged == ASSUME SettingsInv, UNCHANGED settingsVars PROVE SettingsInv'
BY DEF settingsVars, sessionVars, diskVars, SettingsInv, SettingsTypeOK,
       CleanIsSaved, StoredSettingsLoad, Idle

LEMMA NextInv == ASSUME IInv, [Next]_vars PROVE IInv'
<1>0. HostInv /\ SettingsInv /\ CaptureInv /\ events \in 0 .. MaxEvents /\ HostTypeOK
  BY DEF IInv, HostInv
<1> USE <1>0, ControlsAssumption
<1>1. CASE World
  <2>1. HostInv'
    BY <1>1, PlugStep, UnplugStep, HoldStep DEF World
  <2>2. UNCHANGED <<settingsVars, capture>> /\ UserEvent
    BY <1>1 DEF World
  <2>3. CaptureInv'
    BY <2>2 DEF CaptureInv, Capturing, settingsVars, sessionVars
  <2> QED BY <2>1, <2>2, <2>3, SettingsUnchanged DEF IInv, UserEvent
<1>2. CASE Host
  <2>1. HostInv'
    BY <1>2, RefreshStep, HandleStep DEF Host
  <2>2. UNCHANGED <<settingsVars, capture, events>>
    BY <1>2 DEF Host
  <2>3. CaptureInv'
    BY <2>2 DEF CaptureInv, Capturing, settingsVars, sessionVars
  <2> QED BY <2>1, <2>2, <2>3, SettingsUnchanged DEF IInv
<1>3. CASE Start
  <2>1. /\ Launch /\ UNCHANGED <<plugged, held, inbox, capture, events>>
        /\ registry' = {Keyboard} \cup plugged /\ hidStates' = <<>> /\ DOMAIN <<>> = {}
    BY <1>3 DEF Start, worldVars
  <2>2. HostInv'
    <3>1. HostTypeOK'
      BY <2>1 DEF HostTypeOK, Devices, Pads
    <3>2. StatesAreCatalogued' /\ NoPressMissed'
      BY <2>1 DEF StatesAreCatalogued, NoPressMissed
    <3>3. LastIsHeld'
      BY <2>1 DEF HostInv, LastIsHeld
    <3> QED BY <3>1, <3>2, <3>3 DEF HostInv
  <2>3. CaptureInv'
    BY <2>1 DEF CaptureInv, Capturing, Launch, SettingsInv
  <2> QED BY <2>1, <2>2, <2>3, LaunchStep DEF IInv
<1>4. CASE End
  <2>1. /\ Die /\ UNCHANGED <<plugged, held, events>> /\ inbox' = <<>>
        /\ registry' = {Keyboard} /\ hidStates' = <<>> /\ DOMAIN <<>> = {} /\ capture' = NoCapture
    BY <1>4 DEF End
  <2>2. HostInv'
    <3>1. HostTypeOK'
      BY <2>1 DEF HostTypeOK, Devices
    <3>2. StatesAreCatalogued' /\ NoPressMissed'
      BY <2>1 DEF StatesAreCatalogued, NoPressMissed
    <3>3. LastIsHeld'
      BY <2>1 DEF HostInv, LastIsHeld
    <3> QED BY <3>1, <3>2, <3>3 DEF HostInv
  <2>3. CaptureInv'
    BY <2>1 DEF CaptureInv, Capturing
  <2> QED BY <2>1, <2>2, <2>3, DieStep DEF IInv
<1>5. CASE Alter
  <2>1. UNCHANGED <<hostVars, capture>> /\ ~Capturing /\ UserEvent
    BY <1>5 DEF Alter
  <2>2. CaptureInv'
    BY <2>1 DEF CaptureInv, Capturing
  <2> QED BY <1>5, <2>1, <2>2, HostUnchanged, AlterStep DEF IInv, UserEvent
<1>6. CASE Settle
  <2>1. UNCHANGED <<hostVars, capture, events>> /\ ~Capturing
    BY <1>6 DEF Settle
  <2>2. CaptureInv'
    BY <2>1 DEF CaptureInv, Capturing
  <2>3. SettingsInv'
    BY <1>6, ChooseRootStep, MenuStep, SaveStep DEF Settle
  <2> QED BY <2>1, <2>2, <2>3, HostUnchanged DEF IInv
<1>7. ASSUME NEW p \in Players, NEW a \in Actions, NEW d \in Devices, BeginCapture(p, a, d)
      PROVE  IInv'
  <2>1. PICK frame \in Snapshots :
          capture' = [player |-> p, action |-> a, device |-> d,
                      before |-> [e \in {d} \cap DOMAIN frame |-> frame[e]]]
    BY <1>7 DEF BeginCapture
  <2>2. UNCHANGED <<hostVars, settingsVars>> /\ open /\ UserEvent
    BY <1>7 DEF BeginCapture
  <2>3. CaptureInv'
    BY <2>1, <2>2, SnapshotFits DEF CaptureInv, settingsVars, sessionVars
  <2> QED BY <2>2, <2>3, HostUnchanged, SettingsUnchanged DEF IInv, UserEvent
<1>8. CASE EndCapture
  <2>0. PICK frame \in Snapshots :
          \E b \in Captured(capture.device, capture.before, frame) :
            BindAction(capture.player, capture.action, b)
    BY <1>8 DEF EndCapture
  <2>1. PICK b \in Captured(capture.device, capture.before, frame) :
          BindAction(capture.player, capture.action, b)
    BY <2>0
  <2>2. UNCHANGED <<hostVars, events>> /\ capture' = NoCapture /\ Capturing
    BY <1>8 DEF EndCapture
  <2>3. b \in Binding /\ capture.player \in Players /\ capture.action \in Actions
    BY <2>1, <2>2, CapturedFits DEF CaptureInv
  <2>4. SettingsInv'
    BY <2>1, <2>3, BindStep
  <2>5. CaptureInv'
    BY <2>2 DEF CaptureInv, Capturing
  <2> QED BY <2>2, <2>4, <2>5, HostUnchanged DEF IInv
<1>9. CASE GiveUpCapture
  <2>1. UNCHANGED <<hostVars, settingsVars, events>> /\ capture' = NoCapture
    BY <1>9 DEF GiveUpCapture
  <2>2. CaptureInv'
    BY <2>1 DEF CaptureInv, Capturing
  <2> QED BY <2>1, <2>2, HostUnchanged, SettingsUnchanged DEF IInv
<1>10. CASE UNCHANGED vars
  <2>1. UNCHANGED <<hostVars, settingsVars, capture, events>>
    BY <1>10 DEF vars
  <2>2. CaptureInv'
    BY <2>1 DEF CaptureInv, Capturing, settingsVars, sessionVars
  <2> QED BY <2>1, <2>2, HostUnchanged, SettingsUnchanged DEF IInv
<1> QED
  BY <1>1, <1>2, <1>3, <1>4, <1>5, <1>6, <1>7, <1>8, <1>9, <1>10 DEF Next

\* Input, host, settings and menu keep their types.
THEOREM TypeCorrect == Spec => []TypeOK
<1>1. IInv => TypeOK
  BY DEF IInv, HostInv, SettingsInv, CaptureInv, TypeOK
<1> QED BY InitInv, NextInv, <1>1, PTL DEF Spec

\* No state is kept of a device that is not in the catalogue.
THEOREM CatalogueIsKept == Spec => []StatesAreCatalogued
<1>1. IInv => StatesAreCatalogued
  BY DEF IInv, HostInv
<1> QED BY InitInv, NextInv, <1>1, PTL DEF Spec

\* Once its messages are handled no button held on a controller is missing from its
\* state.
THEOREM PressesArrive == Spec => []NoPressMissed
<1>1. IInv => NoPressMissed
  BY DEF IInv, HostInv
<1> QED BY InitInv, NextInv, <1>1, PTL DEF Spec

\* What a controller's last message leaves is how it is held, but for buttons that
\* an earlier report of the same message had.
THEOREM LastReportTellsAll == Spec => [][\A found \in SUBSET Pads : LastReportTells(found)]_vars
<1>1. IInv /\ [Next]_vars => [\A found \in SUBSET Pads : LastReportTells(found)]_vars
  BY HandleTells DEF IInv
<1> QED BY InitInv, NextInv, <1>1, PTL DEF Spec

\* The next start finds the settings last saved.
THEOREM SettingsSurvive == Spec => []StoredSettingsLoad
<1>1. IInv => StoredSettingsLoad
  BY DEF IInv, SettingsInv
<1> QED BY InitInv, NextInv, <1>1, PTL DEF Spec

\* Settings in force, and a clean session, are in the file unless the disk failed.
THEOREM CleanSessionsAreSaved == Spec => []CleanIsSaved
<1>1. IInv => CleanIsSaved
  BY DEF IInv, SettingsInv
<1> QED BY InitInv, NextInv, <1>1, PTL DEF Spec
=============================================================================
