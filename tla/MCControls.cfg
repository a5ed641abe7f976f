CONSTANTS
    Players = {1, 2}
    Actions = {act}
    XInputPads = {slot}
    HidPads = {pad}
    Keys = {key}
    Buttons = {btn}
    Axes = {axis}
    Positions <- TheirPositions
    MaxReports = 2
    MaxMessages = 1
    Roots = {r1}
    Graphics = {g1, g2, g3}
    GraphicsInRange = {g1, g2}
    Audio = {a1, a3}
    AudioInRange = {a1}
    DefaultGraphics = g1
    DefaultAudio = a1
    DefaultBindings <- KeysForAll
    Pages = {"graphics", "controls"}
    InitialFiles <- Files
    MaxEvents = 5
    act = act
    slot = slot
    pad = pad
    key = key
    btn = btn
    axis = axis
    r1 = r1
    g1 = g1
    g2 = g2
    g3 = g3
    a1 = a1
    a3 = a3
SPECIFICATION Spec
INVARIANTS
    StatesAreCatalogued
    NoPressMissed
    StoredSettingsLoad
    CleanIsSaved
