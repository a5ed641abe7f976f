---------------------------- MODULE SettingsMenu ----------------------------
(***************************************************************************)
(* What happens to AppSettings over many runs of the program: it is loaded *)
(* at the start (src/app_win32/main.cpp), edited in a SettingsMenuSession  *)
(* (src/core/settings_menu.cpp), given a new install root by the shell and *)
(* saved through a temporary file (src/core/settings.cpp), each step of    *)
(* which may fail or be the last one of the process.                       *)
(*                                                                         *)
(* No code of the repository drives the session yet.  The driver assumed is*)
(* the one its design describes: a session is made from the settings in    *)
(* force, what it commits becomes the settings in force and is saved, and  *)
(* the shell's folder dialog is not there while a session is.              *)
(***************************************************************************)
EXTENDS Settings

CONSTANTS
    Pages,              \* SettingsPage
    InitialFiles        \* what the settings file may hold at first

ASSUME SettingsMenuAssumption == "graphics" \in Pages /\ InitialFiles \subseteq Seq(Parsed)

VARIABLES
    alive,              \* the process runs
    app,                \* app_settings
    open,               \* there is a session, with
    baseline,           \* baseline_,
    draft,              \* draft_,
    dirty,              \* dirty_,
    cursor,             \* and page_ and selected_player_
    saving,             \* the step save_settings_atomic is at; "no" outside of it
    file,               \* lines of the settings file; one that is empty and one that
    temp,               \* is not there load to the same.  And of the temporary one
    stored,             \* history: what the last save that succeeded was given,
    failed              \* and that the disk has failed a save of this process since

sessionVars == <<open, baseline, draft, dirty, cursor>>
diskVars == <<file, temp, stored, failed>>
settingsVars == <<alive, app, sessionVars, saving, diskVars>>

TopOfMenu == [page |-> "graphics", player |-> PlayerOne]

SettingsTypeOK ==
    /\ alive \in BOOLEAN /\ open \in BOOLEAN /\ dirty \in BOOLEAN
    /\ app \in AppSettings /\ baseline \in AppSettings /\ draft \in AppSettings
    /\ cursor \in [page : Pages, player : Players]
    /\ saving \in {"no", "opening", "writing", "replacing"}
    /\ stored \in AppSettings /\ failed \in BOOLEAN

SettingsInit ==
    /\ alive = FALSE /\ app = Defaults
    /\ open = FALSE /\ baseline = Defaults /\ draft = Defaults /\ dirty = FALSE
    /\ cursor = TopOfMenu /\ saving = "no"
    /\ file \in InitialFiles /\ temp = <<>>
    /\ stored = Loaded(file) /\ failed = FALSE

Idle == alive /\ saving = "no"

\* A session over settings, as its constructor leaves it.
Session(settings, there) ==
    /\ open' = there
    /\ baseline' = settings /\ draft' = settings /\ dirty' = FALSE
    /\ cursor' = TopOfMenu

-----------------------------------------------------------------------------
(* The process                                                             *)

\* wWinMain: a file that does not load is passed over in silence.
Launch ==
    /\ ~alive
    /\ alive' = TRUE
    /\ app' = Loaded(file)
    /\ Session(Loaded(file), FALSE)
    /\ failed' = FALSE /\ UNCHANGED <<saving, file, temp, stored>>

\* The process ends, whatever it is doing.
Die ==
    /\ alive
    /\ alive' = FALSE /\ app' = Defaults /\ saving' = "no"
    /\ Session(Defaults, FALSE)
    /\ temp' = <<>> /\ UNCHANGED <<file, stored, failed>>

\* save_settings_atomic looks at the settings before it touches a file.
BeginSave(settings) == saving' = IF Valid(settings) THEN "opening" ELSE "no"

\* select_install_root.  The new root stays in force although it may not be saved.
ChooseRoot(r) ==
    /\ Idle /\ ~open
    /\ app' = [app EXCEPT !.install_root = r]
    /\ BeginSave(app')
    /\ Session(app', FALSE)
    /\ UNCHANGED <<alive, diskVars>>

-----------------------------------------------------------------------------
(* The session                                                             *)

OpenMenu ==
    /\ Idle /\ ~open
    /\ Session(app, TRUE)
    /\ UNCHANGED <<alive, app, saving, diskVars>>

\* set_page and select_player
MoveCursor(page, player) ==
    /\ Idle /\ open /\ cursor # [page |-> page, player |-> player]
    /\ page = cursor.page \/ player = cursor.player
    /\ cursor' = [page |-> page, player |-> player]
    /\ UNCHANGED <<alive, app, open, baseline, draft, dirty, saving, diskVars>>

Edit(newDraft) ==
    /\ Idle /\ open
    /\ draft' = newDraft /\ dirty' = TRUE
    /\ UNCHANGED <<alive, app, open, baseline, cursor, saving, diskVars>>

\* Mutant of SetGraphics: what is out of range is taken too.
SetGraphicsUnchecked(g) == Edit([draft EXCEPT !.graphics = g])

SetGraphics(g) == g \in GraphicsInRange /\ Edit([draft EXCEPT !.graphics = g])
SetAudio(a) == a \in AudioInRange /\ Edit([draft EXCEPT !.audio = a])

\* select_device, from a registry that lists the catalogue
SelectDevice(p, d, catalogue) == d \in catalogue /\ Edit([draft EXCEPT !.selected[p] = d])
BindAction(p, a, b) == Edit([draft EXCEPT !.bindings[p][a] = b])

\* commit; what it returns is put in force and saved.  The session goes on.
Commit ==
    /\ Idle /\ open
    /\ baseline' = draft /\ dirty' = FALSE
    /\ app' = draft
    /\ BeginSave(draft)
    /\ UNCHANGED <<alive, open, draft, cursor, diskVars>>

Discard ==
    /\ Idle /\ open
    /\ draft' = baseline /\ dirty' = FALSE
    /\ UNCHANGED <<alive, app, open, baseline, cursor, saving, diskVars>>

CloseMenu ==
    /\ Idle /\ open
    /\ Session(app, FALSE)
    /\ UNCHANGED <<alive, app, saving, diskVars>>

-----------------------------------------------------------------------------
(* save_settings_atomic, of the settings in force                          *)

Step(from, to) ==
    /\ alive /\ saving = from /\ saving' = to
    /\ UNCHANGED <<alive, app, sessionVars>>

\* The directory is made and the temporary file opened and emptied.
OpenTemp == Step("opening", "writing") /\ temp' = <<>> /\ UNCHANGED <<file, stored, failed>>

WriteTemp ==
    /\ Step("writing", "replacing")
    /\ temp' = Lines(app) /\ UNCHANGED <<file, stored, failed>>

\* replace_file: the temporary file takes the name of the other at once.
ReplaceFile ==
    /\ Step("replacing", "no")
    /\ file' = temp /\ temp' = <<>>
    /\ stored' = app /\ failed' = FALSE

\* A directory that cannot be made, a full disk, a target that cannot be replaced.
FailSave ==
    /\ \E from \in {"opening", "writing", "replacing"} : Step(from, "no")
    /\ failed' = TRUE
    /\ temp' = <<>> /\ UNCHANGED <<file, stored>>

Save == OpenTemp \/ WriteTemp \/ ReplaceFile \/ FailSave

-----------------------------------------------------------------------------
\* The next start of the program finds the settings last saved, or those it found
\* first, wherever a save fails or the process ends: what is written loads to what
\* was saved, and a save that is not complete leaves no trace.
StoredSettingsLoad == Loaded(file) = stored

\* Between saves what is in force is what the next start will find, and so is what a
\* session with nothing to save shows, unless the disk has failed a save since the
\* last complete one: no commit is refused for its contents.  commit() marks the
\* session clean before anything is saved, so once a save has failed a clean session
\* does show settings that the file does not have, and the next start will not.
CleanIsSaved ==
    Idle /\ ~failed =>
        /\ app = Loaded(file)
        /\ open /\ ~dirty => draft = Loaded(file)
=============================================================================
