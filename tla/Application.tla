---------------------------- MODULE Application ----------------------------
(***************************************************************************)
(* The window of src/app_win32/main.cpp with its conversion worker, over   *)
(* Installation: what it offers is what it read from the install root when *)
(* it was started, an image was selected or a conversion had succeeded.    *)
(*                                                                         *)
(* The handlers run one after another on the window's thread; those that   *)
(* read the root (refresh_install, run_checkpoint) read it file by file,   *)
(* while the worker goes on.  Of other install roots nothing is followed    *)
(* but what one may hold when it is chosen, or is in the settings file when *)
(* the program starts.  Progress messages, which only change the text and  *)
(* the bar, are left out.                                                  *)
(***************************************************************************)
EXTENDS Installation

CONSTANTS
    Worker,     \* the converter that is this process's detached thread
    Roots,      \* install roots
    DefaultRoot \* the one of a program without settings

ASSUME ApplicationAssumption == Converters = {Worker} /\ DefaultRoot \in Roots

VARIABLES
    window,     \* the globals of main.cpp
    posted,     \* the WM_FINISHED on its way, with its result
    root,       \* game_dir
    stored      \* the install root in the settings file

disk == <<staging, generations, pointer, pointerTemp>>
place == <<root, stored>>
appVars == <<vars, window, posted, place>>

Handlers == {"none", "refresh_install", "validate_installation", "run_checkpoint",
             "bootstrap_runtime"}
Reading == {"validate_installation", "run_checkpoint", "bootstrap_runtime"}
Window == [open : BOOLEAN, source : Sources \cup {Absent}, running : BOOLEAN,
           converted : BOOLEAN,
           enabled : BOOLEAN,       \* the choosers and the prepare button
           checkpoint : BOOLEAN,    \* the checkpoint button
           handler : Handlers]

\* WM_CREATE: the window as wWinMain makes it, about to read the root.
Created == [open |-> TRUE, source |-> Absent, running |-> FALSE, converted |-> FALSE,
            enabled |-> TRUE, checkpoint |-> TRUE, handler |-> "refresh_install"]

AppTypeOK ==
    /\ TypeOK /\ window \in Window /\ posted \in {"none", "ok", "failed"}
    /\ root \in Roots /\ stored \in Roots

AppInit ==
    /\ Init /\ window = Created /\ posted = "none"
    /\ root = DefaultRoot /\ stored = DefaultRoot

Free == window.open /\ window.handler = "none"
WorkerRuns == job[Worker].at # "idle"

-----------------------------------------------------------------------------
(* refresh_install                                                         *)

\* The window when a refresh begins.
Refreshing(w) == [w EXCEPT !.converted = FALSE, !.handler = "refresh_install"]

\* Mutant of Refreshed: whether a conversion runs is not asked.
RefreshedAnyway(w, valid) ==
    [w EXCEPT !.converted = valid, !.checkpoint = valid, !.handler = "none"]

\* And when it ends.
Refreshed(w, valid) ==
    [w EXCEPT !.converted = valid, !.checkpoint = valid /\ ~w.running, !.handler = "none"]

\* Its own classify_installation; only a PS1 installation is validated.
RefreshClassify ==
    /\ window.open /\ window.handler = "refresh_install"
    /\ window' = IF Resolvable(pointer)
                 THEN [window EXCEPT !.handler = "validate_installation"]
                 ELSE Refreshed(window, FALSE)
    /\ UNCHANGED <<vars, posted, place>>

\* The reads of validate_installation, for a refresh or a checkpoint.
Validate ==
    /\ window.open /\ window.handler \in Reading
    /\ (reader = IdleReader /\ Classify) \/ Reload \/ LoadBoot
    /\ UNCHANGED <<window, posted, place>>

RefreshEnds ==
    /\ window.open /\ window.handler = "validate_installation"
    /\ reader.at \in {"ok", "absent", "failed"}
    /\ window' = Refreshed(window, reader.at = "ok")
    /\ reader' = IdleReader
    /\ UNCHANGED <<disk, job, posted, place>>

-----------------------------------------------------------------------------
(* The other handlers                                                      *)

\* WM_DROPFILES, which nothing disables, or the dialog of the source button.
SelectImage(s) ==
    /\ Free
    /\ window' = Refreshing([window EXCEPT !.source = s])
    /\ UNCHANGED <<vars, posted, place>>

\* What a root holds that another conversion was at, or none.
Root(staged, n, s) ==
    [staging |-> [m \in Numbers |-> IF m \in staged THEN EmptyDir ELSE NoDir],
     generations |->
        [m \in Numbers |->
            IF m = n THEN [EmptyDir EXCEPT !.data = TRUE, !.system = s, !.boot = s, !.manifest = s]
            ELSE NoDir],
     pointer |-> n]
OtherRoots ==
    {Root({}, 0, Absent), Root({1}, 0, Absent)} \cup {Root({}, 1, s) : s \in Sources}

Enter(r) ==
    /\ root' = r
    /\ IF r = root THEN UNCHANGED disk
       ELSE \E other \in OtherRoots :
            /\ staging' = other.staging /\ generations' = other.generations
            /\ pointer' = other.pointer /\ pointerTemp' = NoPointer

\* select_install_root.  The root chosen is entered, whether or not it is saved.
SelectInstallRoot(r) ==
    /\ Free /\ window.enabled
    /\ Enter(r)
    /\ stored' \in {stored, r}
    /\ window' = Refreshing(window)
    /\ UNCHANGED <<job, reader, posted>>

\* start_conversion
StartConversion ==
    /\ Free /\ window.enabled /\ ~window.running
    /\ window.source # Absent
    /\ Start(Worker, window.source)
    /\ window' = [window EXCEPT !.running = TRUE, !.converted = FALSE,
                                !.enabled = FALSE, !.checkpoint = FALSE]
    /\ UNCHANGED <<posted, place>>

RunCheckpoint ==
    /\ Free /\ window.checkpoint
    /\ window.converted /\ ~window.running
    /\ window' = [window EXCEPT !.handler = "run_checkpoint"]
    /\ UNCHANGED <<vars, posted, place>>

\* The executable of the validated installation is loaded once more.
CheckpointLoads ==
    /\ window.open /\ window.handler = "run_checkpoint"
    /\ reader.at = "ok"
    /\ window' = [window EXCEPT !.handler = "bootstrap_runtime"]
    /\ reader' = [reader EXCEPT !.at = "boot"]
    /\ UNCHANGED <<disk, job, posted, place>>

\* The guest is explored, or an error shown.
CheckpointEnds ==
    /\ window.open
    /\ \/ window.handler = "run_checkpoint" /\ reader.at \in {"absent", "failed"}
       \/ window.handler = "bootstrap_runtime" /\ reader.at \in {"ok", "failed"}
    /\ window' = [window EXCEPT !.handler = "none"]
    /\ reader' = IdleReader
    /\ UNCHANGED <<disk, job, posted, place>>

\* WM_FINISHED
Finish ==
    /\ Free /\ posted # "none"
    /\ LET w == [window EXCEPT !.running = FALSE, !.enabled = TRUE,
                               !.checkpoint = window.converted]
       IN  window' = IF posted = "ok" THEN Refreshing(w) ELSE w
    /\ posted' = "none"
    /\ UNCHANGED <<vars, place>>

\* WM_CLOSE: nothing is posted to a window that is gone.
Close ==
    /\ Free
    /\ window' = [window EXCEPT !.open = FALSE]
    /\ posted' = "none"
    /\ UNCHANGED <<vars, place>>

-----------------------------------------------------------------------------
(* The worker, and the process                                             *)

Work ==
    /\ \/ Scan(Worker) \/ Claim(Worker) \/ CreateStaging(Worker) \/ CreateData(Worker)
       \/ Open(Worker) \/ Write(Worker) \/ ReplaceManifest(Worker) \/ Commit(Worker)
       \/ OpenPointer(Worker) \/ WritePointer(Worker) \/ ReplacePointer(Worker)
    /\ UNCHANGED <<window, posted, place>>

Posted(result) == IF window.open THEN result ELSE "none"

WorkFails ==
    /\ Stops(Worker)
    /\ posted' = Posted("failed")
    /\ UNCHANGED <<window, place>>

WorkEnds ==
    /\ job[Worker].at = "done"
    /\ job' = [job EXCEPT ![Worker] = IdleJob]
    /\ posted' = Posted("ok")
    /\ UNCHANGED <<disk, reader, window, place>>

\* The process ends, with the worker wherever it was, and is started again in the
\* root its settings name.
Restart ==
    /\ job' = [job EXCEPT ![Worker] = IdleJob]
    /\ reader' = IdleReader
    /\ window' = Created
    /\ posted' = "none"
    /\ Enter(stored)
    /\ UNCHANGED stored

AppNext ==
    \/ RefreshClassify \/ Validate \/ RefreshEnds
    \/ \E s \in Sources : SelectImage(s)
    \/ \E r \in Roots : SelectInstallRoot(r)
    \/ StartConversion \/ RunCheckpoint \/ CheckpointLoads \/ CheckpointEnds
    \/ Finish \/ Close \/ Work \/ WorkFails \/ WorkEnds \/ Restart

AppSpec == AppInit /\ [][AppNext]_appVars

-----------------------------------------------------------------------------
\* The window knows what goes on.  It says a conversion runs exactly while the
\* worker runs or its result is on its way, whatever is dropped on it or chosen in
\* the meantime; when it calls the installation converted or offers the checkpoint,
\* a whole one is active, and no conversion is at work on it.
WindowIsTruthful ==
    window.open =>
        /\ window.running <=> WorkerRuns \/ posted # "none"
        /\ window.converted => pointer # NoPointer /\ ActiveIsWhole
        /\ window.checkpoint /\ Free =>
            ~WorkerRuns /\ pointer # NoPointer /\ ActiveIsWhole

\* The step the runtime sees as one: the abstract conversion.
Promise ==
    INSTANCE Installer WITH
        Nothing <- Absent,
        active <- IF pointer = NoPointer THEN Absent
                  ELSE IF pointer \in Numbers /\ generations[pointer].exists
                       THEN generations[pointer].boot
                  ELSE Partial,
        converting <- [c \in Converters |->
                        IF job[c].at = "done" THEN Absent ELSE job[c].source]

\* A conversion activates what it converted, in one step and in full, or leaves
\* the active installation alone.
ConversionIsAtomic == Promise!Spec
=============================================================================
