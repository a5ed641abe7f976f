----------------------------- MODULE Installation -----------------------------
(***************************************************************************)
(* convert_image (src/core/conversion.cpp) from the point where it touches *)
(* the install root, with begin_, commit_ and resolve_active_install_      *)
(* generation (ps1_installation.cpp), and validate_installation            *)
(* (runtime.cpp) reading the same root at the same time.                   *)
(*                                                                         *)
(* Every file system call is a step.  Any step may fail, and the process   *)
(* may be killed between any two: both leave the files as they are (Stops),*)
(* so a conversion after a crash is a Start like any other.  The file      *)
(* system is that of the Windows build: a file another process has open    *)
(* cannot be renamed, nor the directory it is in.  Power loss is left out. *)
(***************************************************************************)
EXTENDS Naturals, FiniteSetsExt

CONSTANTS
    Converters,         \* processes that may convert into the root
    Sources,            \* disc images, standing for all that is copied of one
    MaxGeneration       \* kMaxGenerationNumber

ASSUME InstallationAssumption ==
    MaxGeneration \in Nat \ {0} /\ "absent" \notin Sources /\ "partial" \notin Sources

Absent == "absent"
Partial == "partial"    \* truncated, or a mixture of two writers
Numbers == 1 .. MaxGeneration

Content == Sources \cup {Absent, Partial}
Files == {"system", "boot", "temp"}     \* temp is game_manifest.ini.tmp
NoDir == [data |-> FALSE, system |-> Absent, boot |-> Absent, temp |-> Absent,
          manifest |-> Absent, exists |-> FALSE]
EmptyDir == [NoDir EXCEPT !.exists = TRUE]
Dir == [data : BOOLEAN, system : Content, boot : Content, temp : Content,
        manifest : Content, exists : BOOLEAN]

\* An active_install.ini, or its .tmp: the generation it names, or one of these.
NoPointer == 0
Torn == MaxGeneration + 1
Pointer == Numbers \cup {NoPointer, Torn}

Steps == {"idle", "begin", "claim", "create", "data", "manifest", "commit",
          "pointer", "replace", "done"} \cup Files
Job == [at : Steps, open : BOOLEAN, source : Sources \cup {Absent},
        number : 0 .. MaxGeneration]
IdleJob == [at |-> "idle", open |-> FALSE, source |-> Absent, number |-> 0]

VARIABLES
    staging,        \* .staging/generation-N
    generations,    \* generations/generation-N
    pointer,        \* active_install.ini
    pointerTemp,    \* active_install.ini.tmp
    job,            \* where each converter is
    reader          \* where validate_installation is, and what it has read

vars == <<staging, generations, pointer, pointerTemp, job, reader>>

Reader == [at : {"idle", "reload", "boot", "ok", "absent", "failed"},
           number : 0 .. MaxGeneration, manifest : Content]
IdleReader == [at |-> "idle", number |-> 0, manifest |-> Absent]

TypeOK ==
    /\ staging \in [Numbers -> Dir]
    /\ generations \in [Numbers -> Dir]
    /\ pointer \in Pointer /\ pointerTemp \in Pointer
    /\ job \in [Converters -> Job]
    /\ reader \in Reader

-----------------------------------------------------------------------------
\* Mutant of Highest: what an interrupted conversion left is not counted.
HighestCommitted == Max({0} \cup {n \in Numbers : generations[n].exists})

\* highest_generation_number
Highest ==
    Max({0} \cup {n \in Numbers : staging[n].exists \/ generations[n].exists})

\* The files of a staging directory that some converter has open.
OpenIn(n) ==
    {f \in Files : \E c \in Converters :
        job[c].at = f /\ job[c].open /\ job[c].number = n}

PointerTempOpen == \E c \in Converters : job[c].at = "pointer" /\ job[c].open

Goto(c, step) == job' = [job EXCEPT ![c].at = step, ![c].open = FALSE]

Init ==
    /\ staging = [n \in Numbers |-> NoDir]
    /\ generations = [n \in Numbers |-> NoDir]
    /\ pointer = NoPointer /\ pointerTemp = NoPointer
    /\ job = [c \in Converters |-> IdleJob]
    /\ reader = IdleReader

\* convert_image up to begin_install_generation: the root is not touched.
Start(c, s) ==
    /\ job[c].at \in {"idle", "done"}
    /\ job' = [job EXCEPT ![c] = [IdleJob EXCEPT !.at = "begin", !.source = s]]
    /\ UNCHANGED <<staging, generations, pointer, pointerTemp, reader>>

-----------------------------------------------------------------------------
(* begin_install_generation                                                *)

Scan(c) ==
    /\ job[c].at = "begin"
    /\ Highest < MaxGeneration
    /\ job' = [job EXCEPT ![c].at = "claim", ![c].number = Highest + 1]
    /\ UNCHANGED <<staging, generations, pointer, pointerTemp, reader>>

Unclaimed(n) == ~staging[n].exists /\ ~generations[n].exists

Claim(c) ==
    /\ job[c].at = "claim"
    /\ Unclaimed(job[c].number)
    /\ Goto(c, "create")
    /\ UNCHANGED <<staging, generations, pointer, pointerTemp, reader>>

\* create_directory reports no error for a directory that is there.
CreateStaging(c) ==
    LET n == job[c].number
    IN  /\ job[c].at = "create"
        /\ staging' = IF staging[n].exists THEN staging
                      ELSE [staging EXCEPT ![n] = EmptyDir]
        /\ Goto(c, "data")
        /\ UNCHANGED <<generations, pointer, pointerTemp, reader>>

-----------------------------------------------------------------------------
(* convert_image: the contents of the staging directory                    *)

\* create_directories makes the staging directory again should it be gone.
CreateData(c) ==
    /\ job[c].at = "data"
    /\ staging' = [staging EXCEPT ![job[c].number].data = TRUE,
                                  ![job[c].number].exists = TRUE]
    /\ Goto(c, "system")
    /\ UNCHANGED <<generations, pointer, pointerTemp, reader>>

\* Opening a file truncates it; SYSTEM.CNF and boot.psxexe are under data/.
Open(c) ==
    LET n == job[c].number
        f == job[c].at
    IN  /\ f \in Files /\ ~job[c].open
        /\ f # "temp" => staging[n].data
        /\ staging' = [staging EXCEPT ![n][f] = Partial, ![n].exists = TRUE]
        /\ job' = [job EXCEPT ![c].open = TRUE]
        /\ UNCHANGED <<generations, pointer, pointerTemp, reader>>

\* What follows a file that is written and closed.
After == [system |-> "boot", boot |-> "temp", temp |-> "manifest"]

Write(c) ==
    LET n == job[c].number
        f == job[c].at
        s == job[c].source
    IN  /\ f \in Files /\ job[c].open
        /\ staging' = [staging EXCEPT ![n][f] = IF @ \in {Partial, s} THEN s ELSE Partial]
        /\ Goto(c, After[f])
        /\ UNCHANGED <<generations, pointer, pointerTemp, reader>>

\* The manifest's temporary replaces game_manifest.ini.
ReplaceManifest(c) ==
    LET n == job[c].number
    IN  /\ job[c].at = "manifest"
        /\ staging[n].temp # Absent /\ "temp" \notin OpenIn(n)
        /\ staging' = [staging EXCEPT ![n].manifest = staging[n].temp,
                                      ![n].temp = Absent]
        /\ Goto(c, "commit")
        /\ UNCHANGED <<generations, pointer, pointerTemp, reader>>

-----------------------------------------------------------------------------
(* commit_install_generation                                               *)

\* Mutant of Commit: the directory is moved after the pointer is replaced.
CommitLater(c) ==
    LET n == job[c].number
    IN  /\ job[c].at = "commit"
        /\ staging[n].exists /\ staging[n].manifest # Absent
        /\ ~generations[n].exists
        /\ Goto(c, "pointer")
        /\ UNCHANGED <<staging, generations, pointer, pointerTemp, reader>>

\* The staging directory becomes the generation's final directory.
Commit(c) ==
    LET n == job[c].number
    IN  /\ job[c].at = "commit"
        /\ staging[n].exists /\ staging[n].manifest # Absent
        /\ ~generations[n].exists
        /\ OpenIn(n) = {}
        /\ generations' = [generations EXCEPT ![n] = staging[n]]
        /\ staging' = [staging EXCEPT ![n] = NoDir]
        /\ Goto(c, "pointer")
        /\ UNCHANGED <<pointer, pointerTemp, reader>>

\* Mutant of OpenPointer: the pointer is written in place.
OpenPointerInPlace(c) ==
    /\ job[c].at = "pointer" /\ ~job[c].open
    /\ pointerTemp' = Torn /\ pointer' = Torn
    /\ job' = [job EXCEPT ![c].open = TRUE]
    /\ UNCHANGED <<staging, generations, reader>>

OpenPointer(c) ==
    /\ job[c].at = "pointer" /\ ~job[c].open
    /\ pointerTemp' = Torn
    /\ job' = [job EXCEPT ![c].open = TRUE]
    /\ UNCHANGED <<staging, generations, pointer, reader>>

\* Pointers are of one length: the last writer overwrites all of it.
WritePointer(c) ==
    /\ job[c].at = "pointer" /\ job[c].open
    /\ pointerTemp' = job[c].number
    /\ Goto(c, "replace")
    /\ UNCHANGED <<staging, generations, pointer, reader>>

\* Mutant of ReplacePointer: what is no longer active is pruned at once.
ReplacePointerPruning(c) ==
    /\ job[c].at = "replace"
    /\ pointerTemp # NoPointer /\ ~PointerTempOpen
    /\ pointer' = pointerTemp
    /\ pointerTemp' = NoPointer
    /\ generations' = [m \in Numbers |->
                        IF m = pointerTemp THEN generations[m] ELSE NoDir]
    /\ Goto(c, "done")
    /\ UNCHANGED <<staging, reader>>

\* atomic_replace_file: the commit point.
ReplacePointer(c) ==
    /\ job[c].at = "replace"
    /\ pointerTemp # NoPointer /\ ~PointerTempOpen
    /\ pointer' = pointerTemp
    /\ pointerTemp' = NoPointer
    /\ Goto(c, "done")
    /\ UNCHANGED <<staging, generations, reader>>

\* A step fails and convert_image returns, or the process is killed.
Stops(c) ==
    /\ job[c].at \notin {"idle", "done"}
    /\ job' = [job EXCEPT ![c] = IdleJob]
    /\ UNCHANGED <<staging, generations, pointer, pointerTemp, reader>>

-----------------------------------------------------------------------------
(* validate_installation                                                   *)

\* load_conversion_manifest refuses a manifest that is not whole: every key is
\* required, the last one written included, and none may come twice.
Loadable(manifest) == manifest \in Sources

\* resolve_active_install_generation, with the manifest it leads to.
Resolvable(p) == p \in Numbers /\ Loadable(generations[p].manifest)

Finished == {"idle", "ok", "absent", "failed"}

\* classify_installation
Classify ==
    /\ reader.at \in Finished
    /\ reader' = [IdleReader EXCEPT !.at = CASE pointer = NoPointer -> "absent"
                                             [] Resolvable(pointer) -> "reload"
                                             [] OTHER -> "failed"]
    /\ UNCHANGED <<staging, generations, pointer, pointerTemp, job>>

\* The pointer and the manifest are read a second time.
Reload ==
    /\ reader.at = "reload"
    /\ reader' =
        IF Resolvable(pointer) /\ generations[pointer].system # Absent
        THEN [at |-> "boot", number |-> pointer,
              manifest |-> generations[pointer].manifest]
        ELSE [IdleReader EXCEPT !.at = "failed"]
    /\ UNCHANGED <<staging, generations, pointer, pointerTemp, job>>

\* The executable must match the manifest that was read before it.
LoadBoot ==
    /\ reader.at = "boot"
    /\ reader' = [reader EXCEPT !.at =
                    IF generations[reader.number].boot = reader.manifest
                    THEN "ok" ELSE "failed"]
    /\ UNCHANGED <<staging, generations, pointer, pointerTemp, job>>

Next ==
    \/ \E c \in Converters :
        \/ \E s \in Sources : Start(c, s)
        \/ Scan(c) \/ Claim(c) \/ CreateStaging(c) \/ CreateData(c)
        \/ Open(c) \/ Write(c) \/ ReplaceManifest(c) \/ Commit(c)
        \/ OpenPointer(c) \/ WritePointer(c) \/ ReplacePointer(c) \/ Stops(c)
    \/ Classify \/ Reload \/ LoadBoot

Spec == Init /\ [][Next]_vars

-----------------------------------------------------------------------------
\* What every file of a generation holds when it was converted from s whole.
Whole(dir, s) == dir.system = s /\ dir.boot = s /\ dir.manifest = s

\* Once active_install.ini is there it names a generation that was converted
\* whole from one source, wherever conversions stopped since.
ActiveIsWhole ==
    pointer # NoPointer =>
        pointer \in Numbers /\ \E s \in Sources : Whole(generations[pointer], s)

\* validate_installation never reports an installation that is being replaced
\* as broken, although it reads the pointer twice and the executable later.
ReaderNeverFails == reader.at # "failed"

\* What an interrupted conversion leaves behind does not block the next: the
\* number it takes is free.
NextNumberFree ==
    \A c \in Converters : job[c].at = "claim" => Unclaimed(job[c].number)

\* What the design document requires of begin_install_generation: the generation
\* directory it creates is unique.
UniqueGenerations ==
    \A c, d \in Converters :
        /\ c # d /\ job[c].number = job[d].number
        => ~(job[c].at = "data" /\ job[d].at = "data")
=============================================================================
