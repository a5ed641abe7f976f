--------------------------- MODULE ApplicationProofs ---------------------------
(***************************************************************************)
(* The window, its worker and the install roots, for any sources, roots    *)
(* and number of generations: whatever fails and wherever the process ends,*)
(* the active installation is whole, a reader never meets half of one, the *)
(* window tells the truth, and a conversion is the one step that Installer *)
(* promises.                                                               *)
(***************************************************************************)
EXTENDS Application, FiniteSetTheorems, WellFoundedInduction, TLAPS

\* Where the worker is.
j == job[Worker]

\* What the worker relies on, step by step.  Nobody else writes where it does: the
\* number is free until it commits, a file that is open is its own, and what it has
\* written is there.
Progress ==
    /\ j.at = "idle" => j = IdleJob
    /\ j.at # "idle" => j.source \in Sources
    /\ j.open => j.at \in Files \cup {"pointer"}
    /\ j.at \notin {"idle", "begin"} => j.number \in Numbers
    /\ j.at \in {"claim", "create"} => Unclaimed(j.number)
    /\ j.at \in {"data", "manifest", "commit"} \cup Files => ~generations[j.number].exists
    /\ j.at \in Files /\ j.open => staging[j.number][j.at] = Partial
    /\ j.at \in {"boot", "temp", "manifest", "commit"} => staging[j.number].system = j.source
    /\ j.at \in {"temp", "manifest", "commit"} => staging[j.number].boot = j.source
    /\ j.at = "manifest" => staging[j.number].temp = j.source
    /\ j.at = "commit" => staging[j.number].manifest = j.source
    /\ j.at \in {"pointer", "replace"} =>
        generations[j.number].exists /\ Whole(generations[j.number], j.source)
    /\ j.at = "replace" => pointerTemp = j.number

\* The active generation is whole, and taken.
ActiveStays == ActiveIsWhole /\ (pointer # NoPointer => generations[pointer].exists)

\* Once validation has found an installation there is one, and the generation it
\* reads stays as it was found.
ReaderFollows ==
    /\ reader.at # "failed"
    /\ reader.at \in {"reload", "boot", "ok"} => pointer # NoPointer
    /\ reader.at \in {"boot", "ok"} =>
        /\ reader.number \in Numbers /\ generations[reader.number].exists
        /\ reader.manifest \in Sources /\ Whole(generations[reader.number], reader.manifest)

\* The window's flags and the handlers.
WindowFollows ==
    /\ window.handler \in {"none", "refresh_install"} => reader = IdleReader
    /\ window.handler = "bootstrap_runtime" => reader.at \in {"boot", "ok"}
    /\ posted # "none" => ~WorkerRuns
    /\ ~window.open => posted = "none"
    /\ window.open =>
        /\ window.running <=> WorkerRuns \/ posted # "none"
        /\ window.enabled <=> ~window.running
        /\ window.converted => pointer # NoPointer
        /\ window.checkpoint /\ window.handler \notin {"refresh_install", "validate_installation"} =>
            window.converted /\ ~window.running

Disk == Progress /\ ActiveStays /\ ReaderFollows
IInv == AppTypeOK /\ Disk /\ WindowFollows

-----------------------------------------------------------------------------
(* The files.                                                              *)

\* Finitely many numbers have a greatest.
LEMMA GreatestOf ==
    ASSUME NEW n \in Nat, NEW S \in SUBSET (0 .. n), S # {}
    PROVE  Max(S) \in S /\ \A i \in S : i <= Max(S)
<1> DEFINE less == OpToRel(<, Nat)
<1>1. IsWellFoundedOn(less, Nat)
  BY NatLessThanWellFounded, Zenon
<1>2. \A a, b \in Nat : <<a, b>> \notin less => b <= a
  BY DEF OpToRel
<1> HIDE DEF less
<1> DEFINE down == {n - i : i \in S}
<1>3. down \subseteq Nat /\ down # {}
  <2>1. PICK i : i \in S
    OBVIOUS
  <2>2. n - i \in down
    BY <2>1
  <2>3. \A k \in S : n - k \in Nat
    OBVIOUS
  <2> QED BY <2>2, <2>3
<1>4. PICK x \in down : \A y \in down : <<y, x>> \notin less
  <2> HIDE DEF down
  <2> QED BY <1>1, <1>3, WFMin, Zenon
<1>5. \A y \in down : x <= y
  BY <1>2, <1>3, <1>4
<1>6. PICK i \in S : x = n - i
  BY <1>4
<1>7. ASSUME NEW k \in S PROVE i >= k
  BY <1>5, <1>6, <1>7
<1>8. Max(S) \in S /\ \A k \in S : Max(S) >= k
  BY <1>7 DEF Max
<1> QED
  BY <1>8

\* highest_generation_number is at least every number that is taken.
LEMMA HighestIs ==
    /\ Highest \in 0 .. MaxGeneration
    /\ \A n \in Numbers : staging[n].exists \/ generations[n].exists => n <= Highest
<1> DEFINE S == {0} \cup {n \in Numbers : staging[n].exists \/ generations[n].exists}
<1>1. S \in SUBSET (0 .. MaxGeneration) /\ S # {} /\ MaxGeneration \in Nat
  BY InstallationAssumption DEF Numbers
<1>2. Max(S) \in S /\ \A i \in S : i <= Max(S)
  <2> HIDE DEF S
  <2> QED BY <1>1, GreatestOf
<1> QED
  BY <1>1, <1>2 DEF Highest

LEMMA JobType ==
    ASSUME TypeOK
    PROVE  /\ j \in Job /\ job \in [{Worker} -> Job] /\ Converters = {Worker}
           /\ \A x \in Job : [job EXCEPT ![Worker] = x][Worker] = x
BY ApplicationAssumption DEF TypeOK, j

\* A step of the worker that leaves the generations and the pointer alone leaves
\* alone what is active and what a reader has found.
LEMMA OthersStay ==
    ASSUME Disk, UNCHANGED <<generations, pointer, reader>>
    PROVE  ActiveStays' /\ ReaderFollows'
BY DEF Disk, ActiveStays, ActiveIsWhole, ReaderFollows, Whole

LEMMA ScanStep ==
    ASSUME TypeOK, Disk, Scan(Worker) PROVE TypeOK' /\ Disk'
<1>1. /\ j.at = "begin" /\ Highest < MaxGeneration /\ UNCHANGED <<staging, pointerTemp>>
      /\ job' = [job EXCEPT ![Worker] = [j EXCEPT !.at = "claim", !.number = Highest + 1]]
      /\ UNCHANGED <<generations, pointer, reader>>
  BY DEF Scan, Goto, j
<1>x. /\ Highest + 1 \in Numbers /\ Highest + 1 \in 0 .. MaxGeneration
      /\ ~staging[Highest + 1].exists /\ ~generations[Highest + 1].exists
  BY <1>1, HighestIs, InstallationAssumption DEF Numbers
<1> DEFINE next == [j EXCEPT !.at = "claim", !.number = Highest + 1]
<1>a. next \in Job
  BY <1>1, JobType, <1>x DEF Job, Steps, Files
<1>b. j' = next /\ job' \in [Converters -> Job]
  BY <1>1, <1>a, JobType DEF j
<1>2. j' = [j EXCEPT !.at = "claim", !.number = Highest + 1] /\ j' \in Job
  BY <1>a, <1>b
<1>3. TypeOK'
  BY <1>1, <1>b DEF TypeOK, Job
<1>4. Progress'
  BY <1>1, <1>2, JobType, <1>x DEF Disk, Progress, TypeOK, Job, Files, Unclaimed
<1> QED
  BY <1>1, <1>3, <1>4, OthersStay DEF Disk

LEMMA ClaimStep ==
    ASSUME TypeOK, Disk, Claim(Worker) PROVE TypeOK' /\ Disk'
<1>1. /\ j.at = "claim" /\ Unclaimed(j.number) /\ UNCHANGED <<staging, pointerTemp>>
      /\ job' = [job EXCEPT ![Worker] = [j EXCEPT !.at = "create", !.open = FALSE]]
      /\ UNCHANGED <<generations, pointer, reader>>
  BY DEF Claim, Goto, j
<1> DEFINE next == [j EXCEPT !.at = "create", !.open = FALSE]
<1>a. next \in Job
  BY <1>1, JobType DEF Job, Steps, Files
<1>b. j' = next /\ job' \in [Converters -> Job]
  BY <1>1, <1>a, JobType DEF j
<1>2. j' = [j EXCEPT !.at = "create", !.open = FALSE] /\ j' \in Job
  BY <1>a, <1>b
<1>3. TypeOK'
  BY <1>1, <1>b DEF TypeOK, Job
<1>4. Progress'
  BY <1>1, <1>2, JobType DEF Disk, Progress, TypeOK, Job, Files, Unclaimed
<1> QED
  BY <1>1, <1>3, <1>4, OthersStay DEF Disk

LEMMA CreateStagingStep ==
    ASSUME TypeOK, Disk, CreateStaging(Worker) PROVE TypeOK' /\ Disk'
<1>1. /\ j.at = "create" /\ UNCHANGED pointerTemp
      /\ staging' = IF staging[j.number].exists THEN staging ELSE [staging EXCEPT ![j.number] = EmptyDir]
      /\ job' = [job EXCEPT ![Worker] = [j EXCEPT !.at = "data", !.open = FALSE]]
      /\ UNCHANGED <<generations, pointer, reader>>
  BY DEF CreateStaging, Goto, j
<1> DEFINE next == [j EXCEPT !.at = "data", !.open = FALSE]
<1>a. next \in Job
  BY <1>1, JobType DEF Job, Steps, Files
<1>b. j' = next /\ job' \in [Converters -> Job]
  BY <1>1, <1>a, JobType DEF j
<1>2. j' = [j EXCEPT !.at = "data", !.open = FALSE] /\ j' \in Job
  BY <1>a, <1>b
<1>3. TypeOK'
  BY <1>1, <1>b DEF TypeOK, Job, EmptyDir, NoDir, Dir, Content
<1>4. Progress'
  BY <1>1, <1>2, JobType DEF Disk, Progress, TypeOK, Job, Files, Unclaimed
<1> QED
  BY <1>1, <1>3, <1>4, OthersStay DEF Disk

LEMMA CreateDataStep ==
    ASSUME TypeOK, Disk, CreateData(Worker) PROVE TypeOK' /\ Disk'
<1> DEFINE n == j.number
           next == [j EXCEPT !.at = "system", !.open = FALSE]
           dir == [staging[n] EXCEPT !.data = TRUE, !.exists = TRUE]
<1>1. /\ j.at = "data"
      /\ staging' = [staging EXCEPT ![n].data = TRUE, ![n].exists = TRUE]
      /\ job' = [job EXCEPT ![Worker] = next]
      /\ UNCHANGED <<generations, pointer, pointerTemp, reader>>
  BY DEF CreateData, Goto, j
<1>2. n \in Numbers /\ j.source \in Sources /\ j \in Job
  BY <1>1, JobType DEF Disk, Progress, Files
<1>3. staging \in [Numbers -> Dir] /\ staging[n] \in Dir
  BY <1>2 DEF TypeOK
<1>4. next \in Job
  BY <1>1, <1>2 DEF Job, Steps, Files
<1>5. j' = next /\ job' \in [Converters -> Job]
  BY <1>1, <1>4, JobType DEF j
<1>6. dir \in Dir
  BY <1>1, <1>2, <1>3 DEF Dir, Content, Files
<1>7. staging' = [staging EXCEPT ![n] = dir]
  BY <1>1, <1>2, <1>3 DEF Dir, Files
<1>8. TypeOK'
  BY <1>1, <1>2, <1>3, <1>5, <1>6, <1>7 DEF TypeOK
<1>9. Progress'
  BY <1>1, <1>2, <1>3, <1>5, <1>7 DEF Disk, Progress, Job, Files, Dir
<1> QED
  BY <1>1, <1>8, <1>9, OthersStay DEF Disk

LEMMA OpenStep ==
    ASSUME TypeOK, Disk, Open(Worker) PROVE TypeOK' /\ Disk'
<1> DEFINE n == j.number
           next == [j EXCEPT !.open = TRUE]
           dir == [staging[n] EXCEPT ![j.at] = Partial, !.exists = TRUE]
<1>1. /\ j.at \in Files /\ ~j.open
      /\ staging' = [staging EXCEPT ![n][j.at] = Partial, ![n].exists = TRUE]
      /\ job' = [job EXCEPT ![Worker] = next]
      /\ UNCHANGED <<generations, pointer, pointerTemp, reader>>
  BY DEF Open, Goto, j
<1>2. n \in Numbers /\ j.source \in Sources /\ j \in Job
  BY <1>1, JobType DEF Disk, Progress, Files
<1>3. staging \in [Numbers -> Dir] /\ staging[n] \in Dir
  BY <1>2 DEF TypeOK
<1>4. next \in Job
  BY <1>1, <1>2 DEF Job, Steps, Files
<1>5. j' = next /\ job' \in [Converters -> Job]
  BY <1>1, <1>4, JobType DEF j
<1>6. dir \in Dir
  BY <1>1, <1>2, <1>3 DEF Dir, Content, Files
<1>7. staging' = [staging EXCEPT ![n] = dir]
  BY <1>1, <1>2, <1>3 DEF Dir, Files
<1>x. /\ dir[j.at] = Partial
      /\ \A f \in {"system", "boot", "temp", "manifest"} : f # j.at => dir[f] = staging[n][f]
  BY <1>1, <1>3 DEF Dir, Files
<1>y. staging'[n] = dir
  BY <1>2, <1>3, <1>7
<1> HIDE DEF dir
<1>8. TypeOK'
  BY <1>1, <1>2, <1>3, <1>5, <1>6, <1>7 DEF TypeOK
<1>9. Progress'
  <2>1. CASE j.at = "system"
    BY <1>1, <1>2, <1>3, <1>5, <1>x, <1>y, <2>1 DEF Disk, Progress, Job, Files, Dir
  <2>2. CASE j.at = "boot"
    BY <1>1, <1>2, <1>3, <1>5, <1>x, <1>y, <2>2 DEF Disk, Progress, Job, Files, Dir
  <2>3. CASE j.at = "temp"
    BY <1>1, <1>2, <1>3, <1>5, <1>x, <1>y, <2>3 DEF Disk, Progress, Job, Files, Dir
  <2> QED BY <1>1, <2>1, <2>2, <2>3 DEF Files
<1> QED
  BY <1>1, <1>8, <1>9, OthersStay DEF Disk

LEMMA WriteStep ==
    ASSUME TypeOK, Disk, Write(Worker) PROVE TypeOK' /\ Disk'
<1> DEFINE n == j.number
           next == [j EXCEPT !.at = After[j.at], !.open = FALSE]
           dir == [staging[n] EXCEPT ![j.at] = j.source]
<1>1. /\ j.at \in Files /\ j.open
      /\ staging' = [staging EXCEPT ![n][j.at] = IF @ \in {Partial, j.source} THEN j.source ELSE Partial]
      /\ job' = [job EXCEPT ![Worker] = next]
      /\ UNCHANGED <<generations, pointer, pointerTemp, reader>>
  BY DEF Write, Goto, j
<1>2. n \in Numbers /\ j.source \in Sources /\ j \in Job
  BY <1>1, JobType DEF Disk, Progress, Files
<1>3. staging \in [Numbers -> Dir] /\ staging[n] \in Dir
  BY <1>2 DEF TypeOK
<1>w. staging[n][j.at] = Partial /\ After[j.at] \in {"boot", "temp", "manifest"}
  BY <1>1 DEF Disk, Progress, Files, After
<1>4. next \in Job
  BY <1>1, <1>2, <1>w DEF Job, Steps, Files
<1>5. j' = next /\ job' \in [Converters -> Job]
  BY <1>1, <1>4, JobType DEF j
<1>6. dir \in Dir
  BY <1>1, <1>2, <1>3 DEF Dir, Content, Files
<1>7. staging' = [staging EXCEPT ![n] = dir]
  BY <1>1, <1>2, <1>3, <1>w DEF Dir, Files
<1>x. /\ dir[j.at] = j.source
      /\ \A f \in {"system", "boot", "temp", "manifest"} : f # j.at => dir[f] = staging[n][f]
  BY <1>1, <1>3 DEF Dir, Files
<1>y. staging'[n] = dir
  BY <1>2, <1>3, <1>7
<1> HIDE DEF dir
<1>8. TypeOK'
  BY <1>1, <1>2, <1>3, <1>5, <1>6, <1>7 DEF TypeOK
<1>9. Progress'
  <2>1. CASE j.at = "system"
    BY <1>1, <1>2, <1>3, <1>5, <1>x, <1>y, <2>1 DEF Disk, Progress, Job, Files, Dir, After
  <2>2. CASE j.at = "boot"
    BY <1>1, <1>2, <1>3, <1>5, <1>x, <1>y, <2>2 DEF Disk, Progress, Job, Files, Dir, After
  <2>3. CASE j.at = "temp"
    BY <1>1, <1>2, <1>3, <1>5, <1>x, <1>y, <2>3 DEF Disk, Progress, Job, Files, Dir, After
  <2> QED BY <1>1, <2>1, <2>2, <2>3 DEF Files
<1> QED
  BY <1>1, <1>8, <1>9, OthersStay DEF Disk

LEMMA ReplaceManifestStep ==
    ASSUME TypeOK, Disk, ReplaceManifest(Worker) PROVE TypeOK' /\ Disk'
<1> DEFINE n == j.number
           next == [j EXCEPT !.at = "commit", !.open = FALSE]
           dir == [staging[n] EXCEPT !.manifest = staging[n].temp, !.temp = Absent]
<1>1. /\ j.at = "manifest"
      /\ staging' = [staging EXCEPT ![n].manifest = staging[n].temp, ![n].temp = Absent]
      /\ job' = [job EXCEPT ![Worker] = next]
      /\ UNCHANGED <<generations, pointer, pointerTemp, reader>>
  BY DEF ReplaceManifest, Goto, j
<1>2. n \in Numbers /\ j.source \in Sources /\ j \in Job
  BY <1>1, JobType DEF Disk, Progress, Files
<1>3. staging \in [Numbers -> Dir] /\ staging[n] \in Dir
  BY <1>2 DEF TypeOK
<1>4. next \in Job
  BY <1>1, <1>2 DEF Job, Steps, Files
<1>5. j' = next /\ job' \in [Converters -> Job]
  BY <1>1, <1>4, JobType DEF j
<1>6. dir \in Dir
  BY <1>1, <1>2, <1>3 DEF Dir, Content, Files
<1>7. staging' = [staging EXCEPT ![n] = dir]
  BY <1>1, <1>2, <1>3 DEF Dir, Files
<1>8. TypeOK'
  BY <1>1, <1>2, <1>3, <1>5, <1>6, <1>7 DEF TypeOK
<1>9. Progress'
  BY <1>1, <1>2, <1>3, <1>5, <1>7 DEF Disk, Progress, Job, Files, Dir
<1> QED
  BY <1>1, <1>8, <1>9, OthersStay DEF Disk

LEMMA OpenPointerStep ==
    ASSUME TypeOK, Disk, OpenPointer(Worker) PROVE TypeOK' /\ Disk'
<1>1. /\ j.at = "pointer" /\ ~j.open /\ UNCHANGED staging /\ pointerTemp' = Torn
      /\ job' = [job EXCEPT ![Worker] = [j EXCEPT !.open = TRUE]]
      /\ UNCHANGED <<generations, pointer, reader>>
  BY DEF OpenPointer, Goto, j
<1> DEFINE next == [j EXCEPT !.open = TRUE]
<1>a. next \in Job
  BY <1>1, JobType DEF Job, Steps, Files
<1>b. j' = next /\ job' \in [Converters -> Job]
  BY <1>1, <1>a, JobType DEF j
<1>2. j' = [j EXCEPT !.open = TRUE] /\ j' \in Job
  BY <1>a, <1>b
<1>3. TypeOK'
  BY <1>1, <1>b DEF TypeOK, Job, Pointer
<1>4. Progress'
  BY <1>1, <1>2, JobType DEF Disk, Progress, TypeOK, Job, Files
<1> QED
  BY <1>1, <1>3, <1>4, OthersStay DEF Disk

LEMMA WritePointerStep ==
    ASSUME TypeOK, Disk, WritePointer(Worker) PROVE TypeOK' /\ Disk'
<1>1. /\ j.at = "pointer" /\ UNCHANGED staging /\ pointerTemp' = j.number
      /\ job' = [job EXCEPT ![Worker] = [j EXCEPT !.at = "replace", !.open = FALSE]]
      /\ UNCHANGED <<generations, pointer, reader>>
  BY DEF WritePointer, Goto, j
<1>x. j.number \in Numbers
  BY <1>1 DEF Disk, Progress
<1> DEFINE next == [j EXCEPT !.at = "replace", !.open = FALSE]
<1>a. next \in Job
  BY <1>1, JobType DEF Job, Steps, Files
<1>b. j' = next /\ job' \in [Converters -> Job]
  BY <1>1, <1>a, JobType DEF j
<1>2. j' = [j EXCEPT !.at = "replace", !.open = FALSE] /\ j' \in Job
  BY <1>a, <1>b
<1>3. TypeOK'
  BY <1>1, <1>b, <1>x DEF TypeOK, Job, Pointer
<1>4. Progress'
  BY <1>1, <1>2, JobType DEF Disk, Progress, TypeOK, Job, Files
<1> QED
  BY <1>1, <1>3, <1>4, OthersStay DEF Disk

LEMMA StopsStep ==
    ASSUME TypeOK, Disk, Stops(Worker) PROVE TypeOK' /\ Disk'
<1>1. /\ j.at \notin {"idle", "done"} /\ UNCHANGED <<staging, pointerTemp>>
      /\ job' = [job EXCEPT ![Worker] = IdleJob]
      /\ UNCHANGED <<generations, pointer, reader>>
  BY DEF Stops, Goto, j
<1> DEFINE next == IdleJob
<1>a. next \in Job
  BY <1>1, JobType, InstallationAssumption DEF Job, Steps, Files, IdleJob
<1>b. j' = next /\ job' \in [Converters -> Job]
  BY <1>1, <1>a, JobType DEF j
<1>2. j' = IdleJob /\ j' \in Job
  BY <1>a, <1>b
<1>3. TypeOK'
  BY <1>1, <1>b DEF TypeOK, Job
<1>4. Progress'
  BY <1>1, <1>2, JobType DEF Disk, Progress, TypeOK, Job, Files, IdleJob
<1> QED
  BY <1>1, <1>3, <1>4, OthersStay DEF Disk

LEMMA StartStep ==
    ASSUME TypeOK, Disk, NEW s \in Sources, Start(Worker, s) PROVE TypeOK' /\ Disk'
<1> DEFINE next == [IdleJob EXCEPT !.at = "begin", !.source = s]
<1>1. /\ job' = [job EXCEPT ![Worker] = next]
      /\ UNCHANGED <<staging, generations, pointer, pointerTemp, reader>>
  BY DEF Start
<1>2. next \in Job /\ next.at = "begin" /\ next.source = s /\ next.open = FALSE
  <2>1. IdleJob \in Job /\ IdleJob.open = FALSE
    BY InstallationAssumption DEF IdleJob, Job, Steps
  <2> QED BY <2>1 DEF Job, Steps
<1> HIDE DEF next
<1>3. j' = next /\ job' \in [Converters -> Job]
  BY <1>1, <1>2, JobType DEF j
<1>4. TypeOK'
  BY <1>1, <1>3 DEF TypeOK
<1>5. Progress'
  BY <1>1, <1>2, <1>3 DEF Progress, Files
<1> QED
  BY <1>1, <1>4, <1>5, OthersStay DEF Disk

\* The generation that appears was not there, so it is neither the active one nor
\* one that is being read.
LEMMA CommitStep ==
    ASSUME TypeOK, Disk, Commit(Worker) PROVE TypeOK' /\ Disk'
<1> DEFINE n == j.number
           next == [j EXCEPT !.at = "pointer", !.open = FALSE]
<1>1. /\ j.at = "commit" /\ staging[n].exists /\ ~generations[n].exists
      /\ generations' = [generations EXCEPT ![n] = staging[n]]
      /\ staging' = [staging EXCEPT ![n] = NoDir]
      /\ job' = [job EXCEPT ![Worker] = next]
      /\ UNCHANGED <<pointer, pointerTemp, reader>>
  BY DEF Commit, Goto, j
<1>2. n \in Numbers /\ j.source \in Sources /\ j \in Job /\ Whole(staging[n], j.source)
  BY <1>1, JobType DEF Disk, Progress, Files, Whole
<1>3. next \in Job
  BY <1>2 DEF Job, Steps
<1>4. j' = next /\ job' \in [Converters -> Job]
  BY <1>1, <1>3, JobType DEF j
<1>5. /\ staging \in [Numbers -> Dir] /\ generations \in [Numbers -> Dir]
      /\ generations'[n] = staging[n]
      /\ \A m \in Numbers : m # n => generations'[m] = generations[m]
  BY <1>1, <1>2 DEF TypeOK
<1>6. TypeOK'
  <2>1. NoDir \in Dir
    BY DEF NoDir, Dir, Content
  <2> QED BY <1>1, <1>2, <1>4, <1>5, <2>1 DEF TypeOK
<1>7. Progress'
  BY <1>1, <1>2, <1>4, <1>5 DEF Progress, Files, Job
<1>8. ActiveStays'
  BY <1>1, <1>5 DEF Disk, ActiveStays, ActiveIsWhole, Whole
<1>9. ReaderFollows'
  BY <1>1, <1>5 DEF Disk, ReaderFollows, Whole
<1> QED
  BY <1>6, <1>7, <1>8, <1>9 DEF Disk

LEMMA ReplacePointerStep ==
    ASSUME TypeOK, Disk, ReplacePointer(Worker) PROVE TypeOK' /\ Disk'
<1> DEFINE next == [j EXCEPT !.at = "done", !.open = FALSE]
<1>1. /\ j.at = "replace" /\ pointer' = pointerTemp /\ pointerTemp' = NoPointer
      /\ job' = [job EXCEPT ![Worker] = next]
      /\ UNCHANGED <<staging, generations, reader>>
  BY DEF ReplacePointer, Goto, j
<1>2. /\ j.number \in Numbers /\ j.source \in Sources /\ j \in Job /\ pointerTemp = j.number
      /\ generations[j.number].exists /\ Whole(generations[j.number], j.source)
  BY <1>1, JobType DEF Disk, Progress, Files
<1>3. next \in Job
  BY <1>2 DEF Job, Steps
<1>4. j' = next /\ job' \in [Converters -> Job]
  BY <1>1, <1>3, JobType DEF j
<1>5. TypeOK'
  BY <1>1, <1>2, <1>4 DEF TypeOK, Pointer
<1>6. Progress'
  BY <1>1, <1>2, <1>4 DEF Progress, Files, Job
<1>7. ActiveStays'
  BY <1>1, <1>2 DEF ActiveStays, ActiveIsWhole, Whole
<1>8. ReaderFollows'
  <2>1. pointer' # NoPointer
    BY <1>1, <1>2 DEF NoPointer, Numbers
  <2> QED BY <1>1, <2>1 DEF Disk, ReaderFollows, Whole
<1> QED
  BY <1>5, <1>6, <1>7, <1>8 DEF Disk

\* What active_install.ini leads to can be loaded.
LEMMA ActiveLoads ==
    ASSUME TypeOK, Disk, pointer # NoPointer
    PROVE  /\ Resolvable(pointer) /\ pointer \in Numbers /\ generations[pointer].exists
           /\ generations[pointer].manifest \in Sources
           /\ Whole(generations[pointer], generations[pointer].manifest)
BY DEF Disk, ActiveStays, ActiveIsWhole, Whole, Resolvable, Loadable

LEMMA ReadStep ==
    ASSUME TypeOK, Disk, Classify \/ Reload \/ LoadBoot PROVE TypeOK' /\ Disk'
<1>1. UNCHANGED <<staging, generations, pointer, pointerTemp, job>>
  BY DEF Classify, Reload, LoadBoot
<1>2. Progress' /\ ActiveStays'
  BY <1>1 DEF Disk, Progress, ActiveStays, ActiveIsWhole, Whole, Unclaimed, j
<1>3. reader' \in Reader /\ ReaderFollows'
  <2>1. CASE Classify
    <3>1. reader' = [IdleReader EXCEPT !.at = IF pointer = NoPointer THEN "absent" ELSE "reload"]
      <4>1. CASE pointer = NoPointer
        <5>1. ~Resolvable(pointer)
          BY <4>1 DEF Resolvable, NoPointer, Numbers
        <5>2. reader' = [IdleReader EXCEPT !.at = "absent"]
          BY <2>1, <4>1, <5>1 DEF Classify
        <5> QED BY <4>1, <5>2
      <4>2. CASE pointer # NoPointer
        <5>1. Resolvable(pointer)
          BY <4>2, ActiveLoads
        <5>2. reader' = [IdleReader EXCEPT !.at = "reload"]
          BY <2>1, <4>2, <5>1 DEF Classify
        <5> QED BY <4>2, <5>2
      <4> QED BY <4>1, <4>2
    <3> QED
      BY <1>1, <3>1, InstallationAssumption DEF ReaderFollows, Reader, IdleReader, Content
  <2>2. CASE Reload
    <3>1. pointer # NoPointer
      BY <2>2 DEF Reload, Disk, ReaderFollows
    <3>2. generations[pointer].system # Absent
      BY <3>1, ActiveLoads, InstallationAssumption DEF Whole, Absent
    <3>3. reader' = [at |-> "boot", number |-> pointer,
                     manifest |-> generations[pointer].manifest]
      BY <2>2, <3>1, <3>2, ActiveLoads DEF Reload
    <3> QED
      BY <1>1, <3>1, <3>3, ActiveLoads, InstallationAssumption
      DEF ReaderFollows, Reader, Content, Numbers, Whole
  <2>3. CASE LoadBoot
    <3>1. reader' = [reader EXCEPT !.at = "ok"] /\ reader.at = "boot"
      BY <2>3 DEF LoadBoot, Disk, ReaderFollows, Whole
    <3> QED
      BY <1>1, <3>1 DEF TypeOK, Disk, ReaderFollows, Reader, Whole
  <2> QED BY <2>1, <2>2, <2>3
<1> QED
  BY <1>1, <1>2, <1>3 DEF TypeOK, Disk

\* Another root is in a state a conversion may have left there.
LEMMA EnterStep ==
    ASSUME TypeOK, Disk, NEW r \in Roots, Enter(r), j' = IdleJob, reader' = IdleReader,
           job' \in [Converters -> Job]
    PROVE  TypeOK' /\ Disk'
<1>1. Progress' <=> TRUE
  BY DEF Progress, IdleJob, Files
<1>2. reader' \in Reader /\ ReaderFollows'
  BY InstallationAssumption DEF IdleReader, Reader, ReaderFollows, Content
<1>3. CASE UNCHANGED disk
  <2>1. UNCHANGED <<staging, generations, pointer, pointerTemp>>
    BY <1>3 DEF disk
  <2>2. ActiveStays'
    BY <2>1 DEF Disk, ActiveStays, ActiveIsWhole, Whole
  <2> QED BY <1>1, <1>2, <2>1, <2>2 DEF TypeOK, Disk
<1>4. CASE \E other \in OtherRoots :
            /\ staging' = other.staging /\ generations' = other.generations
            /\ pointer' = other.pointer /\ pointerTemp' = NoPointer
  <2>1. PICK staged, n, s :
          /\ staging' = Root(staged, n, s).staging /\ generations' = Root(staged, n, s).generations
          /\ pointer' = Root(staged, n, s).pointer /\ pointerTemp' = NoPointer
          /\ n = 0 \/ (n = 1 /\ s \in Sources)
    BY <1>4 DEF OtherRoots
  <2>2. 1 \in Numbers /\ 0 \notin Numbers
    BY InstallationAssumption DEF Numbers
  <2>3. staging' \in [Numbers -> Dir]
    BY <2>1 DEF Root, EmptyDir, NoDir, Dir, Content
  <2>4. /\ generations' \in [Numbers -> Dir]
        /\ n # 0 => generations'[n].exists /\ Whole(generations'[n], s)
    BY <2>1, <2>2 DEF Root, EmptyDir, NoDir, Dir, Content, Whole
  <2>5. pointer' = n /\ pointer' \in Pointer /\ pointerTemp' \in Pointer
    BY <2>1, <2>2 DEF Root, Pointer, NoPointer
  <2>6. ActiveStays'
    BY <2>1, <2>2, <2>4, <2>5 DEF ActiveStays, ActiveIsWhole, NoPointer, Whole
  <2> QED BY <1>1, <1>2, <2>3, <2>4, <2>5, <2>6 DEF TypeOK, Disk
<1> QED
  BY <1>3, <1>4 DEF Enter

-----------------------------------------------------------------------------
(* The window.                                                             *)

LEMMA WorkerIs == ASSUME TypeOK PROVE WorkerRuns <=> j.at # "idle"
BY DEF WorkerRuns, j

LEMMA InitInv == ASSUME AppInit PROVE IInv
<1>1. /\ staging = [n \in Numbers |-> NoDir] /\ generations = [n \in Numbers |-> NoDir]
      /\ pointer = NoPointer /\ pointerTemp = NoPointer
      /\ job = [c \in Converters |-> IdleJob] /\ reader = IdleReader
      /\ window = Created /\ posted = "none" /\ root \in Roots /\ stored \in Roots
  BY ApplicationAssumption DEF AppInit, Init
<1>2. j = IdleJob /\ IdleJob.at = "idle" /\ IdleJob \in Job
  BY <1>1, ApplicationAssumption, InstallationAssumption DEF j, IdleJob, Job, Steps
<1>3. NoDir \in Dir /\ IdleReader \in Reader /\ NoPointer \in Pointer
  BY InstallationAssumption DEF NoDir, Dir, IdleReader, Reader, Pointer, Content
<1>4. TypeOK
  BY <1>1, <1>2, <1>3 DEF TypeOK
<1>5. AppTypeOK
  BY <1>1, <1>4 DEF AppTypeOK, Window, Created, Handlers
<1>6. Progress
  BY <1>2 DEF Progress, IdleJob, Files
<1>7. ActiveStays /\ ReaderFollows
  BY <1>1 DEF ActiveStays, ActiveIsWhole, ReaderFollows, IdleReader
<1>8. WindowFollows
  BY <1>1, <1>2, <1>4, WorkerIs DEF WindowFollows, Created
<1> QED
  BY <1>5, <1>6, <1>7, <1>8 DEF IInv, Disk

\* When the files, the job and the reader stay as they are.
LEMMA DiskUnchanged == ASSUME Disk, UNCHANGED vars PROVE Disk'
BY DEF vars, Disk, Progress, ActiveStays, ActiveIsWhole, ReaderFollows, Whole, Unclaimed, j

LEMMA TypeUnchanged == ASSUME TypeOK, UNCHANGED vars PROVE TypeOK'
BY DEF vars, TypeOK

\* When the reader starts or stops while the rest stays.
LEMMA ReaderMoves ==
    ASSUME TypeOK, Disk, UNCHANGED <<disk, job>>, reader' \in Reader, ReaderFollows'
    PROVE  TypeOK' /\ Disk'
<1>1. UNCHANGED <<staging, generations, pointer, pointerTemp, job>>
  BY DEF disk
<1> QED
  BY <1>1 DEF TypeOK, Disk, Progress, ActiveStays, ActiveIsWhole, Whole, Unclaimed, j

\* The handlers that only move the window.
LEMMA WindowStep ==
    ASSUME IInv,
           \/ RefreshClassify \/ \E s \in Sources : SelectImage(s)
           \/ RunCheckpoint \/ Finish \/ Close
    PROVE  IInv'
<1>1. TypeOK /\ Disk /\ WindowFollows /\ window \in Window
      /\ posted \in {"none", "ok", "failed"} /\ root \in Roots /\ stored \in Roots
  BY DEF IInv, AppTypeOK
<1>2. UNCHANGED <<vars, place>>
  BY DEF RefreshClassify, SelectImage, RunCheckpoint, Finish, Close
<1>3. TypeOK' /\ Disk' /\ root' \in Roots /\ stored' \in Roots
  BY <1>1, <1>2, DiskUnchanged, TypeUnchanged DEF place
<1>4. (WorkerRuns' <=> WorkerRuns) /\ reader' = reader /\ pointer' = pointer
  BY <1>2 DEF vars, WorkerRuns
<1>5. window' \in Window /\ posted' \in {"none", "ok", "failed"}
  <2>1. CASE RefreshClassify
    BY <1>1, <2>1 DEF RefreshClassify, Refreshed, Window, Handlers
  <2>2. CASE RunCheckpoint \/ Close
    BY <1>1, <2>2 DEF RunCheckpoint, Close, Window, Handlers
  <2>3. CASE \E s \in Sources : SelectImage(s)
    BY <1>1, <2>3 DEF SelectImage, Refreshing, Window, Handlers
  <2>4. CASE Finish
    BY <1>1, <2>4 DEF Finish, Refreshing, Window, Handlers
  <2> QED BY <2>1, <2>2, <2>3, <2>4
<1>6. CASE RefreshClassify
  <2>1. WindowFollows'
    <3>1. CASE Resolvable(pointer)
      BY <1>1, <1>4, <1>6, <3>1 DEF RefreshClassify, WindowFollows, Window
    <3>2. CASE ~Resolvable(pointer)
      BY <1>1, <1>4, <1>6, <3>2 DEF RefreshClassify, WindowFollows, Window, Refreshed
    <3> QED BY <3>1, <3>2
  <2> QED BY <1>3, <1>5, <2>1 DEF IInv, AppTypeOK
<1>7. ASSUME NEW s \in Sources, SelectImage(s) PROVE IInv'
  <2>1. WindowFollows'
    BY <1>1, <1>4, <1>7 DEF SelectImage, WindowFollows, Window, Refreshing, Free
  <2> QED BY <1>3, <1>5, <2>1 DEF IInv, AppTypeOK
<1>8. CASE RunCheckpoint
  <2>1. WindowFollows'
    BY <1>1, <1>4, <1>8 DEF RunCheckpoint, WindowFollows, Window, Free
  <2> QED BY <1>3, <1>5, <2>1 DEF IInv, AppTypeOK
<1>9. CASE Finish
  <2>1. WindowFollows'
    BY <1>1, <1>4, <1>9 DEF Finish, WindowFollows, Window, Refreshing, Free
  <2> QED BY <1>3, <1>5, <2>1 DEF IInv, AppTypeOK
<1>10. CASE Close
  <2>1. WindowFollows'
    BY <1>1, <1>4, <1>10 DEF Close, WindowFollows, Window, Free
  <2> QED BY <1>3, <1>5, <2>1 DEF IInv, AppTypeOK
<1> QED
  BY <1>6, <1>7, <1>8, <1>9, <1>10

\* The handlers that read, or end reading.
LEMMA ReadingStep ==
    ASSUME IInv, Validate \/ RefreshEnds \/ CheckpointLoads \/ CheckpointEnds
    PROVE  IInv'
<1>1. TypeOK /\ Disk /\ WindowFollows /\ window \in Window /\ ReaderFollows
      /\ posted \in {"none", "ok", "failed"} /\ root \in Roots /\ stored \in Roots
  BY DEF IInv, AppTypeOK, Disk
<1>2. /\ UNCHANGED <<posted, place>> /\ UNCHANGED <<disk, job>>
  BY DEF Validate, RefreshEnds, CheckpointLoads, CheckpointEnds, Classify, Reload, LoadBoot, disk
<1>3. (WorkerRuns' <=> WorkerRuns) /\ pointer' = pointer
      /\ root' \in Roots /\ stored' \in Roots /\ posted' = posted
  BY <1>1, <1>2 DEF disk, place, WorkerRuns
<1>i. IdleReader \in Reader
  BY InstallationAssumption DEF IdleReader, Reader, Content
<1>4. CASE Validate
  <2>1. TypeOK' /\ Disk' /\ ReaderFollows'
    BY <1>1, <1>4, ReadStep DEF Validate, Disk
  <2>2. window' = window /\ window.open /\ window.handler \in Reading
    BY <1>4 DEF Validate
  <2>3. ASSUME window.handler = "bootstrap_runtime" PROVE reader'.at \in {"boot", "ok"}
    <3>1. reader.at \in {"boot", "ok"} /\ reader # IdleReader
      BY <1>1, <2>3 DEF WindowFollows, IdleReader
    <3>2. reader.at = "boot" /\ reader' = [reader EXCEPT !.at =
                    IF generations[reader.number].boot = reader.manifest THEN "ok" ELSE "failed"]
      BY <1>4, <3>1 DEF Validate, Reload, LoadBoot
    <3>3. generations[reader.number].boot = reader.manifest
      BY <1>1, <3>1 DEF ReaderFollows, Whole
    <3> QED BY <1>1, <3>2, <3>3 DEF TypeOK, Reader
  <2>4. WindowFollows'
    BY <1>1, <1>3, <2>2, <2>3 DEF WindowFollows, Reading
  <2> QED BY <1>1, <1>3, <2>1, <2>2, <2>4 DEF IInv, AppTypeOK
<1>5. CASE RefreshEnds
  <2>1. /\ window' = Refreshed(window, reader.at = "ok") /\ reader' = IdleReader
        /\ window.open
    BY <1>5 DEF RefreshEnds
  <2>2. ReaderFollows'
    BY <2>1 DEF ReaderFollows, IdleReader
  <2>3. window' \in Window
    BY <1>1, <2>1 DEF Refreshed, Window, Handlers
  <2>4. reader.at = "ok" => pointer # NoPointer
    BY <1>1 DEF ReaderFollows
  <2>5. WindowFollows'
    BY <1>1, <1>3, <2>1, <2>4 DEF WindowFollows, Refreshed, Window
  <2> QED BY <1>1, <1>2, <1>3, <1>i, <2>1, <2>2, <2>3, <2>5, ReaderMoves DEF IInv, AppTypeOK
<1>6. CASE CheckpointLoads
  <2>1. /\ window' = [window EXCEPT !.handler = "bootstrap_runtime"] /\ window.open
        /\ reader' = [reader EXCEPT !.at = "boot"] /\ reader.at = "ok"
        /\ window.handler = "run_checkpoint"
    BY <1>6 DEF CheckpointLoads
  <2>2. ReaderFollows' /\ reader' \in Reader
    BY <1>1, <1>2, <2>1 DEF TypeOK, ReaderFollows, Reader, Whole, disk
  <2>3. window' \in Window
    BY <1>1, <2>1 DEF Window, Handlers
  <2>4. WindowFollows'
    BY <1>1, <1>3, <2>1 DEF WindowFollows, Window, TypeOK, Reader
  <2> QED BY <1>1, <1>2, <1>3, <2>2, <2>3, <2>4, ReaderMoves DEF IInv, AppTypeOK
<1>7. CASE CheckpointEnds
  <2>1. /\ window' = [window EXCEPT !.handler = "none"] /\ window.open /\ reader' = IdleReader
        /\ window.handler \in {"run_checkpoint", "bootstrap_runtime"}
    BY <1>7 DEF CheckpointEnds
  <2>2. ReaderFollows'
    BY <2>1 DEF ReaderFollows, IdleReader
  <2>3. window' \in Window
    BY <1>1, <2>1 DEF Window, Handlers
  <2>4. WindowFollows'
    BY <1>1, <1>3, <2>1 DEF WindowFollows, Window
  <2> QED BY <1>1, <1>2, <1>3, <1>i, <2>1, <2>2, <2>3, <2>4, ReaderMoves DEF IInv, AppTypeOK
<1> QED
  BY <1>4, <1>5, <1>6, <1>7

\* The steps of the worker between its start and its end.
LEMMA WorkStep ==
    ASSUME IInv, Work PROVE IInv'
<1>1. TypeOK /\ Disk /\ WindowFollows /\ AppTypeOK
  BY DEF IInv, AppTypeOK
<1>2. TypeOK' /\ Disk'
  BY <1>1, ScanStep, ClaimStep, CreateStagingStep, CreateDataStep, OpenStep, WriteStep,
     ReplaceManifestStep, CommitStep, OpenPointerStep, WritePointerStep, ReplacePointerStep
  DEF Work
<1>3. UNCHANGED <<window, posted, place>>
  BY DEF Work
<1>4. WorkerRuns /\ WorkerRuns' /\ reader' = reader
  <2>1. j \in Job /\ \A x \in Job : [job EXCEPT ![Worker] = x][Worker] = x
    BY <1>1, JobType
  <2>2. CASE Scan(Worker) \/ Claim(Worker) \/ CreateStaging(Worker) \/ CreateData(Worker)
    BY <1>1, <2>1, <2>2, JobType
    DEF Scan, Claim, CreateStaging, CreateData, Goto, WorkerRuns, After, j, Job
  <2>3. CASE Open(Worker) \/ Write(Worker) \/ ReplaceManifest(Worker)
    BY <1>1, <2>1, <2>3, JobType
    DEF Open, Write, ReplaceManifest, Goto, WorkerRuns, Files, After, j, Job
  <2>4. CASE Commit(Worker) \/ OpenPointer(Worker) \/ WritePointer(Worker)
                \/ ReplacePointer(Worker)
    BY <1>1, <2>1, <2>4, JobType
    DEF Commit, OpenPointer, WritePointer, ReplacePointer, Goto, WorkerRuns, After, j, Job
  <2> QED BY <2>2, <2>3, <2>4 DEF Work
<1>5. pointer # NoPointer => pointer' # NoPointer
  <2>1. CASE ReplacePointer(Worker)
    <3>1. pointer' = j.number /\ j.number \in Numbers
      BY <1>1, <2>1 DEF ReplacePointer, Disk, Progress, j
    <3> QED BY <3>1 DEF Numbers, NoPointer
  <2>2. CASE ~ReplacePointer(Worker)
    BY <2>2 DEF Work, Scan, Claim, CreateStaging, CreateData, Open, Write, ReplaceManifest, Commit,
         OpenPointer, WritePointer
  <2> QED BY <2>1, <2>2
<1>6. WindowFollows'
  BY <1>1, <1>3, <1>4, <1>5 DEF WindowFollows
<1> QED
  BY <1>1, <1>2, <1>3, <1>6 DEF IInv, AppTypeOK, place

\* The start of a conversion and its end, one way or the other.
LEMMA WorkerStep ==
    ASSUME IInv, StartConversion \/ WorkFails \/ WorkEnds PROVE IInv'
<1>1. TypeOK /\ Disk /\ WindowFollows /\ window \in Window /\ root \in Roots /\ stored \in Roots
      /\ posted \in {"none", "ok", "failed"}
  BY DEF IInv, AppTypeOK
<1>2. UNCHANGED place /\ pointer' = pointer /\ reader' = reader
  BY DEF StartConversion, WorkFails, WorkEnds, Start, Stops, disk
<1>3. root' \in Roots /\ stored' \in Roots
  BY <1>1, <1>2 DEF place
<1>4. CASE StartConversion
  <2>1. window.source \in Sources /\ Start(Worker, window.source) /\ posted' = posted
    BY <1>1, <1>4 DEF StartConversion, Window
  <2>2. TypeOK' /\ Disk' /\ WorkerRuns'
    <3>1. TypeOK' /\ Disk'
      BY <1>1, <2>1, StartStep
    <3>2. job'[Worker].at = "begin"
      BY <1>1, <2>1, JobType DEF Start, IdleJob
    <3> QED BY <3>1, <3>2 DEF WorkerRuns
  <2>3. /\ window' = [window EXCEPT !.running = TRUE, !.converted = FALSE,
                                !.enabled = FALSE, !.checkpoint = FALSE]
        /\ window.open /\ window.handler = "none" /\ ~window.running
    BY <1>4 DEF StartConversion, Free
  <2>4. window' \in Window
    BY <1>1, <2>3 DEF Window
  <2>5. posted = "none"
    BY <1>1, <2>3 DEF WindowFollows
  <2>6. WindowFollows'
    BY <1>1, <1>2, <2>1, <2>2, <2>3, <2>5 DEF WindowFollows, Window
  <2> QED BY <1>1, <1>3, <2>1, <2>2, <2>4, <2>6 DEF IInv, AppTypeOK
<1>5. CASE WorkFails
  <2>1. TypeOK' /\ Disk' /\ ~WorkerRuns' /\ WorkerRuns
    BY <1>1, <1>5, StopsStep, JobType DEF WorkFails, Stops, WorkerRuns, IdleJob
  <2>2. window' = window /\ posted' = IF window.open THEN "failed" ELSE "none"
    BY <1>5 DEF WorkFails, Posted
  <2>3. WindowFollows'
    BY <1>1, <1>2, <2>1, <2>2 DEF WindowFollows
  <2> QED BY <1>1, <1>3, <2>1, <2>2, <2>3 DEF IInv, AppTypeOK
<1>6. CASE WorkEnds
  <2>1. /\ job[Worker].at = "done" /\ job' = [job EXCEPT ![Worker] = IdleJob]
        /\ UNCHANGED <<staging, generations, pointer, pointerTemp, reader>>
    BY <1>6 DEF WorkEnds, disk
  <2>2. IdleJob \in Job /\ IdleJob.at = "idle"
    BY InstallationAssumption DEF IdleJob, Job, Steps
  <2>3. j' = IdleJob /\ job' \in [Converters -> Job]
    BY <1>1, <2>1, <2>2, JobType DEF j
  <2>4. Progress'
    BY <2>3 DEF Progress, IdleJob, Files
  <2>5. TypeOK' /\ Disk' /\ ~WorkerRuns' /\ WorkerRuns
    BY <1>1, <2>1, <2>2, <2>3, <2>4, OthersStay DEF TypeOK, Disk, WorkerRuns, j
  <2>6. window' = window /\ posted' = IF window.open THEN "ok" ELSE "none"
    BY <1>6 DEF WorkEnds, Posted
  <2>7. WindowFollows'
    BY <1>1, <1>2, <2>5, <2>6 DEF WindowFollows
  <2> QED BY <1>1, <1>3, <2>5, <2>6, <2>7 DEF IInv, AppTypeOK
<1> QED
  BY <1>4, <1>5, <1>6

\* Another root, chosen or found in the settings.
LEMMA RootStep ==
    ASSUME IInv, (\E r \in Roots : SelectInstallRoot(r)) \/ Restart PROVE IInv'
<1>1. TypeOK /\ Disk /\ WindowFollows /\ window \in Window /\ root \in Roots /\ stored \in Roots
      /\ posted \in {"none", "ok", "failed"}
  BY DEF IInv, AppTypeOK
<1>2. ASSUME NEW r \in Roots, SelectInstallRoot(r) PROVE IInv'
  <2>1. /\ Enter(r) /\ root' = r /\ stored' \in {stored, r} /\ UNCHANGED <<job, reader, posted>>
        /\ window' = Refreshing(window)
        /\ window.open /\ window.handler = "none" /\ window.enabled
    BY <1>2 DEF SelectInstallRoot, Free, Enter
  <2>2. ~WorkerRuns /\ reader = IdleReader /\ posted = "none" /\ ~window.running
    BY <1>1, <2>1 DEF WindowFollows
  <2>3. j' = IdleJob /\ job' \in [Converters -> Job]
    BY <1>1, <2>1, <2>2, WorkerIs DEF Disk, Progress, TypeOK, j
  <2>4. TypeOK' /\ Disk'
    BY <1>1, <2>1, <2>2, <2>3, EnterStep
  <2>5. window' \in Window
    BY <1>1, <2>1 DEF Refreshing, Window, Handlers
  <2>6. ~WorkerRuns'
    BY <2>1, <2>2 DEF WorkerRuns
  <2>7. WindowFollows'
    BY <1>1, <2>1, <2>2, <2>6 DEF WindowFollows, Refreshing, Window
  <2> QED BY <1>1, <2>1, <2>4, <2>5, <2>7 DEF IInv, AppTypeOK
<1>3. CASE Restart
  <2>1. /\ job' = [job EXCEPT ![Worker] = IdleJob] /\ reader' = IdleReader /\ window' = Created
        /\ posted' = "none" /\ Enter(stored) /\ stored' = stored /\ root' = stored
    BY <1>3 DEF Restart, Enter
  <2>2. IdleJob \in Job /\ IdleJob.at = "idle"
    BY InstallationAssumption DEF IdleJob, Job, Steps
  <2>3. j' = IdleJob /\ job' \in [Converters -> Job]
    BY <1>1, <2>1, <2>2, JobType DEF j
  <2>4. TypeOK' /\ Disk'
    BY <1>1, <2>1, <2>3, EnterStep
  <2>5. ~WorkerRuns'
    BY <2>2, <2>3 DEF WorkerRuns, j
  <2>6. window' \in Window
    BY <2>1 DEF Created, Window, Handlers
  <2>7. WindowFollows'
    BY <2>1, <2>5 DEF WindowFollows, Created
  <2> QED BY <1>1, <2>1, <2>4, <2>6, <2>7 DEF IInv, AppTypeOK
<1> QED
  BY <1>2, <1>3

LEMMA NextInv == ASSUME IInv, [AppNext]_appVars PROVE IInv'
<1>1. CASE AppNext
  BY <1>1, WindowStep, ReadingStep, WorkStep, WorkerStep, RootStep DEF AppNext
<1>2. CASE UNCHANGED appVars
  <2>1. UNCHANGED <<vars, window, posted, place>>
    BY <1>2 DEF appVars
  <2>2. WindowFollows'
    BY <2>1 DEF IInv, WindowFollows, WorkerRuns, vars
  <2>3. AppTypeOK'
    BY <2>1, TypeUnchanged DEF IInv, AppTypeOK, place
  <2> QED BY <2>1, <2>2, <2>3, DiskUnchanged DEF IInv
<1> QED
  BY <1>1, <1>2

LEMMA Always == AppSpec => []IInv
BY InitInv, NextInv, PTL DEF AppSpec

-----------------------------------------------------------------------------
\* Window, worker, files and reader keep their types.
THEOREM TypeCorrect == AppSpec => []AppTypeOK
<1>1. IInv => AppTypeOK
  BY DEF IInv
<1> QED BY Always, <1>1, PTL

\* The active installation is whole, wherever conversions failed and processes ended.
THEOREM ActiveStaysWhole == AppSpec => []ActiveIsWhole
<1>1. IInv => ActiveIsWhole
  BY DEF IInv, Disk, ActiveStays
<1> QED BY Always, <1>1, PTL

\* The number a conversion takes is free, whatever one before it left behind.
THEOREM NumbersAreFree == AppSpec => []NextNumberFree
<1>1. IInv => NextNumberFree
  BY ApplicationAssumption DEF IInv, Disk, Progress, NextNumberFree, j
<1> QED BY Always, <1>1, PTL

\* Nobody who validates the installation meets half of one.
THEOREM ReadersSucceed == AppSpec => []ReaderNeverFails
<1>1. IInv => ReaderNeverFails
  BY DEF IInv, Disk, ReaderFollows, ReaderNeverFails
<1> QED BY Always, <1>1, PTL

\* What the window says of the conversion and the installation is so.
THEOREM WindowTellsTheTruth == AppSpec => []WindowIsTruthful
<1>1. IInv => WindowIsTruthful
  BY DEF IInv, Disk, ActiveStays, WindowFollows, WindowIsTruthful, Free
<1> QED BY Always, <1>1, PTL

-----------------------------------------------------------------------------
(* A conversion is atomic.                                                 *)

\* What the runtime accepts, and what is being converted.
Accepted ==
    IF pointer = NoPointer THEN Absent
    ELSE IF pointer \in Numbers /\ generations[pointer].exists THEN generations[pointer].boot
    ELSE Partial
Converting == [c \in Converters |-> IF job[c].at = "done" THEN Absent ELSE job[c].source]

\* It is told by what the worker is at.
LEMMA ConvertingIs ==
    ASSUME IInv
    PROVE  /\ Converting = [c \in Converters |-> IF j.at = "done" THEN Absent ELSE j.source]
           /\ j.at \in {"idle", "done"} => Converting = [c \in Converters |-> Absent]
           /\ j.at \notin {"idle", "done"} => j.source \in Sources /\ j.source # Absent
           /\ Converters = {Worker}
<1>1. Converters = {Worker}
  BY ApplicationAssumption
<1>2. Converting = [c \in Converters |-> IF j.at = "done" THEN Absent ELSE j.source]
  BY <1>1 DEF Converting, j
<1>3. j.at = "idle" => j.source = Absent
  BY DEF IInv, Disk, Progress, IdleJob
<1>4. j.at \notin {"idle", "done"} => j.source \in Sources /\ j.source # Absent
  BY InstallationAssumption DEF IInv, Disk, Progress, Absent
<1> QED
  BY <1>1, <1>2, <1>3, <1>4

LEMMA PromiseStart == ASSUME AppInit PROVE Promise!Init
BY ApplicationAssumption DEF AppInit, Init, Promise!Init, IdleJob, NoPointer

\* A step that changes neither is a stutter.
LEMMA Stutters ==
    ASSUME UNCHANGED <<root, Accepted, Converting>> PROVE [Promise!Next]_(Promise!vars)
BY DEF Accepted, Converting, Promise!vars

LEMMA AcceptedStays ==
    ASSUME UNCHANGED <<generations, pointer>> PROVE Accepted' = Accepted
BY DEF Accepted

\* Choosing or finding another root.
LEMMA PromiseRoot ==
    ASSUME IInv, IInv', NEW r \in Roots, Enter(r), j'.at = "idle"
    PROVE  [Promise!Next]_(Promise!vars)
<1>1. Converting' = [c \in Converters |-> Absent]
  <2>1. Converters = {Worker}
    BY ApplicationAssumption
  <2>2. j'.source = Absent
    BY DEF IInv, Disk, Progress, IdleJob
  <2> QED BY <2>1, <2>2 DEF Converting, j
<1>2. CASE r # root
  <2>1. root' \in Roots \ {root}
    BY <1>2 DEF Enter
  <2>2. Accepted' \in Sources \cup {Absent}
    BY DEF IInv, Disk, ActiveStays, ActiveIsWhole, Whole, Accepted
  <2> QED BY <1>1, <2>1, <2>2 DEF Promise!Next, Promise!Go, Accepted, Converting
<1>3. CASE r = root
  <2>1. UNCHANGED <<generations, pointer, root>>
    BY <1>3 DEF Enter, disk
  <2>2. Accepted' = Accepted
    BY <2>1, AcceptedStays
  <2>3. CASE j.at \in {"idle", "done"}
    BY <1>1, <2>1, <2>2, <2>3, ConvertingIs, Stutters
  <2>4. CASE j.at \notin {"idle", "done"}
    <3>1. Converting[Worker] # Absent /\ Worker \in Converters
          /\ Converting' = [Converting EXCEPT ![Worker] = Absent]
      BY <1>1, <2>4, ConvertingIs
    <3>2. Promise!GiveUp(Worker)
      BY <2>1, <2>2, <3>1 DEF Promise!GiveUp, Accepted, Converting
    <3> QED BY <3>1, <3>2 DEF Promise!Next
  <2> QED BY <2>3, <2>4
<1> QED
  BY <1>2, <1>3

\* Every step is one of the promise's, or none.
LEMMA PromiseNext ==
    ASSUME IInv, IInv', [AppNext]_appVars PROVE [Promise!Next]_(Promise!vars)
<1>1. TypeOK /\ Disk /\ WindowFollows
  BY DEF IInv, AppTypeOK
<1>2. Worker \in Converters /\ Converters = {Worker}
  BY ApplicationAssumption
\* Only the worker's start and end, its commit and the other roots are seen.
<1>3. ASSUME UNCHANGED <<generations, pointer, job, root>>
      PROVE  [Promise!Next]_(Promise!vars)
  <2>1. Converting' = Converting
    BY <1>3 DEF Converting
  <2> QED BY <1>3, <2>1, AcceptedStays, Stutters
<1>4. CASE RefreshClassify \/ Validate \/ RefreshEnds \/ (\E s \in Sources : SelectImage(s))
           \/ RunCheckpoint \/ CheckpointLoads \/ CheckpointEnds \/ Finish \/ Close
           \/ UNCHANGED appVars
  <2>1. UNCHANGED <<generations, pointer, job, root>>
    BY <1>4 DEF RefreshClassify, Validate, Classify, Reload, LoadBoot, RefreshEnds, SelectImage,
                RunCheckpoint, CheckpointLoads, CheckpointEnds, Finish, Close, appVars, vars,
                place, disk
  <2> QED BY <1>3, <2>1
<1>5. CASE StartConversion
  <2>1. /\ job[Worker].at \in {"idle", "done"} /\ window.source # Absent /\ root' = root
        /\ job' = [job EXCEPT ![Worker] = [IdleJob EXCEPT !.at = "begin", !.source = window.source]]
        /\ UNCHANGED <<generations, pointer>>
    BY <1>5 DEF StartConversion, Start, place
  <2>2. window.source \in Sources
    BY <2>1 DEF IInv, AppTypeOK, Window
  <2>3. Converting = [c \in Converters |-> Absent]
    BY <2>1, ConvertingIs DEF j
  <2>4. j'.at = "begin" /\ j'.source = window.source
    BY <1>1, <2>1, JobType DEF IdleJob, j
  <2>5. Converting' = [c \in Converters |-> window.source]
    BY <1>2, <2>4 DEF Converting, j
  <2>6. Converting' = [Converting EXCEPT ![Worker] = window.source] /\ Converting[Worker] = Absent
    BY <1>2, <2>3, <2>5
  <2>7. Promise!Start(Worker)
    BY <2>1, <2>2, <2>6, AcceptedStays DEF Promise!Start, Accepted, Converting
  <2> QED BY <1>2, <2>7 DEF Promise!Next
<1>6. CASE WorkFails
  <2>1. /\ j.at \notin {"idle", "done"} /\ job' = [job EXCEPT ![Worker] = IdleJob] /\ root' = root
        /\ UNCHANGED <<generations, pointer>>
    BY <1>6 DEF WorkFails, Stops, place, j
  <2>2. j'.at = "idle" /\ j'.source = Absent
    BY <1>1, <2>1, <1>2 DEF TypeOK, IdleJob, j
  <2>3. Converting' = [c \in Converters |-> Absent]
    BY <1>2, <2>2 DEF Converting, j
  <2>4. Converting' = [Converting EXCEPT ![Worker] = Absent] /\ Converting[Worker] # Absent
    BY <1>2, <2>1, <2>3, ConvertingIs
  <2>5. Promise!GiveUp(Worker)
    BY <2>1, <2>4, AcceptedStays DEF Promise!GiveUp, Accepted, Converting
  <2> QED BY <1>2, <2>5 DEF Promise!Next
<1>7. CASE WorkEnds
  <2>1. /\ j.at = "done" /\ job' = [job EXCEPT ![Worker] = IdleJob] /\ root' = root
        /\ UNCHANGED <<generations, pointer>>
    BY <1>7 DEF WorkEnds, disk, place, j
  <2>2. j'.at = "idle" /\ j'.source = Absent
    BY <1>1, <2>1, <1>2 DEF TypeOK, IdleJob, j
  <2>3. Converting' = [c \in Converters |-> Absent]
    BY <1>2, <2>2 DEF Converting, j
  <2> QED BY <2>1, <2>3, ConvertingIs, AcceptedStays, Stutters
<1>8. CASE Work
  <2>1. root' = root
    BY <1>8 DEF Work, place
  <2>2. CASE ReplacePointer(Worker)
    <3>1. /\ j.at = "replace" /\ pointer' = j.number /\ UNCHANGED generations
          /\ job' = [job EXCEPT ![Worker] = [j EXCEPT !.at = "done", !.open = FALSE]]
          /\ j.number \in Numbers /\ generations[j.number].exists
          /\ generations[j.number].boot = j.source
      BY <1>1, <2>2 DEF ReplacePointer, Goto, Disk, Progress, Whole, j
    <3>2. j'.at = "done"
      BY <1>1, <3>1, JobType DEF j, TypeOK, Job
    <3>3. Converting' = [c \in Converters |-> Absent]
      BY <1>2, <3>2 DEF Converting, j
    <3>4. Converting[Worker] = j.source /\ j.source # Absent
      BY <1>2, <3>1, ConvertingIs
    <3>5. Accepted' = j.source
      BY <3>1 DEF Accepted, Numbers, NoPointer
    <3>6. Converting' = [Converting EXCEPT ![Worker] = Absent]
      BY <1>2, <3>3, ConvertingIs
    <3>7. Promise!Activate(Worker)
      BY <2>1, <3>4, <3>5, <3>6 DEF Promise!Activate, Accepted, Converting
    <3> QED BY <1>2, <3>7 DEF Promise!Next
  <2>3. CASE ~ReplacePointer(Worker)
    <3>1. Accepted' = Accepted
      <4>1. CASE Commit(Worker)
        <5>1. /\ pointer' = pointer /\ ~generations[j.number].exists
              /\ generations' = [generations EXCEPT ![j.number] = staging[j.number]]
          BY <4>1 DEF Commit, j
        <5>2. pointer # NoPointer => pointer \in Numbers /\ generations[pointer].exists
          BY <1>1 DEF Disk, ActiveStays, ActiveIsWhole
        <5>3. pointer # NoPointer => generations'[pointer] = generations[pointer]
          BY <1>1, <5>1, <5>2 DEF TypeOK
        <5> QED BY <5>1, <5>2, <5>3 DEF Accepted
      <4>2. CASE ~Commit(Worker)
        <5>1. UNCHANGED <<generations, pointer>>
          BY <1>8, <2>3, <4>2 DEF Work, Scan, Claim, CreateStaging, CreateData, Open, Write,
             ReplaceManifest, OpenPointer, WritePointer
        <5> QED BY <5>1, AcceptedStays
      <4> QED BY <4>1, <4>2
    <3>2. j.at \notin {"idle", "done"} /\ j'.at \notin {"idle", "done"} /\ j'.source = j.source
      <4>1. j \in Job /\ \A x \in Job : [job EXCEPT ![Worker] = x][Worker] = x
        BY <1>1, JobType
      <4>2. CASE Scan(Worker) \/ Claim(Worker) \/ CreateStaging(Worker) \/ CreateData(Worker)
        BY <1>1, <4>1, <4>2, JobType
        DEF Scan, Claim, CreateStaging, CreateData, Goto, After, j, Job
      <4>3. CASE Open(Worker) \/ Write(Worker) \/ ReplaceManifest(Worker)
        BY <1>1, <4>1, <4>3, JobType
        DEF Open, Write, ReplaceManifest, Goto, Files, After, j, Job
      <4>4. CASE Commit(Worker) \/ OpenPointer(Worker) \/ WritePointer(Worker)
        BY <1>1, <4>1, <4>4, JobType
        DEF Commit, OpenPointer, WritePointer, Goto, After, j, Job
      <4> QED BY <1>8, <2>3, <4>2, <4>3, <4>4 DEF Work
    <3>3. Converting' = Converting
      BY <1>2, <3>2, ConvertingIs DEF Converting, j
    <3> QED BY <2>1, <3>1, <3>3, Stutters
  <2> QED BY <2>2, <2>3
<1>9. ASSUME NEW r \in Roots, SelectInstallRoot(r) PROVE [Promise!Next]_(Promise!vars)
  <2>1. Enter(r) /\ job' = job /\ window.open /\ window.handler = "none" /\ window.enabled
    BY <1>9 DEF SelectInstallRoot, Free
  <2>2. ~WorkerRuns
    BY <1>1, <2>1 DEF WindowFollows
  <2>3. j'.at = "idle"
    BY <2>1, <2>2 DEF WorkerRuns, j
  <2> QED BY <2>1, <2>3, PromiseRoot
<1>10. CASE Restart
  <2>1. Enter(stored) /\ stored \in Roots /\ job' = [job EXCEPT ![Worker] = IdleJob]
    BY <1>10 DEF Restart, IInv, AppTypeOK
  <2>2. j'.at = "idle"
    BY <1>1, <1>2, <2>1 DEF TypeOK, IdleJob, j
  <2> QED BY <2>1, <2>2, PromiseRoot
<1> QED
  BY <1>4, <1>5, <1>6, <1>7, <1>8, <1>9, <1>10 DEF AppNext

\* The window and its worker implement the promise of Installer.
THEOREM ConversionsAreAtomic == AppSpec => ConversionIsAtomic
BY Always, NextInv, PromiseStart, PromiseNext, PTL DEF AppSpec, ConversionIsAtomic, Promise!Spec
=============================================================================
