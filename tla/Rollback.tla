------------------------------ MODULE Rollback ------------------------------
(***************************************************************************)
(* RollbackSession (src/core/rollback.{h,cpp}): one peer's prediction and  *)
(* rollback engine.  The session steps a deterministic simulation once per *)
(* frame with a local input and the remote input it knows or predicts; a   *)
(* remote input that arrives late restores the snapshot of its frame and   *)
(* replays every frame since.  Each operation is one action that performs  *)
(* the whole call, failures injected by the simulation included: this is    *)
(* what the session promises its caller.  RollbackCalls takes a correction  *)
(* apart into the steps of the code and is shown to implement this module.  *)
(***************************************************************************)
EXTENDS Naturals, FiniteSets

CONSTANTS
    Input,              \* values of RollbackInput
    LocalInputs(_),     \* bound: what the local player may do at a frame
    NoInput,            \* RollbackInput{}: what is used when nothing is known
    SimState,           \* states IRollbackSimulation can save and load
    InitState,          \* the simulation's state when the session is built
    Step(_, _, _),      \* step_frame: the state after (state, local, remote)
    HashText,           \* the 64-digit texts submit_remote_hash accepts
    Hash(_),            \* sha256_hex of a saved state
    ReportedText,       \* texts a peer reports as a hash, malformed ones too
    ReportedFrames,     \* bound: the frames it reports one of
    PartialState,       \* states a failing load_state may leave behind
    MaxRollback,        \* max_rollback_frames_
    MaxFrame            \* bound: frames simulated

ASSUME SimAssumption ==
    /\ InitState \in SimState
    /\ PartialState \subseteq SimState
    /\ \A s \in SimState, l, r \in Input : Step(s, l, r) \in SimState
ASSUME HashAssumption == \A s \in SimState : Hash(s) \in HashText
ASSUME BoundAssumption == MaxRollback \in Nat /\ MaxFrame \in Nat

NoFrame == MaxFrame + 1     \* an empty std::optional<frame>
Frames == 0 .. MaxFrame
Simulated == Frames \ {MaxFrame}   \* the frames a call may be about

ASSUME InputAssumption ==
    /\ NoInput \in Input
    /\ \A frame \in Frames : LocalInputs(frame) \subseteq Input
ASSUME ReportedAssumption == ReportedFrames \subseteq Frames

FrameRecord ==
    [snapshot_before : SimState, local : Input,
     remote_used : Input, predicted_remote : BOOLEAN]

VARIABLES
    sim,            \* the simulation the session drives
    currentFrame,   \* current_frame_
    frames,         \* frames_: frame -> FrameRecord
    remoteInputs,   \* remote_inputs_: frame -> Input
    stateHashes,    \* state_hashes_: frame -> text
    remoteHashes,   \* remote_hashes_: frame -> text
    desyncFrame,    \* desync_frame_
    telemetry,      \* telemetry_
    outcome,        \* what the last call returned, if it has
    locals,         \* history: the local input of every completed frame
    damagedFrom     \* history: the first frame entered in a state that a load
                    \* left behind that failed while it undid a failed call

session == <<frames, remoteInputs, stateHashes, remoteHashes, desyncFrame,
             telemetry>>
vars == <<sim, currentFrame, session, outcome, locals, damagedFrom>>

-----------------------------------------------------------------------------
(* Lookups and updates of the session's std::map members.                  *)

\* Mutant: only an existing key is assigned.
PutExisting(map, key, value) ==
    [k \in DOMAIN map |-> IF k = key THEN value ELSE map[k]]

\* map[key] = value
Put(map, key, value) ==
    [k \in DOMAIN map \cup {key} |-> IF k = key THEN value ELSE map[k]]

\* The received inputs at or before a frame.
Known(inputs, frame) == {k \in DOMAIN inputs : k <= frame}

LatestKnown(inputs, frame) ==
    CHOOSE k \in Known(inputs, frame) : \A j \in Known(inputs, frame) : j <= k

\* remote_for_frame: the exact input of the frame, else the latest before it.
RemoteFor(inputs, frame) ==
    IF Known(inputs, frame) = {} THEN NoInput
    ELSE inputs[LatestKnown(inputs, frame)]

HasExactRemote(inputs, frame) == frame \in DOMAIN inputs

\* The frames whose local and remote hashes are known and differ.
Differing(mine, theirs) ==
    {k \in DOMAIN mine \cap DOMAIN theirs : mine[k] # theirs[k]}

\* Mutant: the scan goes on to the last difference.
DesyncLast(mine, theirs) ==
    IF Differing(mine, theirs) = {} THEN NoFrame
    ELSE CHOOSE k \in Differing(mine, theirs) :
            \A j \in Differing(mine, theirs) : j <= k

\* recompute_desync: the earliest of them.
Desync(mine, theirs) ==
    IF Differing(mine, theirs) = {} THEN NoFrame
    ELSE CHOOSE k \in Differing(mine, theirs) :
            \A j \in Differing(mine, theirs) : k <= j

\* Mutant: one frame too many is erased.
FirstRetainedLate(now) ==
    IF now > MaxRollback THEN now - MaxRollback + 1 ELSE 0

\* The first frame prune_rollback_history keeps at frame now.
FirstRetained(now) == IF now > MaxRollback THEN now - MaxRollback ELSE 0

Prune(records, now) ==
    [k \in {j \in DOMAIN records : j >= FirstRetained(now)} |-> records[k]]

\* The states before each frame of first..last, from state on, under the
\* local and remote inputs mine and theirs.
Run(state, first, last, mine, theirs) ==
    LET before[k \in first .. last] ==
            IF k = first THEN state
            ELSE Step(before[k - 1], mine[k - 1], theirs[k - 1])
    IN  before

-----------------------------------------------------------------------------
TypeOK ==
    /\ sim \in SimState
    /\ currentFrame \in Frames
    /\ DOMAIN frames \subseteq Frames
    /\ \A k \in DOMAIN frames : frames[k] \in FrameRecord
    /\ DOMAIN remoteInputs \subseteq Frames
    /\ \A k \in DOMAIN remoteInputs : remoteInputs[k] \in Input
    /\ DOMAIN stateHashes = 0 .. currentFrame - 1
    /\ \A k \in DOMAIN stateHashes : stateHashes[k] \in HashText
    /\ DOMAIN remoteHashes \subseteq Frames
    /\ \A k \in DOMAIN remoteHashes : remoteHashes[k] \in HashText
    /\ desyncFrame \in Frames \cup {NoFrame}
    /\ telemetry \in [predicted : Nat, last : Nat, max : Nat]
    /\ outcome \in {"ok", "failed", "running"}
    /\ DOMAIN locals = 0 .. currentFrame - 1
    /\ \A k \in DOMAIN locals : locals[k] \in Input
    /\ damagedFrom \in Frames \cup {NoFrame}

Empty == [k \in {} |-> NoInput]

Init ==
    /\ sim = InitState
    /\ currentFrame = 0
    /\ frames = Empty /\ remoteInputs = Empty
    /\ stateHashes = Empty /\ remoteHashes = Empty
    /\ desyncFrame = NoFrame
    /\ telemetry = [predicted |-> 0, last |-> 0, max |-> 0]
    /\ outcome = "ok"
    /\ locals = Empty
    /\ damagedFrom = NoFrame

-----------------------------------------------------------------------------
(* A call that failed: the session has its saved fields back.  Loading the *)
(* saved state normally succeeds; when that fails too, the simulation is   *)
(* left in some other state, as it may be on entering the current frame.   *)

\* The earlier of two frames, either of which may be NoFrame.
Earlier(f, g) == IF f <= g THEN f ELSE g

Abandon(left) ==
    /\ outcome' = "failed"
    /\ UNCHANGED <<session, currentFrame, locals>>
    /\ \/ UNCHANGED <<sim, damagedFrom>>
       \/ sim' \in left /\ damagedFrom' = Earlier(damagedFrom, currentFrame)

\* advance(local): step one frame forward, emitting side effects.
Advance(local) ==
    LET now == currentFrame
        remote == RemoteFor(remoteInputs, now)
        predicted == ~HasExactRemote(remoteInputs, now)
        record == [snapshot_before |-> sim, local |-> local,
                   remote_used |-> remote, predicted_remote |-> predicted]
    IN  /\ now < MaxFrame
        /\ sim' = Step(sim, local, remote)
        /\ stateHashes' = Put(stateHashes, now, Hash(sim'))
        /\ telemetry' = [telemetry EXCEPT
                            !.predicted = @ + (IF predicted THEN 1 ELSE 0)]
        /\ currentFrame' = now + 1
        /\ desyncFrame' = Desync(stateHashes', remoteHashes)
        /\ frames' = Prune(Put(frames, now, record), now + 1)
        /\ outcome' = "ok"
        /\ locals' = Put(locals, now, local)
        /\ UNCHANGED <<remoteInputs, remoteHashes, damagedFrom>>

\* advance(local) when step_frame fails: the frame is not entered.
AdvanceFails(local) == currentFrame < MaxFrame /\ Abandon(PartialState)

\* submit_remote_input for a frame that has not been simulated yet.
SubmitEarly(frame, remote) ==
    /\ frame >= currentFrame
    /\ remoteInputs' = Put(remoteInputs, frame, remote)
    /\ outcome' = "ok"
    /\ UNCHANGED <<sim, currentFrame, frames, stateHashes, remoteHashes,
                   desyncFrame, telemetry, locals, damagedFrom>>

\* submit_remote_input for a frame that can no longer be corrected: it is
\* deeper than the window, or its record is missing.
SubmitRejected(frame) ==
    /\ frame < currentFrame
    /\ \/ currentFrame - frame > MaxRollback
       \/ frame \notin DOMAIN frames
    /\ outcome' = "failed"
    /\ UNCHANGED <<sim, currentFrame, session, locals, damagedFrom>>

Correctable(frame) ==
    /\ frame < currentFrame
    /\ currentFrame - frame <= MaxRollback
    /\ frame \in DOMAIN frames

\* submit_remote_input that confirms the input already used for the frame.
SubmitConfirms(frame, remote) ==
    /\ Correctable(frame)
    /\ frames[frame].remote_used = remote
    /\ remoteInputs' = Put(remoteInputs, frame, remote)
    /\ frames' = [frames EXCEPT ![frame].predicted_remote = FALSE]
    /\ outcome' = "ok"
    /\ UNCHANGED <<sim, currentFrame, stateHashes, remoteHashes, desyncFrame,
                   telemetry, locals, damagedFrom>>

\* The frames a correction of frame replays.
Replayed(frame) == frame .. currentFrame - 1

HistoryComplete(frame) == Replayed(frame) \subseteq DOMAIN frames

\* The states the replay of frame passes through, from its snapshot on.
ReplayStates(frame, inputs) ==
    Run(frames[frame].snapshot_before, frame, currentFrame,
        [k \in Replayed(frame) |-> frames[k].local],
        [k \in Replayed(frame) |-> RemoteFor(inputs, k)])

\* The records after the replay.
ReplayedFrames(frame, inputs, states) ==
    [k \in DOMAIN frames |->
        IF k \in Replayed(frame)
        THEN [snapshot_before |-> states[k],
              local |-> frames[k].local,
              remote_used |-> RemoteFor(inputs, k),
              predicted_remote |-> ~HasExactRemote(inputs, k)]
        ELSE frames[k]]

\* The hashes after the replay.
ReplayedHashes(frame, states) ==
    [k \in DOMAIN stateHashes \cup Replayed(frame) |->
        IF k \in Replayed(frame) THEN Hash(states[k + 1]) ELSE stateHashes[k]]

\* A replay from a snapshot older than the damage leaves none.
Healed(frame) == IF frame < damagedFrom THEN NoFrame ELSE damagedFrom

\* submit_remote_input that contradicts the prediction: restore and replay
\* without side effects up to the current frame.
SubmitCorrects(frame, remote) ==
    LET inputs == Put(remoteInputs, frame, remote)
        states == ReplayStates(frame, inputs)
        depth == currentFrame - frame
    IN  /\ Correctable(frame)
        /\ frames[frame].remote_used # remote
        /\ HistoryComplete(frame)
        /\ remoteInputs' = inputs
        /\ sim' = states[currentFrame]
        /\ frames' = ReplayedFrames(frame, inputs, states)
        /\ stateHashes' = ReplayedHashes(frame, states)
        /\ telemetry' = [telemetry EXCEPT
                            !.last = depth,
                            !.max = IF @ >= depth THEN @ ELSE depth]
        /\ desyncFrame' = Desync(stateHashes', remoteHashes)
        /\ damagedFrom' = Healed(frame)
        /\ outcome' = "ok"
        /\ UNCHANGED <<currentFrame, remoteHashes, locals>>

\* submit_remote_input whose restore, history check or replay step fails; the
\* load that undoes it may fail in any state the replay has come to.
SubmitAbandoned(frame, remote) ==
    LET states == ReplayStates(frame, Put(remoteInputs, frame, remote))
    IN  /\ Correctable(frame)
        /\ frames[frame].remote_used # remote
        /\ Abandon(PartialState \cup {states[k] : k \in Replayed(frame)})

\* submit_remote_hash: malformed texts are refused.
SubmitRemoteHash(frame, text) ==
    /\ UNCHANGED <<sim, currentFrame, frames, remoteInputs, stateHashes,
                   telemetry, locals, damagedFrom>>
    /\ \/ /\ text \in HashText
          /\ remoteHashes' = Put(remoteHashes, frame, text)
          /\ desyncFrame' = Desync(stateHashes, remoteHashes')
          /\ outcome' = "ok"
       \/ /\ text \notin HashText
          /\ outcome' = "failed"
          /\ UNCHANGED <<remoteHashes, desyncFrame>>

Next ==
    \/ \E local \in LocalInputs(currentFrame) : Advance(local) \/ AdvanceFails(local)
    \/ \E frame \in Simulated, remote \in Input :
        \/ SubmitEarly(frame, remote)
        \/ SubmitConfirms(frame, remote)
        \/ SubmitCorrects(frame, remote)
        \/ SubmitAbandoned(frame, remote)
    \/ \E frame \in Simulated : SubmitRejected(frame)
    \/ \E frame \in ReportedFrames, text \in ReportedText :
        SubmitRemoteHash(frame, text)

Spec == Init /\ [][Next]_vars

-----------------------------------------------------------------------------
(* Properties.  What the session promises, it promises between calls.      *)

Returned == outcome # "running"

\* The states before each of the frames 0..now, had every one of the remote
\* inputs been known before its frame was first simulated.
InTime(now, mine, inputs) ==
    Run(InitState, 0, now, mine, [k \in 0 .. now - 1 |-> RemoteFor(inputs, k)])

Authoritative == InTime(currentFrame, locals, remoteInputs)

\* The retained records are exactly the frames of the rollback window, so a
\* correction inside the window always finds its snapshot and every record it
\* replays: the "not retained" and "incomplete" errors of
\* submit_remote_input are never returned.
WindowExact ==
    DOMAIN frames = {k \in 0 .. currentFrame - 1 : currentFrame - k <= MaxRollback}

\* Each retained record keeps the local input its frame was advanced with.
LocalsRecorded == \A k \in DOMAIN frames : frames[k].local = locals[k]

\* Each retained record names the input remote_for_frame gives now, and says
\* predicted exactly when that input is a guess: the shortcut for a confirmed
\* prediction leaves no later record behind that a replay would have changed.
UsedInputsCurrent ==
    \A k \in DOMAIN frames :
        /\ frames[k].remote_used = RemoteFor(remoteInputs, k)
        /\ frames[k].predicted_remote = ~HasExactRemote(remoteInputs, k)

SimAuthoritative ==
    currentFrame < damagedFrom => sim = Authoritative[currentFrame]

\* However late, repeated or reordered the remote inputs were, the simulation
\* is in the state of an authoritative run that knew them in time.  When a load
\* that undid a failed call failed as well, this is lost for the frames from
\* there on, until a correction starts from an earlier snapshot.
MatchesAuthoritativeRun == Returned => SimAuthoritative

\* A restore lands in the authoritative run: every retained snapshot from
\* before the damage is the state that run has at the start of the frame.
SnapshotsAuthoritative ==
    \A k \in DOMAIN frames :
        k < damagedFrom => frames[k].snapshot_before = Authoritative[k]

HashesMatch ==
    \A k \in DOMAIN stateHashes :
        k < damagedFrom => stateHashes[k] = Hash(Authoritative[k + 1])

\* The hash published for a completed frame is the hash of the authoritative
\* state after it, for the frames a correction replayed as for those that
\* left the window long ago, and for those that came before a damage.
HashesAuthoritative == Returned => HashesMatch

EarliestReported ==
    IF Differing(stateHashes, remoteHashes) = {} THEN desyncFrame = NoFrame
    ELSE /\ desyncFrame \in Differing(stateHashes, remoteHashes)
         /\ \A k \in Differing(stateHashes, remoteHashes) : desyncFrame <= k

\* desync_frame() is the earliest frame whose two hashes disagree now: a
\* correction or a later report that removes the difference clears it.
DesyncIsEarliest == Returned => EarliestReported

\* A frame that has left the rollback window keeps its hash for ever: nothing
\* a peer sends later can change it.
SettledHashesFixed ==
    [][\A k \in DOMAIN stateHashes :
        currentFrame - k > MaxRollback => stateHashes'[k] = stateHashes[k]]_vars

=============================================================================
