---------------------------- MODULE RollbackCalls ----------------------------
(***************************************************************************)
(* submit_remote_input (src/core/rollback.cpp) as it is executed when it    *)
(* contradicts a prediction: it copies six members, then changes them and   *)
(* the simulation in place, one snapshot load and one replayed frame after  *)
(* the other, and puts everything back when the simulation fails half-way.  *)
(* Every call of the simulation is a step, for each of them may fail.  The  *)
(* caller of such a call is shown to see one of the whole, atomic calls of  *)
(* Rollback and nothing in between.                                         *)
(***************************************************************************)
EXTENDS Rollback

VARIABLE call   \* the correction under way: where it is, and its local copies

Idle == [stage |-> "idle"]

\* original_state and the five original_* copies; outcome is what the last call
\* returned, which this one has not done yet.
Copies ==
    [sim |-> sim, frames |-> frames, remoteInputs |-> remoteInputs,
     stateHashes |-> stateHashes, desyncFrame |-> desyncFrame,
     telemetry |-> telemetry, outcome |-> outcome]

callVars == <<vars, call>>

CallsInit == Init /\ call = Idle

-----------------------------------------------------------------------------
\* A contradicting input: the members are copied and the input is stored.
Begin(frame, remote) ==
    /\ call = Idle
    /\ Correctable(frame)
    /\ frames[frame].remote_used # remote
    /\ call' = [stage |-> "loading", frame |-> frame, remote |-> remote,
                next |-> frame, saved |-> Copies]
    /\ remoteInputs' = Put(remoteInputs, frame, remote)
    /\ outcome' = "running"
    /\ UNCHANGED <<sim, currentFrame, frames, stateHashes, remoteHashes,
                   desyncFrame, telemetry, locals, damagedFrom>>

\* The snapshot of the corrected frame is loaded.
Load ==
    /\ call.stage = "loading"
    /\ sim' = frames[call.frame].snapshot_before
    /\ call' = [call EXCEPT !.stage = "replaying"]
    /\ UNCHANGED <<currentFrame, session, outcome, locals, damagedFrom>>

\* load_state(original_state), whose result is not looked at, after a call that
\* left the simulation in one of the states broken: it puts the simulation
\* back, or it fails too, and that state or a worse one stays.
UndoLoad(broken) ==
    \/ sim' = call.saved.sim /\ UNCHANGED damagedFrom
    \/ /\ sim' \in PartialState \cup broken
       /\ damagedFrom' = IF sim' = call.saved.sim THEN damagedFrom
                         ELSE Earlier(damagedFrom, currentFrame)

\* The call returns the simulation's error.
Fail ==
    /\ outcome' = "failed"
    /\ call' = Idle
    /\ UNCHANGED <<currentFrame, remoteHashes, locals>>

\* The snapshot cannot be loaded: only the stored input has to be taken back.
LoadFails ==
    /\ call.stage = "loading"
    /\ UndoLoad({sim})
    /\ remoteInputs' = call.saved.remoteInputs
    /\ UNCHANGED <<frames, stateHashes, desyncFrame, telemetry>>
    /\ Fail

\* Mutant of InputAgain: only the corrected frame's input is looked up again.
InputOnceMore(now) ==
    IF now = call.frame THEN RemoteFor(remoteInputs, now)
    ELSE frames[now].remote_used

\* remote_for_frame, asked again with the corrected input known.
InputAgain(now) == RemoteFor(remoteInputs, now)

\* Mutant of Rehashed: the hash is taken before the replayed step.
RehashedEarly(now, after) == Put(stateHashes, now, Hash(sim))

\* Mutant of Rehashed: the hash is stored under the frame before.
RehashedShifted(now, after) ==
    Put(stateHashes, IF now = 0 THEN 0 ELSE now - 1, Hash(after))

\* The hashes with that of a replayed frame's new state.
Rehashed(now, after) == Put(stateHashes, now, Hash(after))

\* One replayed frame: its record is rewritten, then the simulation is stepped,
\* without side effects, and the hash of its new state replaces the old one.
ReplayFrame ==
    LET now == call.next
        remote == InputAgain(now)
    IN  /\ call.stage = "replaying"
        /\ now < currentFrame
        /\ now \in DOMAIN frames
        /\ frames' = [frames EXCEPT ![now] =
                        [snapshot_before |-> sim,
                         local |-> frames[now].local,
                         remote_used |-> remote,
                         predicted_remote |-> ~HasExactRemote(remoteInputs, now)]]
        /\ sim' = Step(sim, frames[now].local, remote)
        /\ stateHashes' = Rehashed(now, sim')
        /\ call' = [call EXCEPT !.next = now + 1]
        /\ UNCHANGED <<currentFrame, remoteInputs, remoteHashes, desyncFrame,
                       telemetry, outcome, locals, damagedFrom>>

\* Mutant: the hashes of the frames already replayed stay.
PutBackButHashes ==
    /\ frames' = call.saved.frames
    /\ remoteInputs' = call.saved.remoteInputs
    /\ desyncFrame' = call.saved.desyncFrame
    /\ telemetry' = call.saved.telemetry
    /\ UNCHANGED stateHashes

\* The five members are assigned from their copies.
PutBack ==
    /\ frames' = call.saved.frames
    /\ remoteInputs' = call.saved.remoteInputs
    /\ stateHashes' = call.saved.stateHashes
    /\ desyncFrame' = call.saved.desyncFrame
    /\ telemetry' = call.saved.telemetry

\* A frame's record is missing, or its step fails, after earlier frames of the
\* same call were rewritten.
ReplayFails ==
    /\ call.stage = "replaying"
    /\ call.next < currentFrame
    /\ UndoLoad({sim})
    /\ PutBack
    /\ Fail

\* The replay has reached the current frame.
Finish ==
    LET depth == currentFrame - call.frame
    IN  /\ call.stage = "replaying"
        /\ call.next = currentFrame
        /\ telemetry' = [telemetry EXCEPT
                            !.last = depth,
                            !.max = IF @ >= depth THEN @ ELSE depth]
        /\ desyncFrame' = Desync(stateHashes, remoteHashes)
        /\ damagedFrom' = Healed(call.frame)
        /\ outcome' = "ok"
        /\ call' = Idle
        /\ UNCHANGED <<sim, currentFrame, frames, remoteInputs, stateHashes,
                       remoteHashes, locals>>

\* The other calls, which hold no copies over a call of the simulation that
\* they change members after.
OtherCall ==
    /\ call = Idle
    /\ UNCHANGED call
    /\ \/ \E local \in LocalInputs(currentFrame) :
            Advance(local) \/ AdvanceFails(local)
       \/ \E frame \in Simulated, remote \in Input :
            SubmitEarly(frame, remote) \/ SubmitConfirms(frame, remote)
       \/ \E frame \in Simulated : SubmitRejected(frame)
       \/ \E frame \in ReportedFrames, text \in ReportedText :
            SubmitRemoteHash(frame, text)

CallsNext ==
    \/ OtherCall
    \/ \E frame \in Simulated, remote \in Input : Begin(frame, remote)
    \/ Load
    \/ LoadFails
    \/ ReplayFrame
    \/ ReplayFails
    \/ Finish

CallsSpec == CallsInit /\ [][CallsNext]_callVars

-----------------------------------------------------------------------------
(* Properties.                                                             *)

\* While a correction is under way, its caller still has what was there when it
\* began.
Whole == INSTANCE Rollback WITH
    sim <- IF call = Idle THEN sim ELSE call.saved.sim,
    frames <- IF call = Idle THEN frames ELSE call.saved.frames,
    remoteInputs <- IF call = Idle THEN remoteInputs ELSE call.saved.remoteInputs,
    stateHashes <- IF call = Idle THEN stateHashes ELSE call.saved.stateHashes,
    desyncFrame <- IF call = Idle THEN desyncFrame ELSE call.saved.desyncFrame,
    telemetry <- IF call = Idle THEN telemetry ELSE call.saved.telemetry,
    outcome <- IF call = Idle THEN outcome ELSE call.saved.outcome

\* Every correction, taken apart into its steps, is one whole call of Rollback:
\* it replays every frame or, failing at any point, it leaves all the members,
\* hashes and records of frames already replayed included, as they were.
CallsAreWhole == Whole!Spec

=============================================================================
