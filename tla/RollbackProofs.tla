---------------------------- MODULE RollbackProofs ----------------------------
(***************************************************************************)
(* The correctness of RollbackSession for every simulation, every set of   *)
(* inputs and every window: the retained history is exactly the window, it *)
(* names the inputs a replay would use, and the simulation is always in    *)
(* the state of the authoritative run, which is the match both sides play  *)
(* once the inputs are here.                                               *)
(***************************************************************************)
EXTENDS RollbackCalls, FiniteSetTheorems, TLAPS

-----------------------------------------------------------------------------
(* The latest remote input, and the run of the simulation from a state on. *)

Below(n) == 0 .. (n - 1)

\* Every non-empty set of natural numbers has a least element.  It is proved
\* from the well-foundedness of strict inclusion on finite sets, applied to
\* the initial segments Below(n), and is what the inductions here rest on.
LEMMA LeastNatural ==
  ASSUME NEW T \in SUBSET Nat, T # {}
  PROVE  \E m \in T : \A k \in T : m <= k
<1> DEFINE B == {Below(n) : n \in T}
<1>1. B \subseteq FiniteSubsetsOf(Nat)
  <2> SUFFICES ASSUME NEW n \in T PROVE Below(n) \in FiniteSubsetsOf(Nat)
    OBVIOUS
  <2>1. IsFiniteSet(Below(n))
    BY FS_Interval DEF Below
  <2>2. Below(n) \subseteq Nat
    BY DEF Below
  <2> QED BY <2>1, <2>2 DEF FiniteSubsetsOf
<1>2. B # {}
  OBVIOUS
<1>3. IsWellFoundedOn(StrictSubsetOrdering(Nat), FiniteSubsetsOf(Nat))
  BY FS_StrictSubsetOrderingWellFounded
<1>4. PICK x \in B : \A y \in B : ~ (<<y, x>> \in StrictSubsetOrdering(Nat))
  <2> HIDE DEF B
  <2> QED BY <1>1, <1>2, <1>3, WFMin
<1>5. PICK m \in T : x = Below(m)
  OBVIOUS
<1>6. ASSUME NEW k \in T, k < m PROVE FALSE
  <2>1. <<Below(k), Below(m)>> \in StrictSubsetOrdering(Nat)
    BY <1>6 DEF StrictSubsetOrdering, Below
  <2> QED BY <2>1, <1>4, <1>5
<1> QED BY <1>6

\* Induction on the natural numbers, for a property given as the set of the
\* numbers that have it.
LEMMA SetInduction ==
  ASSUME NEW P, 0 \in P, \A n \in Nat : n \in P => n + 1 \in P
  PROVE  Nat \subseteq P
<1> DEFINE T == Nat \ P
<1>1. SUFFICES ASSUME T # {} PROVE FALSE
  OBVIOUS
<1>2. PICK m \in T : \A k \in T : m <= k
  BY <1>1, LeastNatural
<1>3. m # 0 /\ m - 1 \in Nat
  BY <1>2
<1>4. m - 1 \in P
  BY <1>2, <1>3
<1> QED BY <1>2, <1>3, <1>4

-----------------------------------------------------------------------------
\* When some input is known at or before a frame, the latest such is one of
\* them and none is later.
LEMMA LatestKnownFact ==
  ASSUME NEW inputs, DOMAIN inputs \subseteq Nat,
         NEW frame \in Nat, Known(inputs, frame) # {}
  PROVE  /\ LatestKnown(inputs, frame) \in Known(inputs, frame)
         /\ \A j \in Known(inputs, frame) : j <= LatestKnown(inputs, frame)
<1> DEFINE Gaps == {frame - k : k \in Known(inputs, frame)}
<1>1. Gaps \in SUBSET Nat /\ Gaps # {}
  BY DEF Known
<1>2. PICK g \in Gaps : \A h \in Gaps : g <= h
  <2> HIDE DEF Gaps
  <2> QED BY <1>1, LeastNatural
<1>3. PICK k \in Known(inputs, frame) : g = frame - k
  BY <1>2
<1>4. ASSUME NEW j \in Known(inputs, frame) PROVE j <= k
  <2>1. frame - j \in Gaps
    OBVIOUS
  <2>2. g <= frame - j
    BY <1>2, <2>1
  <2>3. j \in Nat /\ k \in Nat
    BY DEF Known
  <2> HIDE DEF Gaps
  <2> QED BY <1>3, <2>2, <2>3
<1> QED BY <1>3, <1>4 DEF LatestKnown

\* A number with those two properties is the latest known frame.
LEMMA LatestKnownUnique ==
  ASSUME NEW inputs, DOMAIN inputs \subseteq Nat, NEW frame \in Nat,
         NEW k \in Known(inputs, frame),
         \A j \in Known(inputs, frame) : j <= k
  PROVE  RemoteFor(inputs, frame) = inputs[k]
<1>1. LatestKnown(inputs, frame) = k
  BY LatestKnownFact DEF Known
<1> QED BY <1>1 DEF RemoteFor

\* remote_for_frame always answers with an input.
LEMMA RemoteForType ==
  ASSUME NEW inputs, DOMAIN inputs \subseteq Nat,
         \A k \in DOMAIN inputs : inputs[k] \in Input, NEW frame \in Nat
  PROVE  RemoteFor(inputs, frame) \in Input
<1>1. CASE Known(inputs, frame) = {}
  BY <1>1, InputAssumption DEF RemoteFor
<1>2. CASE Known(inputs, frame) # {}
  BY <1>2, LatestKnownFact DEF RemoteFor, Known
<1> QED BY <1>1, <1>2

\* An input stored for a frame does not change what earlier frames use.
LEMMA RemoteForBefore ==
  ASSUME NEW inputs, NEW f, NEW v, NEW k \in Nat, f \in Nat, k < f,
         DOMAIN inputs \subseteq Nat
  PROVE  RemoteFor(Put(inputs, f, v), k) = RemoteFor(inputs, k)
<1> DEFINE after == Put(inputs, f, v)
<1>1. Known(after, k) = Known(inputs, k)
  BY DEF Known, Put
<1>2. \A j \in Known(inputs, k) : after[j] = inputs[j]
  BY DEF Known, Put
<1>3. LatestKnown(after, k) = LatestKnown(inputs, k)
  BY <1>1 DEF LatestKnown
<1>4. CASE Known(inputs, k) = {}
  BY <1>1, <1>4 DEF RemoteFor
<1>5. CASE Known(inputs, k) # {}
  BY <1>1, <1>2, <1>3, <1>5, LatestKnownFact DEF RemoteFor
<1> QED BY <1>4, <1>5

\* Storing the input a frame already uses changes what no frame uses: this is
\* why submit_remote_input may skip the replay of a confirmed prediction.
LEMMA RemoteForConfirmed ==
  ASSUME NEW inputs, NEW f \in Nat, NEW k \in Nat, DOMAIN inputs \subseteq Nat
  PROVE  RemoteFor(Put(inputs, f, RemoteFor(inputs, f)), k) = RemoteFor(inputs, k)
<1> DEFINE v == RemoteFor(inputs, f)
           after == Put(inputs, f, v)
<1>0. DOMAIN after = DOMAIN inputs \cup {f} /\ after[f] = v
  BY DEF Put
<1>1. CASE k < f
  BY <1>1, RemoteForBefore
<1>2. CASE f <= k
  <2>1. f \in Known(after, k)
    BY <1>0, <1>2 DEF Known
  <2>2. PICK m \in Known(after, k) : \A j \in Known(after, k) : j <= m
    <3> HIDE DEF after
    <3> QED BY <1>0, <2>1, LatestKnownFact
  <2>3. RemoteFor(after, k) = after[m]
    <3> HIDE DEF after
    <3> QED BY <1>0, <2>2, LatestKnownUnique
  <2>4. CASE m # f
    <3>1. m \in Known(inputs, k) /\ after[m] = inputs[m]
      BY <2>2, <2>4 DEF Known, Put
    <3>2. \A j \in Known(inputs, k) : j <= m
      BY <2>2 DEF Known, Put
    <3>3. RemoteFor(inputs, k) = inputs[m]
      BY <3>1, <3>2, LatestKnownUnique
    <3> QED BY <2>3, <3>1, <3>3
  <2>5. CASE m = f
    <3>1. Known(inputs, k) = Known(inputs, f)
      BY <1>2, <2>2, <2>5 DEF Known, Put
    <3>2. RemoteFor(inputs, k) = v
      BY <3>1 DEF RemoteFor, LatestKnown
    <3> QED BY <1>0, <2>3, <2>5, <3>2
  <2> QED BY <2>4, <2>5
<1> QED BY <1>1, <1>2
-----------------------------------------------------------------------------
\* g is the run from state over first..last: Run is the one such function.
IsRun(g, state, first, last, mine, theirs) ==
    g = [k \in first .. last |->
            IF k = first THEN state
            ELSE Step(g[k - 1], mine[k - 1], theirs[k - 1])]

\* The recursive function in Run exists: it satisfies its own equation.
LEMMA RunIsRun ==
  ASSUME NEW s, NEW f \in Nat, NEW n \in Nat, f <= n, NEW mine, NEW theirs
  PROVE  IsRun(Run(s, f, n, mine, theirs), s, f, n, mine, theirs)
<1> DEFINE P == {d \in Nat : \E g : IsRun(g, s, f, f + d, mine, theirs)}
<1>1. 0 \in P
  <2> DEFINE g == [k \in f .. f |-> s]
  <2>1. IsRun(g, s, f, f + 0, mine, theirs)
    BY DEF IsRun
  <2> QED BY <2>1
<1>2. ASSUME NEW d \in Nat, d \in P PROVE d + 1 \in P
  <2>1. PICK g : IsRun(g, s, f, f + d, mine, theirs)
    BY <1>2
  <2> DEFINE h == [k \in f .. f + (d + 1) |->
                     IF k \in f .. f + d THEN g[k]
                     ELSE Step(g[f + d], mine[f + d], theirs[f + d])]
  <2>2. ASSUME NEW k \in f .. f + (d + 1)
        PROVE  h[k] = IF k = f THEN s
                      ELSE Step(h[k - 1], mine[k - 1], theirs[k - 1])
    <3>1. CASE k \in f .. f + d
      <4>1. h[k] = g[k]
        BY <3>1
      <4>2. g[k] = IF k = f THEN s
                   ELSE Step(g[k - 1], mine[k - 1], theirs[k - 1])
        BY <2>1, <3>1 DEF IsRun
      <4>3. k # f => k - 1 \in f .. f + d /\ h[k - 1] = g[k - 1]
        BY <3>1
      <4> QED BY <4>1, <4>2, <4>3
    <3>2. CASE k = f + (d + 1)
      <4>1. k # f /\ k \notin f .. f + d /\ k - 1 = f + d
        BY <3>2
      <4>2. h[k] = Step(g[k - 1], mine[k - 1], theirs[k - 1])
        BY <4>1
      <4>3. h[k - 1] = g[k - 1]
        BY <4>1
      <4> QED BY <4>1, <4>2, <4>3
    <3> QED BY <3>1, <3>2
  <2>3. IsRun(h, s, f, f + (d + 1), mine, theirs)
    BY <2>2 DEF IsRun
  <2> QED BY <2>3
<1>3. Nat \subseteq P
  <2> HIDE DEF P
  <2> QED BY <1>1, <1>2, SetInduction
<1>4. \E g : IsRun(g, s, f, n, mine, theirs)
  <2>1. n - f \in P
    BY <1>3
  <2>2. f + (n - f) = n
    OBVIOUS
  <2> QED BY <2>1, <2>2
<1> QED BY <1>4 DEF Run, IsRun

\* A run starts in its state and follows Step.
LEMMA RunSteps ==
  ASSUME NEW s, NEW f \in Nat, NEW n \in Nat, f <= n, NEW mine, NEW theirs
  PROVE  LET r == Run(s, f, n, mine, theirs) IN
         /\ DOMAIN r = f .. n
         /\ r[f] = s
         /\ \A k \in f .. n - 1 : r[k + 1] = Step(r[k], mine[k], theirs[k])
<1> DEFINE r == Run(s, f, n, mine, theirs)
<1>1. r = [k \in f .. n |-> IF k = f THEN s
                            ELSE Step(r[k - 1], mine[k - 1], theirs[k - 1])]
  BY RunIsRun DEF IsRun
<1> HIDE DEF r
<1>2. DOMAIN r = f .. n /\ r[f] = s
  BY <1>1
<1>3. ASSUME NEW k \in f .. n - 1
      PROVE  r[k + 1] = Step(r[k], mine[k], theirs[k])
  <2>1. k + 1 \in f .. n /\ k + 1 # f /\ (k + 1) - 1 = k
    OBVIOUS
  <2> QED BY <1>1, <2>1
<1> QED BY <1>2, <1>3 DEF r

\* Any function that starts in the run's state at its first frame and follows
\* Step with the same inputs agrees with the run.
LEMMA RunUnique ==
  ASSUME NEW s, NEW f \in Nat, NEW n \in Nat, f <= n, NEW mine, NEW theirs,
         NEW g, NEW m \in f .. n, g[f] = s,
         \A k \in f .. m - 1 : g[k + 1] = Step(g[k], mine[k], theirs[k])
  PROVE  \A k \in f .. m : g[k] = Run(s, f, n, mine, theirs)[k]
<1> DEFINE r == Run(s, f, n, mine, theirs)
           P == {d \in Nat : f + d <= m => g[f + d] = r[f + d]}
<1>1. /\ r[f] = s
      /\ \A k \in f .. n - 1 : r[k + 1] = Step(r[k], mine[k], theirs[k])
  BY RunSteps
<1> HIDE DEF r
<1>2. 0 \in P
  BY <1>1
<1>3. ASSUME NEW d \in Nat, d \in P PROVE d + 1 \in P
  <2> SUFFICES ASSUME f + (d + 1) <= m
               PROVE  g[f + (d + 1)] = r[f + (d + 1)]
    OBVIOUS
  <2>1. g[f + d] = r[f + d]
    BY <1>3
  <2>2. f + d \in f .. m - 1 /\ f + d \in f .. n - 1
    OBVIOUS
  <2>3. (f + d) + 1 = f + (d + 1)
    OBVIOUS
  <2> QED BY <1>1, <2>1, <2>2, <2>3
<1>4. Nat \subseteq P
  <2> HIDE DEF P
  <2> QED BY <1>2, <1>3, SetInduction
<1>5. ASSUME NEW k \in f .. m PROVE g[k] = r[k]
  <2>1. k - f \in P
    BY <1>4
  <2>2. f + (k - f) = k
    OBVIOUS
  <2> QED BY <2>1, <2>2
<1> QED BY <1>5 DEF r

\* Every state of a run is a state of the simulation.
LEMMA RunType ==
  ASSUME NEW s \in SimState, NEW f \in Nat, NEW n \in Nat, f <= n,
         NEW mine, NEW theirs,
         \A k \in f .. n - 1 : mine[k] \in Input /\ theirs[k] \in Input
  PROVE  \A k \in f .. n : Run(s, f, n, mine, theirs)[k] \in SimState
<1> DEFINE r == Run(s, f, n, mine, theirs)
           P == {d \in Nat : f + d <= n => r[f + d] \in SimState}
<1>1. /\ r[f] = s
      /\ \A k \in f .. n - 1 : r[k + 1] = Step(r[k], mine[k], theirs[k])
  BY RunSteps
<1> HIDE DEF r
<1>2. 0 \in P
  BY <1>1
<1>3. ASSUME NEW d \in Nat, d \in P PROVE d + 1 \in P
  <2> SUFFICES ASSUME f + (d + 1) <= n PROVE r[f + (d + 1)] \in SimState
    OBVIOUS
  <2>1. f + d \in f .. n - 1 /\ (f + d) + 1 = f + (d + 1)
    OBVIOUS
  <2>2. r[f + d] \in SimState
    BY <1>3
  <2> QED BY <1>1, <2>1, <2>2, SimAssumption
<1>4. Nat \subseteq P
  <2> HIDE DEF P
  <2> QED BY <1>2, <1>3, SetInduction
<1>5. ASSUME NEW k \in f .. n PROVE r[k] \in SimState
  <2>1. k - f \in P
    BY <1>4
  <2>2. f + (k - f) = k
    OBVIOUS
  <2> QED BY <2>1, <2>2
<1> QED BY <1>5 DEF r

-----------------------------------------------------------------------------
(* The invariant.                                                          *)

\* The inductive invariant.  SimAuthoritative is not inductive alone:
\* a correction starts from a snapshot (SnapshotsAuthoritative) and repeats
\* the recorded local inputs (LocalsRecorded), it finds them because the
\* records are the window (WindowExact), and skipping a confirmed input is
\* harmless because the records name current inputs (UsedInputsCurrent).
IInv ==
    /\ TypeOK
    /\ WindowExact
    /\ LocalsRecorded
    /\ UsedInputsCurrent
    /\ SimAuthoritative
    /\ SnapshotsAuthoritative
    /\ HashesMatch

-----------------------------------------------------------------------------
(* Facts about single operators.                                           *)

\* The desync frame is a frame of the differing ones, and the least.
LEMMA DesyncFact ==
  ASSUME NEW mine, NEW theirs, DOMAIN mine \subseteq Nat
  PROVE  IF Differing(mine, theirs) = {} THEN Desync(mine, theirs) = NoFrame
         ELSE /\ Desync(mine, theirs) \in Differing(mine, theirs)
              /\ \A k \in Differing(mine, theirs) : Desync(mine, theirs) <= k
<1> DEFINE D == Differing(mine, theirs)
<1>1. D \in SUBSET Nat
  BY DEF Differing
<1>2. CASE D = {}
  BY <1>2 DEF Desync
<1>3. CASE D # {}
  <2>1. \E k \in D : \A j \in D : k <= j
    <3> HIDE DEF D
    <3> QED BY <1>1, <1>3, LeastNatural
  <2> QED BY <1>3, <2>1 DEF Desync
<1> QED BY <1>2, <1>3

\* Replaying a correctable frame starts at its snapshot, follows Step and
\* stays among the simulation's states.
LEMMA ReplayFact ==
  ASSUME TypeOK, NEW f \in Frames, Correctable(f), HistoryComplete(f),
         NEW inputs, DOMAIN inputs \subseteq Nat,
         \A k \in DOMAIN inputs : inputs[k] \in Input
  PROVE  LET st == ReplayStates(f, inputs) IN
         /\ st[f] = frames[f].snapshot_before
         /\ \A k \in Replayed(f) :
              st[k + 1] = Step(st[k], frames[k].local, RemoteFor(inputs, k))
         /\ \A k \in f .. currentFrame : st[k] \in SimState
<1> DEFINE mine == [k \in Replayed(f) |-> frames[k].local]
           theirs == [k \in Replayed(f) |-> RemoteFor(inputs, k)]
           s == frames[f].snapshot_before
<1>1. f \in Nat /\ currentFrame \in Nat /\ f < currentFrame /\ f <= currentFrame
  BY BoundAssumption DEF TypeOK, Frames, Correctable
<1>2. s \in SimState
  BY DEF TypeOK, Correctable, FrameRecord
<1>3. ASSUME NEW k \in f .. currentFrame - 1
      PROVE  /\ mine[k] = frames[k].local /\ mine[k] \in Input
             /\ theirs[k] = RemoteFor(inputs, k) /\ theirs[k] \in Input
  <2>1. k \in Replayed(f) /\ k \in DOMAIN frames /\ k \in Nat
    BY <1>1 DEF Replayed, HistoryComplete
  <2>2. RemoteFor(inputs, k) \in Input
    BY <2>1, RemoteForType
  <2> QED BY <2>1, <2>2 DEF TypeOK, FrameRecord
<1>4. ReplayStates(f, inputs) = Run(s, f, currentFrame, mine, theirs)
  BY DEF ReplayStates
<1> HIDE DEF mine, theirs, s
<1>5. \A k \in f .. currentFrame : ReplayStates(f, inputs)[k] \in SimState
  BY <1>1, <1>2, <1>3, <1>4, RunType
<1>6. /\ ReplayStates(f, inputs)[f] = s
      /\ \A k \in f .. currentFrame - 1 : ReplayStates(f, inputs)[k + 1]
            = Step(ReplayStates(f, inputs)[k], mine[k], theirs[k])
  <2> DEFINE r == Run(s, f, currentFrame, mine, theirs)
  <2>1. /\ r[f] = s
        /\ \A k \in f .. currentFrame - 1 : r[k + 1] = Step(r[k], mine[k], theirs[k])
    BY <1>1, RunSteps
  <2> QED BY <1>4, <2>1
<1> QED BY <1>3, <1>5, <1>6 DEF s, Replayed

\* The calls of a step, with the bounds on their arguments taken away.
LEMMA CallsMade ==
  ASSUME TypeOK, Next
  PROVE  \/ \E local \in Input : Advance(local) \/ AdvanceFails(local)
         \/ \E frame \in Frames, remote \in Input :
                \/ SubmitEarly(frame, remote)
                \/ SubmitConfirms(frame, remote)
                \/ SubmitCorrects(frame, remote)
                \/ SubmitAbandoned(frame, remote)
         \/ \E frame \in Frames : SubmitRejected(frame)
         \/ \E frame \in ReportedFrames, text \in ReportedText :
                SubmitRemoteHash(frame, text)
<1>1. LocalInputs(currentFrame) \subseteq Input /\ Simulated \subseteq Frames
  BY InputAssumption DEF TypeOK, Simulated
<1> QED BY <1>1 DEF Next

-----------------------------------------------------------------------------
(* The retained window.                                                    *)

LEMMA WindowStep == TypeOK /\ WindowExact /\ [Next]_vars => WindowExact'
<1> SUFFICES ASSUME TypeOK, WindowExact, [Next]_vars PROVE WindowExact'
  OBVIOUS
<1> USE BoundAssumption
<1>1. ASSUME NEW local \in Input, Advance(local) PROVE WindowExact'
  <2>1. PICK record : /\ currentFrame' = currentFrame + 1
                      /\ frames' = Prune(Put(frames, currentFrame, record),
                                         currentFrame + 1)
    BY <1>1 DEF Advance
  <2>2. DOMAIN frames' = {j \in DOMAIN frames \cup {currentFrame} :
                            j >= FirstRetained(currentFrame + 1)}
    BY <2>1 DEF Prune, Put
  <2>3. currentFrame \in Nat
    BY DEF TypeOK, Frames
  <2>4. DOMAIN frames' = {k \in 0 .. currentFrame : (currentFrame + 1) - k <= MaxRollback}
    BY <2>2, <2>3 DEF WindowExact, FirstRetained
  <2>5. (currentFrame + 1) - 1 = currentFrame
    BY <2>3
  <2> QED BY <2>1, <2>4, <2>5 DEF WindowExact
<1>2. CASE UNCHANGED <<DOMAIN frames, currentFrame>>
  BY <1>2 DEF WindowExact
<1>3. (\E local \in Input : Advance(local)) \/ UNCHANGED <<DOMAIN frames, currentFrame>>
  BY CallsMade
     DEF AdvanceFails, Abandon, SubmitEarly, SubmitConfirms, SubmitCorrects,
         SubmitAbandoned, SubmitRejected, SubmitRemoteHash, ReplayedFrames, vars,
         session
<1> QED BY <1>1, <1>2, <1>3

\* Inside the window nothing is missing: once a correction has passed the
\* depth check, its snapshot and every record it replays are there, so
\* submit_remote_input never returns its two "history" errors.
LEMMA WindowComplete ==
  ASSUME TypeOK, WindowExact, NEW f \in Frames, f < currentFrame,
         currentFrame - f <= MaxRollback
  PROVE  f \in DOMAIN frames /\ HistoryComplete(f)
BY BoundAssumption
   DEF TypeOK, WindowExact, Frames, HistoryComplete, Replayed

-----------------------------------------------------------------------------
(* Types.                                                                  *)

LEMMA TypeInit == Init => TypeOK
<1> SUFFICES ASSUME Init PROVE TypeOK
  OBVIOUS
<1>1. DOMAIN Empty = {} /\ 0 .. 0 - 1 = {}
  BY DEF Empty
<1>2. currentFrame = 0 /\ currentFrame \in Frames
  BY BoundAssumption DEF Init, Frames
<1>3. telemetry \in [predicted : Nat, last : Nat, max : Nat]
  BY DEF Init
<1> QED BY <1>1, <1>2, <1>3, SimAssumption DEF Init, TypeOK

LEMMA DesyncType ==
  ASSUME NEW mine, NEW theirs, DOMAIN mine \subseteq Frames
  PROVE  Desync(mine, theirs) \in Frames \cup {NoFrame}
BY DesyncFact, BoundAssumption DEF Frames, Differing

LEMMA TypeStep == TypeOK /\ WindowExact /\ [Next]_vars => TypeOK'
<1> SUFFICES ASSUME TypeOK, WindowExact, [Next]_vars PROVE TypeOK'
  OBVIOUS
<1> USE BoundAssumption
<1>0. DOMAIN remoteInputs \subseteq Nat
  BY DEF TypeOK, Frames
<1>1. ASSUME NEW local \in Input, Advance(local) PROVE TypeOK'
  <2> DEFINE remote == RemoteFor(remoteInputs, currentFrame)
  <2>1. currentFrame \in Nat /\ currentFrame + 1 \in Frames /\ currentFrame < MaxFrame
    BY <1>1 DEF TypeOK, Frames, Advance
  <2>2. remote \in Input
    BY <1>0, <2>1, RemoteForType DEF TypeOK
  <2>3. sim' \in SimState /\ Hash(sim') \in HashText
    BY <1>1, <2>2, SimAssumption, HashAssumption DEF TypeOK, Advance
  <2>4. /\ DOMAIN frames' \subseteq Frames
        /\ \A k \in DOMAIN frames' : frames'[k] \in FrameRecord
    <3>1. frames' = Prune(Put(frames, currentFrame,
             [snapshot_before |-> sim, local |-> local, remote_used |-> remote,
              predicted_remote |-> ~HasExactRemote(remoteInputs, currentFrame)]),
             currentFrame + 1)
      BY <1>1 DEF Advance
    <3> HIDE DEF remote
    <3> QED BY <2>1, <2>2, <3>1, <1>1
            DEF TypeOK, Prune, Put, FrameRecord, HasExactRemote, Frames
  <2>5. /\ DOMAIN stateHashes' = 0 .. currentFrame' - 1
        /\ \A k \in DOMAIN stateHashes' : stateHashes'[k] \in HashText
    BY <1>1, <2>1, <2>3 DEF TypeOK, Advance, Put
  <2>6. desyncFrame' \in Frames \cup {NoFrame}
    <3>1. DOMAIN stateHashes' \subseteq Frames
      BY <1>1, <2>1, <2>5 DEF Advance, Frames
    <3>2. desyncFrame' = Desync(stateHashes', remoteHashes)
      BY <1>1 DEF Advance
    <3> QED BY <3>1, <3>2, DesyncType
  <2>7. telemetry' \in [predicted : Nat, last : Nat, max : Nat]
    BY <1>1 DEF TypeOK, Advance
  <2>8. /\ DOMAIN locals' = 0 .. currentFrame' - 1
        /\ \A k \in DOMAIN locals' : locals'[k] \in Input
    BY <1>1, <2>1 DEF TypeOK, Advance, Put
  <2>9. /\ currentFrame' \in Frames /\ outcome' = "ok"
        /\ UNCHANGED <<remoteInputs, remoteHashes, damagedFrom>>
    BY <1>1, <2>1 DEF Advance
  <2> QED BY <2>3, <2>4, <2>5, <2>6, <2>7, <2>8, <2>9 DEF TypeOK
<1>2. ASSUME NEW left \in SUBSET SimState, Abandon(left) PROVE TypeOK'
  <2>1. Earlier(damagedFrom, currentFrame) \in Frames \cup {NoFrame}
    BY DEF TypeOK, Earlier
  <2> QED BY <1>2, <2>1 DEF Abandon, TypeOK, session
<1>3. ASSUME NEW f \in Frames, NEW r \in Input, SubmitEarly(f, r) PROVE TypeOK'
  BY <1>3 DEF SubmitEarly, TypeOK, Put
<1>4. ASSUME NEW f \in Frames, NEW r \in Input, SubmitConfirms(f, r)
      PROVE  TypeOK'
  <2>1. /\ DOMAIN frames' \subseteq Frames
        /\ \A k \in DOMAIN frames' : frames'[k] \in FrameRecord
    BY <1>4 DEF SubmitConfirms, TypeOK, FrameRecord
  <2>2. /\ DOMAIN remoteInputs' \subseteq Frames
        /\ \A k \in DOMAIN remoteInputs' : remoteInputs'[k] \in Input
    BY <1>4 DEF SubmitConfirms, TypeOK, Put
  <2> QED BY <1>4, <2>1, <2>2 DEF SubmitConfirms, TypeOK
<1>5. ASSUME NEW f \in Frames, NEW r \in Input, SubmitCorrects(f, r)
      PROVE  TypeOK'
  <2> DEFINE inputs == Put(remoteInputs, f, r)
             st == ReplayStates(f, inputs)
  <2>1. /\ DOMAIN inputs \subseteq Frames
        /\ DOMAIN inputs \subseteq Nat
        /\ \A k \in DOMAIN inputs : inputs[k] \in Input
    BY <1>0 DEF TypeOK, Put, Frames
  <2>2. Correctable(f) /\ HistoryComplete(f)
    BY <1>5 DEF SubmitCorrects
  <2>3. \A k \in f .. currentFrame : st[k] \in SimState
    <3> HIDE DEF inputs
    <3> QED BY <2>1, <2>2, ReplayFact
  <2>4. \A k \in Replayed(f) :
          /\ k \in Nat /\ k \in f .. currentFrame /\ k + 1 \in f .. currentFrame
          /\ k \in 0 .. currentFrame - 1
          /\ RemoteFor(inputs, k) \in Input
    <3> HIDE DEF inputs
    <3> QED BY <2>1, RemoteForType DEF Replayed, TypeOK, Frames
  <2>5. f \in Nat /\ currentFrame \in Nat /\ f < currentFrame
        /\ currentFrame \in f .. currentFrame
    BY <2>2 DEF TypeOK, Frames, Correctable
  <2>6. /\ remoteInputs' = inputs
        /\ sim' = st[currentFrame]
        /\ frames' = ReplayedFrames(f, inputs, st)
        /\ stateHashes' = ReplayedHashes(f, st)
        /\ telemetry' = [telemetry EXCEPT
                            !.last = currentFrame - f,
                            !.max = IF @ >= currentFrame - f THEN @
                                    ELSE currentFrame - f]
        /\ desyncFrame' = Desync(stateHashes', remoteHashes)
        /\ outcome' = "ok"
        /\ UNCHANGED <<currentFrame, remoteHashes, locals>>
        /\ damagedFrom' = Healed(f)
    BY <1>5 DEF SubmitCorrects
  <2> HIDE DEF inputs, st
  <2>7. /\ DOMAIN frames' \subseteq Frames
        /\ \A k \in DOMAIN frames' : frames'[k] \in FrameRecord
    BY <2>3, <2>4, <2>6 DEF TypeOK, FrameRecord, HasExactRemote, ReplayedFrames
  <2>8. /\ DOMAIN stateHashes' = 0 .. currentFrame - 1
        /\ \A k \in DOMAIN stateHashes' : stateHashes'[k] \in HashText
    BY <2>3, <2>4, <2>6, HashAssumption DEF TypeOK, ReplayedHashes
  <2>9. desyncFrame' \in Frames \cup {NoFrame}
    <3>1. DOMAIN stateHashes' \subseteq Frames
      BY <2>8 DEF TypeOK, Frames
    <3> QED BY <2>6, <3>1, DesyncType
  <2>10. telemetry' \in [predicted : Nat, last : Nat, max : Nat]
    <3> DEFINE deepest == IF telemetry.max >= currentFrame - f THEN telemetry.max
                          ELSE currentFrame - f
    <3>1. currentFrame - f \in Nat /\ deepest \in Nat
      BY <2>5 DEF TypeOK
    <3>2. telemetry' = [telemetry EXCEPT !.last = currentFrame - f,
                                         !.max = deepest]
      BY <2>6
    <3> HIDE DEF deepest
    <3> QED BY <3>1, <3>2 DEF TypeOK
  <2>11. damagedFrom' \in Frames \cup {NoFrame}
    BY <2>6 DEF TypeOK, Healed
  <2> QED BY <2>1, <2>3, <2>5, <2>6, <2>7, <2>8, <2>9, <2>10, <2>11 DEF TypeOK
<1>6. ASSUME NEW f \in Frames, SubmitRejected(f) PROVE TypeOK'
  BY <1>6 DEF SubmitRejected, TypeOK, session
<1>7. ASSUME NEW f \in Frames, NEW text \in ReportedText,
             SubmitRemoteHash(f, text)
      PROVE  TypeOK'
  <2>1. CASE text \in HashText
    <3>1. remoteHashes' = Put(remoteHashes, f, text)
      BY <1>7, <2>1 DEF SubmitRemoteHash
    <3>2. desyncFrame' = Desync(stateHashes, remoteHashes')
      BY <1>7, <2>1 DEF SubmitRemoteHash
    <3>3. desyncFrame' \in Frames \cup {NoFrame}
      <4>1. DOMAIN stateHashes \subseteq Frames
        BY DEF TypeOK, Frames
      <4> QED BY <3>2, <4>1, DesyncType
    <3>4. /\ DOMAIN remoteHashes' \subseteq Frames
          /\ \A k \in DOMAIN remoteHashes' : remoteHashes'[k] \in HashText
      BY <2>1, <3>1 DEF TypeOK, Put
    <3>5. outcome' = "ok"
      BY <1>7, <2>1 DEF SubmitRemoteHash
    <3> QED BY <1>7, <3>3, <3>4, <3>5 DEF SubmitRemoteHash, TypeOK
  <2>2. CASE text \notin HashText
    BY <1>7, <2>2 DEF SubmitRemoteHash, TypeOK
  <2> QED BY <2>1, <2>2
<1>8. CASE UNCHANGED vars
  BY <1>8 DEF vars, session, TypeOK
<1>9. ASSUME NEW local \in Input, AdvanceFails(local) PROVE TypeOK'
  BY <1>2, <1>9, SimAssumption DEF AdvanceFails
<1>10. ASSUME NEW f \in Frames, NEW r \in Input, SubmitAbandoned(f, r)
       PROVE  TypeOK'
  <2> DEFINE inputs == Put(remoteInputs, f, r)
             passed == {ReplayStates(f, inputs)[k] : k \in Replayed(f)}
  <2>1. Correctable(f) /\ Abandon(PartialState \cup passed)
    BY <1>10 DEF SubmitAbandoned
  <2>2. /\ DOMAIN inputs \subseteq Nat
        /\ \A k \in DOMAIN inputs : inputs[k] \in Input
    BY <1>0 DEF TypeOK, Put, Frames
  <2>3. HistoryComplete(f)
    BY <2>1, WindowComplete DEF Correctable
  <2>4. Replayed(f) \subseteq f .. currentFrame
    BY DEF Replayed, TypeOK, Frames
  <2>5. passed \subseteq SimState
    <3> HIDE DEF inputs
    <3> QED BY <2>1, <2>2, <2>3, <2>4, ReplayFact
  <2> HIDE DEF passed
  <2> QED BY <1>2, <2>1, <2>5, SimAssumption
<1> QED BY <1>1, <1>3, <1>4, <1>5, <1>6, <1>7, <1>8, <1>9, <1>10,
           ReportedAssumption, CallsMade

\* Every reachable state of the session is well typed, whatever the
\* simulation, the window and the order of the calls.
THEOREM TypeCorrect == Spec => []TypeOK
<1>1. Init => WindowExact
  BY BoundAssumption DEF Init, Empty, WindowExact
<1> QED BY <1>1, TypeInit, TypeStep, WindowStep, PTL DEF Spec

-----------------------------------------------------------------------------
(* The retained records.                                                   *)

LEMMA RecordsStep ==
  TypeOK /\ WindowExact /\ LocalsRecorded /\ UsedInputsCurrent /\ [Next]_vars
    => LocalsRecorded' /\ UsedInputsCurrent'
<1> SUFFICES ASSUME TypeOK, WindowExact, LocalsRecorded, UsedInputsCurrent,
                    [Next]_vars
             PROVE  LocalsRecorded' /\ UsedInputsCurrent'
  OBVIOUS
<1>0. /\ DOMAIN remoteInputs \subseteq Nat /\ currentFrame \in Nat
      /\ DOMAIN frames \subseteq 0 .. currentFrame - 1
  BY BoundAssumption DEF TypeOK, Frames, WindowExact
<1>1. ASSUME NEW local \in Input, Advance(local)
      PROVE  LocalsRecorded' /\ UsedInputsCurrent'
  <2> DEFINE record ==
        [snapshot_before |-> sim, local |-> local,
         remote_used |-> RemoteFor(remoteInputs, currentFrame),
         predicted_remote |-> ~HasExactRemote(remoteInputs, currentFrame)]
  <2>1. /\ frames' = Prune(Put(frames, currentFrame, record), currentFrame + 1)
        /\ locals' = Put(locals, currentFrame, local)
        /\ remoteInputs' = remoteInputs
    BY <1>1 DEF Advance
  <2>2. ASSUME NEW k \in DOMAIN frames'
        PROVE  \/ k = currentFrame /\ frames'[k] = record /\ locals'[k] = local
               \/ /\ k \in DOMAIN frames /\ frames'[k] = frames[k]
                  /\ locals'[k] = locals[k]
    <3> HIDE DEF record
    <3>1. k \in DOMAIN frames \cup {currentFrame}
      BY <2>1 DEF Prune, Put
    <3>2. CASE k = currentFrame
      BY <2>1, <3>2 DEF Prune, Put
    <3>3. CASE k \in DOMAIN frames
      BY <1>0, <2>1, <3>3 DEF Prune, Put, TypeOK
    <3> QED BY <3>1, <3>2, <3>3
  <2> QED BY <2>1, <2>2 DEF LocalsRecorded, UsedInputsCurrent
<1>2. ASSUME NEW f \in Frames, NEW r \in Input, SubmitEarly(f, r)
      PROVE  LocalsRecorded' /\ UsedInputsCurrent'
  <2>1. /\ remoteInputs' = Put(remoteInputs, f, r) /\ f >= currentFrame
        /\ UNCHANGED <<frames, locals>>
    BY <1>2 DEF SubmitEarly
  <2>2. ASSUME NEW k \in DOMAIN frames
        PROVE  /\ RemoteFor(remoteInputs', k) = RemoteFor(remoteInputs, k)
               /\ HasExactRemote(remoteInputs', k)
                    <=> HasExactRemote(remoteInputs, k)
    <3>1. k \in Nat /\ f \in Nat /\ k < f
      BY <1>0, <2>1 DEF Frames
    <3> QED BY <1>0, <2>1, <3>1, RemoteForBefore DEF HasExactRemote, Put
  <2> QED BY <2>1, <2>2 DEF LocalsRecorded, UsedInputsCurrent
<1>3. ASSUME NEW f \in Frames, NEW r \in Input, SubmitConfirms(f, r)
      PROVE  LocalsRecorded' /\ UsedInputsCurrent'
  <2>1. /\ remoteInputs' = Put(remoteInputs, f, r)
        /\ frames' = [frames EXCEPT ![f].predicted_remote = FALSE]
        /\ f \in DOMAIN frames /\ r = frames[f].remote_used
        /\ UNCHANGED locals
    BY <1>3 DEF SubmitConfirms, Correctable
  <2>2. r = RemoteFor(remoteInputs, f)
    BY <2>1 DEF UsedInputsCurrent
  <2>3. ASSUME NEW k \in DOMAIN frames
        PROVE  RemoteFor(remoteInputs', k) = RemoteFor(remoteInputs, k)
    BY <1>0, <2>1, <2>2, RemoteForConfirmed
  <2>4. ASSUME NEW k \in DOMAIN frames
        PROVE  /\ frames'[k].local = frames[k].local
               /\ frames'[k].remote_used = frames[k].remote_used
               /\ frames'[k].predicted_remote = ~HasExactRemote(remoteInputs', k)
    <3>1. frames[k] \in FrameRecord
      BY DEF TypeOK
    <3>2. DOMAIN remoteInputs' = DOMAIN remoteInputs \cup {f}
      BY <2>1 DEF Put
    <3>3. CASE k = f
      <4>1. frames'[k] = [frames[k] EXCEPT !.predicted_remote = FALSE]
        BY <2>1, <3>3
      <4>2. HasExactRemote(remoteInputs', k)
        BY <3>2, <3>3 DEF HasExactRemote
      <4> QED BY <3>1, <4>1, <4>2 DEF FrameRecord
    <3>4. CASE k # f
      <4>1. frames'[k] = frames[k]
        BY <2>1, <3>4
      <4>2. HasExactRemote(remoteInputs', k) <=> HasExactRemote(remoteInputs, k)
        BY <3>2, <3>4 DEF HasExactRemote
      <4> QED BY <4>1, <4>2 DEF UsedInputsCurrent
    <3> QED BY <3>3, <3>4
  <2>5. DOMAIN frames' = DOMAIN frames
    BY <2>1
  <2>6. LocalsRecorded'
    BY <2>1, <2>4, <2>5 DEF LocalsRecorded
  <2>7. UsedInputsCurrent'
    BY <2>3, <2>4, <2>5 DEF UsedInputsCurrent
  <2> QED BY <2>6, <2>7
<1>4. ASSUME NEW f \in Frames, NEW r \in Input, SubmitCorrects(f, r)
      PROVE  LocalsRecorded' /\ UsedInputsCurrent'
  <2> DEFINE inputs == Put(remoteInputs, f, r)
             st == ReplayStates(f, inputs)
  <2>1. /\ remoteInputs' = inputs
        /\ frames' = ReplayedFrames(f, inputs, st)
        /\ UNCHANGED locals
    BY <1>4 DEF SubmitCorrects
  <2>2. ASSUME NEW k \in DOMAIN frames, k \notin Replayed(f)
        PROVE  /\ RemoteFor(inputs, k) = RemoteFor(remoteInputs, k)
               /\ HasExactRemote(inputs, k) <=> HasExactRemote(remoteInputs, k)
    <3>1. k \in Nat /\ f \in Nat /\ k < f
      BY <1>0, <2>2 DEF Frames, Replayed
    <3> QED BY <1>0, <3>1, RemoteForBefore DEF HasExactRemote, Put
  <2> HIDE DEF inputs, st
  <2> QED BY <2>1, <2>2 DEF LocalsRecorded, UsedInputsCurrent, ReplayedFrames
<1>5. CASE UNCHANGED <<frames, remoteInputs, locals>>
  BY <1>5 DEF LocalsRecorded, UsedInputsCurrent
<1> QED BY <1>1, <1>2, <1>3, <1>4, <1>5, CallsMade
        DEF AdvanceFails, Abandon, SubmitAbandoned, SubmitRejected,
            SubmitRemoteHash, vars, session


-----------------------------------------------------------------------------
(* The authoritative run.                                                  *)

LEMMA InTimeSteps ==
  ASSUME NEW now \in Nat, NEW mine, NEW inputs
  PROVE  /\ InTime(now, mine, inputs)[0] = InitState
         /\ \A k \in 0 .. now - 1 : InTime(now, mine, inputs)[k + 1] =
              Step(InTime(now, mine, inputs)[k], mine[k], RemoteFor(inputs, k))
<1> DEFINE theirs == [k \in 0 .. now - 1 |-> RemoteFor(inputs, k)]
           r == Run(InitState, 0, now, mine, theirs)
<1>1. /\ r[0] = InitState
      /\ \A k \in 0 .. now - 1 : r[k + 1] = Step(r[k], mine[k], theirs[k])
  <2>1. 0 \in Nat /\ 0 <= now
    OBVIOUS
  <2> HIDE DEF theirs
  <2>2. ASSUME NEW f \in Nat, f <= now
        PROVE  LET q == Run(InitState, f, now, mine, theirs) IN
               /\ q[f] = InitState
               /\ \A k \in f .. now - 1 : q[k + 1] = Step(q[k], mine[k], theirs[k])
    BY <2>2, RunSteps
  <2> QED BY <2>1, <2>2
<1>2. InTime(now, mine, inputs) = r
  BY DEF InTime
<1> QED BY <1>1, <1>2

\* A function that starts in the initial state and follows Step with the
\* local inputs and the remote inputs of remote_for_frame is that run.
LEMMA InTimeUnique ==
  ASSUME NEW now \in Nat, NEW mine, NEW inputs, NEW g, NEW m \in 0 .. now,
         g[0] = InitState,
         \A k \in 0 .. m - 1 :
            g[k + 1] = Step(g[k], mine[k], RemoteFor(inputs, k))
  PROVE  \A k \in 0 .. m : g[k] = InTime(now, mine, inputs)[k]
<1> DEFINE theirs == [k \in 0 .. now - 1 |-> RemoteFor(inputs, k)]
<1>1. \A k \in 0 .. m - 1 : g[k + 1] = Step(g[k], mine[k], theirs[k])
  OBVIOUS
<1>2. InTime(now, mine, inputs) = Run(InitState, 0, now, mine, theirs)
  BY DEF InTime
<1> HIDE DEF theirs
<1>3. \A k \in 0 .. m : g[k] = Run(InitState, 0, now, mine, theirs)[k]
  <2>1. 0 \in Nat /\ 0 <= now
    OBVIOUS
  <2>2. ASSUME NEW f \in Nat, f <= now, m \in f .. now, g[f] = InitState,
               \A k \in f .. m - 1 : g[k + 1] = Step(g[k], mine[k], theirs[k])
        PROVE  \A k \in f .. m : g[k] = Run(InitState, f, now, mine, theirs)[k]
    BY <2>2, RunUnique
  <2> QED BY <1>1, <2>1, <2>2
<1> QED BY <1>2, <1>3

\* Two runs agree for as long as their inputs do.
LEMMA InTimeAgree ==
  ASSUME NEW now \in Nat, NEW later \in Nat, NEW m \in 0 .. now, m <= later,
         NEW mine, NEW mine2, NEW inputs, NEW inputs2,
         \A k \in 0 .. m - 1 : /\ mine2[k] = mine[k]
                               /\ RemoteFor(inputs2, k) = RemoteFor(inputs, k)
  PROVE  \A k \in 0 .. m : InTime(later, mine2, inputs2)[k]
                             = InTime(now, mine, inputs)[k]
<1> DEFINE g == InTime(now, mine, inputs)
<1>1. g[0] = InitState
  BY InTimeSteps
<1>2. \A k \in 0 .. m - 1 :
        g[k + 1] = Step(g[k], mine2[k], RemoteFor(inputs2, k))
  BY InTimeSteps
<1>3. m \in 0 .. later
  OBVIOUS
<1> HIDE DEF g
<1>4. \A k \in 0 .. m : g[k] = InTime(later, mine2, inputs2)[k]
  BY <1>1, <1>2, <1>3, InTimeUnique
<1> QED BY <1>4 DEF g

\* A step that keeps the frame, the local inputs and the remote inputs used
\* keeps the authoritative run.
LEMMA AuthoritativeKept ==
  ASSUME TypeOK, currentFrame' = currentFrame, locals' = locals,
         \A k \in 0 .. currentFrame - 1 :
            RemoteFor(remoteInputs', k) = RemoteFor(remoteInputs, k)
  PROVE  \A k \in 0 .. currentFrame : Authoritative'[k] = Authoritative[k]
<1>1. currentFrame \in Nat /\ currentFrame \in 0 .. currentFrame
  BY BoundAssumption DEF TypeOK, Frames
<1>2. \A k \in 0 .. currentFrame :
        InTime(currentFrame, locals, remoteInputs')[k]
          = InTime(currentFrame, locals, remoteInputs)[k]
  BY <1>1, InTimeAgree
<1> QED BY <1>2 DEF Authoritative

LEMMA AuthoritativeStep ==
  IInv /\ [Next]_vars
    => (SimAuthoritative /\ SnapshotsAuthoritative /\ HashesMatch)'
<1> DEFINE Good == SimAuthoritative /\ SnapshotsAuthoritative
                     /\ HashesMatch
<1> SUFFICES ASSUME IInv, [Next]_vars PROVE Good'
  OBVIOUS
<1>0. damagedFrom \in Nat /\ DOMAIN stateHashes = 0 .. currentFrame - 1
  BY BoundAssumption DEF IInv, TypeOK, Frames, NoFrame
<1>1. /\ currentFrame < damagedFrom => sim = Authoritative[currentFrame]
      /\ \A k \in DOMAIN frames :
            k < damagedFrom => frames[k].snapshot_before = Authoritative[k]
      /\ \A k \in 0 .. currentFrame - 1 :
            k < damagedFrom => stateHashes[k] = Hash(Authoritative[k + 1])
  BY <1>0 DEF IInv, SimAuthoritative, SnapshotsAuthoritative,
              HashesMatch
<1>2. /\ currentFrame \in Nat
      /\ DOMAIN frames \subseteq 0 .. currentFrame - 1
      /\ DOMAIN remoteInputs \subseteq Nat
      /\ DOMAIN stateHashes = 0 .. currentFrame - 1
  BY BoundAssumption DEF IInv, TypeOK, Frames, WindowExact
\* Steps that leave the simulation and the snapshots alone.
<1>3. ASSUME UNCHANGED <<currentFrame, stateHashes, locals>>,
             \A k \in Nat : k < damagedFrom' => k < damagedFrom,
             currentFrame < damagedFrom' => sim' = sim,
             DOMAIN frames' = DOMAIN frames,
             \A k \in DOMAIN frames :
                frames'[k].snapshot_before = frames[k].snapshot_before,
             \A k \in 0 .. currentFrame - 1 :
                RemoteFor(remoteInputs', k) = RemoteFor(remoteInputs, k)
      PROVE  Good'
  <2>1. \A k \in 0 .. currentFrame : Authoritative'[k] = Authoritative[k]
    BY <1>3, AuthoritativeKept DEF IInv
  <2>2. currentFrame' < damagedFrom' => sim' = Authoritative'[currentFrame']
    BY <1>1, <1>2, <1>3, <2>1
  <2>3. \A k \in DOMAIN frames' :
          k < damagedFrom' => frames'[k].snapshot_before = Authoritative'[k]
    BY <1>1, <1>2, <1>3, <2>1
  <2>4. \A k \in DOMAIN stateHashes' :
          k < damagedFrom' => stateHashes'[k] = Hash(Authoritative'[k + 1])
    BY <1>1, <1>2, <1>3, <2>1
  <2> QED BY <2>2, <2>3, <2>4
          DEF SimAuthoritative, SnapshotsAuthoritative, HashesMatch
<1>4. ASSUME NEW local \in Input, Advance(local) PROVE Good'
  <2> DEFINE now == currentFrame
             remote == RemoteFor(remoteInputs, now)
             record == [snapshot_before |-> sim, local |-> local,
                        remote_used |-> remote,
                        predicted_remote |-> ~HasExactRemote(remoteInputs, now)]
             B == InTime(now + 1, Put(locals, now, local), remoteInputs)
  <2>1. /\ sim' = Step(sim, local, remote)
        /\ stateHashes' = Put(stateHashes, now, Hash(sim'))
        /\ currentFrame' = now + 1
        /\ frames' = Prune(Put(frames, now, record), now + 1)
        /\ locals' = Put(locals, now, local)
        /\ UNCHANGED <<remoteInputs, damagedFrom>>
    BY <1>4 DEF Advance
  <2>2. \A k \in 0 .. now - 1 : Put(locals, now, local)[k] = locals[k]
    BY <1>2 DEF Put, IInv, TypeOK
  <2>3. \A k \in 0 .. now : B[k] = Authoritative[k]
    <3>1. now \in 0 .. now /\ now + 1 \in Nat /\ now <= now + 1
      BY <1>2
    <3> QED BY <1>2, <2>2, <3>1, InTimeAgree DEF Authoritative
  <2>4. B[now + 1] = Step(B[now], local, remote)
    <3>1. now \in 0 .. (now + 1) - 1 /\ now + 1 \in Nat
      BY <1>2
    <3>2. Put(locals, now, local)[now] = local
      BY DEF Put
    <3> HIDE DEF now
    <3> QED BY <3>1, <3>2, InTimeSteps
  <2>5. Authoritative' = B
    BY <2>1 DEF Authoritative
  <2> HIDE DEF B, record
  <2>6. now < damagedFrom => sim' = Authoritative'[currentFrame']
    BY <1>1, <1>2, <2>1, <2>3, <2>4, <2>5
  <2>7. ASSUME NEW k \in DOMAIN frames', k < damagedFrom
        PROVE  frames'[k].snapshot_before = Authoritative'[k]
    <3>1. k \in DOMAIN frames \cup {now}
      BY <2>1 DEF Prune, Put
    <3>2. CASE k = now
      <4>1. frames'[k] = record
        BY <2>1, <3>2 DEF Prune, Put
      <4> QED BY <1>1, <1>2, <2>3, <2>5, <2>7, <3>2, <4>1 DEF record
    <3>3. CASE k \in DOMAIN frames
      <4>1. frames'[k] = frames[k] /\ k \in 0 .. now
        BY <1>2, <2>1, <3>3 DEF Prune, Put
      <4> QED BY <1>1, <2>3, <2>5, <2>7, <3>3, <4>1
    <3> QED BY <3>1, <3>2, <3>3
  <2>8. ASSUME NEW k \in DOMAIN stateHashes', k < damagedFrom
        PROVE  stateHashes'[k] = Hash(Authoritative'[k + 1])
    <3>1. k \in 0 .. now
      BY <1>2, <2>1 DEF Put
    <3>2. CASE k = now
      BY <2>1, <2>6, <2>8, <3>2 DEF Put
    <3>3. CASE k # now
      <4>1. k \in 0 .. now - 1 /\ k + 1 \in 0 .. now /\ stateHashes'[k] = stateHashes[k]
        BY <1>2, <2>1, <3>1, <3>3 DEF Put
      <4> QED BY <1>1, <2>3, <2>5, <2>8, <4>1
    <3> QED BY <3>2, <3>3
  <2>9. currentFrame' < damagedFrom' => now < damagedFrom
    BY <1>0, <1>2, <2>1
  <2> QED BY <2>1, <2>6, <2>7, <2>8, <2>9
          DEF SimAuthoritative, SnapshotsAuthoritative, HashesMatch
<1>5. ASSUME NEW f \in Frames, NEW r \in Input, SubmitEarly(f, r) PROVE Good'
  <2>1. /\ remoteInputs' = Put(remoteInputs, f, r) /\ f >= currentFrame
        /\ UNCHANGED <<sim, currentFrame, frames, stateHashes, locals, damagedFrom>>
    BY <1>5 DEF SubmitEarly
  <2>2. ASSUME NEW k \in 0 .. currentFrame - 1
        PROVE  RemoteFor(remoteInputs', k) = RemoteFor(remoteInputs, k)
    <3>1. k \in Nat /\ f \in Nat /\ k < f
      BY <1>2, <2>1 DEF Frames
    <3> QED BY <1>2, <2>1, <3>1, RemoteForBefore
  <2> QED BY <1>3, <2>1, <2>2
<1>6. ASSUME NEW f \in Frames, NEW r \in Input, SubmitConfirms(f, r) PROVE Good'
  <2>1. /\ remoteInputs' = Put(remoteInputs, f, r)
        /\ frames' = [frames EXCEPT ![f].predicted_remote = FALSE]
        /\ f \in DOMAIN frames /\ r = frames[f].remote_used
        /\ UNCHANGED <<sim, currentFrame, stateHashes, locals, damagedFrom>>
    BY <1>6 DEF SubmitConfirms, Correctable
  <2>2. r = RemoteFor(remoteInputs, f)
    BY <2>1 DEF IInv, UsedInputsCurrent
  <2>3. ASSUME NEW k \in 0 .. currentFrame - 1
        PROVE  RemoteFor(remoteInputs', k) = RemoteFor(remoteInputs, k)
    BY <1>2, <2>1, <2>2, RemoteForConfirmed
  <2>4. /\ DOMAIN frames' = DOMAIN frames
        /\ \A k \in DOMAIN frames :
              frames'[k].snapshot_before = frames[k].snapshot_before
    BY <2>1 DEF IInv, TypeOK, FrameRecord
  <2> QED BY <1>3, <2>1, <2>3, <2>4
<1>7. ASSUME NEW f \in Frames, NEW r \in Input, SubmitCorrects(f, r) PROVE Good'
  <2> DEFINE now == currentFrame
             inputs == Put(remoteInputs, f, r)
             st == ReplayStates(f, inputs)
             A == Authoritative
             B == InTime(now, locals, inputs)
  <2>1. /\ Correctable(f) /\ HistoryComplete(f)
        /\ remoteInputs' = inputs
        /\ sim' = st[currentFrame]
        /\ frames' = ReplayedFrames(f, inputs, st)
        /\ stateHashes' = ReplayedHashes(f, st)
        /\ damagedFrom' = Healed(f)
        /\ UNCHANGED <<currentFrame, locals>>
    BY <1>7 DEF SubmitCorrects
  <2>2. f \in Nat /\ f < now /\ f \in DOMAIN frames
    BY <1>2, <2>1 DEF Correctable, Frames
  <2>3. /\ DOMAIN inputs \subseteq Nat
        /\ \A k \in DOMAIN inputs : inputs[k] \in Input
    BY <1>2, <2>2 DEF Put, IInv, TypeOK
  <2>4. \A k \in 0 .. f - 1 : RemoteFor(inputs, k) = RemoteFor(remoteInputs, k)
    BY <1>2, <2>2, RemoteForBefore
  <2>5. /\ f < damagedFrom => st[f] = A[f]
        /\ \A k \in f .. now - 1 :
              st[k + 1] = Step(st[k], locals[k], RemoteFor(inputs, k))
    <3>1. /\ st[f] = frames[f].snapshot_before
          /\ \A k \in Replayed(f) :
              st[k + 1] = Step(st[k], frames[k].local, RemoteFor(inputs, k))
      <4> HIDE DEF inputs
      <4> QED BY <2>1, <2>3, ReplayFact DEF IInv
    <3>2. \A k \in Replayed(f) : frames[k].local = locals[k]
      BY <2>1 DEF HistoryComplete, IInv, LocalsRecorded
    <3> HIDE DEF inputs, st
    <3> QED BY <1>1, <2>2, <3>1, <3>2 DEF Replayed
  <2> HIDE DEF inputs, st
  <2>6. /\ A[0] = InitState
        /\ \A k \in 0 .. f - 1 :
              A[k + 1] = Step(A[k], locals[k], RemoteFor(inputs, k))
    <3>1. /\ A[0] = InitState
          /\ \A k \in 0 .. now - 1 :
              A[k + 1] = Step(A[k], locals[k], RemoteFor(remoteInputs, k))
      BY <1>2, InTimeSteps DEF Authoritative
    <3> HIDE DEF A
    <3> QED BY <1>2, <2>2, <2>4, <3>1
  <2> HIDE DEF A
  <2>12. \A k \in 0 .. f : A[k] = B[k]
    <3>1. f \in 0 .. now
      BY <1>2, <2>2
    <3>2. A[0] = InitState
          /\ \A k \in 0 .. f - 1 : A[k + 1] = Step(A[k], locals[k], RemoteFor(inputs, k))
      BY <2>6
    <3> HIDE DEF B
    <3> QED BY <1>2, <3>1, <3>2, InTimeUnique DEF B
  <2>7. ASSUME f < damagedFrom PROVE \A k \in f .. now : st[k] = B[k]
    <3> DEFINE g == [k \in 0 .. now |-> IF k < f THEN A[k] ELSE st[k]]
    <3>1. g[0] = InitState
      BY <1>2, <2>2, <2>5, <2>6, <2>7
    <3>2. ASSUME NEW k \in 0 .. now - 1
          PROVE  g[k + 1] = Step(g[k], locals[k], RemoteFor(inputs, k))
      <4>1. CASE k + 1 < f
        BY <1>2, <2>2, <2>6, <4>1
      <4>2. CASE k + 1 = f
        <5>1. g[k + 1] = A[k + 1] /\ g[k] = A[k]
          BY <1>2, <2>2, <2>5, <2>7, <4>2
        <5> HIDE DEF g
        <5> QED BY <1>2, <2>2, <2>6, <4>2, <5>1
      <4>3. CASE k >= f
        BY <1>2, <2>2, <2>5, <4>3
      <4> QED BY <1>2, <2>2, <4>1, <4>2, <4>3
    <3>3. now \in 0 .. now
      BY <1>2
    <3>4. \A k \in 0 .. now : g[k] = B[k]
      <4> HIDE DEF g
      <4> QED BY <1>2, <3>1, <3>2, <3>3, InTimeUnique
    <3>5. \A k \in f .. now : g[k] = st[k]
      BY <1>2, <2>2
    <3>6. \A k \in 0 .. f : g[k] = A[k]
      BY <1>2, <2>2, <2>5, <2>7
    <3> HIDE DEF g, B
    <3> QED BY <1>2, <2>2, <3>4, <3>5, <3>6
  <2>8. Authoritative' = B
    BY <2>1 DEF Authoritative
  <2> HIDE DEF B
  <2>13. damagedFrom' = IF f < damagedFrom THEN NoFrame ELSE damagedFrom
    BY <2>1 DEF Healed
  <2>9. ASSUME currentFrame' < damagedFrom'
        PROVE  sim' = Authoritative'[currentFrame']
    <3>1. f < damagedFrom
      BY <1>0, <1>2, <2>1, <2>2, <2>9, <2>13
    <3> QED BY <1>2, <2>1, <2>2, <2>7, <2>8, <3>1
  <2>10. ASSUME NEW k \in DOMAIN frames', k < damagedFrom'
         PROVE  frames'[k].snapshot_before = Authoritative'[k]
    <3>1. CASE k \in Replayed(f)
      <4>1. f < damagedFrom /\ k \in f .. now /\ k \in DOMAIN frames
        BY <1>0, <1>2, <2>1, <2>2, <2>10, <2>13, <3>1 DEF Replayed, ReplayedFrames
      <4>2. frames'[k].snapshot_before = st[k]
        BY <2>1, <3>1, <4>1 DEF ReplayedFrames
      <4> QED BY <2>7, <2>8, <4>1, <4>2
    <3>2. CASE k \notin Replayed(f)
      <4>1. frames'[k] = frames[k] /\ k \in DOMAIN frames /\ k \in 0 .. f
            /\ k < f
        BY <1>2, <2>1, <2>2, <3>2 DEF Replayed, ReplayedFrames
      <4>2. k < damagedFrom
        BY <1>0, <1>2, <2>2, <2>10, <2>13, <4>1
      <4> QED BY <1>1, <2>8, <2>12, <4>1, <4>2 DEF A
    <3> QED BY <3>1, <3>2
  <2>11. ASSUME NEW k \in DOMAIN stateHashes', k < damagedFrom'
         PROVE  stateHashes'[k] = Hash(Authoritative'[k + 1])
    <3>1. CASE k \in Replayed(f)
      <4>1. stateHashes'[k] = Hash(st[k + 1]) /\ k + 1 \in f .. now
        BY <1>2, <2>1, <2>2, <3>1 DEF Replayed, ReplayedHashes
      <4>2. f < damagedFrom
        BY <1>0, <1>2, <2>2, <2>11, <2>13, <3>1 DEF Replayed
      <4> QED BY <2>7, <2>8, <4>1, <4>2
    <3>2. CASE k \notin Replayed(f)
      <4>1. /\ stateHashes'[k] = stateHashes[k] /\ k \in 0 .. now - 1
            /\ k + 1 \in 0 .. f /\ k < f
        BY <1>2, <2>1, <2>2, <3>2 DEF Replayed, ReplayedHashes
      <4>2. k < damagedFrom
        BY <1>0, <1>2, <2>2, <2>11, <2>13, <4>1
      <4> QED BY <1>1, <2>8, <2>12, <4>1, <4>2 DEF A
    <3> QED BY <3>1, <3>2
  <2> QED BY <2>9, <2>10, <2>11
          DEF SimAuthoritative, SnapshotsAuthoritative, HashesMatch
<1>8. ASSUME UNCHANGED <<sim, currentFrame, frames, remoteInputs, stateHashes,
                         locals, damagedFrom>>
      PROVE  Good'
  BY <1>3, <1>8
<1>9. ASSUME NEW left, Abandon(left) PROVE Good'
  <2>1. UNCHANGED <<currentFrame, frames, remoteInputs, stateHashes, locals>>
    BY <1>9 DEF Abandon, session
  <2>2. CASE UNCHANGED <<sim, damagedFrom>>
    BY <1>8, <2>1, <2>2
  <2>3. CASE damagedFrom' = Earlier(damagedFrom, currentFrame)
    <3>1. \A k \in Nat : k < damagedFrom' => k < damagedFrom /\ k < currentFrame
      BY <1>0, <1>2, <2>3 DEF Earlier
    <3> QED BY <1>2, <1>3, <2>1, <3>1
  <2> QED BY <1>9, <2>2, <2>3 DEF Abandon
<1>10. ASSUME \/ \E f \in Frames : SubmitRejected(f)
              \/ \E f \in ReportedFrames, text \in ReportedText : SubmitRemoteHash(f, text)
              \/ UNCHANGED vars
       PROVE  Good'
  BY <1>8, <1>10 DEF SubmitRejected, SubmitRemoteHash, vars, session
<1> QED BY <1>4, <1>5, <1>6, <1>7, <1>9, <1>10, CallsMade
        DEF IInv, AdvanceFails, SubmitAbandoned

-----------------------------------------------------------------------------
LEMMA IInvInit == Init => IInv
<1> SUFFICES ASSUME Init PROVE IInv
  OBVIOUS
<1>1. TypeOK
  BY TypeInit
<1>2. currentFrame = 0 /\ DOMAIN frames = {} /\ DOMAIN stateHashes = {}
  BY DEF Init, Empty
<1>3. WindowExact
  BY <1>2, BoundAssumption DEF WindowExact
<1>4. sim = Authoritative[0]
  BY <1>2, InTimeSteps DEF Init, Authoritative
<1> QED BY <1>1, <1>2, <1>3, <1>4
        DEF IInv, LocalsRecorded, UsedInputsCurrent, SimAuthoritative,
            SnapshotsAuthoritative, HashesMatch

LEMMA IInvStep == IInv /\ [Next]_vars => IInv'
BY TypeStep, WindowStep, RecordsStep, AuthoritativeStep DEF IInv

THEOREM Invariance == Spec => []IInv
BY IInvInit, IInvStep, PTL DEF Spec

\* The retained history is exactly the rollback window: the errors for a
\* missing snapshot and for an incomplete history are dead code.
THEOREM WindowIsExact == Spec => []WindowExact
BY Invariance, PTL DEF IInv

\* Late, repeated and reordered inputs within the window leave the simulation
\* in the state it would have, had it known them in time.
THEOREM RollbackIsTransparent == Spec => []MatchesAuthoritativeRun
<1>1. IInv => MatchesAuthoritativeRun
  BY DEF IInv, MatchesAuthoritativeRun
<1> QED BY <1>1, Invariance, PTL

\* So does every hash the session publishes.
THEOREM HashesAreAuthoritative == Spec => []HashesAuthoritative
<1>1. IInv => HashesAuthoritative
  BY DEF IInv, HashesAuthoritative
<1> QED BY <1>1, Invariance, PTL


-----------------------------------------------------------------------------
(* Desync detection and settled frames.                                    *)

\* desync_frame_ is a function of the two hash maps at all times: every call
\* that changes either of them recomputes it.
DesyncCurrent == desyncFrame = Desync(stateHashes, remoteHashes)

LEMMA DesyncCurrentStep == DesyncCurrent /\ [Next]_vars => DesyncCurrent'
BY DEF DesyncCurrent, Next, Advance, AdvanceFails, Abandon, SubmitEarly,
       SubmitConfirms, SubmitCorrects, SubmitAbandoned, SubmitRejected,
       SubmitRemoteHash, vars, session

LEMMA DesyncCurrentInit == Init => DesyncCurrent
BY DEF Init, DesyncCurrent, Desync, Differing, Empty

LEMMA DesyncCurrentEarliest == TypeOK /\ DesyncCurrent => EarliestReported
<1> SUFFICES ASSUME TypeOK, DesyncCurrent PROVE EarliestReported
  OBVIOUS
<1>1. DOMAIN stateHashes \subseteq Nat
  BY BoundAssumption DEF TypeOK, Frames
<1> QED BY <1>1, DesyncFact DEF EarliestReported, DesyncCurrent

LEMMA EarliestInvariant == Spec => []EarliestReported
<1>1. Spec => []DesyncCurrent
  BY DesyncCurrentInit, DesyncCurrentStep, PTL DEF Spec
<1> QED BY <1>1, TypeCorrect, DesyncCurrentEarliest, PTL

\* desync_frame() always names the earliest disagreement between the hashes
\* known now, and nothing when there is none.
THEOREM DesyncReported == Spec => []DesyncIsEarliest
<1>1. EarliestReported => DesyncIsEarliest
  BY DEF DesyncIsEarliest
<1> QED BY <1>1, EarliestInvariant, PTL

\* No step touches the hash of a frame that has left the window.
LEMMA SettledStep ==
  IInv /\ [Next]_vars
    => \A k \in DOMAIN stateHashes :
          currentFrame - k > MaxRollback => stateHashes'[k] = stateHashes[k]
<1> SUFFICES ASSUME IInv, [Next]_vars, NEW k \in DOMAIN stateHashes,
                    currentFrame - k > MaxRollback
             PROVE  stateHashes'[k] = stateHashes[k]
  OBVIOUS
<1>0. k \in Nat /\ k < currentFrame /\ currentFrame \in Nat
  BY BoundAssumption DEF IInv, TypeOK, Frames
<1>1. ASSUME NEW local \in Input, Advance(local)
      PROVE  stateHashes'[k] = stateHashes[k]
  BY <1>0, <1>1 DEF Advance, Put
<1>2. ASSUME NEW f \in Frames, NEW r \in Input, SubmitCorrects(f, r)
      PROVE  stateHashes'[k] = stateHashes[k]
  <2>1. f \in Nat /\ currentFrame - f <= MaxRollback
    BY <1>2 DEF SubmitCorrects, Correctable, Frames
  <2>2. k \notin Replayed(f)
    BY <1>0, <2>1, BoundAssumption DEF Replayed
  <2> QED BY <1>2, <2>2 DEF SubmitCorrects, ReplayedHashes
<1> QED BY <1>1, <1>2, CallsMade
        DEF IInv, AdvanceFails, Abandon, SubmitEarly, SubmitConfirms,
            SubmitAbandoned, SubmitRejected, SubmitRemoteHash, vars, session

\* A hash outside the window is final: a report compared with it once is
\* never contradicted by a later correction.
THEOREM SettledHashesStay == Spec => SettledHashesFixed
BY Invariance, SettledStep, PTL DEF Spec, SettledHashesFixed

-----------------------------------------------------------------------------
(* What a session and its peer agree on.                                   *)

\* h is the match before each of the frames 0 .. n, as it was played: every frame
\* with the inputs both sides gave for it, none of them a guess.  It is what the
\* other session, where the two sides are exchanged, computes as well.
Played(h, n) ==
    /\ h[0] = InitState
    /\ \A k \in 0 .. n - 1 :
        k \in DOMAIN remoteInputs /\ h[k + 1] = Step(h[k], locals[k], remoteInputs[k])

\* Once the inputs of n frames are here, in whatever order they came, and no load
\* that undid a failed call failed before, the session
\* has the hashes of the match, and a desync before frame n is reported exactly if
\* the other session reported another hash than the match has.
DesyncsReal ==
    \A n \in 0 .. currentFrame : \A h \in [0 .. n -> SimState] :
      n < damagedFrom /\ Played(h, n) =>
        /\ n = currentFrame => sim = h[n]
        /\ \A k \in 0 .. n - 1 : stateHashes[k] = Hash(h[k + 1])
        /\ desyncFrame < n <=>
            \E k \in DOMAIN remoteHashes : k < n /\ remoteHashes[k] # Hash(h[k + 1])

LEMMA ExactRemote ==
  ASSUME NEW inputs, DOMAIN inputs \subseteq Nat, NEW k \in DOMAIN inputs
  PROVE  RemoteFor(inputs, k) = inputs[k]
<1>1. k \in Nat /\ k \in Known(inputs, k) /\ \A j \in Known(inputs, k) : j <= k
  BY DEF Known
<1> QED BY <1>1, LatestKnownUnique

LEMMA MatchPlayed == IInv /\ EarliestReported => DesyncsReal
<1> SUFFICES ASSUME IInv, EarliestReported, NEW n \in 0 .. currentFrame,
                    NEW h \in [0 .. n -> SimState], n < damagedFrom, Played(h, n)
             PROVE  /\ n = currentFrame => sim = h[n]
                    /\ \A k \in 0 .. n - 1 : stateHashes[k] = Hash(h[k + 1])
                    /\ desyncFrame < n <=>
                        \E k \in DOMAIN remoteHashes : k < n /\ remoteHashes[k] # Hash(h[k + 1])
  BY DEF DesyncsReal
<1>1. currentFrame \in Nat /\ currentFrame <= MaxFrame /\ n \in Nat
      /\ DOMAIN remoteInputs \subseteq Nat /\ DOMAIN remoteHashes \subseteq Nat
      /\ DOMAIN stateHashes = 0 .. currentFrame - 1 /\ damagedFrom \in Nat
  BY BoundAssumption DEF IInv, TypeOK, Frames, NoFrame
<1>2. h[0] = InitState
      /\ \A k \in 0 .. n - 1 : h[k + 1] = Step(h[k], locals[k], RemoteFor(remoteInputs, k))
  BY <1>1, ExactRemote DEF Played
<1>3. \A k \in 0 .. n : h[k] = Authoritative[k]
  <2> DEFINE now == currentFrame
             mine == locals
             theirs == remoteInputs
             g == h
  <2>1. /\ now \in Nat /\ n \in 0 .. now /\ g[0] = InitState
        /\ \A k \in 0 .. n - 1 : g[k + 1] = Step(g[k], mine[k], RemoteFor(theirs, k))
    BY <1>1, <1>2
  <2>2. Authoritative = InTime(now, mine, theirs)
    BY DEF Authoritative
  <2> HIDE DEF now, mine, theirs, g
  <2>3. \A k \in 0 .. n : g[k] = InTime(now, mine, theirs)[k]
    BY ONLY <2>1, InTimeUnique, Z3T(60)
  <2> QED BY <2>2, <2>3 DEF g
<1>4. n = currentFrame => sim = h[n]
  BY <1>1, <1>3 DEF IInv, SimAuthoritative
<1>5. \A k \in 0 .. n - 1 : stateHashes[k] = Hash(h[k + 1])
  BY <1>1, <1>3 DEF IInv, HashesMatch
<1>6. \A k \in 0 .. n - 1 : k \in Differing(stateHashes, remoteHashes)
                            <=> k \in DOMAIN remoteHashes /\ remoteHashes[k] # Hash(h[k + 1])
  BY <1>1, <1>5 DEF Differing
<1>7. Differing(stateHashes, remoteHashes) \subseteq Nat
  BY <1>1 DEF Differing
<1>8. CASE Differing(stateHashes, remoteHashes) = {}
  <2>1. desyncFrame >= n /\ desyncFrame \in Nat
    BY <1>1, <1>8, BoundAssumption DEF EarliestReported, NoFrame
  <2> QED BY <1>1, <1>4, <1>5, <1>6, <1>8, <2>1
<1>9. CASE Differing(stateHashes, remoteHashes) # {}
  <2>1. /\ desyncFrame \in Differing(stateHashes, remoteHashes) /\ desyncFrame \in Nat
        /\ \A k \in Differing(stateHashes, remoteHashes) : desyncFrame <= k
    BY <1>7, <1>9 DEF EarliestReported
  <2>2. ASSUME desyncFrame < n
        PROVE  \E k \in DOMAIN remoteHashes : k < n /\ remoteHashes[k] # Hash(h[k + 1])
    BY <1>1, <1>6, <2>1, <2>2
  <2>3. ASSUME NEW k \in DOMAIN remoteHashes, k < n, remoteHashes[k] # Hash(h[k + 1])
        PROVE  desyncFrame < n
    BY <1>1, <1>6, <2>1, <2>3
  <2> QED BY <1>4, <1>5, <2>2, <2>3
<1> QED BY <1>8, <1>9

\* Two sessions that have each other's inputs are in one match: their hashes are
\* the same, and no desync is reported but a real one.
THEOREM DesyncsAreReal == Spec => []DesyncsReal
BY Invariance, EarliestInvariant, MatchPlayed, PTL

-----------------------------------------------------------------------------
(* Corrections, taken apart.                                               *)

\* The states the correction under way passes through, from the copied records.
Passed ==
    Run(call.saved.frames[call.frame].snapshot_before, call.frame, currentFrame,
        [k \in Replayed(call.frame) |-> call.saved.frames[k].local],
        [k \in Replayed(call.frame) |-> RemoteFor(remoteInputs, k)])

\* The frames it has replayed.
Done == call.frame .. call.next - 1

\* The members that are rewritten key by key are maps.
IsMap(map) == map = [k \in DOMAIN map |-> map[k]]

AreMaps == IsMap(frames) /\ IsMap(stateHashes)

\* What a correction knows of itself between two steps: the copies are of a
\* correctable state, everything but the records and hashes it has replayed is
\* as copied, and the simulation is in the state the replay has come to.
CorrectionInv ==
    /\ call = [stage |-> call.stage, frame |-> call.frame, remote |-> call.remote,
               next |-> call.next, saved |-> call.saved]
    /\ call.stage \in {"loading", "replaying"}
    /\ call.frame \in Frames /\ call.remote \in Input
    /\ call.frame < currentFrame
    /\ currentFrame - call.frame <= MaxRollback
    /\ call.frame \in DOMAIN call.saved.frames
    /\ call.saved.frames[call.frame].remote_used # call.remote
    /\ IsMap(call.saved.frames) /\ IsMap(call.saved.stateHashes)
    /\ call.next \in call.frame .. currentFrame
    /\ Done \subseteq DOMAIN call.saved.frames
    /\ remoteInputs = Put(call.saved.remoteInputs, call.frame, call.remote)
    /\ desyncFrame = call.saved.desyncFrame /\ telemetry = call.saved.telemetry
    /\ frames = [k \in DOMAIN call.saved.frames |->
                    IF k \in Done
                    THEN [snapshot_before |-> Passed[k],
                          local |-> call.saved.frames[k].local,
                          remote_used |-> RemoteFor(remoteInputs, k),
                          predicted_remote |-> ~HasExactRemote(remoteInputs, k)]
                    ELSE call.saved.frames[k]]
    /\ stateHashes = [k \in DOMAIN call.saved.stateHashes \cup Done |->
                        IF k \in Done THEN Hash(Passed[k + 1])
                        ELSE call.saved.stateHashes[k]]
    /\ call.stage = "loading" => call.next = call.frame /\ sim = call.saved.sim
    /\ call.stage = "replaying" => sim = Passed[call.next]

CallInv == currentFrame \in Frames /\ AreMaps /\ (call # Idle => CorrectionInv)

LEMMA CallInvInit == CallsInit => CallInv
BY BoundAssumption DEF CallsInit, Init, CallInv, AreMaps, IsMap, Frames, Idle, Empty

LEMMA StageNotIdle == Idle.stage = "idle"
BY DEF Idle

\* The states passed start at the copied snapshot and follow Step.
LEMMA PassedFact ==
  ASSUME CallInv, call # Idle
  PROVE  /\ Passed[call.frame] = call.saved.frames[call.frame].snapshot_before
         /\ \A k \in call.frame .. currentFrame - 1 :
              Passed[k + 1] = Step(Passed[k], call.saved.frames[k].local,
                                   RemoteFor(remoteInputs, k))
<1> DEFINE mine == [k \in Replayed(call.frame) |-> call.saved.frames[k].local]
           theirs == [k \in Replayed(call.frame) |-> RemoteFor(remoteInputs, k)]
           s == call.saved.frames[call.frame].snapshot_before
           f == call.frame
<1>1. f \in Nat /\ currentFrame \in Nat /\ f <= currentFrame
  BY BoundAssumption DEF CallInv, CorrectionInv, Frames
<1>2. Passed = Run(s, f, currentFrame, mine, theirs)
  BY DEF Passed
<1>3. \A k \in f .. currentFrame - 1 :
        mine[k] = call.saved.frames[k].local /\ theirs[k] = RemoteFor(remoteInputs, k)
  BY DEF Replayed
<1> HIDE DEF mine, theirs, s, f
<1>4. /\ Passed[f] = s
      /\ \A k \in f .. currentFrame - 1 : Passed[k + 1] = Step(Passed[k], mine[k], theirs[k])
  <2> DEFINE r == Run(s, f, currentFrame, mine, theirs)
  <2>1. /\ r[f] = s
        /\ \A k \in f .. currentFrame - 1 : r[k + 1] = Step(r[k], mine[k], theirs[k])
    BY <1>1, RunSteps
  <2> QED BY <1>2, <2>1
<1> QED BY <1>3, <1>4 DEF s, f

\* The states passed depend on the copies and the stored inputs only.
LEMMA PassedKept ==
  ASSUME UNCHANGED <<currentFrame, remoteInputs>>, call'.saved = call.saved,
         call'.frame = call.frame
  PROVE  Passed' = Passed
BY DEF Passed, Replayed

LEMMA CallInvBegin ==
  ASSUME CallInv, NEW f \in Frames, NEW r \in Input, Begin(f, r)
  PROVE  CallInv'
<1>1. call'.stage = "loading" /\ call'.frame = f /\ call'.remote = r
      /\ call'.next = f /\ call'.saved = Copies
  BY DEF Begin
<1>2. f \in Nat /\ currentFrame \in Nat /\ f < currentFrame
  BY BoundAssumption DEF CallInv, Begin, Correctable, Frames
<1>3. Done' = {} /\ call'.next \in f .. currentFrame
  BY <1>1, <1>2 DEF Done
<1>4. /\ frames = [k \in DOMAIN frames |-> frames[k]]
      /\ stateHashes = [k \in DOMAIN stateHashes |-> stateHashes[k]]
  BY DEF CallInv, AreMaps, IsMap
<1>5. /\ Copies.sim = sim /\ Copies.frames = frames
      /\ Copies.remoteInputs = remoteInputs /\ Copies.stateHashes = stateHashes
      /\ Copies.desyncFrame = desyncFrame /\ Copies.telemetry = telemetry
  BY DEF Copies
<1>6. /\ UNCHANGED <<sim, currentFrame, frames, stateHashes, desyncFrame, telemetry>>
      /\ remoteInputs' = Put(remoteInputs, f, r)
      /\ currentFrame - f <= MaxRollback /\ f \in DOMAIN frames
      /\ frames[f].remote_used # r
  BY DEF Begin, Correctable
<1>7. CorrectionInv'
  <2> DEFINE c == call'
  <2>1. c = [stage |-> c.stage, frame |-> c.frame, remote |-> c.remote,
             next |-> c.next, saved |-> c.saved]
    BY <1>1 DEF Begin
  <2>2. frames' = [k \in DOMAIN c.saved.frames |->
                    IF k \in Done'
                    THEN [snapshot_before |-> Passed'[k],
                          local |-> c.saved.frames[k].local,
                          remote_used |-> RemoteFor(remoteInputs', k),
                          predicted_remote |-> ~HasExactRemote(remoteInputs', k)]
                    ELSE c.saved.frames[k]]
    BY <1>1, <1>3, <1>4, <1>5, <1>6
  <2>3. stateHashes' = [k \in DOMAIN c.saved.stateHashes \cup Done' |->
                        IF k \in Done' THEN Hash(Passed'[k + 1])
                        ELSE c.saved.stateHashes[k]]
    BY <1>1, <1>3, <1>4, <1>5, <1>6
  <2>4. IsMap(c.saved.frames) /\ IsMap(c.saved.stateHashes)
    BY <1>1, <1>4, <1>5 DEF IsMap
  <2> HIDE DEF c
  <2>5. /\ c.stage = "loading" /\ c.frame = f /\ c.remote = r /\ c.next = f
        /\ c.saved = Copies
    BY <1>1 DEF c
  <2> QED BY <1>2, <1>3, <1>5, <1>6, <2>1, <2>2, <2>3, <2>4, <2>5
          DEF CorrectionInv, HasExactRemote, c
<1> QED BY <1>6, <1>7 DEF CallInv, AreMaps

LEMMA CallInvLoad ==
  ASSUME CallInv, Load
  PROVE  CallInv'
<1>1. call # Idle /\ call.stage = "loading"
  BY DEF Load, Idle
<1>2. CorrectionInv
  BY <1>1 DEF CallInv
<1>3. /\ call'.stage = "replaying" /\ call'.frame = call.frame
      /\ call'.remote = call.remote /\ call'.next = call.next
      /\ call'.saved = call.saved
      /\ call' = [stage |-> "replaying", frame |-> call.frame, remote |-> call.remote,
                  next |-> call.next, saved |-> call.saved]
  <2>1. call' = [call EXCEPT !.stage = "replaying"]
    BY DEF Load
  <2> DEFINE s == call.stage  f == call.frame  r == call.remote  n == call.next
             v == call.saved
  <2>2. call = [stage |-> s, frame |-> f, remote |-> r, next |-> n, saved |-> v]
    BY <1>2 DEF CorrectionInv
  <2> HIDE DEF s, f, r, n, v
  <2>3. call' = [stage |-> "replaying", frame |-> f, remote |-> r, next |-> n, saved |-> v]
    BY <2>1, <2>2
  <2> QED BY <2>3 DEF f, r, n, v
<1>4. UNCHANGED <<currentFrame, frames, remoteInputs, stateHashes, desyncFrame, telemetry>>
  BY DEF Load, session
<1>5. Passed' = Passed /\ Done' = Done
  BY <1>3, <1>4, PassedKept DEF Done
<1>6. call.frame \in Nat /\ call.next = call.frame /\ Done = {}
  BY <1>1, <1>2, BoundAssumption DEF CorrectionInv, Done, Frames
<1>7. sim' = Passed[call.frame]
  <2>1. sim' = frames[call.frame].snapshot_before
    BY DEF Load
  <2>2. frames[call.frame] = call.saved.frames[call.frame]
    BY <1>2, <1>6 DEF CorrectionInv
  <2> QED BY <1>1, <2>1, <2>2, PassedFact
<1>8. CorrectionInv'
  BY <1>2, <1>3, <1>4, <1>5, <1>6, <1>7 DEF CorrectionInv, HasExactRemote
<1> QED BY <1>4, <1>8 DEF CallInv, AreMaps

LEMMA CallInvReplay ==
  ASSUME CallInv, ReplayFrame
  PROVE  CallInv'
<1> DEFINE now == call.next
           remote == RemoteFor(remoteInputs, now)
           record == [snapshot_before |-> sim, local |-> frames[now].local,
                      remote_used |-> remote,
                      predicted_remote |-> ~HasExactRemote(remoteInputs, now)]
<1>1. /\ call # Idle /\ call.stage = "replaying" /\ now < currentFrame
      /\ now \in DOMAIN frames
      /\ frames' = [frames EXCEPT ![now] = record]
      /\ sim' = Step(sim, frames[now].local, remote)
      /\ stateHashes' = Put(stateHashes, now, Hash(sim'))
      /\ call' = [call EXCEPT !.next = now + 1]
      /\ UNCHANGED <<currentFrame, remoteInputs, desyncFrame, telemetry>>
  BY DEF ReplayFrame, InputAgain, Rehashed, Idle
<1>2. CorrectionInv
  BY <1>1 DEF CallInv
<1>3. /\ call'.stage = "replaying" /\ call'.frame = call.frame
      /\ call'.remote = call.remote /\ call'.next = now + 1
      /\ call'.saved = call.saved
      /\ call' = [stage |-> "replaying", frame |-> call.frame, remote |-> call.remote,
                  next |-> now + 1, saved |-> call.saved]
  <2> DEFINE s == call.stage  f == call.frame  r == call.remote  n == call.next
             v == call.saved
  <2>1. call = [stage |-> s, frame |-> f, remote |-> r, next |-> n, saved |-> v]
        /\ s = "replaying"
    BY <1>1, <1>2 DEF CorrectionInv
  <2>2. call' = [call EXCEPT !.next = n + 1]
    BY <1>1
  <2> HIDE DEF s, f, r, n, v
  <2>3. call' = [stage |-> "replaying", frame |-> f, remote |-> r, next |-> n + 1,
                 saved |-> v]
    BY <2>1, <2>2
  <2> QED BY <2>3 DEF f, r, n, v
<1>4. /\ call.frame \in Nat /\ currentFrame \in Nat /\ now \in Nat
      /\ call.frame <= now
  BY <1>1, <1>2, BoundAssumption DEF CallInv, CorrectionInv, Frames
<1>5. Passed' = Passed
  BY <1>1, <1>3, PassedKept
<1>6. Done' = Done \cup {now} /\ now \notin Done
  BY <1>3, <1>4 DEF Done
<1>7. frames[now] = call.saved.frames[now] /\ now \in DOMAIN call.saved.frames
      /\ DOMAIN frames = DOMAIN call.saved.frames
  BY <1>1, <1>2, <1>6 DEF CorrectionInv
<1>8. sim = Passed[now] /\ sim' = Passed[now + 1]
  <2>1. now \in call.frame .. currentFrame - 1
    BY <1>1, <1>4
  <2>2. sim = Passed[now]
    BY <1>1, <1>2 DEF CorrectionInv
  <2>3. Passed[now + 1] = Step(Passed[now], call.saved.frames[now].local, remote)
    BY <1>1, <2>1, PassedFact
  <2> QED BY <1>1, <1>7, <2>2, <2>3
<1>9. frames' = [k \in DOMAIN call.saved.frames |->
                    IF k \in Done'
                    THEN [snapshot_before |-> Passed[k],
                          local |-> call.saved.frames[k].local,
                          remote_used |-> RemoteFor(remoteInputs, k),
                          predicted_remote |-> ~HasExactRemote(remoteInputs, k)]
                    ELSE call.saved.frames[k]]
  BY <1>1, <1>2, <1>6, <1>7, <1>8 DEF CorrectionInv
<1>10. stateHashes' = [k \in DOMAIN call.saved.stateHashes \cup Done' |->
                        IF k \in Done' THEN Hash(Passed[k + 1])
                        ELSE call.saved.stateHashes[k]]
  BY <1>1, <1>2, <1>6, <1>8 DEF CorrectionInv, Put
<1>11. CorrectionInv'
  <2>1. Done' \subseteq DOMAIN call.saved.frames
    BY <1>2, <1>6, <1>7 DEF CorrectionInv
  <2>2. now + 1 \in call.frame .. currentFrame
    BY <1>1, <1>4
  <2> HIDE DEF record, remote
  <2> DEFINE c == call'
  <2>3. /\ c = [stage |-> c.stage, frame |-> c.frame, remote |-> c.remote,
                next |-> c.next, saved |-> c.saved]
        /\ c.stage = "replaying" /\ c.frame = call.frame /\ c.remote = call.remote
        /\ c.next = now + 1 /\ c.saved = call.saved
    BY <1>3
  <2> HIDE DEF c
  <2>4. frames' = [k \in DOMAIN c.saved.frames |->
                    IF k \in Done'
                    THEN [snapshot_before |-> Passed'[k],
                          local |-> c.saved.frames[k].local,
                          remote_used |-> RemoteFor(remoteInputs', k),
                          predicted_remote |-> ~HasExactRemote(remoteInputs', k)]
                    ELSE c.saved.frames[k]]
    <3>1. remoteInputs' = remoteInputs /\ Passed' = Passed /\ c.saved = call.saved
      BY <1>1, <1>5, <2>3
    <3> QED BY <1>9, <3>1
  <2>5. stateHashes' = [k \in DOMAIN c.saved.stateHashes \cup Done' |->
                        IF k \in Done' THEN Hash(Passed'[k + 1])
                        ELSE c.saved.stateHashes[k]]
    <3>1. Passed' = Passed /\ c.saved = call.saved
      BY <1>5, <2>3
    <3> QED BY <1>10, <3>1
  <2>6. sim' = Passed'[c.next]
    BY <1>5, <1>8, <2>3
  <2>7. /\ UNCHANGED <<currentFrame, remoteInputs, desyncFrame, telemetry>>
        /\ c = call'
    BY <1>1 DEF c
  <2>8. /\ c.frame \in Frames /\ c.remote \in Input /\ c.frame < currentFrame
        /\ currentFrame - c.frame <= MaxRollback
        /\ c.frame \in DOMAIN c.saved.frames
        /\ c.saved.frames[c.frame].remote_used # c.remote
        /\ IsMap(c.saved.frames) /\ IsMap(c.saved.stateHashes)
        /\ remoteInputs = Put(c.saved.remoteInputs, c.frame, c.remote)
        /\ desyncFrame = c.saved.desyncFrame /\ telemetry = c.saved.telemetry
    BY <1>2, <2>3 DEF CorrectionInv
  <2>9. c.next \in c.frame .. currentFrame /\ Done' \subseteq DOMAIN c.saved.frames
    BY <2>1, <2>2, <2>3
  <2> HIDE DEF now
  <2> QED BY <2>3, <2>4, <2>5, <2>6, <2>7, <2>8, <2>9 DEF CorrectionInv
<1>12. AreMaps'
  BY <1>9, <1>10 DEF AreMaps, IsMap
<1> QED BY <1>1, <1>11, <1>12 DEF CallInv

LEMMA OtherCallsMade ==
  ASSUME CallInv, OtherCall
  PROVE  \/ \E local \in Input : Advance(local) \/ AdvanceFails(local)
         \/ \E f \in Frames, r \in Input : SubmitEarly(f, r) \/ SubmitConfirms(f, r)
         \/ \E f \in Frames : SubmitRejected(f)
         \/ \E f \in ReportedFrames, text \in ReportedText :
                SubmitRemoteHash(f, text)
<1>1. LocalInputs(currentFrame) \subseteq Input /\ Simulated \subseteq Frames
  BY InputAssumption DEF CallInv, Simulated
<1> QED BY <1>1 DEF OtherCall

LEMMA CallInvOther ==
  ASSUME CallInv, OtherCall
  PROVE  CallInv'
<1>1. call = Idle /\ call' = Idle
  BY DEF OtherCall
<1>2. ASSUME NEW local \in Input, Advance(local)
      PROVE  currentFrame' \in Frames /\ AreMaps'
  <2>1. currentFrame' \in Frames
    BY <1>2, BoundAssumption DEF CallInv, Advance, Frames
  <2> QED BY <1>2, <2>1 DEF Advance, AreMaps, IsMap, Prune, Put
<1>3. ASSUME NEW f \in Frames, NEW r \in Input, SubmitConfirms(f, r)
      PROVE  currentFrame' \in Frames /\ AreMaps'
  <2>1. /\ frames' = [frames EXCEPT ![f].predicted_remote = FALSE]
        /\ UNCHANGED <<currentFrame, stateHashes>>
    BY <1>3 DEF SubmitConfirms
  <2>2. frames' = [k \in DOMAIN frames' |-> frames'[k]]
    <3> DEFINE v == [frames[f] EXCEPT !.predicted_remote = FALSE]
    <3>1. frames' = [frames EXCEPT ![f] = v]
      BY <2>1
    <3> HIDE DEF v
    <3> QED BY <3>1
  <2> QED BY <2>1, <2>2 DEF CallInv, AreMaps, IsMap
<1>4. ASSUME UNCHANGED <<currentFrame, frames, stateHashes>>
      PROVE  currentFrame' \in Frames /\ AreMaps'
  BY <1>4 DEF CallInv, AreMaps
<1>5. currentFrame' \in Frames /\ AreMaps'
  BY <1>2, <1>3, <1>4, OtherCallsMade
     DEF AdvanceFails, Abandon, SubmitEarly, SubmitRejected,
         SubmitRemoteHash, session
<1> QED BY <1>1, <1>5 DEF CallInv

LEMMA CallInvEnd ==
  ASSUME CallInv, LoadFails \/ ReplayFails \/ Finish
  PROVE  CallInv'
<1>1. call # Idle /\ call' = Idle /\ currentFrame' = currentFrame
  BY DEF LoadFails, ReplayFails, Finish, Fail, Idle
<1>2. CorrectionInv /\ AreMaps
  BY <1>1 DEF CallInv
<1>3. CASE LoadFails \/ Finish
  BY <1>1, <1>2, <1>3 DEF LoadFails, Finish, CallInv, AreMaps
<1>4. CASE ReplayFails
  BY <1>1, <1>2, <1>4 DEF ReplayFails, PutBack, CallInv, AreMaps, CorrectionInv
<1> QED BY <1>3, <1>4

LEMMA CallInvStep == CallInv /\ [CallsNext]_callVars => CallInv'
<1> SUFFICES ASSUME CallInv, [CallsNext]_callVars PROVE CallInv'
  OBVIOUS
<1>1. CASE UNCHANGED callVars
  <2>1. UNCHANGED <<currentFrame, remoteInputs, frames, stateHashes, sim, desyncFrame,
                    telemetry, call>>
    BY <1>1 DEF callVars, vars, session
  <2>2. Passed' = Passed /\ Done' = Done
    BY <2>1 DEF Passed, Done, Replayed
  <2> QED BY <2>1, <2>2 DEF CallInv, CorrectionInv, AreMaps, HasExactRemote
<1> QED BY <1>1, CallInvBegin, CallInvLoad, CallInvReplay, CallInvOther, CallInvEnd
        DEF CallsNext, Simulated

-----------------------------------------------------------------------------
(* A correction is one call of Rollback.                                   *)

\* Calls that are no correction are those of Rollback.
LEMMA WholeOther ==
  ASSUME OtherCall
  PROVE  Whole!Next
<1>1. call = Idle /\ call' = Idle
  BY DEF OtherCall
<1>2. ASSUME NEW local \in LocalInputs(currentFrame), Advance(local)
      PROVE  Whole!Next
  <2>1. Whole!Advance(local)
    BY <1>1, <1>2
       DEF Advance, Whole!Advance, RemoteFor, Whole!RemoteFor, Known, Whole!Known,
           LatestKnown, Whole!LatestKnown, HasExactRemote, Whole!HasExactRemote,
           Put, Whole!Put, Prune, Whole!Prune, FirstRetained, Whole!FirstRetained,
           Desync, Whole!Desync, Differing, Whole!Differing, NoFrame, Whole!NoFrame
  <2> QED BY <2>1 DEF Whole!Next
<1>3. ASSUME NEW local \in LocalInputs(currentFrame), AdvanceFails(local)
      PROVE  Whole!Next
  <2>1. Whole!AdvanceFails(local)
    BY <1>1, <1>3
       DEF AdvanceFails, Whole!AdvanceFails, Abandon, Whole!Abandon, Earlier,
           Whole!Earlier, session, Whole!session
  <2> QED BY <1>3, <2>1 DEF Whole!Next
<1>4. ASSUME NEW f \in Simulated, NEW r \in Input, SubmitEarly(f, r) PROVE Whole!Next
  <2>1. Whole!SubmitEarly(f, r)
    BY <1>1, <1>4 DEF SubmitEarly, Whole!SubmitEarly, Put, Whole!Put
  <2> QED BY <2>1 DEF Whole!Next, Simulated, Frames, Whole!Simulated, Whole!Frames
<1>5. ASSUME NEW f \in Simulated, NEW r \in Input, SubmitConfirms(f, r)
      PROVE  Whole!Next
  <2>1. Whole!SubmitConfirms(f, r)
    BY <1>1, <1>5 DEF SubmitConfirms, Whole!SubmitConfirms, Correctable,
                      Whole!Correctable, Put, Whole!Put
  <2> QED BY <2>1 DEF Whole!Next, Simulated, Frames, Whole!Simulated, Whole!Frames
<1>6. ASSUME NEW f \in Simulated, SubmitRejected(f) PROVE Whole!Next
  <2>1. Whole!SubmitRejected(f)
    BY <1>1, <1>6 DEF SubmitRejected, Whole!SubmitRejected, session, Whole!session
  <2> QED BY <2>1 DEF Whole!Next, Simulated, Frames, Whole!Simulated, Whole!Frames
<1>7. ASSUME NEW f \in ReportedFrames, NEW text \in ReportedText,
             SubmitRemoteHash(f, text)
      PROVE  Whole!Next
  <2>1. Whole!SubmitRemoteHash(f, text)
    BY <1>1, <1>7 DEF SubmitRemoteHash, Whole!SubmitRemoteHash, Put, Whole!Put,
           Desync, Whole!Desync, Differing, Whole!Differing, NoFrame, Whole!NoFrame
  <2> QED BY <2>1 DEF Whole!Next
<1> QED BY <1>2, <1>3, <1>4, <1>5, <1>6, <1>7 DEF OtherCall

\* The steps within a correction are not seen.
LEMMA WholeQuiet ==
  ASSUME CallInv,
         (\E f \in Simulated, r \in Input : Begin(f, r)) \/ Load \/ ReplayFrame
  PROVE  UNCHANGED Whole!vars
<1>1. CASE \E f \in Simulated, r \in Input : Begin(f, r)
  <2>1. call = Idle /\ call' # Idle /\ call'.saved = Copies
    BY <1>1, StageNotIdle DEF Begin
  <2> QED BY <1>1, <2>1 DEF Begin, Copies, Whole!vars, Whole!session
<1>2. CASE Load \/ ReplayFrame
  <2>1. call # Idle
    BY <1>2 DEF Load, ReplayFrame, Idle
  <2>2. CorrectionInv
    BY <2>1 DEF CallInv
  <2>3. call'.saved = call.saved /\ call'.stage = "replaying"
    <3> DEFINE s == call.stage  f == call.frame  r == call.remote  n == call.next
               v == call.saved
    <3>1. call = [stage |-> s, frame |-> f, remote |-> r, next |-> n, saved |-> v]
      BY <2>2 DEF CorrectionInv
    <3>2. \/ call' = [call EXCEPT !.stage = "replaying"]
          \/ call' = [call EXCEPT !.next = n + 1] /\ s = "replaying"
      BY <1>2 DEF Load, ReplayFrame
    <3> HIDE DEF s, f, r, n, v
    <3>3. call'.saved = v /\ call'.stage = "replaying"
      BY <3>1, <3>2
    <3> QED BY <3>3 DEF v
  <2>4. call' # Idle
    BY <2>3, StageNotIdle
  <2>5. UNCHANGED <<currentFrame, remoteHashes, locals, damagedFrom>>
    BY <1>2 DEF Load, ReplayFrame, session
  <2> QED BY <2>1, <2>3, <2>4, <2>5 DEF Whole!vars, Whole!session
<1> QED BY <1>1, <1>2

\* While a correction is under way, the states Rollback replays from the copies
\* are the states passed.
LEMMA WholeStates ==
  ASSUME CallInv, call # Idle
  PROVE  /\ Whole!ReplayStates(call.frame,
                Whole!Put(call.saved.remoteInputs, call.frame, call.remote)) = Passed
         /\ Whole!Correctable(call.frame)
         /\ remoteInputs
              = Whole!Put(call.saved.remoteInputs, call.frame, call.remote)
<1>1. CorrectionInv
  BY DEF CallInv
<1>2. Whole!Correctable(call.frame)
  BY <1>1 DEF CorrectionInv, Whole!Correctable
<1>3. remoteInputs = Whole!Put(call.saved.remoteInputs, call.frame, call.remote)
  BY <1>1 DEF CorrectionInv, Put, Whole!Put
<1>4. Whole!ReplayStates(call.frame, remoteInputs) = Passed
  <2> DEFINE seen == IF call = Idle THEN frames ELSE call.saved.frames
             f == call.frame
             mine == [k \in Replayed(f) |-> seen[k].local]
             theirs == [k \in Replayed(f) |-> RemoteFor(remoteInputs, k)]
  <2>1. seen = call.saved.frames
    OBVIOUS
  <2>2. \A k : Whole!RemoteFor(remoteInputs, k) = RemoteFor(remoteInputs, k)
    BY DEF Whole!RemoteFor, RemoteFor, Whole!Known, Known, Whole!LatestKnown,
           LatestKnown
  <2>3. Whole!ReplayStates(f, remoteInputs)
          = Whole!Run(seen[f].snapshot_before, f, currentFrame, mine, theirs)
    <3> HIDE DEF seen
    <3> QED BY <2>2 DEF Whole!ReplayStates, Whole!Replayed, Replayed, seen
  <2>4. Passed = Run(seen[f].snapshot_before, f, currentFrame, mine, theirs)
    <3> HIDE DEF seen
    <3> QED BY <2>1 DEF Passed
  <2> HIDE DEF mine, theirs, seen, f
  <2>5. Whole!Run(seen[f].snapshot_before, f, currentFrame, mine, theirs)
          = Run(seen[f].snapshot_before, f, currentFrame, mine, theirs)
    BY DEF Whole!Run, Run
  <2> QED BY <2>3, <2>4, <2>5 DEF f
<1> QED BY <1>2, <1>3, <1>4

\* A correction that fails leaves what was there.
LEMMA WholeAbandoned ==
  ASSUME CallInv, LoadFails \/ ReplayFails
  PROVE  Whole!SubmitAbandoned(call.frame, call.remote)
<1> DEFINE inputs == Whole!Put(call.saved.remoteInputs, call.frame, call.remote)
           passed == Whole!ReplayStates(call.frame, inputs)
           left == PartialState \cup {passed[k] : k \in Whole!Replayed(call.frame)}
<1>1. call # Idle /\ call' = Idle
  BY DEF LoadFails, ReplayFails, Fail, Idle
<1>2. CorrectionInv
  BY <1>1 DEF CallInv
<1>3. /\ frames' = call.saved.frames /\ remoteInputs' = call.saved.remoteInputs
      /\ stateHashes' = call.saved.stateHashes
      /\ desyncFrame' = call.saved.desyncFrame /\ telemetry' = call.saved.telemetry
      /\ outcome' = "failed" /\ UNCHANGED <<currentFrame, remoteHashes, locals>>
  <2>1. CASE ReplayFails
    BY <2>1 DEF ReplayFails, PutBack, Fail
  <2>2. CASE LoadFails
    <3>1. call.stage = "loading" /\ Done = {}
      BY <1>2, <2>2, BoundAssumption DEF LoadFails, CorrectionInv, Done, Frames
    <3>2. frames = call.saved.frames /\ stateHashes = call.saved.stateHashes
      BY <1>2, <3>1 DEF CorrectionInv, IsMap
    <3> QED BY <1>2, <2>2, <3>2 DEF LoadFails, Fail, CorrectionInv
  <2> QED BY <2>1, <2>2
<1>4. /\ passed = Passed /\ Whole!Correctable(call.frame)
  BY <1>1, WholeStates
<1> HIDE DEF passed
<1>5. sim = call.saved.sim \/ sim \in left
  <2>1. CASE LoadFails
    BY <1>2, <2>1 DEF LoadFails, CorrectionInv
  <2>2. CASE ReplayFails
    <3>1. call.next \in Whole!Replayed(call.frame)
      BY <1>2, <2>2, BoundAssumption
         DEF ReplayFails, CallInv, CorrectionInv, Whole!Replayed, Frames
    <3> QED BY <1>2, <1>4, <2>2, <3>1 DEF ReplayFails, CorrectionInv
  <2> QED BY <2>1, <2>2
<1>6. UndoLoad({sim})
  BY DEF LoadFails, ReplayFails
<1>7. \/ sim' = call.saved.sim /\ damagedFrom' = damagedFrom
      \/ sim' \in left /\ damagedFrom' = Whole!Earlier(damagedFrom, currentFrame)
  BY <1>5, <1>6 DEF UndoLoad, Earlier, Whole!Earlier
<1>8. Whole!Abandon(left)
  <2> HIDE DEF left
  <2> QED BY <1>1, <1>3, <1>7 DEF Whole!Abandon, Whole!session
<1> QED BY <1>1, <1>2, <1>4, <1>8 DEF Whole!SubmitAbandoned, CorrectionInv, passed

\* A correction that reaches the current frame is the whole one.
LEMMA WholeCorrects ==
  ASSUME CallInv, Finish
  PROVE  Whole!SubmitCorrects(call.frame, call.remote)
<1> DEFINE inputs == Whole!Put(call.saved.remoteInputs, call.frame, call.remote)
           passed == Whole!ReplayStates(call.frame, inputs)
<1>1. call # Idle /\ call' = Idle
  BY DEF Finish, Idle
<1>2. CorrectionInv
  BY <1>1 DEF CallInv
<1>3. passed = Passed /\ inputs = remoteInputs /\ Whole!Correctable(call.frame)
  BY <1>1, WholeStates
<1> HIDE DEF passed, inputs
<1>4. Done = Whole!Replayed(call.frame)
  BY DEF Finish, Done, Whole!Replayed
<1>5. Whole!HistoryComplete(call.frame)
  BY <1>1, <1>2, <1>4 DEF CorrectionInv, Whole!HistoryComplete
<1>6. sim' = passed[currentFrame]
  BY <1>2, <1>3 DEF Finish, CorrectionInv
<1>7. frames' = Whole!ReplayedFrames(call.frame, inputs, passed)
  BY <1>1, <1>2, <1>3, <1>4
     DEF Finish, CorrectionInv, Whole!ReplayedFrames, HasExactRemote,
         Whole!HasExactRemote, RemoteFor, Whole!RemoteFor, Known, Whole!Known,
         LatestKnown, Whole!LatestKnown
<1>8. stateHashes' = Whole!ReplayedHashes(call.frame, passed)
  BY <1>1, <1>2, <1>3, <1>4 DEF Finish, CorrectionInv, Whole!ReplayedHashes
<1>9. desyncFrame' = Whole!Desync(stateHashes', remoteHashes)
  BY DEF Finish, Desync, Whole!Desync, Differing, Whole!Differing, NoFrame,
         Whole!NoFrame
<1>10. telemetry' = [call.saved.telemetry EXCEPT
                        !.last = currentFrame - call.frame,
                        !.max = IF @ >= currentFrame - call.frame THEN @
                                ELSE currentFrame - call.frame]
  BY <1>2 DEF Finish, CorrectionInv
<1>11. /\ damagedFrom' = Whole!Healed(call.frame) /\ outcome' = "ok"
       /\ remoteInputs' = inputs /\ UNCHANGED <<currentFrame, remoteHashes, locals>>
  BY <1>3 DEF Finish, Healed, Whole!Healed, NoFrame, Whole!NoFrame
<1>12. call.saved.frames[call.frame].remote_used # call.remote
  BY <1>2 DEF CorrectionInv
<1> QED BY <1>1, <1>3, <1>5, <1>6, <1>7, <1>8, <1>9, <1>10, <1>11, <1>12
        DEF Whole!SubmitCorrects, passed, inputs

LEMMA WholeStep ==
  CallInv /\ [CallsNext]_callVars => [Whole!Next]_(Whole!vars)
<1> SUFFICES ASSUME CallInv, [CallsNext]_callVars PROVE [Whole!Next]_(Whole!vars)
  OBVIOUS
<1>1. CASE UNCHANGED callVars
  BY <1>1 DEF callVars, vars, session, Whole!vars, Whole!session
<1>2. CASE LoadFails \/ ReplayFails \/ Finish
  <2>1. call # Idle
    BY <1>2 DEF LoadFails, ReplayFails, Finish, Idle
  <2>2. call.frame \in Whole!Simulated /\ call.remote \in Input
    BY <2>1, BoundAssumption
       DEF CallInv, CorrectionInv, Frames, Whole!Frames, Whole!Simulated
  <2> QED BY <1>2, <2>2, WholeAbandoned, WholeCorrects DEF Whole!Next
<1> QED BY <1>1, <1>2, WholeOther, WholeQuiet DEF CallsNext

\* Whatever fails in a correction, and after however many replayed frames: to its
\* caller it is one of Rollback's calls, done or not done, so that all that is
\* proved of Rollback holds of the code taken step by step.
THEOREM CorrectionsAreWhole == CallsSpec => CallsAreWhole
<1>1. CallsInit => Whole!Init
  BY DEF CallsInit, Init, Whole!Init, NoFrame, Whole!NoFrame, Empty, Whole!Empty
<1> QED BY <1>1, CallInvInit, CallInvStep, WholeStep, PTL
        DEF CallsSpec, CallsAreWhole, Whole!Spec
=============================================================================
