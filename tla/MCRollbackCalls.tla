--------------------------- MODULE MCRollbackCalls ---------------------------
(***************************************************************************)
(* A small instance of RollbackCalls.  The simulation's state is the       *)
(* history of the inputs it was stepped with: every deterministic          *)
(* simulation is an image of this one, so two states that differ in any of *)
(* them differ here.                                                       *)
(***************************************************************************)
EXTENDS RollbackCalls, Sequences, SequencesExt

MCInput == {"idle", "punch"}
MCNoInput == "idle"

\* The session never looks into a local input, it only keeps it with its frame.
MCLocalInputs(frame) == IF frame % 2 = 0 THEN {"idle"} ELSE {"punch"}

Pair == MCInput \X MCInput
MCSimState == BoundedSeq(Pair, MaxFrame)
MCInitState == <<>>
MCStep(s, l, r) == IF Len(s) = MaxFrame THEN s ELSE Append(s, <<l, r>>)

MCHash(s) == [digest |-> s]
MCHashText == {MCHash(s) : s \in MCSimState}

\* A hash of one possible first frame, and a text that is not a digest.
MCReportedText == {MCHash(<< <<"idle", "punch">> >>), [text |-> "malformed"]}

\* A failing load wipes the simulation.
MCPartialState == {<< <<"punch", "idle">> >>}
=============================================================================
