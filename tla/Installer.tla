------------------------------ MODULE Installer ------------------------------
(***************************************************************************)
(* What a conversion promises the user of an install root: it replaces the *)
(* active installation by a complete new one in a single step, or ends and *)
(* leaves the active one alone.  Between conversions the user may go to     *)
(* another root, with an installation of its own.  Application is shown to  *)
(* implement it.                                                           *)
(***************************************************************************)
CONSTANTS Converters, Sources, Roots, Nothing

VARIABLES
    root,       \* the install root the user is at
    active,     \* the source of the installation the runtime accepts
    converting  \* the source each converter is at work on, or Nothing

vars == <<root, active, converting>>

Init ==
    /\ root \in Roots /\ active = Nothing
    /\ converting = [c \in Converters |-> Nothing]

Start(c) ==
    /\ converting[c] = Nothing
    /\ \E s \in Sources : converting' = [converting EXCEPT ![c] = s]
    /\ UNCHANGED <<root, active>>

Activate(c) ==
    /\ converting[c] # Nothing
    /\ active' = converting[c]
    /\ converting' = [converting EXCEPT ![c] = Nothing]
    /\ UNCHANGED root

GiveUp(c) ==
    /\ converting[c] # Nothing
    /\ converting' = [converting EXCEPT ![c] = Nothing]
    /\ UNCHANGED <<root, active>>

\* Going elsewhere gives up whatever is being converted.
Go ==
    /\ root' \in Roots \ {root}
    /\ active' \in Sources \cup {Nothing}
    /\ converting' = [c \in Converters |-> Nothing]

Next == Go \/ \E c \in Converters : Start(c) \/ Activate(c) \/ GiveUp(c)

Spec == Init /\ [][Next]_vars
=============================================================================
