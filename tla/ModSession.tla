----------------------------- MODULE ModSession -----------------------------
(***************************************************************************)
(* What becomes of a resolved mod set: its overlay (build_mod_overlay in   *)
(* src/core/mod_content.cpp) and its native mods, loaded and unloaded by   *)
(* load_native_mods and NativeModSession (src/core/native_mod_loader.cpp). *)
(*                                                                         *)
(* The caller holds one session.  It may load the set again and move the   *)
(* new session into the old one's place, and it may destroy the session.   *)
(* A library may be wrong in any of the ways the loader tests.             *)
(***************************************************************************)
EXTENDS ModResolver, SequencesExt

CONSTANTS NoMod, MaxLoads   \* MaxLoads bounds the calls of load_native_mods

ASSUME SessionAssumption == NoMod \notin Ids /\ MaxLoads \in Nat

VARIABLES
    loader,     \* what runs: "idle", "loading", or unload_all for one of
                \* three reasons: "failing", "replacing", "closing"
    loads,      \* calls of load_native_mods so far
    cursor,     \* mods of load_order it has been through
    pending,    \* PendingLibrary: opened, its mod not loaded yet
    loaded,     \* loaded_ of the session being made
    session,    \* loaded_ of the session the caller holds
    open,       \* times each mod's library is open, as the system counts
    running     \* on_load calls that succeeded less on_unload calls, by mod

session_vars == <<loader, loads, cursor, pending, loaded, session, open, running>>
vars == <<resolver, session_vars>>

Mods == DOMAIN catalog
Native(id) == catalog[id].native
Loaded(s) == {s[i] : i \in DOMAIN s}

TypeOK ==
    /\ ResolverTypeOK
    /\ loader \in {"idle", "loading", "failing", "replacing", "closing"}
    /\ loads \in 0 .. MaxLoads /\ cursor \in 0 .. Len(order)
    /\ pending \in enabled \cup {NoMod}
    /\ loaded \in Seq(enabled) /\ session \in Seq(enabled)
    /\ open \in [Mods -> 0 .. 3] /\ running \in [Mods -> 0 .. 2]

-----------------------------------------------------------------------------
(* load_native_mods                                                        *)

LoadNativeMods ==
    /\ phase = "resolved" /\ loader = "idle" /\ loads < MaxLoads
    /\ loader' = "loading" /\ loads' = loads + 1 /\ cursor' = 0
    /\ UNCHANGED <<resolver, pending, loaded, session, open, running>>

NextMod == order[cursor + 1]

SkipData ==
    /\ loader = "loading" /\ cursor < Len(order)
    /\ ~Native(NextMod)
    /\ cursor' = cursor + 1
    /\ UNCHANGED <<resolver, loader, loads, pending, loaded, session, open, running>>

ToLoad == loader = "loading" /\ cursor < Len(order) /\ Native(NextMod)

\* The option is off, the entry is not a plain file in the mod's root, or the
\* system does not load it.
NotOpened ==
    /\ ToLoad /\ pending = NoMod
    /\ loader' = "failing"
    /\ UNCHANGED <<resolver, loads, cursor, pending, loaded, session, open, running>>

OpenLibrary ==
    /\ ToLoad /\ pending = NoMod
    /\ pending' = NextMod
    /\ open' = [open EXCEPT ![NextMod] = @ + 1]
    /\ UNCHANGED <<resolver, loader, loads, cursor, loaded, session, running>>

Closed(id) == [open EXCEPT ![id] = @ - 1]

\* Mutant of Rejected: the mod is passed over.
RejectedAlone ==
    /\ ToLoad /\ pending # NoMod
    /\ pending' = NoMod
    /\ open' = Closed(pending)
    /\ cursor' = cursor + 1
    /\ UNCHANGED <<resolver, loader, loads, loaded, session, running>>

\* No entry point, a bad descriptor, or an on_load that fails or throws.  The
\* PendingLibrary goes first, then the session made so far.
Rejected ==
    /\ ToLoad /\ pending # NoMod
    /\ pending' = NoMod
    /\ open' = Closed(pending)
    /\ loader' = "failing"
    /\ UNCHANGED <<resolver, loads, cursor, loaded, session, running>>

OnLoad ==
    /\ ToLoad /\ pending # NoMod
    /\ running' = [running EXCEPT ![pending] = @ + 1]
    /\ loaded' = Append(loaded, pending)
    /\ pending' = NoMod
    /\ cursor' = cursor + 1
    /\ UNCHANGED <<resolver, loader, loads, session, open>>

\* The new session is returned, and moved into the place of the caller's.
Replace ==
    /\ loader = "loading" /\ cursor = Len(order)
    /\ loader' = "replacing"
    /\ UNCHANGED <<resolver, loads, cursor, pending, loaded, session, open, running>>

-----------------------------------------------------------------------------
(* NativeModSession                                                        *)

\* ~NativeModSession of the caller's session
Destroy ==
    /\ loader = "idle" /\ session # <<>>
    /\ loader' = "closing"
    /\ UNCHANGED <<resolver, loads, cursor, pending, loaded, session, open, running>>

\* The session that is unloaded.
Leaving == IF loader = "failing" THEN loaded ELSE session
Unloading == loader \in {"failing", "replacing", "closing"}

\* Mutant of NextToUnload: mods are unloaded in the order they were loaded in.
FirstToUnload == 1

\* The place the reverse iteration has come to.
NextToUnload == Len(Leaving)

\* One turn of unload_all.  The vector is cleared when all turns are done; what
\* is still to be unloaded is what is kept of it here.
Unload ==
    /\ Unloading /\ Leaving # <<>>
    /\ LET mod == Leaving[NextToUnload]
           left == RemoveAt(Leaving, NextToUnload)
       IN  /\ running' = [running EXCEPT ![mod] = @ - 1]
           /\ open' = Closed(mod)
           /\ IF loader = "failing" THEN loaded' = left /\ UNCHANGED session
                                    ELSE session' = left /\ UNCHANGED loaded
    /\ UNCHANGED <<resolver, loader, loads, cursor, pending>>

\* unload_all is done; a replaced session is swapped with the new one.
Unloaded ==
    /\ Unloading /\ Leaving = <<>>
    /\ loader' = "idle"
    /\ IF loader = "replacing" THEN session' = loaded /\ loaded' = <<>>
                               ELSE UNCHANGED <<session, loaded>>
    /\ UNCHANGED <<resolver, loads, cursor, pending, open, running>>

-----------------------------------------------------------------------------
Init ==
    /\ \E p \in Problems :
        /\ Given(p)
        /\ open = [id \in DOMAIN p.catalog |-> 0]
        /\ running = [id \in DOMAIN p.catalog |-> 0]
    /\ loader = "idle" /\ loads = 0 /\ cursor = 0
    /\ pending = NoMod /\ loaded = <<>> /\ session = <<>>

Load ==
    \/ SkipData \/ NotOpened \/ OpenLibrary \/ Rejected \/ OnLoad \/ Replace
    \/ Unload \/ Unloaded

Next == (Resolve /\ UNCHANGED session_vars) \/ Load \/ LoadNativeMods \/ Destroy

Spec == Init /\ [][Next]_vars

-----------------------------------------------------------------------------
(* The overlay                                                             *)

\* Mutant of Laid: the first mod that has a file keeps it.
LaidUnder(overlay, id) ==
    [files |-> [path \in DOMAIN overlay.files \cup catalog[id].files |->
                    IF path \in DOMAIN overlay.files THEN overlay.files[path] ELSE id],
     collisions |-> overlay.collisions]

\* One turn of build_mod_overlay: the files of a data mod are laid over those of
\* the mods before it.
Laid(overlay, id) ==
    [files |-> [path \in DOMAIN overlay.files \cup catalog[id].files |->
                    IF path \in catalog[id].files THEN id ELSE overlay.files[path]],
     collisions |-> overlay.collisions \cup
        {<<path, overlay.files[path], id>> :
            path \in DOMAIN overlay.files \cap catalog[id].files}]

\* The overlay of the first mods of load_order.
Overlays[n \in 0 .. Len(order)] ==
    IF n = 0 THEN [files |-> <<>>, collisions |-> {}]
    ELSE IF Native(order[n]) THEN Overlays[n - 1]
    ELSE Laid(Overlays[n - 1], order[n])
Overlay == Overlays[Len(order)]

\* Every file of the set is there, a mod's file is never hidden by a mod it
\* depends on, and every mod whose file is hidden is named in a collision.
OverlayFollowsDependencies ==
    phase = "resolved" =>
        /\ DOMAIN Overlay.files = UNION {catalog[id].files : id \in {m \in enabled : ~Native(m)}}
        /\ \A path \in DOMAIN Overlay.files :
            \A id \in enabled :
                path \in catalog[id].files /\ ~Native(id) /\ id # Overlay.files[path]
                => /\ Overlay.files[path] \notin AllNeeds(id)
                   /\ \E c \in Overlay.collisions : c[1] = path /\ c[2] = id

-----------------------------------------------------------------------------
\* The native mods among the first of load_order, in that order.
NativeMods[n \in 0 .. Len(order)] ==
    IF n = 0 THEN <<>>
    ELSE IF Native(order[n]) THEN Append(NativeMods[n - 1], order[n])
    ELSE NativeMods[n - 1]

\* A native mod runs only while all native mods it depends on run, directly or
\* through data mods: at every callback, in a load that fails, in the reverse
\* unloading, and while one session replaces another.
NeedsRun ==
    \A id \in Mods : running[id] > 0 =>
        \A d \in AllNeeds(id) : Native(d) => running[d] > 0

\* Every open library belongs to a session or to the mod being loaded, and every
\* mod that runs to a session: no path through the loader loses or repeats one,
\* and what the caller holds between two calls is empty or every native mod of
\* the set, in load order.
NothingLost ==
    /\ \A id \in Mods :
        LET held == Cardinality({i \in DOMAIN loaded : loaded[i] = id})
                    + Cardinality({i \in DOMAIN session : session[i] = id})
        IN  /\ running[id] = held
            /\ open[id] = held + (IF pending = id THEN 1 ELSE 0)
    /\ loader = "idle" => session \in {<<>>, NativeMods[Len(order)]}
=============================================================================
