# JOJO-Recompiled: the verification project

TLA+ models of the parts of JOJO-Recompiled whose behaviour depends on order,
failure, time or concurrency, the TLC configurations that check them on small
instances, and theorems about them that TLAPS checks for every value of the
constants. Source paths below are relative to `src/` of the repository
(`core/...`, `app_win32/...`); documents are under `docs/superpowers/`.

    tlc -workers 2 -config MCRollbackCalls.cfg MCRollbackCalls.tla   # any run of the table below
    tlapm RollbackProofs.tla                                         # any module of proofs

## 1. Inventory

JOJO-Recompiled is a Windows program of some 11 500 lines of C++. It converts
the user's PlayStation disc image into a local installation, boots the
installed executable on a reference machine, and carries the parts a playable
game will need: rollback, a direct network session, mods, training, settings.
Nothing in it yet puts rollback and network together, and no driver of the
settings menu exists yet. Only the window and its worker, the two ends of a
session, and the user with Windows run beside the program.

| component | state it keeps | operations | what is hard |
|---|---|---|---|
| Rollback engine `core/rollback.*` | frame records, inputs, hashes of both sides, desync frame | `advance`, `submit_remote_input`, `submit_remote_hash` | inputs late, repeated, contradicting; a replay failing half-way |
| Direct UDP session `core/network_transport.h`, `network_protocol.*` | state, peer, retransmission queue, four clocks | `connect`, `poll`, `send`, `disconnect` | lost, duplicated, reordered packets; timeouts racing answers; strangers |
| Online controller `core/online_session.*` | the owned session, the view | `host`, `join`, `poll`, `send`, `disconnect`, `reset` | a fault behind which a session lives on |
| Installation `core/conversion.cpp`, `ps1_installation.cpp`, `runtime.cpp` | files under the install root | `convert_image`, `validate_installation` | death between two file system calls; a reader beside a writer |
| Window and worker `app_win32/main.cpp` | `running`, `converted`, the buttons, the install root | window messages, a detached thread | the worker changes what a handler reads; another root is chosen |
| R3000A executor `core/r3000a_*`, `mips_decoder.*` | registers, pending load, delay slot, COP0 | `step_r3000a` | every meeting of delayed loads, delay slots, exceptions, interrupts |
| Boot runtime, HLE BIOS, bus `core/ps1_boot_runtime.cpp`, `ps1_hle_bios.cpp`, `ps1_memory_bus.cpp` | machine, services, recent events | `run`, `apply_diagnostic_bios_fallback` | budget, watchdog, events pushed out of a buffer |
| MAX3 explorer `core/ps1_max3_explorer.cpp` | report, expanded frontiers, recursion | `explore_ps1_max3` | five limits in a recursion; branches that must not mix |
| Mods `core/mod_*.cpp`, `native_mod_loader.cpp`, `semver.cpp` | call stack and indegrees; loaded libraries | `resolve_mod_set`, `build_mod_overlay`, `load_native_mods` | cycles, repeated dependencies, a mod that fails after others run |
| Training `core/training.cpp` | timeline, playback, slots | record, play, save | window of a timeline |
| Settings and their menu `core/settings*.cpp` | the file; a session's draft and baseline | `load_settings`, `save_settings_atomic`, `set_*`, `bind_action`, `commit`, `discard` | old and broken files; a save that stops half-way |
| Input and Windows controllers `core/input.cpp`, `platform/windows/controller_win32.cpp` | catalogue, states kept between messages | `refresh_devices`, `handle_raw_input`, `snapshot`, `capture_binding` | devices that come and go between refresh, message and frame |
| Disc and executable parsing, reports, presentation | none or pure | parse, format | none that order or failure decides |

How they interact: the controller owns one `DirectUdpSession` and polls it; two
sessions meet only in datagrams. The window starts `convert_image` on a
detached thread and hears of it by posted messages; both it and the runtime
read the files the thread writes. The install root is kept in the settings
file, which the window reads when the program starts and saves when another
root is chosen. The menu takes devices from the input host's catalogue and
captures bindings from its frames. The explorer copies boot runtimes, each of
which steps an executor over its own bus. `load_native_mods` and
`build_mod_overlay` take what `resolve_mod_set` returns.

What makes each correct:

* rollback: the simulation is always in the state of the run that had known
  every remote input in time, and published hashes and desyncs are about it;
* session: nobody is connected who was not accepted, nobody replaces the peer,
  the packet that completes a handshake is kept until it has, reconnecting ends;
* controller: the view tells the state of the session that is owned;
* installation and window: a conversion happens in one step or not at all for
  whoever reads the root, and the window knows what goes on;
* input and settings: what is held is seen and what is gone is not, the settings
  last saved are found again, and a session with nothing to save shows those;
* executor: exceptions and interrupts are invisible to the program;
* explorer: limits hold, branches are isolated, the reported end is the end;
* mods: resolution succeeds exactly when it can, and nothing runs without what
  it depends on, whatever fails.

`PROJECT.json` lists every component with its files, and every hazard found at
its line with the properties that would catch it.

## 2. Plan

| order | modules | state |
|---|---|---|
| 1 | `Rollback`; `RollbackCalls`, a correction step by step, refining it | modelled, checked, all its properties and the refinement proved |
| 2 | `DirectSession` over `DirectSessionStates` | modelled, checked, safety proved |
| 3 | `OnlineSession` over `DirectSessionStates` | modelled, checked, all its safety proved |
| 4 | `Installation`, refining `Installer`; `Application` composes it with the window, its worker and other roots | modelled, checked, all its properties and the refinement proved |
| 5 | `Mips`, `R3000a`, refining `Sequential` | modelled, checked, all its properties and the refinement proved |
| 6 | `Semver`, `ModResolver`; `ModSession` composes it with loader and overlay | modelled, checked, all its properties proved |
| 7 | `BootRuntime`; `Explorer` composes it with the search | modelled, checked, all its safety proved |
| 8 | `Input`, `InputHost`; `Settings`, `SettingsMenu`; `Controls` composes them | modelled, checked, all its properties proved |

The abstract specifications are `Rollback` (a call of the session happens whole
or not at all), `Installer` (a conversion replaces the active
installation in one step), `Sequential` (instructions one after the other) and
`DirectSessionStates` (the edges of a session: checked of `DirectSession`, the
only thing `OnlineSession` assumes). Modules with theorems, and all they
extend, use recursive functions and folds but no RECURSIVE operators.

## 3. The models

### Rollback, RollbackCalls

One action per outcome of a public call. `Advance` and `AdvanceFails` are
`advance()`; `SubmitEarly`, `SubmitConfirms`, `SubmitCorrects`,
`SubmitRejected` and `SubmitAbandoned` are the five ways through
`submit_remote_input()`; `SubmitRemoteHash` is its namesake. Every call of the
simulation may fail, in the middle of a replay too, and so may the load that
puts the simulation back: the code does not look at that result, and what the
load left behind stays. `damagedFrom` then records the first frame entered in
such a state, and a correction that starts from an earlier snapshot clears it.
`locals` and `damagedFrom` are history.

That a failed call leaves the members alone is what `Rollback` promises.
`RollbackCalls` takes a correction apart as the code executes it: `Begin` copies
six members and stores the input, `Load` loads the snapshot, each `ReplayFrame`
rewrites a record, steps the simulation and replaces a hash in place, `Finish`
ends it, and `LoadFails` and `ReplayFails` put back what the code puts back, at
any point. `CallsAreWhole` is the refinement: while a correction is under way its
caller still has the members it copied. `outcome` is what the last call returned, or
`"running"`; what the session promises it promises between calls (`Returned`).

The simulation is a parameter. In `MCRollbackCalls` its state is the history of the
inputs it was stepped with, of which every deterministic simulation is an
image, so states that could differ do differ. SHA-256 and the saved bytes are
values; two different states have different hashes there. `DeterministicRng`,
a pure generator, is left out. Whether side effects are wanted is the literal
`false` of the replay's `step_frame` call (`core/rollback.cpp:122`) and the literal
`true` of `advance()`: the session keeps no state of it, and a property would repeat
the two literals.

### DirectSession, DirectSessionStates

Both ends at once. `poll()` is `PollExpires` (the reconnect deadline), or
`PollBegin` (retransmission), one `PollReceive` per datagram, and `PollEnd`
(liveness or heartbeat); `PollAborts` is its early return. While one end is in
`poll()` the other stands still, which loses nothing: they share the network
only, and it delays at will. `Tick` is the clock: a time stored by the code is
kept as the ticks since, up to the interval it is compared with. `net` holds the
datagrams in flight to each end; it loses (`Lose`), reorders, duplicates and
carries a stranger's packets. Sequence numbers are allocated to hellos and
accepts only, because only those are ever pending. `accepted` is history: the
hellos the host has answered. `PollAborts` is also what a datagram does that does
not parse, whoever sent it (`Garbage`). `Send` forwards any packet of the caller's
that is not reliable control, pings and pongs included, with a number and an
acknowledgement of the caller's choice out of `CallerNumbers`: the code looks at
neither, and the receiver acts on the acknowledgement. Encoding of packets, RTT and
jitter are left out, and so is the account of gameplay packets.

### OnlineSession

Several controllers on one machine with its UDP ports. Of the owned session
only role, state, port and the presence of a peer are kept; `Poll` may take it
along several edges of `DirectSessionStates` and fail after any of them, as
`poll()` of the session may. Telemetry and the text of endpoints are left out,
and calls refused with `invalid_argument` change nothing and are no actions.

### Installation, Installer

`convert_image` from the moment it touches the root: every file system call is
an action (`Scan`, `Claim`, `CreateStaging`, `CreateData`, `Open`, `Write`,
`ReplaceManifest`, `Commit`, `OpenPointer`, `WritePointer`, `ReplacePointer`).
`Stops` is both a failing call and the death of the process: the files stay as
they are, and what comes next is a `Start`. An opened file is `Partial` until it
is written whole, and also when two writers meet in it. The file system is that
of the Windows build: what is open elsewhere cannot be renamed. `Classify`,
`Reload` and `LoadBoot` are the reads of `validate_installation`. `Installer` is
the promise: a conversion starts (`Start`), and then activates its source in one
step (`Activate`) or changes nothing (`GiveUp`); entering another root (`Go`) gives
up what was being converted. Left out: analysis of the disc and the probe of the
destination, which come before the root is touched; v1 installations, which
count as absent; power loss (files are flushed to the system,
not to the disk, and what is left then is not determined by this code).

### Application

Composes the window with one worker over the same files. The handlers of
`main.cpp` run one after the other on the window's thread; those that read the
root, `refresh_install` and `run_checkpoint`, are split at their reads, because
the worker goes on meanwhile: `RefreshClassify`, `Validate`, `RefreshEnds`,
`CheckpointLoads`, `CheckpointEnds`. `SelectImage` is the drop or the dialog, `StartConversion`
the prepare button, `Finish` the posted result, `Close` the end of the window,
after which the worker still runs until the process ends (`Restart`, at any
moment). `SelectInstallRoot` enters another root, saved or not, and `Restart`
the one the settings file names; of the root that is left nothing is followed,
and one that is entered holds nothing, the trace of an interrupted conversion,
or an installation (`OtherRoots`). Progress messages and drawing are left out.

### Input, InputHost

`Input` has the pure half: bindings, `Resolve` (`resolve_player_actions`),
`Captured` (`capture_binding`) and the `Changes` a refresh reports. An axis is
where it stands to the threshold, and ids and codes are atoms.

`InputHost` is `Win32InputHost` beside the user and Windows. The user plugs,
unplugs and holds a controller in another position (`Plug`, `Unplug`, `Hold`);
Windows queues a `WM_INPUT` for each report, or puts it into the message before
it (`RAWHID.dwCount`), up to `MaxReports`. `RefreshDevices` may find any part of
what is plugged in, since each device is asked on its own; `HandleRawInput` takes
one message, from a device whose handle may be dead meanwhile. `Snapshot` is the
frame. Left out: names of codes, normalising of axes, the mapping of several
report ids of one device, the loading of the XInput library.

### Settings, SettingsMenu

A settings file is a sequence of lines, each a key with a value already parsed,
or with one that does not parse. `Lines` is what `save_settings_atomic` writes
and `Loaded` what `load_settings` makes of any file: `Given` (the last line of a
key wins), `Legacy` (keys of older versions, which speak of player one),
`Parses`, and the defaults for what is missing. The nine keys of graphics and
the four of audio are one value each, in range or not.

`SettingsMenu` is the globals of the window and one `SettingsMenuSession`: the
edits, `Commit`, `Discard`, and the save, whose steps (`OpenTemp`, `WriteTemp`,
`ReplaceFile`) may each fail (`FailSave`) or be the last (`Die`). `Launch` is a
start of the program, `ChooseRoot` the only save the program does today. Nothing
in the repository opens the menu yet: `OpenMenu` and `CloseMenu` do what
`docs/superpowers/specs/2026-08-30-ingame-settings-input-design.md` says of its
driver, and are marked external in the map. `stored` is history: what the last
complete save was given, and `failed`, that the disk has failed a save since.

### Controls

Composes the menu with the host on the window's one thread: devices are chosen
from the catalogue, and a capture compares the frame of `BeginCapture` with one of
a later moment, with plugging, messages and refreshes in between. During a save,
and while no process runs, pads stand still: nobody would see the difference
before it is over.

### Mips, R3000a, Sequential

`step_r3000a`, one action per outcome, chosen in the order of the code:
interrupt, fetch, a transfer in a delay slot, the instruction. Words are scaled
to two lanes, and instructions that differ only in the data they compute are
one; all kinds of load and store are there, unaligned ones included. HI, LO and
the KU bits are left out: nothing delays or restores HI and LO, and the
executor never tests KU. Code and data are apart. Some addresses fail for a
while (`Faulty`); an interrupt line changes at any time (`Signal`). `owed` is a
history variable: where a suspended program stood.

`Sequential` is a machine without pipeline, exceptions or interrupts; a loaded
register may read old or new in the next instruction. `R3000a` implements it
under the mapping at the end of the module: the program sees the register a
load under way will have, and, while suspended, the place it will go back to.
What the guest has to keep to is `Disciplined`: a handler, entered by exceptions
only, is four instructions long, reads EPC into `k0`, writes Cause and leaves by
`jr k0` with `rfe` in the slot; the program leaves `k0` alone, and its branches can
be executed again after a fault in the delay slot, so they read no register of a
load right before them and link to none they read.
The guests of `MCR3000a` keep to it (the run checks that), and both the context and
the refinement are promised to such guests only. `Conventional` is the part of it
that can be read off the instructions (`Restartable` is what `MCR3000a` picks its
programs by) and `NoJumpToHandler` the rest: no register leads into a handler.

### Semver, ModResolver, ModSession

`resolve_mod_set` as a state machine: `stack` is the recursion of
`include_mod`, `visit` its marks; then conflicts, then indegrees and the ready
set. Every failure of the code is an action, and `Resolvable` says without the
algorithm when a request can be met. Ids are numbers with the order of the
strings; the text of manifests and the directory scan are left out
(`parse_mod_manifest` and `discover_mods` yield a `Manifest` and a `Catalog`).
What a mod needs through others is `Reach`, the closure of a set under its
dependencies. Loops of the code that only collect (`NativeMods`, `Overlays`) are
functions of the number of rounds, so that the proofs can follow them.

`ModSession` goes on with what was resolved: `Overlay` is
`build_mod_overlay`, and the rest the life of native mods: opening, `on_load`,
failing before or after either, unloading in reverse, a session moved into the
place of another, and destruction. The many ways a library can be wrong are
two: `NotOpened` and `Rejected`. Content hashes and symbolic links are left
out.

### BootRuntime, Explorer

`BootRuntime` is one turn of `Ps1BootRuntime::run`: a BIOS call handled, or
not (a frontier), an instruction retired, or a boundary, with every service of
the HLE BIOS, the budget, the watchdog that new dependencies clear, the bounded
buffer of device accesses, and the four diagnostic fallbacks. Guests are
programs of calls, accesses, branches and boundaries, of any length that ends
below the first BIOS entry: `$pc` counts instructions, so a guest reaches a BIOS
entry by calling it, or by returning to it, and never by running on into it. A call
links the next instruction, or comes with any address at all in `$ra` (`link`), table
entries included. An entry has one address here; its mirrors, which the code masks
to the same one, are left out. Pending loads, delay
slots and interrupts are `R3000a`'s subject. One memory cell and one register
stand for the others.

`Explorer` is `explore_ps1_max3`: `stack` is the recursion of `visit()`, each
call with a runtime of its own. Left out: counts of frames, GPU, CD-ROM and DMA
events, which no code raises; collisions of the state hash; the trace and BIOS
event buffers; timer 1 and acknowledgement bits of I_STAT and DICR.

## 4. What the runs check

States are distinct states; times are for two workers.

| run | module, cfg | checks | size |
|---|---|---|---|
| `rollback` | MCRollbackCalls, MCRollbackCalls | TypeOK, WindowExact, MatchesAuthoritativeRun, HashesAuthoritative, DesyncIsEarliest, CallsAreWhole, SettledHashesFixed | 1 231 000, 100 s |
| `direct_session` | DirectSession, MCDirectSession | HandshakeRetried, ConnectedWasAccepted, PeerStaysPinned, FollowsLifecycle | 1 187 000, 26 s |
| `direct_session_liveness` | DirectSession, MCDirectSessionLiveness | HalfOpenEnds, ReconnectResolves | 450 000, 150 s |
| `online_session` | OnlineSession, MCOnlineSession | TypeOK, ViewTracksSession, SessionNotReplaced | seconds |
| `online_session_fault` | OnlineSession, MCOnlineSessionFault | FaultNeedsReset, violated | - |
| `application` | Application, MCApplication | ActiveIsWhole, ReaderNeverFails, WindowIsTruthful, NextNumberFree, ConversionIsAtomic | 2 257 000, 33 s |
| `installation_unique` | Installation, MCInstallationUnique | UniqueGenerations, violated | - |
| `r3000a` | MCR3000a, MCR3000a | Disciplined, PcShape, ContextComplete, ExceptionsInvisible | 3 607 000, 85 s |
| `mods` | MCModSession, MCModSession | ResolutionExact, DependenciesFirst, OverlayFollowsDependencies, NeedsRun, NothingLost | 188 000 |
| `max3` | MCExplorer, MCExplorer | WorkBounded, NodesReplay, HonestTermination, EvidenceKept, EndsOrSpins | 354 000, 45 s |
| `controls` | MCControls, MCControls | StatesAreCatalogued, NoPressMissed, StoredSettingsLoad, CleanIsSaved | 3 522 000, 3 min |
| `controls_held` | MCControls, MCControlsHeld | HeldIsCurrent, violated | - |

The type predicates the runs do not list (`DirectSession`, `Installation`,
`Application`, `Controls`, `ModResolver`, `ModSession` and `Explorer`) are theorems.

### What they show, and why the bounds are enough

`rollback`. Three frames and a window of two: a frame inside the window, one
at its edge, and one that has left it exist together, and a correction replays one or
two frames, failing at its load, before the first of them or between the two, with
records and hashes already rewritten, while the load that undoes it succeeds or fails.
Two remote inputs suffice, because the code only compares inputs for equality; of a
local input it only keeps what it was, so each frame has one of its own
(`LocalInputs`). A peer reports hashes of two frames, right, wrong or malformed,
before or after they are simulated, and either can be repaired by a correction. The
simulation is exactly the authoritative run (`MatchesAuthoritativeRun`), its hashes
are (`HashesAuthoritative`) and no longer change once out of the window
(`SettledHashesFixed`, which holds within a call too, as `WindowExact` does). Once a
load that was to undo a failed call has failed too, the first two say so only of
frames from before that. `CallsAreWhole` is that nothing else of a failed correction
stays.

`direct_session`. Three hellos allow a first attempt, a reconnect and a new
connection after a disconnect, with the accepts of two of them on their way;
one datagram in flight to each end still allows loss, duplication and reordering
of what is retransmitted, because a retransmission or a duplicate overtakes.
Intervals are the shortest that keep their order: retry and heartbeat one tick,
liveness and reconnect two. `HandshakeRetried` is the crux: whichever packets
and acknowledgements were lost, the one packet that can complete the handshake
is still held by the end that has to resend it. It holds of callers that acknowledge
nothing and send no pings with numbers of their own (`CallersAcknowledgeNothing`:
`CallerNumbers` is {0}), as in the repository's tests of the session, and of no others:
with `CallerNumbers` = {0, 1} a gameplay packet removes a pending accept, or a hello
(see the observations). The other three do not depend on it; the theorems have them for
every `CallerNumbers`. `FollowsLifecycle` establishes the edges `OnlineSession` relies
on: those of the design and `Revival`, `connect()` of a client whose session is over,
which the design, where disconnected is terminal, does not have.

`direct_session_liveness`. See fairness below. Any send, read or `poll()` may fail, and
any `poll()` may meet a datagram that does not parse. Reconnecting ends all the same,
because its deadline is looked at before the socket is read. An end that is half open
gives up only if its `poll()` gets as far as the liveness check again and again, which
`HalfOpenEnds` assumes and nothing in the code guarantees. Liveness is one tick here, to
keep the graph small. Duplicates and strangers are off: a network that repeats an old
packet for ever keeps a dead connection alive, and a host that has a peer ignores a
stranger's packets.

`online_session`. Two controllers contend for two ports, one of which may be
held by a session a fault left behind.

`application`. One process, two images, two roots, three generations: an installation may
be replaced twice, and an interrupted conversion may leave a number behind
before, between or after. The worker is killed or fails at every one of its
steps; the window refreshes and loads the guest in between any two of them.
`ActiveIsWhole` and `ConversionIsAtomic` are about what a crash leaves,
`NextNumberFree` about the conversion after it, `ReaderNeverFails` about reading
while it is replaced, `WindowIsTruthful` about what the window says of it.

`r3000a`. All programs of four instructions out of nine loads, stores,
additions and a jump, or out of ten transfers, loads and stores, and of three out of
fourteen system instructions, with a handler, an interrupt before any
instruction, one failing instruction address and one failing data word. Four
instructions hold a load, its delay, a branch and its slot, which is as long as
the pipeline remembers. Loads and stores of either lane and both merges occur;
Status and Cause are read and written, EPC is read by the handler, and
`ContextComplete` looks at TargetAddress itself.

`mods`. Every graph of four mods with at most two dependencies each, which has
every cycle up to four and every diamond; three mods with each kind of defect;
and graphs with native mods in three arrangements, loaded twice, with a failure
possible at each step. `CHECK_DEADLOCK FALSE`: a failed resolution ends.

`max3`. Guests of up to four instructions under limits of nodes, depth, total,
budget and stagnation that are reached, and under limits that are not. Some calls
come with a table entry in `$ra`: that of the call itself, of another that is handled,
or of one that is not.
`NodesReplay` runs the guest again on its own along the decisions that led to
a node and demands the same state, so nothing leaks between branches;
`EvidenceKept` demands that what a branch has met is still in the report when
the search goes on elsewhere, as far as the bounded buffer held it;
`HonestTermination` relates the reason reported to what was left unexplored;
`EndsOrSpins` says that the search ends, or comes to a handled call that returns to
the entry it was reached at, the one loop that uses no budget and that the design does
not have.
`CHECK_DEADLOCK FALSE`: the exploration ends.

`controls`. Two players with one action, one key, one XInput slot and one HID
pad, each with a button and an axis: two kinds of controller that speak by
different ways, and a device to lose to each. A message carries one or two
reports, as many as it takes for a press and its release to meet; one message
waits at most, in front of any number of refreshes. Five events of the user
(`MaxEvents`) are enough to plug, press, let go, unplug and plug again, or to
edit, capture and commit; the program's own steps, its deaths and restarts are
not counted. The files found at first are none, one of an older version that
names a pad which is not there, one with a line that does not parse, and one
with a value out of range. `StoredSettingsLoad` is what a crash anywhere in a
save leaves to the next start. `CleanIsSaved` is what `dirty()` is worth: between saves
a session with nothing to save shows what the next start will find, because no commit
is ever refused for what it contains. It makes one exception, and that is the code's:
`commit()` clears `dirty_` before anything is saved (`core/settings_menu.cpp:67`), so
after a save the disk has failed, and until one succeeds, a clean session shows settings
that are not in the file. A process that dies in between loses them; the next one shows
what the file has.

`controls_held`. The same model shows that a state may keep a button that was
let go.

### Fairness

`DirectSession!FairSpec`: each end is polled again and again and each `poll()`
returns, at its end or early, because callers poll once per frame and `poll()` has no
unbounded wait; time passes (strongly fair, since a `poll()` of either end
suspends the clock). Nothing says that a `poll()` ever reaches its end: one that meets a
datagram that does not parse returns before the liveness check, and anyone may send
one per frame. `HalfOpenEnds` has this as a hypothesis of its own. The network owes
nothing and may lose everything.
`Explorer!FairSpec`: the exploration takes its next step, being one call on one
thread. No other property needs fairness.

### Findings

* A faulted controller leaves `faulted` at the next `poll()`
  (`core/online_session.cpp:160`), where
  `specs/2026-09-04-r2-5-online-controller-design.md:77` requires a reset first.
* Two processes may work in one staging directory
  (`core/ps1_installation.cpp:301`), where
  `specs/2026-09-09-jojo-ps1-architecture-migration-design.md:300` requires a
  unique one.
* A button pressed and let go within one `WM_INPUT` message stays pressed until
  the controller reports again: all reports of a message are decoded into one
  state, to which buttons are only added
  (`platform/windows/controller_win32.cpp:400`), where
  `specs/2026-08-30-ingame-settings-input-design.md:29` says a state contains
  "currently pressed button/key codes".

Observations, met while modelling. No run shows them, and the properties that would
deny them carry the exception openly:

* An acknowledgement in a caller's packet counts as the session's own and can erase a
  handshake packet that has to be sent again (`core/network_transport.h:459`), where
  `specs/2026-09-04-r2-5-reconnect-telemetry-design.md:67` keeps control packets
  session-owned and line 74 lets polling retry until the deadline
  (`CallersAcknowledgeNothing`).
* `connect()` starts a session again that is over (`core/network_transport.h:394`),
  where the same document's lifecycle (lines 54-56) has no edge out of disconnected and
  calls an explicit disconnect terminal (`Revival`).
* A datagram that does not parse, from anyone, ends `poll()` before the liveness check
  (`core/network_transport.h:439`), where the same document promises that silence is
  noticed (line 19) and that other endpoints are ignored (line 69). One per poll keeps a
  dead connection alive (the hypothesis of `HalfOpenEnds`).
* A handled BIOS call whose `$ra` is its own entry keeps the run loop going for ever
  (`core/ps1_boot_runtime.cpp:142`), where
  `specs/2026-09-10-ps1-max3-multicycle-design.md:9` calls the explorer bounded and line
  68 has the watchdog keep a branch from spinning (`Spinning` in `EndsOrSpins`).
* Dependencies pushed out of the bounded event buffer of a boot runtime are missing
  from the MAX3 report (`core/ps1_max3_explorer.cpp:168`), where line 89 of that document
  merges them (the condition of `EvidenceKept`).
* When the load that undoes a failed snapshot load fails too, nobody looks at it and the
  simulation keeps what it left (`core/rollback.cpp:99`), where
  `plans/2026-08-30-rollback-networking-core-verification.md:13` lists the restoration
  as transactional (`damagedFrom`).
* `disconnect` is sent once and never retransmitted
  (`core/network_transport.h:584`), where
  `specs/2026-08-30-rollback-networking-core-design.md:74` calls it reliable.
  `HalfOpenEnds` shows when the other end finds out by its timeouts.
* One line that does not parse makes the whole settings file pass for absent
  (`app_win32/main.cpp:355`), and the next root chosen saves the defaults over it.
* The changes of a refresh made inside `handle_raw_input` are dropped
  (`platform/windows/controller_win32.cpp:408`), so nobody hears of a device that
  is found there. `FollowersAgree` is about the reports that are passed on.

## 5. What is proved

TLAPS checks these for every value of the constants, under the assumptions
named with the constants in the modules.

`RollbackProofs`: any simulation, inputs, hashes and
window; the bound on frames only limits how long the session runs.

* `TypeCorrect`; `WindowIsExact`: records are retained for exactly the window.
* `RollbackIsTransparent`: `MatchesAuthoritativeRun`, the point of the
  component; `HashesAreAuthoritative`; `DesyncReported`; `SettledHashesStay`;
  `CorrectionsAreWhole` (`CallsAreWhole`), the refinement: the copies a correction
  under way has made are the members of `Rollback`, and what it has replayed so far is
  the beginning of what `SubmitCorrects` replays (`Run`).
* `DesyncsAreReal` (`DesyncsReal`): once the inputs of n frames are here, in whatever
  order they came, and none of them was entered in a damaged state, state and hashes are
  those of the match as both sides played it (`Played`, which knows no prediction), and
  a desync before frame n is reported exactly if the peer's hash differs from the
  match's. No run lists it: it ranges over all histories of n frames.

  Most are not inductive. `IInv` adds that each retained record has the
  local input of its frame (`LocalsRecorded`) and the remote input the session
  would use now (`UsedInputsCurrent`), and that its snapshot is the
  authoritative state (`SnapshotsAuthoritative`). A replay then starts in that
  run and follows it; the shortcut for a confirmed prediction changes none of
  the inputs used; and what is pruned is out of reach of corrections. The
  authoritative run is a recursive function of the inputs, and the lemmas
  `InTime...` say that it depends on those before a frame only.

`DirectSessionProofs`: any timing, any number of hellos, accepts and datagrams,
with or without duplicates, failing sends and strangers. `TypeCorrect`,
`HandshakeIsRetried` (if `CallersAcknowledgeNothing`), `ConnectionsWereAccepted`, `PeerIsPinned` and
`LifecycleIsFollowed`, the last being all that `OnlineSession` assumes of the
session it owns.

  The invariant speaks of the packets held for retransmission and of those in
  flight: what the host may be saying to the client (`ToClientTrue`: an accept
  answers a hello the host has accepted), and, when callers acknowledge nothing, that
  nothing else acknowledges a packet that was not sent (`AcksTrue`),
  what the client may be saying to the host (`ToHostTrue`), that a host
  which accepted the client has pinned it (`HostFaithful`), and the crux,
  `Unacknowledged`: while the client awaits the accept of its hello, no
  acknowledgement of such an accept is on its way. Numbers are allocated once,
  so an acknowledgement can only be of an accept of an earlier hello. Steps that
  leave the handshake alone share one lemma (`QuietStep`).

`OnlineSessionProofs`: any controllers and ports. `TypeCorrect` and
`ViewIsTruthful`, from the invariant that each view agrees with its session, and
`SessionStays`: a live session is never replaced by another. What a poll can make
of a session, `PollReach`, is the least set closed under the edges of
`DirectSessionStates`; the proof gives, for each kind of state, a closed set that
leaves out what must not come.

`ApplicationProofs`: any sources, roots and number of generations. `TypeCorrect`,
`ActiveStaysWhole`, `NumbersAreFree`, `ReadersSucceed`, `WindowTellsTheTruth`, and
`ConversionsAreAtomic`, the refinement of `Installer`.

  The invariant says what a job has done of its work at each of its steps
  (`Progress`), that the generation the pointer names is whole and nobody's work
  (`ActiveStays`), what a reader has seen so far and that it still holds
  (`ReaderFollows`), and how the window's flags follow (`WindowFollows`). Only
  one converter works on a root here: `UniqueGenerations` shows what two do.

`ControlsProofs`: any devices, positions, queue and message lengths, any settings
and files. `TypeCorrect`, `CatalogueIsKept`, `PressesArrive`,
`SettingsSurvive` and `CleanSessionsAreSaved`, and three that no run lists: `CapturedIsNew`
(a captured binding is active and was not before), `FollowersAgree` (a consumer
that applies the changes a refresh reports has the new catalogue) and
`LastReportTellsAll` (what a controller's last message leaves is how it is held, but
for buttons of an earlier report in the same message, which is the third finding).

  The lemma that carries `SettingsSurvive` is `SavedLoads`: for all settings and
  every order in which their lines are written, `Loaded` of them gives the
  settings back. The temporary file holds such lines when it takes the place of
  the file, and `stored` is what they load to.
  `CleanSessionsAreSaved` needs that nothing invalid gets into force or into a session,
  so that `save_settings_atomic` refuses none, and that a session's baseline is what is
  in force.
  `PressesArrive` needs that the last message of a controller that is not
  handled yet ends in how it is held (`LastIsHeld`).

`R3000aProofs`: any program, interrupts, failing addresses and word size.
`PcsAgree` (`PcShape`) is inductive by itself; `TypeCorrect` says among others
that no path writes `$zero` or leaves a word. `HandlersFindTheirContext`
(`ContextComplete`) and `ExceptionsAreInvisible` (the refinement of `Sequential`)
are about guests that are `Disciplined` at every step. `ConventionsDiscipline` says
which those are: all programs that are `Conventional` and are led into a handler by no
register; `ConventionsSuffice` puts the three together. `UnalignedWords` says that
`swr` and `swl` write the lanes of one word at any address and no other, and that
`lwr` and `lwl` have it back in either order, whatever was in the register.

  `ContextInv` says where in its four instructions a handler is, what `k0`, EPC,
  Cause and the interrupt enable hold there, and that a suspended program has no
  load or branch under way when it is resumed. `ResumeInv` adds that whatever can still raise an exception leaves a
  place to resume at: a branch whose slot is next decides, on the registers it
  left, what it decided the first time (`TransferDecides`). The refinement then
  goes action by action: what retires in the program is a step of `Sequential`
  (`ComputeSeen` to `TransferSeen`), and what retires in a handler, raises an
  exception or executes a branch again is a stutter. `ConventionsDiscipline` needs that
  the program is never one step from running into a handler and that the load under
  way comes from the instruction right before (`Guest`).

`ModProofs`: any catalog and request. `ResolverTypes`, and
`LoadOrderFollowsDependencies` (`DependenciesFirst`), from `IInv`: what the call
stack and the marks of `include_mod` say together (all a mod depends on is
included before it is done), and that an indegree counts the dependencies not
yet placed, each as often as it is named.

  `ResolutionIsExact` (`ResolutionExact`): a request is met exactly when it can be,
  and with exactly the mods it needs. `ReachLeast` shows that `Reach`, computed in as
  many rounds as the catalog has mods, is the least closed set; then what
  is on the stack is wanted (`OnlyWanted`), a mod found on it again depends on itself
  (`Way`, `StackLeads`), and mods left over when the ready set is empty wait for each
  other (`Waiting`), so that one of them needs itself (`CycleAmong`): a failure is
  reported only of a request that nothing could meet.

  `OverlayHidesRightly` (`OverlayFollowsDependencies`), `LoaderLosesNothing`
  (`NothingLost`) and `RunningModsHaveTheirNeeds` (`NeedsRun`) follow from the order and
  from `LoaderInv`: the turns of the loader are the native mods of the order
  (`Turns`), the mods of a session are a beginning of them and none is without what
  it needs, at every step of the unloading from the back (`Sessions`), and a library
  is open, and its mod running, as often as sessions hold it (`Counts`).
  `SessionTypes` adds that no session has a mod twice (`OnceEach`): the loader is never
  behind what it has loaded, and the order has each mod once.

  `ResolverRunsDown` and `LoaderRunsDown`: each step of `resolve_mod_set`, and each of a
  load or an unloading, leaves less to do, in numbers ordered lexicographically that
  are never negative. So both return, the resolver with the answer of
  `ResolutionIsExact`, cycles or not. `VersionsOrdered`: `compare_semver` orders
  versions totally; `UpdatesFit`: an update within a major version satisfies all
  requirements but an exact one.

`ExplorerProofs`: any guests and any limits. Assumed of the devices
(`BusAssumption`): no address is both in the diagnostic window and unmapped, as
`diagnostic_mmio_bytes` has it, and `NoAccess` is none; of the guests
(`ExplorationsAssumption`): what `Guest` says of them. `ExplorerTypes`, with the
invariant `IInv`, which also says that a guest stopped at a frontier still is at
its entry, and that no budget is more than what is left of the total.
`EvidenceIsKept` needs no more than that.

* `WorkIsBounded`: the sum of what the nodes retired grows by what is added at its
  end (`RetiredByMore`), and a watched segment retires no more than the watchdog
  allows since the last of the dependencies it has met (`SegmentInv`).
* `TerminationIsHonest`, from `Search`: a frontier left to an earlier node has one
  that stopped in the same state and was not itself left to another (`Met`,
  `Keys`); the calls on the stack are at their nodes in the order they were met
  (`Line`); a node has had as many children as its call has tried, in the order of
  the answers, less the one not recorded yet, and all four once its call is gone
  (`Progress`); and what each reason says holds from when it is given (`Ended`),
  the calls left doing nothing but return.
* `NodesComeAlone` (`NodesReplay`), from `Replays`: the runtime of every call on the
  stack is where a guest gets that runs alone along the call's decisions
  (`Attains`), and so are the nodes already recorded. A turn of a segment is a turn
  of that guest (`Further`); a fallback is its next decision, which changes nothing
  of how it got there, because until then it never waited for one (`Decided`). The
  turns `ComesBy` allows are enough: no more than two for each instruction and for
  each decision, give or take `Slack`, but in a segment that spins and never becomes a
  node (`Lost`). `PathsMore` says that a node more
  leaves the paths of the others as they are.
* `SearchRunsDown`: every step lowers, lexicographically, the nodes left, the stage of
  the innermost call, its turns or the calls left, and what is left to do at a BIOS entry
  (`Entries`), none of which is ever negative, but for the step that handles a call whose
  `$ra` is the entry it was reached at (`Spinning`), and after that step the search is at
  that call again. A call that returns to another table's entry does go on: no service is
  found at two (`EntriesFall`). A guest that never calls with a table entry in `$ra`
  never spins (`Returning`, from `AllHome`). `EndsOrSpins` rests on this, for all
  guests and limits: what remains for the run is that some step can be taken as long
  as a call is on the stack.

Only model-checked: liveness (`HalfOpenEnds`, `ReconnectResolves`,
`EndsOrSpins`). Liveness under fairness and
anything with ENABLED is beyond the prover (a measure that every step lowers is
not, and stands in for it where a function only has to return), and so is induction over data with
the library's theorems, which take an operator as parameter: lemmas that need
one (`SetInduction`, `HighestIs`) are proved from a least counterexample
instead, and a function defined along a sequence (`RetiredBy`, `Paths`, the walk in
`ComesBy`) is shown to exist before anything is said of it (`LoopExists`,
`WalkExists`).

## 6. What is not modelled

* Training: a timeline, a counter of frame steps and ten slots that no code calls
  yet. Each is a few guards and assignments on its own state; a property would
  restate the code, and the unit tests reach every case.
* Disc images, ISO 9660, SYSTEM.CNF and PS-X EXE parsing, revisions, reports,
  SHA-256, versions: pure functions of immutable bytes, where tests reach.
* Presentation geometry: arithmetic on rectangles in floating point.
* `validate_mod_session` (a comparison), native library verification (symbolic
  links, paths), content hashes; the text of manifests and of settings.
* Power loss, see Installation; a sequence number wrapping after 2^32 packets,
  see the hazards.
