---------------------------- MODULE BootRuntime ----------------------------
(***************************************************************************)
(* Ps1BootRuntime (src/core/ps1_boot_runtime.cpp) with its HLE BIOS        *)
(* (ps1_hle_bios.cpp) and memory bus (ps1_memory_bus.cpp): what one turn   *)
(* of the run loop does to a runtime and to the report of its segment.     *)
(* Explorer runs it.                                                       *)
(*                                                                         *)
(* A guest is a program of a few kinds of instructions: BIOS calls, bus    *)
(* accesses, branches on $v0.  The executor that runs them is R3000a; here *)
(* an instruction is retired or stops at a boundary, and pending loads,    *)
(* delay slots and interrupts are left out.  RAM is one cell, an address   *)
(* stands for a device register, and values are those of the low byte, the *)
(* same at every width.                                                    *)
(***************************************************************************)
EXTENDS Integers, Sequences

CONSTANTS
    Answered,       \* the accesses memory and registers answer, as
                    \* [address, width, write] records
    Window,         \* addresses of the diagnostic shadow
    Unmapped,       \* addresses outside it that nothing answers
    Counters        \* the counters ChangeClearRCnt knows

VARIABLE program    \* the guest's instructions, by address from 1

A0 == \hA0
B0 == \hB0
C0 == \hC0
Tables == {A0, B0, C0}      \* no program reaches up to these addresses

\* An optional is the set of its value, or empty.
Unset == {}

Access == [address : Window \cup Unmapped \cup {a.address : a \in Answered},
           width : {1, 2, 4}, write : BOOLEAN]
NoAccess == [address |-> "none", width |-> 1, write |-> FALSE]

ASSUME BusAssumption == Window \cap Unmapped = {} /\ NoAccess \notin Access

\* What a program is made of.  A call links the instruction after it, or jumps to
\* the table with whatever address the guest has in $ra.
Instruction ==
    [op : {"call"}, table : Tables, t1 : Nat, a0 : Int, a1 : Int, link : SUBSET Int]
    \cup [op : {"access"}, access : Access, value : Int]
    \cup [op : {"beqz"}, target : Nat] \cup [op : {"boundary"}]
Guest == {p \in Seq(Instruction) : Len(p) + 1 < A0}

-----------------------------------------------------------------------------
(* Ps1HleBios                                                              *)

NoServices == [heap |-> Unset, hook |-> Unset, pad |-> Unset,
               counters |-> [c \in Counters |-> Unset], removed |-> FALSE]

Bios == [heap : SUBSET (Int \X Int), hook : SUBSET Int, pad : SUBSET BOOLEAN,
         counters : [Counters -> SUBSET BOOLEAN], removed : BOOLEAN]

InitHeap(cpu) == cpu.pc = A0 /\ cpu.t1 = \h39
RemoveIso9660(cpu) == cpu.pc = A0 /\ cpu.t1 \in {\h56, \h72}
HookEntryInt(cpu) == cpu.pc = B0 /\ cpu.t1 = \h19
ChangeClearPad(cpu) == cpu.pc = B0 /\ cpu.t1 = \h5B
ChangeClearRCnt(cpu) == cpu.pc = C0 /\ cpu.t1 = \h0A /\ cpu.a0 \in Counters

\* dispatch returns handled.
Handled(cpu) ==
    \/ InitHeap(cpu) \/ RemoveIso9660(cpu)
    \/ HookEntryInt(cpu) \/ ChangeClearPad(cpu)
    \/ ChangeClearRCnt(cpu)

\* What a handled call leaves in the services' state.
Served(bios, cpu) ==
    CASE InitHeap(cpu) -> [bios EXCEPT !.heap = {<<cpu.a0, cpu.a1>>}]
      [] RemoveIso9660(cpu) -> [bios EXCEPT !.removed = TRUE]
      [] HookEntryInt(cpu) -> [bios EXCEPT !.hook = {cpu.a0}]
      [] ChangeClearPad(cpu) -> [bios EXCEPT !.pad = {cpu.a0 # 0}]
      [] ChangeClearRCnt(cpu) -> [bios EXCEPT !.counters[cpu.a0] = {cpu.a1 # 0}]

\* Only ChangeClearRCnt returns a value: whether the counter was enabled.
Result(bios, cpu) ==
    IF ChangeClearRCnt(cpu)
    THEN IF bios.counters[cpu.a0] = {TRUE} THEN 1 ELSE 0
    ELSE cpu.v0

\* Mutant of ReturnFromBiosCall: the call is entered again.
StayInBiosCall(cpu, v0) == [cpu EXCEPT !.v0 = v0]

ReturnFromBiosCall(cpu, v0) == [cpu EXCEPT !.v0 = v0, !.pc = cpu.ra]

-----------------------------------------------------------------------------
(* Ps1MemoryBus                                                            *)

ResetBus == [cells |-> [a \in {x.address : x \in Answered} |-> 0],
             shadow |-> [a \in Window |-> 0], probing |-> FALSE]

Bus == [cells : [{x.address : x \in Answered} -> Int], shadow : [Window -> Int],
        probing : BOOLEAN]

\* set_diagnostic_mmio_probe_enabled
Probing(bus, enabled) ==
    [bus EXCEPT !.probing = enabled,
                !.shadow = IF enabled /\ ~bus.probing THEN [a \in Window |-> 0] ELSE @]

\* What an access reaches: memory or a register, the diagnostic shadow, or
\* nothing.  A register that does not answer a width leaves it to the shadow.
Reaches(bus, access) ==
    IF access \in Answered THEN "cells"
    ELSE IF bus.probing /\ access.address \in Window THEN "shadow"
    ELSE "nothing"

\* The bus after a write of value, and what a read returns.
Written(bus, access, value) ==
    CASE Reaches(bus, access) = "cells" -> [bus EXCEPT !.cells[access.address] = value]
      [] Reaches(bus, access) = "shadow" -> [bus EXCEPT !.shadow[access.address] = value]
ReadFrom(bus, access) ==
    IF Reaches(bus, access) = "cells" THEN bus.cells[access.address]
    ELSE bus.shadow[access.address]

-----------------------------------------------------------------------------
(* Ps1BootRuntime                                                          *)

Cpu == [pc : Int, v0 : Int, a0 : Int, a1 : Int, t1 : Int, ra : Int]
Runtime == [cpu : Cpu, bus : Bus, bios : Bios, pending : BOOLEAN]

\* load_ps1_executable_into_bus
Created ==
    [cpu |-> [pc |-> 1, v0 |-> 0, a0 |-> 0, a1 |-> 0, t1 |-> 0, ra |-> 0],
     bus |-> ResetBus, bios |-> NoServices,
     pending |-> FALSE]     \* diagnostic_bios_frontier_pending_

StopReasons == {"none", "execution_budget_exhausted", "bios_call_unimplemented",
                "diagnostic_stall", "mmio_unimplemented", "cpu_boundary"}

\* The part of Ps1BootReport and of run()'s locals that decides anything.
NewSegment == [retired |-> 0, since |-> 0,      \* instructions_since_progress
               bios |-> {}, mmio |-> {},        \* the dependencies observed
               recent |-> <<>>, stop |-> "none"]

Segment == [retired : Nat, since : Nat, bios : SUBSET (Tables \X Int), mmio : SUBSET Access,
            recent : Seq(Access), stop : StopReasons]

AtBios(r) == r.cpu.pc \in Tables
Frontier(cpu) == <<cpu.pc, cpu.t1>>

\* A BIOS table entry is reached: its dependency is noted before dispatch.
Called(s, cpu) ==
    [s EXCEPT !.bios = @ \cup {Frontier(cpu)},
              !.since = IF Frontier(cpu) \in s.bios THEN @ ELSE 0]

AfterHandled(r) ==
    [r EXCEPT !.bios = Served(@, r.cpu),
              !.cpu = ReturnFromBiosCall(@, Result(r.bios, r.cpu)),
              !.pending = FALSE]

\* The instruction at pc; the memory after the program is no instruction.
Fetched(cpu) ==
    IF cpu.pc \in DOMAIN program THEN program[cpu.pc] ELSE [op |-> "boundary"]

\* The access an instruction makes that nothing answers, or NoAccess.
Refused(r) ==
    LET i == Fetched(r.cpu)
    IN  IF i.op = "access" /\ Reaches(r.bus, i.access) = "nothing" THEN i.access ELSE NoAccess

\* step_r3000a returns retired.
Retires(r) == Fetched(r.cpu).op # "boundary" /\ Refused(r) = NoAccess

\* The diagnostic probe of the instruction at pc, or NoAccess.
Probe(r) ==
    LET i == Fetched(r.cpu)
    IN  IF i.op = "access" /\ Reaches(r.bus, i.access) = "shadow" THEN i.access ELSE NoAccess

\* What $ra holds when a call reaches its table.
Linked(i, after) == IF i.link = Unset THEN after ELSE CHOOSE address \in i.link : TRUE

\* The runtime after an instruction that retires.
Stepped(r) ==
    LET i == Fetched(r.cpu)
        after == r.cpu.pc + 1
        to == [r EXCEPT !.pending = FALSE, !.cpu.pc = after]
    IN  CASE i.op = "call" ->
                [to EXCEPT !.cpu = [@ EXCEPT !.pc = i.table, !.t1 = i.t1, !.ra = Linked(i, after),
                                             !.a0 = i.a0, !.a1 = i.a1]]
          [] i.op = "beqz" -> IF r.cpu.v0 = 0 THEN [to EXCEPT !.cpu.pc = i.target] ELSE to
          [] i.op = "access" /\ i.access.write -> [to EXCEPT !.bus = Written(@, i.access, i.value)]
          [] i.op = "access" /\ ~i.access.write -> [to EXCEPT !.cpu.v0 = ReadFrom(r.bus, i.access)]

\* Whether a probe is a dependency not observed before.
Renewed(s, probe) == probe # NoAccess /\ probe \notin s.mmio

\* record_recent_mmio, of speculative events
Recorded(recent, probe, capacity) ==
    IF capacity = 0 THEN recent
    ELSE IF Len(recent) = capacity THEN Append(Tail(recent), probe)
    ELSE Append(recent, probe)

\* The report after an instruction that retired.
Counted(s, r, capacity) ==
    LET probe == Probe(r)
    IN  [s EXCEPT !.retired = @ + 1,
                  !.since = IF Renewed(s, probe) THEN 0 ELSE @ + 1,
                  !.mmio = IF probe = NoAccess THEN @ ELSE @ \cup {probe},
                  !.recent = IF probe = NoAccess THEN @ ELSE Recorded(@, probe, capacity)]

\* The watchdog, after an instruction; 0 disables it.
Stalled(s, stagnation) == stagnation # 0 /\ s.since >= stagnation

\* The stop reason of an instruction that did not retire.
BoundaryReason(r) ==
    IF Refused(r) # NoAccess /\ Refused(r).address \in Window
    THEN "mmio_unimplemented" ELSE "cpu_boundary"

\* apply_diagnostic_bios_fallback, on a runtime stopped at a frontier
Policies == <<"return_zero", "return_one", "return_minus_one", "preserve_v0">>
FallbackValue(cpu, policy) ==
    CASE policy = "return_zero" -> 0
      [] policy = "return_one" -> 1
      [] policy = "return_minus_one" -> -1
      [] policy = "preserve_v0" -> cpu.v0
Applicable(r) == r.pending /\ AtBios(r)
WithFallback(r, policy) ==
    [r EXCEPT !.cpu = ReturnFromBiosCall(@, FallbackValue(@, policy)), !.pending = FALSE]

\* What diagnostic_state_hash covers, hash collisions left out.
DiagnosticState(r) ==
    [cpu |-> r.cpu, cells |-> r.bus.cells, shadow |-> r.bus.shadow,
     bios |-> r.bios, pending |-> r.pending]
=============================================================================
