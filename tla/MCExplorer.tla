----------------------------- MODULE MCExplorer -----------------------------
(***************************************************************************)
(* Instances of Explorer: every program of two to four instructions out of *)
(* sets with handled and unknown BIOS calls, accesses to a register, to    *)
(* its shadow at another width, to unknown devices and to nothing,         *)
(* branches back and boundaries, each explored under several limits.       *)
(***************************************************************************)
EXTENDS Explorer

A(address, width, write) == [address |-> address, width |-> width, write |-> write]

\* I_MASK answers 16-bit accesses only.
MCAnswered == {A("ram", 4, FALSE), A("ram", 4, TRUE), A("i_mask", 2, FALSE), A("i_mask", 2, TRUE)}
MCWindow == {"i_mask", "spu"}
MCUnmapped == {"rom"}

BiosCallOf(table, selector, a0, a1) ==
    [op |-> "call", table |-> table, t1 |-> selector, a0 |-> a0, a1 |-> a1, link |-> Unset]
LinkedTo(call, address) == [call EXCEPT !.link = {address}]
Read(a) == [op |-> "access", access |-> a, value |-> 0]
Write(a) == [op |-> "access", access |-> a, value |-> 1]
Beqz(target) == [op |-> "beqz", target |-> target]

Calls ==
    {BiosCallOf(C0, \h0A, 1, 1), BiosCallOf(C0, \h0A, 9, 1), BiosCallOf(A0, \h72, 1, 0),
     BiosCallOf(B0, \h02, 1, 0)}
Others ==
    {Read(A("spu", 4, FALSE)), Write(A("spu", 4, TRUE)), Read(A("i_mask", 4, FALSE)),
     Write(A("i_mask", 2, TRUE)), Beqz(1), Beqz(3), [op |-> "boundary"]}
Services ==
    {BiosCallOf(A0, \h39, 1, 2), BiosCallOf(A0, \h56, 1, 2), BiosCallOf(B0, \h19, 1, 0),
     BiosCallOf(B0, \h5B, 1, 0), BiosCallOf(B0, \h5B, 0, 0), BiosCallOf(C0, \h0A, 0, 0),
     BiosCallOf(A0, \h01, 0, 0), Read(A("ram", 4, FALSE)), Write(A("ram", 4, TRUE)),
     Read(A("rom", 1, FALSE)), Read(A("i_mask", 2, FALSE)), Beqz(2)}

\* Calls that return where they should not: to the entry they were reached at, to
\* another, to the entry that handles what they asked for elsewhere, or back.
Returns ==
    {LinkedTo(BiosCallOf(A0, \h72, 1, 0), A0), LinkedTo(BiosCallOf(B0, \h19, 1, 0), A0),
     LinkedTo(BiosCallOf(A0, \h0A, 1, 1), C0), LinkedTo(BiosCallOf(B0, \h02, 1, 0), B0),
     LinkedTo(BiosCallOf(C0, \h0A, 1, 1), 1)}

Programs(length) == [1 .. length -> Calls \cup Others] \cup [1 .. 2 -> Services \cup Calls \cup Returns]

Limits(nodes_, depth, total, budget, stagnation, capacity, probe) ==
    [max_nodes |-> nodes_, max_branch_depth |-> depth, max_total_retired |-> total,
     budget |-> budget, stagnation |-> stagnation, capacity |-> capacity, probe |-> probe]

\* Limits that let a search end by itself, and limits it runs into.
MCExplorations ==
    [program : Programs(4), options : {Limits(12, 2, 40, 30, 3, 4, TRUE)}]
    \cup [program : Programs(3),
          options : {Limits(6, 3, 9, 5, 0, 4, TRUE), Limits(4, 1, 7, 9, 2, 0, FALSE)}]
=============================================================================
