------------------------------ MODULE MCR3000a ------------------------------
(***************************************************************************)
(* Instances of R3000a: every program of a few instructions out of a small *)
(* set, followed by a handler that returns to the instruction it is given. *)
(*                                                                         *)
(* Addresses: the program from 0, the handler at 16, two data words at 24  *)
(* and 26.  The second instruction and the second data word may fail.      *)
(***************************************************************************)
EXTENDS R3000a, TLC

Do(op, d, s, t, imm) ==
    [op |-> op, d |-> d, s |-> s, t |-> t, imm |-> imm, sys |-> "none"]
System0(op, d, t, reg) ==
    [op |-> op, d |-> d, s |-> "zero", t |-> t, imm |-> 0, sys |-> reg]

\* mfc0 k0, epc; mtc0 zero, cause; jr k0; rfe in its delay slot
HandlerCode ==
    (16 :> System0("mfc0", "k0", "zero", "epc")
     @@ 18 :> System0("mtc0", "zero", "zero", "cause")
     @@ 20 :> Do("jalr", "zero", "k0", "zero", 0)
     @@ 22 :> Do("rfe", "zero", "zero", "zero", 0))
HandlerAddresses == {16, 18, 20, 22, 40}

\* Loads meeting arithmetic, stores and each other.
Memory ==
    {Do("lw", "r1", "zero", "zero", 26),
     Do("lwr", "r1", "zero", "zero", 25), Do("lwl", "r1", "zero", "zero", 26),
     Do("lb", "r2", "r1", "zero", 24),
     Do("add", "r2", "r1", "r1", 0), Do("addu", "r1", "r1", "r2", 0),
     Do("sw", "zero", "zero", "r1", 26), Do("swl", "zero", "r2", "r1", 24),
     Do("j", "zero", "zero", "zero", 2)}

Transfers ==
    {Do("beq", "zero", "r1", "r2", 2), Do("beq", "zero", "r1", "ra", 8),
     Do("bgezal", "zero", "r1", "zero", 0), Do("j", "ra", "zero", "zero", 6),
     Do("jalr", "r2", "ra", "zero", 0), Do("jalr", "zero", "r1", "zero", 0),
     Do("lw", "r1", "zero", "zero", 26), Do("lw", "r2", "r1", "zero", 24),
     Do("addu", "r1", "ra", "r1", 0), Do("sb", "zero", "zero", "r1", 27)}

SystemOps ==
    {System0("mtc0", "zero", "r1", "status"), System0("mtc0", "zero", "r1", "cause"),
     System0("mfc0", "r1", "zero", "status"), System0("mfc0", "r1", "zero", "cause"),
     System0("mtc0", "zero", "r1", "epc"), System0("mfc0", "r2", "zero", "reserved"),
     Do("rfe", "zero", "zero", "zero", 0), Do("syscall", "zero", "zero", "zero", 0),
     Do("cop2", "zero", "zero", "zero", 0), Do("j", "zero", "zero", "zero", 0),
     Do("swr", "zero", "zero", "r1", 25), Do("lw", "r1", "zero", "zero", 24),
     Do("lw", "r2", "zero", "zero", 25), Do("jalr", "r2", "r1", "zero", 0)}

With(p) == [a \in {2 * n : n \in DOMAIN p} |-> p[a \div 2]] @@ HandlerCode

Running == [cur |-> TRUE, prev |-> FALSE, old |-> FALSE, mask |-> Lines,
            bev |-> FALSE, cu2 |-> FALSE]
Contents == (24 :> 17) @@ (26 :> 13)

Started(programs, statuses) ==
    [code : {p \in programs : Restartable(p)}, mem : {Contents}, status : statuses]

\* Four instructions of the first two kinds, three of the third.
MCMachines ==
    Started({With(p) : p \in [0 .. 3 -> Memory] \cup [0 .. 3 -> Transfers]}, {Running})
    \cup Started({With(p) : p \in [0 .. 2 -> SystemOps]},
                 {Running, [Running EXCEPT !.cur = FALSE, !.prev = TRUE, !.cu2 = TRUE],
                  [Running EXCEPT !.bev = TRUE]})
=============================================================================
