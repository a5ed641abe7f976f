----------------------------- MODULE Sequential -----------------------------
(***************************************************************************)
(* What the R3000A promises the program it runs: instructions take effect  *)
(* one after the other, a control transfer after the one that follows it,  *)
(* and a loaded register may still read as it was in the next instruction. *)
(* No interrupt, fault or return from a handler can be seen.  R3000a is    *)
(* shown to implement it.                                                  *)
(***************************************************************************)
EXTENDS Mips

CONSTANTS User      \* the registers a program may use

VARIABLES
    program,    \* the instructions, by address
    file,       \* the registers of User
    memory,     \* the data words, by address
    at, next,   \* the instruction to execute, and the one after it
    fading,     \* the register just loaded, with what it held before
    enabled     \* whether the program has interrupts enabled

vars == <<program, file, memory, at, next, fading, enabled>>

Settled == [reg |-> Zero, value |-> 0]

\* A register just loaded reads as either.
Reads(r) == {file[r]} \cup (IF fading.reg = r THEN {fading.value} ELSE {})

Goes(to, after) == at' = to /\ next' = after

Compute(i) ==
    /\ i.op \in Direct
    /\ \E a \in Reads(i.s), b \in Reads(i.t) : file' = Written(file, i.d, Plus(a, b))
    /\ fading' = Settled
    /\ Goes(next, Plus(next, 2))
    /\ UNCHANGED <<memory, enabled>>

Transfer(i) ==
    /\ i.op \in Control
    /\ \E a \in Reads(i.s), b \in Reads(i.t) :
            Goes(next, IF Taken(i, a, b) THEN Target(i, a) ELSE Plus(next, 2))
    /\ file' = Written(file, Link(i), Plus(next, 2))
    /\ fading' = Settled
    /\ UNCHANGED <<memory, enabled>>

Load(i) ==
    /\ i.op \in Loads
    /\ \E a \in Reads(i.s) :
        LET address == Plus(a, i.imm)
        IN  /\ WordOf(address) \in DOMAIN memory /\ ~Misaligned(i, address)
            /\ file' = Written(file, i.d,
                            Loaded(i, address, memory[WordOf(address)], file[i.d]))
    /\ fading' = IF i.d = Zero THEN Settled ELSE [reg |-> i.d, value |-> file[i.d]]
    /\ Goes(next, Plus(next, 2))
    /\ UNCHANGED <<memory, enabled>>

Store(i) ==
    /\ i.op \in Stores
    /\ \E a \in Reads(i.s), v \in Reads(i.t) :
        LET address == Plus(a, i.imm)
        IN  /\ WordOf(address) \in DOMAIN memory /\ ~Misaligned(i, address)
            /\ memory' = [memory EXCEPT ![WordOf(address)] = Stored(i, address, @, v)]
    /\ fading' = Settled
    /\ Goes(next, Plus(next, 2))
    /\ UNCHANGED <<file, enabled>>

\* What the system registers hold is not the program's business.
Privileged(i) ==
    /\ i.op \in System
    /\ IF i.op = "mfc0" /\ i.d # Zero
       THEN /\ \E v \in Value : file' = Written(file, i.d, v)
            /\ fading' = [reg |-> i.d, value |-> file[i.d]]
       ELSE file' = file /\ fading' = Settled
    /\ enabled' \in IF i.op = "mfc0" THEN {enabled} ELSE BOOLEAN
    /\ Goes(next, Plus(next, 2))
    /\ UNCHANGED memory

\* The delay of a load passes without an instruction.
Settle ==
    /\ fading' = Settled
    /\ UNCHANGED <<file, memory, at, next, enabled>>

Execute ==
    /\ at \in DOMAIN program
    /\ LET i == program[at]
       IN  Compute(i) \/ Transfer(i) \/ Load(i) \/ Store(i) \/ Privileged(i)

Next == (Execute \/ Settle) /\ UNCHANGED program

Init ==
    /\ \A r \in User : file[r] \in Value
    /\ next = Plus(at, 2)
    /\ fading = Settled

Spec == Init /\ [][Next]_vars
=============================================================================
