------------------------------- MODULE R3000a -------------------------------
(***************************************************************************)
(* step_r3000a (src/core/r3000a_reference_executor.cpp): one call executes *)
(* one instruction of a machine with delayed loads, delayed branches and   *)
(* exceptions that can be returned from.  A step is one action; which one  *)
(* is decided in the order of the code: interrupt, fetch, a transfer in a  *)
(* delay slot, the instruction.  An interrupt line is raised and lowered   *)
(* by devices between steps.                                               *)
(*                                                                         *)
(* The bus is the caller's (R3000aBus).  It does not know some addresses,  *)
(* and accesses to some others may fail now and work later.                *)
(*                                                                         *)
(* owed is no state of the code: while a program is suspended, from the    *)
(* entry of an exception to the next instruction of the program, it keeps  *)
(* where the program stood.                                                *)
(***************************************************************************)
EXTENDS Mips

CONSTANTS
    K0,             \* the register left to exception handlers
    Vector,         \* where handlers are entered, BootVector while Status.BEV
    BootVector,
    Handler,        \* the addresses of handlers
    Faulty,         \* the addresses at which the bus may report an error
    Machines        \* how a program may be started: what the two memories
                    \* and Status hold, the fields code, mem and status

ASSUME MachineAssumption ==
    K0 \in Regs \ {Zero, Ra} /\ Vector \in Value /\ BootVector \in Value

Lines == {"software", "external"}

\* The KU/IE stack is kept as its three IE bits.
Status == [cur : BOOLEAN, prev : BOOLEAN, old : BOOLEAN,
           mask : SUBSET Lines, bev : BOOLEAN, cu2 : BOOLEAN]
Codes == {"none", "interrupt", "adel", "ades", "ibe", "dbe", "syscall",
          "overflow", "reserved", "coprocessor"}
Cause == [code : Codes, bd : BOOLEAN, bt : BOOLEAN, ip : SUBSET Lines]

\* What an instruction or a data memory may hold.
Code(c) == DOMAIN c \subseteq Value /\ \A a \in DOMAIN c : c[a] \in Instruction
Words(m) == DOMAIN m \subseteq Value /\ \A a \in DOMAIN m : m[a] \in Value

ASSUME ProgramsAssumption ==
    \A m \in Machines : Code(m.code) /\ Words(m.mem) /\ m.status \in Status

NoLoad == [valid |-> FALSE, reg |-> Zero, value |-> 0]
NoSlot == [active |-> FALSE, branch |-> 0, taken |-> FALSE, target |-> 0]
NotOwed == [owed |-> FALSE, at |-> 0, next |-> 0]

VARIABLES
    code,       \* the instruction memory
    mem,        \* the data memory
    gpr,        \* the general registers
    pc, next,   \* pc and next_pc
    pending,    \* pending_load
    slot,       \* delay_slot
    status, cause, epc, target, bad,    \* cop0; target_address and bad_vaddr
    line,       \* external_interrupt_pending
    owed        \* where a suspended program stood

cop0 == <<status, cause, epc, target, bad>>
vars == <<code, mem, gpr, pc, next, pending, slot, cop0, line, owed>>

TypeOK ==
    /\ Code(code) /\ Words(mem)
    /\ gpr \in [Regs -> Value] /\ gpr[Zero] = 0
    /\ pc \in Value /\ next \in Value
    /\ pending \in [valid : BOOLEAN, reg : Regs, value : Value]
    /\ pending.valid => pending.reg # Zero
    /\ slot \in [active : BOOLEAN, branch : Value, taken : BOOLEAN, target : Value]
    /\ status \in Status /\ cause \in Cause
    /\ epc \in Value /\ target \in Value /\ bad \in Value
    /\ line \in BOOLEAN
    /\ owed \in [owed : BOOLEAN, at : Value, next : Value]

-----------------------------------------------------------------------------
(* Parts of a step                                                         *)

\* retire_pending_load: the registers once the load under way has arrived.
Retired == IF pending.valid THEN Written(gpr, pending.reg, pending.value) ELSE gpr

\* Cause with the interrupt line of this step.
CauseNow ==
    [cause EXCEPT !.ip = (@ \cap {"software"}) \cup (IF line THEN {"external"} ELSE {})]

Interrupted == ~slot.active /\ status.cur /\ CauseNow.ip \cap status.mask # {}

\* Where the program stands: what a handler has to return to.
Suspended ==
    IF owed.owed THEN owed ELSE [owed |-> TRUE, at |-> pc, next |-> next]

\* What EPC gets: a delay slot is restarted from its branch.
Restart == IF slot.active THEN slot.branch ELSE pc

\* Mutant of InTakenSlot: every delay slot counts as one of a taken branch.
InAnySlot == slot.active

InTakenSlot == slot.active /\ slot.taken

Pushed ==
    [cur |-> FALSE, prev |-> status.cur, old |-> status.prev,
     mask |-> status.mask, bev |-> status.bev, cu2 |-> status.cu2]

ExceptionVector == IF status.bev THEN BootVector ELSE Vector

\* enter_exception, after the load under way has retired: on every path to it
\* but the interrupt's the instruction has got no further than that.
EnterException(kind, address) ==
    /\ gpr' = Retired /\ pending' = NoLoad
    /\ cause' = [code |-> kind, bd |-> slot.active, bt |-> InTakenSlot, ip |-> CauseNow.ip]
    /\ epc' = Restart
    /\ target' = IF InTakenSlot THEN slot.target ELSE target
    /\ bad' = IF kind \in {"adel", "ades"} THEN address ELSE bad
    /\ status' = Pushed
    /\ pc' = ExceptionVector /\ next' = Plus(ExceptionVector, 2)
    /\ slot' = NoSlot
    /\ owed' = Suspended
    /\ UNCHANGED <<code, mem, line>>

\* boundary: the step has no effect but for what was done before it was met.
Boundary(registers, load) ==
    /\ gpr' = registers /\ pending' = load /\ cause' = CauseNow
    /\ UNCHANGED <<code, mem, pc, next, slot, status, epc, target, bad, line, owed>>

\* An instruction of the program has been executed: it is no longer suspended.
Resumes == owed' = IF pc \in Handler THEN owed ELSE NotOwed

\* Mutant of Retire: the delay slot is left open.
RetireInSlot(registers, load) ==
    /\ gpr' = registers /\ pending' = load
    /\ pc' = next /\ next' = Plus(next, 2)
    /\ Resumes
    /\ UNCHANGED <<code, slot, epc, target, bad, line>>

\* Mutant of Retire: a load that has arrived stays under way.
RetireLate(registers, load) ==
    /\ gpr' = registers /\ pending' = IF load.valid THEN load ELSE pending
    /\ pc' = next /\ next' = Plus(next, 2)
    /\ slot' = IF slot.active THEN NoSlot ELSE slot
    /\ Resumes
    /\ UNCHANGED <<code, epc, target, bad, line>>

\* The end of an instruction that transfers no control.
Retire(registers, load) ==
    /\ gpr' = registers /\ pending' = load
    /\ pc' = next /\ next' = Plus(next, 2)
    /\ slot' = IF slot.active THEN NoSlot ELSE slot
    /\ Resumes
    /\ UNCHANGED <<code, epc, target, bad, line>>

-----------------------------------------------------------------------------
(* What comes before the instruction                                       *)

TakeInterrupt == Interrupted /\ EnterException("interrupt", 0)

FetchMisaligned ==
    /\ ~Interrupted
    /\ LaneOf(pc) # 0
    /\ EnterException("adel", pc)

FetchUnsupported ==
    /\ ~Interrupted
    /\ LaneOf(pc) = 0 /\ pc \notin DOMAIN code
    /\ Boundary(Retired, NoLoad)

FetchFails ==
    /\ ~Interrupted
    /\ LaneOf(pc) = 0 /\ pc \in DOMAIN code /\ pc \in Faulty
    /\ EnterException("ibe", 0)

Fetched(ops) ==
    /\ ~Interrupted
    /\ LaneOf(pc) = 0 /\ pc \in DOMAIN code
    /\ code[pc].op \in ops

\* A control transfer in a delay slot: the load under way stays under way.
TransferInSlot ==
    /\ Fetched(Control)
    /\ slot.active
    /\ Boundary(gpr, pending)

\* The instruction, its operands as they were before the step, and the registers
\* it writes to.
This == code[pc]
Rs == gpr[This.s]
Rt == gpr[This.t]

-----------------------------------------------------------------------------
(* Instructions                                                            *)

Compute ==
    /\ Fetched(Direct)
    /\ This.op = "add" => ~Overflows(Rs, Rt)
    /\ Retire(Written(Retired, This.d, Plus(Rs, Rt)), NoLoad)
    /\ cause' = CauseNow
    /\ UNCHANGED <<mem, status>>

ComputeOverflows ==
    /\ Fetched({"add"})
    /\ Overflows(Rs, Rt)
    /\ EnterException("overflow", 0)

\* schedule_control_transfer, with the link
Transfer ==
    LET taken == Taken(This, Rs, Rt)
    IN  /\ Fetched(Control)
        /\ ~slot.active
        /\ gpr' = Written(Retired, Link(This), Plus(pc, 4))
        /\ pending' = NoLoad
        /\ slot' = [active |-> TRUE, branch |-> pc, taken |-> taken,
                    target |-> Target(This, Rs)]
        /\ pc' = Plus(pc, 2)
        /\ next' = IF taken THEN Target(This, Rs) ELSE Plus(pc, 4)
        /\ cause' = CauseNow
        /\ Resumes
        /\ UNCHANGED <<code, mem, status, epc, target, bad, line>>

Address == Plus(Rs, This.imm)

AddressFails ==
    /\ Fetched(Loads \cup Stores)
    /\ Misaligned(This, Address)
    /\ EnterException(IF This.op \in Loads THEN "adel" ELSE "ades", Address)

DataUnsupported ==
    /\ Fetched(Loads \cup Stores)
    /\ ~Misaligned(This, Address) /\ WordOf(Address) \notin DOMAIN mem
    /\ Boundary(Retired, NoLoad)

DataFails ==
    /\ Fetched(Loads \cup Stores)
    /\ ~Misaligned(This, Address) /\ WordOf(Address) \in DOMAIN mem
    /\ WordOf(Address) \in Faulty
    /\ EnterException("dbe", 0)

Accesses(ops) ==
    /\ Fetched(ops)
    /\ ~Misaligned(This, Address) /\ WordOf(Address) \in DOMAIN mem

\* Mutant of MergeBase: an unaligned load merges with what can be seen.
MergeBaseVisible == gpr[This.d]

\* An unaligned load merges with a load of its own register under way.
MergeBase ==
    IF pending.valid /\ pending.reg = This.d THEN pending.value ELSE gpr[This.d]

Queued(v) == IF This.d = Zero THEN NoLoad ELSE [valid |-> TRUE, reg |-> This.d, value |-> v]

Load ==
    /\ Accesses(Loads)
    /\ Retire(Retired, Queued(Loaded(This, Address, mem[WordOf(Address)], MergeBase)))
    /\ cause' = CauseNow
    /\ UNCHANGED <<mem, status>>

Store ==
    /\ Accesses(Stores)
    /\ mem' = [mem EXCEPT ![WordOf(Address)] = Stored(This, Address, @, Rt)]
    /\ Retire(Retired, NoLoad)
    /\ cause' = CauseNow
    /\ UNCHANGED status

-----------------------------------------------------------------------------
(* System instructions                                                     *)

Bit(v, weight) == (v \div weight) % 2 = 1
Weight(set, weight) == IF set THEN weight ELSE 0

\* The bits of Status and of Cause as far as a scaled word has room for them.
StatusWord ==
    (Weight(status.cur, 1) + Weight(status.prev, 2) + Weight(status.old, 4)
        + Weight("software" \in status.mask, 8)
        + Weight("external" \in status.mask, 16) + Weight(status.bev, 32)) % Word
CauseWord ==
    (Weight("software" \in CauseNow.ip, 1) + Weight("external" \in CauseNow.ip, 2)
        + Weight(cause.bt, 16) + Weight(cause.bd, 32)) % Word

StatusOf(v) ==
    [cur |-> Bit(v, 1), prev |-> Bit(v, 2), old |-> Bit(v, 4),
     mask |-> {l \in Lines : Bit(v, IF l = "software" THEN 8 ELSE 16)},
     bev |-> Bit(v, 32), cu2 |-> Bit(v, 64)]

SystemValue ==
    IF This.sys = "status" THEN StatusWord
    ELSE IF This.sys = "cause" THEN CauseWord
    ELSE IF This.sys = "epc" THEN epc
    ELSE IF This.sys = "target" THEN target
    ELSE bad

MoveFrom ==
    /\ Fetched({"mfc0"})
    /\ This.sys \in {"status", "cause", "epc", "target", "bad"}
    /\ Retire(Retired, Queued(SystemValue))
    /\ cause' = CauseNow
    /\ UNCHANGED <<mem, status>>

MoveTo ==
    /\ Fetched({"mtc0"})
    /\ \/ /\ This.sys = "status"
          /\ status' = StatusOf(Rt)
          /\ cause' = CauseNow
       \/ /\ This.sys = "cause"
          /\ cause' = [CauseNow EXCEPT !.ip =
                (@ \cap {"external"}) \cup (IF Bit(Rt, 1) THEN {"software"} ELSE {})]
          /\ UNCHANGED status
    /\ Retire(Retired, NoLoad)
    /\ UNCHANGED mem

Popped ==
    [cur |-> status.prev, prev |-> status.old, old |-> status.old,
     mask |-> status.mask, bev |-> status.bev, cu2 |-> status.cu2]

\* rfe pops the status stack; it does not jump.
ReturnFromException ==
    /\ Fetched({"rfe"})
    /\ status' = Popped
    /\ cause' = CauseNow
    /\ Retire(Retired, NoLoad)
    /\ UNCHANGED mem

\* A register the machine does not have.
SystemReserved ==
    /\ Fetched({"mfc0", "mtc0"})
    /\ This.sys = "reserved"
    /\ EnterException("reserved", 0)

SystemUnsupported ==
    /\ \/ Fetched({"mfc0"}) /\ This.sys = "other"
       \/ Fetched({"mtc0"}) /\ This.sys \in {"epc", "target", "bad", "other"}
       \/ Fetched({"cop2"}) /\ status.cu2
    /\ Boundary(Retired, NoLoad)

CoprocessorUnusable ==
    /\ Fetched({"cop2"})
    /\ ~status.cu2
    /\ EnterException("coprocessor", 0)

SystemCall ==
    /\ Fetched({"syscall"})
    /\ EnterException("syscall", 0)

-----------------------------------------------------------------------------
Step ==
    \/ TakeInterrupt \/ FetchMisaligned \/ FetchUnsupported \/ FetchFails
    \/ TransferInSlot \/ Compute \/ ComputeOverflows \/ Transfer
    \/ AddressFails \/ DataUnsupported \/ DataFails \/ Load \/ Store
    \/ MoveFrom \/ MoveTo \/ ReturnFromException
    \/ SystemReserved \/ SystemUnsupported \/ CoprocessorUnusable \/ SystemCall

\* Devices change the interrupt line between two steps.
Signal ==
    /\ line' = ~line
    /\ UNCHANGED <<code, mem, gpr, pc, next, pending, slot, cop0, owed>>

\* initialize_r3000a_for_psx_exe, with Status as start-up code leaves it.
Init ==
    /\ \E m \in Machines : code = m.code /\ mem = m.mem /\ status = m.status
    /\ gpr = [r \in Regs |-> 0]
    /\ pc = 0 /\ next = Plus(0, 2)
    /\ pending = NoLoad /\ slot = NoSlot
    /\ cause = [code |-> "none", bd |-> FALSE, bt |-> FALSE, ip |-> {}]
    /\ epc = 0 /\ target = 0 /\ bad = 0
    /\ line = FALSE
    /\ owed = NotOwed

Next == Step \/ Signal

Spec == Init /\ [][Next]_vars

-----------------------------------------------------------------------------
\* pc and next_pc: outside a delay slot the next instruction follows, so an
\* exception there can be returned from by setting pc alone; in one, they are
\* what the branch decided.
PcShape ==
    IF slot.active
    THEN /\ pc = Plus(slot.branch, 2)
         /\ next = IF slot.taken THEN slot.target ELSE Plus(slot.branch, 4)
    ELSE next = Plus(pc, 2)

\* A handler as the convention has it: it takes EPC and jumps there, popping the
\* status in the delay slot.
Returns(v) ==
    /\ \A k \in {0, 2, 4, 6} :
        Plus(v, k) \in (Handler \cap DOMAIN code) \ Faulty /\ LaneOf(Plus(v, k)) = 0
    /\ code[v].op = "mfc0" /\ code[v].sys = "epc" /\ code[v].d = K0
    /\ code[Plus(v, 2)].op = "mtc0" /\ code[Plus(v, 2)].sys = "cause"
    /\ code[Plus(v, 4)].op = "jalr" /\ code[Plus(v, 4)].s = K0 /\ code[Plus(v, 4)].d = Zero
    /\ code[Plus(v, 6)].op = "rfe"

\* Where the program stands: it leaves K0 to handlers, and a transfer can be
\* executed again, since it reads no register of a load under way and writes none
\* that it reads.
Considerate ==
    /\ K0 \notin {This.d, This.s, This.t}
    /\ This.op \in Control =>
        /\ pending.valid => pending.reg \notin {This.s, This.t}
        /\ Link(This) = Zero \/ Link(This) \notin {This.s, This.t}

HandlersReturn ==
    \A v \in {Vector, BootVector} :
        /\ v \in Handler /\ LaneOf(v) = 0
        /\ v \in DOMAIN code => Returns(v)

\* What the guest has to keep to: handlers return, and are entered by exceptions
\* only; the program is considerate.  A load is under way for one instruction, so
\* a transfer further behind it reads what it likes.
Disciplined ==
    /\ HandlersReturn
    /\ IF pc \in Handler THEN owed.owed ELSE pc \in DOMAIN code => Considerate

\* The instructions of the program in an instruction memory, and what may be
\* executed right after one of them: anything after the slot of a transfer.
Own(c) == DOMAIN c \ Handler
Behind(c, a) ==
    {b \in Own(c) : \/ b = Plus(a, 2)
                   \/ \E t \in DOMAIN c : c[t].op \in Control /\ Plus(t, 2) = a}

\* The conventions as far as they can be read off a program: it leaves K0 to
\* handlers, neither runs into a handler nor jumps to one by name, and none of its
\* transfers reads a register loaded right before it, or writes one it reads.
Restartable(c) ==
    \A a \in Own(c) :
        /\ K0 \notin {c[a].d, c[a].s, c[a].t}
        /\ Plus(a, 2) \notin Handler
        /\ c[a].op \in Control \ {"jalr"} => c[a].imm \notin Handler
        /\ c[a].op \in Control => Link(c[a]) = Zero \/ Link(c[a]) \notin {c[a].s, c[a].t}
        /\ c[a].op \in Loads \cup {"mfc0"} /\ c[a].d # Zero =>
            \A b \in Behind(c, a) : c[b].op \in Control => c[a].d \notin {c[b].s, c[b].t}

Conventional == 0 \notin Handler /\ HandlersReturn /\ Restartable(code)

\* The program never jumps to a handler through a register.
NoJumpToHandler ==
    pc \in Own(code) /\ slot.active /\ code[slot.branch].op = "jalr"
        => slot.target \notin Handler

\* An exception handler runs with interrupts disabled to its last instruction,
\* and what it finds in Cause, EPC and TargetAddress is enough to go on behind a
\* delay slot instead of executing the branch again.
ContextComplete ==
    pc \in Handler =>
        /\ ~status.cur
        /\ cause.bd =>
            /\ owed.at = Plus(epc, 2)
            /\ owed.next = IF cause.bt THEN target ELSE Plus(epc, 4)

\* The machine as the program sees it.
User == Regs \ {K0}
Promise ==
    INSTANCE Sequential WITH
        program <- code,
        memory <- mem,
        file <- [r \in User |-> IF pending.valid /\ pending.reg = r
                                THEN pending.value ELSE gpr[r]],
        at <- IF owed.owed THEN owed.at ELSE pc,
        next <- IF owed.owed THEN owed.next ELSE next,
        fading <- IF pending.valid /\ pending.reg \in User
                  THEN [reg |-> pending.reg, value |-> gpr[pending.reg]]
                  ELSE [reg |-> Zero, value |-> 0],
        enabled <- IF pc \in Handler THEN status.prev ELSE status.cur

\* Whatever interrupts and faults come and are returned from, in whatever state
\* of the pipeline, the program runs as if there had been none.
ExceptionsInvisible == Promise!Spec
=============================================================================
