---------------------------- MODULE R3000aProofs ----------------------------
(***************************************************************************)
(* Theorems about R3000a, for any word size, program and memory.           *)
(*                                                                         *)
(* PcShape is inductive by itself: no step needs to know how pc, next_pc   *)
(* and the delay slot came to be what they are.  Type correctness needs    *)
(* that words are put together from lanes without overflowing.             *)
(*                                                                         *)
(* That exceptions cannot be seen is a promise to a guest that keeps to    *)
(* the conventions: HandlersFindTheirContext and ExceptionsAreInvisible    *)
(* assume []Disciplined, and the last theorems say which programs that is. *)
(* ContextInv follows a handler from one instruction to the next and keeps *)
(* the program out of the handlers' addresses.  ResumeInv adds that the    *)
(* transfer which a delay slot belongs to decides the same when it is      *)
(* executed again, on the registers the handler has left.                  *)
(***************************************************************************)
EXTENDS R3000a, Integers, TLAPS

-----------------------------------------------------------------------------
\* An exception leaves no delay slot, at its vector.
LEMMA ExceptionShape ==
    ASSUME NEW kind, NEW address, EnterException(kind, address)
    PROVE  PcShape'
  BY DEF EnterException, PcShape, NoSlot

\* A boundary moves nothing.
LEMMA BoundaryShape ==
    ASSUME NEW registers, NEW load, Boundary(registers, load), PcShape
    PROVE  PcShape'
  BY DEF Boundary, PcShape

\* An instruction that is no transfer goes where the last one decided.
LEMMA RetireShape ==
    ASSUME NEW registers, NEW load, Retire(registers, load), PcShape
    PROVE  PcShape'
  BY DEF Retire, PcShape, NoSlot

\* pc, next_pc and the delay slot agree after every step: outside a delay slot
\* EPC alone says where to go on, in one the branch has decided.
THEOREM PcsAgree == Spec => []PcShape
<1>1. Init => PcShape
  BY DEF Init, PcShape, NoSlot
<1>2. PcShape /\ [Next]_vars => PcShape'
  <2> SUFFICES ASSUME PcShape, [Next]_vars PROVE PcShape'
    OBVIOUS
  <2>1. CASE TakeInterrupt \/ FetchMisaligned \/ FetchFails \/ ComputeOverflows
    BY <2>1, ExceptionShape
    DEF TakeInterrupt, FetchMisaligned, FetchFails, ComputeOverflows
  <2>2. CASE AddressFails \/ DataFails \/ SystemReserved \/ CoprocessorUnusable
                \/ SystemCall
    BY <2>2, ExceptionShape
    DEF AddressFails, DataFails, SystemReserved, CoprocessorUnusable, SystemCall
  <2>3. CASE FetchUnsupported \/ TransferInSlot \/ DataUnsupported
                \/ SystemUnsupported
    BY <2>3, BoundaryShape
    DEF FetchUnsupported, TransferInSlot, DataUnsupported, SystemUnsupported
  <2>4. CASE Compute \/ Load \/ Store
    BY <2>4, RetireShape DEF Compute, Load, Store
  <2>5. CASE MoveFrom \/ MoveTo \/ ReturnFromException
    BY <2>5, RetireShape DEF MoveFrom, MoveTo, ReturnFromException
  <2>6. CASE Transfer
    BY <2>6 DEF Transfer, PcShape
  <2>7. CASE Signal \/ UNCHANGED vars
    BY <2>7 DEF Signal, vars, PcShape
  <2> QED
    BY <2>1, <2>2, <2>3, <2>4, <2>5, <2>6, <2>7 DEF Next, Step
<1> QED
  BY <1>1, <1>2, PTL DEF Spec
-----------------------------------------------------------------------------
\* Addresses wrap around.
LEMMA PlusType ==
    ASSUME NEW a \in Nat, NEW b \in Nat
    PROVE  Plus(a, b) \in Value
  BY WordAssumption DEF Plus, Value

LEMMA LaneType ==
    ASSUME NEW v \in Value
    PROVE  High(v) \in 0 .. Lane - 1 /\ Low(v) \in 0 .. Lane - 1
  BY WordAssumption DEF High, Low, Value

\* Two lanes make a word.
LEMMA PairType ==
    ASSUME NEW high \in 0 .. Lane - 1, NEW low \in 0 .. Lane - 1
    PROVE  Pair(high, low) \in Value
<1>1. high * Lane <= (Lane - 1) * Lane
  BY WordAssumption
<1>2. (Lane - 1) * Lane = Word - Lane
  BY WordAssumption
<1> QED
  BY <1>1, <1>2, WordAssumption DEF Pair, Value

\* A lane is a word too: lb extends it with zeros.
LEMMA LaneIsValue == ASSUME NEW l \in 0 .. Lane - 1 PROVE l \in Value
<1>1. Lane <= Lane * Lane
  BY WordAssumption
<1> QED
  BY <1>1, WordAssumption DEF Value

LEMMA LoadedType ==
    ASSUME NEW i, NEW address, NEW in \in Value, NEW base \in Value
    PROVE  Loaded(i, address, in, base) \in Value
<1>1. /\ Pair(Low(in), Low(base)) \in Value
      /\ Pair(High(base), High(in)) \in Value
      /\ Low(in) \in Value /\ High(in) \in Value
  BY LaneType, PairType, LaneIsValue
<1> QED
  BY <1>1 DEF Loaded

LEMMA StoredType ==
    ASSUME NEW i, NEW address, NEW in \in Value, NEW v \in Value
    PROVE  Stored(i, address, in, v) \in Value
<1>1. /\ Pair(High(in), Low(v)) \in Value
      /\ Pair(Low(v), Low(in)) \in Value
      /\ Pair(High(in), High(v)) \in Value
  BY LaneType, PairType
<1> QED
  BY <1>1 DEF Stored

-----------------------------------------------------------------------------
(* Words that are not aligned                                              *)

LEMMA PairLanes ==
    ASSUME NEW high \in 0 .. Lane - 1, NEW low \in 0 .. Lane - 1
    PROVE  High(Pair(high, low)) = high /\ Low(Pair(high, low)) = low
<1> DEFINE n == high * Lane + low
<1>1. Lane \in Nat \ {0} /\ high \in Nat /\ low \in Nat /\ low < Lane
  BY WordAssumption
<1>2. high * Lane \in Nat
  BY <1>1
<1>3. n \in Nat
  BY <1>1, <1>2
<1> HIDE DEF n
<1>4. n = Lane * (n \div Lane) + (n % Lane) /\ n \div Lane \in Nat /\ n % Lane \in 0 .. Lane - 1
  BY <1>1, <1>3
<1> DEFINE q == n \div Lane
           m == n % Lane
<1>5. q \in Nat /\ m \in Nat /\ m < Lane /\ high * Lane + low = Lane * q + m
  BY <1>1, <1>4 DEF n
<1> HIDE DEF q, m
<1>6. q = high
  <2>1. CASE q >= high + 1
    <3>1. Lane * q >= Lane * (high + 1)
      BY <1>1, <1>5, <2>1
    <3>2. Lane * (high + 1) = high * Lane + Lane
      BY <1>1
    <3> QED BY <1>1, <1>2, <1>5, <3>1, <3>2
  <2>2. CASE high >= q + 1
    <3>1. Lane * high >= Lane * (q + 1)
      BY <1>1, <1>5, <2>2
    <3>2. Lane * (q + 1) = Lane * q + Lane /\ Lane * high = high * Lane
      BY <1>1, <1>5
    <3> QED BY <1>1, <1>2, <1>5, <3>1, <3>2
  <2> QED BY <1>1, <1>5, <2>1, <2>2
<1>7. m = low
  BY <1>1, <1>2, <1>5, <1>6
<1> QED BY <1>6, <1>7 DEF High, Low, Pair, q, m, n

LEMMA LanesPair ==
    ASSUME NEW v \in Value PROVE Pair(High(v), Low(v)) = v
<1>1. v \in Nat /\ Lane \in Nat \ {0}
  BY WordAssumption DEF Value
<1>2. v = Lane * (v \div Lane) + (v % Lane) /\ v \div Lane \in Nat
  BY <1>1
<1> DEFINE q == v \div Lane
<1>3. q * Lane = Lane * q
  BY <1>1, <1>2
<1> QED BY <1>2, <1>3 DEF Pair, High, Low

\* The lane of an address.
LaneAt(memory, address) ==
    LET word == memory[WordOf(address)]
    IN  IF LaneOf(address) = 0 THEN Low(word) ELSE High(word)

\* A word is written at an address that need not be aligned by an instruction for its
\* low lanes and one for its high ones, and read back so.
StoredAt(memory, address, low, high, v) ==
    LET lower == [memory EXCEPT ![WordOf(address)] = Stored(low, address, @, v)]
    IN  [lower EXCEPT ![WordOf(address + 1)] = Stored(high, address + 1, @, v)]
LowerFirst(memory, address, low, high, base) ==
    Loaded(high, address + 1, memory[WordOf(address + 1)],
           Loaded(low, address, memory[WordOf(address)], base))
HigherFirst(memory, address, low, high, base) ==
    Loaded(low, address, memory[WordOf(address)],
           Loaded(high, address + 1, memory[WordOf(address + 1)], base))

LEMMA Addresses ==
    ASSUME NEW address \in Nat
    PROVE  /\ LaneOf(address) \in {0, 1} /\ WordOf(address) \in Nat
           /\ LaneOf(address) = 0 => /\ WordOf(address + 1) = WordOf(address)
                                     /\ LaneOf(address + 1) = 1
           /\ LaneOf(address) = 1 => /\ WordOf(address + 1) = address + 1
                                     /\ WordOf(address + 1) # WordOf(address)
                                     /\ LaneOf(address + 1) = 0
           /\ \A other \in Nat : WordOf(other) = WordOf(address) /\ LaneOf(other) = LaneOf(address)
                                 => other = address
  BY DEF LaneOf, WordOf

\* swr and swl write the lanes of the word at the address, and no other, and lwr and lwl
\* have the word back, in either order and whatever was in the register.
THEOREM UnalignedWords ==
    ASSUME NEW address \in Nat, NEW cells, NEW memory \in [cells -> Value],
           WordOf(address) \in cells, WordOf(address + 1) \in cells,
           NEW v \in Value, NEW base \in Value,
           NEW lwl, lwl.op = "lwl", NEW lwr, lwr.op = "lwr",
           NEW swl, swl.op = "swl", NEW swr, swr.op = "swr"
    PROVE  LET after == StoredAt(memory, address, swr, swl, v)
           IN  /\ after \in [cells -> Value]
               /\ LaneAt(after, address) = Low(v) /\ LaneAt(after, address + 1) = High(v)
               /\ \A other \in Nat \ {address, address + 1} :
                    WordOf(other) \in cells => LaneAt(after, other) = LaneAt(memory, other)
               /\ LowerFirst(after, address, lwr, lwl, base) = v
               /\ HigherFirst(after, address, lwr, lwl, base) = v
<1> DEFINE after == StoredAt(memory, address, swr, swl, v)
           here == WordOf(address)
           there == WordOf(address + 1)
<1>1. /\ address + 1 \in Nat /\ here \in cells /\ there \in cells
      /\ memory[here] \in Value /\ memory[there] \in Value
  OBVIOUS
<1>2. Pair(High(v), Low(v)) = v /\ High(v) \in 0 .. Lane - 1 /\ Low(v) \in 0 .. Lane - 1
  BY LanesPair, LaneType
<1>3. CASE LaneOf(address) = 0
  <2>1. there = here /\ LaneOf(address + 1) = 1
    BY <1>3, Addresses
  <2> HIDE DEF here, there
  <2>2. after = [memory EXCEPT ![here] = v]
    <3>1. Stored(swr, address, memory[here], v) = v
      BY <1>3 DEF Stored
    <3>2. \A in : Stored(swl, address + 1, in, v) = v
      BY <2>1 DEF Stored
    <3>3. after = [[memory EXCEPT ![here] = Stored(swr, address, @, v)]
                        EXCEPT ![here] = Stored(swl, address + 1, @, v)]
      BY <2>1 DEF StoredAt, here, there
    <3> HIDE DEF after
    <3>4. after = [[memory EXCEPT ![here] = v] EXCEPT ![here] = v]
      BY <3>1, <3>2, <3>3
    <3> QED BY <3>4
  <2> HIDE DEF after
  <2>3. after \in [cells -> Value] /\ after[here] = v
        /\ \A w \in cells : w # here => after[w] = memory[w]
    BY <1>1, <2>2
  <2>4. LaneAt(after, address) = Low(v) /\ LaneAt(after, address + 1) = High(v)
    BY <1>3, <2>1, <2>3 DEF LaneAt, here, there
  <2>5. ASSUME NEW other \in Nat \ {address, address + 1}, WordOf(other) \in cells
        PROVE  LaneAt(after, other) = LaneAt(memory, other)
    <3>1. WordOf(other) # here
      <4>1. LaneOf(other) \in {0, 1}
        BY Addresses
      <4> QED BY <1>1, <1>3, <2>1, <2>5, <4>1, Addresses DEF here, there
    <3> QED BY <2>3, <2>5, <3>1 DEF LaneAt
  <2>6. /\ LowerFirst(after, address, lwr, lwl, base) = v
        /\ HigherFirst(after, address, lwr, lwl, base) = v
    BY <1>3, <2>1, <2>3 DEF LowerFirst, HigherFirst, Loaded, here, there
  <2> QED BY <2>3, <2>4, <2>5, <2>6 DEF after
<1>4. CASE LaneOf(address) = 1
  <2>1. there # here /\ LaneOf(address + 1) = 0
    BY <1>4, Addresses
  <2> DEFINE x == Pair(Low(v), Low(memory[here]))
             y == Pair(High(memory[there]), High(v))
  <2>2. /\ x \in Value /\ High(x) = Low(v) /\ Low(x) = Low(memory[here])
        /\ y \in Value /\ Low(y) = High(v) /\ High(y) = High(memory[there])
    BY <1>1, <1>2, LaneType, PairType, PairLanes
  <2>3. after = [memory EXCEPT ![here] = x, ![there] = y]
    <3>1. Stored(swr, address, memory[here], v) = x
      BY <1>4 DEF Stored
    <3>2. Stored(swl, address + 1, memory[there], v) = y
      BY <2>1 DEF Stored
    <3> HIDE DEF here, there, x, y
    <3>3. after = [[memory EXCEPT ![here] = Stored(swr, address, @, v)]
                        EXCEPT ![there] = Stored(swl, address + 1, @, v)]
      BY DEF StoredAt, here, there
    <3> HIDE DEF after
    <3> QED BY <1>1, <2>1, <3>1, <3>2, <3>3
  <2> HIDE DEF after, x, y
  <2>4. after \in [cells -> Value] /\ after[here] = x /\ after[there] = y
        /\ \A w \in cells : w # here /\ w # there => after[w] = memory[w]
    BY <1>1, <2>1, <2>2, <2>3
  <2>5. LaneAt(after, address) = Low(v) /\ LaneAt(after, address + 1) = High(v)
    BY <1>4, <2>1, <2>2, <2>4 DEF LaneAt
  <2>6. ASSUME NEW other \in Nat \ {address, address + 1}, WordOf(other) \in cells
        PROVE  LaneAt(after, other) = LaneAt(memory, other)
    <3>1. LaneOf(other) \in {0, 1}
      BY Addresses
    <3>2. WordOf(other) = here => LaneOf(other) = 0
      BY <1>4, <2>6, <3>1, Addresses
    <3>3. WordOf(other) = there => LaneOf(other) = 1
      BY <1>1, <2>1, <2>6, <3>1, Addresses
    <3> HIDE DEF here, there
    <3> QED BY <2>1, <2>2, <2>4, <2>6, <3>1, <3>2, <3>3 DEF LaneAt
  <2>7. /\ Loaded(lwr, address, x, base) = Pair(High(base), Low(v))
        /\ Loaded(lwl, address + 1, y, base) = Pair(High(v), Low(base))
        /\ \A b : Low(b) = Low(v) => Loaded(lwl, address + 1, y, b) = v
        /\ \A b : High(b) = High(v) => Loaded(lwr, address, x, b) = v
    BY <1>2, <1>4, <2>1, <2>2 DEF Loaded
  <2>8. /\ Low(Pair(High(base), Low(v))) = Low(v)
        /\ High(Pair(High(v), Low(base))) = High(v)
    BY <1>2, LaneType, PairLanes
  <2>9. /\ LowerFirst(after, address, lwr, lwl, base) = v
        /\ HigherFirst(after, address, lwr, lwl, base) = v
    BY <2>4, <2>7, <2>8 DEF LowerFirst, HigherFirst
  <2> QED BY <2>4, <2>5, <2>6, <2>9 DEF after
<1> QED BY <1>3, <1>4, Addresses

-----------------------------------------------------------------------------
\* A register file: the values of the registers, $zero being zero.
File(f) == f \in [Regs -> Value] /\ f[Zero] = 0
LoadRecord == [valid : BOOLEAN, reg : Regs, value : Value]
LoadOK(l) == l \in LoadRecord /\ (l.valid => l.reg # Zero)

LEMMA WrittenType ==
    ASSUME NEW f, File(f), NEW r \in Regs, NEW v \in Value
    PROVE  File(Written(f, r, v))
  BY RegsAssumption DEF File, Written

LEMMA NoLoadType == LoadOK(NoLoad)
  BY RegsAssumption, WordAssumption DEF LoadOK, LoadRecord, NoLoad, Value

LEMMA QueuedType ==
    ASSUME NEW v \in Value, This.d \in Regs
    PROVE  LoadOK(Queued(v))
<1>1. CASE This.d = Zero
  BY <1>1, NoLoadType DEF Queued
<1>2. CASE This.d # Zero
  BY <1>2 DEF Queued, LoadOK, LoadRecord
<1> QED
  BY <1>1, <1>2

LEMMA RetiredType == ASSUME TypeOK PROVE File(Retired)
<1>1. File(gpr) /\ pending.reg \in Regs /\ pending.value \in Value
  BY DEF TypeOK, File
<1> QED
  BY <1>1, WrittenType DEF Retired

LEMMA CauseNowType ==
    ASSUME TypeOK
    PROVE  CauseNow \in Cause /\ CauseNow.ip \in SUBSET Lines
<1>1. cause.ip \in SUBSET Lines /\ cause \in Cause
  BY DEF TypeOK, Cause
<1> DEFINE ip == (cause.ip \cap {"software"}) \cup (IF line THEN {"external"} ELSE {})
<1>2. ip \in SUBSET Lines
  BY <1>1 DEF Lines
<1>3. CauseNow = [cause EXCEPT !.ip = ip]
  BY DEF CauseNow
<1> HIDE DEF ip
<1> QED
  BY <1>1, <1>2, <1>3 DEF Cause

\* The instruction fetched, and its operands.
LEMMA OperandType ==
    ASSUME TypeOK, pc \in DOMAIN code
    PROVE  /\ This \in Instruction /\ This.d \in Regs /\ This.imm \in Value
           /\ Rs \in Value /\ Rt \in Value /\ Address \in Value
<1>1. This \in Instruction
  BY DEF TypeOK, Code, This
<1>2. This.d \in Regs /\ This.s \in Regs /\ This.t \in Regs /\ This.imm \in Value
  BY <1>1 DEF Instruction
<1>3. Rs \in Value /\ Rt \in Value
  BY <1>2 DEF TypeOK, Rs, Rt
<1>4. Address \in Value
  <2>1. Rs \in Nat /\ This.imm \in Nat
    BY <1>2, <1>3 DEF Value
  <2> QED
    BY <2>1, PlusType DEF Address
<1> QED
  BY <1>1, <1>2, <1>3, <1>4

LEMMA ExceptionType ==
    ASSUME TypeOK, NEW kind \in Codes, NEW address \in Value,
           EnterException(kind, address)
    PROVE  TypeOK'
<1> USE DEF EnterException
<1>1. gpr' \in [Regs -> Value] /\ gpr'[Zero] = 0
  BY RetiredType DEF File
<1>2. pending' \in LoadRecord /\ ~pending'.valid
  BY NoLoadType DEF LoadOK, NoLoad
<1>3. InTakenSlot \in BOOLEAN /\ slot.active \in BOOLEAN
      /\ slot.branch \in Value /\ slot.target \in Value
  BY DEF TypeOK, InTakenSlot
<1>4. cause' \in Cause
  BY <1>3, CauseNowType DEF Cause
<1>5. epc' \in Value /\ target' \in Value /\ bad' \in Value
  BY <1>3 DEF TypeOK, Restart
<1>6. status' \in Status
  BY DEF TypeOK, Pushed, Status
<1>7. pc' \in Value /\ next' \in Value
  <2>1. ExceptionVector \in Value
    BY MachineAssumption DEF ExceptionVector
  <2>2. Plus(ExceptionVector, 2) \in Value
    BY <2>1, PlusType DEF Value
  <2> QED
    BY <2>1, <2>2
<1>8. slot' \in [active : BOOLEAN, branch : Value, taken : BOOLEAN, target : Value]
  BY WordAssumption DEF NoSlot, Value
<1>9. owed' \in [owed : BOOLEAN, at : Value, next : Value]
  BY DEF TypeOK, Suspended
<1>10. /\ code' = code /\ mem' = mem /\ line' = line
  OBVIOUS
<1> QED
  BY <1>1, <1>2, <1>4, <1>5, <1>6, <1>7, <1>8, <1>9, <1>10 DEF TypeOK, LoadRecord

LEMMA BoundaryType ==
    ASSUME TypeOK, NEW registers, File(registers), NEW load, LoadOK(load),
           Boundary(registers, load)
    PROVE  TypeOK'
<1>1. cause' \in Cause
  BY CauseNowType DEF Boundary
<1> QED
  BY <1>1 DEF Boundary, TypeOK, File, LoadOK, LoadRecord

\* What Retire leaves well typed; status, cause and memory are the caller's.
LEMMA RetireType ==
    ASSUME TypeOK, NEW registers, File(registers), NEW load, LoadOK(load),
           Retire(registers, load),
           status' \in Status, cause' \in Cause,
           Words(mem')
    PROVE  TypeOK'
<1>1. next' \in Value /\ pc' \in Value
  BY PlusType DEF Retire, TypeOK, Value
<1>2. slot' \in [active : BOOLEAN, branch : Value, taken : BOOLEAN, target : Value]
  BY WordAssumption DEF Retire, TypeOK, NoSlot, Value
<1>3. owed' \in [owed : BOOLEAN, at : Value, next : Value]
  BY WordAssumption DEF Retire, Resumes, NotOwed, TypeOK, Value
<1> QED
  BY <1>1, <1>2, <1>3 DEF Retire, TypeOK, File, LoadOK, LoadRecord

-----------------------------------------------------------------------------
LEMMA InitialType == Init => TypeOK
<1> SUFFICES ASSUME Init PROVE TypeOK
  OBVIOUS
<1>1. 0 \in Value
  BY WordAssumption DEF Value
<1>2. Code(code) /\ Words(mem) /\ status \in Status
  BY ProgramsAssumption DEF Init
<1>3. pc \in Value /\ next \in Value
  BY <1>1, PlusType DEF Init
<1>4. cause \in Cause
  BY DEF Init, Cause, Codes
<1>5. LoadOK(pending)
  BY NoLoadType DEF Init
<1>6. /\ slot \in [active : BOOLEAN, branch : Value, taken : BOOLEAN, target : Value]
      /\ owed \in [owed : BOOLEAN, at : Value, next : Value]
  BY <1>1 DEF Init, NoSlot, NotOwed
<1>7. gpr \in [Regs -> Value] /\ gpr[Zero] = 0 /\ line \in BOOLEAN
      /\ epc \in Value /\ target \in Value /\ bad \in Value
  BY <1>1, RegsAssumption DEF Init
<1> QED
  BY <1>2, <1>3, <1>4, <1>5, <1>6, <1>7 DEF TypeOK, LoadOK, LoadRecord

\* What mfc0 reads is a word.
LEMMA SystemValueType == ASSUME TypeOK PROVE SystemValue \in Value
<1>1. StatusWord \in Value
  <2>1. Weight(status.cur, 1) \in Nat /\ Weight(status.prev, 2) \in Nat
        /\ Weight(status.old, 4) \in Nat /\ Weight(status.bev, 32) \in Nat
        /\ Weight("software" \in status.mask, 8) \in Nat
        /\ Weight("external" \in status.mask, 16) \in Nat
    BY DEF Weight
  <2> QED
    BY <2>1, WordAssumption DEF StatusWord, Value
<1>2. CauseWord \in Value
  <2>1. Weight("software" \in CauseNow.ip, 1) \in Nat
        /\ Weight("external" \in CauseNow.ip, 2) \in Nat
        /\ Weight(cause.bt, 16) \in Nat /\ Weight(cause.bd, 32) \in Nat
    BY DEF Weight
  <2> QED
    BY <2>1, WordAssumption DEF CauseWord, Value
<1> QED
  BY <1>1, <1>2 DEF SystemValue, TypeOK

\* The instructions that end in Retire, and what each of them hands to it.
LEMMA RetiringType ==
    ASSUME TypeOK, Compute \/ Load \/ Store \/ MoveFrom \/ MoveTo
                        \/ ReturnFromException
    PROVE  TypeOK'
<1>1. pc \in DOMAIN code
  BY DEF Compute, Load, Store, MoveFrom, MoveTo, ReturnFromException, Accesses, Fetched
<1>2. /\ This.d \in Regs /\ Rs \in Value /\ Rt \in Value /\ Address \in Value
      /\ File(Retired) /\ LoadOK(NoLoad) /\ CauseNow \in Cause /\ status \in Status
  BY <1>1, OperandType, RetiredType, NoLoadType, CauseNowType DEF TypeOK
<1>3. Words(mem)
  BY DEF TypeOK
<1>4. CASE Compute
  <2>1. Plus(Rs, Rt) \in Value
    <3>1. Rs \in Nat /\ Rt \in Nat
      BY <1>2 DEF Value
    <3> QED
      BY <3>1, PlusType
  <2>2. File(Written(Retired, This.d, Plus(Rs, Rt)))
    BY <1>2, <2>1, WrittenType
  <2> QED
    BY <1>2, <1>3, <1>4, <2>2, RetireType DEF Compute
<1>5. CASE Load
  <2>1. mem[WordOf(Address)] \in Value /\ MergeBase \in Value
    BY <1>2, <1>3, <1>5 DEF Load, Accesses, MergeBase, TypeOK, Words
  <2> DEFINE loaded == Loaded(This, Address, mem[WordOf(Address)], MergeBase)
  <2>2. LoadOK(Queued(loaded))
    BY <1>2, <2>1, LoadedType, QueuedType
  <2> QED
    BY <1>2, <1>3, <1>5, <2>2, RetireType DEF Load
<1>6. CASE Store
  <2> DEFINE word == WordOf(Address)
             stored == Stored(This, Address, mem[word], Rt)
  <2>1. word \in DOMAIN mem
    BY <1>6 DEF Store, Accesses
  <2>2. stored \in Value
    BY <1>2, <1>3, <2>1, StoredType DEF Words
  <2>3. mem' = [mem EXCEPT ![word] = stored]
    BY <1>6 DEF Store
  <2> HIDE DEF word, stored
  <2>4. Words(mem')
    BY <1>3, <2>2, <2>3 DEF Words
  <2> QED
    BY <1>2, <1>6, <2>4, RetireType DEF Store
<1>7. CASE MoveFrom
  <2>1. SystemValue \in Value
    BY SystemValueType
  <2>2. LoadOK(Queued(SystemValue))
    BY <1>2, <2>1, QueuedType
  <2> QED
    BY <1>2, <1>3, <1>7, <2>2, RetireType DEF MoveFrom
<1>8. CASE MoveTo
  <2>1. StatusOf(Rt) \in Status
    BY DEF StatusOf, Status, Bit
  <2>2. cause' \in Cause /\ status' \in Status
    <3> DEFINE ip == (CauseNow.ip \cap {"external"})
                        \cup (IF Bit(Rt, 1) THEN {"software"} ELSE {})
    <3>1. ip \in SUBSET Lines
      BY DEF Lines
    <3>2. cause' = CauseNow \/ cause' = [CauseNow EXCEPT !.ip = ip]
      BY <1>8 DEF MoveTo
    <3> HIDE DEF ip
    <3> QED
      BY <1>2, <1>8, <2>1, <3>1, <3>2 DEF MoveTo, Cause
  <2> QED
    BY <1>2, <1>3, <1>8, <2>2, RetireType DEF MoveTo
<1>9. CASE ReturnFromException
  <2>1. Popped \in Status
    BY DEF Popped, Status, TypeOK
  <2> QED
    BY <1>2, <1>3, <1>9, <2>1, RetireType DEF ReturnFromException
<1> QED
  BY <1>4, <1>5, <1>6, <1>7, <1>8, <1>9

LEMMA TransferType == ASSUME TypeOK, Transfer PROVE TypeOK'
<1> DEFINE taken == Taken(This, Rs, Rt)
           to == Target(This, Rs)
<1>1. pc \in DOMAIN code /\ pc \in Nat
  BY DEF Transfer, Fetched, TypeOK, Value
<1>2. This.d \in Regs /\ Rs \in Value /\ This.imm \in Value /\ CauseNow \in Cause
  BY <1>1, OperandType, CauseNowType
<1>3. to \in Value
  BY <1>2 DEF Target
<1>4. Plus(pc, 2) \in Value /\ Plus(pc, 4) \in Value
  BY <1>1, PlusType
<1>5. taken \in BOOLEAN
  BY DEF Taken
<1>6. Link(This) \in Regs
  BY <1>2, RegsAssumption DEF Link
<1>7. File(Written(Retired, Link(This), Plus(pc, 4)))
  BY <1>4, <1>6, RetiredType, WrittenType
<1>8. LoadOK(NoLoad)
  BY NoLoadType
<1>9. slot' \in [active : BOOLEAN, branch : Value, taken : BOOLEAN, target : Value]
  <2>1. slot' = [active |-> TRUE, branch |-> pc, taken |-> taken, target |-> to]
    BY DEF Transfer
  <2> HIDE DEF taken, to
  <2> QED
    BY <1>3, <1>5, <2>1 DEF TypeOK
<1>10. pc' \in Value /\ next' \in Value
  <2>1. pc' = Plus(pc, 2) /\ next' = IF taken THEN to ELSE Plus(pc, 4)
    BY DEF Transfer
  <2> HIDE DEF taken, to
  <2> QED
    BY <1>3, <1>4, <1>5, <2>1
<1>11. owed' \in [owed : BOOLEAN, at : Value, next : Value]
  BY WordAssumption DEF Transfer, Resumes, NotOwed, TypeOK, Value
<1>12. /\ gpr' = Written(Retired, Link(This), Plus(pc, 4)) /\ pending' = NoLoad
       /\ cause' = CauseNow
       /\ UNCHANGED <<code, mem, status, epc, target, bad, line>>
  BY DEF Transfer
<1> QED
  BY <1>2, <1>7, <1>8, <1>9, <1>10, <1>11, <1>12 DEF TypeOK, File, LoadOK, LoadRecord

\* Every register, load under way and address stays a word, whatever program
\* runs: addresses wrap, lanes fit, and $zero is never written.
THEOREM TypeCorrect == Spec => []TypeOK
<1>1. TypeOK /\ [Next]_vars => TypeOK'
  <2> SUFFICES ASSUME TypeOK, [Next]_vars PROVE TypeOK'
    OBVIOUS
  <2>1. 0 \in Value /\ pc \in Value
    BY WordAssumption DEF TypeOK, Value
  <2>2. CASE TakeInterrupt \/ FetchMisaligned \/ FetchFails \/ ComputeOverflows
                \/ DataFails \/ SystemReserved \/ CoprocessorUnusable \/ SystemCall
    <3>1. PICK kind \in Codes, address \in Value : EnterException(kind, address)
      BY <2>1, <2>2
      DEF TakeInterrupt, FetchMisaligned, FetchFails, ComputeOverflows, DataFails,
          SystemReserved, CoprocessorUnusable, SystemCall, Codes
    <3> QED
      BY <3>1, ExceptionType
  <2>3. CASE AddressFails
    <3>1. Address \in Value
      BY <2>3, OperandType DEF AddressFails, Fetched
    <3> QED
      BY <2>3, <3>1, ExceptionType DEF AddressFails, Codes
  <2>4. CASE FetchUnsupported \/ DataUnsupported \/ SystemUnsupported
    BY <2>4, BoundaryType, RetiredType, NoLoadType
    DEF FetchUnsupported, DataUnsupported, SystemUnsupported
  <2>5. CASE TransferInSlot
    <3>1. File(gpr) /\ LoadOK(pending)
      BY DEF TypeOK, File, LoadOK, LoadRecord
    <3> QED
      BY <2>5, <3>1, BoundaryType DEF TransferInSlot
  <2>6. CASE Compute \/ Load \/ Store \/ MoveFrom \/ MoveTo \/ ReturnFromException
    BY <2>6, RetiringType
  <2>7. CASE Transfer
    BY <2>7, TransferType
  <2>8. CASE Signal \/ UNCHANGED vars
    BY <2>8 DEF Signal, cop0, vars, TypeOK
  <2> QED
    BY <2>2, <2>3, <2>4, <2>5, <2>6, <2>7, <2>8 DEF Next, Step
<1> QED
  BY <1>1, InitialType, PTL DEF Spec

-----------------------------------------------------------------------------
(* Addresses wrap around wherever one counts from.                         *)

LEMMA Division ==
    ASSUME NEW a \in Nat
    PROVE  a \div Word \in Nat /\ a % Word \in 0 .. Word - 1
           /\ a = (a \div Word) * Word + (a % Word)
  BY WordAssumption
\* No multiple of Word but zero is less than Word.
LEMMA Multiple == ASSUME NEW k \in Int PROVE k * Word > -Word /\ k * Word < Word => k = 0
<1>1. k >= 1 => k * Word >= Word
  BY WordAssumption
<1>2. k <= -1 => k * Word <= -Word
  BY WordAssumption
<1> QED BY <1>1, <1>2, WordAssumption
LEMMA Remainder ==
    ASSUME NEW q \in Nat, NEW r \in 0 .. Word - 1
    PROVE  (q * Word + r) % Word = r
<1> DEFINE a == q * Word + r
           d == a \div Word
           e == a % Word
<1>1. a \in Nat
  BY WordAssumption
<1>2. d \in Int /\ e \in 0 .. Word - 1 /\ q * Word + r = d * Word + e
  <2> HIDE DEF a
  <2>1. d \in Int /\ e \in 0 .. Word - 1 /\ a = d * Word + e
    BY <1>1, Division
  <2> QED BY <2>1 DEF a
<1> HIDE DEF d, e
<1>3. (q - d) * Word = e - r
  <2>1. (q - d) * Word = q * Word - d * Word
    BY <1>2, WordAssumption
  <2>2. q * Word \in Int /\ d * Word \in Int
    BY <1>2, WordAssumption
  <2> QED BY <1>2, <2>1, <2>2, WordAssumption
<1>4. q - d \in Int /\ e - r > -Word /\ e - r < Word
  BY <1>2, WordAssumption
<1>5. q - d = 0
  BY <1>3, <1>4, Multiple
<1>6. e = r
  BY <1>2, <1>3, <1>5, WordAssumption
<1> QED BY <1>6 DEF e
\* Two steps forward are one.
LEMMA PlusPlus ==
    ASSUME NEW a \in Nat, NEW b \in Nat, NEW c \in Nat
    PROVE  Plus(Plus(a, b), c) = Plus(a, b + c)
<1> DEFINE q == (a + b) \div Word  r == (a + b) % Word
           p == (r + c) \div Word  s == (r + c) % Word
<1>1. q \in Nat /\ r \in Nat /\ a + b = q * Word + r
  BY WordAssumption
<1>2. p \in Nat /\ s \in 0 .. Word - 1 /\ r + c = p * Word + s
  <2> HIDE DEF r
  <2>1. r + c \in Nat
    BY <1>1
  <2> QED BY <2>1, Division
<1>3. Plus(Plus(a, b), c) = s
  BY DEF Plus
<1> HIDE DEF q, r, p, s
<1>4. a + (b + c) = (q + p) * Word + s
  BY <1>1, <1>2, WordAssumption
<1>5. ((q + p) * Word + s) % Word = s
  BY <1>1, <1>2, Remainder
<1> QED BY <1>3, <1>4, <1>5 DEF Plus

LEMMA PlusZero == ASSUME NEW a \in Value PROVE Plus(a, 0) = a
  BY WordAssumption DEF Plus, Value

-----------------------------------------------------------------------------
(* Handlers                                                                *)

Vectors == {Vector, BootVector}

\* What a handler has done when it has got to each of its instructions: it has
\* EPC on the way to K0, in K0, and as the target of its jump.
Phase ==
    \/ pc \in Vectors /\ ~slot.active /\ ~pending.valid
    \/ \E v \in Vectors :
        /\ v \in DOMAIN code
        /\ \/ /\ pc = Plus(v, 2) /\ ~slot.active
              /\ pending = [valid |-> TRUE, reg |-> K0, value |-> epc]
           \/ /\ pc = Plus(v, 4) /\ ~slot.active /\ ~pending.valid
              /\ gpr[K0] = epc
           \/ /\ pc = Plus(v, 6) /\ ~pending.valid
              /\ slot.active /\ slot.taken /\ slot.target = epc

\* What a step of a handler leaves alone, and where it leads.
HandlerLeaves ==
    /\ UNCHANGED <<code, mem, owed, epc, target>>
    /\ \A r \in User : gpr'[r] = gpr[r]
    /\ pending.valid => pending.reg = K0
    /\ pending'.valid => pending'.reg = K0
    /\ cause'.bd = cause.bd /\ cause'.bt = cause.bt
    /\ \/ pc' \in Handler /\ Phase' /\ status' = status
       \/ pc' = epc /\ ~slot'.active /\ ~pending'.valid /\ status'.cur = status.prev

LEMMA Places ==
    ASSUME Disciplined, NEW v \in Vectors, v \in DOMAIN code
    PROVE  Returns(v)
  BY DEF Disciplined, HandlersReturn, Vectors

\* Nothing comes between a handler and its instructions.
LEMMA Runs ==
    ASSUME Step, ~status.cur, LaneOf(pc) = 0, pc \in DOMAIN code, pc \notin Faulty
    PROVE  /\ ~Interrupted
           /\ code[pc].op = "mfc0" /\ code[pc].sys = "epc" => MoveFrom
           /\ code[pc].op = "mtc0" /\ code[pc].sys = "cause" => MoveTo
           /\ code[pc].op = "jalr" /\ ~slot.active => Transfer
           /\ code[pc].op = "rfe" => ReturnFromException
<1>1. ~Interrupted
  BY DEF Interrupted
<1>2. ~TakeInterrupt /\ ~FetchMisaligned /\ ~FetchUnsupported /\ ~FetchFails
  BY <1>1 DEF TakeInterrupt, FetchMisaligned, FetchUnsupported, FetchFails
<1> DEFINE op == code[pc].op
<1>3. /\ TransferInSlot => op \in Control /\ slot.active
      /\ Transfer => op \in Control
      /\ Compute => op \in Direct
      /\ ComputeOverflows => op = "add"
  BY DEF TransferInSlot, Transfer, Compute, ComputeOverflows, Fetched
<1>4. /\ AddressFails \/ DataUnsupported \/ DataFails => op \in Loads \cup Stores
      /\ Load => op \in Loads
      /\ Store => op \in Stores
  BY DEF AddressFails, DataUnsupported, DataFails, Load, Store, Accesses, Fetched
<1>5. /\ MoveFrom => op = "mfc0"
      /\ MoveTo => op = "mtc0"
      /\ ReturnFromException => op = "rfe"
      /\ SystemReserved => op \in {"mfc0", "mtc0"} /\ code[pc].sys = "reserved"
      /\ SystemUnsupported => \/ op = "cop2"
                              \/ op = "mfc0" /\ code[pc].sys = "other"
                              \/ op = "mtc0" /\ code[pc].sys \in {"epc", "target", "bad", "other"}
      /\ CoprocessorUnusable => op = "cop2"
      /\ SystemCall => op = "syscall"
  BY DEF MoveFrom, MoveTo, ReturnFromException, SystemReserved, SystemUnsupported,
         CoprocessorUnusable, SystemCall, Fetched, This
<1> HIDE DEF op
<1>6. CASE op = "mfc0" /\ code[pc].sys = "epc"
  BY <1>1, <1>2, <1>3, <1>4, <1>5, <1>6
  DEF Step, Control, Jumps, Branches, Direct, Loads, Stores, op
<1>7. CASE op = "mtc0" /\ code[pc].sys = "cause"
  BY <1>1, <1>2, <1>3, <1>4, <1>5, <1>7
  DEF Step, Control, Jumps, Branches, Direct, Loads, Stores, op
<1>8. CASE op = "jalr" /\ ~slot.active
  BY <1>1, <1>2, <1>3, <1>4, <1>5, <1>8
  DEF Step, Control, Jumps, Branches, Direct, Loads, Stores, op
<1>9. CASE op = "rfe"
  BY <1>1, <1>2, <1>3, <1>4, <1>5, <1>9
  DEF Step, Control, Jumps, Branches, Direct, Loads, Stores, op
<1> QED
  BY <1>1, <1>6, <1>7, <1>8, <1>9 DEF op

\* A step of a handler takes it to its next instruction, and the last one back.
LEMMA HandlerStep ==
    ASSUME TypeOK, PcShape, Disciplined, pc \in Handler, ~status.cur, Phase, Step
    PROVE  HandlerLeaves
<1> USE MachineAssumption
<1>1. CauseNow.bd = cause.bd /\ CauseNow.bt = cause.bt
  BY DEF CauseNow, TypeOK, Cause
<1>2. Vectors \subseteq Value /\ Vectors \subseteq Nat
  BY WordAssumption DEF Vectors, Value
<1>3. \A r \in User : Written(gpr, K0, epc)[r] = gpr[r]
  BY DEF Written, User, TypeOK
<1>4. CASE pc \in Vectors /\ ~slot.active /\ ~pending.valid
  <2>1. Retired = gpr
    BY <1>4 DEF Retired
  <2>2. CASE pc \notin DOMAIN code
    <3>1. LaneOf(pc) = 0
      BY <1>4 DEF Disciplined, HandlersReturn, Vectors
    <3>2. ~Interrupted
      BY DEF Interrupted
    <3>3. Boundary(Retired, NoLoad)
      <4>1. ~TakeInterrupt /\ ~FetchMisaligned /\ ~FetchFails /\ \A ops : ~Fetched(ops)
        BY <2>2, <3>1, <3>2 DEF TakeInterrupt, FetchMisaligned, FetchFails, Fetched
      <4>2. FetchUnsupported
        BY <4>1 DEF Step, TransferInSlot, Transfer, Compute, ComputeOverflows, AddressFails, DataUnsupported,
           DataFails, Load, Store, Accesses, MoveFrom, MoveTo, ReturnFromException,
           SystemReserved, SystemUnsupported, CoprocessorUnusable, SystemCall
      <4> QED
        BY <4>2 DEF FetchUnsupported
    <3> QED
      BY <1>1, <1>4, <2>1, <3>3 DEF Boundary, NoLoad, HandlerLeaves, Phase
  <2>3. CASE pc \in DOMAIN code
    <3>1. Returns(pc) /\ Plus(pc, 0) = pc
      BY <1>2, <1>4, <2>3, Places, PlusZero
    <3>2. MoveFrom
      BY <2>3, <3>1, Runs DEF Returns
    <3>3. pending' = [valid |-> TRUE, reg |-> K0, value |-> epc]
      BY <3>1, <3>2, RegsAssumption DEF MoveFrom, Retire, Queued, This, SystemValue, Returns
    <3>4. /\ gpr' = gpr /\ pc' = Plus(pc, 2) /\ ~slot'.active
          /\ UNCHANGED <<code, mem, owed, epc, target, status>> /\ cause' = CauseNow
      BY <1>4, <2>1, <3>2 DEF MoveFrom, Retire, Resumes, PcShape
    <3>5. pc' \in Handler
      BY <3>1, <3>4 DEF Returns
    <3>6. Phase'
      BY <1>4, <2>3, <3>3, <3>4 DEF Phase
    <3> QED
      BY <1>1, <1>4, <3>3, <3>4, <3>5, <3>6 DEF HandlerLeaves
  <2> QED
    BY <2>2, <2>3
<1>5. ASSUME NEW v \in Vectors, v \in DOMAIN code, pc = Plus(v, 2), ~slot.active,
             pending = [valid |-> TRUE, reg |-> K0, value |-> epc]
      PROVE  HandlerLeaves
  <2>1. Returns(v)
    BY <1>5, Places
  <2>2. MoveTo
    BY <1>5, <2>1, Runs DEF Returns
  <2>3. pc' = Plus(v, 4)
    <3>1. pc' = Plus(Plus(v, 2), 2)
      BY <1>5, <2>2 DEF MoveTo, Retire, PcShape
    <3> QED
      BY <1>2, <1>5, <3>1, PlusPlus
  <2>4. gpr' = Written(gpr, K0, epc)
    BY <1>5, <2>2 DEF MoveTo, Retire, Retired
  <2>5. gpr'[K0] = epc
    BY <2>4 DEF Written, TypeOK
  <2>6. /\ ~slot'.active /\ ~pending'.valid
        /\ UNCHANGED <<code, mem, owed, epc, target>>
    BY <1>5, <2>2 DEF MoveTo, Retire, Resumes, NoLoad
  <2>7. status' = status /\ cause'.bd = cause.bd /\ cause'.bt = cause.bt
    BY <1>1, <1>5, <2>1, <2>2 DEF MoveTo, This, Returns, CauseNow, TypeOK, Cause
  <2>8. pc' \in Handler
    BY <2>1, <2>3 DEF Returns
  <2>9. Phase'
    BY <1>5, <2>3, <2>5, <2>6 DEF Phase
  <2> QED
    BY <1>3, <1>5, <2>4, <2>6, <2>7, <2>8, <2>9 DEF HandlerLeaves
<1>6. ASSUME NEW v \in Vectors, v \in DOMAIN code, pc = Plus(v, 4), ~slot.active,
             ~pending.valid, gpr[K0] = epc
      PROVE  HandlerLeaves
  <2>1. Returns(v)
    BY <1>6, Places
  <2>2. Transfer
    BY <1>6, <2>1, Runs DEF Returns
  <2>3. pc' = Plus(v, 6)
    <3>1. pc' = Plus(Plus(v, 4), 2)
      BY <1>6, <2>2 DEF Transfer
    <3> QED
      BY <1>2, <1>6, <3>1, PlusPlus
  <2>4. gpr' = gpr
    BY <1>6, <2>1, <2>2 DEF Transfer, Retired, Written, Link, This, Returns
  <2>5. slot'.active /\ slot'.taken /\ slot'.target = epc
    BY <1>6, <2>1, <2>2 DEF Transfer, Taken, Target, This, Rs, Returns
  <2>6. /\ ~pending'.valid /\ cause' = CauseNow
        /\ UNCHANGED <<code, mem, owed, epc, target, status>>
    BY <1>6, <2>2 DEF Transfer, Resumes, NoLoad
  <2>7. pc' \in Handler
    BY <2>1, <2>3 DEF Returns
  <2>8. Phase'
    BY <1>6, <2>3, <2>5, <2>6 DEF Phase
  <2> QED
    BY <1>1, <1>6, <2>4, <2>6, <2>7, <2>8 DEF HandlerLeaves
<1>7. ASSUME NEW v \in Vectors, v \in DOMAIN code, pc = Plus(v, 6), ~pending.valid,
             slot.active, slot.taken, slot.target = epc
      PROVE  HandlerLeaves
  <2>1. Returns(v)
    BY <1>7, Places
  <2>2. ReturnFromException
    BY <1>7, <2>1, Runs DEF Returns
  <2>3. pc' = epc /\ ~slot'.active /\ ~pending'.valid /\ gpr' = gpr
    BY <1>7, <2>2 DEF ReturnFromException, Retire, Retired, NoLoad, NoSlot, PcShape
  <2>4. status'.cur = status.prev /\ cause' = CauseNow
        /\ UNCHANGED <<code, mem, owed, epc, target>>
    BY <1>7, <2>2 DEF ReturnFromException, Retire, Resumes, Popped
  <2> QED
    BY <1>1, <1>7, <2>3, <2>4 DEF HandlerLeaves
<1> QED
  BY <1>4, <1>5, <1>6, <1>7 DEF Phase

-----------------------------------------------------------------------------
Context ==
    cause.bd =>
        /\ owed.at = Plus(epc, 2)
        /\ owed.next = IF cause.bt THEN target ELSE Plus(epc, 4)

InHandler == owed.owed /\ ~status.cur /\ epc \notin Handler /\ Context /\ Phase
InProgram ==
    IF owed.owed THEN ~slot.active /\ ~pending.valid
    ELSE slot.active => slot.branch \notin Handler

\* What holds of a suspended program in the handler, and of one outside.
ContextInv ==
    /\ TypeOK /\ PcShape
    /\ IF pc \in Handler THEN InHandler ELSE InProgram

\* The instructions that transfer no control end in Retire.
Retires == Compute \/ Load \/ Store \/ MoveFrom \/ MoveTo \/ ReturnFromException

LEMMA RetiresRetire ==
    ASSUME Retires
    PROVE  \E registers, load : Retire(registers, load)
  BY DEF Retires, Compute, Load, Store, MoveFrom, MoveTo, ReturnFromException

\* The five ways a step may end.
LEMMA StepKinds ==
    ASSUME Step
    PROVE  \/ \E kind, address : EnterException(kind, address)
           \/ Boundary(Retired, NoLoad)
           \/ Boundary(gpr, pending) /\ slot.active
           \/ Transfer
           \/ Retires
<1>1. CASE TakeInterrupt \/ FetchMisaligned \/ FetchFails \/ ComputeOverflows
  BY <1>1 DEF TakeInterrupt, FetchMisaligned, FetchFails, ComputeOverflows
<1>2. CASE AddressFails \/ DataFails \/ SystemReserved \/ CoprocessorUnusable
              \/ SystemCall
  BY <1>2 DEF AddressFails, DataFails, SystemReserved, CoprocessorUnusable, SystemCall
<1>3. CASE FetchUnsupported \/ DataUnsupported \/ SystemUnsupported
  BY <1>3 DEF FetchUnsupported, DataUnsupported, SystemUnsupported
<1>4. CASE TransferInSlot
  BY <1>4 DEF TransferInSlot
<1> QED
  BY <1>1, <1>2, <1>3, <1>4 DEF Step, Retires

\* The program is suspended with all a handler needs.
LEMMA EntersHandler ==
    ASSUME ContextInv, Disciplined, pc \notin Handler,
           NEW kind, NEW address, EnterException(kind, address)
    PROVE  pc' \in Handler /\ InHandler'
<1>1. pc' \in Vectors /\ pc' \in Handler
  BY DEF EnterException, ExceptionVector, Vectors, Disciplined, HandlersReturn
<1>2. Phase'
  BY <1>1 DEF EnterException, NoLoad, NoSlot, Phase
<1>3. owed'.owed /\ ~status'.cur
  BY DEF EnterException, Suspended, Pushed
<1>4. epc' \notin Handler
  BY DEF EnterException, Restart, ContextInv, InProgram
<1>5. Context'
  <2> SUFFICES ASSUME slot.active PROVE Context'
    BY DEF EnterException, Context
  <2>1. ~owed.owed
    BY DEF ContextInv, InProgram
  <2>2. owed'.at = pc /\ owed'.next = next /\ epc' = slot.branch
    BY <2>1 DEF EnterException, Suspended, Restart
  <2>3. cause'.bt = slot.taken /\ (slot.taken => target' = slot.target)
    BY DEF EnterException, InTakenSlot, ContextInv, TypeOK
  <2>4. pc = Plus(slot.branch, 2) /\ next = IF slot.taken THEN slot.target ELSE Plus(slot.branch, 4)
    BY DEF ContextInv, PcShape
  <2> QED
    BY <2>2, <2>3, <2>4 DEF Context
<1> QED
  BY <1>1, <1>2, <1>3, <1>4, <1>5 DEF InHandler

\* A step of a handler keeps what it was entered with; one of the program is an
\* exception, comes to nothing, or ends the suspension.
LEMMA ContextInductive ==
    ASSUME ContextInv, Disciplined, Disciplined', [Next]_vars, TypeOK', PcShape'
    PROVE  ContextInv'
<1> SUFFICES IF pc' \in Handler THEN InHandler' ELSE InProgram'
  BY DEF ContextInv
<1>1. CASE UNCHANGED vars \/ Signal
  <2>1. UNCHANGED <<code, gpr, pc, pending, slot, status, cause, epc, target, owed>>
    BY <1>1 DEF vars, cop0, Signal
  <2> QED
    BY <2>1 DEF ContextInv, InHandler, InProgram, Context, Phase
<1>2. CASE Step /\ pc \in Handler
  <2>1. HandlerLeaves
    BY <1>2, HandlerStep DEF ContextInv, InHandler
  <2>2. CASE pc' \in Handler /\ Phase' /\ status' = status
    BY <1>2, <2>1, <2>2 DEF HandlerLeaves, ContextInv, InHandler, Context
  <2>3. CASE pc' = epc /\ ~slot'.active /\ ~pending'.valid
    BY <1>2, <2>1, <2>3 DEF HandlerLeaves, ContextInv, InHandler, InProgram
  <2> QED
    BY <2>1, <2>2, <2>3 DEF HandlerLeaves
<1>3. CASE Step /\ pc \notin Handler
  <2>1. ASSUME NEW kind, NEW address, EnterException(kind, address)
        PROVE  pc' \in Handler /\ InHandler'
    BY <1>3, <2>1, EntersHandler
  <2>2. CASE Boundary(Retired, NoLoad)
    BY <1>3, <2>2 DEF ContextInv, Boundary, InProgram, NoLoad
  <2>3. CASE Boundary(gpr, pending)
    BY <1>3, <2>3 DEF ContextInv, Boundary, InProgram
  <2>4. CASE Transfer
    <3>1. ~owed'.owed /\ slot'.branch = pc
      BY <1>3, <2>4 DEF Transfer, Resumes, NotOwed
    <3> QED
      BY <1>3, <3>1 DEF InProgram, Disciplined
  <2>5. ASSUME Retires PROVE pc' \notin Handler /\ InProgram'
    <3>0. PICK registers, load : Retire(registers, load)
      BY <2>5, RetiresRetire
    <3>1. ~owed'.owed /\ ~slot'.active
      BY <1>3, <3>0 DEF Retire, Resumes, NotOwed, NoSlot, ContextInv, TypeOK
    <3> QED
      BY <3>1 DEF InProgram, Disciplined
  <2> QED
    BY <1>3, <2>1, <2>2, <2>3, <2>4, <2>5, StepKinds
<1> QED
  BY <1>1, <1>2, <1>3 DEF Next

\* ContextComplete, for a disciplined guest: from its entry to its last
\* instruction a handler runs with interrupts disabled, and Cause, EPC and
\* TargetAddress tell it where the program goes on behind a delay slot.
THEOREM HandlersFindTheirContext == Spec /\ []Disciplined => []ContextComplete
<1>1. Init /\ Disciplined /\ TypeOK /\ PcShape => ContextInv
  BY DEF Init, NotOwed, NoSlot, Disciplined, ContextInv, InProgram
<1>2. ContextInv /\ Disciplined /\ Disciplined' /\ [Next]_vars /\ TypeOK' /\ PcShape'
        => ContextInv'
  BY ContextInductive
<1>3. ContextInv => ContextComplete
  BY DEF ContextInv, InHandler, Context, ContextComplete
<1> QED
  BY <1>1, <1>2, <1>3, TypeCorrect, PcsAgree, PTL DEF Spec

-----------------------------------------------------------------------------
\* The transfer at b has been executed, on the registers g of a program c.
Decided(b, c, g) ==
    LET i == c[b]
    IN  /\ b \in DOMAIN c /\ i.op \in Control
        /\ K0 \notin {i.s, i.t, Link(i)}
        /\ Link(i) = Zero \/ g[Link(i)] = Plus(b, 4)

\* Where it goes, when it is executed on them again.
Decision(b, c, g) ==
    LET i == c[b]
    IN  IF Taken(i, g[i.s], g[i.t]) THEN Target(i, g[i.s]) ELSE Plus(b, 4)

\* Where a suspended program is resumed.
Standing == IF pc \in Handler THEN epc ELSE pc

Resumable ==
    owed.owed =>
        \/ owed.at = Standing /\ owed.next = Plus(Standing, 2)
        \/ /\ owed.at = Plus(Standing, 2)
           /\ Decided(Standing, code, gpr) /\ owed.next = Decision(Standing, code, gpr)

InSlot ==
    pc \notin Handler /\ ~owed.owed /\ slot.active =>
        /\ ~pending.valid
        /\ Decided(slot.branch, code, gpr) /\ next = Decision(slot.branch, code, gpr)

\* K0 has no part in a decision.
LEMMA DecisionKept ==
    ASSUME TypeOK, NEW b, Decided(b, code, gpr), NEW h, \A r \in User : h[r] = gpr[r]
    PROVE  Decided(b, code, h) /\ Decision(b, code, h) = Decision(b, code, gpr)
<1> DEFINE i == code[b]
<1>1. i \in Instruction
  BY DEF Decided, TypeOK, Code
<1>2. i.s \in Regs /\ i.t \in Regs /\ Link(i) \in Regs
  BY <1>1, RegsAssumption DEF Instruction, Link
<1>3. i.s \in User /\ i.t \in User /\ Link(i) \in User
  BY <1>2 DEF Decided, User
<1> QED
  BY <1>3 DEF Decided, Decision

\* The inductive invariant of the refinement.
ResumeInv == ContextInv /\ Resumable /\ InSlot

\* A transfer decides the same on the registers it leaves: the load under way
\* arrives in none it reads, and the link is none of them.
LEMMA TransferDecides ==
    ASSUME ContextInv, Disciplined, pc \notin Handler, Transfer
    PROVE  /\ pending' = NoLoad /\ slot'.active /\ slot'.branch = pc
           /\ Decided(pc, code, gpr') /\ next' = Decision(pc, code, gpr')
           /\ next' = Decision(pc, code, gpr)
<1>1. pc \in DOMAIN code /\ This.op \in Control
  BY DEF Transfer, Fetched, This
<1>2. Considerate
  BY <1>1 DEF Disciplined
<1>3. This \in Instruction
  BY <1>1 DEF ContextInv, TypeOK, Code, This
<1>4. This.s \in Regs /\ This.t \in Regs /\ Link(This) \in Regs
  BY <1>3, RegsAssumption DEF Instruction, Link
<1>5. Link(This) \in {This.d, Zero, Ra}
  BY DEF Link
<1>6. K0 \notin {This.s, This.t, Link(This)}
  BY <1>2, <1>5, MachineAssumption DEF Considerate
<1>7. File(Retired)
  BY RetiredType DEF ContextInv
<1>8. gpr' = Written(Retired, Link(This), Plus(pc, 4))
  BY DEF Transfer
<1>9. \A r \in {This.s, This.t} : gpr'[r] = gpr[r]
  <2> SUFFICES ASSUME NEW r \in {This.s, This.t} PROVE gpr'[r] = gpr[r]
    OBVIOUS
  <2>1. Retired[r] = gpr[r]
    BY <1>1, <1>2, <1>4 DEF Considerate, Retired, Written, ContextInv, TypeOK
  <2>2. gpr'[r] = Retired[r]
    BY <1>1, <1>2, <1>4, <1>7, <1>8 DEF Considerate, Written, File
  <2> QED
    BY <2>1, <2>2
<1>10. Link(This) = Zero \/ gpr'[Link(This)] = Plus(pc, 4)
  BY <1>4, <1>7, <1>8 DEF Written, File
<1>11. Decided(pc, code, gpr')
  BY <1>1, <1>6, <1>10 DEF Decided, This
<1>12. next' = Decision(pc, code, gpr)
  BY DEF Transfer, Decision, This, Rs, Rt
<1>13. Decision(pc, code, gpr') = Decision(pc, code, gpr)
  BY <1>9 DEF Decision, This
<1> QED
  BY <1>11, <1>12, <1>13 DEF Transfer

\* An exception in a delay slot hands the decision over to the handler.
LEMMA ExceptionResumable ==
    ASSUME ResumeInv, Disciplined, pc \notin Handler,
           NEW kind, NEW address, EnterException(kind, address)
    PROVE  Resumable'
<1>1. pc' \in Handler /\ code' = code /\ Standing' = Restart
  BY EntersHandler DEF EnterException, ResumeInv, Standing
<1>2. CASE owed.owed
  <2>1. ~slot.active /\ ~pending.valid
    BY <1>2 DEF ResumeInv, ContextInv, InProgram
  <2>2. gpr' = gpr /\ owed' = owed /\ Restart = Standing
    BY <1>2, <2>1 DEF EnterException, Retired, Suspended, Restart, Standing
  <2> QED
    BY <1>1, <1>2, <2>2 DEF Resumable, ResumeInv
<1>3. CASE ~owed.owed /\ ~slot.active
  BY <1>1, <1>3
  DEF EnterException, Suspended, Restart, Resumable, ResumeInv, ContextInv, PcShape
<1>4. CASE ~owed.owed /\ slot.active
  <2>1. ~pending.valid /\ Decided(slot.branch, code, gpr)
        /\ next = Decision(slot.branch, code, gpr) /\ pc = Plus(slot.branch, 2)
    BY <1>4 DEF ResumeInv, InSlot, ContextInv, PcShape
  <2>2. gpr' = gpr /\ owed'.at = pc /\ owed'.next = next /\ Restart = slot.branch
    BY <1>4, <2>1 DEF EnterException, Retired, Suspended, Restart
  <2> QED
    BY <1>1, <2>1, <2>2 DEF Resumable
<1> QED
  BY <1>2, <1>3, <1>4 DEF ResumeInv, ContextInv, TypeOK

LEMMA ResumeInductive ==
    ASSUME ResumeInv, Disciplined, Disciplined', [Next]_vars, ContextInv'
    PROVE  ResumeInv'
<1> SUFFICES Resumable' /\ InSlot'
  BY DEF ResumeInv
<1>1. CASE UNCHANGED vars \/ Signal
  <2>1. UNCHANGED <<code, gpr, pc, next, pending, slot, epc, owed>>
    BY <1>1 DEF vars, cop0, Signal
  <2> QED
    BY <2>1 DEF ResumeInv, Resumable, InSlot, Standing
<1>2. CASE Step /\ pc \in Handler
  <2>1. HandlerLeaves
    BY <1>2, HandlerStep DEF ResumeInv, ContextInv, InHandler
  <2>2. owed' = owed /\ owed.owed /\ code' = code /\ Standing' = epc /\ Standing = epc
    BY <1>2, <2>1 DEF HandlerLeaves, Standing, ResumeInv, ContextInv, InHandler
  <2>3. TypeOK /\ \A r \in User : gpr'[r] = gpr[r]
    BY <2>1 DEF HandlerLeaves, ResumeInv, ContextInv
  <2> QED
    BY <2>2, <2>3, DecisionKept DEF ResumeInv, Resumable, InSlot
<1>3. CASE Step /\ pc \notin Handler
  <2>1. ASSUME NEW kind, NEW address, EnterException(kind, address)
        PROVE  Resumable' /\ InSlot'
    <3>1. pc' \in Handler
      BY <1>3, <2>1, EntersHandler DEF ResumeInv
    <3> QED
      BY <1>3, <2>1, <3>1, ExceptionResumable DEF InSlot
  <2>2. CASE Boundary(Retired, NoLoad)
    <3>1. /\ UNCHANGED <<code, pc, next, slot, owed>> /\ ~pending'.valid
          /\ pending.valid \/ gpr' = gpr
      BY <2>2 DEF Boundary, NoLoad, Retired
    <3>2. owed.owed \/ slot.active => gpr' = gpr
      BY <1>3, <3>1 DEF ResumeInv, InSlot, ContextInv, InProgram
    <3> QED
      BY <1>3, <3>1, <3>2 DEF ResumeInv, Resumable, InSlot, Standing
  <2>3. CASE Boundary(gpr, pending)
    BY <1>3, <2>3 DEF Boundary, ResumeInv, Resumable, InSlot, Standing
  <2>4. CASE Transfer
    <3>1. ~owed'.owed /\ code' = code
      BY <1>3, <2>4 DEF Transfer, Resumes, NotOwed
    <3>2. /\ pending' = NoLoad /\ slot'.branch = pc
          /\ Decided(pc, code, gpr') /\ next' = Decision(pc, code, gpr')
      BY <1>3, <2>4, TransferDecides DEF ResumeInv
    <3> QED
      BY <3>1, <3>2 DEF Resumable, InSlot, NoLoad
  <2>5. ASSUME Retires PROVE Resumable' /\ InSlot'
    <3>0. PICK registers, load : Retire(registers, load)
      BY <2>5, RetiresRetire
    <3>1. ~owed'.owed /\ ~slot'.active
      BY <1>3, <3>0 DEF Retire, Resumes, NotOwed, NoSlot, ResumeInv, ContextInv, TypeOK
    <3> QED
      BY <3>1 DEF Resumable, InSlot
  <2> QED
    BY <1>3, <2>1, <2>2, <2>3, <2>4, <2>5, StepKinds
<1> QED
  BY <1>1, <1>2, <1>3 DEF Next

-----------------------------------------------------------------------------
(* The program's view of the machine, term by term as Promise has it.      *)

Registers ==
    [r \in User |-> IF pending.valid /\ pending.reg = r THEN pending.value ELSE gpr[r]]
At == IF owed.owed THEN owed.at ELSE pc
After == IF owed.owed THEN owed.next ELSE next
Fading ==
    IF pending.valid /\ pending.reg \in User
    THEN [reg |-> pending.reg, value |-> gpr[pending.reg]]
    ELSE [reg |-> Zero, value |-> 0]
Enabled == IF pc \in Handler THEN status.prev ELSE status.cur

view == <<code, Registers, mem, At, After, Fading, Enabled>>

LEMMA ViewStutters == ASSUME UNCHANGED view PROVE UNCHANGED Promise!vars
  BY DEF view, Registers, At, After, Fading, Enabled, Promise!vars

LEMMA ViewSettles ==
    ASSUME Fading' = [reg |-> Zero, value |-> 0],
           UNCHANGED <<code, Registers, mem, At, After, Enabled>>
    PROVE  Promise!Next
  BY DEF Registers, At, After, Fading, Enabled, Promise!Next, Promise!Settle, Promise!Settled

\* Promise reads its instructions as the machine does.
LEMMA SameWords ==
    /\ Promise!Value = Value
    /\ \A a, b : Promise!Plus(a, b) = Plus(a, b)
    /\ \A f, r, v : Promise!Written(f, r, v) = Written(f, r, v)
  BY DEF Promise!Value, Promise!Plus, Promise!Written, Value, Plus, Written

LEMMA SameKinds ==
    /\ Promise!Direct = Direct /\ Promise!Control = Control
    /\ Promise!Loads = Loads /\ Promise!Stores = Stores /\ Promise!System = System
  BY DEF Promise!Direct, Promise!Control, Promise!Jumps, Promise!Branches, Promise!Loads,
         Promise!Stores, Promise!System, Direct, Control, Jumps, Branches, Loads, Stores, System

LEMMA SameTransfers ==
    /\ \A i, a, b : Promise!Taken(i, a, b) = Taken(i, a, b)
    /\ \A i, a : Promise!Target(i, a) = Target(i, a)
    /\ \A i : Promise!Link(i) = Link(i)
  BY DEF Promise!Taken, Promise!Negative, Promise!Target, Promise!Link, Taken, Negative, Target, Link

LEMMA SameAccesses ==
    /\ \A a : Promise!WordOf(a) = WordOf(a)
    /\ \A i, a : Promise!Misaligned(i, a) = Misaligned(i, a)
    /\ \A i, a, in, base : Promise!Loaded(i, a, in, base) = Loaded(i, a, in, base)
    /\ \A i, a, in, v : Promise!Stored(i, a, in, v) = Stored(i, a, in, v)
  BY DEF Promise!WordOf, Promise!Misaligned, Promise!LaneOf, Promise!Loaded, Promise!Stored,
         Promise!High, Promise!Low, Promise!Pair,
         WordOf, Misaligned, LaneOf, Loaded, Stored, High, Low, Pair

\* A register read in the slot of a load is one of the values Promise allows.
LEMMA MayRead ==
    ASSUME TypeOK, NEW r \in User
    PROVE  gpr[r] \in Promise!Reads(r)
<1>1. CASE pending.valid /\ pending.reg = r
  BY <1>1 DEF Promise!Reads, User
<1>2. CASE ~(pending.valid /\ pending.reg = r)
  BY <1>2 DEF Promise!Reads
<1> QED BY <1>1, <1>2

\* The program sees a register as it will be once the load under way arrives.
LEMMA SeenRetired == ASSUME TypeOK PROVE Registers = [r \in User |-> Retired[r]]
  BY DEF TypeOK, Registers, Retired, Written, User

LEMMA WrittenSeen ==
    ASSUME NEW f, File(f), NEW d \in User, NEW v
    PROVE  [r \in User |-> Written(f, d, v)[r]] = Written([r \in User |-> f[r]], d, v)
  BY DEF File, Written, User

\* No load is under way: nothing fades.
LEMMA NothingUnderWay ==
    ASSUME pending' = NoLoad
    PROVE  Registers' = [r \in User |-> gpr'[r]] /\ Fading' = [reg |-> Zero, value |-> 0]
  BY DEF Registers, Fading, NoLoad

\* A load puts the register at its new value, and lets the old one be read.
LEMMA LoadUnderWay ==
    ASSUME TypeOK, This.d \in User, NEW v, gpr' = Retired, pending' = Queued(v)
    PROVE  /\ Registers' = Written(Registers, This.d, v)
           /\ Fading' = IF This.d = Zero THEN [reg |-> Zero, value |-> 0]
                        ELSE [reg |-> This.d, value |-> Registers[This.d]]
<1>1. Registers = [r \in User |-> Retired[r]]
  BY SeenRetired
<1>2. CASE This.d = Zero
  BY <1>1, <1>2, NothingUnderWay DEF Queued, Written
<1>3. CASE This.d # Zero
  <2>1. pending' = [valid |-> TRUE, reg |-> This.d, value |-> v]
    BY <1>3 DEF Queued
  <2>2. Registers' = [r \in User |-> IF This.d = r THEN v ELSE Retired[r]]
    BY <2>1 DEF Registers
  <2>3. Registers' = [Registers EXCEPT ![This.d] = v]
    BY <1>1, <2>2
  <2>4. Fading' = [reg |-> This.d, value |-> Retired[This.d]]
    BY <2>1 DEF Fading
  <2> QED
    BY <1>1, <1>3, <2>3, <2>4 DEF Written
<1> QED BY <1>2, <1>3

\* An instruction the program executes where it stands.
Executing ==
    /\ ContextInv /\ Disciplined /\ Disciplined'
    /\ pc \notin Handler /\ At = pc /\ After = next

LEMMA Fetches ==
    ASSUME Executing, pc \in DOMAIN code
    PROVE  /\ This \in Instruction
           /\ This.d \in User /\ This.s \in User /\ This.t \in User
           /\ Rs \in Promise!Reads(This.s) /\ Rt \in Promise!Reads(This.t)
<1>1. This \in Instruction
  BY DEF Executing, ContextInv, TypeOK, Code, This
<1>2. This.d \in User /\ This.s \in User /\ This.t \in User
  BY <1>1 DEF Executing, Disciplined, Considerate, Instruction, User
<1>3. Rs \in Promise!Reads(This.s) /\ Rt \in Promise!Reads(This.t)
  BY <1>2, MayRead DEF Rs, Rt, Executing, ContextInv
<1> QED BY <1>1, <1>2, <1>3

LEMMA Goes ==
    ASSUME Executing, NEW registers, NEW load, Retire(registers, load)
    PROVE  /\ At' = After /\ After' = Plus(After, 2) /\ code' = code
           /\ Enabled = status.cur /\ Enabled' = status'.cur
<1>1. owed' = NotOwed /\ pc' = next /\ next' = Plus(next, 2) /\ code' = code
  BY DEF Executing, Retire, Resumes
<1>2. pc' \notin Handler
  BY <1>1 DEF Executing, Disciplined, NotOwed
<1> QED
  BY <1>1, <1>2 DEF Executing, At, After, Enabled, NotOwed

\* An instruction of Promise, where it stands.
LEMMA Executes ==
    ASSUME Executing, pc \in DOMAIN code, code' = code,
           \/ Promise!Compute(This) \/ Promise!Transfer(This) \/ Promise!Load(This)
           \/ Promise!Store(This) \/ Promise!Privileged(This)
    PROVE  Promise!Next
<1> SUFFICES Promise!Execute
  BY DEF Promise!Next
<1> DEFINE where == IF owed.owed THEN owed.at ELSE pc
<1>1. where = pc /\ code[where] = This
  BY DEF Executing, At, This
<1>2. CASE Promise!Compute(This)
  BY <1>1, <1>2 DEF Promise!Execute, Promise!Compute
<1>3. CASE Promise!Transfer(This)
  BY <1>1, <1>3 DEF Promise!Execute, Promise!Transfer
<1>4. CASE Promise!Load(This)
  BY <1>1, <1>4 DEF Promise!Execute, Promise!Load
<1>5. CASE Promise!Store(This)
  <2>1. PICK a \in Promise!Reads(This.s), v \in Promise!Reads(This.t) :
            /\ WordOf(Plus(a, This.imm)) \in DOMAIN mem
            /\ ~Misaligned(This, Plus(a, This.imm))
            /\ mem' = [mem EXCEPT ![WordOf(Plus(a, This.imm))] = Stored(This, Plus(a, This.imm), @, v)]
    BY <1>5, SameWords, SameAccesses DEF Promise!Store
  <2>2. /\ a \in Promise!Reads(code[where].s) /\ v \in Promise!Reads(code[where].t)
        /\ code[where].op \in Promise!Stores
    BY <1>1, <1>5 DEF Promise!Store, Promise!Reads
  <2>3. Promise!Store(code[where])
    BY <1>1, <1>5, <2>1, <2>2, SameWords, SameAccesses DEF Promise!Store
  <2> QED
    BY <1>1, <2>3 DEF Promise!Execute
<1>6. CASE Promise!Privileged(This)
  BY <1>1, <1>6 DEF Promise!Execute, Promise!Privileged
<1> QED BY <1>2, <1>3, <1>4, <1>5, <1>6

\* Each instruction as Promise has it.
LEMMA ComputeSeen == ASSUME Executing, Compute PROVE Promise!Next
<1>1. pc \in DOMAIN code /\ This.op \in Direct
  BY DEF Compute, Fetched, This
<1>2. TypeOK /\ File(Retired)
  BY RetiredType DEF Executing, ContextInv
<1>3. Registers' = Written(Registers, This.d, Plus(Rs, Rt))
  <2>1. gpr' = Written(Retired, This.d, Plus(Rs, Rt)) /\ pending' = NoLoad
    BY DEF Compute, Retire
  <2>2. Registers' = [r \in User |-> Written(Retired, This.d, Plus(Rs, Rt))[r]]
    BY <2>1, NothingUnderWay
  <2> QED
    BY <1>1, <1>2, <2>2, Fetches, SeenRetired, WrittenSeen
<1>4. Fading' = [reg |-> Zero, value |-> 0]
  BY NothingUnderWay DEF Compute, Retire
<1>5. /\ At' = After /\ After' = Plus(After, 2) /\ code' = code
      /\ mem' = mem /\ Enabled' = Enabled
  BY Goes DEF Compute
<1>6. \E a \in Promise!Reads(This.s), b \in Promise!Reads(This.t) :
          Registers' = Promise!Written(Registers, This.d, Promise!Plus(a, b))
  BY <1>1, <1>3, Fetches, SameWords
<1>7. Promise!Compute(This)
  BY <1>1, <1>4, <1>5, <1>6, SameKinds, SameWords
  DEF Promise!Compute, Promise!Goes, Promise!Settled, Registers, At, After, Fading, Enabled
<1> QED BY <1>1, <1>5, <1>7, Executes

LEMMA LoadSeen == ASSUME Executing, Load PROVE Promise!Next
<1>1. /\ pc \in DOMAIN code /\ This.op \in Loads
      /\ ~Misaligned(This, Address) /\ WordOf(Address) \in DOMAIN mem
  BY DEF Load, Accesses, Fetched, This
<1>2. TypeOK
  BY DEF Executing, ContextInv
<1> DEFINE in == mem[WordOf(Address)]
<1>3. /\ gpr' = Retired
      /\ pending' = Queued(Loaded(This, Address, in, MergeBase))
  BY DEF Load, Retire
<1>4. This.d # Zero => MergeBase = Registers[This.d]
  BY <1>1, Fetches DEF MergeBase, Registers
<1>5. This.d \in User
  BY <1>1, Fetches
<1>6. /\ Registers' = Written(Registers, This.d, Loaded(This, Address, in, Registers[This.d]))
      /\ Fading' = IF This.d = Zero THEN [reg |-> Zero, value |-> 0]
                   ELSE [reg |-> This.d, value |-> Registers[This.d]]
  <2>1. /\ Registers' = Written(Registers, This.d, Loaded(This, Address, in, MergeBase))
        /\ Fading' = IF This.d = Zero THEN [reg |-> Zero, value |-> 0]
                     ELSE [reg |-> This.d, value |-> Registers[This.d]]
    BY <1>2, <1>3, <1>5, LoadUnderWay
  <2> QED
    BY <1>4, <2>1 DEF Written
<1>7. /\ At' = After /\ After' = Plus(After, 2) /\ code' = code
      /\ mem' = mem /\ Enabled' = Enabled
  BY Goes DEF Load
<1>8. \E a \in Promise!Reads(This.s) :
        /\ WordOf(Plus(a, This.imm)) \in DOMAIN mem /\ ~Misaligned(This, Plus(a, This.imm))
        /\ Registers' = Written(Registers, This.d,
              Loaded(This, Plus(a, This.imm), mem[WordOf(Plus(a, This.imm))], Registers[This.d]))
  BY <1>1, <1>6, Fetches DEF Address
<1>9. Promise!Load(This)
  BY <1>1, <1>6, <1>7, <1>8, SameKinds, SameWords, SameAccesses
  DEF Promise!Load, Promise!Goes, Promise!Settled, Registers, At, After, Fading, Enabled
<1> QED BY <1>1, <1>7, <1>9, Executes

LEMMA StoreSeen == ASSUME Executing, Store PROVE Promise!Next
<1>1. /\ pc \in DOMAIN code /\ This.op \in Stores
      /\ ~Misaligned(This, Address) /\ WordOf(Address) \in DOMAIN mem
  BY DEF Store, Accesses, Fetched, This
<1>2. TypeOK
  BY DEF Executing, ContextInv
<1>3. gpr' = Retired /\ pending' = NoLoad
  BY DEF Store, Retire
<1>4. Registers' = Registers /\ Fading' = [reg |-> Zero, value |-> 0]
  BY <1>2, <1>3, NothingUnderWay, SeenRetired
<1>5. /\ At' = After /\ After' = Plus(After, 2) /\ code' = code /\ Enabled' = Enabled
  BY Goes DEF Store
<1>6. \E a \in Promise!Reads(This.s), v \in Promise!Reads(This.t) :
        /\ WordOf(Plus(a, This.imm)) \in DOMAIN mem /\ ~Misaligned(This, Plus(a, This.imm))
        /\ mem' = [mem EXCEPT ![WordOf(Plus(a, This.imm))] = Stored(This, Plus(a, This.imm), @, v)]
  BY <1>1, Fetches DEF Store, Address
<1>7. Promise!Store(This)
  BY <1>1, <1>4, <1>5, <1>6, SameKinds, SameWords, SameAccesses
  DEF Promise!Store, Promise!Goes, Promise!Settled, Registers, At, After, Fading, Enabled
<1> QED BY <1>1, <1>5, <1>7, Executes

LEMMA MoveFromSeen == ASSUME Executing, MoveFrom PROVE Promise!Next
<1>1. pc \in DOMAIN code /\ This.op = "mfc0"
  BY DEF MoveFrom, Fetched, This
<1>2. TypeOK /\ This.d \in User
  BY <1>1, Fetches DEF Executing, ContextInv
<1>3. gpr' = Retired /\ pending' = Queued(SystemValue)
  BY DEF MoveFrom, Retire
<1>4. /\ Registers' = Written(Registers, This.d, SystemValue)
      /\ Fading' = IF This.d = Zero THEN [reg |-> Zero, value |-> 0]
                   ELSE [reg |-> This.d, value |-> Registers[This.d]]
  BY <1>2, <1>3, LoadUnderWay
<1>5. /\ At' = After /\ After' = Plus(After, 2) /\ code' = code
      /\ mem' = mem /\ Enabled' = Enabled
  BY Goes DEF MoveFrom
<1>6. SystemValue \in Value
  BY <1>2, SystemValueType
<1>7. Promise!Privileged(This)
  <2>1. CASE This.d = Zero
    <3>1. Registers' = Registers /\ Fading' = [reg |-> Zero, value |-> 0]
      BY <1>4, <2>1 DEF Written
    <3> QED
      BY <1>1, <1>5, <2>1, <3>1, SameKinds, SameWords
      DEF Promise!Privileged, Promise!Goes, Promise!Settled, System,
          Registers, At, After, Fading, Enabled
  <2>2. CASE This.d # Zero
    <3>1. \E v \in Value : Registers' = Written(Registers, This.d, v)
      BY <1>4, <1>6
    <3>2. Fading' = [reg |-> This.d, value |-> Registers[This.d]]
      BY <1>4, <2>2
    <3> QED
      BY <1>1, <1>5, <2>2, <3>1, <3>2, SameKinds, SameWords
      DEF Promise!Privileged, Promise!Goes, System,
          Registers, At, After, Fading, Enabled
  <2> QED
    BY <2>1, <2>2
<1> QED BY <1>1, <1>5, <1>7, Executes

LEMMA StatusSeen == ASSUME Executing, MoveTo \/ ReturnFromException PROVE Promise!Next
<1>1. pc \in DOMAIN code /\ This.op \in {"mtc0", "rfe"}
  BY DEF MoveTo, ReturnFromException, Fetched, This
<1>2. TypeOK /\ TypeOK' /\ status'.cur \in BOOLEAN
  <2>1. TypeOK /\ TypeOK'
    BY RetiringType DEF Executing, ContextInv
  <2> QED
    BY <2>1 DEF TypeOK, Status
<1>3. Retire(Retired, NoLoad) /\ mem' = mem
  BY DEF MoveTo, ReturnFromException
<1>4. Registers' = Registers /\ Fading' = [reg |-> Zero, value |-> 0]
  BY <1>2, <1>3, NothingUnderWay, SeenRetired DEF Retire
<1>5. /\ At' = After /\ After' = Plus(After, 2) /\ code' = code
      /\ Enabled' \in BOOLEAN
  BY <1>2, <1>3, Goes
<1>6. Promise!Privileged(This)
  BY <1>1, <1>3, <1>4, <1>5, SameKinds, SameWords
  DEF Promise!Privileged, Promise!Goes, Promise!Settled, System,
      Registers, At, After, Fading, Enabled
<1> QED BY <1>1, <1>5, <1>6, Executes

\* A transfer executed where the program stands.
LEMMA TransferSeen == ASSUME Executing, Transfer PROVE Promise!Next
<1>1. pc \in DOMAIN code /\ This.op \in Control /\ pc \in Nat
  BY DEF Transfer, Fetched, This, Executing, ContextInv, TypeOK, Value
<1>2. TypeOK /\ File(Retired)
  BY RetiredType DEF Executing, ContextInv
<1>3. After = Plus(pc, 2) /\ Plus(After, 2) = Plus(pc, 4)
  <2>1. After = Plus(pc, 2)
    BY DEF Executing, Transfer, ContextInv, PcShape
  <2> QED
    BY <1>1, <2>1, PlusPlus
<1>4. Link(This) \in User
  BY <1>1, Fetches, RegsAssumption, MachineAssumption DEF Link, User
<1>5. Registers' = Written(Registers, Link(This), Plus(After, 2))
  <2>1. gpr' = Written(Retired, Link(This), Plus(After, 2)) /\ pending' = NoLoad
    BY <1>3 DEF Transfer
  <2>2. Registers' = [r \in User |-> Written(Retired, Link(This), Plus(After, 2))[r]]
    BY <2>1, NothingUnderWay
  <2> QED
    BY <1>2, <1>4, <2>2, SeenRetired, WrittenSeen
<1>6. Fading' = [reg |-> Zero, value |-> 0]
  BY NothingUnderWay DEF Transfer
<1>7. /\ At' = After
      /\ After' = IF Taken(This, Rs, Rt) THEN Target(This, Rs) ELSE Plus(After, 2)
      /\ code' = code /\ mem' = mem /\ Enabled' = Enabled
  <2>1. /\ owed' = NotOwed /\ pc' = Plus(pc, 2) /\ code' = code
        /\ mem' = mem /\ status' = status
        /\ next' = IF Taken(This, Rs, Rt) THEN Target(This, Rs) ELSE Plus(pc, 4)
    BY DEF Executing, Transfer, Resumes
  <2>2. pc' \notin Handler
    BY <2>1 DEF Executing, Disciplined, NotOwed
  <2> QED
    BY <1>3, <2>1, <2>2 DEF Executing, At, After, Enabled, NotOwed
<1>8. \E a \in Promise!Reads(This.s), b \in Promise!Reads(This.t) :
        At' = After /\ After' = IF Taken(This, a, b) THEN Target(This, a) ELSE Plus(After, 2)
  BY <1>1, <1>7, Fetches
<1>9. Promise!Transfer(This)
  BY <1>1, <1>5, <1>6, <1>7, <1>8, SameKinds, SameWords, SameTransfers
  DEF Promise!Transfer, Promise!Goes, Promise!Settled, Registers, At, After, Fading, Enabled
<1> QED BY <1>1, <1>7, <1>9, Executes

\* A fault in its slot has the transfer executed again.
Repeats ==
    /\ owed.owed /\ owed.at = Plus(pc, 2)
    /\ Decided(pc, code, gpr) /\ owed.next = Decision(pc, code, gpr)

LEMMA TransferAgain ==
    ASSUME ResumeInv, Disciplined, Disciplined', pc \notin Handler, Transfer,
           Repeats
    PROVE  UNCHANGED view
<1>1. /\ owed.at = Plus(pc, 2) /\ Decided(pc, code, gpr)
      /\ owed.next = Decision(pc, code, gpr) /\ owed.owed
  BY DEF Repeats
<1>2. ~pending.valid /\ pending' = NoLoad
  BY <1>1 DEF ResumeInv, ContextInv, InProgram, Transfer
<1>3. next' = Decision(pc, code, gpr)
  BY TransferDecides DEF ResumeInv
<1>4. gpr' = gpr
  <2>1. gpr' = Written(gpr, Link(This), Plus(pc, 4))
    BY <1>2 DEF Transfer, Retired
  <2>2. Link(This) = Zero \/ gpr[Link(This)] = Plus(pc, 4)
    BY <1>1 DEF Decided, This
  <2> QED
    BY <2>1, <2>2 DEF Written, ResumeInv, ContextInv, TypeOK
<1>5. /\ owed' = NotOwed /\ pc' = Plus(pc, 2)
      /\ UNCHANGED <<code, mem, status>>
  BY DEF Transfer, Resumes
<1>6. pc' \notin Handler
  BY <1>5 DEF Disciplined, NotOwed
<1>7. Registers' = Registers /\ Fading' = Fading
  BY <1>2, <1>4 DEF Registers, Fading, NoLoad
<1>8. At' = At /\ After' = After /\ Enabled' = Enabled
  BY <1>1, <1>3, <1>5, <1>6 DEF At, After, Enabled, NotOwed
<1> QED
  BY <1>5, <1>7, <1>8 DEF view

\* The program sees nothing of a handler.
LEMMA HandlerSeen ==
    ASSUME ResumeInv, HandlerLeaves, pc \in Handler
    PROVE  UNCHANGED view
<1>1. K0 \notin User
  BY DEF User
<1>2. Registers' = Registers /\ Fading' = Fading
  BY <1>1 DEF HandlerLeaves, Registers, Fading
<1>3. At' = At /\ After' = After /\ code' = code /\ mem' = mem
  BY DEF HandlerLeaves, At, After, ResumeInv, ContextInv, InHandler
<1>4. Enabled' = Enabled
  <2>1. CASE pc' \in Handler /\ status' = status
    BY <2>1 DEF Enabled
  <2>2. CASE pc' = epc /\ status'.cur = status.prev
    BY <2>2 DEF Enabled, ResumeInv, ContextInv, InHandler
  <2> QED
    BY <2>1, <2>2 DEF HandlerLeaves
<1> QED
  BY <1>2, <1>3, <1>4 DEF view

\* Of an exception or a boundary it sees that the load under way arrives.
LEMMA ExceptionSeen ==
    ASSUME TypeOK, Disciplined, pc \notin Handler,
           NEW kind, NEW address, EnterException(kind, address)
    PROVE  Promise!Next
<1>1. gpr' = Retired /\ pending' = NoLoad /\ code' = code /\ mem' = mem
  BY DEF EnterException
<1>2. Registers' = Registers /\ Fading' = [reg |-> Zero, value |-> 0]
  BY <1>1, NothingUnderWay, SeenRetired
<1>3. At' = At /\ After' = After
  BY DEF EnterException, Suspended, At, After
<1>4. Enabled' = Enabled
  <2>1. pc' \in Handler /\ status'.prev = status.cur
    BY DEF EnterException, ExceptionVector, Disciplined, HandlersReturn, Pushed
  <2> QED
    BY <2>1 DEF Enabled
<1> QED
  BY <1>1, <1>2, <1>3, <1>4, ViewSettles

LEMMA BoundarySeen ==
    ASSUME TypeOK, Boundary(Retired, NoLoad)
    PROVE  Promise!Next
<1>1. gpr' = Retired /\ pending' = NoLoad
      /\ UNCHANGED <<code, mem, pc, next, status, owed>>
  BY DEF Boundary
<1>2. Registers' = Registers /\ Fading' = [reg |-> Zero, value |-> 0]
  BY <1>1, NothingUnderWay, SeenRetired
<1>3. At' = At /\ After' = After /\ Enabled' = Enabled
  BY <1>1 DEF At, After, Enabled
<1> QED
  BY <1>1, <1>2, <1>3, ViewSettles

\* Anything else is executed where the program stands.
LEMMA Stands ==
    ASSUME ResumeInv, Disciplined, Disciplined', pc \notin Handler, ~Repeats
    PROVE  Executing
<1>1. CASE ~owed.owed
  BY <1>1 DEF Executing, ResumeInv, At, After
<1>2. CASE owed.owed
  <2>1. owed.at = pc /\ owed.next = Plus(pc, 2)
    BY <1>2 DEF ResumeInv, Resumable, Standing, Repeats
  <2>2. next = Plus(pc, 2)
    BY <1>2 DEF ResumeInv, ContextInv, InProgram, PcShape
  <2> QED
    BY <1>2, <2>1, <2>2 DEF Executing, ResumeInv, At, After
<1> QED
  BY <1>1, <1>2 DEF ResumeInv, ContextInv, TypeOK

LEMMA PromiseStep ==
    ASSUME ResumeInv, Disciplined, Disciplined', [Next]_vars
    PROVE  [Promise!Next]_(Promise!vars)
<1>1. CASE UNCHANGED vars \/ Signal
  <2>1. UNCHANGED <<code, mem, gpr, pc, next, pending, status, owed>>
    BY <1>1 DEF vars, cop0, Signal
  <2>2. UNCHANGED view
    BY <2>1 DEF view, Registers, At, After, Fading, Enabled
  <2> QED
    BY <2>2, ViewStutters
<1>2. CASE Step /\ pc \in Handler
  <2>1. HandlerLeaves
    BY <1>2, HandlerStep DEF ResumeInv, ContextInv, InHandler
  <2> QED
    BY <1>2, <2>1, HandlerSeen, ViewStutters
<1>3. CASE Step /\ pc \notin Handler
  <2>0. TypeOK
    BY DEF ResumeInv, ContextInv
  <2>1. ASSUME NEW kind, NEW address, EnterException(kind, address)
        PROVE  Promise!Next
    BY <1>3, <2>0, <2>1, ExceptionSeen
  <2>2. CASE Boundary(Retired, NoLoad)
    BY <2>0, <2>2, BoundarySeen
  <2>3. CASE Boundary(gpr, pending)
    <3>1. UNCHANGED view
      BY <2>3 DEF Boundary, view, Registers, At, After, Fading, Enabled
    <3> QED
      BY <3>1, ViewStutters
  <2>4. CASE Transfer
    <3>1. CASE Repeats
      <4>1. UNCHANGED view
        BY <1>3, <2>4, <3>1, TransferAgain
      <4> QED
        BY <4>1, ViewStutters
    <3>2. CASE ~Repeats
      BY <1>3, <2>4, <3>2, Stands, TransferSeen
    <3> QED
      BY <3>1, <3>2
  <2>5. CASE Retires
    <3>1. ~Repeats
      BY <2>5 DEF Retires, Compute, Load, Store, MoveFrom, MoveTo, ReturnFromException,
                  Accesses, Fetched, Control, Jumps, Branches, Direct, Loads, Stores,
                  Repeats, Decided
    <3>2. Executing
      BY <1>3, <3>1, Stands
    <3> QED
      BY <2>5, <3>2, ComputeSeen, LoadSeen, StoreSeen, MoveFromSeen, StatusSeen DEF Retires
  <2> QED
    BY <1>3, <2>1, <2>2, <2>3, <2>4, <2>5, StepKinds
<1> QED
  BY <1>1, <1>2, <1>3 DEF Next

LEMMA PromiseStart == ASSUME Init, TypeOK PROVE Promise!Init
<1>1. Registers = [r \in User |-> gpr[r]] /\ Fading = [reg |-> Zero, value |-> 0]
  BY DEF Init, NoLoad, Registers, Fading
<1>2. At = pc /\ After = Plus(pc, 2)
  BY DEF Init, NotOwed, At, After
<1>3. \A r \in User : Registers[r] \in Value
  BY <1>1 DEF TypeOK, User
<1> QED
  BY <1>1, <1>2, <1>3, SameWords
  DEF Promise!Init, Promise!Settled, Registers, At, After, Fading

\* A disciplined guest runs as if there were no exceptions: every step of
\* step_r3000a is one of the sequential machine, or none, whatever interrupts
\* and faults come, and in whatever state of the pipeline.
THEOREM ExceptionsAreInvisible == Spec /\ []Disciplined => ExceptionsInvisible
<1>1. Init /\ Disciplined /\ TypeOK /\ PcShape => ResumeInv
  BY DEF Init, NotOwed, NoSlot, Disciplined, ContextInv, InProgram, ResumeInv,
         Resumable, InSlot
<1>2. /\ ResumeInv /\ Disciplined /\ Disciplined' /\ [Next]_vars /\ TypeOK' /\ PcShape'
      => ResumeInv'
  BY ContextInductive, ResumeInductive DEF ResumeInv
<1>3. Init /\ TypeOK => Promise!Init
  BY PromiseStart
<1>4. ResumeInv /\ Disciplined /\ Disciplined' /\ [Next]_vars => [Promise!Next]_(Promise!vars)
  BY PromiseStep
<1> QED
  BY <1>1, <1>2, <1>3, <1>4, TypeCorrect, PcsAgree, PTL
  DEF Spec, ExceptionsInvisible, Promise!Spec

-----------------------------------------------------------------------------
(* Programs that keep to the conventions                                   *)

Loading == Loads \cup {"mfc0"}

\* The load under way belongs to an instruction of the program that the one at pc
\* is behind.
LoadBehind ==
    \E a \in Own(code) :
        /\ code[a].op \in Loading /\ code[a].d = pending.reg
        /\ pc \in Own(code) => pc \in Behind(code, a)

\* What the code of a program keeps true as it runs.
Guest ==
    /\ Conventional
    /\ pc \in Handler => owed.owed
    /\ pc \in Own(code) => next \notin Handler
    /\ pc \notin Handler /\ pending.valid => LoadBehind

LEMMA GuestDisciplined ==
    ASSUME TypeOK, Guest
    PROVE  Disciplined
<1> SUFFICES ASSUME pc \notin Handler, pc \in DOMAIN code PROVE Considerate
  BY DEF Guest, Conventional, Disciplined
<1>1. pc \in Own(code) /\ Restartable(code)
  BY DEF Own, Guest, Conventional
<1>2. K0 \notin {This.d, This.s, This.t}
  BY <1>1 DEF Restartable, This
<1>3. This.op \in Control => Link(This) = Zero \/ Link(This) \notin {This.s, This.t}
  BY <1>1 DEF Restartable, This
<1>4. ASSUME This.op \in Control, pending.valid
      PROVE  pending.reg \notin {This.s, This.t}
  <2>1. PICK a \in Own(code) : /\ code[a].op \in Loading /\ code[a].d = pending.reg
                               /\ pc \in Behind(code, a)
    BY <1>1, <1>4 DEF Guest, LoadBehind
  <2>2. pending.reg # Zero
    BY <1>4 DEF TypeOK
  <2> QED
    BY <1>1, <1>4, <2>1, <2>2 DEF Restartable, Loading, This
<1> QED
  BY <1>2, <1>3, <1>4 DEF Considerate

\* What retires leaves under way what it has loaded.
LEMMA RetiresLoad ==
    ASSUME Retires
    PROVE  \E registers, load :
              /\ Retire(registers, load) /\ pc \in DOMAIN code
              /\ load.valid => This.op \in Loading /\ load.reg = This.d
<1>1. CASE Compute \/ Store \/ MoveTo \/ ReturnFromException
  BY <1>1 DEF Compute, Store, MoveTo, ReturnFromException, Accesses, Fetched, NoLoad
<1>2. CASE Load
  BY <1>2 DEF Load, Accesses, Fetched, Queued, NoLoad, Loading, This
<1>3. CASE MoveFrom
  BY <1>3 DEF MoveFrom, Fetched, Queued, NoLoad, Loading, This
<1> QED
  BY <1>1, <1>2, <1>3 DEF Retires

\* An instruction of the program is followed by one that is behind it.
LEMMA FollowsBehind ==
    ASSUME ResumeInv, pc \in Own(code), next \in Own(code)
    PROVE  next \in Behind(code, pc)
<1>1. CASE ~slot.active
  BY <1>1 DEF ResumeInv, ContextInv, PcShape, Behind
<1>2. CASE slot.active
  <2>1. Decided(slot.branch, code, gpr) /\ pc = Plus(slot.branch, 2)
    BY <1>2 DEF Own, ResumeInv, InSlot, ContextInv, InProgram, PcShape
  <2> QED
    BY <2>1 DEF Decided, Behind
<1> QED
  BY <1>1, <1>2 DEF ResumeInv, ContextInv, TypeOK

\* No step of the program leads to a handler but an exception.
LEMMA GuestInductive ==
    ASSUME ResumeInv, Guest, [Next]_vars, NoJumpToHandler', PcShape'
    PROVE  Guest'
<1> USE DEF Own
<1>0. TypeOK /\ Disciplined /\ Restartable(code)
  BY GuestDisciplined DEF ResumeInv, ContextInv, Guest, Conventional
<1>1. code' = code => Conventional'
  BY DEF Guest, Conventional, HandlersReturn, Returns
<1>2. CASE UNCHANGED vars \/ Signal
  <2>1. UNCHANGED <<code, pc, next, pending, owed>>
    BY <1>2 DEF vars, Signal
  <2> QED
    BY <1>1, <2>1 DEF Guest, LoadBehind
<1>3. CASE Step /\ pc \in Handler
  <2>1. HandlerLeaves /\ owed.owed
    BY <1>0, <1>3, HandlerStep DEF ResumeInv, ContextInv, InHandler
  <2>2. CASE pc' \in Handler
    BY <1>1, <2>1, <2>2 DEF HandlerLeaves, Guest
  <2>3. CASE pc' = epc /\ ~slot'.active /\ ~pending'.valid
    <3>1. next' = Plus(pc', 2) /\ code' = code /\ pc' \notin Handler
      BY <1>3, <2>1, <2>3 DEF PcShape, HandlerLeaves, ResumeInv, ContextInv, InHandler
    <3> QED
      BY <1>0, <1>1, <2>3, <3>1 DEF Guest, Restartable
  <2> QED
    BY <2>1, <2>2, <2>3 DEF HandlerLeaves
<1>4. CASE Step /\ pc \notin Handler
  <2>1. ASSUME NEW kind, NEW address, EnterException(kind, address)
        PROVE  Guest'
    <3>1. pc' \in Handler /\ owed'.owed /\ code' = code
      BY <1>0, <1>4, <2>1, EntersHandler DEF ResumeInv, InHandler, EnterException
    <3> QED
      BY <1>1, <3>1 DEF Guest
  <2>2. CASE Boundary(Retired, NoLoad)
    BY <1>1, <2>2 DEF Boundary, NoLoad, Guest
  <2>3. CASE Boundary(gpr, pending)
    BY <1>1, <2>3 DEF Boundary, Guest, LoadBehind
  <2>4. CASE Transfer
    <3>1. pc \in Own(code) /\ This.op \in Control /\ code' = code
      BY <1>4, <2>4 DEF Transfer, Fetched, This
    <3>2. pc' = Plus(pc, 2) /\ pc' \notin Handler /\ ~pending'.valid
      BY <1>0, <2>4, <3>1 DEF Transfer, Restartable, NoLoad
    <3>3. ASSUME pc' \in Own(code) PROVE next' \notin Handler
      <4>1. CASE ~slot'.taken
        <5>1. next' = Plus(pc, 4) /\ pc \in Nat
          BY <1>0, <2>4, <4>1, WordAssumption DEF Transfer, TypeOK, Value
        <5>2. next' = Plus(pc', 2)
          BY <3>2, <5>1, PlusPlus
        <5> QED
          BY <1>0, <3>3, <5>2 DEF Restartable
      <4>2. CASE slot'.taken /\ This.op # "jalr"
        <5>1. next' = This.imm
          BY <2>4, <4>2 DEF Transfer, Target
        <5> QED
          BY <1>0, <3>1, <4>2, <5>1 DEF Restartable, This
      <4>3. CASE slot'.taken /\ This.op = "jalr"
        <5>1. slot'.active /\ slot'.branch = pc /\ next' = slot'.target
          BY <2>4, <4>3 DEF Transfer
        <5> QED
          BY <3>1, <3>3, <4>3, <5>1 DEF NoJumpToHandler, This
      <4> QED
        BY <4>1, <4>2, <4>3
    <3> QED
      BY <1>1, <3>1, <3>2, <3>3 DEF Guest
  <2>5. CASE Retires
    <3>1. PICK registers, load :
              /\ Retire(registers, load) /\ pc \in DOMAIN code
              /\ load.valid => This.op \in Loading /\ load.reg = This.d
      BY <2>5, RetiresLoad
    <3>2. pc \in Own(code) /\ code' = code
      BY <1>4, <3>1 DEF Retire
    <3>3. pc' = next /\ next' = Plus(next, 2) /\ next \notin Handler
      BY <3>1, <3>2 DEF Retire, Guest
    <3>4. pc' \in Own(code) => next' \notin Handler
      BY <1>0, <3>3 DEF Restartable
    <3>5. pending'.valid => LoadBehind'
      BY <3>1, <3>2, <3>3, FollowsBehind DEF Retire, LoadBehind, This
    <3> QED
      BY <1>1, <3>2, <3>3, <3>4, <3>5 DEF Guest
  <2> QED
    BY <1>4, <2>1, <2>2, <2>3, <2>4, <2>5, StepKinds
<1> QED
  BY <1>2, <1>3, <1>4 DEF Next

LEMMA GuestInitially == ASSUME Init, Conventional PROVE Guest
<1>1. pc \in Own(code) => next \notin Handler
  BY DEF Init, Own, Conventional, Restartable
<1> QED
  BY <1>1 DEF Init, Conventional, NoLoad, Guest

\* Disciplined can be read off a program: one that leaves K0 alone, names no
\* handler as a target, runs into none and reads no register in a transfer that it
\* loads right before, keeps to the conventions at every step, whatever the
\* interrupts and faults, as long as no register leads it into a handler.
THEOREM ConventionsDiscipline ==
    Spec /\ Conventional /\ []NoJumpToHandler => []Disciplined
<1>1. Init /\ Conventional /\ TypeOK /\ PcShape => ResumeInv /\ Guest
  <2> SUFFICES ASSUME Init, Conventional, TypeOK, PcShape PROVE ResumeInv /\ Guest
    OBVIOUS
  <2>1. Guest /\ Disciplined
    BY GuestInitially, GuestDisciplined
  <2> QED
    BY <2>1 DEF Init, NotOwed, NoSlot, Disciplined, ContextInv, InProgram, ResumeInv,
           Resumable, InSlot
<1>2. /\ ResumeInv /\ Guest /\ [Next]_vars /\ NoJumpToHandler' /\ TypeOK' /\ PcShape'
      => ResumeInv' /\ Guest'
  <2> SUFFICES ASSUME ResumeInv, Guest, [Next]_vars, NoJumpToHandler', TypeOK', PcShape'
               PROVE  ResumeInv' /\ Guest'
    OBVIOUS
  <2>1. Guest'
    BY GuestInductive
  <2>2. Disciplined'
    BY <2>1, GuestDisciplined, PTL
  <2>3. TypeOK /\ Disciplined
    BY GuestDisciplined DEF ResumeInv, ContextInv
  <2>4. ContextInv'
    BY <2>2, <2>3, ContextInductive DEF ResumeInv
  <2> QED
    BY <2>1, <2>2, <2>3, <2>4, ResumeInductive
<1>3. TypeOK /\ Guest => Disciplined
  BY GuestDisciplined
<1> QED
  BY <1>1, <1>2, <1>3, TypeCorrect, PcsAgree, PTL DEF Spec

\* So exceptions cannot be seen by such a program, and its handlers find all they
\* need to return to it.
THEOREM ConventionsSuffice ==
    Spec /\ Conventional /\ []NoJumpToHandler
        => ExceptionsInvisible /\ []ContextComplete
  BY ConventionsDiscipline, ExceptionsAreInvisible, HandlersFindTheirContext, PTL
=============================================================================
