-------------------------------- MODULE Mips --------------------------------
(***************************************************************************)
(* The instructions of step_r3000a (src/core/r3000a_reference_executor.cpp)*)
(* as values: what each reads, writes and computes, without the pipeline.  *)
(*                                                                         *)
(* Numbers are scaled down.  A word has Word values and two lanes of Lane  *)
(* values each, where the code has four; addresses count lanes, so a word, *)
(* and an instruction, is two units long.  Instructions that differ in the *)
(* data they compute are one: addu stands for every operation that writes  *)
(* a register and cannot trap, beq for the conditional branches, jalr with *)
(* and without a link for jr, and syscall for what always traps.  HI and   *)
(* LO are left out: they are written at once and never by a delayed load.  *)
(***************************************************************************)
EXTENDS Naturals

CONSTANTS
    Word,       \* how many values a word has
    Lane,       \* how many values half a word has
    Regs,       \* the general registers
    Zero,       \* $zero
    Ra          \* $ra, where the branch-and-link instructions leave the link

ASSUME WordAssumption == Word \in Nat \ {0} /\ Lane \in Nat \ {0} /\ Word = Lane * Lane
ASSUME RegsAssumption == Zero \in Regs /\ Ra \in Regs /\ Ra # Zero

Value == 0 .. Word - 1
Plus(a, b) == (a + b) % Word
Negative(v) == 2 * v >= Word

Direct == {"addu", "add"}
Jumps == {"j", "jalr"}
Branches == {"beq", "bgezal"}
Control == Jumps \cup Branches
Loads == {"lw", "lb", "lwl", "lwr"}
Stores == {"sw", "sb", "swl", "swr"}
System == {"mfc0", "mtc0", "rfe"}
Traps == {"syscall", "cop2"}
Ops == Direct \cup Control \cup Loads \cup Stores \cup System \cup Traps

\* d is written, s and t are read; imm is an offset or a target, and sys names a
\* register of COP0.
Instruction == [op : Ops, d : Regs, s : Regs, t : Regs, imm : Value,
                sys : {"none", "status", "cause", "epc", "target", "bad",
                       "reserved", "other"}]

\* add traps on signed overflow.
Overflows(a, b) ==
    Negative(a) = Negative(b) /\ Negative(Plus(a, b)) # Negative(a)

\* Whether control goes to the target after the delay slot.
Taken(i, a, b) ==
    CASE i.op = "beq" -> a = b
      [] i.op = "bgezal" -> ~Negative(a)
      [] OTHER -> TRUE

Target(i, a) == IF i.op = "jalr" THEN a ELSE i.imm

\* The register a control transfer leaves the address after its slot in: j
\* names Zero, jal Ra, and a conditional link is written taken or not.
Link(i) == IF i.op = "bgezal" THEN Ra ELSE IF i.op = "beq" THEN Zero ELSE i.d

High(v) == v \div Lane
Low(v) == v % Lane
Pair(high, low) == high * Lane + low

LaneOf(address) == address % 2
WordOf(address) == address - LaneOf(address)
Misaligned(i, address) == i.op \in {"lw", "sw"} /\ LaneOf(address) # 0

\* What a load of the word `in` leaves in its register, base being what an
\* unaligned load merges with.
Loaded(i, address, in, base) ==
    CASE i.op = "lw" -> in
      [] i.op = "lb" -> IF LaneOf(address) = 0 THEN Low(in) ELSE High(in)
      [] i.op = "lwl" -> IF LaneOf(address) = 0 THEN Pair(Low(in), Low(base)) ELSE in
      [] OTHER -> IF LaneOf(address) = 0 THEN in ELSE Pair(High(base), High(in))

\* What a store of v leaves of the word `in`.
Stored(i, address, in, v) ==
    CASE i.op = "sw" -> v
      [] i.op = "sb" -> IF LaneOf(address) = 0 THEN Pair(High(in), Low(v))
                        ELSE Pair(Low(v), Low(in))
      [] i.op = "swl" -> IF LaneOf(address) = 0 THEN Pair(High(in), High(v)) ELSE v
      [] OTHER -> IF LaneOf(address) = 0 THEN v ELSE Pair(Low(v), Low(in))

\* $zero takes no value.
Written(file, r, v) == IF r = Zero THEN file ELSE [file EXCEPT ![r] = v]
=============================================================================
