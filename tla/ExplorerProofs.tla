--------------------------- MODULE ExplorerProofs ---------------------------
(***************************************************************************)
(* For every guest and every limit: what explore_ps1_max3 reports, and that*)
(* a step leaves less to do than there was, unless the guest has made a    *)
(* BIOS call return to the entry it was reached at.                        *)
(***************************************************************************)
EXTENDS Explorer, FiniteSetTheorems, SequenceTheorems, WellFoundedInduction, TLAPS

-----------------------------------------------------------------------------
(* Numbers and loops                                                       *)

\* Induction on the natural numbers, for a property given as the set of the
\* numbers that have it: a number that does not would have a least such below.
LEMMA SetInduction ==
    ASSUME NEW P, 0 \in P, \A n \in Nat : n \in P => n + 1 \in P
    PROVE  Nat \subseteq P
<1> DEFINE T == Nat \ P
           less == OpToRel(<, Nat)
<1> SUFFICES ASSUME T # {} PROVE FALSE
  OBVIOUS
<1>1. IsWellFoundedOn(less, Nat) /\ T \subseteq Nat
  BY NatLessThanWellFounded, Zenon
<1>2. \A a, b \in Nat : <<a, b>> \notin less => b <= a
  BY DEF OpToRel
<1> HIDE DEF less, T
<1>3. PICK m \in T : \A k \in T : <<k, m>> \notin less
  BY <1>1, WFMin, Zenon
<1>4. m \in Nat /\ m \notin P /\ \A k \in T : m <= k
  BY <1>1, <1>2, <1>3 DEF T
<1>5. m # 0 /\ m - 1 \in Nat
  BY <1>4
<1>6. m - 1 \in P
  BY <1>4, <1>5 DEF T
<1> QED
  BY <1>4, <1>5, <1>6

\* What a loop of n turns goes through.
IsLoop(f, S, a, turn, n) ==
    /\ f \in [0 .. n -> S] /\ f[0] = a
    /\ \A k \in 0 .. n - 1 : f[k + 1] = turn[k][f[k]]

LEMMA LoopExists ==
    ASSUME NEW S, NEW a \in S, NEW turn \in [Nat -> [S -> S]], NEW n \in Nat
    PROVE  \E f : IsLoop(f, S, a, turn, n)
<1> DEFINE Goes(f, m) == f[0] = a /\ \A k \in 0 .. m - 1 : f[k + 1] = turn[k][f[k]]
           P == {m \in Nat : \E f \in [0 .. m -> S] : Goes(f, m)}
<1>1. 0 \in P
  <2>1. [k \in 0 .. 0 |-> a] \in [0 .. 0 -> S] /\ Goes([k \in 0 .. 0 |-> a], 0)
    OBVIOUS
  <2> QED
    BY <2>1
<1>2. ASSUME NEW m \in Nat, m \in P
      PROVE  m + 1 \in P
  <2>1. PICK f \in [0 .. m -> S] : Goes(f, m)
    BY <1>2
  <2> DEFINE g == [k \in 0 .. m + 1 |-> IF k \in 0 .. m THEN f[k] ELSE turn[m][f[m]]]
  <2>2. turn[m][f[m]] \in S
    BY <2>1
  <2>3. g \in [0 .. m + 1 -> S]
    BY <2>2
  <2>4. ASSUME NEW k \in 0 .. (m + 1) - 1
        PROVE  g[k + 1] = turn[k][g[k]]
    <3>1. k \in 0 .. m /\ k \in 0 .. m + 1 /\ k + 1 \in 0 .. m + 1 /\ g[k] = f[k]
      OBVIOUS
    <3>2. CASE k = m
      <4>1. k + 1 \notin 0 .. m
        BY <3>2
      <4> QED
        BY <3>1, <3>2, <4>1
    <3>3. CASE k # m
      <4>1. k + 1 \in 0 .. m /\ k \in 0 .. m - 1
        BY <3>3
      <4>2. f[k + 1] = turn[k][f[k]]
        BY <2>1, <4>1
      <4> QED
        BY <3>1, <4>1, <4>2
    <3> QED
      BY <3>2, <3>3
  <2>5. g[0] = a
    BY <2>1
  <2> HIDE DEF g
  <2> QED
    BY <2>3, <2>4, <2>5
<1>3. Nat \subseteq P
  <2> HIDE DEF P
  <2> QED
    BY <1>1, <1>2, SetInduction
<1>4. PICK f \in [0 .. n -> S] : Goes(f, n)
  BY <1>3
<1>5. IsLoop(f, S, a, turn, n)
  BY <1>4 DEF IsLoop
<1> QED
  BY <1>5

-----------------------------------------------------------------------------
(* What a turn does to a runtime                                           *)

LEMMA CreatedType == Created \in Runtime /\ ~Created.pending
<1>1. ResetBus \in Bus
  BY DEF ResetBus, Bus
<1>2. NoServices \in Bios
  BY DEF NoServices, Bios, Unset
<1> QED
  BY <1>1, <1>2 DEF Created, Runtime, Cpu, Tables, A0, B0, C0

LEMMA ProbingType ==
    ASSUME NEW b \in Bus, NEW on \in BOOLEAN
    PROVE  /\ Probing(b, on) \in Bus /\ Probing(b, on).probing = on
           /\ b.probing = on => Probing(b, on) = b
<1>1. b = [cells |-> b.cells, shadow |-> b.shadow, probing |-> b.probing]
      /\ b.cells \in [{x.address : x \in Answered} -> Int] /\ b.shadow \in [Window -> Int]
  BY DEF Bus
<1> DEFINE s == IF on /\ ~b.probing THEN [a \in Window |-> 0] ELSE b.shadow
<1>2. Probing(b, on) = [b EXCEPT !.probing = on, !.shadow = s]
  BY DEF Probing
<1>3. s \in [Window -> Int] /\ (b.probing = on => s = b.shadow)
  BY <1>1
<1> HIDE DEF s
<1>4. Probing(b, on) = [cells |-> b.cells, shadow |-> s, probing |-> on]
  BY <1>1, <1>2
<1> QED
  BY <1>1, <1>3, <1>4 DEF Bus

LEMMA ServedType ==
    ASSUME NEW b \in Bios, NEW cpu \in Cpu, Handled(cpu)
    PROVE  Served(b, cpu) \in Bios
<1>1. cpu.a0 \in Int /\ cpu.a1 \in Int
  BY DEF Cpu
<1>2. CASE InitHeap(cpu)
  <2>1. {<<cpu.a0, cpu.a1>>} \in SUBSET (Int \X Int)
    BY <1>1
  <2>2. Served(b, cpu) = [b EXCEPT !.heap = {<<cpu.a0, cpu.a1>>}]
    <3>1. ~RemoveIso9660(cpu) /\ ~HookEntryInt(cpu) /\ ~ChangeClearPad(cpu) /\ ~ChangeClearRCnt(cpu)
      BY <1>2 DEF InitHeap, RemoveIso9660, HookEntryInt, ChangeClearPad, ChangeClearRCnt, A0, B0, C0
    <3> QED
      BY <1>2, <3>1 DEF Served
  <2> QED
    BY <2>1, <2>2 DEF Bios
<1>3. CASE RemoveIso9660(cpu) /\ ~InitHeap(cpu)
  BY <1>1, <1>3 DEF Served, Bios
<1>4. CASE HookEntryInt(cpu) /\ ~InitHeap(cpu) /\ ~RemoveIso9660(cpu)
  BY <1>1, <1>4 DEF Served, Bios
<1>5. CASE ChangeClearPad(cpu) /\ ~InitHeap(cpu) /\ ~RemoveIso9660(cpu) /\ ~HookEntryInt(cpu)
  BY <1>1, <1>5 DEF Served, Bios
<1>6. CASE ChangeClearRCnt(cpu) /\ ~InitHeap(cpu) /\ ~RemoveIso9660(cpu) /\ ~HookEntryInt(cpu)
           /\ ~ChangeClearPad(cpu)
  <2>1. cpu.a0 \in Counters
    BY <1>6 DEF ChangeClearRCnt
  <2>2. Served(b, cpu) = [b EXCEPT !.counters[cpu.a0] = {cpu.a1 # 0}]
    BY <1>6 DEF Served
  <2>3. b.counters \in [Counters -> SUBSET BOOLEAN] /\ {cpu.a1 # 0} \in SUBSET BOOLEAN
    BY DEF Bios
  <2>4. [b.counters EXCEPT ![cpu.a0] = {cpu.a1 # 0}] \in [Counters -> SUBSET BOOLEAN]
    BY <2>1, <2>3
  <2>5. Served(b, cpu) = [b EXCEPT !.counters = [b.counters EXCEPT ![cpu.a0] = {cpu.a1 # 0}]]
    BY <2>2
  <2> QED
    BY <2>4, <2>5 DEF Bios
<1> QED
  BY <1>2, <1>3, <1>4, <1>5, <1>6 DEF Handled

LEMMA HandledType ==
    ASSUME NEW r \in Runtime, Handled(r.cpu)
    PROVE  /\ AfterHandled(r) \in Runtime /\ ~AfterHandled(r).pending
           /\ AfterHandled(r).bus = r.bus
           /\ AfterHandled(r).cpu.pc = r.cpu.ra /\ AfterHandled(r).cpu.ra = r.cpu.ra
           /\ AfterHandled(r).cpu.t1 = r.cpu.t1 /\ AfterHandled(r).cpu.a0 = r.cpu.a0
<1>1. Result(r.bios, r.cpu) \in Int
  BY DEF Result, Runtime, Cpu
<1>2. ReturnFromBiosCall(r.cpu, Result(r.bios, r.cpu)) \in Cpu
  BY <1>1 DEF ReturnFromBiosCall, Runtime, Cpu
<1>3. Served(r.bios, r.cpu) \in Bios
  BY ServedType DEF Runtime
<1> QED
  BY <1>2, <1>3 DEF AfterHandled, Runtime, ReturnFromBiosCall, Cpu

LEMMA FallbackType ==
    ASSUME NEW r \in Runtime, NEW policy_ \in ToSet(Policies)
    PROVE  /\ WithFallback(r, policy_) \in Runtime /\ ~WithFallback(r, policy_).pending
           /\ WithFallback(r, policy_).bus = r.bus
           /\ WithFallback(r, policy_).cpu.pc = r.cpu.ra
           /\ WithFallback(r, policy_).cpu.ra = r.cpu.ra
<1>1. policy_ \in {"return_zero", "return_one", "return_minus_one", "preserve_v0"}
  BY DEF Policies, ToSet
<1>2. FallbackValue(r.cpu, policy_) \in Int
  BY <1>1 DEF FallbackValue, Runtime, Cpu
<1>3. ReturnFromBiosCall(r.cpu, FallbackValue(r.cpu, policy_)) \in Cpu
  BY <1>2 DEF ReturnFromBiosCall, Runtime, Cpu
<1> QED
  BY <1>3 DEF WithFallback, Runtime, ReturnFromBiosCall, Cpu

\* An instruction at pc is one of the program's.
LEMMA FetchedType ==
    ASSUME program \in Guest, NEW r \in Runtime, Fetched(r.cpu).op # "boundary"
    PROVE  /\ Fetched(r.cpu) \in Instruction /\ r.cpu.pc \in Nat
           /\ r.cpu.pc + 1 \in Nat /\ r.cpu.pc + 1 \notin Tables
           /\ r.cpu.pc \in DOMAIN program /\ Fetched(r.cpu) = program[r.cpu.pc]
<1>1. r.cpu.pc \in 1 .. Len(program) /\ Fetched(r.cpu) = program[r.cpu.pc]
  BY DEF Fetched, Guest
<1> QED
  BY <1>1 DEF Guest, Tables, A0, B0, C0

LEMMA SteppedType ==
    ASSUME program \in Guest, NEW r \in Runtime, Retires(r)
    PROVE  /\ Stepped(r) \in Runtime /\ ~Stepped(r).pending
           /\ Stepped(r).bus.probing = r.bus.probing
           /\ \/ Stepped(r).cpu.ra = r.cpu.ra
              \/ Fetched(r.cpu).op = "call" /\ Stepped(r).cpu.ra = Linked(Fetched(r.cpu), r.cpu.pc + 1)
<1> DEFINE i == Fetched(r.cpu)
           after == r.cpu.pc + 1
           to == [r EXCEPT !.pending = FALSE, !.cpu.pc = after]
<1>1. i \in Instruction /\ i.op # "boundary" /\ after \in Nat /\ after \notin Tables
  BY FetchedType DEF Retires
<1>2. to \in Runtime /\ ~to.pending /\ to.bus = r.bus /\ to.cpu \in Cpu /\ to.cpu.ra = r.cpu.ra
  <2>1. [r.cpu EXCEPT !.pc = after] \in Cpu /\ [r.cpu EXCEPT !.pc = after].ra = r.cpu.ra
    BY <1>1 DEF Runtime, Cpu
  <2>2. to = [r EXCEPT !.pending = FALSE, !.cpu = [r.cpu EXCEPT !.pc = after]]
    OBVIOUS
  <2> HIDE DEF to, after
  <2> QED
    BY <2>1, <2>2 DEF Runtime
<1>3. r.bus \in Bus
  BY DEF Runtime
<1>4. CASE i.op = "call"
  <2>1. i.table \in Tables /\ i.t1 \in Nat /\ i.a0 \in Int /\ i.a1 \in Int /\ i.link \in SUBSET Int
    BY <1>1, <1>4 DEF Instruction
  <2> DEFINE link == Linked(i, after)
             called == [to.cpu EXCEPT !.pc = i.table, !.t1 = i.t1, !.ra = link,
                                      !.a0 = i.a0, !.a1 = i.a1]
  <2>2. link \in Int
    <3>1. CASE i.link = Unset
      BY <1>1, <3>1 DEF Linked
    <3>2. CASE i.link # Unset
      <4>1. link = CHOOSE address \in i.link : TRUE
        BY <3>2 DEF Linked
      <4>2. \E address \in i.link : TRUE
        BY <3>2 DEF Unset
      <4>3. (CHOOSE address \in i.link : TRUE) \in i.link
        BY <4>2
      <4> QED
        BY <2>1, <4>1, <4>3
    <3> QED
      BY <3>1, <3>2
  <2>3. Stepped(r) = [to EXCEPT !.cpu = called]
    BY <1>4 DEF Stepped
  <2> HIDE DEF link
  <2>4. Tables \subseteq Int
    BY DEF Tables, A0, B0, C0
  <2> HIDE DEF i, to, after
  <2>5. called \in Cpu /\ called.ra = link
    <3>1. to.cpu \in Cpu
      BY <1>2
    <3>2. i.table \in Int
      BY <2>1, <2>4
    <3>3. i.t1 \in Int
      BY <2>1
    <3> QED
      BY <2>1, <2>2, <3>1, <3>2, <3>3 DEF Cpu
  <2> HIDE DEF called
  <2> QED
    BY <1>2, <1>4, <2>3, <2>5 DEF Runtime, link, i, after
<1>5. CASE i.op = "beqz"
  <2>1. i.target \in Nat
    BY <1>1, <1>5 DEF Instruction
  <2>2. Stepped(r) = IF r.cpu.v0 = 0 THEN [to EXCEPT !.cpu.pc = i.target] ELSE to
    BY <1>5 DEF Stepped
  <2> HIDE DEF i, to
  <2> QED
    BY <1>1, <1>2, <1>3, <2>1, <2>2 DEF Runtime, Cpu
<1>6. CASE i.op = "access"
  <2>1. i.access \in Access /\ i.value \in Int /\ i.access.write \in BOOLEAN
    BY <1>1, <1>6 DEF Instruction, Access
  <2>2. Reaches(r.bus, i.access) \in {"cells", "shadow"}
    BY <1>6, <2>1, BusAssumption DEF Retires, Refused, Reaches
  <2>3. /\ Reaches(r.bus, i.access) = "cells" => i.access.address \in {x.address : x \in Answered}
        /\ Reaches(r.bus, i.access) = "shadow" => i.access.address \in Window
    BY DEF Reaches
  <2>4. CASE i.access.write
    <3>1. Stepped(r) = [to EXCEPT !.bus = Written(@, i.access, i.value)]
      BY <1>6, <2>4 DEF Stepped
    <3>2. Written(r.bus, i.access, i.value) \in Bus
          /\ Written(r.bus, i.access, i.value).probing = r.bus.probing
      BY <1>3, <2>1, <2>2, <2>3 DEF Written, Bus
    <3> HIDE DEF i, to
    <3> QED
      BY <1>2, <3>1, <3>2 DEF Runtime
  <2>5. CASE ~i.access.write
    <3>1. Stepped(r) = [to EXCEPT !.cpu.v0 = ReadFrom(r.bus, i.access)]
      BY <1>6, <2>5 DEF Stepped
    <3>2. ReadFrom(r.bus, i.access) \in Int
      BY <1>3, <2>2, <2>3 DEF ReadFrom, Bus
    <3> HIDE DEF i, to
    <3> QED
      BY <1>2, <3>1, <3>2 DEF Runtime, Cpu
  <2> QED
    BY <2>4, <2>5
<1> QED
  BY <1>1, <1>4, <1>5, <1>6 DEF Instruction

-----------------------------------------------------------------------------
(* What a turn does to the report of a segment                             *)

\* The watchdog: the instructions of a segment are those since the last new
\* dependency, and fewer than the limit before each.
Watched(s, o) ==
    o.stagnation # 0 =>
        /\ s.retired <= o.stagnation * (Cardinality(s.bios) + Cardinality(s.mmio)) + s.since
        /\ s.since <= o.stagnation
        /\ s.stop = "none" => s.since < o.stagnation

\* The event buffer has every access, or is full.
Kept(s, o) ==
    /\ Len(s.recent) <= o.capacity /\ ToSet(s.recent) \subseteq s.mmio
    /\ Len(s.recent) < o.capacity => s.mmio \subseteq ToSet(s.recent)

SegmentInv(s, o) ==
    /\ s \in Segment /\ IsFiniteSet(s.bios) /\ IsFiniteSet(s.mmio)
    /\ Watched(s, o) /\ Kept(s, o)

LEMMA NewSegmentInv == ASSUME NEW o \in Options PROVE SegmentInv(NewSegment, o)
<1>1. NewSegment \in Segment /\ NewSegment.recent = <<>>
  BY DEF NewSegment, Segment, StopReasons
<1>2. IsFiniteSet({}) /\ Cardinality({}) = 0
  BY FS_EmptySet
<1>3. o.stagnation \in Nat /\ o.capacity \in Nat
  BY DEF Options
<1>4. Watched(NewSegment, o)
  BY <1>2, <1>3 DEF Watched, NewSegment
<1>5. Kept(NewSegment, o)
  BY <1>1, <1>3 DEF Kept, NewSegment, ToSet
<1> QED
  BY <1>1, <1>2, <1>4, <1>5 DEF SegmentInv, NewSegment

\* One dependency more is worth the whole limit of the watchdog.
LEMMA OneMore ==
    ASSUME NEW n \in Nat, NEW a \in Nat, NEW b \in Nat
    PROVE  n * (a + 1 + b) = n * (a + b) + n /\ n * (a + (b + 1)) = n * (a + b) + n
           /\ n * (a + b) \in Nat
  OBVIOUS

LEMMA CalledInv ==
    ASSUME NEW o \in Options, NEW s, SegmentInv(s, o), NEW r \in Runtime, AtBios(r)
    PROVE  /\ SegmentInv(Called(s, r.cpu), o)
           /\ Called(s, r.cpu).retired = s.retired /\ Called(s, r.cpu).stop = s.stop
           /\ Called(s, r.cpu).recent = s.recent /\ Called(s, r.cpu).mmio = s.mmio
<1> DEFINE f == Frontier(r.cpu)
           c == Called(s, r.cpu)
<1>1. f \in Tables \X Int
  BY DEF Frontier, AtBios, Runtime, Cpu
<1>2. /\ c \in Segment /\ c.bios = s.bios \cup {f} /\ c.mmio = s.mmio /\ c.recent = s.recent
      /\ c.retired = s.retired /\ c.stop = s.stop
      /\ c.since = IF f \in s.bios THEN s.since ELSE 0
  BY <1>1 DEF Called, SegmentInv, Segment
<1> HIDE DEF f, c
<1>3. o.stagnation \in Nat /\ s.since \in Nat /\ s.retired \in Nat
  BY DEF Options, SegmentInv, Segment
<1>4. CASE f \in s.bios
  <2>1. c.bios = s.bios
    BY <1>2, <1>4
  <2> QED
    BY <1>2, <1>4, <2>1 DEF SegmentInv, Watched, Kept, c
<1>5. CASE f \notin s.bios
  <2>1. /\ IsFiniteSet(c.bios)
        /\ o.stagnation * (Cardinality(c.bios) + Cardinality(s.mmio))
             = o.stagnation * (Cardinality(s.bios) + Cardinality(s.mmio)) + o.stagnation
        /\ o.stagnation * (Cardinality(s.bios) + Cardinality(s.mmio)) \in Nat
    <3>1. IsFiniteSet(s.bios) /\ IsFiniteSet(s.mmio)
      BY DEF SegmentInv
    <3>2. c.bios = s.bios \cup {f}
      BY <1>2, <1>5
    <3>3. IsFiniteSet(c.bios) /\ Cardinality(c.bios) = Cardinality(s.bios) + 1
      BY <1>5, <3>1, <3>2, FS_AddElement
    <3>4. Cardinality(s.bios) \in Nat /\ Cardinality(s.mmio) \in Nat
      BY <3>1, FS_CardinalityType
    <3>5. o.stagnation * (Cardinality(s.bios) + 1 + Cardinality(s.mmio))
            = o.stagnation * (Cardinality(s.bios) + Cardinality(s.mmio)) + o.stagnation
          /\ o.stagnation * (Cardinality(s.bios) + Cardinality(s.mmio)) \in Nat
      BY <1>3, <3>4, OneMore, Zenon
    <3> QED
      BY <3>3, <3>5, Zenon
  <2>2. Watched(c, o)
    BY <1>2, <1>3, <1>5, <2>1 DEF SegmentInv, Watched
  <2> QED
    BY <1>2, <2>1, <2>2 DEF SegmentInv, Kept, c
<1> QED
  BY <1>4, <1>5, <1>2 DEF c

LEMMA StopInv ==
    ASSUME NEW o \in Options, NEW s, SegmentInv(s, o), NEW reason \in StopReasons \ {"none"}
    PROVE  SegmentInv([s EXCEPT !.stop = reason], o)
  BY DEF SegmentInv, Segment, Watched, Kept

\* What a buffer that is not full keeps.
LEMMA RecordedKeeps ==
    ASSUME NEW recent \in Seq(Access), NEW probe \in Access, NEW capacity \in Nat,
           Len(recent) <= capacity
    PROVE  /\ Recorded(recent, probe, capacity) \in Seq(Access)
           /\ Len(Recorded(recent, probe, capacity)) <= capacity
           /\ ToSet(Recorded(recent, probe, capacity)) \subseteq ToSet(recent) \cup {probe}
           /\ Len(Recorded(recent, probe, capacity)) < capacity =>
                ToSet(Recorded(recent, probe, capacity)) = ToSet(recent) \cup {probe}
<1>1. CASE capacity = 0
  BY <1>1 DEF Recorded
<1>2. CASE capacity # 0 /\ Len(recent) = capacity
  <2>1. Recorded(recent, probe, capacity) = Append(Tail(recent), probe)
    BY <1>2 DEF Recorded
  <2>2. /\ Tail(recent) \in Seq(Access) /\ Len(Tail(recent)) = Len(recent) - 1
        /\ \A i \in 1 .. Len(recent) - 1 : Tail(recent)[i] = recent[i + 1]
    BY <1>2
  <2> DEFINE t == Tail(recent)
  <2>3. ToSet(t) \subseteq ToSet(recent)
    BY <2>2 DEF ToSet
  <2> HIDE DEF t
  <2>4. /\ Append(t, probe) \in Seq(Access) /\ Len(Append(t, probe)) = Len(recent)
        /\ \A i \in 1 .. Len(recent) - 1 : Append(t, probe)[i] = t[i]
        /\ Append(t, probe)[Len(recent)] = probe
    BY <2>2 DEF t
  <2>5. ToSet(Append(t, probe)) \subseteq ToSet(t) \cup {probe}
    BY <2>2, <2>4 DEF ToSet, t
  <2> QED
    BY <1>2, <2>1, <2>3, <2>4, <2>5 DEF t
<1>3. CASE capacity # 0 /\ Len(recent) # capacity
  <2>1. Recorded(recent, probe, capacity) = Append(recent, probe)
    BY <1>3 DEF Recorded
  <2>2. /\ Append(recent, probe) \in Seq(Access) /\ Len(Append(recent, probe)) = Len(recent) + 1
        /\ \A i \in 1 .. Len(recent) : Append(recent, probe)[i] = recent[i]
        /\ Append(recent, probe)[Len(recent) + 1] = probe
    OBVIOUS
  <2>3. ToSet(Append(recent, probe)) = ToSet(recent) \cup {probe}
    BY <2>2 DEF ToSet
  <2> QED
    BY <1>3, <2>1, <2>2, <2>3
<1> QED
  BY <1>1, <1>2, <1>3

LEMMA CountedInv ==
    ASSUME program \in Guest, NEW o \in Options, NEW s, SegmentInv(s, o), s.stop = "none",
           NEW r \in Runtime, Retires(r)
    PROVE  LET after == Counted(s, r, o.capacity)
           IN  /\ after.retired = s.retired + 1 /\ after.stop = "none"
               /\ Stalled(after, o.stagnation) =>
                    SegmentInv([after EXCEPT !.stop = "diagnostic_stall"], o)
               /\ ~Stalled(after, o.stagnation) => SegmentInv(after, o)
<1> DEFINE probe == Probe(r)
           c == Counted(s, r, o.capacity)
           seen == Recorded(s.recent, probe, o.capacity)
<1>1. probe = NoAccess \/ probe \in Access
  <2>1. Fetched(r.cpu) \in Instruction
    BY FetchedType DEF Retires
  <2> QED
    BY <2>1 DEF Probe, Instruction
<1>2. /\ s \in Segment /\ IsFiniteSet(s.bios) /\ IsFiniteSet(s.mmio)
      /\ s.recent \in Seq(Access) /\ s.mmio \in SUBSET Access
      /\ s.retired \in Nat /\ s.since \in Nat /\ o.capacity \in Nat
      /\ o.stagnation \in Nat /\ Len(s.recent) <= o.capacity
      /\ Watched(s, o) /\ Kept(s, o)
  BY DEF SegmentInv, Segment, Kept, Options
<1>3. /\ c = [s EXCEPT !.retired = s.retired + 1,
                       !.since = IF probe # NoAccess /\ probe \notin s.mmio THEN 0 ELSE s.since + 1,
                       !.mmio = IF probe = NoAccess THEN s.mmio ELSE s.mmio \cup {probe},
                       !.recent = IF probe = NoAccess THEN s.recent ELSE seen]
  BY DEF Counted, Renewed
<1>4. probe # NoAccess =>
        /\ seen \in Seq(Access) /\ Len(seen) <= o.capacity
        /\ ToSet(seen) \subseteq ToSet(s.recent) \cup {probe}
        /\ Len(seen) < o.capacity => ToSet(seen) = ToSet(s.recent) \cup {probe}
  BY <1>1, <1>2, RecordedKeeps
<1> HIDE DEF probe, c, seen
<1>5. /\ c.retired = s.retired + 1 /\ c.bios = s.bios /\ c.stop = "none"
      /\ c.since = IF probe # NoAccess /\ probe \notin s.mmio THEN 0 ELSE s.since + 1
      /\ c.mmio = IF probe = NoAccess THEN s.mmio ELSE s.mmio \cup {probe}
      /\ c.recent = IF probe = NoAccess THEN s.recent ELSE seen
  BY <1>2, <1>3 DEF Segment
<1>6. c \in Segment
  <2>1. /\ (IF probe # NoAccess /\ probe \notin s.mmio THEN 0 ELSE s.since + 1) \in Nat
        /\ (IF probe = NoAccess THEN s.mmio ELSE s.mmio \cup {probe}) \in SUBSET Access
        /\ (IF probe = NoAccess THEN s.recent ELSE seen) \in Seq(Access)
        /\ s.retired + 1 \in Nat
    BY <1>1, <1>2, <1>4
  <2> QED
    BY <1>2, <1>3, <2>1 DEF Segment
<1>7. Kept(c, o)
  <2>1. CASE probe = NoAccess
    BY <1>2, <1>5, <2>1 DEF Kept
  <2>2. CASE probe # NoAccess
    <3>1. c.recent = seen /\ c.mmio = s.mmio \cup {probe} /\ Len(seen) <= o.capacity
          /\ ToSet(seen) \subseteq s.mmio \cup {probe}
      BY <1>2, <1>4, <1>5, <2>2 DEF Kept
    <3>2. ASSUME Len(seen) < o.capacity PROVE Len(s.recent) < o.capacity
      BY <1>2, <2>2, <3>2 DEF seen, Recorded
    <3>3. ASSUME Len(seen) < o.capacity PROVE c.mmio \subseteq ToSet(c.recent)
      BY <1>2, <1>4, <2>2, <3>1, <3>2, <3>3 DEF Kept
    <3> QED
      BY <3>1, <3>3 DEF Kept
  <2> QED
    BY <2>1, <2>2
<1>8. /\ IsFiniteSet(c.mmio)
      /\ o.stagnation # 0 =>
          /\ c.retired <= o.stagnation * (Cardinality(c.bios) + Cardinality(c.mmio)) + c.since
          /\ c.since <= o.stagnation
  <2>1. CASE probe # NoAccess /\ probe \notin s.mmio
    <3>1. c.mmio = s.mmio \cup {probe} /\ c.since = 0
      BY <1>5, <2>1
    <3>2. /\ IsFiniteSet(c.mmio)
          /\ o.stagnation * (Cardinality(s.bios) + Cardinality(c.mmio))
               = o.stagnation * (Cardinality(s.bios) + Cardinality(s.mmio)) + o.stagnation
          /\ o.stagnation * (Cardinality(s.bios) + Cardinality(s.mmio)) \in Nat
      <4>1. IsFiniteSet(c.mmio) /\ Cardinality(c.mmio) = Cardinality(s.mmio) + 1
        BY <1>2, <2>1, <3>1, FS_AddElement
      <4>2. Cardinality(s.bios) \in Nat /\ Cardinality(s.mmio) \in Nat
        BY <1>2, FS_CardinalityType
      <4>3. o.stagnation \in Nat
        BY <1>2
      <4>4. o.stagnation * (Cardinality(s.bios) + (Cardinality(s.mmio) + 1))
              = o.stagnation * (Cardinality(s.bios) + Cardinality(s.mmio)) + o.stagnation
            /\ o.stagnation * (Cardinality(s.bios) + Cardinality(s.mmio)) \in Nat
        BY <4>2, <4>3, OneMore, Zenon
      <4> QED
        BY <4>1, <4>4, Zenon
    <3> QED
      BY <1>2, <1>5, <3>1, <3>2 DEF Watched
  <2>2. CASE probe = NoAccess \/ probe \in s.mmio
    <3>1. c.mmio = s.mmio /\ c.since = s.since + 1
      BY <1>5, <2>2
    <3>2. Cardinality(s.bios) \in Nat /\ Cardinality(s.mmio) \in Nat
      BY <1>2, FS_CardinalityType
    <3>3. o.stagnation * (Cardinality(s.bios) + Cardinality(s.mmio)) \in Nat
      BY <1>2, <3>2
    <3> QED
      BY <1>2, <1>5, <3>1, <3>3 DEF Watched
  <2> QED
    BY <2>1, <2>2
<1>9. CASE Stalled(c, o.stagnation)
  <2> DEFINE d == [c EXCEPT !.stop = "diagnostic_stall"]
  <2>1. /\ d \in Segment /\ d.stop = "diagnostic_stall" /\ d.retired = c.retired /\ d.since = c.since
        /\ d.bios = c.bios /\ d.mmio = c.mmio /\ d.recent = c.recent
    BY <1>6 DEF Segment, StopReasons
  <2> HIDE DEF d
  <2>2. SegmentInv(d, o)
    BY <1>2, <1>5, <1>7, <1>8, <2>1 DEF SegmentInv, Watched, Kept
  <2> QED
    BY <1>5, <1>9, <2>2 DEF c, d
<1>10. CASE ~Stalled(c, o.stagnation)
  <2>1. SegmentInv(c, o)
    BY <1>2, <1>5, <1>6, <1>7, <1>8, <1>10 DEF SegmentInv, Watched, Stalled
  <2> QED
    BY <1>5, <1>10, <2>1 DEF c
<1> QED
  BY <1>9, <1>10

-----------------------------------------------------------------------------
(* The calls of visit                                                      *)

\* What holds of a call, whatever it is at; n nodes are reported.
CallInv(c, o, n) ==
    /\ SegmentInv(c.segment, o) /\ IsFiniteSet(c.deps)
    /\ c.runtime.pending <=> HasFrontier(c)
    /\ HasFrontier(c) => AtBios(c.runtime) /\ ~Handled(c.runtime.cpu)
    /\ c.depth <= o.max_branch_depth /\ c.parent \in 0 .. n
    /\ c.at = "enter" => /\ c.segment = NewSegment
                         /\ c.depth = 0 => c.runtime = Created
    /\ c.at # "enter" \/ c.depth # 0 => c.runtime.bus.probing = o.probe
    /\ c.at = "run" => c.segment.retired <= c.budget
    /\ c.at = "branch" => HasFrontier(c) /\ c.depth < o.max_branch_depth /\ c.node \in 1 .. n

Report == [termination : Reasons, total : Nat, nodes : Seq(Node),
           dependencies : SUBSET Dependency, best : Nat, best_path : Seq(Decision),
           best_report : Segment]
ReportOK ==
    /\ report \in Report
    /\ report.best <= Len(nodes) /\ \A i \in DOMAIN nodes : nodes[i].parent < i

\* What a segment may retire is left of what all may.
Spent ==
    /\ report.total <= options.max_total_retired
    /\ stack # <<>> /\ top.at = "run" => top.budget <= options.max_total_retired - report.total

IInv ==
    /\ TypeOK /\ Spent
    /\ \A i \in DOMAIN stack : CallInv(stack[i], options, Len(nodes))

LEMMA FrontParts ==
    ASSUME NEW S, NEW s \in Seq(S), s # <<>>
    PROVE  /\ Len(s) \in Nat \ {0} /\ DOMAIN s = 1 .. Len(s)
           /\ s[Len(s)] \in S
           /\ SubSeq(s, 1, Len(s) - 1) \in Seq(S)
           /\ Len(SubSeq(s, 1, Len(s) - 1)) = Len(s) - 1
           /\ \A i \in 1 .. Len(s) - 1 : SubSeq(s, 1, Len(s) - 1)[i] = s[i]
<1>1. Len(s) \in Nat \ {0} /\ DOMAIN s = 1 .. Len(s) /\ \A i \in 1 .. Len(s) : s[i] \in S
  OBVIOUS
<1> DEFINE m == Len(s) - 1
<1>2. /\ m \in Nat /\ \A i \in 1 .. m : s[i] \in S
      /\ (IF 1 <= m THEN m - 1 + 1 ELSE 0) = m
      /\ m - 1 + 1 = m /\ \A i \in 1 .. m : 1 + i - 1 = i
  BY <1>1
<1> HIDE DEF m
<1>3. /\ SubSeq(s, 1, m) \in Seq(S) /\ Len(SubSeq(s, 1, m)) = m
      /\ \A i \in 1 .. m : SubSeq(s, 1, m)[i] = s[i]
  BY <1>2, SubSeqProperties
<1> QED
  BY <1>1, <1>3 DEF m

LEMMA AppendParts ==
    ASSUME NEW S, NEW s \in Seq(S), NEW e \in S
    PROVE  /\ Append(s, e) \in Seq(S) /\ Len(s) \in Nat
           /\ Len(Append(s, e)) = Len(s) + 1
           /\ DOMAIN Append(s, e) = 1 .. Len(s) + 1
           /\ Append(s, e)[Len(s) + 1] = e
           /\ \A i \in 1 .. Len(s) : Append(s, e)[i] = s[i]
  OBVIOUS

\* The innermost call, and those that called it.
LEMMA TopParts ==
    ASSUME IInv, stack # <<>>
    PROVE  /\ Len(stack) \in Nat \ {0} /\ DOMAIN stack = 1 .. Len(stack)
           /\ top \in Visit /\ CallInv(top, options, Len(nodes))
           /\ top.depth = Len(stack) - 1 /\ Len(top.path) = Len(stack) - 1
           /\ Below \in Seq(Visit) /\ Len(Below) = Len(stack) - 1
           /\ \A i \in 1 .. Len(stack) - 1 : Below[i] = stack[i]
           /\ \A i \in 1 .. Len(stack) - 1 :
                /\ stack[i] \in Visit /\ stack[i].at = "branch"
                /\ CallInv(stack[i], options, Len(nodes))
                /\ stack[i].depth = i - 1 /\ Len(stack[i].path) = i - 1
<1>1. stack \in Seq(Visit)
  BY DEF IInv, TypeOK
<1>2. /\ Len(stack) \in Nat \ {0} /\ DOMAIN stack = 1 .. Len(stack)
      /\ top \in Visit /\ Below \in Seq(Visit) /\ Len(Below) = Len(stack) - 1
      /\ \A i \in 1 .. Len(stack) - 1 : Below[i] = stack[i]
  BY <1>1, FrontParts DEF top, Below
<1>3. Len(stack) \in DOMAIN stack /\ \A i \in 1 .. Len(stack) - 1 : i \in DOMAIN stack /\ i < Len(stack)
  BY <1>2
<1>4. /\ CallInv(top, options, Len(nodes))
      /\ top.depth = Len(stack) - 1 /\ Len(top.path) = Len(stack) - 1
  BY <1>3 DEF IInv, TypeOK, top
<1>5. \A i \in 1 .. Len(stack) - 1 :
        /\ stack[i] \in Visit /\ stack[i].at = "branch"
        /\ CallInv(stack[i], options, Len(nodes))
        /\ stack[i].depth = i - 1 /\ Len(stack[i].path) = i - 1
  BY <1>1, <1>3 DEF IInv, TypeOK
<1> QED
  BY <1>2, <1>4, <1>5

\* A call is not disturbed by nodes that are added.
LEMMA MoreNodes ==
    ASSUME NEW c, NEW o, NEW n \in Nat, NEW m \in Nat, n <= m, CallInv(c, o, n)
    PROVE  CallInv(c, o, m)
<1>1. (c.node \in 1 .. n => c.node \in 1 .. m) /\ (c.parent \in 0 .. n => c.parent \in 0 .. m)
  OBVIOUS
<1> QED
  BY <1>1 DEF CallInv

LEMMA StackShape ==
    ASSUME IInv, stack # <<>>, NEW c \in Visit
    PROVE  /\ Append(Below, c) \in Seq(Visit) /\ Len(Append(Below, c)) = Len(stack)
           /\ Append(Below, c)[Len(stack)] = c
           /\ \A i \in 1 .. Len(stack) - 1 : Append(Below, c)[i] = stack[i]
<1>1. /\ Below \in Seq(Visit) /\ Len(Below) = Len(stack) - 1 /\ Len(stack) \in Nat \ {0}
      /\ \A i \in 1 .. Len(stack) - 1 : Below[i] = stack[i]
  BY TopParts
<1> HIDE DEF Below
<1>2. /\ Append(Below, c) \in Seq(Visit) /\ Len(Append(Below, c)) = Len(Below) + 1
      /\ Append(Below, c)[Len(Below) + 1] = c
      /\ \A i \in 1 .. Len(Below) : Append(Below, c)[i] = Below[i]
  BY <1>1, AppendParts
<1>3. Len(Below) + 1 = Len(stack)
  BY <1>1
<1> QED
  BY <1>1, <1>2, <1>3

\* The innermost call goes on.
LEMMA ProceedInv ==
    ASSUME IInv, stack # <<>>, UNCHANGED <<program, options>>, ReportOK',
           Len(nodes') >= Len(nodes),
           NEW c \in Visit, CallInv(c, options, Len(nodes')),
           c.depth = top.depth, c.path = top.path, stack' = Append(Below, c),
           report'.total <= options.max_total_retired,
           c.at = "run" => c.budget <= options.max_total_retired - report'.total
    PROVE  IInv'
<1>1. /\ stack' \in Seq(Visit) /\ Len(stack') = Len(stack) /\ Len(stack) \in Nat \ {0}
      /\ stack'[Len(stack)] = c /\ DOMAIN stack' = 1 .. Len(stack)
      /\ \A i \in 1 .. Len(stack) - 1 : stack'[i] = stack[i]
  <2>1. /\ stack' \in Seq(Visit) /\ Len(stack') = Len(stack) /\ stack'[Len(stack)] = c
        /\ \A i \in 1 .. Len(stack) - 1 : stack'[i] = stack[i]
    BY StackShape
  <2>2. Len(stack) \in Nat \ {0}
    BY TopParts
  <2>3. DOMAIN stack' = 1 .. Len(stack)
    BY <2>1
  <2> QED
    BY <2>1, <2>2, <2>3
<1>2. Len(nodes) \in Nat /\ Len(nodes') \in Nat
  BY DEF IInv, TypeOK, ReportOK, Report, nodes
<1>3. ASSUME NEW i \in 1 .. Len(stack)
      PROVE  /\ i < Len(stack) => stack'[i].at = "branch"
             /\ stack'[i].depth = i - 1 /\ Len(stack'[i].path) = i - 1
             /\ CallInv(stack'[i], options, Len(nodes'))
  <2>1. CASE i = Len(stack)
    BY <1>1, <2>1, TopParts
  <2>2. CASE i # Len(stack)
    <3>1. i \in 1 .. Len(stack) - 1
      BY <1>1, <2>2
    <3>2. stack'[i] = stack[i] /\ CallInv(stack[i], options, Len(nodes))
          /\ stack[i].at = "branch" /\ stack[i].depth = i - 1 /\ Len(stack[i].path) = i - 1
      BY <1>1, <3>1, TopParts
    <3>3. CallInv(stack[i], options, Len(nodes'))
      BY <1>2, <3>2, MoreNodes
    <3> QED
      BY <3>2, <3>3
  <2> QED
    BY <2>1, <2>2
<1>4. program' \in Guest /\ options' \in Options
  BY DEF IInv, TypeOK
<1>5. Spent'
  BY <1>1 DEF Spent, top
<1> QED
  BY <1>1, <1>3, <1>4, <1>5 DEF IInv, TypeOK, ReportOK, Report

\* The innermost call returns.
LEMMA PopInv ==
    ASSUME IInv, stack # <<>>, UNCHANGED <<program, options>>, ReportOK',
           Len(nodes') >= Len(nodes), stack' = Below,
           report'.total <= options.max_total_retired
    PROVE  IInv'
<1>1. /\ stack' \in Seq(Visit) /\ Len(stack') = Len(stack) - 1 /\ Len(stack) \in Nat \ {0}
      /\ DOMAIN stack' = 1 .. Len(stack) - 1
      /\ \A i \in 1 .. Len(stack) - 1 : stack'[i] = stack[i]
  <2>1. /\ stack' \in Seq(Visit) /\ Len(stack') = Len(stack) - 1 /\ Len(stack) \in Nat \ {0}
        /\ \A i \in 1 .. Len(stack) - 1 : stack'[i] = stack[i]
    BY TopParts, Zenon
  <2>2. DOMAIN stack' = 1 .. Len(stack) - 1
    BY <2>1
  <2> QED
    BY <2>1, <2>2
<1>2. Len(nodes) \in Nat /\ Len(nodes') \in Nat
  BY DEF IInv, TypeOK, ReportOK, Report, nodes
<1>3. ASSUME NEW i \in 1 .. Len(stack) - 1
      PROVE  /\ stack'[i].at = "branch"
             /\ stack'[i].depth = i - 1 /\ Len(stack'[i].path) = i - 1
             /\ CallInv(stack'[i], options, Len(nodes'))
  <2>1. stack'[i] = stack[i] /\ CallInv(stack[i], options, Len(nodes))
        /\ stack[i].at = "branch" /\ stack[i].depth = i - 1 /\ Len(stack[i].path) = i - 1
    BY <1>1, TopParts
  <2>2. CallInv(stack[i], options, Len(nodes'))
    BY <1>2, <2>1, MoreNodes
  <2> QED
    BY <2>1, <2>2
<1>4. program' \in Guest /\ options' \in Options
  BY DEF IInv, TypeOK
<1>5. Spent'
  <2>1. ASSUME stack' # <<>> PROVE Len(stack') \in 1 .. Len(stack) - 1
    BY <1>1, <2>1
  <2> QED
    BY <1>3, <2>1 DEF Spent, top
<1> QED
  BY <1>1, <1>3, <1>4, <1>5 DEF IInv, TypeOK, ReportOK, Report

\* The report is left alone, or ends the search.
LEMMA SameReport ==
    ASSUME IInv, UNCHANGED report
           \/ (\E reason \in Reasons : report' = [report EXCEPT !.termination = reason])
    PROVE  /\ ReportOK' /\ nodes' = nodes /\ Len(nodes') >= Len(nodes)
           /\ report'.total = report.total /\ report'.total <= options.max_total_retired
<1>1. ReportOK /\ Len(nodes) \in Nat
  BY DEF IInv, TypeOK, ReportOK, Report, nodes
<1>2. nodes' = nodes /\ report'.total = report.total
  BY <1>1 DEF ReportOK, Report, nodes
<1> QED
  BY <1>1, <1>2 DEF ReportOK, Report, nodes, IInv, Spent

LEMMA InitialInv == Init => IInv
<1> SUFFICES ASSUME Init PROVE IInv
  OBVIOUS
<1> DEFINE c == Call(Created, 0, NoParent, NoFallback, 0, <<>>, {})
<1>1. program \in Guest /\ options \in Options
  BY ExplorationsAssumption DEF Init
<1>2. SegmentInv(NewSegment, options) /\ NewSegment \in Segment /\ NewSegment.stop = "none"
      /\ NewSegment.retired = 0
  BY <1>1, NewSegmentInv DEF SegmentInv, NewSegment
<1>3. Created \in Runtime /\ ~Created.pending
  BY CreatedType
<1>4. /\ c.at = "enter" /\ c.runtime = Created /\ c.segment = NewSegment /\ c.deps = {}
      /\ c.depth = 0 /\ c.path = <<>> /\ c.parent = 0
  BY DEF Call, NoParent
<1>5. c \in Visit
  <2>1. <<>> \in Seq(Decision) /\ 0 \in 0 .. Len(Policies) /\ NoFallback \in Fallbacks
    BY DEF Policies, Fallbacks
  <2> QED
    BY <1>2, <1>3, <2>1 DEF Call, Visit, NoParent
<1>6. CallInv(c, options, 0)
  <2>1. IsFiniteSet(c.deps)
    BY <1>4, FS_EmptySet
  <2>2. options.max_branch_depth \in Nat
    BY <1>1 DEF Options
  <2> HIDE DEF c
  <2> QED
    BY <1>2, <1>3, <1>4, <2>1, <2>2 DEF CallInv, HasFrontier
<1>7. /\ report.nodes = <<>>
      /\ report = [termination |-> "completed", total |-> 0, nodes |-> <<>>,
                   dependencies |-> {}, best |-> 0, best_path |-> <<>>,
                   best_report |-> NewSegment]
  BY DEF Init
<1>8. ReportOK
  <2>1. <<>> \in Seq(Node) /\ <<>> \in Seq(Decision) /\ "completed" \in Reasons
    BY DEF Reasons
  <2> QED
    BY <1>2, <1>7, <2>1 DEF ReportOK, Report, nodes
<1>9. stack = <<c>>
  BY DEF Init
<1> HIDE DEF c
<1>10. /\ stack \in Seq(Visit) /\ Len(stack) = 1 /\ DOMAIN stack = {1} /\ stack[1] = c
  BY <1>5, <1>9
<1>11. Len(nodes) = 0
  BY <1>7 DEF nodes
<1>12. Spent
  <2>1. report.total = 0 /\ options.max_total_retired \in Nat
    BY <1>1, <1>7 DEF Options
  <2>2. top = c
    BY <1>10 DEF top
  <2> QED
    BY <1>4, <2>1, <2>2 DEF Spent
<1> QED
  BY <1>1, <1>4, <1>6, <1>8, <1>10, <1>11, <1>12 DEF IInv, TypeOK, ReportOK, Report

\* A turn of the run loop.
LEMMA TurnInv ==
    ASSUME IInv, Running,
           NEW r \in Runtime, r.bus.probing = top.runtime.bus.probing,
           NEW s, SegmentInv(s, options), s.retired <= top.budget,
           r.pending <=> s.stop = "bios_call_unimplemented",
           r.pending => AtBios(r) /\ ~Handled(r.cpu),
           Turn(r, s)
    PROVE  IInv'
<1> DEFINE c == [top EXCEPT !.runtime = r, !.segment = s]
<1>1. stack # <<>> /\ top.at = "run" /\ top \in Visit /\ CallInv(top, options, Len(nodes))
  BY TopParts DEF Running
<1>2. s \in Segment
  BY DEF SegmentInv
<1>3. /\ c \in Visit /\ c.at = "run" /\ c.runtime = r /\ c.segment = s /\ c.deps = top.deps
      /\ c.depth = top.depth /\ c.path = top.path /\ c.budget = top.budget
      /\ c.parent = top.parent
  BY <1>1, <1>2 DEF Visit
<1>4. stack' = Append(Below, c) /\ UNCHANGED <<program, options, report>>
  BY DEF Turn, Proceed
<1> HIDE DEF c
<1>5. CallInv(c, options, Len(nodes))
  BY <1>1, <1>3 DEF CallInv, HasFrontier
<1>6. /\ ReportOK' /\ nodes' = nodes /\ Len(nodes') >= Len(nodes)
      /\ report'.total = report.total /\ report'.total <= options.max_total_retired
  BY <1>4, SameReport
<1>7. c.budget <= options.max_total_retired - report'.total
  BY <1>1, <1>3, <1>6 DEF IInv, Spent
<1> QED
  BY <1>1, <1>3, <1>4, <1>5, <1>6, <1>7, ProceedInv

\* Where the run loop goes on.
LEMMA RunningParts ==
    ASSUME IInv, Running
    PROVE  /\ top.runtime \in Runtime /\ ~top.runtime.pending
           /\ SegmentInv(top.segment, options) /\ top.segment \in Segment
           /\ top.segment.retired \in Nat /\ top.budget \in Nat
           /\ top.segment.retired <= top.budget
           /\ program \in Guest /\ options \in Options
<1>1. stack # <<>> /\ top.at = "run" /\ top.segment.stop = "none"
  BY DEF Running
<1>2. top \in Visit /\ CallInv(top, options, Len(nodes))
  BY <1>1, TopParts
<1>3. top.runtime \in Runtime /\ top.segment \in Segment /\ top.budget \in Nat
  BY <1>2 DEF Visit
<1>4. program \in Guest /\ options \in Options
  BY DEF IInv, TypeOK
<1> QED
  BY <1>1, <1>2, <1>3, <1>4 DEF CallInv, HasFrontier, Segment

LEMMA BudgetExhaustedInv == ASSUME IInv, BudgetExhausted PROVE IInv'
<1> DEFINE s == [top.segment EXCEPT !.stop = "execution_budget_exhausted"]
<1>1. Running /\ Turn(top.runtime, s)
  BY DEF BudgetExhausted
<1>2. SegmentInv(s, options)
  BY <1>1, RunningParts, StopInv DEF StopReasons
<1>3. s.retired = top.segment.retired /\ s.stop = "execution_budget_exhausted"
  BY <1>1, RunningParts DEF Segment
<1> HIDE DEF s
<1> QED
  BY <1>1, <1>2, <1>3, RunningParts, TurnInv

LEMMA BiosCallInv == ASSUME IInv, BiosCall PROVE IInv'
<1> DEFINE s == Called(top.segment, top.runtime.cpu)
           r == AfterHandled(top.runtime)
<1>1. Running /\ AtBios(top.runtime) /\ Handled(top.runtime.cpu) /\ Turn(r, s)
  BY DEF BiosCall
<1>2. SegmentInv(s, options) /\ s.retired = top.segment.retired /\ s.stop = "none"
  BY <1>1, RunningParts, CalledInv DEF Running
<1>3. r \in Runtime /\ ~r.pending /\ r.bus = top.runtime.bus
  BY <1>1, RunningParts, HandledType
<1> HIDE DEF s, r
<1> QED
  BY <1>1, <1>2, <1>3, RunningParts, TurnInv

LEMMA BiosFrontierInv == ASSUME IInv, BiosFrontier PROVE IInv'
<1> DEFINE called == Called(top.segment, top.runtime.cpu)
           s == [called EXCEPT !.stop = "bios_call_unimplemented"]
           r == [top.runtime EXCEPT !.pending = TRUE]
<1>1. Running /\ AtBios(top.runtime) /\ ~Handled(top.runtime.cpu) /\ Turn(r, s)
  BY DEF BiosFrontier
<1>2. SegmentInv(called, options) /\ called.retired = top.segment.retired
  BY <1>1, RunningParts, CalledInv
<1>3. SegmentInv(s, options)
  BY <1>2, RunningParts, StopInv, <1>1 DEF StopReasons
<1>4. s.retired = top.segment.retired /\ s.stop = "bios_call_unimplemented"
  BY <1>2 DEF SegmentInv, Segment
<1>5. r \in Runtime /\ r.pending /\ r.bus = top.runtime.bus /\ r.cpu = top.runtime.cpu
  BY <1>1, RunningParts DEF Runtime
<1>6. AtBios(r) /\ ~Handled(r.cpu)
  BY <1>1, <1>5 DEF AtBios
<1> HIDE DEF s, r
<1> QED
  BY <1>1, <1>3, <1>4, <1>5, <1>6, RunningParts, TurnInv

LEMMA RetireInv == ASSUME IInv, Retire PROVE IInv'
<1> DEFINE after == Counted(top.segment, top.runtime, options.capacity)
           s == IF Stalled(after, options.stagnation)
                THEN [after EXCEPT !.stop = "diagnostic_stall"] ELSE after
           r == Stepped(top.runtime)
<1>1. Running /\ InBudget /\ Retires(top.runtime) /\ Turn(r, s)
  BY DEF Retire
<1>2. top.segment.stop = "none"
  BY <1>1 DEF Running
<1>3. /\ after.retired = top.segment.retired + 1 /\ after.stop = "none"
      /\ Stalled(after, options.stagnation) =>
            SegmentInv([after EXCEPT !.stop = "diagnostic_stall"], options)
      /\ ~Stalled(after, options.stagnation) => SegmentInv(after, options)
  BY <1>1, <1>2, RunningParts, CountedInv
<1>4. SegmentInv(s, options) /\ s.retired = top.segment.retired + 1
      /\ s.stop # "bios_call_unimplemented"
  <2>1. CASE Stalled(after, options.stagnation)
    <3> DEFINE d == [after EXCEPT !.stop = "diagnostic_stall"]
    <3>1. SegmentInv(d, options)
      BY <1>3, <2>1
    <3>2. DOMAIN d = DOMAIN after
      OBVIOUS
    <3>3. "stop" \in DOMAIN d
      BY <3>1 DEF SegmentInv, Segment
    <3>4. d.stop = "diagnostic_stall" /\ d.retired = after.retired
      BY <3>2, <3>3
    <3>5. s = d
      BY <2>1
    <3> HIDE DEF s, d
    <3> QED
      BY <1>3, <3>1, <3>4, <3>5
  <2>2. CASE ~Stalled(after, options.stagnation)
    <3>1. s = after
      BY <2>2
    <3> HIDE DEF s, after
    <3> QED
      BY <1>3, <2>2, <3>1
  <2> QED
    BY <2>1, <2>2
<1>5. r \in Runtime /\ ~r.pending /\ r.bus.probing = top.runtime.bus.probing
  BY <1>1, RunningParts, SteppedType
<1>6. s.retired <= top.budget
  BY <1>1, <1>4, RunningParts DEF InBudget
<1> HIDE DEF s, r, after
<1> QED
  BY <1>1, <1>4, <1>5, <1>6, TurnInv

LEMMA BoundaryInv == ASSUME IInv, Boundary PROVE IInv'
<1> DEFINE s == [top.segment EXCEPT !.stop = BoundaryReason(top.runtime)]
           r == [top.runtime EXCEPT !.pending = FALSE]
<1>1. Running /\ Turn(r, s)
  BY DEF Boundary
<1>2. BoundaryReason(top.runtime) \in StopReasons \ {"none", "bios_call_unimplemented"}
  BY DEF BoundaryReason, StopReasons
<1>3. SegmentInv(s, options)
  BY <1>1, <1>2, RunningParts, StopInv
<1>4. s.retired = top.segment.retired /\ s.stop # "bios_call_unimplemented"
  BY <1>1, <1>2, RunningParts DEF Segment
<1>5. r \in Runtime /\ ~r.pending /\ r.bus = top.runtime.bus
  BY <1>1, RunningParts DEF Runtime
<1> HIDE DEF s, r
<1> QED
  BY <1>1, <1>3, <1>4, <1>5, RunningParts, TurnInv

\* The budget of a segment is never negative.
LEMMA BudgetType ==
    ASSUME IInv
    PROVE  /\ SegmentBudget \in Nat /\ SegmentBudget <= options.max_total_retired - report.total
           /\ SegmentBudget <= options.budget
<1>1. /\ options.budget \in Nat /\ options.max_total_retired \in Nat /\ report.total \in Nat
      /\ report.total <= options.max_total_retired
  BY DEF IInv, TypeOK, Spent, Options
<1> QED
  BY <1>1 DEF SegmentBudget, Min2

LEMMA EnterInv == ASSUME IInv, Enter PROVE IInv'
<1>1. stack # <<>> /\ top.at = "enter" /\ UNCHANGED <<program, options>>
  BY DEF Enter
<1>2. top \in Visit /\ CallInv(top, options, Len(nodes)) /\ options.probe \in BOOLEAN
  BY <1>1, TopParts DEF IInv, TypeOK, Options, CallInv
<1>3. CASE LimitReached = "completed"
  <2> DEFINE b == Probing(top.runtime.bus, options.probe)
             r == [top.runtime EXCEPT !.bus = b]
             c == [top EXCEPT !.at = "run", !.budget = SegmentBudget, !.runtime = r]
  <2>1. top.runtime \in Runtime /\ top.runtime.bus \in Bus
    BY <1>2 DEF Visit, Runtime
  <2>2. b \in Bus /\ b.probing = options.probe
    BY <1>2, <2>1, ProbingType
  <2>3. stack' = Append(Below, c) /\ UNCHANGED report
    BY <1>3 DEF Enter, Proceed
  <2> HIDE DEF b
  <2>4. /\ r \in Runtime /\ r.bus.probing = options.probe /\ r.cpu = top.runtime.cpu
        /\ r.pending = top.runtime.pending
    BY <2>1, <2>2 DEF Runtime
  <2>5. SegmentBudget \in Nat /\ SegmentBudget <= options.max_total_retired - report.total
    BY BudgetType
  <2> HIDE DEF r
  <2>6. /\ c \in Visit /\ c.at = "run" /\ c.runtime = r /\ c.segment = top.segment
        /\ c.depth = top.depth /\ c.path = top.path /\ c.deps = top.deps /\ c.budget = SegmentBudget
        /\ c.parent = top.parent
    BY <1>2, <2>4, <2>5 DEF Visit
  <2> HIDE DEF c
  <2>7. CallInv(c, options, Len(nodes))
    <3>1. top.segment = NewSegment
      BY <1>1, <1>2 DEF CallInv
    <3>2. top.segment.retired = 0
      BY <3>1 DEF NewSegment
    <3> QED
      BY <1>1, <1>2, <2>4, <2>5, <2>6, <3>2 DEF CallInv, HasFrontier, AtBios
  <2>8. /\ ReportOK' /\ nodes' = nodes /\ Len(nodes') >= Len(nodes)
        /\ report'.total = report.total /\ report'.total <= options.max_total_retired
    BY <2>3, SameReport
  <2> QED
    BY <1>1, <2>3, <2>5, <2>6, <2>7, <2>8, ProceedInv
<1>4. CASE LimitReached # "completed"
  <2>1. report' = [report EXCEPT !.termination = LimitReached] /\ stack' = Below
    BY <1>4 DEF Enter
  <2>2. LimitReached \in Reasons
    BY DEF LimitReached, Reasons
  <2>3. /\ ReportOK' /\ nodes' = nodes /\ Len(nodes') >= Len(nodes)
        /\ report'.total = report.total /\ report'.total <= options.max_total_retired
    BY <2>1, <2>2, SameReport
  <2> QED
    BY <1>1, <2>1, <2>3, PopInv
<1> QED
  BY <1>3, <1>4

\* What a call that has run its segment reports.
AllDeps == top.deps \cup Dependencies(top)
NewNode == Summary(top, AllDeps)
SpentAll == report.total + top.segment.retired >= options.max_total_retired
Leaves == SpentAll \/ ~Expandable(top) \/ Deduplicated(top)

LEMMA DependenciesType ==
    ASSUME IInv, stack # <<>>
    PROVE  Dependencies(top) \in SUBSET Dependency /\ IsFiniteSet(Dependencies(top))
<1>1. top \in Visit /\ CallInv(top, options, Len(nodes))
  BY TopParts
<1>2. /\ top.runtime \in Runtime /\ top.segment \in Segment
      /\ SegmentInv(top.segment, options) /\ (HasFrontier(top) => AtBios(top.runtime))
  BY <1>1 DEF Visit, CallInv
<1> DEFINE R == ToSet(top.segment.recent)
           M == {<<"mmio", a>> : a \in R}
           f == Frontier(top.runtime.cpu)
<1>3. R \subseteq Access /\ IsFiniteSet(R)
  <2>1. top.segment.mmio \subseteq Access /\ IsFiniteSet(top.segment.mmio)
        /\ R \subseteq top.segment.mmio
    BY <1>2 DEF SegmentInv, Segment, Kept
  <2> QED
    BY <2>1, FS_Subset
<1>4. HasFrontier(top) => f \in Tables \X Int
  BY <1>2 DEF Frontier, AtBios, Runtime, Cpu
<1> HIDE DEF R, f
<1>5. IsFiniteSet(M)
  <2> DEFINE g == [a \in R |-> <<"mmio", a>>]
  <2>1. g \in Surjection(R, M)
    BY DEF Surjection
  <2> HIDE DEF g, M
  <2> QED
    BY <1>3, <2>1, FS_Surjection
<1>6. Dependencies(top) = M \cup (IF HasFrontier(top) THEN {<<"bios", f>>} ELSE {})
  BY DEF Dependencies, R, f
<1>7. IsFiniteSet({<<"bios", f>>}) /\ IsFiniteSet({})
  BY FS_Singleton, FS_EmptySet
<1>8. M \subseteq Dependency
  BY <1>3 DEF Dependency
<1> HIDE DEF M
<1>9. IsFiniteSet(Dependencies(top))
  BY <1>5, <1>6, <1>7, FS_Union
<1> QED
  BY <1>4, <1>6, <1>8, <1>9 DEF Dependency

LEMMA StateType == ASSUME NEW r \in Runtime PROVE DiagnosticState(r) \in State
  BY DEF DiagnosticState, Runtime, State, Bus

LEMMA RecordParts ==
    ASSUME IInv, Record
    PROVE  /\ stack # <<>> /\ top.at = "run" /\ top.segment.stop # "none"
           /\ NewNode \in Node /\ AllDeps \in SUBSET Dependency /\ IsFiniteSet(AllDeps)
           /\ report.total + top.segment.retired \in Nat
           /\ report.total + top.segment.retired <= options.max_total_retired
           /\ nodes' = Append(nodes, NewNode) /\ Len(nodes) \in Nat
           /\ Len(nodes') = Len(nodes) + 1 /\ DOMAIN nodes' = 1 .. Len(nodes) + 1
           /\ nodes'[Len(nodes) + 1] = NewNode
           /\ \A i \in 1 .. Len(nodes) : nodes'[i] = nodes[i]
           /\ report' \in Report /\ report'.best <= Len(nodes')
           /\ report'.total = report.total + top.segment.retired
           /\ report'.dependencies = report.dependencies \cup Dependencies(top)
           /\ report'.termination = IF SpentAll THEN "total_retired_limit" ELSE report.termination
           /\ UNCHANGED <<program, options>>
           /\ expanded' = IF Expandable(top) THEN expanded \cup {FrontierKey(top)} ELSE expanded
           /\ IF Leaves THEN stack' = Below
              ELSE stack' = Append(Below, [top EXCEPT !.at = "branch", !.node = Len(nodes) + 1,
                                                      !.deps = AllDeps])
<1>1. stack # <<>> /\ top.at = "run" /\ top.segment.stop # "none"
      /\ UNCHANGED <<program, options>>
  BY DEF Record
<1>2. top \in Visit /\ CallInv(top, options, Len(nodes)) /\ ReportOK
  BY <1>1, TopParts DEF IInv, TypeOK, ReportOK, Report
<1>3. /\ report.total \in Nat /\ nodes \in Seq(Node) /\ top.segment.retired \in Nat
      /\ top.runtime \in Runtime /\ top.segment \in Segment /\ top.deps \in SUBSET Dependency
      /\ top.before \in Nat /\ IsFiniteSet(top.deps) /\ top.segment.retired <= top.budget
      /\ top.budget \in Nat /\ options.max_total_retired \in Nat
  BY <1>1, <1>2 DEF Visit, CallInv, ReportOK, Report, nodes, Segment, IInv, TypeOK, Options
<1>4. top.budget <= options.max_total_retired - report.total
  BY <1>1 DEF IInv, Spent
<1>5. AllDeps \in SUBSET Dependency /\ IsFiniteSet(AllDeps)
  BY <1>1, <1>3, DependenciesType, FS_Union DEF AllDeps
<1>6. NewNode \in Node
  <2>1. Cardinality(AllDeps) \in Nat
    BY <1>5, FS_CardinalityType
  <2>2. DiagnosticState(top.runtime) \in State
    BY <1>3, StateType
  <2>3. top.segment.stop \in StopReasons \ {"none"}
    BY <1>1, <1>3 DEF Segment
  <2>4. Deduplicated(top) \in BOOLEAN
    BY DEF Deduplicated, Expandable, HasFrontier
  <2>5. top.before + top.segment.retired \in Nat
    BY <1>3
  <2>6. top.parent \in Nat /\ top.depth \in Nat /\ top.fallback \in Fallbacks
    BY <1>2 DEF Visit
  <2> QED
    BY <1>3, <2>1, <2>2, <2>3, <2>4, <2>5, <2>6 DEF NewNode, Summary, Node
<1> DEFINE total == report.total + top.segment.retired
           index == Len(report.nodes) + 1
           better == index = 1 \/ Outranks(NewNode, report.nodes[report.best])
<1>7. report' = [report EXCEPT
                !.total = total,
                !.nodes = Append(report.nodes, NewNode),
                !.dependencies = report.dependencies \cup Dependencies(top),
                !.best = IF better THEN index ELSE report.best,
                !.best_path = IF better THEN top.path ELSE report.best_path,
                !.best_report = IF better THEN top.segment ELSE report.best_report,
                !.termination = IF SpentAll THEN "total_retired_limit" ELSE report.termination]
  BY DEF Record, NewNode, AllDeps, SpentAll
<1> HIDE DEF total, index, better
<1>8. /\ report'.total = total /\ report'.nodes = Append(report.nodes, NewNode)
      /\ report'.dependencies = report.dependencies \cup Dependencies(top)
      /\ report'.termination = IF SpentAll THEN "total_retired_limit" ELSE report.termination
  BY <1>2, <1>7 DEF ReportOK, Report
<1>9. /\ nodes' = Append(nodes, NewNode) /\ Len(nodes) \in Nat
      /\ Len(nodes') = Len(nodes) + 1 /\ DOMAIN nodes' = 1 .. Len(nodes) + 1
      /\ nodes'[Len(nodes) + 1] = NewNode
      /\ \A i \in 1 .. Len(nodes) : nodes'[i] = nodes[i]
  <2>1. nodes' = Append(nodes, NewNode)
    BY <1>8 DEF nodes
  <2> QED
    BY <1>3, <1>6, <2>1, AppendParts
<1>10. total \in Nat /\ total <= options.max_total_retired
  BY <1>3, <1>4 DEF total
<1>11. expanded' = IF Expandable(top) THEN expanded \cup {FrontierKey(top)} ELSE expanded
  BY DEF Record
<1>12. report' \in Report
  <2>1. Append(report.nodes, NewNode) \in Seq(Node)
    BY <1>3, <1>6, AppendParts DEF nodes
  <2>2. report.dependencies \cup Dependencies(top) \in SUBSET Dependency
    BY <1>1, <1>2, DependenciesType DEF ReportOK, Report
  <2>3. /\ (IF better THEN index ELSE report.best) \in Nat
        /\ (IF better THEN top.path ELSE report.best_path) \in Seq(Decision)
        /\ (IF better THEN top.segment ELSE report.best_report) \in Segment
    <3>1. index \in Nat
      BY <1>9 DEF index, nodes
    <3>2. top.path \in Seq(Decision)
      BY <1>2 DEF Visit
    <3> QED
      BY <1>2, <1>3, <3>1, <3>2 DEF ReportOK, Report
  <2>4. (IF SpentAll THEN "total_retired_limit" ELSE report.termination) \in Reasons
    BY <1>2 DEF ReportOK, Report, Reasons
  <2> QED
    BY <1>2, <1>7, <1>10, <2>1, <2>2, <2>3, <2>4 DEF ReportOK, Report
<1>13. report'.best <= Len(nodes')
  <2>1. report'.best = IF better THEN index ELSE report.best
    BY <1>2, <1>7 DEF ReportOK, Report
  <2>2. report.best \in Nat /\ report.best <= Len(nodes) /\ index = Len(nodes) + 1
    BY <1>2 DEF ReportOK, Report, index, nodes
  <2> QED
    BY <1>9, <2>1, <2>2
<1>14. IF Leaves THEN stack' = Below
       ELSE stack' = Append(Below, [top EXCEPT !.at = "branch", !.node = Len(nodes) + 1,
                                               !.deps = AllDeps])
  BY DEF Record, Proceed, Leaves, SpentAll, AllDeps, nodes
<1> QED
  BY <1>1, <1>5, <1>6, <1>8, <1>9, <1>10, <1>11, <1>12, <1>13, <1>14 DEF total

LEMMA RecordInv == ASSUME IInv, Record PROVE IInv'
<1>1. /\ stack # <<>> /\ top.at = "run" /\ UNCHANGED <<program, options>>
      /\ NewNode \in Node /\ AllDeps \in SUBSET Dependency /\ IsFiniteSet(AllDeps)
      /\ Len(nodes) \in Nat
      /\ Len(nodes') = Len(nodes) + 1 /\ DOMAIN nodes' = 1 .. Len(nodes) + 1
      /\ nodes'[Len(nodes) + 1] = NewNode /\ report' \in Report /\ report'.best <= Len(nodes')
      /\ \A i \in 1 .. Len(nodes) : nodes'[i] = nodes[i]
      /\ report'.total <= options.max_total_retired
  BY RecordParts
<1>2. top \in Visit /\ CallInv(top, options, Len(nodes))
  BY <1>1, TopParts
<1>3. ReportOK'
  <2>1. NewNode.parent = top.parent /\ top.parent \in 0 .. Len(nodes)
    BY <1>2 DEF NewNode, Summary, CallInv
  <2>2. \A i \in 1 .. Len(nodes) : nodes[i].parent < i
    BY <1>1 DEF IInv, TypeOK, ReportOK, Report, nodes
  <2>3. ASSUME NEW i \in 1 .. Len(nodes) + 1 PROVE nodes'[i].parent < i
    <3>1. CASE i = Len(nodes) + 1
      BY <1>1, <2>1, <3>1
    <3>2. CASE i \in 1 .. Len(nodes)
      BY <1>1, <2>2, <3>2
    <3> QED
      BY <1>1, <3>1, <3>2
  <2> QED
    BY <1>1, <2>3 DEF ReportOK
<1>4. CASE Leaves
  BY <1>1, <1>3, <1>4, RecordParts, PopInv
<1>5. CASE ~Leaves
  <2> DEFINE c == [top EXCEPT !.at = "branch", !.node = Len(nodes) + 1, !.deps = AllDeps]
  <2>1. stack' = Append(Below, c)
    BY <1>5, RecordParts
  <2>2. /\ c \in Visit /\ c.at = "branch" /\ c.node = Len(nodes) + 1 /\ c.deps = AllDeps
        /\ c.runtime = top.runtime /\ c.segment = top.segment /\ c.depth = top.depth
        /\ c.path = top.path /\ c.parent = top.parent
    <3>1. Len(nodes) + 1 \in Nat
      BY <1>1
    <3> QED
      BY <1>1, <1>2, <3>1 DEF Visit
  <2>3. HasFrontier(top) /\ top.depth < options.max_branch_depth
    BY <1>5 DEF Leaves, Expandable
  <2> HIDE DEF c
  <2>4. CallInv(c, options, Len(nodes) + 1)
    <3>1. CallInv(top, options, Len(nodes) + 1)
      BY <1>1, <1>2, MoreNodes
    <3>2. Len(nodes) + 1 \in 1 .. Len(nodes) + 1
      BY <1>1
    <3> QED
      BY <1>1, <2>2, <2>3, <3>1, <3>2 DEF CallInv, HasFrontier
  <2> QED
    BY <1>1, <1>3, <2>1, <2>2, <2>4, ProceedInv
<1> QED
  BY <1>4, <1>5

\* Where a call answers its frontier.
LEMMA BranchParts ==
    ASSUME IInv, Branch
    PROVE  /\ stack # <<>> /\ top.at = "branch" /\ report.termination = "completed"
           /\ LimitReached = "completed" /\ top.tried \in 0 .. Len(Policies) - 1
           /\ policy \in ToSet(Policies) /\ policy = Policies[top.tried + 1]
           /\ UNCHANGED <<program, options, report, expanded, nodes>>
           /\ LET child == WithFallback(top.runtime, policy)
                  one == [top EXCEPT !.tried = top.tried + 1]
                  two == Call(child, top.depth + 1, top.node, policy,
                              nodes[top.node].cumulative,
                              Append(top.path, <<Frontier(top.runtime.cpu), policy>>), top.deps)
              IN  /\ one \in Visit /\ CallInv(one, options, Len(nodes)) /\ one.at = "branch"
                  /\ two \in Visit /\ CallInv(two, options, Len(nodes)) /\ two.at = "enter"
                  /\ Len(two.path) = Len(top.path) + 1
                  /\ stack' \in Seq(Visit) /\ Len(stack') = Len(stack) + 1
                  /\ stack'[Len(stack)] = one /\ stack'[Len(stack) + 1] = two
                  /\ \A i \in 1 .. Len(stack) - 1 : stack'[i] = stack[i]
<1> DEFINE child == WithFallback(top.runtime, policy)
           decision == <<Frontier(top.runtime.cpu), policy>>
           one == [top EXCEPT !.tried = top.tried + 1]
           two == Call(child, top.depth + 1, top.node, policy,
                       nodes[top.node].cumulative, Append(top.path, decision), top.deps)
<1>1. /\ stack # <<>> /\ top.at = "branch" /\ report.termination = "completed"
      /\ LimitReached = "completed" /\ top.tried < Len(Policies)
      /\ UNCHANGED <<program, options, report, expanded>>
  BY DEF Branch, Branching, More
<1>2. top \in Visit /\ CallInv(top, options, Len(nodes)) /\ Len(stack) \in Nat \ {0}
  BY <1>1, TopParts
<1>3. /\ top.tried \in 0 .. Len(Policies) /\ top.runtime \in Runtime /\ top.depth \in Nat
      /\ top.node \in 1 .. Len(nodes) /\ top.path \in Seq(Decision) /\ top.deps \in SUBSET Dependency
      /\ IsFiniteSet(top.deps) /\ AtBios(top.runtime)
      /\ top.depth < options.max_branch_depth /\ top.runtime.bus.probing = options.probe
      /\ nodes \in Seq(Node) /\ options \in Options
  BY <1>1, <1>2 DEF Visit, CallInv, IInv, TypeOK, nodes
<1>4. top.tried \in 0 .. Len(Policies) - 1 /\ top.tried + 1 \in 1 .. Len(Policies)
      /\ Len(Policies) = 4
  BY <1>1, <1>3 DEF Policies
<1>5. policy \in ToSet(Policies) /\ policy = Policies[top.tried + 1]
  BY <1>4 DEF policy, ToSet, Policies
<1>6. child \in Runtime /\ ~child.pending /\ child.bus = top.runtime.bus
  BY <1>3, <1>5, FallbackType
<1>7. decision \in Decision
  BY <1>3, <1>5 DEF Decision, Frontier, AtBios, Runtime, Cpu
<1>8. nodes[top.node].cumulative \in Nat
  <2>1. nodes[top.node] \in Node
    BY <1>3
  <2> QED
    BY <2>1 DEF Node
<1> HIDE DEF child, decision
<1>9. Append(top.path, decision) \in Seq(Decision) /\ Len(Append(top.path, decision)) = Len(top.path) + 1
  BY <1>3, <1>7
<1>10. SegmentInv(NewSegment, options) /\ NewSegment \in Segment /\ NewSegment.stop = "none"
  BY <1>3, NewSegmentInv DEF SegmentInv, NewSegment
<1>11. /\ two \in Visit /\ two.at = "enter" /\ two.path = Append(top.path, decision)
       /\ two.runtime = child /\ two.segment = NewSegment /\ two.deps = top.deps
       /\ two.depth = top.depth + 1 /\ two.parent = top.node
  <2>1. policy \in Fallbacks /\ 0 \in 0 .. Len(Policies)
    BY <1>4, <1>5 DEF Fallbacks
  <2>2. top.node \in Nat /\ top.depth + 1 \in Nat
    BY <1>3
  <2> QED
    BY <1>3, <1>6, <1>8, <1>9, <1>10, <2>1, <2>2 DEF Call, Visit
<1>12. /\ one \in Visit /\ one.at = "branch" /\ one.runtime = top.runtime
       /\ one.segment = top.segment /\ one.deps = top.deps /\ one.depth = top.depth
       /\ one.path = top.path /\ one.parent = top.parent /\ one.node = top.node
  <2>1. top.tried + 1 \in 0 .. Len(Policies)
    BY <1>4
  <2> QED
    BY <1>1, <1>2, <2>1 DEF Visit
<1>13. stack' = Append(Append(Below, one), two)
  BY DEF Branch, Continued, decision, child, nodes
<1> HIDE DEF one, two
<1>14. CallInv(one, options, Len(nodes))
  BY <1>1, <1>2, <1>12 DEF CallInv, HasFrontier
<1>15. CallInv(two, options, Len(nodes))
  <2>1. top.depth + 1 <= options.max_branch_depth /\ top.depth + 1 # 0 /\ top.node \in 0 .. Len(nodes)
    BY <1>3 DEF Options
  <2> QED
    BY <1>3, <1>6, <1>10, <1>11, <2>1 DEF CallInv, HasFrontier
<1>16. /\ Append(Below, one) \in Seq(Visit) /\ Len(Append(Below, one)) = Len(stack)
       /\ Append(Below, one)[Len(stack)] = one
       /\ \A i \in 1 .. Len(stack) - 1 : Append(Below, one)[i] = stack[i]
  BY <1>1, <1>12, StackShape
<1> DEFINE under == Append(Below, one)
<1> HIDE DEF under
<1>17. /\ stack' \in Seq(Visit) /\ Len(stack') = Len(stack) + 1
       /\ stack'[Len(stack) + 1] = two
       /\ \A i \in 1 .. Len(stack) : stack'[i] = under[i]
  BY <1>11, <1>13, <1>16, AppendParts DEF under
<1>18. stack'[Len(stack)] = one /\ \A i \in 1 .. Len(stack) - 1 : stack'[i] = stack[i]
  BY <1>2, <1>16, <1>17 DEF under
<1>19. nodes' = nodes
  BY <1>1 DEF nodes
<1> QED
  BY <1>1, <1>4, <1>5, <1>9, <1>11, <1>12, <1>14, <1>15, <1>17, <1>18, <1>19 DEF one, two, child, decision

LEMMA BranchInv == ASSUME IInv, Branch PROVE IInv'
<1>1. PICK one, two :
        /\ one.at = "branch" /\ CallInv(one, options, Len(nodes))
        /\ two.at = "enter" /\ CallInv(two, options, Len(nodes))
        /\ one.depth = top.depth /\ one.path = top.path
        /\ two.depth = top.depth + 1 /\ Len(two.path) = Len(top.path) + 1
        /\ stack' \in Seq(Visit) /\ Len(stack') = Len(stack) + 1
        /\ stack'[Len(stack)] = one /\ stack'[Len(stack) + 1] = two
        /\ \A i \in 1 .. Len(stack) - 1 : stack'[i] = stack[i]
  <2> DEFINE child == WithFallback(top.runtime, policy)
             one == [top EXCEPT !.tried = top.tried + 1]
             two == Call(child, top.depth + 1, top.node, policy, nodes[top.node].cumulative,
                         Append(top.path, <<Frontier(top.runtime.cpu), policy>>), top.deps)
  <2>1. /\ one \in Visit /\ CallInv(one, options, Len(nodes)) /\ one.at = "branch"
        /\ two \in Visit /\ CallInv(two, options, Len(nodes)) /\ two.at = "enter"
        /\ Len(two.path) = Len(top.path) + 1
        /\ stack' \in Seq(Visit) /\ Len(stack') = Len(stack) + 1
        /\ stack'[Len(stack)] = one /\ stack'[Len(stack) + 1] = two
        /\ \A i \in 1 .. Len(stack) - 1 : stack'[i] = stack[i]
    BY BranchParts
  <2>2. two.depth = top.depth + 1
    BY DEF Call
  <2>3. one.depth = top.depth /\ one.path = top.path
    OBVIOUS
  <2> HIDE DEF one, two
  <2> QED
    BY <2>1, <2>2, <2>3
<1>2. stack # <<>> /\ UNCHANGED <<program, options, report, nodes>>
  BY BranchParts
<1>3. Len(stack) \in Nat \ {0} /\ top.depth = Len(stack) - 1 /\ Len(top.path) = Len(stack) - 1
  BY <1>2, TopParts
<1>4. ASSUME NEW i \in 1 .. Len(stack) + 1
      PROVE  /\ i < Len(stack) + 1 => stack'[i].at = "branch"
             /\ stack'[i].depth = i - 1 /\ Len(stack'[i].path) = i - 1
             /\ CallInv(stack'[i], options, Len(nodes))
  <2>1. CASE i = Len(stack) + 1
    BY <1>1, <1>3, <2>1
  <2>2. CASE i = Len(stack)
    BY <1>1, <1>3, <2>2
  <2>3. CASE i \in 1 .. Len(stack) - 1
    <3>1. stack'[i] = stack[i]
      BY <1>1, <2>3
    <3> QED
      BY <1>2, <2>3, <3>1, TopParts
  <2> QED
    BY <1>3, <2>1, <2>2, <2>3
<1>5. DOMAIN stack' = 1 .. Len(stack) + 1
  BY <1>1
<1>6. Spent'
  <2>1. top' = two
    BY <1>1 DEF top
  <2> QED
    BY <1>1, <1>2, <2>1 DEF IInv, Spent
<1>7. program' \in Guest /\ options' \in Options /\ ReportOK'
  BY <1>2 DEF IInv, TypeOK, ReportOK, Report, nodes
<1> QED
  BY <1>1, <1>2, <1>4, <1>5, <1>6, <1>7 DEF IInv, TypeOK, ReportOK, Report

LEMMA BranchLimitedInv == ASSUME IInv, BranchLimited PROVE IInv'
<1>1. /\ stack # <<>> /\ stack' = Below /\ UNCHANGED <<program, options>>
      /\ report' = [report EXCEPT !.termination = LimitReached]
  BY DEF BranchLimited, Branching
<1>2. LimitReached \in Reasons
  BY DEF LimitReached, Reasons
<1> QED
  BY <1>1, <1>2, SameReport, PopInv

LEMMA ReturnInv == ASSUME IInv, Return PROVE IInv'
<1>1. stack # <<>> /\ stack' = Below /\ UNCHANGED <<program, options, report>>
  BY DEF Return
<1> QED
  BY <1>1, SameReport, PopInv

LEMMA UnchangedInv == ASSUME IInv, UNCHANGED vars PROVE IInv'
  BY DEF IInv, TypeOK, Spent, vars, nodes, top

LEMMA StepInv == IInv /\ [Next]_vars => IInv'
<1> SUFFICES ASSUME IInv, [Next]_vars PROVE IInv'
  OBVIOUS
<1>1. CASE Enter
  BY <1>1, EnterInv
<1>2. CASE BudgetExhausted \/ BiosCall \/ BiosFrontier \/ Retire \/ Boundary
  BY <1>2, BudgetExhaustedInv, BiosCallInv, BiosFrontierInv, RetireInv, BoundaryInv
<1>3. CASE Record
  BY <1>3, RecordInv
<1>4. CASE Branch \/ BranchLimited \/ Return
  BY <1>4, BranchInv, BranchLimitedInv, ReturnInv
<1>5. CASE UNCHANGED vars
  BY <1>5, UnchangedInv
<1> QED
  BY <1>1, <1>2, <1>3, <1>4, <1>5 DEF Next

LEMMA Invariance == Spec => []IInv
  BY InitialInv, StepInv, PTL DEF Spec

\* The calls of visit and its report keep their shape, and no budget it hands
\* to a runtime is negative.
THEOREM ExplorerTypes == Spec => []TypeOK
<1>1. IInv => TypeOK
  BY DEF IInv
<1> QED
  BY <1>1, Invariance, PTL

-----------------------------------------------------------------------------
(* What is kept of the evidence                                            *)

Evidence ==
    /\ report.dependencies \subseteq report'.dependencies
    /\ Len(report'.nodes) > Len(nodes) /\ Len(top.segment.recent) < options.capacity =>
         /\ \A a \in top.segment.mmio : <<"mmio", a>> \in report'.dependencies
         /\ AtBios(top.runtime) /\ ~Handled(top.runtime.cpu) /\ top.runtime.pending =>
             <<"bios", Frontier(top.runtime.cpu)>> \in report'.dependencies

LEMMA RecordEvidence == ASSUME IInv, Record PROVE Evidence
<1>1. stack # <<>> /\ report'.dependencies = report.dependencies \cup Dependencies(top)
  BY RecordParts
<1>2. CallInv(top, options, Len(nodes))
  BY <1>1, TopParts
<1>3. ASSUME Len(top.segment.recent) < options.capacity
      PROVE  \A a \in top.segment.mmio : <<"mmio", a>> \in Dependencies(top)
  <2>1. top.segment.mmio \subseteq ToSet(top.segment.recent)
    BY <1>2, <1>3 DEF CallInv, SegmentInv, Kept
  <2> QED
    BY <2>1 DEF Dependencies
<1>4. top.runtime.pending => <<"bios", Frontier(top.runtime.cpu)>> \in Dependencies(top)
  BY <1>2 DEF CallInv, Dependencies
<1> QED
  BY <1>1, <1>3, <1>4 DEF Evidence

LEMMA OtherEvidence ==
    ASSUME IInv, report' = report
           \/ (\E reason : report' = [report EXCEPT !.termination = reason])
    PROVE  Evidence
<1>1. report \in Report
  BY DEF IInv, TypeOK, Report
<1>2. report'.dependencies = report.dependencies /\ report'.nodes = report.nodes
  BY <1>1 DEF Report
<1>3. ~(Len(report'.nodes) > Len(nodes))
  BY <1>1, <1>2 DEF nodes, Report
<1> QED
  BY <1>2, <1>3 DEF Evidence

LEMMA StepEvidence == IInv /\ [Next]_vars => [Evidence]_vars
<1> SUFFICES ASSUME IInv, Next PROVE Evidence
  OBVIOUS
<1>1. CASE Record
  BY <1>1, RecordEvidence
<1>2. CASE Enter \/ BranchLimited
  BY <1>2, OtherEvidence DEF Enter, BranchLimited
<1>3. CASE BudgetExhausted \/ BiosCall \/ BiosFrontier \/ Retire \/ Boundary \/ Branch \/ Return
  <2>1. report' = report
    BY <1>3 DEF BudgetExhausted, BiosCall, BiosFrontier, Retire, Boundary, Turn, Branch, Return
  <2> QED
    BY <2>1, OtherEvidence
<1> QED
  BY <1>1, <1>2, <1>3 DEF Next

\* EvidenceKept: what a segment met is in the report, wherever it stopped, unless
\* the buffer it is read from was full; nothing is taken out of the report.
THEOREM EvidenceIsKept == Spec => EvidenceKept
<1>1. [Evidence]_vars =>
        [/\ report.dependencies \subseteq report'.dependencies
         /\ Len(report'.nodes) > Len(nodes) /\ Len(top.segment.recent) < options.capacity =>
              /\ \A a \in top.segment.mmio : <<"mmio", a>> \in report'.dependencies
              /\ AtBios(top.runtime) /\ ~Handled(top.runtime.cpu) /\ top.runtime.pending =>
                  <<"bios", Frontier(top.runtime.cpu)>> \in report'.dependencies]_vars
  BY DEF Evidence
<1> QED
  BY <1>1, Invariance, StepEvidence, PTL DEF Spec, EvidenceKept

-----------------------------------------------------------------------------
(* The limits                                                              *)

LEMMA RetiredByGoes ==
    ASSUME NEW ns \in Seq(Node)
    PROVE  \E r : /\ r \in [0 .. Len(ns) -> Nat] /\ r[0] = 0
                  /\ \A k \in 0 .. Len(ns) - 1 : r[k + 1] = r[k] + ns[k + 1].retired
                  /\ RetiredBy(ns) = r[Len(ns)]
<1> DEFINE len == Len(ns)
           turn == [k \in Nat |-> [t \in Nat |-> IF k + 1 \in DOMAIN ns THEN t + ns[k + 1].retired
                                                ELSE t]]
           Equation(f) ==
             f = [n \in 0 .. len |-> IF n = 0 THEN 0 ELSE f[n - 1] + ns[n].retired]
<1>1. len \in Nat /\ DOMAIN ns = 1 .. len /\ \A k \in 1 .. len : ns[k].retired \in Nat
  <2>1. len \in Nat /\ DOMAIN ns = 1 .. len
    OBVIOUS
  <2>2. \A k \in 1 .. len : ns[k] \in Node
    BY <2>1
  <2> QED
    BY <2>1, <2>2 DEF Node
<1>2. turn \in [Nat -> [Nat -> Nat]]
  BY <1>1
<1> HIDE DEF len
<1>3. PICK r : IsLoop(r, Nat, 0, turn, len)
  <2> HIDE DEF turn
  <2> QED
    BY <1>1, <1>2, LoopExists
<1>4. ASSUME NEW n \in 0 .. len
      PROVE  r[n] = IF n = 0 THEN 0 ELSE r[n - 1] + ns[n].retired
  <2>1. CASE n = 0
    BY <1>3, <2>1 DEF IsLoop
  <2>2. CASE n # 0
    <3>1. /\ n - 1 \in 0 .. len - 1 /\ (n - 1) + 1 = n /\ n - 1 \in Nat
          /\ n - 1 \in 0 .. len /\ n \in DOMAIN ns
      BY <1>1, <2>2
    <3>2. r[n - 1] \in Nat /\ r[n] = turn[n - 1][r[n - 1]]
      BY <1>3, <3>1 DEF IsLoop
    <3> QED
      BY <2>2, <3>1, <3>2
  <2> QED
    BY <2>1, <2>2
<1>5. Equation(r)
  <2>1. r = [n \in 0 .. len |-> r[n]]
    BY <1>3 DEF IsLoop
  <2> QED
    BY <1>4, <2>1
<1> DEFINE f == CHOOSE f : Equation(f)
<1>6. Equation(f)
  BY <1>5
<1>7. RetiredBy(ns) = f[len]
  BY DEF RetiredBy, len
<1> HIDE DEF f
<1>8. f[0] = 0
  BY <1>1, <1>6
<1>9. ASSUME NEW k \in 0 .. len - 1
      PROVE  f[k + 1] = f[k] + ns[k + 1].retired
  <2>1. k + 1 \in 0 .. len /\ k + 1 # 0 /\ (k + 1) - 1 = k
    BY <1>1
  <2> QED
    BY <1>6, <2>1
<1> DEFINE P == {k \in Nat : k <= len => f[k] \in Nat}
<1>10. ASSUME NEW k \in Nat, k \in P PROVE k + 1 \in P
  <2>1. CASE k + 1 <= len
    <3>1. k \in 0 .. len - 1 /\ k + 1 \in 1 .. len
      BY <1>1, <2>1
    <3> QED
      BY <1>1, <1>9, <1>10, <3>1
  <2> QED
    BY <2>1
<1>11. Nat \subseteq P
  <2>1. 0 \in P
    BY <1>8
  <2> HIDE DEF P
  <2> QED
    BY <1>10, <2>1, SetInduction
<1>12. f \in [0 .. len -> Nat]
  <2>1. f = [n \in 0 .. len |-> f[n]]
    BY <1>6
  <2>2. \A n \in 0 .. len : f[n] \in Nat
    BY <1>1, <1>11
  <2> QED
    BY <2>1, <2>2
<1> QED
  BY <1>7, <1>8, <1>9, <1>12 DEF len

\* A node more.
LEMMA RetiredByMore ==
    ASSUME NEW ns \in Seq(Node), NEW n \in Node
    PROVE  RetiredBy(Append(ns, n)) = RetiredBy(ns) + n.retired /\ RetiredBy(ns) \in Nat
<1> DEFINE len == Len(ns)
           ms == Append(ns, n)
<1>1. len \in Nat /\ ms \in Seq(Node) /\ Len(ms) = len + 1 /\ ms[len + 1] = n
      /\ \A i \in 1 .. len : ms[i] = ns[i]
  BY AppendParts
<1>2. PICK r : /\ r \in [0 .. len -> Nat] /\ r[0] = 0
               /\ \A k \in 0 .. len - 1 : r[k + 1] = r[k] + ns[k + 1].retired
               /\ RetiredBy(ns) = r[len]
  BY RetiredByGoes
<1> HIDE DEF ms, len
<1>3. PICK q : /\ q \in [0 .. len + 1 -> Nat] /\ q[0] = 0
               /\ \A k \in 0 .. len : q[k + 1] = q[k] + ms[k + 1].retired
               /\ RetiredBy(ms) = q[len + 1]
  <2>1. (len + 1) - 1 = len
    BY <1>1
  <2> QED
    BY <1>1, <2>1, RetiredByGoes
<1> DEFINE P == {k \in Nat : k <= len => q[k] = r[k]}
<1>4. ASSUME NEW k \in Nat, k \in P PROVE k + 1 \in P
  <2>1. CASE k + 1 <= len
    <3>1. k \in 0 .. len - 1 /\ k \in 0 .. len /\ k + 1 \in 1 .. len
      BY <1>1, <2>1
    <3>2. q[k] = r[k] /\ ms[k + 1] = ns[k + 1]
      BY <1>1, <1>4, <3>1
    <3>3. q[k + 1] = r[k + 1]
      BY <1>2, <1>3, <3>1, <3>2
    <3> QED
      BY <3>3
  <2> QED
    BY <2>1
<1>5. Nat \subseteq P
  <2>1. 0 \in P
    BY <1>2, <1>3
  <2> HIDE DEF P
  <2> QED
    BY <1>4, <2>1, SetInduction
<1>6. q[len] = r[len] /\ r[len] \in Nat
  BY <1>1, <1>2, <1>5
<1>7. q[len + 1] = q[len] + n.retired
  BY <1>1, <1>3
<1> QED
  BY <1>2, <1>3, <1>6, <1>7 DEF ms

Work ==
    /\ report.total = RetiredBy(nodes) /\ Len(nodes) <= options.max_nodes
    /\ \A i \in DOMAIN nodes : nodes[i].depth <= options.max_branch_depth
    /\ stack # <<>> /\ top.at = "run" => Len(nodes) < options.max_nodes

\* Where a call that goes on, or one that returns, leaves the stack.
LEMMA ProceedTop ==
    ASSUME IInv, stack # <<>>, NEW c \in Visit, stack' = Append(Below, c)
    PROVE  stack' # <<>> /\ Len(stack') = Len(stack) /\ top' = c
<1>1. Len(stack') = Len(stack) /\ stack'[Len(stack)] = c /\ Len(stack) \in Nat \ {0}
  BY StackShape, TopParts
<1> QED
  BY <1>1 DEF top

LEMMA PopTop ==
    ASSUME IInv, stack # <<>>, stack' = Below, stack' # <<>>
    PROVE  /\ Len(stack) - 1 \in Nat \ {0} /\ Len(stack') = Len(stack) - 1
           /\ top' = stack[Len(stack) - 1] /\ top'.at = "branch"
<1>1. /\ Len(stack) \in Nat \ {0} /\ Below \in Seq(Visit) /\ Len(Below) = Len(stack) - 1
      /\ \A i \in 1 .. Len(stack) - 1 : Below[i] = stack[i] /\ stack[i].at = "branch"
  BY TopParts
<1>2. Len(stack) - 1 \in 1 .. Len(stack) - 1
  BY <1>1
<1> QED
  BY <1>1, <1>2 DEF top

LEMMA SameWork ==
    ASSUME IInv, Work, UNCHANGED <<options, nodes>>, report'.total = report.total,
           stack' # <<>> /\ top'.at = "run" => Len(nodes) < options.max_nodes
    PROVE  Work'
  BY DEF Work

LEMMA EnterWork == ASSUME IInv, Work, Enter PROVE Work'
<1>1. stack # <<>> /\ top.at = "enter" /\ UNCHANGED options
  BY DEF Enter
<1>2. top \in Visit /\ options.max_nodes \in Nat /\ Len(nodes) \in Nat
  BY <1>1, TopParts DEF IInv, TypeOK, Options, ReportOK, Report, nodes
<1>3. CASE LimitReached = "completed"
  <2>1. Len(nodes) < options.max_nodes
    BY <1>2, <1>3 DEF LimitReached, nodes
  <2> QED
    BY <1>1, <1>3, <2>1, SameWork DEF Enter, nodes
<1>4. CASE LimitReached # "completed"
  <2>1. report' = [report EXCEPT !.termination = LimitReached] /\ stack' = Below
    BY <1>4 DEF Enter
  <2>2. nodes' = nodes /\ report'.total = report.total
    BY <2>1, SameReport DEF LimitReached, Reasons
  <2> QED
    BY <1>1, <2>1, <2>2, PopTop, SameWork
<1> QED
  BY <1>3, <1>4

LEMMA TurnWork ==
    ASSUME IInv, Work, BudgetExhausted \/ BiosCall \/ BiosFrontier \/ Retire \/ Boundary
    PROVE  Work'
<1>1. Running /\ UNCHANGED <<options, report>>
  BY DEF BudgetExhausted, BiosCall, BiosFrontier, Retire, Boundary, Turn
<1>2. Len(nodes) < options.max_nodes
  BY <1>1 DEF Running, Work
<1> QED
  BY <1>1, <1>2, SameWork DEF nodes

LEMMA RecordWork == ASSUME IInv, Work, Record PROVE Work'
<1>1. /\ stack # <<>> /\ top.at = "run" /\ NewNode \in Node
      /\ nodes' = Append(nodes, NewNode) /\ Len(nodes) \in Nat
      /\ Len(nodes') = Len(nodes) + 1 /\ DOMAIN nodes' = 1 .. Len(nodes) + 1
      /\ nodes'[Len(nodes) + 1] = NewNode
      /\ \A i \in 1 .. Len(nodes) : nodes'[i] = nodes[i]
      /\ report'.total = report.total + top.segment.retired /\ UNCHANGED options
  BY RecordParts
<1>2. top \in Visit /\ top.depth <= options.max_branch_depth
  BY <1>1, TopParts DEF CallInv
<1>3. NewNode.retired = top.segment.retired /\ NewNode.depth = top.depth
  BY DEF NewNode, Summary
<1>4. nodes \in Seq(Node) /\ options.max_nodes \in Nat
  BY DEF IInv, TypeOK, ReportOK, Report, nodes, Options
<1>5. report'.total = RetiredBy(nodes')
  BY <1>1, <1>3, <1>4, RetiredByMore DEF Work
<1>6. Len(nodes') <= options.max_nodes
  BY <1>1, <1>4 DEF Work
<1>7. ASSUME NEW i \in DOMAIN nodes' PROVE nodes'[i].depth <= options.max_branch_depth
  <2>1. i = Len(nodes) + 1 \/ (i \in 1 .. Len(nodes) /\ i \in DOMAIN nodes)
    BY <1>1, <1>4
  <2> QED
    BY <1>1, <1>2, <1>3, <2>1 DEF Work
<1>8. ASSUME stack' # <<>> PROVE top'.at = "branch"
  <2>1. CASE Leaves
    BY <1>1, <1>8, <2>1, RecordParts, PopTop
  <2>2. CASE ~Leaves
    <3> DEFINE c == [top EXCEPT !.at = "branch", !.node = Len(nodes) + 1, !.deps = AllDeps]
    <3>1. stack' = Append(Below, c) /\ AllDeps \in SUBSET Dependency
      BY <2>2, RecordParts
    <3>2. Len(nodes) + 1 \in Nat
      BY <1>1
    <3>3. c \in Visit /\ c.at = "branch"
      BY <1>1, <1>2, <3>1, <3>2 DEF Visit
    <3> HIDE DEF c
    <3> QED
      BY <1>1, <3>1, <3>3, ProceedTop
  <2> QED
    BY <2>1, <2>2
<1> QED
  BY <1>1, <1>5, <1>6, <1>7, <1>8 DEF Work

LEMMA OtherWork == ASSUME IInv, Work, Branch \/ BranchLimited \/ Return PROVE Work'
<1>1. CASE Branch
  <2>1. /\ UNCHANGED <<options, report, nodes>> /\ Len(stack') = Len(stack) + 1
        /\ stack'[Len(stack) + 1].at = "enter"
    BY <1>1, BranchParts
  <2>2. top'.at = "enter"
    BY <2>1 DEF top
  <2> QED
    BY <2>1, <2>2, SameWork
<1>2. CASE BranchLimited \/ Return
  <2>1. stack # <<>> /\ stack' = Below /\ UNCHANGED options
    BY <1>2 DEF BranchLimited, Branching, Return
  <2>2. nodes' = nodes /\ report'.total = report.total
    <3>1. LimitReached \in Reasons
      BY DEF LimitReached, Reasons
    <3> QED
      BY <1>2, <3>1, SameReport DEF BranchLimited, Return
  <2> QED
    BY <2>1, <2>2, PopTop, SameWork
<1> QED
  BY <1>1, <1>2

LEMMA StepWork == IInv /\ Work /\ [Next]_vars => Work'
<1> SUFFICES ASSUME IInv, Work, [Next]_vars PROVE Work'
  OBVIOUS
<1>1. CASE Next
  BY <1>1, EnterWork, TurnWork, RecordWork, OtherWork DEF Next
<1>2. CASE UNCHANGED vars
  BY <1>2 DEF Work, vars, nodes, top
<1> QED
  BY <1>1, <1>2

LEMMA InitialWork == Init => Work
<1> SUFFICES ASSUME Init PROVE Work
  OBVIOUS
<1>1. nodes = <<>> /\ report.total = 0 /\ options \in Options
  BY ExplorationsAssumption DEF Init, nodes
<1>2. PICK r : /\ r \in [0 .. 0 -> Nat] /\ r[0] = 0 /\ RetiredBy(<<>>) = r[0]
  <2>1. <<>> \in Seq(Node) /\ Len(<<>>) = 0
    OBVIOUS
  <2> QED
    BY <2>1, RetiredByGoes
<1>3. Len(nodes) = 0 /\ DOMAIN nodes = {} /\ options.max_nodes \in Nat \ {0}
  BY <1>1 DEF Options
<1> QED
  BY <1>1, <1>2, <1>3 DEF Work

\* WorkBounded: no limit of the search is passed.  The retired instructions of the
\* nodes are the total, and within its limit; the nodes are within theirs, and so
\* is their depth; a watched segment retires at most the watchdog's limit for
\* every dependency it met and once more.
THEOREM WorkIsBounded == Spec => []WorkBounded
<1>1. IInv /\ Work => WorkBounded
  <2> SUFFICES ASSUME IInv, Work PROVE WorkBounded
    OBVIOUS
  <2>1. ASSUME stack # <<>>, options.stagnation # 0
        PROVE  top.segment.retired <= options.stagnation
                    * (1 + Cardinality(top.segment.bios) + Cardinality(top.segment.mmio))
    <3> DEFINE b == Cardinality(top.segment.bios)
               m == Cardinality(top.segment.mmio)
               n == options.stagnation
    <3>1. SegmentInv(top.segment, options)
      BY <2>1, TopParts DEF CallInv
    <3>2. b \in Nat /\ m \in Nat
      BY <3>1, FS_CardinalityType DEF SegmentInv
    <3>3. n \in Nat /\ top.segment.retired \in Nat /\ top.segment.since \in Nat
      BY <3>1 DEF SegmentInv, Segment, IInv, TypeOK, Options
    <3>4. top.segment.retired <= n * (b + m) + top.segment.since /\ top.segment.since <= n
      BY <2>1, <3>1 DEF SegmentInv, Watched
    <3> HIDE DEF b, m, n
    <3>5. n * (b + 1 + m) = n * (b + m) + n /\ n * (b + m) \in Nat
      BY <3>2, <3>3, OneMore
    <3>6. 1 + b + m = b + 1 + m
      BY <3>2
    <3>7. top.segment.retired <= n * (1 + b + m)
      BY <3>3, <3>4, <3>5, <3>6
    <3> QED
      BY <3>7 DEF b, m, n
  <2> QED
    BY <2>1 DEF Work, WorkBounded, IInv, Spent
<1>2. IInv /\ Work /\ [Next]_vars => IInv' /\ Work'
  BY StepInv, StepWork
<1> QED
  BY <1>1, <1>2, InitialInv, InitialWork, PTL DEF Spec

-----------------------------------------------------------------------------
(* Why the search ends                                                     *)

\* A node whose frontier the search answers itself.
Opened(i) == Unanswered(i) /\ ~nodes[i].deduplicated

\* Where a frontier is left to an earlier node, that node stopped in its state.
Met ==
    \A i \in DOMAIN nodes : Unanswered(i) /\ nodes[i].deduplicated =>
        \E j \in 1 .. i : nodes[j].state = nodes[i].state /\ Opened(j)
Keys == \A k \in expanded : \E j \in DOMAIN nodes : Opened(j) /\ nodes[j].state = k[2]

\* The calls that branch are at the frontiers of their nodes, each met after
\* those of the calls that made it.
under == stack[Len(stack) - 1]
Line ==
    /\ \A p \in DOMAIN stack : stack[p].at = "branch" => Opened(stack[p].node)
    /\ \A p, q \in DOMAIN stack :
        p < q /\ stack[q].at = "branch" => stack[p].node < stack[q].node
    /\ stack # <<>> /\ top.at # "branch" =>
        /\ top.tried = 0
        /\ IF Len(stack) = 1 THEN nodes = <<>>
           ELSE top.parent = under.node /\ top.fallback = Policies[under.tried]

\* The answers a call has had reported: all it tried, but for the one under way.
Due(p) == IF p = Len(stack) - 1 /\ top.at # "branch" THEN stack[p].tried - 1 ELSE stack[p].tried
Progress ==
    report.termination = "completed" =>
        /\ \A p \in DOMAIN stack : stack[p].at = "branch" => Given(stack[p].node, Due(p))
        /\ \A i \in DOMAIN nodes : Opened(i) =>
            AnsweredInFull(i) \/ \E p \in DOMAIN stack : stack[p].at = "branch" /\ stack[p].node = i
Ended ==
    /\ report.termination # "completed" /\ stack # <<>> => top.at = "branch"
    /\ report.termination = "node_limit" =>
        /\ Len(nodes) = options.max_nodes
        /\ \E i \in DOMAIN nodes : Opened(i) /\ ~AnsweredInFull(i)
    /\ report.termination = "total_retired_limit" => report.total = options.max_total_retired

Search == Met /\ Keys /\ Line /\ Progress /\ Ended

LEMMA SameNodes ==
    ASSUME UNCHANGED <<nodes, options>>
    PROVE  /\ \A i : (Unanswered(i)' <=> Unanswered(i)) /\ (Opened(i)' <=> Opened(i))
           /\ \A i : (AnsweredInFull(i)' <=> AnsweredInFull(i))
           /\ \A i, n : Given(i, n)' <=> Given(i, n)
  BY DEF Unanswered, Opened, AnsweredInFull, Given, Children

LEMMA ProceedPlaces ==
    ASSUME IInv, stack # <<>>, NEW c \in Visit, stack' = Append(Below, c)
    PROVE  /\ Len(stack) \in Nat \ {0} /\ Len(stack') = Len(stack)
           /\ DOMAIN stack = 1 .. Len(stack) /\ DOMAIN stack' = 1 .. Len(stack)
           /\ stack'[Len(stack)] = c /\ top' = c /\ stack' # <<>>
           /\ \A i \in 1 .. Len(stack) - 1 : stack'[i] = stack[i]
<1>1. Len(stack) \in Nat \ {0} /\ DOMAIN stack = 1 .. Len(stack)
  BY TopParts
<1>2. /\ stack' \in Seq(Visit) /\ Len(stack') = Len(stack) /\ stack'[Len(stack)] = c
      /\ \A i \in 1 .. Len(stack) - 1 : stack'[i] = stack[i]
  BY StackShape
<1>3. DOMAIN stack' = 1 .. Len(stack)
  BY <1>2
<1>4. stack' # <<>>
  BY <1>1, <1>2
<1> QED
  BY <1>1, <1>2, <1>3, <1>4 DEF top

LEMMA PopPlaces ==
    ASSUME IInv, stack # <<>>, stack' = Below
    PROVE  /\ Len(stack) \in Nat \ {0} /\ Len(stack') = Len(stack) - 1
           /\ DOMAIN stack = 1 .. Len(stack) /\ DOMAIN stack' = 1 .. Len(stack) - 1
           /\ \A i \in 1 .. Len(stack) - 1 : stack'[i] = stack[i] /\ stack[i].at = "branch"
           /\ stack' # <<>> => top'.at = "branch"
<1>1. /\ Len(stack) \in Nat \ {0} /\ DOMAIN stack = 1 .. Len(stack)
      /\ Below \in Seq(Visit) /\ Len(Below) = Len(stack) - 1
      /\ \A i \in 1 .. Len(stack) - 1 : Below[i] = stack[i] /\ stack[i].at = "branch"
  BY TopParts
<1>2. DOMAIN stack' = 1 .. Len(stack) - 1
  BY <1>1
<1> QED
  BY <1>1, <1>2, PopTop

\* Where a call branches, the nodes are those of the calls under it as well.
LEMMA Branches ==
    ASSUME IInv, stack # <<>>
    PROVE  /\ \A i \in 1 .. Len(stack) - 1 :
                stack[i].at = "branch" /\ stack[i].node \in 1 .. Len(nodes)
                /\ stack[i].tried \in 0 .. Len(Policies)
           /\ top.at = "branch" => top.node \in 1 .. Len(nodes)
           /\ top.tried \in 0 .. Len(Policies)
  BY TopParts DEF CallInv, Visit

\* A segment under way changes nothing of the search.
LEMMA StaySearch ==
    ASSUME IInv, Search, stack # <<>>, top.at # "branch", UNCHANGED <<options, nodes, expanded>>,
           report'.termination = report.termination, report'.total = report.total,
           NEW c \in Visit, c.at = "run", c.parent = top.parent, c.fallback = top.fallback,
           c.tried = top.tried, stack' = Append(Below, c)
    PROVE  Search'
<1>1. /\ Len(stack) \in Nat \ {0} /\ Len(stack') = Len(stack)
      /\ DOMAIN stack = 1 .. Len(stack) /\ DOMAIN stack' = 1 .. Len(stack)
      /\ stack'[Len(stack)] = c /\ top' = c /\ stack' # <<>>
      /\ \A i \in 1 .. Len(stack) - 1 : stack'[i] = stack[i]
  BY ProceedPlaces
<1>2. /\ \A i : (Unanswered(i)' <=> Unanswered(i)) /\ (Opened(i)' <=> Opened(i))
      /\ \A i : (AnsweredInFull(i)' <=> AnsweredInFull(i))
      /\ \A i, n : Given(i, n)' <=> Given(i, n)
  BY SameNodes
<1>3. \A p \in DOMAIN stack : stack'[p].at = "branch" =>
        p \in 1 .. Len(stack) - 1 /\ stack'[p] = stack[p]
  <2>1. ASSUME NEW p \in DOMAIN stack, stack'[p].at = "branch" PROVE p # Len(stack)
    BY <1>1, <2>1
  <2> QED
    BY <1>1, <2>1
<1>4. report.termination = "completed"
  BY DEF Search, Ended
<1>5. Met' /\ Keys'
  BY <1>2 DEF Search, Met, Keys
<1>6. Line'
  <2>1. (\A p \in DOMAIN stack : stack[p].at = "branch" => Opened(stack[p].node))'
    BY <1>1, <1>3 DEF Search, Line, Opened, Unanswered
  <2>2. ASSUME NEW p \in DOMAIN stack', NEW q \in DOMAIN stack', p < q, stack'[q].at = "branch"
        PROVE  stack'[p].node < stack'[q].node
    <3>1. q \in 1 .. Len(stack) - 1 /\ p \in 1 .. Len(stack) - 1 /\ stack'[q] = stack[q]
      BY <1>1, <1>3, <2>2
    <3>2. stack'[p] = stack[p]
      BY <1>1, <3>1
    <3> QED
      BY <1>1, <2>2, <3>1, <3>2 DEF Search, Line
  <2>3. /\ top'.tried = 0
        /\ IF Len(stack') = 1 THEN nodes' = <<>>
           ELSE top'.parent = under'.node /\ top'.fallback = Policies[under'.tried]
    <3>1. Len(stack) # 1 => under' = under
      BY <1>1 DEF under
    <3> QED
      BY <1>1, <3>1 DEF Search, Line
  <2> QED
    BY <2>1, <2>2, <2>3 DEF Line
<1>7. Progress'
  <2>1. ASSUME NEW p \in DOMAIN stack', stack'[p].at = "branch"
        PROVE  Given(stack[p].node, Due(p))'
    <3>1. p \in 1 .. Len(stack) - 1 /\ stack'[p] = stack[p]
      BY <1>1, <1>3, <2>1
    <3>2. Due(p)' = Due(p)
      BY <1>1, <3>1 DEF Due
    <3>3. Given(stack[p].node, Due(p))
      BY <1>1, <1>4, <2>1, <3>1 DEF Search, Progress
    <3> QED
      BY <1>2, <3>1, <3>2, <3>3 DEF Given, Children
  <2>2. ASSUME NEW i \in DOMAIN nodes', Opened(i)'
        PROVE  \/ AnsweredInFull(i)'
               \/ \E p \in DOMAIN stack' : stack'[p].at = "branch" /\ stack'[p].node = i
    <3>1. AnsweredInFull(i) \/ \E p \in DOMAIN stack : stack[p].at = "branch" /\ stack[p].node = i
      BY <1>2, <1>4, <2>2 DEF Search, Progress
    <3>2. ASSUME NEW p \in DOMAIN stack, stack[p].at = "branch", stack[p].node = i
          PROVE  stack'[p] = stack[p] /\ p \in DOMAIN stack'
      <4>1. p # Len(stack)
        BY <3>2 DEF top
      <4> QED
        BY <1>1, <4>1
    <3> QED
      BY <1>2, <3>1, <3>2
  <2> QED
    BY <2>1, <2>2 DEF Progress
<1>8. Ended'
  BY <1>4 DEF Ended
<1> QED
  BY <1>5, <1>6, <1>7, <1>8 DEF Search

\* A call that has an answer to give, or one whose answer is under way, keeps a
\* node that is not answered in full.
LEMMA Unfinished ==
    ASSUME IInv, Search, stack # <<>>, report.termination = "completed",
           \/ top.at = "branch" /\ top.tried < Len(Policies)
           \/ top.at # "branch" /\ Len(stack) # 1
    PROVE  \E i \in DOMAIN nodes : Opened(i) /\ ~AnsweredInFull(i)
<1>1. Len(stack) \in Nat \ {0} /\ DOMAIN stack = 1 .. Len(stack)
  BY TopParts
<1>2. ASSUME NEW p \in DOMAIN stack, stack[p].at = "branch", Due(p) # Len(Policies)
      PROVE  \E i \in DOMAIN nodes : Opened(i) /\ ~AnsweredInFull(i)
  <2>1. Opened(stack[p].node) /\ Given(stack[p].node, Due(p))
    BY <1>2 DEF Search, Line, Progress
  <2>2. ~AnsweredInFull(stack[p].node)
    BY <1>2, <2>1 DEF AnsweredInFull, Given
  <2>3. stack[p].node \in DOMAIN nodes
    <3>1. nodes \in Seq(Node)
      BY DEF IInv, TypeOK, nodes
    <3>2. stack[p].node \in 1 .. Len(nodes)
      <4>1. p = Len(stack) \/ p \in 1 .. Len(stack) - 1
        BY <1>1
      <4> QED
        BY <1>2, <4>1, Branches DEF top
    <3> QED
      BY <3>1, <3>2
  <2> QED
    BY <2>1, <2>2, <2>3
<1>3. CASE top.at = "branch"
  <2>1. Due(Len(stack)) = top.tried /\ top.tried \in Nat /\ Len(stack) \in DOMAIN stack
    BY <1>1, <1>3, Branches DEF Due, top
  <2>2. Due(Len(stack)) # Len(Policies)
    BY <1>3, <2>1
  <2> QED
    BY <1>2, <1>3, <2>1, <2>2 DEF top
<1>4. CASE top.at # "branch"
  <2>1. /\ Len(stack) - 1 \in 1 .. Len(stack) - 1 /\ Len(stack) - 1 \in DOMAIN stack
    BY <1>1, <1>4
  <2>2. stack[Len(stack) - 1].at = "branch" /\ stack[Len(stack) - 1].tried \in 0 .. Len(Policies)
    BY <2>1, Branches
  <2>3. Due(Len(stack) - 1) = stack[Len(stack) - 1].tried - 1
    BY <1>4 DEF Due
  <2>4. Due(Len(stack) - 1) # Len(Policies)
    BY <2>2, <2>3 DEF Policies
  <2> QED
    BY <1>2, <2>1, <2>2, <2>4
<1> QED
  BY <1>3, <1>4

\* A call that returns without a node of its own.
LEMMA PopSearch ==
    ASSUME IInv, Search, stack # <<>>, stack' = Below, UNCHANGED <<options, nodes, expanded>>,
           report'.total = report.total,
           \/ /\ report'.termination = report.termination /\ top.at = "branch"
              /\ report.termination = "completed" => top.tried = Len(Policies)
           \/ /\ report'.termination = "node_limit" /\ Len(nodes) = options.max_nodes
              /\ \E i \in DOMAIN nodes : Opened(i) /\ ~AnsweredInFull(i)
           \/ /\ report'.termination = "total_retired_limit"
              /\ report.total = options.max_total_retired
    PROVE  Search'
<1>1. /\ Len(stack) \in Nat \ {0} /\ Len(stack') = Len(stack) - 1
      /\ DOMAIN stack = 1 .. Len(stack) /\ DOMAIN stack' = 1 .. Len(stack) - 1
      /\ \A i \in 1 .. Len(stack) - 1 : stack'[i] = stack[i] /\ stack[i].at = "branch"
      /\ stack' # <<>> => top'.at = "branch"
  BY PopPlaces
<1>2. /\ \A i : (Unanswered(i)' <=> Unanswered(i)) /\ (Opened(i)' <=> Opened(i))
      /\ \A i : (AnsweredInFull(i)' <=> AnsweredInFull(i))
      /\ \A i, n : Given(i, n)' <=> Given(i, n)
  BY SameNodes
<1>3. Met' /\ Keys'
  BY <1>2 DEF Search, Met, Keys
<1>4. Line'
  <2>1. (\A p \in DOMAIN stack : stack[p].at = "branch" => Opened(stack[p].node))'
    BY <1>1 DEF Search, Line, Opened, Unanswered
  <2>2. ASSUME NEW p \in DOMAIN stack', NEW q \in DOMAIN stack', p < q, stack'[q].at = "branch"
        PROVE  stack'[p].node < stack'[q].node
    <3>1. stack'[p] = stack[p] /\ stack'[q] = stack[q] /\ p \in DOMAIN stack /\ q \in DOMAIN stack
      BY <1>1
    <3> QED
      BY <2>2, <3>1 DEF Search, Line
  <2> QED
    BY <1>1, <2>1, <2>2 DEF Line
<1>5. Progress'
  <2> SUFFICES ASSUME report'.termination = "completed" PROVE Progress'
    BY DEF Progress
  <2>1. report.termination = "completed" /\ top.at = "branch" /\ top.tried = Len(Policies)
    OBVIOUS
  <2>2. \A p \in DOMAIN stack : Given(stack[p].node, stack[p].tried)
    <3>1. ASSUME NEW p \in DOMAIN stack PROVE stack[p].at = "branch" /\ Due(p) = stack[p].tried
      <4>1. p = Len(stack) \/ p \in 1 .. Len(stack) - 1
        BY <1>1
      <4> QED
        BY <1>1, <2>1, <4>1 DEF Due, top
    <3> QED
      BY <2>1, <3>1 DEF Search, Progress
  <2>3. ASSUME NEW p \in DOMAIN stack', stack'[p].at = "branch"
        PROVE  Given(stack[p].node, Due(p))'
    <3>1. stack' # <<>> /\ stack'[p] = stack[p] /\ p \in DOMAIN stack
      BY <1>1
    <3>2. Due(p)' = stack[p].tried
      BY <1>1, <3>1 DEF Due
    <3>3. Given(stack[p].node, stack[p].tried)
      BY <2>2, <3>1
    <3>4. nodes' = nodes
      OBVIOUS
    <3> QED
      BY <3>1, <3>2, <3>3, <3>4 DEF Given, Children
  <2>4. ASSUME NEW i \in DOMAIN nodes', Opened(i)'
        PROVE  \/ AnsweredInFull(i)'
               \/ \E p \in DOMAIN stack' : stack'[p].at = "branch" /\ stack'[p].node = i
    <3>1. AnsweredInFull(i) \/ \E p \in DOMAIN stack : stack[p].at = "branch" /\ stack[p].node = i
      BY <1>2, <2>1, <2>4 DEF Search, Progress
    <3>2. ASSUME NEW p \in DOMAIN stack, stack[p].at = "branch", stack[p].node = i,
                 p # Len(stack)
          PROVE  stack'[p] = stack[p] /\ p \in DOMAIN stack'
      BY <1>1, <3>2
    <3>3. stack[Len(stack)].node = i => AnsweredInFull(i)
      BY <1>1, <2>1, <2>2 DEF AnsweredInFull, top
    <3> QED
      BY <1>2, <3>1, <3>2, <3>3
  <2> QED
    BY <2>3, <2>4 DEF Progress
<1>6. Ended'
  <2>1. (\E i \in DOMAIN nodes : Opened(i) /\ ~AnsweredInFull(i)) =>
            (\E i \in DOMAIN nodes : Opened(i) /\ ~AnsweredInFull(i))'
    BY <1>2
  <2> QED
    BY <1>1, <2>1 DEF Search, Ended
<1> QED
  BY <1>3, <1>4, <1>5, <1>6 DEF Search

\* What a node more does to the nodes there are: it is the next child of its
\* parent, and has none itself.
LEMMA NodeMore ==
    ASSUME IInv, Record
    PROVE  /\ DOMAIN nodes = 1 .. Len(nodes) /\ Len(nodes) \in Nat
           /\ DOMAIN nodes' = 1 .. Len(nodes) + 1 /\ UNCHANGED options
           /\ \A i \in 1 .. Len(nodes) : nodes'[i] = nodes[i]
           /\ nodes'[Len(nodes) + 1] = NewNode
           /\ \A i \in 1 .. Len(nodes) :
                i # top.parent => \A n : Given(i, n) => Given(i, n)'
           /\ \A i \in 1 .. Len(nodes), n \in Nat :
                i = top.parent /\ top.fallback = Policies[n + 1] /\ Given(i, n) => Given(i, n + 1)'
           /\ \A i : i = Len(nodes) + 1 => Given(i, 0)'
<1> DEFINE N == Len(nodes)
<1>1. /\ stack # <<>> /\ DOMAIN nodes' = 1 .. N + 1 /\ N \in Nat /\ nodes'[N + 1] = NewNode
      /\ \A i \in 1 .. N : nodes'[i] = nodes[i]
      /\ UNCHANGED options
  BY RecordParts
<1>2. DOMAIN nodes = 1 .. N /\ \A i \in 1 .. N : nodes[i].parent < i
  <2>1. nodes \in Seq(Node) /\ \A i \in DOMAIN nodes : nodes[i].parent < i
    BY DEF IInv, TypeOK, nodes
  <2> QED
    BY <2>1
<1>3. NewNode.parent = top.parent /\ NewNode.fallback = top.fallback /\ top.parent \in 0 .. N
  BY <1>1, TopParts DEF NewNode, Summary, CallInv
<1> HIDE DEF N
<1>4. ASSUME NEW i \in 1 .. N
      PROVE  /\ Children(i) \subseteq 1 .. N /\ IsFiniteSet(Children(i))
             /\ i # top.parent => Children(i)' = Children(i)
             /\ i = top.parent => Children(i)' = Children(i) \cup {N + 1}
  <2>1. Children(i) \subseteq 1 .. N
    BY <1>2 DEF Children
  <2>2. IsFiniteSet(1 .. N)
    BY <1>1, FS_Interval
  <2>3. IsFiniteSet(Children(i))
    BY <2>1, <2>2, FS_Subset
  <2>4. Children(i)' = {j \in 1 .. N + 1 : nodes'[j].parent = i}
    BY <1>1 DEF Children
  <2>5. Children(i) = {j \in 1 .. N : nodes[j].parent = i}
    BY <1>2 DEF Children
  <2>6. \A j \in 1 .. N + 1 : j = N + 1 \/ j \in 1 .. N
    BY <1>1
  <2>7. N + 1 \in 1 .. N + 1 /\ \A j \in 1 .. N : j \in 1 .. N + 1
    BY <1>1
  <2>8. i # top.parent => Children(i)' = Children(i)
    BY <1>1, <1>3, <2>4, <2>5, <2>6, <2>7
  <2>9. i = top.parent => Children(i)' = Children(i) \cup {N + 1}
    BY <1>1, <1>3, <2>4, <2>5, <2>6, <2>7
  <2> QED
    BY <2>1, <2>3, <2>8, <2>9
<1>5. ASSUME NEW i \in 1 .. N, i # top.parent, NEW n, Given(i, n) PROVE Given(i, n)'
  <2>1. Children(i)' = Children(i) /\ \A j \in Children(i) : nodes'[j] = nodes[j]
    BY <1>1, <1>4, <1>5
  <2> QED
    BY <1>5, <2>1 DEF Given
<1>6. ASSUME NEW i \in 1 .. N, NEW n \in Nat, i = top.parent, top.fallback = Policies[n + 1],
             Given(i, n)
      PROVE  Given(i, n + 1)'
  <2>1. /\ Children(i)' = Children(i) \cup {N + 1} /\ Children(i) \subseteq 1 .. N
        /\ IsFiniteSet(Children(i))
    BY <1>4, <1>6
  <2>2. N + 1 \notin 1 .. N
    BY <1>1
  <2>3. Cardinality(Children(i)') = n + 1
    <3>1. Cardinality(Children(i)) = n
      BY <1>6 DEF Given
    <3>2. N + 1 \notin Children(i)
      BY <2>1, <2>2
    <3> QED
      BY <2>1, <3>1, <3>2, FS_AddElement
  <2>4. ASSUME NEW j \in Children(i)'
        PROVE  nodes'[j].fallback = Policies[Cardinality(Children(i)' \cap 1 .. j)]
    <3>1. CASE j = N + 1
      <4>1. Children(i)' \cap 1 .. j = Children(i)'
        <5>1. \A k \in 1 .. N : k \in 1 .. N + 1
          BY <1>1
        <5>2. N + 1 \in 1 .. N + 1
          BY <1>1
        <5> QED
          BY <2>1, <3>1, <5>1, <5>2
      <4> QED
        BY <1>1, <1>3, <1>6, <2>3, <3>1, <4>1
    <3>2. CASE j # N + 1
      <4>1. j \in Children(i) /\ j \in 1 .. N
        BY <2>1, <2>4, <3>2
      <4>2. N + 1 \notin 1 .. j
        BY <1>1, <4>1
      <4>3. Children(i)' \cap 1 .. j = Children(i) \cap 1 .. j
        BY <2>1, <4>2
      <4> QED
        BY <1>1, <1>6, <4>1, <4>3 DEF Given
    <3> QED
      BY <3>1, <3>2
  <2> QED
    BY <2>3, <2>4 DEF Given
<1>7. ASSUME NEW i, i = N + 1 PROVE Given(i, 0)'
  <2>1. Children(i)' = {}
    <3>1. ASSUME NEW j \in 1 .. N + 1 PROVE nodes'[j].parent # N + 1
      <4>1. CASE j = N + 1
        BY <1>1, <1>3, <4>1
      <4>2. CASE j \in 1 .. N
        <5>1. nodes'[j].parent < j
          BY <1>1, <1>2, <4>2
        <5>2. j < N + 1
          BY <1>1, <4>2
        <5>3. nodes'[j].parent \in Int
          <6>1. nodes \in Seq(Node) /\ j \in DOMAIN nodes
            BY <1>2, <4>2 DEF IInv, TypeOK, nodes
          <6>2. nodes[j] \in Node
            BY <6>1
          <6> QED
            BY <1>1, <4>2, <6>2 DEF Node
        <5> QED
          BY <1>1, <4>2, <5>1, <5>2, <5>3
      <4> QED
        BY <1>1, <4>1, <4>2
    <3>2. \A j \in DOMAIN nodes' : nodes'[j].parent # i
      BY <1>1, <1>7, <3>1
    <3> QED
      BY <3>2 DEF Children
  <2> QED
    BY <2>1, FS_EmptySet DEF Given
<1> QED
  BY <1>1, <1>2, <1>5, <1>6, <1>7 DEF N

LEMMA RecordSearch == ASSUME IInv, Search, Record PROVE Search'
<1> DEFINE N == Len(nodes)
<1>1. /\ DOMAIN nodes = 1 .. N /\ N \in Nat /\ DOMAIN nodes' = 1 .. N + 1 /\ UNCHANGED options
      /\ \A i \in 1 .. N : nodes'[i] = nodes[i]
      /\ nodes'[N + 1] = NewNode
      /\ \A i \in 1 .. N : i # top.parent => \A n : Given(i, n) => Given(i, n)'
      /\ \A i \in 1 .. N, n \in Nat :
            i = top.parent /\ top.fallback = Policies[n + 1] /\ Given(i, n) => Given(i, n + 1)'
      /\ \A i : i = N + 1 => Given(i, 0)'
  BY NodeMore
<1>2. /\ stack # <<>> /\ top.at = "run" /\ top.segment.stop # "none"
      /\ Len(nodes') = N + 1
      /\ report'.total = report.total + top.segment.retired
      /\ report.total + top.segment.retired \in Nat
      /\ report.total + top.segment.retired <= options.max_total_retired
      /\ report'.termination = IF SpentAll THEN "total_retired_limit" ELSE report.termination
      /\ expanded' = IF Expandable(top) THEN expanded \cup {FrontierKey(top)} ELSE expanded
      /\ IF Leaves THEN stack' = Below
         ELSE stack' = Append(Below, [top EXCEPT !.at = "branch", !.node = Len(nodes) + 1,
                                                 !.deps = AllDeps])
      /\ AllDeps \in SUBSET Dependency
  BY RecordParts
<1>3. /\ Len(stack) \in Nat \ {0} /\ DOMAIN stack = 1 .. Len(stack) /\ top \in Visit
      /\ \A p \in 1 .. Len(stack) - 1 :
            /\ stack[p].at = "branch" /\ stack[p].node \in 1 .. N
            /\ stack[p].tried \in 0 .. Len(Policies)
  BY <1>2, TopParts, Branches
<1>4. report.termination = "completed"
  BY <1>2 DEF Search, Ended
<1>5. \A i \in 1 .. N : (Unanswered(i)' <=> Unanswered(i)) /\ (Opened(i)' <=> Opened(i))
  BY <1>1 DEF Unanswered, Opened
<1>6. /\ NewNode.state = DiagnosticState(top.runtime) /\ NewNode.deduplicated = Deduplicated(top)
      /\ NewNode.stop = top.segment.stop /\ NewNode.depth = top.depth
  BY DEF NewNode, Summary
<1>7. ASSUME NEW i, i = N + 1
      PROVE  /\ Unanswered(i)' <=> Expandable(top)
             /\ Opened(i)' <=> Expandable(top) /\ ~Deduplicated(top)
  <2>1. nodes'[i] = NewNode
    BY <1>1, <1>7
  <2> QED
    BY <1>1, <1>6, <2>1 DEF Unanswered, Opened, Expandable, HasFrontier
<1>8. \A i \in 1 .. N + 1 : i = N + 1 \/ i \in 1 .. N
  BY <1>1
<1>9. N + 1 \in 1 .. N + 1 /\ \A i \in 1 .. N : i \in 1 .. N + 1
  BY <1>1
<1> HIDE DEF N
<1>10. Met'
  <2> SUFFICES ASSUME NEW i \in 1 .. N + 1, Unanswered(i)', nodes'[i].deduplicated
               PROVE  \E j \in 1 .. i : nodes'[j].state = nodes'[i].state /\ Opened(j)'
    BY <1>1 DEF Met
  <2>1. CASE i \in 1 .. N
    <3>1. PICK j \in 1 .. i : nodes[j].state = nodes[i].state /\ Opened(j)
      BY <1>1, <1>5, <2>1 DEF Search, Met
    <3>2. j \in 1 .. N
      BY <1>1, <2>1
    <3> QED
      BY <1>1, <1>5, <2>1, <3>1, <3>2
  <2>2. CASE i = N + 1
    <3>1. FrontierKey(top) \in expanded
      BY <1>1, <1>6, <2>2 DEF Deduplicated
    <3>2. PICK j \in 1 .. N : Opened(j) /\ nodes[j].state = FrontierKey(top)[2]
      BY <1>1, <3>1 DEF Search, Keys
    <3>3. FrontierKey(top)[2] = DiagnosticState(top.runtime)
      BY DEF FrontierKey
    <3>4. j \in 1 .. i
      BY <1>1, <2>2
    <3> QED
      BY <1>1, <1>5, <1>6, <2>2, <3>2, <3>3, <3>4
  <2> QED
    BY <1>8, <2>1, <2>2
<1>11. Keys'
  <2> SUFFICES ASSUME NEW k \in expanded'
               PROVE  \E j \in 1 .. N + 1 : Opened(j)' /\ nodes'[j].state = k[2]
    BY <1>1 DEF Keys
  <2>1. CASE k \in expanded
    <3>1. PICK j \in 1 .. N : Opened(j) /\ nodes[j].state = k[2]
      BY <1>1, <2>1 DEF Search, Keys
    <3> QED
      BY <1>1, <1>5, <1>9, <3>1
  <2>2. CASE k \notin expanded
    <3>1. Expandable(top) /\ k = FrontierKey(top)
      BY <1>2, <2>2
    <3>2. ~Deduplicated(top) /\ k[2] = DiagnosticState(top.runtime)
      BY <2>2, <3>1 DEF Deduplicated, FrontierKey
    <3>3. \A j : j = N + 1 => Opened(j)' /\ nodes'[j].state = k[2]
      BY <1>1, <1>6, <1>7, <3>1, <3>2
    <3> QED
      BY <1>9, <3>3
  <2> QED
    BY <2>1, <2>2
<1>12. ASSUME NEW p \in 1 .. Len(stack) - 1, NEW i, i = stack[p].node, NEW n, n = stack[p].tried
       PROVE  Given(i, n)'
  <2>1. /\ stack[p].at = "branch" /\ i \in 1 .. N /\ p \in DOMAIN stack /\ n \in 0 .. Len(Policies)
        /\ Len(stack) # 1
    BY <1>3, <1>12
  <2>2. Given(i, Due(p))
    BY <1>4, <1>12, <2>1 DEF Search, Progress
  <2>3. top.parent = under.node /\ top.fallback = Policies[under.tried]
    BY <1>2, <2>1 DEF Search, Line
  <2>4. CASE p = Len(stack) - 1
    <3> DEFINE m == n - 1
    <3>1. Due(p) = m /\ under = stack[p]
      BY <1>2, <1>12, <2>4 DEF Due, under
    <3>2. Cardinality(Children(i)) = m
      BY <2>2, <3>1 DEF Given
    <3>3. m \in Nat
      <4>1. Children(i) \subseteq 1 .. N /\ IsFiniteSet(1 .. N)
        BY <1>1, FS_Interval DEF Children
      <4>2. Cardinality(Children(i)) \in Nat
        BY <4>1, FS_Subset, FS_CardinalityType
      <4> QED
        BY <3>2, <4>2
    <3>4. m + 1 = n
      BY <2>1
    <3> HIDE DEF m
    <3>5. Given(i, m) /\ i = top.parent /\ top.fallback = Policies[m + 1]
      BY <1>12, <2>2, <2>3, <3>1, <3>4
    <3>6. Given(i, m + 1)'
      BY <1>1, <2>1, <3>3, <3>5
    <3> QED
      BY <3>4, <3>6
  <2>5. CASE p # Len(stack) - 1
    <3>1. Due(p) = n /\ Len(stack) - 1 \in DOMAIN stack /\ p < Len(stack) - 1
          /\ Len(stack) - 1 \in 1 .. Len(stack) - 1
      <4>1. Len(stack) \in Nat /\ p \in 1 .. Len(stack) - 1 /\ DOMAIN stack = 1 .. Len(stack)
        BY <1>3
      <4>2. Due(p) = n
        BY <1>12, <2>5 DEF Due
      <4>3. p < Len(stack) - 1 /\ Len(stack) - 1 \in 1 .. Len(stack) - 1
        <5> DEFINE L == Len(stack)
        <5>1. L \in Nat /\ p \in 1 .. L - 1 /\ p # L - 1
          BY <2>5, <4>1
        <5> HIDE DEF L
        <5>2. p < L - 1 /\ L - 1 \in 1 .. L - 1
          BY <5>1
        <5> QED
          BY <5>2 DEF L
      <4>4. Len(stack) - 1 \in DOMAIN stack
        BY <4>1
      <4> QED
        BY <4>2, <4>3, <4>4
    <3>2. stack[p].node < under.node
      BY <1>3, <2>1, <3>1 DEF Search, Line, under
    <3>3. i # top.parent
      BY <1>3, <1>12, <2>3, <3>1, <3>2 DEF under
    <3> QED
      BY <1>1, <2>1, <2>2, <3>1, <3>3
  <2> QED
    BY <2>4, <2>5
<1>13. ASSUME NEW i \in 1 .. N, Opened(i)
       PROVE  AnsweredInFull(i)' \/ \E p \in 1 .. Len(stack) - 1 : stack[p].node = i
  <2>1. AnsweredInFull(i) \/ \E p \in DOMAIN stack : stack[p].at = "branch" /\ stack[p].node = i
    BY <1>1, <1>4, <1>13 DEF Search, Progress
  <2>2. ASSUME NEW p \in DOMAIN stack, stack[p].at = "branch" PROVE p \in 1 .. Len(stack) - 1
    <3>1. p # Len(stack)
      BY <1>2, <2>2 DEF top
    <3> QED
      BY <1>3, <3>1
  <2>3. ASSUME AnsweredInFull(i), i # top.parent PROVE AnsweredInFull(i)'
    BY <1>1, <2>3 DEF AnsweredInFull
  <2>4. ASSUME i = top.parent PROVE \E p \in 1 .. Len(stack) - 1 : stack[p].node = i
    <3>1. Len(stack) # 1
      <4>1. nodes # <<>>
        BY <1>1
      <4> QED
        BY <1>2, <4>1 DEF Search, Line
    <3>2. i = under.node /\ Len(stack) - 1 \in 1 .. Len(stack) - 1
      BY <1>2, <1>3, <2>4, <3>1 DEF Search, Line
    <3> QED
      BY <3>2 DEF under
  <2> QED
    BY <2>1, <2>2, <2>3, <2>4
<1>14. CASE Leaves
  <2>1. stack' = Below
    BY <1>2, <1>14
  <2>2. /\ Len(stack') = Len(stack) - 1 /\ DOMAIN stack' = 1 .. Len(stack) - 1
        /\ \A i \in 1 .. Len(stack) - 1 : stack'[i] = stack[i] /\ stack[i].at = "branch"
        /\ stack' # <<>> => top'.at = "branch"
    BY <1>2, <2>1, PopPlaces
  <2>3. Line'
    <3>1. ASSUME NEW p \in DOMAIN stack' PROVE Opened(stack[p].node)'
      <4>1. p \in DOMAIN stack /\ stack'[p] = stack[p] /\ stack[p].node \in 1 .. N
            /\ Opened(stack[p].node)
        BY <1>3, <2>2 DEF Search, Line
      <4> QED
        BY <1>1, <4>1 DEF Opened, Unanswered
    <3>2. ASSUME NEW p \in DOMAIN stack', NEW q \in DOMAIN stack', p < q, stack'[q].at = "branch"
          PROVE  stack'[p].node < stack'[q].node
      <4>1. stack'[p] = stack[p] /\ stack'[q] = stack[q] /\ p \in DOMAIN stack /\ q \in DOMAIN stack
        BY <1>3, <2>2
      <4> QED
        BY <3>2, <4>1 DEF Search, Line
    <3> QED
      BY <2>2, <3>1, <3>2 DEF Line
  <2>4. Progress'
    <3> SUFFICES ASSUME report'.termination = "completed" PROVE Progress'
      BY DEF Progress
    <3>1. ~Expandable(top) \/ Deduplicated(top)
      BY <1>2, <1>14 DEF Leaves
    <3>2. ASSUME NEW p \in DOMAIN stack', stack'[p].at = "branch"
          PROVE  Given(stack[p].node, Due(p))'
      <4>1. stack' # <<>> /\ stack'[p] = stack[p] /\ p \in 1 .. Len(stack) - 1
        BY <2>2
      <4>2. Due(p)' = stack[p].tried
        BY <2>2, <4>1 DEF Due
      <4>3. PICK i, n : i = stack[p].node /\ n = stack[p].tried
        OBVIOUS
      <4>4. Given(i, n)'
        BY <1>12, <4>1, <4>3
      <4> QED
        BY <4>1, <4>2, <4>3, <4>4 DEF Given, Children
    <3>3. ASSUME NEW i \in DOMAIN nodes', Opened(i)'
          PROVE  \/ AnsweredInFull(i)'
                 \/ \E p \in DOMAIN stack' : stack'[p].at = "branch" /\ stack'[p].node = i
      <4>1. i \in 1 .. N
        BY <1>1, <1>7, <1>8, <3>1, <3>3
      <4> QED
        BY <1>5, <1>13, <2>2, <3>3, <4>1
    <3> QED
      BY <3>2, <3>3 DEF Progress
  <2>5. Ended'
    <3>1. SpentAll => report'.total = options.max_total_retired
      BY <1>2 DEF SpentAll, IInv, TypeOK, Options
    <3> QED
      BY <1>1, <1>2, <1>4, <2>2, <3>1 DEF Ended
  <2> QED
    BY <1>10, <1>11, <2>3, <2>4, <2>5 DEF Search
<1>15. CASE ~Leaves
  <2> DEFINE c == [top EXCEPT !.at = "branch", !.node = N + 1, !.deps = AllDeps]
  <2>1. stack' = Append(Below, c)
    BY <1>2, <1>15 DEF N
  <2>2. c \in Visit /\ c.at = "branch" /\ c.node = N + 1 /\ c.tried = 0
    <3>1. top.tried = 0
      BY <1>2 DEF Search, Line
    <3>2. N + 1 \in Nat
      BY <1>1
    <3> QED
      BY <1>2, <1>3, <3>1, <3>2 DEF Visit
  <2>3. Expandable(top) /\ ~Deduplicated(top) /\ ~SpentAll
    BY <1>15 DEF Leaves
  <2> HIDE DEF c
  <2>4. /\ Len(stack') = Len(stack) /\ DOMAIN stack' = 1 .. Len(stack)
        /\ stack'[Len(stack)] = c /\ top' = c
        /\ \A i \in 1 .. Len(stack) - 1 : stack'[i] = stack[i]
    BY <1>2, <2>1, <2>2, ProceedPlaces
  <2>5. \A p \in 1 .. Len(stack) : p = Len(stack) \/ p \in 1 .. Len(stack) - 1
    <3>1. Len(stack) \in Nat
      BY <1>3
    <3> QED
      BY <3>1
  <2>6. Line'
    <3>1. ASSUME NEW p \in DOMAIN stack' PROVE Opened(stack[p].node)'
      <4>1. CASE p = Len(stack)
        <5>1. stack'[p].node = N + 1
          BY <2>2, <2>4, <4>1
        <5>2. \A i : i = N + 1 => Opened(i)'
          BY <1>7, <2>3
        <5> QED
          BY <5>1, <5>2 DEF Opened, Unanswered
      <4>2. CASE p \in 1 .. Len(stack) - 1
        <5>1. p \in DOMAIN stack /\ stack'[p] = stack[p] /\ stack[p].node \in 1 .. N
              /\ Opened(stack[p].node)
          BY <1>3, <2>4, <4>2 DEF Search, Line
        <5> QED
          BY <1>1, <5>1 DEF Opened, Unanswered
      <4> QED
        BY <2>4, <2>5, <4>1, <4>2
    <3>2. ASSUME NEW p \in DOMAIN stack', NEW q \in DOMAIN stack', p < q, stack'[q].at = "branch"
          PROVE  stack'[p].node < stack'[q].node
      <4>1. p \in 1 .. Len(stack) - 1 /\ stack'[p] = stack[p] /\ stack[p].node \in 1 .. N
        BY <1>3, <2>4, <3>2
      <4>2. CASE q = Len(stack)
        <5>1. stack'[q].node = N + 1
          BY <2>2, <2>4, <4>2
        <5> QED
          BY <1>1, <4>1, <5>1
      <4>3. CASE q \in 1 .. Len(stack) - 1
        <5>1. stack'[q] = stack[q] /\ p \in DOMAIN stack /\ q \in DOMAIN stack
          BY <1>3, <2>4, <4>1, <4>3
        <5> QED
          BY <3>2, <4>1, <5>1 DEF Search, Line
      <4> QED
        BY <2>4, <2>5, <4>2, <4>3
    <3> QED
      BY <2>2, <2>4, <3>1, <3>2 DEF Line
  <2>7. Progress'
    <3>1. ASSUME NEW p \in DOMAIN stack', stack'[p].at = "branch"
          PROVE  Given(stack[p].node, Due(p))'
      <4>1. Due(p)' = stack'[p].tried
        BY <2>2, <2>4 DEF Due
      <4>2. PICK i, n : i = stack'[p].node /\ n = stack'[p].tried
        OBVIOUS
      <4>3. CASE p = Len(stack)
        <5>1. i = N + 1 /\ n = 0
          BY <2>2, <2>4, <4>2, <4>3
        <5>2. Given(i, n)'
          BY <1>1, <5>1
        <5> QED
          BY <4>1, <4>2, <5>2 DEF Given, Children
      <4>4. CASE p \in 1 .. Len(stack) - 1
        <5>1. Given(i, n)'
          BY <1>12, <2>4, <4>2, <4>4
        <5> QED
          BY <4>1, <4>2, <5>1 DEF Given, Children
      <4> QED
        BY <2>4, <2>5, <4>3, <4>4
    <3>2. ASSUME NEW i \in DOMAIN nodes', Opened(i)'
          PROVE  \/ AnsweredInFull(i)'
                 \/ \E p \in DOMAIN stack' : stack'[p].at = "branch" /\ stack'[p].node = i
      <4>1. CASE i = N + 1
        <5>1. Len(stack) \in DOMAIN stack'
          BY <1>3, <2>4
        <5> QED
          BY <2>2, <2>4, <4>1, <5>1
      <4>2. CASE i \in 1 .. N
        <5>1. \A p \in 1 .. Len(stack) - 1 : p \in DOMAIN stack' /\ stack'[p].at = "branch"
          BY <1>3, <2>4
        <5> QED
          BY <1>5, <1>13, <2>4, <3>2, <4>2, <5>1
      <4> QED
        BY <1>1, <1>8, <4>1, <4>2
    <3> QED
      BY <3>1, <3>2 DEF Progress
  <2>8. Ended'
    BY <1>2, <1>4, <2>3 DEF Ended
  <2> QED
    BY <1>10, <1>11, <2>6, <2>7, <2>8 DEF Search
<1> QED
  BY <1>14, <1>15

LEMMA EnterSearch == ASSUME IInv, Work, Search, Enter PROVE Search'
<1>1. stack # <<>> /\ top.at = "enter" /\ UNCHANGED <<program, options, expanded>>
  BY DEF Enter
<1>2. top \in Visit /\ CallInv(top, options, Len(nodes)) /\ options.probe \in BOOLEAN
  BY <1>1, TopParts DEF IInv, TypeOK, Options
<1>3. report.termination = "completed"
  BY <1>1 DEF Search, Ended
<1>4. CASE LimitReached = "completed"
  <2> DEFINE b == Probing(top.runtime.bus, options.probe)
             c == [top EXCEPT !.at = "run", !.budget = SegmentBudget,
                              !.runtime = [top.runtime EXCEPT !.bus = b]]
  <2>1. stack' = Append(Below, c) /\ UNCHANGED report
    BY <1>4 DEF Enter, Proceed
  <2>2. b \in Bus /\ top.runtime \in Runtime /\ SegmentBudget \in Nat
    <3>1. top.runtime \in Runtime /\ top.runtime.bus \in Bus
      BY <1>2 DEF Visit, Runtime
    <3> QED
      BY <1>2, <3>1, ProbingType, BudgetType
  <2> HIDE DEF b
  <2>3. [top.runtime EXCEPT !.bus = b] \in Runtime
    BY <2>2 DEF Runtime
  <2>4. /\ c \in Visit /\ c.at = "run" /\ c.parent = top.parent /\ c.fallback = top.fallback
        /\ c.tried = top.tried
    BY <1>2, <2>2, <2>3 DEF Visit
  <2> HIDE DEF c
  <2> QED
    BY <1>1, <2>1, <2>4, StaySearch DEF nodes
<1>5. CASE LimitReached # "completed"
  <2>1. report' = [report EXCEPT !.termination = LimitReached] /\ stack' = Below
    BY <1>5 DEF Enter
  <2>2. nodes' = nodes /\ report'.total = report.total
    BY <2>1, SameReport DEF LimitReached, Reasons
  <2>3. report'.termination = LimitReached
    BY <2>1 DEF IInv, TypeOK
  <2>4. Len(stack) # 1
    <3>1. ASSUME nodes = <<>> PROVE FALSE
      BY <1>5, <3>1 DEF LimitReached, nodes, IInv, TypeOK, Options
    <3> QED
      BY <1>1, <3>1 DEF Search, Line
  <2>5. \E i \in DOMAIN nodes : Opened(i) /\ ~AnsweredInFull(i)
    BY <1>1, <1>3, <2>4, Unfinished
  <2>6. CASE LimitReached = "node_limit"
    <3>1. Len(nodes) >= options.max_nodes /\ Len(nodes) \in Nat /\ options.max_nodes \in Nat
          /\ Len(nodes) <= options.max_nodes
      BY <2>6 DEF LimitReached, nodes, IInv, TypeOK, Options, Work
    <3>2. Len(nodes) = options.max_nodes
      BY <3>1
    <3> QED
      BY <1>1, <2>1, <2>2, <2>3, <2>5, <2>6, <3>2, PopSearch
  <2>7. CASE LimitReached = "total_retired_limit"
    <3>1. report.total >= options.max_total_retired /\ report.total \in Nat
          /\ options.max_total_retired \in Nat /\ report.total <= options.max_total_retired
      BY <2>7 DEF LimitReached, nodes, IInv, TypeOK, Options, Spent
    <3>2. report.total = options.max_total_retired
      BY <3>1
    <3> QED
      BY <1>1, <2>1, <2>2, <2>3, <2>7, <3>2, PopSearch
  <2> QED
    BY <1>5, <2>6, <2>7 DEF LimitReached
<1> QED
  BY <1>4, <1>5

LEMMA TurnSearch ==
    ASSUME IInv, Search, Running, NEW r, NEW s, Turn(r, s), IInv'
    PROVE  Search'
<1> DEFINE c == [top EXCEPT !.runtime = r, !.segment = s]
<1>1. stack # <<>> /\ top.at = "run" /\ top \in Visit
  BY TopParts DEF Running
<1>2. stack' = Append(Below, c) /\ UNCHANGED <<options, report, expanded>>
  BY DEF Turn, Proceed
<1>3. /\ c.at = "run" /\ c.parent = top.parent /\ c.fallback = top.fallback
      /\ c.tried = top.tried
  BY <1>1 DEF Visit
<1> HIDE DEF c
<1>4. c \in Visit
  <2>1. Below \in Seq(Visit) /\ stack' \in Seq(Visit)
    BY <1>1, TopParts DEF IInv, TypeOK
  <2> HIDE DEF Below
  <2>2. Append(Below, c)[Len(Below) + 1] = c /\ Len(Below) + 1 \in DOMAIN Append(Below, c)
    BY <2>1
  <2> QED
    BY <1>2, <2>1, <2>2
<1> QED
  BY <1>1, <1>2, <1>3, <1>4, StaySearch DEF nodes

\* A child is begun: its call is the innermost, and its answer is due.
LEMMA BranchSearch == ASSUME IInv, Search, Branch PROVE Search'
<1> DEFINE child == WithFallback(top.runtime, policy)
           one == [top EXCEPT !.tried = top.tried + 1]
           two == Call(child, top.depth + 1, top.node, policy, nodes[top.node].cumulative,
                       Append(top.path, <<Frontier(top.runtime.cpu), policy>>), top.deps)
           N == Len(stack)
<1>1. /\ stack # <<>> /\ top.at = "branch" /\ report.termination = "completed"
      /\ top.tried \in 0 .. Len(Policies) - 1 /\ policy = Policies[top.tried + 1]
      /\ UNCHANGED <<program, options, report, expanded, nodes>>
      /\ one \in Visit /\ two \in Visit /\ one.at = "branch" /\ two.at = "enter"
      /\ stack' \in Seq(Visit) /\ Len(stack') = N + 1
      /\ stack'[N] = one /\ stack'[N + 1] = two
      /\ \A i \in 1 .. N - 1 : stack'[i] = stack[i]
  BY BranchParts
<1>2. /\ N \in Nat \ {0} /\ DOMAIN stack = 1 .. N /\ top \in Visit /\ stack[N] = top
      /\ \A i \in 1 .. N - 1 : stack[i].at = "branch"
  BY <1>1, TopParts DEF top
<1>3. /\ one.node = top.node /\ one.tried = top.tried + 1
      /\ two.parent = top.node /\ two.fallback = policy /\ two.tried = 0
  BY <1>1, <1>2 DEF Visit, Call
<1>4. DOMAIN stack' = 1 .. N + 1
  BY <1>1
<1> HIDE DEF one, two
<1>5. top' = two
  BY <1>1 DEF top
<1>6. /\ \A i : (Unanswered(i)' <=> Unanswered(i)) /\ (Opened(i)' <=> Opened(i))
      /\ \A i : (AnsweredInFull(i)' <=> AnsweredInFull(i))
      /\ \A i, n : Given(i, n)' <=> Given(i, n)
  BY <1>1, SameNodes
<1> HIDE DEF N
<1>7. ASSUME NEW p \in 1 .. N
      PROVE  stack[p].at = "branch" /\ stack'[p].at = "branch" /\ stack'[p].node = stack[p].node
             /\ p \in 1 .. N + 1
  <2>1. CASE p = N
    BY <1>1, <1>2, <1>3, <2>1
  <2>2. CASE p # N
    <3>1. p \in 1 .. N - 1
      BY <1>2, <2>2
    <3> QED
      BY <1>1, <1>2, <3>1
  <2> QED
    BY <2>1, <2>2
<1>8. ASSUME NEW p \in 1 .. N + 1, stack'[p].at = "branch" PROVE p \in 1 .. N
  <2>1. p # N + 1
    BY <1>1, <1>8
  <2> QED
    BY <1>2, <2>1
<1>9. Met' /\ Keys'
  BY <1>1, <1>6 DEF Search, Met, Keys
<1>10. Line'
  <2>1. ASSUME NEW p \in DOMAIN stack', stack'[p].at = "branch" PROVE Opened(stack[p].node)'
    <3>1. p \in DOMAIN stack /\ stack'[p].node = stack[p].node /\ Opened(stack[p].node)
      BY <1>2, <1>4, <1>7, <1>8, <2>1 DEF Search, Line
    <3> QED
      BY <1>1, <3>1 DEF Opened, Unanswered
  <2>2. ASSUME NEW p \in DOMAIN stack', NEW q \in DOMAIN stack', p < q, stack'[q].at = "branch"
        PROVE  stack'[p].node < stack'[q].node
    <3>1. q \in 1 .. N /\ p \in 1 .. N
      BY <1>2, <1>4, <1>8, <2>2
    <3>2. stack'[p].node = stack[p].node /\ stack'[q].node = stack[q].node
          /\ p \in DOMAIN stack /\ q \in DOMAIN stack /\ stack[q].at = "branch"
      BY <1>2, <1>7, <3>1
    <3> QED
      BY <2>2, <3>2 DEF Search, Line
  <2>3. under' = one /\ Len(stack') # 1
    BY <1>1, <1>2 DEF under
  <2> QED
    BY <1>1, <1>3, <1>5, <2>1, <2>2, <2>3 DEF Line
<1>11. Progress'
  <2>1. ASSUME NEW p \in DOMAIN stack', stack'[p].at = "branch"
        PROVE  Given(stack[p].node, Due(p))'
    <3>1. p \in 1 .. N /\ p \in DOMAIN stack
      BY <1>2, <1>4, <1>8, <2>1
    <3>2. Due(p) = stack[p].tried
      BY <1>1 DEF Due
    <3>3. Due(p)' = stack[p].tried
      <4>1. Len(stack') - 1 = N
        BY <1>1, <1>2
      <4>2. CASE p = N
        <5>1. stack'[p].tried - 1 = stack[p].tried
          BY <1>1, <1>2, <1>3, <4>2
        <5> QED
          BY <1>1, <1>5, <4>1, <4>2, <5>1 DEF Due
      <4>3. CASE p # N
        <5>1. p \in 1 .. N - 1
          BY <1>2, <3>1, <4>3
        <5> QED
          BY <1>1, <4>1, <4>3, <5>1 DEF Due
      <4> QED
        BY <4>2, <4>3
    <3>4. Given(stack[p].node, stack[p].tried)
      BY <1>1, <1>7, <3>1, <3>2 DEF Search, Progress
    <3>5. nodes' = nodes /\ stack'[p].node = stack[p].node
      BY <1>1, <1>7, <3>1
    <3> QED
      BY <3>3, <3>4, <3>5 DEF Given, Children
  <2>2. ASSUME NEW i \in DOMAIN nodes', Opened(i)'
        PROVE  \/ AnsweredInFull(i)'
               \/ \E p \in DOMAIN stack' : stack'[p].at = "branch" /\ stack'[p].node = i
    <3>1. AnsweredInFull(i) \/ \E p \in DOMAIN stack : stack[p].at = "branch" /\ stack[p].node = i
      BY <1>1, <1>6, <2>2 DEF Search, Progress
    <3> QED
      BY <1>2, <1>4, <1>6, <1>7, <3>1
  <2> QED
    BY <2>1, <2>2 DEF Progress
<1>12. Ended'
  BY <1>1 DEF Ended
<1> QED
  BY <1>9, <1>10, <1>11, <1>12 DEF Search

LEMMA BranchLimitedSearch == ASSUME IInv, Work, Search, BranchLimited PROVE Search'
<1>1. /\ stack # <<>> /\ top.at = "branch" /\ report.termination = "completed"
      /\ top.tried < Len(Policies) /\ LimitReached # "completed"
      /\ stack' = Below /\ UNCHANGED <<program, options, expanded>>
      /\ report' = [report EXCEPT !.termination = LimitReached]
  BY DEF BranchLimited, Branching, More
<1>2. nodes' = nodes /\ report'.total = report.total
  BY <1>1, SameReport DEF LimitReached, Reasons
<1>3. report'.termination = LimitReached
  BY <1>1 DEF IInv, TypeOK
<1>4. \E i \in DOMAIN nodes : Opened(i) /\ ~AnsweredInFull(i)
  BY <1>1, Unfinished
<1>5. /\ Len(nodes) \in Nat /\ options.max_nodes \in Nat /\ Len(nodes) <= options.max_nodes
      /\ report.total \in Nat /\ options.max_total_retired \in Nat
      /\ report.total <= options.max_total_retired
  BY DEF nodes, IInv, TypeOK, Options, Work, Spent
<1>6. CASE LimitReached = "node_limit"
  <2>1. Len(nodes) >= options.max_nodes
    BY <1>6 DEF LimitReached, nodes
  <2>2. Len(nodes) = options.max_nodes
    BY <1>5, <2>1
  <2> QED
    BY <1>1, <1>2, <1>3, <1>4, <1>6, <2>2, PopSearch
<1>7. CASE LimitReached = "total_retired_limit"
  <2>1. report.total >= options.max_total_retired
    BY <1>7 DEF LimitReached
  <2>2. report.total = options.max_total_retired
    BY <1>5, <2>1
  <2> QED
    BY <1>1, <1>2, <1>3, <1>7, <2>2, PopSearch
<1> QED
  BY <1>1, <1>6, <1>7 DEF LimitReached

LEMMA ReturnSearch == ASSUME IInv, Search, Return PROVE Search'
<1>1. /\ stack # <<>> /\ top.at = "branch" /\ stack' = Below
      /\ UNCHANGED <<options, report, expanded, nodes>>
      /\ top.tried >= Len(Policies) \/ report.termination # "completed"
  BY Branches DEF Return, More, nodes, Policies
<1>2. report.termination = "completed" => top.tried = Len(Policies)
  BY <1>1, Branches DEF Policies
<1> QED
  BY <1>1, <1>2, PopSearch

LEMMA StepSearch == IInv /\ Work /\ Search /\ [Next]_vars => Search'
<1> SUFFICES ASSUME IInv, Work, Search, [Next]_vars PROVE Search'
  OBVIOUS
<1>1. CASE Enter \/ Record \/ Branch \/ BranchLimited \/ Return
  BY <1>1, EnterSearch, RecordSearch, BranchSearch, BranchLimitedSearch, ReturnSearch
<1>2. CASE BudgetExhausted \/ BiosCall \/ BiosFrontier \/ Retire \/ Boundary
  <2>1. IInv'
    BY StepInv
  <2>2. PICK r, s : Running /\ Turn(r, s)
    BY <1>2 DEF BudgetExhausted, BiosCall, BiosFrontier, Retire, Boundary
  <2> QED
    BY <2>1, <2>2, TurnSearch
<1>3. CASE UNCHANGED vars
  <2>1. UNCHANGED <<nodes, options, report, stack, expanded>>
    BY <1>3 DEF vars, nodes
  <2>2. /\ \A i : (Unanswered(i)' <=> Unanswered(i)) /\ (Opened(i)' <=> Opened(i))
        /\ \A i : (AnsweredInFull(i)' <=> AnsweredInFull(i))
        /\ \A i, n : Given(i, n)' <=> Given(i, n)
    BY <2>1, SameNodes
  <2>3. Met' /\ Keys'
    BY <2>1, <2>2 DEF Search, Met, Keys
  <2>4. Line'
    BY <2>1 DEF Search, Line, Opened, Unanswered, under, top
  <2>5. Progress'
    BY <2>1, <2>2 DEF Search, Progress, Given, Children, Due, top
  <2>6. Ended'
    BY <2>1, <2>2 DEF Search, Ended, top
  <2> QED
    BY <2>3, <2>4, <2>5, <2>6 DEF Search
<1> QED
  BY <1>1, <1>2, <1>3 DEF Next

LEMMA InitialSearch == Init => Search
<1> SUFFICES ASSUME Init PROVE Search
  OBVIOUS
<1>1. nodes = <<>> /\ report.termination = "completed" /\ expanded = {}
  BY DEF Init, nodes
<1>2. Len(stack) = 1 /\ DOMAIN stack = {1} /\ stack[1].at = "enter" /\ stack[1].tried = 0
  BY DEF Init, Call
<1>3. top.at = "enter" /\ top.tried = 0
  BY <1>2 DEF top
<1>4. DOMAIN nodes = {}
  BY <1>1
<1> QED
  BY <1>1, <1>2, <1>3, <1>4 DEF Search, Met, Keys, Line, Progress, Ended

\* HonestTermination: the search says why it ended.  When it says completed, each
\* frontier above the depth limit was answered in all four ways, by its own node or
\* by the earlier one with its state; at the limit of nodes some frontier was not;
\* at the limit of instructions none were left.
THEOREM TerminationIsHonest == Spec => []HonestTermination
<1>1. IInv /\ Work /\ Search => HonestTermination
  <2> SUFFICES ASSUME IInv, Work, Search, stack = <<>> PROVE HonestTermination
    BY DEF HonestTermination
  <2>1. report.termination \in Reasons
    BY DEF IInv, TypeOK
  <2>2. CASE report.termination = "completed"
    <3>1. DOMAIN stack = {}
      OBVIOUS
    <3>2. \A i \in DOMAIN nodes : Opened(i) => AnsweredInFull(i)
      BY <2>2, <3>1 DEF Search, Progress
    <3>3. DOMAIN nodes = 1 .. Len(nodes) /\ Len(nodes) \in Nat
      BY DEF IInv, TypeOK, nodes
    <3>4. ASSUME NEW i \in DOMAIN nodes, Unanswered(i)
          PROVE  \E j \in 1 .. i : nodes[j].state = nodes[i].state /\ AnsweredInFull(j)
      <4>1. CASE nodes[i].deduplicated
        <5>1. PICK j \in 1 .. i : nodes[j].state = nodes[i].state /\ Opened(j)
          BY <3>4, <4>1 DEF Search, Met
        <5>2. j \in DOMAIN nodes
          BY <3>3
        <5> QED
          BY <3>2, <5>1, <5>2
      <4>2. CASE ~nodes[i].deduplicated
        <5>1. i \in 1 .. i
          BY <3>3
        <5> QED
          BY <3>2, <3>4, <4>2, <5>1 DEF Opened
      <4> QED
        BY <4>1, <4>2
    <3> QED
      BY <2>2, <3>4 DEF HonestTermination
  <2>3. CASE report.termination = "node_limit"
    BY <2>3 DEF Search, Ended, Opened, HonestTermination
  <2>4. CASE report.termination = "total_retired_limit"
    BY <2>4 DEF Search, Ended, HonestTermination
  <2> QED
    BY <2>1, <2>2, <2>3, <2>4 DEF Reasons
<1>2. IInv /\ Work /\ Search /\ [Next]_vars => IInv' /\ Work' /\ Search'
  BY StepInv, StepWork, StepSearch
<1> QED
  BY <1>1, <1>2, InitialInv, InitialWork, InitialSearch, PTL DEF Spec

-----------------------------------------------------------------------------
(* What a node reports comes of its decisions alone                        *)

\* A guest that only a decision takes any further.
Waits(r) == AtBios(r) /\ ~Handled(r.cpu) /\ r.pending

\* A guest alone takes k turns, and does not wait for more than path before.
Walks(w, k, path) ==
    /\ w[0] = Alone
    /\ \A j \in 0 .. k - 1 :
        /\ w[j + 1] = Onward(w[j], path) /\ w[j].taken \in 0 .. Len(path)
        /\ ~(w[j].taken = Len(path) /\ Waits(w[j].runtime))

\* Along path it gets to the runtime r, with n instructions, in at most m turns.
Attains(r, n, path, m) ==
    \E k \in Nat : k <= m /\ \E w : /\ Walks(w, k, path)
                                    /\ w[k] = [runtime |-> r, retired |-> n, taken |-> Len(path)]

LEMMA SameOnward ==
    ASSUME UNCHANGED <<program, options>>
    PROVE  Alone' = Alone /\ \A a, path : Onward(a, path)' = Onward(a, path)
  BY DEF Alone, Onward, Retires, Stepped, Fetched, Refused

LEMMA SameAttains ==
    ASSUME UNCHANGED <<program, options>>,
           NEW r, NEW n, NEW path, NEW m, Attains(r, n, path, m)
    PROVE  Attains(r, n, path, m)'
  BY SameOnward DEF Attains, Walks

LEMMA AttainsWithin ==
    ASSUME NEW r, NEW n, NEW path, NEW m \in Int, NEW l \in Int, m <= l, Attains(r, n, path, m)
    PROVE  Attains(r, n, path, l)
  BY DEF Attains

\* A turn more.
LEMMA Further ==
    ASSUME NEW path, Len(path) \in Nat, NEW r, NEW n, NEW m \in Int, Attains(r, n, path, m),
           ~Waits(r), NEW s, NEW l,
           Onward([runtime |-> r, retired |-> n, taken |-> Len(path)], path)
                = [runtime |-> s, retired |-> l, taken |-> Len(path)]
    PROVE  Attains(s, l, path, m + 1)
<1> DEFINE here == [runtime |-> r, retired |-> n, taken |-> Len(path)]
<1>1. PICK k, w : k \in Nat /\ k <= m /\ Walks(w, k, path) /\ w[k] = here
  BY DEF Attains
<1> DEFINE v == [j \in 0 .. k + 1 |-> IF j = k + 1 THEN Onward(here, path) ELSE w[j]]
<1>2. /\ k \in Nat /\ k + 1 \in Nat /\ k + 1 <= m + 1 /\ k + 1 \in 0 .. k + 1 /\ 0 \in 0 .. k + 1
      /\ 0 # k + 1 /\ (k + 1) - 1 = k
  BY <1>1
<1>3. v[0] = Alone /\ v[k + 1] = Onward(here, path)
  BY <1>1, <1>2 DEF Walks
<1>4. ASSUME NEW j \in 0 .. k
      PROVE  /\ v[j + 1] = Onward(v[j], path) /\ v[j].taken \in 0 .. Len(path)
             /\ ~(v[j].taken = Len(path) /\ Waits(v[j].runtime))
  <2>1. j \in 0 .. k + 1 /\ j # k + 1
    BY <1>2
  <2>2. v[j] = w[j]
    BY <2>1
  <2>3. CASE j = k
    <3>1. here.taken = Len(path) /\ here.runtime = r /\ v[j] = here
      BY <1>1, <2>2, <2>3
    <3> QED
      BY <1>3, <2>3, <3>1
  <2>4. CASE j # k
    <3>1. j \in 0 .. k - 1 /\ j + 1 \in 0 .. k + 1 /\ j + 1 # k + 1
      BY <1>2, <2>4
    <3>2. v[j + 1] = w[j + 1]
      BY <3>1
    <3> HIDE DEF v
    <3> QED
      BY <1>1, <2>2, <3>1, <3>2 DEF Walks
  <2> QED
    BY <2>3, <2>4
<1> HIDE DEF v
<1>5. Walks(v, k + 1, path)
  BY <1>2, <1>3, <1>4 DEF Walks
<1> QED
  BY <1>2, <1>3, <1>5 DEF Attains

\* A decision more does not matter where a guest does not wait for it.
LEMMA OnwardLonger ==
    ASSUME NEW path, Len(path) \in Nat, NEW longer, Len(longer) = Len(path) + 1,
           \A i \in 1 .. Len(path) : longer[i] = path[i],
           NEW a, a.taken \in 0 .. Len(path), ~(a.taken = Len(path) /\ Waits(a.runtime))
    PROVE  Onward(a, longer) = Onward(a, path)
<1>1. CASE a.taken = Len(path)
  <2>1. AtBios(a.runtime) /\ ~Handled(a.runtime.cpu) => ~a.runtime.pending
    BY <1>1 DEF Waits
  <2> QED
    BY <2>1, Zenon DEF Onward
<1>2. CASE a.taken # Len(path)
  <2>1. a.taken < Len(path) /\ a.taken < Len(longer) /\ longer[a.taken + 1] = path[a.taken + 1]
    BY <1>2
  <2> QED
    BY <2>1, Zenon DEF Onward
<1> QED
  BY <1>1, <1>2

\* Where it waits, the decision takes it on.
LEMMA Decided ==
    ASSUME NEW path, Len(path) \in Nat, NEW r, NEW n, NEW m \in Int, Attains(r, n, path, m),
           Waits(r), NEW answer, NEW longer, Len(longer) = Len(path) + 1,
           \A i \in 1 .. Len(path) : longer[i] = path[i],
           longer[Len(path) + 1] = <<Frontier(r.cpu), answer>>
    PROVE  Attains(WithFallback(r, answer), n, longer, m + 1)
<1> DEFINE here == [runtime |-> r, retired |-> n, taken |-> Len(path)]
           there == [runtime |-> WithFallback(r, answer), retired |-> n, taken |-> Len(longer)]
<1>1. PICK k, w : k \in Nat /\ k <= m /\ Walks(w, k, path) /\ w[k] = here
  BY DEF Attains
<1> DEFINE v == [j \in 0 .. k + 1 |-> IF j = k + 1 THEN there ELSE w[j]]
<1>2. /\ k \in Nat /\ k + 1 \in Nat /\ k + 1 <= m + 1 /\ k + 1 \in 0 .. k + 1 /\ 0 \in 0 .. k + 1
      /\ 0 # k + 1 /\ (k + 1) - 1 = k
  BY <1>1
<1>3. v[0] = Alone /\ v[k + 1] = there
  BY <1>1, <1>2 DEF Walks
<1>4. Onward(here, longer) = there
  <2>1. here.runtime = r /\ here.taken = Len(path)
    OBVIOUS
  <2>2. /\ AtBios(r) /\ ~Handled(r.cpu) /\ r.pending
        /\ here.taken < Len(longer) /\ longer[here.taken + 1][1] = Frontier(r.cpu)
        /\ longer[here.taken + 1][2] = answer
    BY <2>1 DEF Waits
  <2>3. Onward(here, longer)
            = [here EXCEPT !.runtime = WithFallback(r, longer[here.taken + 1][2]), !.taken = @ + 1]
    BY <2>1, <2>2, Zenon DEF Onward
  <2>4. Onward(here, longer)
            = [here EXCEPT !.runtime = WithFallback(r, answer), !.taken = Len(longer)]
    BY <2>1, <2>2, <2>3
  <2>5. PICK h, s, t, g : /\ h = here /\ s = WithFallback(r, answer) /\ t = Len(longer)
                          /\ g = [h EXCEPT !.runtime = s, !.taken = t]
    BY Zenon
  <2>6. g = [runtime |-> s, retired |-> n, taken |-> t]
    BY <2>5
  <2> QED
    BY <2>4, <2>5, <2>6, Zenon
<1>5. ASSUME NEW j \in 0 .. k
      PROVE  /\ v[j + 1] = Onward(v[j], longer) /\ v[j].taken \in 0 .. Len(longer)
             /\ ~(v[j].taken = Len(longer) /\ Waits(v[j].runtime))
  <2>1. j \in 0 .. k + 1 /\ j # k + 1
    BY <1>2
  <2>2. v[j] = w[j]
    BY <2>1
  <2>3. CASE j = k
    <3>1. here.taken = Len(path) /\ here.runtime = r /\ v[j] = here
      BY <1>1, <2>2, <2>3
    <3> QED
      BY <1>3, <1>4, <2>3, <3>1
  <2>4. CASE j # k
    <3>1. j \in 0 .. k - 1 /\ j + 1 \in 0 .. k + 1 /\ j + 1 # k + 1
      BY <1>2, <2>4
    <3>2. v[j + 1] = w[j + 1]
      BY <3>1
    <3> HIDE DEF v
    <3>3. /\ w[j + 1] = Onward(w[j], path) /\ w[j].taken \in 0 .. Len(path)
          /\ ~(w[j].taken = Len(path) /\ Waits(w[j].runtime))
      BY <1>1, <3>1 DEF Walks
    <3>4. Onward(w[j], longer) = Onward(w[j], path)
      BY <3>3, OnwardLonger
    <3> QED
      BY <2>2, <3>2, <3>3, <3>4
  <2> QED
    BY <2>3, <2>4
<1> HIDE DEF v
<1>6. Walks(v, k + 1, longer)
  BY <1>2, <1>3, <1>5 DEF Walks
<1> QED
  BY <1>2, <1>3, <1>6 DEF Attains

LEMMA WalkExists ==
    ASSUME NEW path, NEW n \in Nat
    PROVE  \E f : f = [k \in 0 .. n |-> IF k = 0 THEN Alone ELSE Onward(f[k - 1], path)]
<1> DEFINE Goes(f, m) == /\ f = [k \in 0 .. m |-> f[k]] /\ f[0] = Alone
                         /\ \A k \in 0 .. m - 1 : f[k + 1] = Onward(f[k], path)
           P == {m \in Nat : \E f : Goes(f, m)}
<1>1. 0 \in P
  <2> DEFINE f == [k \in 0 .. 0 |-> Alone]
  <2>1. f = [k \in 0 .. 0 |-> f[k]] /\ f[0] = Alone
    OBVIOUS
  <2> HIDE DEF f
  <2>2. Goes(f, 0)
    BY <2>1
  <2> QED
    BY <2>2
<1>2. ASSUME NEW m \in Nat, m \in P PROVE m + 1 \in P
  <2>1. PICK f : Goes(f, m)
    BY <1>2
  <2> DEFINE g == [k \in 0 .. m + 1 |-> IF k \in 0 .. m THEN f[k] ELSE Onward(f[m], path)]
  <2>2. g = [k \in 0 .. m + 1 |-> g[k]]
    OBVIOUS
  <2>3. g[0] = Alone
    BY <2>1
  <2>4. ASSUME NEW k \in 0 .. (m + 1) - 1 PROVE g[k + 1] = Onward(g[k], path)
    <3>1. k \in 0 .. m /\ k \in 0 .. m + 1 /\ k + 1 \in 0 .. m + 1 /\ g[k] = f[k]
      OBVIOUS
    <3>2. CASE k = m
      <4>1. k + 1 \notin 0 .. m
        BY <3>2
      <4> QED
        BY <3>1, <3>2, <4>1
    <3>3. CASE k # m
      <4>1. k + 1 \in 0 .. m /\ k \in 0 .. m - 1
        BY <3>3
      <4>2. f[k + 1] = Onward(f[k], path) /\ g[k + 1] = f[k + 1]
        BY <2>1, <3>1, <4>1
      <4> HIDE DEF g
      <4> QED
        BY <3>1, <4>2
    <3> QED
      BY <3>2, <3>3
  <2> HIDE DEF g
  <2>5. Goes(g, m + 1)
    BY <2>2, <2>3, <2>4
  <2> HIDE DEF Goes
  <2> QED
    BY <2>5
<1>3. Nat \subseteq P
  <2> HIDE DEF P
  <2> QED
    BY <1>1, <1>2, SetInduction
<1>4. PICK f : Goes(f, n)
  BY <1>3
<1>5. ASSUME NEW k \in 0 .. n
      PROVE  f[k] = IF k = 0 THEN Alone ELSE Onward(f[k - 1], path)
  <2>1. CASE k = 0
    BY <1>4, <2>1
  <2>2. CASE k # 0
    <3>1. k - 1 \in 0 .. n - 1 /\ (k - 1) + 1 = k
      BY <2>2
    <3> QED
      BY <1>4, <2>2, <3>1
  <2> QED
    BY <2>1, <2>2
<1>6. f = [k \in 0 .. n |-> IF k = 0 THEN Alone ELSE Onward(f[k - 1], path)]
  BY <1>4, <1>5
<1> QED
  BY <1>6

\* What a guest alone gets to, ComesBy finds within its turns.
LEMMA ComesByAttains ==
    ASSUME NEW path, Len(path) \in Nat, NEW r, NEW n, n.cumulative \in Nat,
           n.state = DiagnosticState(r),
           Attains(r, n.cumulative, path, 2 * (n.cumulative + Len(path)) + 2)
    PROVE  ComesBy(n, path)
<1> DEFINE turns == 2 * (n.cumulative + Len(path)) + 2
           Equation(f) == f = [k \in 0 .. turns |-> IF k = 0 THEN Alone ELSE Onward(f[k - 1], path)]
           f == CHOOSE f : Equation(f)
<1>1. turns \in Nat
  OBVIOUS
<1>2. PICK k, w : /\ k \in Nat /\ k <= turns /\ Walks(w, k, path)
                          /\ w[k] = [runtime |-> r, retired |-> n.cumulative, taken |-> Len(path)]
  BY DEF Attains
<1> HIDE DEF turns
<1>3. Equation(f)
  <2>1. \E g : Equation(g)
    BY <1>1, WalkExists
  <2> QED
    BY <2>1
<1>4. ComesBy(n, path) =
        \E j \in 0 .. turns : /\ f[j].retired = n.cumulative /\ f[j].taken = Len(path)
                              /\ DiagnosticState(f[j].runtime) = n.state
  BY DEF ComesBy, turns
<1> HIDE DEF f
<1>5. f[0] = Alone
  BY <1>1, <1>3
<1>6. ASSUME NEW j \in 0 .. turns - 1 PROVE f[j + 1] = Onward(f[j], path)
  <2>1. j + 1 \in 0 .. turns /\ j + 1 # 0 /\ (j + 1) - 1 = j
    BY <1>1
  <2> QED
    BY <1>3, <2>1
<1> DEFINE P == {j \in Nat : j <= k => f[j] = w[j]}
<1>7. 0 \in P
  BY <1>2, <1>5 DEF Walks
<1>8. ASSUME NEW j \in Nat, j \in P PROVE j + 1 \in P
  <2>1. CASE j + 1 <= k
    <3>1. j \in 0 .. turns - 1 /\ j \in 0 .. k - 1 /\ f[j] = w[j]
      BY <1>1, <1>2, <1>8, <2>1
    <3>2. w[j + 1] = Onward(w[j], path)
      BY <1>2, <3>1 DEF Walks
    <3>3. f[j + 1] = w[j + 1]
      BY <1>6, <3>1, <3>2
    <3> QED
      BY <3>3
  <2> QED
    BY <2>1
<1>9. Nat \subseteq P
  <2> HIDE DEF P
  <2> QED
    BY <1>7, <1>8, SetInduction
<1>10. f[k] = [runtime |-> r, retired |-> n.cumulative, taken |-> Len(path)] /\ k \in 0 .. turns
  BY <1>1, <1>2, <1>9
<1>11. f[k].retired = n.cumulative /\ f[k].taken = Len(path) /\ f[k].runtime = r
  BY <1>10
<1> QED
  BY <1>4, <1>10, <1>11

\* A path as it is read off the nodes.
Choice == (Int \X Int) \X Fallbacks
Onto(paths, ns, n) ==
    IF n.parent = NoParent THEN <<>>
    ELSE Append(paths[n.parent], <<FrontierOf(ns[n.parent]), n.fallback>>)
Rooted(ns) == ns \in Seq(Node) /\ \A i \in DOMAIN ns : ns[i].parent < i

LEMMA PathsGo ==
    ASSUME NEW ns, Rooted(ns)
    PROVE  \E p : /\ p[0] = <<>> /\ Paths(ns) = p[Len(ns)]
                  /\ \A k \in 0 .. Len(ns) : p[k] \in Seq(Seq(Choice)) /\ Len(p[k]) = k
                  /\ \A k \in 0 .. Len(ns) - 1 :
                        p[k + 1] = Append(p[k], Onto(p[k], ns, ns[k + 1]))
<1> DEFINE len == Len(ns)
           S == Seq(Seq(Choice))
           Next1(t, k) == IF k + 1 \in DOMAIN ns /\ (ns[k + 1].parent \in DOMAIN t \/ ns[k + 1].parent = 0)
                          THEN Append(t, Onto(t, ns, ns[k + 1])) ELSE t
           turn == [k \in Nat |-> [t \in S |-> Next1(t, k)]]
           Equation(f) == f = [n \in 0 .. len |-> IF n = 0 THEN <<>>
                ELSE Append(f[n - 1],
                            IF ns[n].parent = NoParent THEN <<>>
                            ELSE Append(f[n - 1][ns[n].parent],
                                        <<FrontierOf(ns[ns[n].parent]), ns[n].fallback>>))]
<1>1. /\ len \in Nat /\ DOMAIN ns = 1 .. len
      /\ \A k \in 1 .. len : ns[k] \in Node /\ ns[k].parent \in Nat /\ ns[k].parent < k
  <2>1. len \in Nat /\ DOMAIN ns = 1 .. len
    BY DEF Rooted
  <2>2. \A k \in 1 .. len : ns[k] \in Node /\ ns[k].parent < k
    BY <2>1 DEF Rooted
  <2> QED
    BY <2>1, <2>2 DEF Node
<1>2. ASSUME NEW t \in S, NEW k \in 1 .. len, ns[k].parent \in DOMAIN t \/ ns[k].parent = 0
      PROVE  Onto(t, ns, ns[k]) \in Seq(Choice)
  <2> DEFINE up == ns[k].parent
  <2>1. CASE up = 0
    BY <2>1 DEF Onto, NoParent
  <2>2. CASE up # 0
    <3>1. up \in 1 .. len /\ up \in DOMAIN t
      BY <1>1, <1>2, <2>2
    <3>2. ns[up] \in Node /\ t[up] \in Seq(Choice) /\ ns[k] \in Node
      BY <1>1, <3>1
    <3>3. FrontierOf(ns[up]) \in Int \X Int
      BY <3>2 DEF FrontierOf, Frontier, Node, State, Cpu
    <3>4. ns[k].fallback \in Fallbacks
      BY <3>2 DEF Node
    <3>5. <<FrontierOf(ns[up]), ns[k].fallback>> \in Choice
      BY <3>3, <3>4 DEF Choice
    <3> QED
      BY <2>2, <3>2, <3>5 DEF Onto, NoParent
  <2> QED
    BY <2>1, <2>2
<1>3. turn \in [Nat -> [S -> S]]
  <2>1. ASSUME NEW k \in Nat, NEW t \in S PROVE Next1(t, k) \in S
    <3>1. CASE k + 1 \in DOMAIN ns /\ (ns[k + 1].parent \in DOMAIN t \/ ns[k + 1].parent = 0)
      <4>1. Onto(t, ns, ns[k + 1]) \in Seq(Choice)
        BY <1>1, <1>2, <3>1
      <4> QED
        BY <3>1, <4>1
    <3> QED
      BY <3>1
  <2> HIDE DEF Next1, S
  <2> QED
    BY <2>1
<1> HIDE DEF len
<1>4. PICK r : IsLoop(r, S, <<>>, turn, len)
  <2>1. <<>> \in S
    OBVIOUS
  <2> HIDE DEF turn, S
  <2> QED
    BY <1>1, <1>3, <2>1, LoopExists
<1>5. /\ r \in [0 .. len -> S] /\ r[0] = <<>>
      /\ \A k \in 0 .. len - 1 : r[k + 1] = Next1(r[k], k)
  <2>1. r \in [0 .. len -> S] /\ r[0] = <<>> /\ \A k \in 0 .. len - 1 : r[k + 1] = turn[k][r[k]]
    BY <1>4 DEF IsLoop
  <2>2. \A k \in 0 .. len - 1 : k \in Nat /\ k \in 0 .. len
    BY <1>1
  <2> HIDE DEF Next1, S
  <2> QED
    BY <2>1, <2>2
<1> DEFINE P == {k \in Nat : k <= len => Len(r[k]) = k}
<1>6. ASSUME NEW k \in 0 .. len - 1, Len(r[k]) = k
      PROVE  Len(r[k + 1]) = k + 1 /\ r[k + 1] = Append(r[k], Onto(r[k], ns, ns[k + 1]))
  <2>1. k + 1 \in 1 .. len /\ k \in 0 .. len /\ k \in Nat
    BY <1>1
  <2>2. r[k] \in S /\ DOMAIN r[k] = 1 .. k
    BY <1>5, <1>6, <2>1
  <2>3. ns[k + 1].parent \in 1 .. k \/ ns[k + 1].parent = 0
    BY <1>1, <2>1
  <2>4. r[k + 1] = Append(r[k], Onto(r[k], ns, ns[k + 1]))
    BY <1>1, <1>5, <2>1, <2>2, <2>3
  <2>5. Onto(r[k], ns, ns[k + 1]) \in Seq(Choice)
    BY <1>2, <2>1, <2>2, <2>3
  <2> QED
    BY <1>6, <2>2, <2>4, <2>5
<1>7. Nat \subseteq P
  <2>1. 0 \in P
    BY <1>5
  <2>2. ASSUME NEW k \in Nat, k \in P PROVE k + 1 \in P
    <3>1. CASE k + 1 <= len
      <4>1. k \in 0 .. len - 1 /\ Len(r[k]) = k
        BY <1>1, <2>2, <3>1
      <4> QED
        BY <1>6, <4>1
    <3> QED
      BY <3>1
  <2> HIDE DEF P
  <2> QED
    BY <2>1, <2>2, SetInduction
<1>8. \A k \in 0 .. len : r[k] \in S /\ Len(r[k]) = k
  BY <1>1, <1>5, <1>7
<1>9. \A k \in 0 .. len - 1 : r[k + 1] = Append(r[k], Onto(r[k], ns, ns[k + 1]))
  <2>1. \A k \in 0 .. len - 1 : k \in 0 .. len
    BY <1>1
  <2> QED
    BY <1>6, <1>8, <2>1
<1> HIDE DEF P, turn
<1>10. Equation(r)
  <2>1. ASSUME NEW n \in 0 .. len, n # 0
        PROVE  r[n] = Append(r[n - 1], Onto(r[n - 1], ns, ns[n]))
    <3>1. n - 1 \in 0 .. len - 1 /\ (n - 1) + 1 = n
      BY <1>1, <2>1
    <3> QED
      BY <1>9, <3>1
  <2>2. r = [n \in 0 .. len |-> r[n]]
    BY <1>5
  <2> QED
    BY <1>5, <2>1, <2>2 DEF Onto
<1> DEFINE f == CHOOSE f : Equation(f)
<1>11. Equation(f)
  BY <1>10
<1>12. Paths(ns) = f[len]
  BY DEF Paths, len
<1> HIDE DEF f
<1> DEFINE Q == {k \in Nat : k <= len => f[k] = r[k]}
<1>13. Nat \subseteq Q
  <2>1. 0 \in Q
    BY <1>1, <1>5, <1>11
  <2>2. ASSUME NEW k \in Nat, k \in Q PROVE k + 1 \in Q
    <3>1. CASE k + 1 <= len
      <4>1. k \in 0 .. len - 1 /\ k + 1 \in 0 .. len /\ k + 1 # 0 /\ (k + 1) - 1 = k
        BY <1>1, <3>1
      <4>2. f[k + 1] = Append(f[k], Onto(f[k], ns, ns[k + 1]))
        BY <1>11, <4>1 DEF Onto
      <4>3. f[k] = r[k]
        BY <1>1, <2>2, <3>1
      <4>4. f[k + 1] = r[k + 1]
        BY <1>9, <4>1, <4>2, <4>3
      <4> QED
        BY <4>4
    <3> QED
      BY <3>1
  <2> HIDE DEF Q
  <2> QED
    BY <2>1, <2>2, SetInduction
<1>14. Paths(ns) = r[len]
  BY <1>1, <1>12, <1>13
<1> QED
  BY <1>5, <1>8, <1>9, <1>14 DEF len

\* A node more leaves the paths of the others as they are.
LEMMA PathsMore ==
    ASSUME NEW ns, Rooted(ns), NEW n \in Node, n.parent <= Len(ns)
    PROVE  /\ Paths(ns) \in Seq(Seq(Choice)) /\ Len(Paths(ns)) = Len(ns)
           /\ Rooted(Append(ns, n))
           /\ \A i \in 1 .. Len(ns) : Paths(Append(ns, n))[i] = Paths(ns)[i]
           /\ Paths(Append(ns, n))[Len(ns) + 1] = Onto(Paths(ns), ns, n)
<1> DEFINE len == Len(ns)
           ms == Append(ns, n)
<1>1. /\ len \in Nat /\ DOMAIN ns = 1 .. len /\ ms \in Seq(Node) /\ Len(ms) = len + 1
      /\ DOMAIN ms = 1 .. len + 1 /\ ms[len + 1] = n
      /\ \A i \in 1 .. len : ms[i] = ns[i]
  <2>1. ns \in Seq(Node)
    BY DEF Rooted
  <2> QED
    BY <2>1, AppendParts
<1>2. \A i \in 1 .. len : ns[i] \in Node /\ ns[i].parent \in Nat /\ ns[i].parent < i
  <2>1. ns \in Seq(Node) /\ \A i \in 1 .. len : ns[i].parent < i
    BY <1>1 DEF Rooted
  <2>2. \A i \in 1 .. len : ns[i] \in Node
    BY <1>1, <2>1
  <2> QED
    BY <2>1, <2>2 DEF Node
<1>3. n.parent \in 0 .. len
  BY <1>1 DEF Node
<1> HIDE DEF ms, len
<1>4. Rooted(ms)
  <2>1. ASSUME NEW i \in 1 .. len + 1 PROVE ms[i].parent < i
    <3>1. CASE i = len + 1
      BY <1>1, <1>3, <3>1
    <3>2. CASE i # len + 1
      <4>1. i \in 1 .. len
        BY <1>1, <3>2
      <4> QED
        BY <1>1, <1>2, <4>1
    <3> QED
      BY <3>1, <3>2
  <2> QED
    BY <1>1, <2>1 DEF Rooted
<1>5. PICK p : /\ p[0] = <<>> /\ Paths(ns) = p[len]
               /\ \A k \in 0 .. len : p[k] \in Seq(Seq(Choice)) /\ Len(p[k]) = k
               /\ \A k \in 0 .. len - 1 : p[k + 1] = Append(p[k], Onto(p[k], ns, ns[k + 1]))
  BY PathsGo DEF len
<1>6. PICK q : /\ q[0] = <<>> /\ Paths(ms) = q[len + 1]
               /\ \A k \in 0 .. len + 1 : q[k] \in Seq(Seq(Choice)) /\ Len(q[k]) = k
               /\ \A k \in 0 .. len : q[k + 1] = Append(q[k], Onto(q[k], ms, ms[k + 1]))
  <2>1. PICK q : /\ q[0] = <<>> /\ Paths(ms) = q[Len(ms)]
                 /\ \A k \in 0 .. Len(ms) : q[k] \in Seq(Seq(Choice)) /\ Len(q[k]) = k
                 /\ \A k \in 0 .. Len(ms) - 1 :
                        q[k + 1] = Append(q[k], Onto(q[k], ms, ms[k + 1]))
    BY <1>4, PathsGo
  <2>2. Len(ms) = len + 1 /\ Len(ms) - 1 = len
    BY <1>1
  <2> QED
    BY <2>1, <2>2
<1>7. ASSUME NEW t, NEW e, e.parent \in 0 .. len PROVE Onto(t, ms, e) = Onto(t, ns, e)
  <2>1. e.parent # 0 => ms[e.parent] = ns[e.parent]
    BY <1>1, <1>7
  <2> QED
    BY <2>1 DEF Onto, NoParent
<1> DEFINE P == {k \in Nat : k <= len => q[k] = p[k]}
<1>8. ASSUME NEW k \in Nat, k \in P PROVE k + 1 \in P
  <2>1. CASE k + 1 <= len
    <3>1. k \in 0 .. len - 1 /\ k \in 0 .. len /\ k + 1 \in 1 .. len /\ q[k] = p[k]
      BY <1>1, <1>8, <2>1
    <3>2. ms[k + 1] = ns[k + 1] /\ ns[k + 1].parent \in 0 .. len
      BY <1>1, <1>2, <3>1
    <3>3. Onto(p[k], ms, ns[k + 1]) = Onto(p[k], ns, ns[k + 1])
      BY <1>7, <3>2
    <3>4. q[k + 1] = Append(p[k], Onto(p[k], ms, ns[k + 1]))
      BY <1>6, <3>1, <3>2
    <3>5. q[k + 1] = p[k + 1]
      BY <1>5, <3>1, <3>3, <3>4
    <3> QED
      BY <3>5
  <2> QED
    BY <2>1
<1>9. Nat \subseteq P
  <2>1. 0 \in P
    BY <1>5, <1>6
  <2> HIDE DEF P
  <2> QED
    BY <1>8, <2>1, SetInduction
<1>10. q[len] = p[len] /\ len \in 0 .. len
  BY <1>1, <1>9
<1>11. /\ Paths(ns) \in Seq(Seq(Choice)) /\ Len(Paths(ns)) = len
       /\ Paths(ms) = Append(Paths(ns), Onto(Paths(ns), ns, n))
  <2>1. Onto(p[len], ms, n) = Onto(p[len], ns, n)
    BY <1>3, <1>7
  <2>2. q[len + 1] = Append(p[len], Onto(p[len], ms, n))
    BY <1>1, <1>6, <1>10
  <2> QED
    BY <1>5, <1>6, <1>10, <2>1, <2>2
<1>12. Onto(Paths(ns), ns, n) \in Seq(Choice)
  <2>1. Paths(ms) \in Seq(Seq(Choice)) /\ Len(Paths(ms)) = len + 1 /\ len + 1 \in 1 .. len + 1
    BY <1>1, <1>6
  <2>2. Paths(ms)[len + 1] \in Seq(Choice)
    BY <2>1
  <2>3. Append(Paths(ns), Onto(Paths(ns), ns, n))[len + 1] = Onto(Paths(ns), ns, n)
    BY <1>1, <1>11
  <2> QED
    BY <1>11, <2>2, <2>3
<1>13. /\ Paths(ms)[len + 1] = Onto(Paths(ns), ns, n)
       /\ \A i \in 1 .. len : Paths(ms)[i] = Paths(ns)[i]
  BY <1>1, <1>11, <1>12
<1> QED
  BY <1>4, <1>11, <1>13 DEF ms, len

\* The path of a call, by the node it is a child of.
PathOf(c) == Onto(Paths(nodes), nodes, c)

LEMMA RecordPaths ==
    ASSUME IInv, Record
    PROVE  /\ \A i \in 1 .. Len(nodes) : PathTo(i)' = PathTo(i)
           /\ \A i : i = Len(nodes) + 1 => PathTo(i)' = PathOf(top)
<1>1. /\ stack # <<>> /\ nodes' = Append(nodes, NewNode) /\ NewNode \in Node
  BY RecordParts
<1>2. Rooted(nodes) /\ Len(nodes) \in Nat
  BY DEF IInv, TypeOK, Rooted, nodes
<1>3. NewNode.parent = top.parent /\ NewNode.fallback = top.fallback /\ top.parent \in 0 .. Len(nodes)
  BY <1>1, TopParts DEF NewNode, Summary, CallInv
<1>4. NewNode.parent <= Len(nodes)
  BY <1>2, <1>3
<1>5. Onto(Paths(nodes), nodes, NewNode) = PathOf(top)
  BY <1>3 DEF PathOf, Onto
<1>6. /\ \A i \in 1 .. Len(nodes) : Paths(nodes')[i] = Paths(nodes)[i]
      /\ Paths(nodes')[Len(nodes) + 1] = PathOf(top)
  BY <1>1, <1>2, <1>4, <1>5, PathsMore
<1> QED
  BY <1>6 DEF PathTo

\* A guest at a call of the BIOS that returns somewhere else, and one whose call
\* returns to itself.
Entering(r) == AtBios(r) /\ Handled(r.cpu) /\ r.cpu.ra # r.cpu.pc
Trapped(r) == AtBios(r) /\ Handled(r.cpu) /\ r.cpu.ra = r.cpu.pc

\* What a call has had retired before and in its segment, and what its guest's
\* turns may be more than two for each instruction and each decision.
SoFar(c) == c.before + c.segment.retired
Slack(c) == IF c.segment.stop # "none" THEN 1 ELSE IF Entering(c.runtime) THEN -1 ELSE 0

\* A segment that will not come to its end, nor to a node.
Lost(c) ==
    /\ c.at = "run" /\ c.segment.stop = "none" /\ c.segment.retired < c.budget
    /\ Trapped(c.runtime)

CallReplays(c) ==
    /\ c.depth = 0 => c.before = 0
    /\ c.at # "enter" \/ c.depth # 0 =>
        \/ Attains(c.runtime, SoFar(c), c.path, 2 * (SoFar(c) + Len(c.path)) + Slack(c))
        \/ Lost(c)
    /\ IF c.at = "branch"
       THEN /\ c.path = PathTo(c.node) /\ nodes[c.node].cumulative = SoFar(c)
            /\ nodes[c.node].state = DiagnosticState(c.runtime)
       ELSE c.path = PathOf(c)
NodeReplays(i) ==
    /\ Len(PathTo(i)) \in Nat
    /\ \E r : /\ nodes[i].state = DiagnosticState(r)
              /\ Attains(r, nodes[i].cumulative, PathTo(i),
                         2 * (nodes[i].cumulative + Len(PathTo(i))) + 2)
Replays ==
    /\ \A i \in DOMAIN nodes : NodeReplays(i)
    /\ \A p \in DOMAIN stack : CallReplays(stack[p])

LEMMA KeepReplays ==
    ASSUME UNCHANGED <<program, options, nodes>>
    PROVE  /\ \A i : NodeReplays(i) => NodeReplays(i)'
           /\ \A c : CallReplays(c) => CallReplays(c)'
<1>1. \A i : PathTo(i)' = PathTo(i)
  BY DEF PathTo
<1>2. \A c : PathOf(c)' = PathOf(c)
  BY DEF PathOf
<1> QED
  BY <1>1, <1>2, SameAttains DEF NodeReplays, CallReplays

LEMMA AppendVisit ==
    ASSUME IInv, stack # <<>>, IInv', NEW c, stack' = Append(Below, c)
    PROVE  c \in Visit
<1>1. Below \in Seq(Visit) /\ stack' \in Seq(Visit)
  BY TopParts DEF IInv, TypeOK
<1> HIDE DEF Below
<1>2. Append(Below, c)[Len(Below) + 1] = c /\ Len(Below) + 1 \in DOMAIN Append(Below, c)
  BY <1>1
<1> QED
  BY <1>1, <1>2

LEMMA ProceedReplays ==
    ASSUME IInv, Replays, stack # <<>>, UNCHANGED <<program, options, nodes>>,
           NEW c \in Visit, stack' = Append(Below, c), CallReplays(c)
    PROVE  Replays'
<1>1. /\ Len(stack) \in Nat \ {0} /\ DOMAIN stack = 1 .. Len(stack)
      /\ DOMAIN stack' = 1 .. Len(stack) /\ stack'[Len(stack)] = c
      /\ \A i \in 1 .. Len(stack) - 1 : stack'[i] = stack[i]
  BY ProceedPlaces
<1>2. ASSUME NEW p \in DOMAIN stack' PROVE \E d : d = stack'[p] /\ CallReplays(d)
  <2>1. CASE p = Len(stack)
    BY <1>1, <2>1
  <2>2. CASE p # Len(stack)
    <3>1. p \in 1 .. Len(stack) - 1 /\ p \in DOMAIN stack
      <4>1. Len(stack) \in Nat /\ p \in 1 .. Len(stack) /\ DOMAIN stack = 1 .. Len(stack)
        BY <1>1
      <4> QED
        BY <2>2, <4>1
    <3> QED
      BY <1>1, <3>1 DEF Replays
  <2> QED
    BY <2>1, <2>2
<1>3. ASSUME NEW p \in DOMAIN stack' PROVE CallReplays(stack[p])'
  <2>1. PICK d : d = stack'[p] /\ CallReplays(d)
    BY <1>2
  <2>2. CallReplays(d)'
    BY <2>1, KeepReplays
  <2> QED
    BY <2>1, <2>2 DEF CallReplays, PathOf
<1>4. \A i \in DOMAIN nodes' : NodeReplays(i)'
  BY KeepReplays DEF Replays
<1> QED
  BY <1>3, <1>4 DEF Replays

LEMMA PopReplays ==
    ASSUME IInv, Replays, stack # <<>>, UNCHANGED <<program, options, nodes>>, stack' = Below
    PROVE  Replays'
<1>1. /\ Len(stack) \in Nat \ {0} /\ DOMAIN stack = 1 .. Len(stack)
      /\ DOMAIN stack' = 1 .. Len(stack) - 1
      /\ \A i \in 1 .. Len(stack) - 1 : stack'[i] = stack[i]
  BY PopPlaces
<1>2. ASSUME NEW p \in DOMAIN stack' PROVE CallReplays(stack[p])'
  <2>1. PICK d : d = stack'[p] /\ CallReplays(d)
    BY <1>1 DEF Replays
  <2>2. CallReplays(d)'
    BY <2>1, KeepReplays
  <2> QED
    BY <2>1, <2>2 DEF CallReplays, PathOf
<1>3. \A i \in DOMAIN nodes' : NodeReplays(i)'
  BY KeepReplays DEF Replays
<1> QED
  BY <1>2, <1>3 DEF Replays

\* The guest of a segment under way has come along the call's path.
LEMMA RunningReplays ==
    ASSUME IInv, Replays, Running
    PROVE  /\ Len(top.path) \in Nat /\ SoFar(top) \in Nat /\ top.before \in Nat
           /\ ~top.runtime.pending /\ ~Waits(top.runtime) /\ CallReplays(top)
           /\ ~Lost(top) =>
                Attains(top.runtime, SoFar(top), top.path,
                        2 * (SoFar(top) + Len(top.path))
                            + (IF Entering(top.runtime) THEN -1 ELSE 0))
<1>1. stack # <<>> /\ top.at = "run" /\ top.segment.stop = "none"
  BY DEF Running
<1>2. top \in Visit /\ Len(stack) \in DOMAIN stack
  <2>1. top \in Visit /\ Len(stack) \in Nat \ {0} /\ DOMAIN stack = 1 .. Len(stack)
    BY <1>1, TopParts
  <2> QED
    BY <2>1
<1>3. top.before \in Nat /\ Len(top.path) \in Nat /\ top.segment.retired \in Nat
  BY <1>2, RunningParts DEF Visit
<1>4. CallReplays(top)
  BY <1>2 DEF Replays, top
<1>5. ~top.runtime.pending
  BY RunningParts
<1>6. Slack(top) = IF Entering(top.runtime) THEN -1 ELSE 0
  BY <1>1 DEF Slack
<1>7. ~Lost(top) =>
        Attains(top.runtime, SoFar(top), top.path, 2 * (SoFar(top) + Len(top.path)) + Slack(top))
  BY <1>1, <1>4 DEF CallReplays
<1> QED
  BY <1>3, <1>4, <1>5, <1>6, <1>7 DEF Waits, SoFar

\* A turn that the call's new runtime is attained by, or that leaves it lost.
LEMMA TurnReplays ==
    ASSUME IInv, IInv', Replays, Running, NEW r, NEW s, Turn(r, s), s.retired \in Nat,
           \/ /\ s.stop = "none" /\ s.retired < top.budget /\ Trapped(r)
           \/ \E m \in Int :
                /\ Attains(r, top.before + s.retired, top.path, m)
                /\ m <= 2 * (top.before + s.retired + Len(top.path))
                         + (IF s.stop # "none" THEN 1 ELSE IF Entering(r) THEN -1 ELSE 0)
    PROVE  Replays'
<1> DEFINE c == [top EXCEPT !.runtime = r, !.segment = s]
           l == 2 * (top.before + s.retired + Len(top.path))
                + (IF s.stop # "none" THEN 1 ELSE IF Entering(r) THEN -1 ELSE 0)
<1>1. stack # <<>> /\ top.at = "run" /\ top \in Visit
  BY TopParts DEF Running
<1>2. stack' = Append(Below, c) /\ UNCHANGED <<program, options, nodes>>
  BY DEF Turn, Proceed, nodes
<1>3. /\ c.at = "run" /\ c.parent = top.parent /\ c.fallback = top.fallback
      /\ c.depth = top.depth /\ c.before = top.before /\ c.path = top.path
      /\ c.runtime = r /\ c.segment = s /\ c.budget = top.budget
  BY <1>1 DEF Visit
<1> HIDE DEF c
<1>4. c \in Visit
  BY <1>1, <1>2, AppendVisit
<1>5. /\ CallReplays(top) /\ Len(top.path) \in Nat /\ top.before \in Nat
  BY RunningReplays
<1>6. l \in Int /\ l = 2 * (SoFar(c) + Len(c.path)) + Slack(c)
  BY <1>3, <1>5 DEF SoFar, Slack
<1>7. Attains(r, top.before + s.retired, top.path, l) \/ Lost(c)
  <2>1. CASE s.stop = "none" /\ s.retired < top.budget /\ Trapped(r)
    BY <1>3, <2>1 DEF Lost
  <2>2. ASSUME NEW m \in Int, Attains(r, top.before + s.retired, top.path, m), m <= l
        PROVE  Attains(r, top.before + s.retired, top.path, l)
    <3> HIDE DEF l
    <3> QED
      BY <1>6, <2>2, AttainsWithin
  <2> QED
    BY <2>1, <2>2
<1>8. PathOf(c) = PathOf(top)
  BY <1>3 DEF PathOf, Onto
<1> HIDE DEF l
<1>9. CallReplays(c)
  BY <1>1, <1>3, <1>5, <1>6, <1>7, <1>8 DEF CallReplays, SoFar
<1> QED
  BY <1>1, <1>2, <1>4, <1>9, ProceedReplays

LEMMA BudgetReplays == ASSUME IInv, IInv', Replays, BudgetExhausted PROVE Replays'
<1> DEFINE s == [top.segment EXCEPT !.stop = "execution_budget_exhausted"]
           m == 2 * (SoFar(top) + Len(top.path)) + (IF Entering(top.runtime) THEN -1 ELSE 0)
<1>1. Running /\ ~InBudget /\ Turn(top.runtime, s)
  BY DEF BudgetExhausted
<1>2. s.retired = top.segment.retired /\ s.stop = "execution_budget_exhausted" /\ s.retired \in Nat
  BY <1>1, RunningParts DEF Segment
<1>3. Len(top.path) \in Nat /\ SoFar(top) \in Nat /\ Attains(top.runtime, SoFar(top), top.path, m)
  <2>1. ~Lost(top)
    BY <1>1 DEF Lost, InBudget
  <2> QED
    BY <1>1, <2>1, RunningReplays
<1>4. SoFar(top) = top.before + s.retired
  BY <1>2 DEF SoFar
<1>5. m \in Int /\ m <= 2 * (SoFar(top) + Len(top.path)) + 1
  BY <1>3
<1> HIDE DEF s, m
<1>6. /\ Attains(top.runtime, top.before + s.retired, top.path, m)
      /\ m <= 2 * (top.before + s.retired + Len(top.path))
               + (IF s.stop # "none" THEN 1 ELSE IF Entering(top.runtime) THEN -1 ELSE 0)
  BY <1>2, <1>3, <1>4, <1>5
<1> QED
  BY <1>1, <1>2, <1>5, <1>6, TurnReplays

LEMMA OneTurn ==
    ASSUME NEW n \in Nat, NEW more \in Nat, NEW L \in Nat, NEW a \in Int, NEW b \in Int,
           2 * n + a + 1 <= 2 * more + b
    PROVE  /\ 2 * (n + L) + a \in Int /\ 2 * (n + L) + a + 1 \in Int
           /\ 2 * (n + L) + a + 1 <= 2 * (more + L) + b
  OBVIOUS

\* A turn that the guest alone takes as well.
LEMMA TakenReplays ==
    ASSUME IInv, IInv', Replays, Running, ~Lost(top), NEW r, NEW s, Turn(r, s), s.retired \in Nat,
           Onward([runtime |-> top.runtime, retired |-> SoFar(top), taken |-> Len(top.path)],
                  top.path)
                = [runtime |-> r, retired |-> top.before + s.retired, taken |-> Len(top.path)],
           2 * SoFar(top) + (IF Entering(top.runtime) THEN -1 ELSE 0) + 1
                <= 2 * (top.before + s.retired)
                   + (IF s.stop # "none" THEN 1 ELSE IF Entering(r) THEN -1 ELSE 0)
    PROVE  Replays'
<1> DEFINE L == Len(top.path)
           before == IF Entering(top.runtime) THEN -1 ELSE 0
           slack == IF s.stop # "none" THEN 1 ELSE IF Entering(r) THEN -1 ELSE 0
           m == 2 * (SoFar(top) + L) + before
           new == top.before + s.retired
<1>1. /\ L \in Nat /\ SoFar(top) \in Nat /\ top.before \in Nat /\ ~Waits(top.runtime)
      /\ Attains(top.runtime, SoFar(top), top.path, m)
  BY RunningReplays
<1>2. before \in Int /\ slack \in Int /\ new \in Nat /\ 2 * SoFar(top) + before + 1 <= 2 * new + slack
  BY <1>1
<1> HIDE DEF L, before, slack, new
<1>3. m \in Int /\ m + 1 \in Int /\ m + 1 <= 2 * (new + L) + slack
  BY <1>1, <1>2, OneTurn, Zenon
<1> HIDE DEF m
<1>4. Attains(r, new, top.path, m + 1)
  BY <1>1, <1>3, Further DEF L, new
<1> QED
  BY <1>3, <1>4, TurnReplays DEF L, slack, new

\* A call that returns to itself does so again.
LEMMA TrappedStays ==
    ASSUME NEW r \in Runtime, Trapped(r)
    PROVE  Trapped(AfterHandled(r))
<1>1. Handled(r.cpu) /\ AtBios(r) /\ r.cpu.ra = r.cpu.pc
  BY DEF Trapped
<1> DEFINE a == AfterHandled(r)
<1>2. a.cpu.pc = r.cpu.pc /\ a.cpu.ra = r.cpu.ra /\ a.cpu.t1 = r.cpu.t1 /\ a.cpu.a0 = r.cpu.a0
  BY <1>1, HandledType
<1> HIDE DEF a
<1>3. Handled(a.cpu)
  BY <1>1, <1>2 DEF Handled, InitHeap, RemoveIso9660, HookEntryInt, ChangeClearPad, ChangeClearRCnt
<1> QED
  BY <1>1, <1>2, <1>3 DEF Trapped, AtBios, a

LEMMA BiosCallReplays == ASSUME IInv, IInv', Replays, BiosCall PROVE Replays'
<1> DEFINE s == Called(top.segment, top.runtime.cpu)
           r == AfterHandled(top.runtime)
           here == [runtime |-> top.runtime, retired |-> SoFar(top), taken |-> Len(top.path)]
<1>1. Running /\ InBudget /\ AtBios(top.runtime) /\ Handled(top.runtime.cpu) /\ Turn(r, s)
  BY DEF BiosCall
<1>2. /\ s.retired = top.segment.retired /\ s.stop = "none" /\ s.retired \in Nat
      /\ top.runtime \in Runtime
  <2>1. SegmentInv(top.segment, options) /\ top.runtime \in Runtime /\ top.segment.retired \in Nat
    BY <1>1, RunningParts
  <2> QED
    BY <1>1, <2>1, CalledInv, RunningParts DEF Running
<1>3. CASE Trapped(top.runtime)
  <2>1. Trapped(r) /\ s.retired < top.budget
    BY <1>1, <1>2, <1>3, TrappedStays DEF InBudget
  <2> HIDE DEF s, r
  <2> QED
    BY <1>1, <1>2, <2>1, TurnReplays
<1>4. CASE ~Trapped(top.runtime)
  <2>1. Entering(top.runtime) /\ ~Lost(top)
    BY <1>1, <1>4 DEF Entering, Trapped, Lost
  <2>2. ~Entering(r)
    <3>1. r.cpu.pc = r.cpu.ra
      BY <1>1, <1>2, HandledType
    <3> QED
      BY <3>1 DEF Entering
  <2>3. Onward(here, top.path) = [runtime |-> r, retired |-> SoFar(top), taken |-> Len(top.path)]
    <3>1. here.runtime = top.runtime
      OBVIOUS
    <3>2. Onward(here, top.path) = [here EXCEPT !.runtime = r]
      BY <1>1, <3>1, Zenon DEF Onward
    <3> HIDE DEF r
    <3> QED
      BY <3>2
  <2>4. SoFar(top) = top.before + s.retired /\ SoFar(top) \in Nat
    BY <1>1, <1>2, RunningReplays DEF SoFar
  <2> HIDE DEF s, r
  <2>5. 2 * SoFar(top) + (-1) + 1 <= 2 * (top.before + s.retired) + 0
    BY <2>4
  <2> QED
    BY <1>1, <1>2, <2>1, <2>2, <2>3, <2>4, <2>5, TakenReplays
<1> QED
  BY <1>3, <1>4

LEMMA BiosFrontierReplays == ASSUME IInv, IInv', Replays, BiosFrontier PROVE Replays'
<1> DEFINE called == Called(top.segment, top.runtime.cpu)
           s == [called EXCEPT !.stop = "bios_call_unimplemented"]
           r == [top.runtime EXCEPT !.pending = TRUE]
           here == [runtime |-> top.runtime, retired |-> SoFar(top), taken |-> Len(top.path)]
<1>1. Running /\ AtBios(top.runtime) /\ ~Handled(top.runtime.cpu) /\ Turn(r, s)
  BY DEF BiosFrontier
<1>2. /\ s.retired = top.segment.retired /\ s.stop = "bios_call_unimplemented"
      /\ s.retired \in Nat
  <2>1. SegmentInv(called, options) /\ called.retired = top.segment.retired
        /\ top.segment.retired \in Nat
    BY <1>1, RunningParts, CalledInv
  <2> QED
    BY <2>1 DEF SegmentInv, Segment
<1>3. ~Entering(top.runtime) /\ ~Lost(top)
  BY <1>1 DEF Entering, Lost, Trapped
<1>4. SoFar(top) = top.before + s.retired /\ SoFar(top) \in Nat /\ ~top.runtime.pending
  BY <1>1, <1>2, RunningReplays DEF SoFar
<1>5. Onward(here, top.path) = [runtime |-> r, retired |-> SoFar(top), taken |-> Len(top.path)]
  <2>1. here.runtime = top.runtime
    OBVIOUS
  <2>2. Onward(here, top.path) = [here EXCEPT !.runtime.pending = TRUE]
    BY <1>1, <1>4, <2>1, Zenon DEF Onward
  <2> QED
    BY <2>2
<1> HIDE DEF s, r
<1>6. 2 * SoFar(top) + 0 + 1 <= 2 * (top.before + s.retired) + 1
  BY <1>4
<1> QED
  BY <1>1, <1>2, <1>3, <1>4, <1>5, <1>6, TakenReplays

LEMMA RetireReplays == ASSUME IInv, IInv', Replays, Retire PROVE Replays'
<1> DEFINE after == Counted(top.segment, top.runtime, options.capacity)
           s == IF Stalled(after, options.stagnation)
                THEN [after EXCEPT !.stop = "diagnostic_stall"] ELSE after
           r == Stepped(top.runtime)
           here == [runtime |-> top.runtime, retired |-> SoFar(top), taken |-> Len(top.path)]
<1>1. Running /\ ~AtBios(top.runtime) /\ Retires(top.runtime) /\ Turn(r, s)
  BY DEF Retire
<1>2. /\ top.segment.retired \in Nat /\ top.segment.stop = "none" /\ top.segment \in Segment
  BY <1>1, RunningParts DEF Running
<1>3. s.retired = top.segment.retired + 1 /\ s.retired \in Nat
  <2>1. after.retired = top.segment.retired + 1 /\ "retired" \in DOMAIN after
    BY <1>2 DEF Counted, Segment
  <2> HIDE DEF after
  <2> QED
    BY <1>2, <2>1
<1>4. ~Entering(top.runtime) /\ ~Lost(top)
  BY <1>1 DEF Entering, Lost, Trapped
<1>5. SoFar(top) \in Nat /\ SoFar(top) + 1 = top.before + s.retired
  <2>1. SoFar(top) \in Nat /\ top.before \in Nat
    BY <1>1, RunningReplays
  <2> QED
    BY <1>2, <1>3, <2>1 DEF SoFar
<1>6. Onward(here, top.path)
        = [runtime |-> r, retired |-> SoFar(top) + 1, taken |-> Len(top.path)]
  <2>1. here.runtime = top.runtime
    OBVIOUS
  <2>2. Onward(here, top.path) = [here EXCEPT !.runtime = r, !.retired = @ + 1]
    BY <1>1, <2>1, Zenon DEF Onward
  <2> HIDE DEF r
  <2> QED
    BY <2>2
<1> HIDE DEF s, r
<1>7. /\ 2 * SoFar(top) + 0 + 1 <= 2 * (top.before + s.retired) + 1
      /\ 2 * SoFar(top) + 0 + 1 <= 2 * (top.before + s.retired) + (-1)
      /\ 2 * SoFar(top) + 0 + 1 <= 2 * (top.before + s.retired) + 0
  BY <1>5
<1>8. 2 * SoFar(top) + 0 + 1
        <= 2 * (top.before + s.retired)
           + (IF s.stop # "none" THEN 1 ELSE IF Entering(r) THEN -1 ELSE 0)
  BY <1>7
<1> QED
  BY <1>1, <1>3, <1>4, <1>5, <1>6, <1>8, TakenReplays

LEMMA BoundaryReplays == ASSUME IInv, IInv', Replays, Boundary PROVE Replays'
<1> DEFINE s == [top.segment EXCEPT !.stop = BoundaryReason(top.runtime)]
           r == [top.runtime EXCEPT !.pending = FALSE]
           here == [runtime |-> top.runtime, retired |-> SoFar(top), taken |-> Len(top.path)]
<1>1. Running /\ ~AtBios(top.runtime) /\ ~Retires(top.runtime) /\ Turn(r, s)
  BY DEF Boundary
<1>2. s.retired = top.segment.retired /\ s.retired \in Nat /\ s.stop # "none"
  <2>1. BoundaryReason(top.runtime) # "none"
    BY DEF BoundaryReason
  <2> QED
    BY <1>1, <2>1, RunningParts DEF Segment
<1>3. ~Entering(top.runtime) /\ ~Lost(top)
  BY <1>1 DEF Entering, Lost, Trapped
<1>4. SoFar(top) = top.before + s.retired /\ SoFar(top) \in Nat
  BY <1>1, <1>2, RunningReplays DEF SoFar
<1>5. Onward(here, top.path) = [runtime |-> r, retired |-> SoFar(top), taken |-> Len(top.path)]
  <2>1. here.runtime = top.runtime
    OBVIOUS
  <2>2. Onward(here, top.path) = [here EXCEPT !.runtime.pending = FALSE]
    BY <1>1, <2>1, Zenon DEF Onward
  <2> QED
    BY <2>2
<1> HIDE DEF s, r
<1>6. 2 * SoFar(top) + 0 + 1 <= 2 * (top.before + s.retired) + 1
  BY <1>4
<1> QED
  BY <1>1, <1>2, <1>3, <1>4, <1>5, <1>6, TakenReplays

\* Where the first call is entered, the guest is the one that runs alone.
LEMMA EnterReplays == ASSUME IInv, IInv', Replays, Enter PROVE Replays'
<1>1. stack # <<>> /\ top.at = "enter" /\ UNCHANGED <<program, options>>
  BY DEF Enter
<1>2. /\ top \in Visit /\ CallInv(top, options, Len(nodes)) /\ options.probe \in BOOLEAN
      /\ top.depth = Len(stack) - 1 /\ Len(top.path) = Len(stack) - 1
      /\ Len(stack) \in Nat \ {0} /\ DOMAIN stack = 1 .. Len(stack)
  BY <1>1, TopParts DEF IInv, TypeOK, Options
<1>3. CallReplays(top)
  <2>1. Len(stack) \in Nat \ {0} /\ DOMAIN stack = 1 .. Len(stack)
    BY <1>2
  <2>2. Len(stack) \in DOMAIN stack
    BY <2>1
  <2> QED
    BY <2>2 DEF Replays, top
<1>4. CASE LimitReached = "completed"
  <2> DEFINE b == Probing(top.runtime.bus, options.probe)
             r == [top.runtime EXCEPT !.bus = b]
             c == [top EXCEPT !.at = "run", !.budget = SegmentBudget, !.runtime = r]
  <2>1. stack' = Append(Below, c) /\ UNCHANGED report
    BY <1>4 DEF Enter, Proceed
  <2>2. top.runtime \in Runtime /\ top.runtime.bus \in Bus
    BY <1>2 DEF Visit, Runtime
  <2>3. /\ c.at = "run" /\ c.runtime = r /\ c.segment = top.segment /\ c.before = top.before
        /\ c.path = top.path /\ c.depth = top.depth /\ c.parent = top.parent
        /\ c.fallback = top.fallback
    BY <1>2 DEF Visit
  <2>4. /\ top.segment = NewSegment /\ NewSegment.retired = 0 /\ NewSegment.stop = "none"
        /\ top.depth = 0 => top.runtime = Created
    BY <1>1, <1>2 DEF CallInv, NewSegment
  <2>5. r.cpu = top.runtime.cpu /\ r.pending = top.runtime.pending
    BY <2>2 DEF Runtime
  <2>6. Slack(c) = Slack(top) /\ SoFar(c) = SoFar(top)
    BY <2>3, <2>5 DEF Slack, SoFar, Entering, AtBios
  <2>7. Attains(r, SoFar(top), top.path, 2 * (SoFar(top) + Len(top.path)) + Slack(top))
    <3>1. CASE top.depth = 0
      <4>1. top.runtime = Created /\ top.before = 0 /\ Len(top.path) = 0 /\ SoFar(top) = 0
        <5>1. Len(top.path) = 0
          BY <1>2, <3>1
        <5>2. top.before = 0
          BY <1>3, <3>1 DEF CallReplays
        <5>3. top.segment.retired = 0 /\ top.runtime = Created
          BY <2>4, <3>1
        <5> QED
          BY <5>1, <5>2, <5>3 DEF SoFar
      <4>2. [runtime |-> r, retired |-> 0, taken |-> 0] = Alone
        BY <4>1 DEF Alone
      <4>3. ~AtBios(Created)
        BY DEF AtBios, Created, Tables, A0, B0, C0
      <4>4. Slack(top) = 0
        BY <2>4, <4>1, <4>3 DEF Slack, Entering
      <4> DEFINE w == [j \in 0 .. 0 |-> Alone]
      <4>5. Walks(w, 0, top.path) /\ w[0] = Alone
        BY DEF Walks
      <4> HIDE DEF w, r
      <4>6. Attains(r, 0, top.path, 0)
        BY <4>1, <4>2, <4>5 DEF Attains
      <4> QED
        BY <4>1, <4>4, <4>6
    <3>2. CASE top.depth # 0
      <4>1. top.runtime.bus.probing = options.probe
        BY <1>2, <3>2 DEF CallInv
      <4>2. b = top.runtime.bus
        BY <1>2, <2>2, <4>1, ProbingType
      <4>3. r = top.runtime
        BY <2>2, <4>2 DEF Runtime
      <4> QED
        BY <1>1, <1>3, <3>2, <4>3 DEF CallReplays, Lost
    <3> QED
      BY <3>1, <3>2
  <2>8. PathOf(c) = PathOf(top)
    BY <2>3 DEF PathOf, Onto
  <2> HIDE DEF b, r, c
  <2>9. CallReplays(c)
    BY <1>1, <1>3, <2>3, <2>6, <2>7, <2>8 DEF CallReplays
  <2>10. c \in Visit
    BY <1>1, <2>1, AppendVisit
  <2> QED
    BY <1>1, <2>1, <2>9, <2>10, ProceedReplays DEF nodes
<1>5. CASE LimitReached # "completed"
  <2>1. report' = [report EXCEPT !.termination = LimitReached] /\ stack' = Below
    BY <1>5 DEF Enter
  <2>2. nodes' = nodes
    BY <2>1, SameReport DEF LimitReached, Reasons
  <2> QED
    BY <1>1, <2>1, <2>2, PopReplays
<1> QED
  BY <1>4, <1>5

LEMMA RecordReplays == ASSUME IInv, IInv', Replays, Record PROVE Replays'
<1> DEFINE N == Len(nodes)
           P == Len(stack)
<1>1. /\ stack # <<>> /\ top.at = "run" /\ top.segment.stop # "none"
      /\ DOMAIN nodes' = 1 .. N + 1 /\ N \in Nat /\ nodes'[N + 1] = NewNode
      /\ \A i \in 1 .. N : nodes'[i] = nodes[i]
      /\ UNCHANGED <<program, options>>
      /\ IF Leaves THEN stack' = Below
         ELSE stack' = Append(Below, [top EXCEPT !.at = "branch", !.node = Len(nodes) + 1,
                                                 !.deps = AllDeps])
  BY RecordParts
<1>2. DOMAIN nodes = 1 .. N
  BY NodeMore
<1>3. /\ \A i \in 1 .. N : PathTo(i)' = PathTo(i)
      /\ \A i : i = N + 1 => PathTo(i)' = PathOf(top)
  BY RecordPaths
<1>4. /\ P \in Nat \ {0} /\ DOMAIN stack = 1 .. P /\ top \in Visit /\ stack[P] = top
      /\ Len(top.path) \in Nat
      /\ \A p \in 1 .. P - 1 :
            /\ stack[p].at = "branch" /\ stack[p].node \in 1 .. N
  <2>1. /\ P \in Nat \ {0} /\ DOMAIN stack = 1 .. P /\ top \in Visit
    BY <1>1, TopParts
  <2>2. Len(top.path) \in Nat
    BY <2>1 DEF Visit
  <2>3. \A p \in 1 .. P - 1 : stack[p].at = "branch" /\ stack[p].node \in 1 .. N
    BY <1>1, <2>1, Branches
  <2> QED
    BY <2>1, <2>2, <2>3 DEF top
<1>5. CallReplays(top) /\ top.segment.retired \in Nat /\ top.before \in Nat
  <2>1. P \in DOMAIN stack
    BY <1>4
  <2> QED
    BY <1>4, <2>1 DEF Replays, Visit, Segment
<1>6. /\ NewNode.cumulative = SoFar(top) /\ NewNode.state = DiagnosticState(top.runtime)
      /\ SoFar(top) \in Nat
  BY <1>5 DEF NewNode, Summary, SoFar
<1>7. /\ Attains(top.runtime, SoFar(top), top.path, 2 * (SoFar(top) + Len(top.path)) + Slack(top))
      /\ top.path = PathOf(top) /\ Slack(top) = 1
  BY <1>1, <1>5 DEF CallReplays, Slack, Lost
<1> HIDE DEF N, P
<1>8. ASSUME NEW i \in DOMAIN nodes' PROVE NodeReplays(i)'
  <2>1. CASE i = N + 1
    <3>1. PathTo(i)' = top.path /\ nodes'[i] = NewNode
      BY <1>1, <1>3, <1>7, <2>1
    <3> DEFINE l == 2 * (SoFar(top) + Len(top.path)) + 2
               m == 2 * (SoFar(top) + Len(top.path)) + Slack(top)
    <3>2. l \in Int /\ m \in Int /\ m <= l
      BY <1>4, <1>6, <1>7
    <3>3. Attains(top.runtime, SoFar(top), top.path, m)
      BY <1>7
    <3> HIDE DEF l, m
    <3>4. Attains(top.runtime, SoFar(top), top.path, l)
      BY <3>2, <3>3, AttainsWithin
    <3>5. PICK r, n, path, k : /\ r = top.runtime /\ n = SoFar(top) /\ path = top.path /\ k = l
                               /\ Attains(r, n, path, k)
      BY <3>4
    <3>6. Attains(r, n, path, k)'
      BY <1>1, <3>5, SameAttains
    <3>7. /\ nodes'[i].cumulative = n /\ PathTo(i)' = path /\ k = 2 * (n + Len(path)) + 2
          /\ nodes'[i].state = DiagnosticState(r) /\ Len(path) \in Nat
      BY <1>4, <1>6, <3>1, <3>5 DEF l
    <3> QED
      BY <3>6, <3>7 DEF NodeReplays, Attains
  <2>2. CASE i # N + 1
    <3>1. i \in 1 .. N /\ i \in DOMAIN nodes
      BY <1>1, <1>2, <2>2
    <3>2. NodeReplays(i) /\ PathTo(i)' = PathTo(i) /\ nodes'[i] = nodes[i]
      BY <1>1, <1>3, <3>1 DEF Replays
    <3>3. PICK r, n, path, k : /\ n = nodes[i].cumulative /\ path = PathTo(i)
                               /\ k = 2 * (n + Len(path)) + 2 /\ Len(path) \in Nat
                               /\ nodes[i].state = DiagnosticState(r) /\ Attains(r, n, path, k)
      BY <3>2 DEF NodeReplays
    <3>4. Attains(r, n, path, k)'
      BY <1>1, <3>3, SameAttains
    <3> QED
      BY <3>2, <3>3, <3>4 DEF NodeReplays, Attains
  <2> QED
    BY <2>1, <2>2
<1>9. ASSUME NEW d, CallReplays(d), d.at = "branch", d.node \in 1 .. N PROVE CallReplays(d)'
  <2>1. PathTo(d.node)' = PathTo(d.node) /\ nodes'[d.node] = nodes[d.node]
    BY <1>1, <1>3, <1>9
  <2> QED
    BY <1>1, <1>9, <2>1, SameAttains DEF CallReplays
<1>10. ASSUME NEW p \in 1 .. P - 1, stack'[p] = stack[p] PROVE CallReplays(stack[p])'
  <2>1. p \in DOMAIN stack
    BY <1>4
  <2>2. PICK d : d = stack[p] /\ CallReplays(d) /\ d.at = "branch" /\ d.node \in 1 .. N
    BY <1>4, <2>1 DEF Replays
  <2>3. CallReplays(d)'
    BY <1>9, <2>2
  <2> QED
    BY <1>10, <2>2, <2>3 DEF CallReplays, PathOf, PathTo
<1>11. CASE Leaves
  <2>1. DOMAIN stack' = 1 .. P - 1 /\ \A p \in 1 .. P - 1 : stack'[p] = stack[p]
    BY <1>1, <1>11, PopPlaces DEF P
  <2> QED
    BY <1>8, <1>10, <2>1 DEF Replays
<1>12. CASE ~Leaves
  <2> DEFINE c == [top EXCEPT !.at = "branch", !.node = N + 1, !.deps = AllDeps]
  <2>1. stack' = Append(Below, c)
    BY <1>1, <1>12 DEF N
  <2>2. /\ c.at = "branch" /\ c.node = N + 1 /\ c.runtime = top.runtime
        /\ c.segment = top.segment /\ c.before = top.before /\ c.path = top.path
        /\ c.depth = top.depth
    BY <1>4 DEF Visit
  <2> HIDE DEF c
  <2>3. c \in Visit
    BY <1>1, <2>1, AppendVisit
  <2>4. /\ DOMAIN stack' = 1 .. P /\ stack'[P] = c
        /\ \A p \in 1 .. P - 1 : stack'[p] = stack[p]
    BY <1>1, <2>1, <2>3, ProceedPlaces DEF P
  <2>5. \E d : d = c /\ CallReplays(d)'
    <3>1. /\ c.path = PathOf(top) /\ SoFar(c) = SoFar(top) /\ Slack(c) = Slack(top)
      BY <1>7, <2>2 DEF SoFar, Slack
    <3>2. \A i : i = N + 1 => /\ PathTo(i)' = c.path /\ nodes'[i].cumulative = SoFar(c)
                              /\ nodes'[i].state = DiagnosticState(c.runtime)
      BY <1>1, <1>3, <1>6, <2>2, <3>1
    <3>3. PICK d : d = c
      OBVIOUS
    <3>4. Attains(d.runtime, SoFar(d), d.path, 2 * (SoFar(d) + Len(d.path)) + Slack(d))
      BY <1>7, <2>2, <3>1, <3>3
    <3>5. d.at = "branch" /\ (d.depth = 0 => d.before = 0)
      BY <1>5, <2>2, <3>3 DEF CallReplays
    <3>6. /\ PathTo(d.node)' = d.path /\ nodes'[d.node].cumulative = SoFar(d)
          /\ nodes'[d.node].state = DiagnosticState(d.runtime)
      BY <2>2, <3>2, <3>3
    <3>7. CallReplays(d)'
      BY <1>1, <3>4, <3>5, <3>6, SameAttains DEF CallReplays
    <3> QED
      BY <3>3, <3>7
  <2>6. ASSUME NEW p \in 1 .. P PROVE CallReplays(stack[p])'
    <3>1. CASE p = P
      <4>1. PICK d : d = stack'[p] /\ CallReplays(d)'
        BY <2>4, <2>5, <3>1
      <4> QED
        BY <4>1 DEF CallReplays, PathOf, PathTo
    <3>2. CASE p # P
      <4>1. p \in 1 .. P - 1
        BY <1>4, <3>2
      <4> QED
        BY <1>10, <2>4, <4>1
    <3> QED
      BY <3>1, <3>2
  <2> QED
    BY <1>8, <2>4, <2>6 DEF Replays
<1> QED
  BY <1>11, <1>12

\* A child's guest is the waiting one, with the decision taken.
LEMMA BranchReplays == ASSUME IInv, IInv', Replays, Branch PROVE Replays'
<1> DEFINE child == WithFallback(top.runtime, policy)
           one == [top EXCEPT !.tried = top.tried + 1]
           longer == Append(top.path, <<Frontier(top.runtime.cpu), policy>>)
           two == Call(child, top.depth + 1, top.node, policy, nodes[top.node].cumulative,
                       longer, top.deps)
           N == Len(stack)
           m == 2 * (SoFar(top) + Len(top.path)) + 1
<1>1. /\ stack # <<>> /\ top.at = "branch" /\ policy \in ToSet(Policies)
      /\ UNCHANGED <<program, options, nodes>>
      /\ stack' \in Seq(Visit) /\ Len(stack') = N + 1
      /\ stack'[N] = one /\ stack'[N + 1] = two
      /\ \A i \in 1 .. N - 1 : stack'[i] = stack[i]
  BY BranchParts
<1>2. /\ N \in Nat \ {0} /\ DOMAIN stack = 1 .. N /\ top \in Visit
      /\ CallInv(top, options, Len(nodes))
  BY <1>1, TopParts
<1>3. CallReplays(top)
  <2>1. N \in DOMAIN stack
    BY <1>2
  <2> QED
    BY <2>1 DEF Replays, top
<1>4. /\ top.runtime \in Runtime /\ top.path \in Seq(Decision) /\ top.depth \in Nat
      /\ top.before \in Nat /\ top.segment \in Segment
      /\ HasFrontier(top) /\ Waits(top.runtime)
      /\ top.node \in 1 .. Len(nodes)
  BY <1>1, <1>2 DEF Visit, CallInv, Waits
<1>5. top.segment.retired \in Nat /\ SoFar(top) \in Nat
  BY <1>4 DEF Segment, SoFar
<1>6. Slack(top) = 1
  BY <1>4 DEF Slack, HasFrontier
<1>7. /\ Attains(top.runtime, SoFar(top), top.path, m)
      /\ top.path = PathTo(top.node) /\ nodes[top.node].cumulative = SoFar(top)
      /\ nodes[top.node].state = DiagnosticState(top.runtime)
  BY <1>1, <1>3, <1>6 DEF CallReplays, Lost
<1>8. /\ Len(top.path) \in Nat /\ Len(longer) = Len(top.path) + 1
      /\ \A i \in 1 .. Len(top.path) : longer[i] = top.path[i]
      /\ longer[Len(top.path) + 1] = <<Frontier(top.runtime.cpu), policy>>
  <2>1. Frontier(top.runtime.cpu) \in Tables \X Int
    BY <1>4 DEF Waits, AtBios, Frontier, Runtime, Cpu
  <2>2. <<Frontier(top.runtime.cpu), policy>> \in Decision
    BY <1>1, <2>1 DEF Decision
  <2> QED
    BY <1>4, <2>2, AppendParts
<1>9. m \in Int
  BY <1>5, <1>8
<1> HIDE DEF child, one, longer, m
<1>10. Attains(child, SoFar(top), longer, m + 1)
  BY <1>4, <1>7, <1>8, <1>9, Decided DEF child
<1>11. ~Entering(child)
  BY <1>1, <1>4, FallbackType DEF child, Entering
<1>12. /\ two.at = "enter" /\ two.runtime = child /\ two.depth = top.depth + 1
       /\ two.parent = top.node /\ two.fallback = policy /\ two.path = longer
       /\ two.before = SoFar(top) /\ two.segment.retired = 0 /\ two.segment.stop = "none"
  BY <1>7 DEF Call, NewSegment
<1>13. /\ one.at = "branch" /\ one.runtime = top.runtime /\ one.depth = top.depth
       /\ one.before = top.before /\ one.path = top.path /\ one.segment = top.segment
       /\ one.node = top.node
  BY <1>1, <1>2 DEF Visit, one
<1> HIDE DEF two
<1>14. PathOf(two) = longer
  <2>1. two.parent # NoParent
    BY <1>4, <1>12 DEF NoParent
  <2>2. FrontierOf(nodes[top.node]) = Frontier(top.runtime.cpu)
    BY <1>7 DEF FrontierOf, DiagnosticState
  <2> QED
    BY <1>7, <1>12, <2>1, <2>2 DEF PathOf, Onto, PathTo, longer
<1>15. SoFar(two) = SoFar(top) /\ Slack(two) = 0
  BY <1>5, <1>11, <1>12 DEF SoFar, Slack
<1>16. m + 1 = 2 * (SoFar(two) + Len(two.path)) + Slack(two)
  BY <1>5, <1>8, <1>12, <1>15 DEF m
<1>17. CallReplays(two)
  <2>1. two.depth # 0
    BY <1>4, <1>12
  <2>2. Attains(two.runtime, SoFar(two), two.path, 2 * (SoFar(two) + Len(two.path)) + Slack(two))
    BY <1>10, <1>12, <1>15, <1>16
  <2> QED
    BY <1>12, <1>14, <2>1, <2>2 DEF CallReplays
<1>18. SoFar(one) = SoFar(top) /\ Slack(one) = Slack(top)
  BY <1>13 DEF SoFar, Slack
<1>19. CallReplays(one)
  BY <1>1, <1>3, <1>13, <1>18 DEF CallReplays, Lost
<1>20. ASSUME NEW p \in DOMAIN stack' PROVE \E d : d = stack'[p] /\ CallReplays(d)
  <2>1. p \in 1 .. N + 1
    BY <1>1, <1>20
  <2> HIDE DEF N
  <2>2. CASE p = N
    BY <1>1, <1>19, <2>2
  <2>3. CASE p = N + 1
    BY <1>1, <1>17, <2>3
  <2>4. CASE p # N /\ p # N + 1
    <3>1. p \in 1 .. N - 1 /\ p \in DOMAIN stack
      BY <1>2, <2>1, <2>4
    <3> QED
      BY <1>1, <3>1 DEF Replays
  <2> QED
    BY <2>2, <2>3, <2>4
<1>21. ASSUME NEW p \in DOMAIN stack' PROVE CallReplays(stack[p])'
  <2>1. PICK d : d = stack'[p] /\ CallReplays(d)
    BY <1>20
  <2>2. CallReplays(d)'
    BY <1>1, <2>1, KeepReplays
  <2> QED
    BY <2>1, <2>2 DEF CallReplays, PathOf
<1>22. \A i \in DOMAIN nodes' : NodeReplays(i)'
  BY <1>1, KeepReplays DEF Replays
<1> QED
  BY <1>21, <1>22 DEF Replays

LEMMA BackReplays == ASSUME IInv, Replays, BranchLimited \/ Return PROVE Replays'
<1>1. stack # <<>> /\ UNCHANGED <<program, options>> /\ stack' = Below
  BY DEF BranchLimited, Return, Branching
<1>2. nodes' = nodes
  BY SameReport DEF BranchLimited, Return, LimitReached, Reasons
<1> QED
  BY <1>1, <1>2, PopReplays

LEMMA StepReplays == IInv /\ Replays /\ [Next]_vars => Replays'
<1> SUFFICES ASSUME IInv, Replays, [Next]_vars PROVE Replays'
  OBVIOUS
<1>1. IInv'
  BY StepInv
<1>2. CASE Enter \/ Record \/ Branch \/ BranchLimited \/ Return
  BY <1>1, <1>2, EnterReplays, RecordReplays, BranchReplays, BackReplays
<1>3. CASE BudgetExhausted \/ BiosCall \/ BiosFrontier \/ Retire \/ Boundary
  BY <1>1, <1>3, BudgetReplays, BiosCallReplays, BiosFrontierReplays, RetireReplays,
     BoundaryReplays
<1>4. CASE UNCHANGED vars
  <2>1. UNCHANGED <<program, options, nodes, stack>>
    BY <1>4 DEF vars, nodes
  <2>2. ASSUME NEW p \in DOMAIN stack' PROVE CallReplays(stack[p])'
    <3>1. PICK d : d = stack'[p] /\ CallReplays(d)
      BY <2>1 DEF Replays
    <3>2. CallReplays(d)'
      BY <2>1, <3>1, KeepReplays
    <3> QED
      BY <3>1, <3>2 DEF CallReplays, PathOf
  <2>3. \A i \in DOMAIN nodes' : NodeReplays(i)'
    BY <2>1, KeepReplays DEF Replays
  <2> QED
    BY <2>2, <2>3 DEF Replays
<1> QED
  BY <1>2, <1>3, <1>4 DEF Next

LEMMA InitialReplays == Init => Replays
<1> SUFFICES ASSUME Init PROVE Replays
  OBVIOUS
<1>1. nodes = <<>> /\ DOMAIN nodes = {}
  BY DEF Init, nodes
<1>2. DOMAIN stack = {1}
  BY DEF Init, Call
<1>3. /\ stack[1].at = "enter" /\ stack[1].depth = 0 /\ stack[1].before = 0
      /\ stack[1].runtime = Created /\ stack[1].path = <<>> /\ stack[1].parent = NoParent
  BY DEF Init, Call
<1>4. PathOf(stack[1]) = <<>>
  BY <1>3 DEF PathOf, Onto
<1>5. CallReplays(stack[1])
  BY <1>3, <1>4 DEF CallReplays
<1> QED
  BY <1>1, <1>2, <1>5 DEF Replays

\* NodesReplay: what a node reports, a guest comes by that runs alone from the start and
\* is given the node's decisions, so a branch sees nothing of those explored before it.
THEOREM NodesComeAlone == Spec => []NodesReplay
<1>1. ASSUME IInv, Replays PROVE NodesReplay
  <2> SUFFICES ASSUME nodes # <<>> PROVE ComesBy(Last(nodes), PathTo(Len(nodes)))
    BY DEF NodesReplay
  <2> DEFINE n == Last(nodes)
             path == PathTo(Len(nodes))
  <2>1. nodes \in Seq(Node)
    BY <1>1 DEF IInv, TypeOK, nodes
  <2>2. Len(nodes) \in DOMAIN nodes /\ n = nodes[Len(nodes)] /\ n \in Node
    BY <2>1 DEF Last
  <2>3. NodeReplays(Len(nodes)) /\ n.cumulative \in Nat
    BY <1>1, <2>2 DEF Replays, Node
  <2>4. PICK r : /\ Len(path) \in Nat /\ n.state = DiagnosticState(r)
                 /\ Attains(r, n.cumulative, path, 2 * (n.cumulative + Len(path)) + 2)
    BY <2>2, <2>3 DEF NodeReplays
  <2> HIDE DEF n, path
  <2>5. ComesBy(n, path)
    BY <2>3, <2>4, ComesByAttains
  <2> QED
    BY <2>5 DEF n, path
<1>2. IInv /\ Replays /\ [Next]_vars => IInv' /\ Replays'
  BY StepInv, StepReplays
<1> QED
  BY <1>1, <1>2, InitialInv, InitialReplays, PTL DEF Spec

-----------------------------------------------------------------------------
(* Why the search comes to an end                                          *)

\* What is left to do, the first before the next: nodes to report; where the
\* innermost call is, of what one call goes through between two nodes; the turns
\* its segment has left, or the calls that are to return; the table entries it may
\* still be at before it turns to the guest or stops.
NodesLeft == options.max_nodes - Len(nodes)
Stage ==
    IF stack = <<>> THEN 0
    ELSE IF top.at = "enter" THEN 2
    ELSE IF top.at = "run" THEN 1
    ELSE IF report.termination = "completed" THEN 3 ELSE 0
Inside == stack # <<>> /\ top.at = "run"
TurnsLeft ==
    IF ~Inside THEN Len(stack)
    ELSE IF top.segment.stop = "none" THEN 1 + top.budget - top.segment.retired ELSE 0
Entries(r) == IF ~AtBios(r) THEN 0 ELSE IF Handled(r.cpu) THEN 2 ELSE 1
EntriesLeft == IF Inside THEN Entries(top.runtime) ELSE 0

\* Less is left: lexicographically, in numbers that are never negative.
RunsDown ==
    \/ NodesLeft' < NodesLeft
    \/ /\ NodesLeft' = NodesLeft
       /\ \/ Stage' < Stage
          \/ /\ Stage' = Stage
             /\ \/ TurnsLeft' < TurnsLeft
                \/ TurnsLeft' = TurnsLeft /\ EntriesLeft' < EntriesLeft
LeftIsCounted == {NodesLeft, Stage, TurnsLeft, EntriesLeft} \subseteq Nat

LEMMA Counted4 == ASSUME IInv, Work PROVE LeftIsCounted
<1>1. NodesLeft \in Nat
  <2>1. options.max_nodes \in Nat /\ Len(nodes) \in Nat /\ Len(nodes) <= options.max_nodes
    BY DEF IInv, TypeOK, Options, nodes, Work
  <2> QED BY <2>1 DEF NodesLeft
<1>2. Stage \in Nat /\ EntriesLeft \in Nat
  BY DEF Stage, EntriesLeft, Entries
<1>3. TurnsLeft \in Nat
  <2>1. CASE ~Inside
    <3>1. stack \in Seq(Visit)
      BY DEF IInv, TypeOK
    <3> QED BY <2>1, <3>1 DEF TurnsLeft
  <2>2. CASE Inside
    <3>1. top \in Visit /\ CallInv(top, options, Len(nodes)) /\ top.at = "run"
      BY <2>2, TopParts DEF Inside
    <3>2. top.budget \in Nat /\ top.segment.retired \in Nat /\ top.segment.retired <= top.budget
      BY <3>1 DEF Visit, Segment, CallInv
    <3> QED BY <2>2, <3>2 DEF TurnsLeft
  <2> QED BY <2>1, <2>2
<1> QED BY <1>1, <1>2, <1>3 DEF LeftIsCounted

\* A turn leaves the innermost call with one instruction less, at its end, or
\* behind a call of the BIOS.
LEMMA TurnRuns ==
    ASSUME IInv, Running, NEW r \in Runtime, NEW s \in Segment, Turn(r, s),
           \/ s.stop # "none"
           \/ s.retired = top.segment.retired + 1
           \/ s.retired = top.segment.retired /\ Entries(r) < Entries(top.runtime)
    PROVE  RunsDown
<1> DEFINE c == [top EXCEPT !.runtime = r, !.segment = s]
<1>1. stack # <<>> /\ top.at = "run" /\ top \in Visit /\ top.segment.stop = "none"
  BY TopParts DEF Running
<1>2. c \in Visit /\ c.at = "run" /\ c.runtime = r /\ c.segment = s /\ c.budget = top.budget
  BY <1>1 DEF Visit
<1>3. stack' = Append(Below, c) /\ UNCHANGED <<program, options, report>>
  BY DEF Turn, Proceed
<1> HIDE DEF c
<1>4. stack' # <<>> /\ top' = c
  BY <1>1, <1>2, <1>3, ProceedTop
<1>5. NodesLeft' = NodesLeft /\ Stage' = 1 /\ Stage = 1
  BY <1>1, <1>2, <1>3, <1>4 DEF NodesLeft, nodes, Stage
<1>6. top.budget \in Nat /\ top.segment.retired \in Nat /\ top.segment.retired <= top.budget
  BY RunningParts
<1>7. /\ TurnsLeft = 1 + top.budget - top.segment.retired
      /\ TurnsLeft' = IF s.stop = "none" THEN 1 + top.budget - s.retired ELSE 0
  BY <1>1, <1>2, <1>4 DEF TurnsLeft, Inside
<1>8. EntriesLeft = Entries(top.runtime) /\ EntriesLeft' = Entries(r)
  <2>1. Inside /\ Inside'
    BY <1>1, <1>2, <1>4 DEF Inside
  <2>2. Entries(top.runtime)' = Entries(c.runtime)
    BY <1>4 DEF Entries, AtBios, Handled, InitHeap, RemoveIso9660, HookEntryInt, ChangeClearPad,
              ChangeClearRCnt
  <2> QED BY <1>2, <2>1, <2>2 DEF EntriesLeft
<1>9. s.retired \in Nat
  BY DEF Segment
<1> QED BY <1>5, <1>6, <1>7, <1>8, <1>9 DEF RunsDown

\* A call that goes to another table's entry is not handled there: no service is
\* found at two.
LEMMA EntriesFall ==
    ASSUME NEW r \in Runtime, Entering(r)
    PROVE  Entries(AfterHandled(r)) < Entries(r)
<1> DEFINE a == AfterHandled(r)
<1>1. AtBios(r) /\ Handled(r.cpu) /\ r.cpu.ra # r.cpu.pc
  BY DEF Entering
<1>2. a.cpu.pc # r.cpu.pc /\ a.cpu.t1 = r.cpu.t1
  BY <1>1, HandledType
<1> HIDE DEF a
<1>3. ~Handled(a.cpu)
  BY <1>1, <1>2 DEF Handled, InitHeap, RemoveIso9660, HookEntryInt, ChangeClearPad, ChangeClearRCnt,
                    A0, B0, C0
<1>4. Entries(r) = 2 /\ Entries(a) \in {0, 1}
  BY <1>1, <1>3 DEF Entries
<1> QED BY <1>4 DEF a

\* A turn lowers what is left, or leaves the segment with the call that returns to itself.
LEMMA TurnsRunDown ==
    ASSUME IInv, BudgetExhausted \/ BiosCall \/ BiosFrontier \/ Retire \/ Boundary
    PROVE  RunsDown \/ (Spinning /\ Spinning')
<1>1. Running
  BY DEF BudgetExhausted, BiosCall, BiosFrontier, Retire, Boundary
<1>2. /\ top.runtime \in Runtime /\ top.segment \in Segment
      /\ SegmentInv(top.segment, options) /\ options \in Options
  BY <1>1, RunningParts
<1>3. CASE BudgetExhausted
  <2> DEFINE s == [top.segment EXCEPT !.stop = "execution_budget_exhausted"]
  <2>1. s \in Segment /\ s.stop = "execution_budget_exhausted" /\ Turn(top.runtime, s)
    BY <1>2, <1>3 DEF Segment, StopReasons, BudgetExhausted
  <2> HIDE DEF s
  <2> QED BY <1>1, <1>2, <2>1, TurnRuns
<1>4. CASE BiosCall
  <2> DEFINE s == Called(top.segment, top.runtime.cpu)
             r == AfterHandled(top.runtime)
  <2>1. InBudget /\ AtBios(top.runtime) /\ Handled(top.runtime.cpu) /\ Turn(r, s)
    BY <1>4 DEF BiosCall
  <2>2. SegmentInv(s, options) /\ s.retired = top.segment.retired /\ s.stop = "none"
    BY <1>1, <1>2, <2>1, CalledInv DEF Running
  <2>3. r \in Runtime
    BY <1>1, <1>2, <2>1, RunningParts, HandledType
  <2>4. s \in Segment
    BY <2>2 DEF SegmentInv
  <2>5. CASE Trapped(top.runtime)
    <3> DEFINE c == [top EXCEPT !.runtime = r, !.segment = s]
    <3>1. Trapped(r)
      BY <1>2, <2>5, TrappedStays
    <3>2. stack # <<>> /\ top.at = "run" /\ top \in Visit
      BY <1>1, TopParts DEF Running
    <3>3. stack' = Append(Below, c)
      BY <2>1 DEF Turn, Proceed
    <3> HIDE DEF s, r
    <3>4. c \in Visit /\ c.at = "run" /\ c.runtime = r /\ c.segment = s /\ c.budget = top.budget
      BY <2>3, <2>4, <3>2 DEF Visit
    <3> HIDE DEF c
    <3>5. stack' # <<>> /\ top' = c
      BY <3>2, <3>3, <3>4, ProceedTop
    <3>6. Spinning'
      <4>1. Running' /\ InBudget'
        BY <2>1, <2>2, <3>4, <3>5 DEF Running, InBudget
      <4>2. /\ AtBios(top.runtime)' /\ Handled(top.runtime.cpu)'
            /\ (top.runtime.cpu.ra = top.runtime.cpu.pc)'
        BY <3>1, <3>4, <3>5 DEF Trapped, AtBios, Handled, InitHeap, RemoveIso9660, HookEntryInt,
                               ChangeClearPad, ChangeClearRCnt
      <4> QED BY <4>1, <4>2 DEF Spinning
    <3> QED BY <1>1, <2>1, <2>5, <3>6 DEF Spinning, Trapped
  <2>6. CASE ~Trapped(top.runtime)
    <3>1. Entries(r) < Entries(top.runtime)
      BY <1>2, <2>1, <2>6, EntriesFall DEF Entering, Trapped
    <3> HIDE DEF s, r
    <3> QED BY <1>1, <2>1, <2>2, <2>3, <2>4, <3>1, TurnRuns
  <2> QED BY <2>5, <2>6
<1>5. CASE BiosFrontier
  <2> DEFINE called == Called(top.segment, top.runtime.cpu)
             s == [called EXCEPT !.stop = "bios_call_unimplemented"]
             r == [top.runtime EXCEPT !.pending = TRUE]
  <2>1. AtBios(top.runtime) /\ ~Handled(top.runtime.cpu) /\ Turn(r, s)
    BY <1>5 DEF BiosFrontier
  <2>2. called \in Segment
    BY <1>1, <1>2, <2>1, CalledInv DEF SegmentInv
  <2> HIDE DEF called
  <2>3. s \in Segment /\ s.stop = "bios_call_unimplemented" /\ r \in Runtime
    BY <1>2, <2>2 DEF Segment, StopReasons, Runtime
  <2> HIDE DEF s, r
  <2> QED BY <1>1, <2>1, <2>3, TurnRuns
<1>6. CASE Retire
  <2> DEFINE after == Counted(top.segment, top.runtime, options.capacity)
             s == IF Stalled(after, options.stagnation)
                  THEN [after EXCEPT !.stop = "diagnostic_stall"] ELSE after
             r == Stepped(top.runtime)
  <2>1. InBudget /\ Retires(top.runtime) /\ Turn(r, s)
    BY <1>6 DEF Retire
  <2>2. /\ after.retired = top.segment.retired + 1
        /\ Stalled(after, options.stagnation) =>
              SegmentInv([after EXCEPT !.stop = "diagnostic_stall"], options)
        /\ ~Stalled(after, options.stagnation) => SegmentInv(after, options)
    BY <1>1, <1>2, <2>1, RunningParts, CountedInv DEF Running
  <2>3. r \in Runtime
    BY <1>1, <1>2, <2>1, RunningParts, SteppedType
  <2>4. s \in Segment
    BY <2>2 DEF SegmentInv
  <2>5. s.stop # "none" \/ s.retired = top.segment.retired + 1
    <3>1. CASE Stalled(after, options.stagnation)
      <4> DEFINE d == [after EXCEPT !.stop = "diagnostic_stall"]
      <4>1. d \in Segment /\ DOMAIN d = DOMAIN after
        BY <2>2, <3>1 DEF SegmentInv
      <4>2. d.stop = "diagnostic_stall"
        BY <4>1 DEF Segment
      <4>3. s = d
        BY <3>1
      <4> HIDE DEF s, d
      <4> QED BY <4>2, <4>3
    <3>2. CASE ~Stalled(after, options.stagnation)
      BY <2>2, <3>2
    <3> QED BY <3>1, <3>2
  <2> HIDE DEF s, r, after
  <2> QED BY <1>1, <2>1, <2>3, <2>4, <2>5, TurnRuns
<1>7. CASE Boundary
  <2> DEFINE s == [top.segment EXCEPT !.stop = BoundaryReason(top.runtime)]
             r == [top.runtime EXCEPT !.pending = FALSE]
  <2>1. Turn(r, s)
    BY <1>7 DEF Boundary
  <2>2. BoundaryReason(top.runtime) \in StopReasons \ {"none"}
    BY DEF BoundaryReason, StopReasons
  <2>3. s \in Segment /\ s.stop # "none" /\ r \in Runtime
    BY <1>2, <2>2 DEF Segment, Runtime
  <2> HIDE DEF s, r
  <2> QED BY <1>1, <2>1, <2>3, TurnRuns
<1> QED BY <1>3, <1>4, <1>5, <1>6, <1>7

\* A call returns, with the search at its end or to its caller's next answer.
LEMMA PopRuns ==
    ASSUME IInv, stack # <<>>, stack' = Below, NodesLeft' = NodesLeft, top.at # "run",
           \/ Stage \in {2, 3} /\ report'.termination # "completed"
           \/ top.at = "branch" /\ report' = report
    PROVE  RunsDown
<1>1. CASE stack' = <<>>
  <2>1. Stage' = 0 /\ Stage \in {0, 2, 3}
    BY <1>1, TopParts DEF Stage, Visit
  <2>2. TurnsLeft' = 0 /\ TurnsLeft \in Nat \ {0}
    BY <1>1, TopParts DEF TurnsLeft, Inside
  <2> QED BY <2>1, <2>2 DEF RunsDown
<1>2. CASE stack' # <<>>
  <2>1. Len(stack') = Len(stack) - 1 /\ top'.at = "branch" /\ Len(stack) \in Nat
    BY <1>2, PopTop, TopParts
  <2>2. Stage' = IF report'.termination = "completed" THEN 3 ELSE 0
    BY <1>2, <2>1 DEF Stage
  <2>3. TurnsLeft' = Len(stack) - 1 /\ TurnsLeft = Len(stack)
    BY <2>1 DEF TurnsLeft, Inside
  <2>4. CASE Stage \in {2, 3} /\ report'.termination # "completed"
    BY <2>2, <2>4 DEF RunsDown
  <2>5. CASE top.at = "branch" /\ report' = report
    <3>1. Stage' = Stage
      BY <2>2, <2>5 DEF Stage
    <3> QED BY <2>1, <2>3, <3>1 DEF RunsDown
  <2> QED BY <2>4, <2>5
<1> QED BY <1>1, <1>2

LEMMA StepRuns == ASSUME IInv, Work, Search, Next, IInv' PROVE RunsDown \/ (Spinning /\ Spinning')
<1>1. CASE BudgetExhausted \/ BiosCall \/ BiosFrontier \/ Retire \/ Boundary
  BY <1>1, TurnsRunDown
<1>2. CASE Record
  <2>1. Len(nodes') = Len(nodes) + 1 /\ options' = options /\ Len(nodes) \in Nat
    BY <1>2, RecordParts
  <2>2. options.max_nodes \in Nat
    BY DEF IInv, TypeOK, Options
  <2>3. NodesLeft' = options.max_nodes - (Len(nodes) + 1)
    BY <2>1 DEF NodesLeft, nodes
  <2> QED BY <2>1, <2>2, <2>3 DEF RunsDown, NodesLeft
<1>3. CASE Enter
  <2>1. stack # <<>> /\ top.at = "enter" /\ UNCHANGED options /\ Stage = 2
    BY <1>3 DEF Enter, Stage
  <2>2. CASE LimitReached = "completed"
    <3> DEFINE c == [top EXCEPT !.at = "run", !.budget = SegmentBudget,
                            !.runtime.bus = Probing(@, options.probe)]
    <3>1. stack' = Append(Below, c) /\ report' = report
      BY <1>3, <2>2 DEF Enter, Proceed
    <3>2. top \in Visit /\ Below \in Seq(Visit)
      BY <2>1, TopParts
    <3>6. c \in Visit
      <4>1. top.runtime \in Runtime /\ top.runtime.bus \in Bus /\ options.probe \in BOOLEAN
        BY <3>2 DEF Visit, Runtime, IInv, TypeOK, Options
      <4>2. Probing(top.runtime.bus, options.probe) \in Bus /\ SegmentBudget \in Nat
        BY <4>1, ProbingType, BudgetType
      <4> QED BY <3>2, <4>1, <4>2 DEF Visit, Runtime
    <3>3. c.at = "run"
      BY <3>2 DEF Visit
    <3> HIDE DEF c
    <3>4. stack' # <<>> /\ top' = c
      BY <2>1, <3>1, <3>2, <3>6, ProceedTop
    <3>5. Stage' = 1 /\ NodesLeft' = NodesLeft
      BY <2>1, <3>1, <3>3, <3>4 DEF Stage, NodesLeft, nodes
    <3> QED BY <2>1, <3>5 DEF RunsDown
  <2>3. CASE LimitReached # "completed"
    <3>1. report' = [report EXCEPT !.termination = LimitReached] /\ stack' = Below
      BY <1>3, <2>3 DEF Enter
    <3>2. nodes' = nodes /\ report'.termination = LimitReached
      BY <3>1 DEF IInv, TypeOK, nodes
    <3>3. NodesLeft' = NodesLeft
      BY <2>1, <3>2 DEF NodesLeft
    <3> QED BY <2>1, <2>3, <3>1, <3>2, <3>3, PopRuns
  <2> QED BY <2>2, <2>3
<1>4. CASE Branch
  <2>1. /\ stack # <<>> /\ top.at = "branch" /\ report.termination = "completed"
        /\ UNCHANGED <<options, report>>
    BY <1>4 DEF Branch, Branching
  <2>2. /\ Len(stack) \in Nat \ {0} /\ Len(stack') = Len(stack) + 1 /\ stack' \in Seq(Visit)
        /\ stack'[Len(stack) + 1].at = "enter"
    BY <1>4, <2>1, BranchParts, TopParts
  <2>3. stack' # <<>> /\ top'.at = "enter"
    BY <2>2 DEF top
  <2>4. Stage' = 2 /\ Stage = 3 /\ NodesLeft' = NodesLeft
    BY <2>1, <2>2, <2>3 DEF Stage, NodesLeft, nodes
  <2> QED BY <2>4 DEF RunsDown
<1>5. CASE BranchLimited
  <2>1. /\ stack # <<>> /\ top.at = "branch" /\ Stage = 3 /\ UNCHANGED options
        /\ report' = [report EXCEPT !.termination = LimitReached] /\ stack' = Below
        /\ LimitReached # "completed"
    BY <1>5 DEF BranchLimited, Branching, Stage
  <2>2. nodes' = nodes /\ report'.termination = LimitReached
    BY <2>1 DEF IInv, TypeOK, nodes
  <2>3. NodesLeft' = NodesLeft
    BY <2>1, <2>2 DEF NodesLeft
  <2> QED BY <2>1, <2>2, <2>3, PopRuns
<1>6. CASE Return
  <2>1. stack # <<>> /\ top.at = "branch" /\ stack' = Below /\ UNCHANGED <<options, report>>
    BY <1>6 DEF Return
  <2>2. NodesLeft' = NodesLeft
    BY <2>1 DEF NodesLeft, nodes
  <2> QED BY <2>1, <2>2, PopRuns
<1> QED BY <1>1, <1>2, <1>3, <1>4, <1>5, <1>6 DEF Next

\* A guest that calls no table with an entry in $ra has none there at any call.
Home(r) == r.cpu.ra \notin Tables
AllHome == Returning => \A i \in DOMAIN stack : Home(stack[i].runtime)

LEMMA LinkedHome ==
    ASSUME IInv, Returning, NEW r \in Runtime, Retires(r), Home(r)
    PROVE  Home(Stepped(r))
<1> DEFINE i == Fetched(r.cpu)
           after == r.cpu.pc + 1
<1>1. program \in Guest
  BY DEF IInv, TypeOK
<1>2. Fetched(r.cpu).op # "boundary"
  BY DEF Retires
<1>3. after \notin Tables /\ r.cpu.pc \in DOMAIN program /\ i = program[r.cpu.pc]
  BY <1>1, <1>2, FetchedType
<1>4. CASE Stepped(r).cpu.ra = r.cpu.ra
  BY <1>4 DEF Home
<1>5. CASE i.op = "call" /\ Stepped(r).cpu.ra = Linked(i, after)
  <2>1. i.link \cap Tables = {}
    BY <1>3, <1>5 DEF Returning
  <2> HIDE DEF i, after
  <2>2. Linked(i, after) \notin Tables
    <3>1. CASE i.link = Unset
      BY <1>3, <3>1 DEF Linked
    <3>2. CASE i.link # Unset
      <4>1. \E address \in i.link : TRUE
        BY <3>2 DEF Unset
      <4>2. (CHOOSE address \in i.link : TRUE) \in i.link
        BY <4>1
      <4> QED BY <2>1, <3>2, <4>2 DEF Linked
    <3> QED BY <3>1, <3>2
  <2> QED BY <1>5, <2>2 DEF Home
<1> QED BY <1>1, <1>4, <1>5, SteppedType

\* The innermost call goes on, with a runtime that has no entry there.
LEMMA ProceedHome ==
    ASSUME IInv, Returning, AllHome, stack # <<>>, NEW c \in Visit, stack' = Append(Below, c),
           Home(c.runtime)
    PROVE  AllHome'
<1>1. /\ Len(stack) \in Nat \ {0} /\ DOMAIN stack = 1 .. Len(stack)
      /\ DOMAIN stack' = 1 .. Len(stack) /\ stack'[Len(stack)] = c
      /\ \A i \in 1 .. Len(stack) - 1 : stack'[i] = stack[i]
  BY ProceedPlaces
<1>2. ASSUME NEW i \in DOMAIN stack' PROVE Home(stack'[i].runtime)
  <2>1. CASE i = Len(stack)
    BY <1>1, <2>1
  <2>2. CASE i # Len(stack)
    <3>1. i \in 1 .. Len(stack) - 1 /\ i \in DOMAIN stack
      <4>1. Len(stack) \in Nat /\ i \in 1 .. Len(stack) /\ DOMAIN stack = 1 .. Len(stack)
        BY <1>1
      <4> QED BY <2>2, <4>1
    <3> QED BY <1>1, <3>1 DEF AllHome
  <2> QED BY <2>1, <2>2
<1> QED BY <1>2 DEF AllHome, Home

LEMMA StepHome == IInv /\ IInv' /\ AllHome /\ [Next]_vars => AllHome'
<1> SUFFICES ASSUME IInv, IInv', AllHome, [Next]_vars PROVE AllHome'
  OBVIOUS
<1>1. program' = program
  <2>1. CASE Enter \/ Record \/ Branch \/ BranchLimited \/ Return
    BY <2>1, Zenon DEF Enter, Record, Branch, BranchLimited, Return
  <2>2. CASE BudgetExhausted \/ BiosCall \/ BiosFrontier \/ Retire \/ Boundary
    BY <2>2, Zenon DEF BudgetExhausted, BiosCall, BiosFrontier, Retire, Boundary, Turn
  <2>3. CASE UNCHANGED vars
    BY <2>3 DEF vars
  <2> QED BY <2>1, <2>2, <2>3 DEF Next
<1> SUFFICES ASSUME Returning PROVE AllHome'
  BY <1>1 DEF AllHome, Returning
<1>2. ASSUME stack # <<>> PROVE top \in Visit /\ top.runtime \in Runtime /\ Home(top.runtime)
  <2>1. top \in Visit /\ Len(stack) \in Nat \ {0} /\ DOMAIN stack = 1 .. Len(stack)
    BY <1>2, TopParts
  <2>2. Len(stack) \in DOMAIN stack
    BY <2>1
  <2> QED BY <2>1, <2>2 DEF AllHome, top, Visit
<1>3. ASSUME NEW r, NEW s, Running, Turn(r, s), Home(r) PROVE AllHome'
  <2> DEFINE c == [top EXCEPT !.runtime = r, !.segment = s]
  <2>1. stack # <<>> /\ stack' = Append(Below, c) /\ c.runtime = r
    BY <1>2, <1>3 DEF Running, Turn, Proceed, Visit
  <2> HIDE DEF c
  <2>2. c \in Visit
    BY <2>1, AppendVisit
  <2> QED BY <1>3, <2>1, <2>2, ProceedHome
<1>4. CASE BudgetExhausted \/ BiosFrontier \/ Boundary
  <2>1. Running /\ Home(top.runtime) /\ top.runtime \in Runtime
    BY <1>2, <1>4 DEF BudgetExhausted, BiosFrontier, Boundary, Running
  <2>2. \A b \in BOOLEAN : Home([top.runtime EXCEPT !.pending = b])
    BY <2>1 DEF Home, Runtime
  <2> QED BY <1>3, <1>4, <2>1, <2>2 DEF BudgetExhausted, BiosFrontier, Boundary
<1>5. CASE BiosCall
  <2>1. Running /\ Handled(top.runtime.cpu) /\ Home(top.runtime) /\ top.runtime \in Runtime
    BY <1>2, <1>5 DEF BiosCall, Running
  <2>2. Home(AfterHandled(top.runtime))
    BY <2>1, HandledType DEF Home
  <2> QED BY <1>3, <1>5, <2>1, <2>2 DEF BiosCall
<1>6. CASE Retire
  <2>1. Running /\ Retires(top.runtime) /\ Home(top.runtime) /\ top.runtime \in Runtime
    BY <1>2, <1>6 DEF Retire, Running
  <2>2. Home(Stepped(top.runtime))
    BY <2>1, LinkedHome
  <2> QED BY <1>3, <1>6, <2>1, <2>2 DEF Retire
<1>7. ASSUME stack # <<>>, stack' = Below PROVE AllHome'
  <2>1. /\ DOMAIN stack = 1 .. Len(stack) /\ DOMAIN stack' = 1 .. Len(stack) - 1
        /\ Len(stack) \in Nat /\ \A i \in 1 .. Len(stack) - 1 : stack'[i] = stack[i]
    BY <1>7, PopPlaces
  <2>2. \A i \in DOMAIN stack' : i \in DOMAIN stack /\ stack'[i] = stack[i]
    BY <2>1
  <2> QED BY <2>2 DEF AllHome, Home
<1>8. ASSUME stack # <<>>, NEW c, stack' = Append(Below, c), c.runtime.cpu = top.runtime.cpu
      PROVE  AllHome'
  <2>1. c \in Visit /\ Home(c.runtime)
    BY <1>2, <1>8, AppendVisit DEF Home
  <2> QED BY <1>8, <2>1, ProceedHome
<1>9. CASE Enter
  <2>1. stack # <<>>
    BY <1>9 DEF Enter
  <2>2. CASE LimitReached = "completed"
    <3> DEFINE c == [top EXCEPT !.at = "run", !.budget = SegmentBudget,
                                !.runtime.bus = Probing(@, options.probe)]
    <3>1. stack' = Append(Below, c)
      BY <1>9, <2>2 DEF Enter, Proceed
    <3>2. c.runtime.cpu = top.runtime.cpu
      BY <1>2, <2>1 DEF Visit, Runtime
    <3> HIDE DEF c
    <3> QED BY <1>8, <2>1, <3>1, <3>2
  <2>3. CASE LimitReached # "completed"
    BY <1>7, <1>9, <2>1, <2>3 DEF Enter
  <2> QED BY <2>2, <2>3
<1>10. CASE Record
  <2>1. /\ stack # <<>>
        /\ IF Leaves THEN stack' = Below
           ELSE stack' = Append(Below, [top EXCEPT !.at = "branch", !.node = Len(nodes) + 1,
                                                   !.deps = AllDeps])
    BY <1>10, RecordParts
  <2>2. CASE Leaves
    BY <1>7, <2>1, <2>2
  <2>3. CASE ~Leaves
    <3> DEFINE c == [top EXCEPT !.at = "branch", !.node = Len(nodes) + 1, !.deps = AllDeps]
    <3>1. stack' = Append(Below, c) /\ c.runtime.cpu = top.runtime.cpu
      BY <1>2, <2>1, <2>3 DEF Visit
    <3> HIDE DEF c
    <3> QED BY <1>8, <2>1, <3>1
  <2> QED BY <2>2, <2>3
<1>11. CASE Branch
  <2> DEFINE N == Len(stack)
             child == WithFallback(top.runtime, policy)
             one == [top EXCEPT !.tried = top.tried + 1]
             two == Call(child, top.depth + 1, top.node, policy, nodes[top.node].cumulative,
                         Append(top.path, <<Frontier(top.runtime.cpu), policy>>), top.deps)
  <2>1. /\ stack # <<>> /\ policy \in ToSet(Policies) /\ stack' \in Seq(Visit) /\ Len(stack') = N + 1
        /\ stack'[N] = one /\ stack'[N + 1] = two
        /\ \A i \in 1 .. N - 1 : stack'[i] = stack[i]
    BY <1>11, BranchParts
  <2>2. N \in Nat \ {0} /\ DOMAIN stack = 1 .. N /\ DOMAIN stack' = 1 .. N + 1
    <3>1. N \in Nat \ {0} /\ DOMAIN stack = 1 .. N
      BY <2>1, TopParts, Zenon
    <3>2. DOMAIN stack' = 1 .. N + 1
      BY <2>1
    <3> QED BY <3>1, <3>2
  <2>3. one.runtime = top.runtime /\ two.runtime = child
    BY <1>2, <2>1 DEF Visit, Call
  <2>4. Home(child)
    BY <1>2, <2>1, FallbackType DEF Home
  <2> HIDE DEF one, two, child, N
  <2>5. ASSUME NEW i \in DOMAIN stack' PROVE Home(stack'[i].runtime)
    <3>1. CASE i = N
      BY <1>2, <2>1, <2>3, <3>1
    <3>2. CASE i = N + 1
      BY <2>1, <2>3, <2>4, <3>2
    <3>3. CASE i \in 1 .. N - 1
      <4>1. i \in DOMAIN stack
        BY <2>2, <3>3
      <4> QED BY <2>1, <3>3, <4>1 DEF AllHome
    <3> QED BY <2>2, <3>1, <3>2, <3>3
  <2> QED BY <2>5 DEF AllHome, Home
<1>12. CASE BranchLimited \/ Return
  BY <1>7, <1>12 DEF BranchLimited, Branching, Return
<1>13. CASE UNCHANGED vars
  BY <1>13 DEF vars, AllHome, Home
<1> QED BY <1>4, <1>5, <1>6, <1>9, <1>10, <1>11, <1>12, <1>13 DEF Next

LEMMA HomeNeverSpins == ASSUME IInv, AllHome, Returning PROVE ~Spinning
<1> SUFFICES ASSUME Spinning PROVE FALSE
  OBVIOUS
<1>1. Len(stack) \in Nat \ {0} /\ DOMAIN stack = 1 .. Len(stack)
  BY TopParts DEF Spinning, Running
<1>2. Len(stack) \in DOMAIN stack
  BY <1>1
<1>3. Home(top.runtime)
  BY <1>2 DEF AllHome, top
<1> QED BY <1>3 DEF Spinning, AtBios, Home

\* Every step of the search leaves less to do, but for one: the handled call whose $ra
\* is the entry it was reached at, which leaves the search where it was, for ever.  A
\* guest that never calls with a table entry in $ra does not come to that.  So a call
\* goes on to its segment or returns, a segment has a budget, and any other call of the
\* BIOS goes back to the guest, to a frontier or to an entry where it is not handled.
\* The limit of instructions is not what ends a search: one whose segments retire
\* nothing ends as well, for want of nodes or answers.
THEOREM SearchRunsDown ==
    Spec => /\ [](LeftIsCounted) /\ [](Returning => ~Spinning)
            /\ [][RunsDown \/ (Spinning /\ Spinning')]_vars
<1>1. IInv /\ Work => LeftIsCounted
  BY Counted4
<1>2. IInv /\ Work /\ Search /\ IInv' /\ [Next]_vars => [RunsDown \/ (Spinning /\ Spinning')]_vars
  BY StepRuns
<1>3. Init => Work /\ Search /\ AllHome
  <2>1. Init => AllHome
    BY DEF Init, AllHome, Home, Call, Created, Tables, A0, B0, C0
  <2> QED BY <2>1, InitialWork, InitialSearch
<1>4. IInv /\ Work /\ [Next]_vars => Work'
  BY StepWork
<1>5. IInv /\ Work /\ Search /\ [Next]_vars => Search'
  BY StepSearch
<1>6. IInv /\ IInv' /\ AllHome /\ [Next]_vars => AllHome'
  BY StepHome
<1>7. IInv /\ AllHome => (Returning => ~Spinning)
  BY HomeNeverSpins
<1> QED BY <1>1, <1>2, <1>3, <1>4, <1>5, <1>6, <1>7, Invariance, PTL DEF Spec
=============================================================================
