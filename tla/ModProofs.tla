----------------------------- MODULE ModProofs ------------------------------
(***************************************************************************)
(* For every catalog, every request and every way libraries behave: what   *)
(* resolve_mod_set answers, what becomes of its order in the overlay, what *)
(* the loader keeps of it, and that each of their steps leaves less to do. *)
(*                                                                         *)
(* IInv says how the counters of the ordering stand for sets: an indegree  *)
(* is the number of dependencies not yet placed, and only mods without any *)
(* are ready.  ExactInv relates what is included to the request, the call  *)
(* stack to the ways through the dependencies and what is left to the      *)
(* cycles there are.  LoaderInv ties the sessions to load_order and the    *)
(* counts of libraries and callbacks to the sessions.                      *)
(***************************************************************************)
EXTENDS ModSession, FiniteSetTheorems, SequenceTheorems, WellFoundedInduction, TLAPS

-----------------------------------------------------------------------------
(* Numbers and loops                                                       *)

\* *ready.begin() is the smallest id.
LEMMA SmallestIn ==
    ASSUME NEW ids \in SUBSET Nat, ids # {}
    PROVE  Smallest(ids) \in ids /\ \A other \in ids : Smallest(ids) <= other
<1> DEFINE less == OpToRel(<, Nat)
<1>1. IsWellFoundedOn(less, Nat)
  BY NatLessThanWellFounded, Zenon
<1>2. \A a, b \in Nat : <<a, b>> \notin less => b <= a
  BY DEF OpToRel
<1> HIDE DEF less
<1>3. PICK id \in ids : \A other \in ids : <<other, id>> \notin less
  BY <1>1, WFMin, Zenon
<1>4. \A other \in ids : id <= other
  BY <1>2, <1>3
<1> QED
  BY <1>4 DEF Smallest

\* Induction on the natural numbers, for a property given as the set of the
\* numbers that have it.
LEMMA SetInduction ==
    ASSUME NEW P, 0 \in P, \A n \in Nat : n \in P => n + 1 \in P
    PROVE  Nat \subseteq P
<1> DEFINE T == Nat \ P
<1> SUFFICES ASSUME T # {} PROVE FALSE
  OBVIOUS
<1>1. PICK m \in T : \A k \in T : m <= k
  <2> HIDE DEF T
  <2>1. T \in SUBSET Nat
    BY DEF T
  <2> QED
    BY <2>1, SmallestIn
<1>2. m # 0 /\ m - 1 \in Nat
  BY <1>1
<1>3. m - 1 \in P
  BY <1>1, <1>2
<1> QED
  BY <1>1, <1>2, <1>3

\* What a loop of n turns goes through.
IsLoop(f, S, a, turn, n) ==
    /\ f \in [0 .. n -> S] /\ f[0] = a
    /\ \A k \in 0 .. n - 1 : f[k + 1] = turn[k][f[k]]

LEMMA LoopExists ==
    ASSUME NEW S, NEW a \in S, NEW turn \in [Nat -> [S -> S]], NEW n \in Nat
    PROVE  \E f : IsLoop(f, S, a, turn, n)
<1> DEFINE Goes(f, m) == f[0] = a /\ \A k \in 0 .. m - 1 : f[k + 1] = turn[k][f[k]]
           P == {m \in Nat : \E f \in [0 .. m -> S] : Goes(f, m)}
<1>1. 0 \in P
  <2>1. [k \in 0 .. 0 |-> a] \in [0 .. 0 -> S] /\ Goes([k \in 0 .. 0 |-> a], 0)
    OBVIOUS
  <2> QED
    BY <2>1
<1>2. ASSUME NEW m \in Nat, m \in P
      PROVE  m + 1 \in P
  <2>1. PICK f \in [0 .. m -> S] : Goes(f, m)
    BY <1>2
  <2> DEFINE g == [k \in 0 .. m + 1 |-> IF k \in 0 .. m THEN f[k] ELSE turn[m][f[m]]]
  <2>2. turn[m][f[m]] \in S
    BY <2>1
  <2>3. g \in [0 .. m + 1 -> S]
    BY <2>2
  <2>4. ASSUME NEW k \in 0 .. (m + 1) - 1
        PROVE  g[k + 1] = turn[k][g[k]]
    <3>1. k \in 0 .. m /\ k \in 0 .. m + 1 /\ k + 1 \in 0 .. m + 1 /\ g[k] = f[k]
      OBVIOUS
    <3>2. CASE k = m
      <4>1. k + 1 \notin 0 .. m
        BY <3>2
      <4> QED
        BY <3>1, <3>2, <4>1
    <3>3. CASE k # m
      <4>1. k + 1 \in 0 .. m /\ k \in 0 .. m - 1
        BY <3>3
      <4>2. f[k + 1] = turn[k][f[k]]
        BY <2>1, <4>1
      <4> QED
        BY <3>1, <4>1, <4>2
    <3> QED
      BY <3>2, <3>3
  <2>5. g[0] = a
    BY <2>1
  <2> HIDE DEF g
  <2> QED
    BY <2>3, <2>4, <2>5
<1>3. Nat \subseteq P
  <2> HIDE DEF P
  <2> QED
    BY <1>1, <1>2, SetInduction
<1>4. PICK f \in [0 .. n -> S] : Goes(f, n)
  BY <1>3
<1>5. IsLoop(f, S, a, turn, n)
  BY <1>4 DEF IsLoop
<1> QED
  BY <1>5

-----------------------------------------------------------------------------
(* What can be reached                                                     *)

\* What mods depend on are ids.
LEMMA OnwardType ==
    ASSUME Catalog(catalog)
    PROVE  \A s : Onward(s) \in SUBSET Ids
<1> SUFFICES ASSUME NEW id \in DOMAIN catalog PROVE DependsOn(id) \in SUBSET Ids
  BY DEF Onward
<1>1. Dependencies(id) \in Seq(Dependency)
  BY DEF Catalog, Manifest, Dependencies
<1>2. \A i \in DOMAIN Dependencies(id) : Dependencies(id)[i] \in Dependency
  BY <1>1
<1>3. \A d \in Dependency : d.id \in Ids
  BY DEF Dependency
<1> QED
  BY <1>2, <1>3 DEF DependsOn

\* The recursion of Reach goes through the sets it says.
LEMMA ReachGoes ==
    ASSUME Catalog(catalog), NEW ids \in SUBSET Ids
    PROVE  \E r :
              /\ r[0] = ids
              /\ \A k \in 0 .. Cardinality(DOMAIN catalog) - 1 :
                    r[k + 1] = r[k] \cup Onward(r[k])
              /\ Reach(ids) = r[Cardinality(DOMAIN catalog)]
<1> DEFINE n == Cardinality(DOMAIN catalog)
           S == SUBSET Ids
           turn == [k \in Nat |-> [s \in S |-> s \cup Onward(s)]]
           Equation(f) ==
             f = [k \in 0 .. n |-> IF k = 0 THEN ids ELSE f[k - 1] \cup Onward(f[k - 1])]
<1>1. n \in Nat
  BY FS_CardinalityType DEF Catalog
<1>2. turn \in [Nat -> [S -> S]]
  BY OnwardType
<1>3. PICK r : IsLoop(r, S, ids, turn, n)
  <2>1. ids \in S
    OBVIOUS
  <2> HIDE DEF turn, n, S
  <2> QED
    BY <1>1, <1>2, <2>1, LoopExists
<1> HIDE DEF n
<1>4. ASSUME NEW k \in 0 .. n
      PROVE  r[k] = IF k = 0 THEN ids ELSE r[k - 1] \cup Onward(r[k - 1])
  <2>1. CASE k = 0
    BY <1>3, <2>1 DEF IsLoop
  <2>2. CASE k # 0
    <3>1. k - 1 \in 0 .. n - 1 /\ (k - 1) + 1 = k /\ k - 1 \in Nat /\ k - 1 \in 0 .. n
      BY <1>1, <2>2
    <3>2. r[k - 1] \in S /\ r[k] = turn[k - 1][r[k - 1]]
      BY <1>3, <3>1 DEF IsLoop
    <3> QED
      BY <2>2, <3>1, <3>2
  <2> QED
    BY <2>1, <2>2
<1>5. Equation(r)
  <2>1. r = [k \in 0 .. n |-> r[k]]
    BY <1>3 DEF IsLoop
  <2> QED
    BY <1>4, <2>1
<1> DEFINE f == CHOOSE f : Equation(f)
<1>6. Equation(f)
  BY <1>5
<1>7. Reach(ids) = f[n]
  BY DEF Reach, n
<1> HIDE DEF f
<1>8. f[0] = ids
  BY <1>1, <1>6
<1>9. ASSUME NEW k \in 0 .. n - 1
      PROVE  f[k + 1] = f[k] \cup Onward(f[k])
  <2>1. k + 1 \in 0 .. n /\ k + 1 # 0 /\ (k + 1) - 1 = k
    BY <1>1
  <2> QED
    BY <1>6, <2>1
<1> QED
  BY <1>7, <1>8, <1>9 DEF n

\* Reach gives the least set that has the mods asked for and all that its mods
\* depend on: the rounds of the recursion are enough, however long the ways are.
LEMMA ReachLeast ==
    ASSUME Catalog(catalog), NEW ids \in SUBSET Ids
    PROVE  /\ ids \subseteq Reach(ids)
           /\ Onward(Reach(ids)) \subseteq Reach(ids)
           /\ \A X : ids \subseteq X /\ Onward(X) \subseteq X => Reach(ids) \subseteq X
           /\ Reach(ids) \subseteq Ids
<1> DEFINE mods == DOMAIN catalog
           n == Cardinality(mods)
<1>1. n \in Nat /\ IsFiniteSet(mods)
  BY FS_CardinalityType DEF Catalog
<1>2. PICK r : /\ r[0] = ids
               /\ \A k \in 0 .. n - 1 : r[k + 1] = r[k] \cup Onward(r[k])
               /\ Reach(ids) = r[n]
  BY ReachGoes
<1> DEFINE Here(k) == r[k] \cap mods
           Closes(k) == Onward(r[k]) \subseteq r[k]
<1>3. \A a, b : a \cap mods = b \cap mods => Onward(a) = Onward(b)
  BY DEF Onward
<1>4. \A k \in Nat : IsFiniteSet(Here(k)) /\ Cardinality(Here(k)) \in Nat
                     /\ Cardinality(Here(k)) <= n
  <2> TAKE k \in Nat
  <2>1. Here(k) \in SUBSET mods
    OBVIOUS
  <2> QED
    BY <1>1, <2>1, FS_Subset, FS_CardinalityType
<1> HIDE DEF n
\* The sets grow by a mod of the catalog in every round, or no more.
<1>5. ASSUME NEW k \in Nat
      PROVE  k <= n => Closes(k) \/ Cardinality(Here(k)) >= k + 1
  <2> DEFINE P == {m \in Nat : m <= n => Closes(m) \/ Cardinality(Here(m)) >= m + 1}
  <2>1. 0 \in P
    <3>1. CASE Here(0) = {}
      <4>1. Closes(0)
        BY <3>1 DEF Onward
      <4> QED
        BY <4>1
    <3>2. CASE Here(0) # {}
      <4>1. Cardinality(Here(0)) # 0
        BY <1>4, <3>2, FS_EmptySet
      <4> HIDE DEF Here, Closes
      <4> QED
        BY <1>4, <4>1
    <3> QED
      BY <3>1, <3>2
  <2>2. ASSUME NEW m \in Nat, m \in P
        PROVE  m + 1 \in P
    <3> SUFFICES ASSUME m + 1 <= n
                 PROVE  Closes(m + 1) \/ Cardinality(Here(m + 1)) >= (m + 1) + 1
      OBVIOUS
    <3>1. r[m + 1] = r[m] \cup Onward(r[m])
      BY <1>1, <1>2
    <3>2. Closes(m) \/ Cardinality(Here(m)) >= m + 1
      BY <1>1, <2>2
    <3>3. CASE Here(m + 1) = Here(m)
      <4>1. Onward(r[m + 1]) = Onward(r[m])
        BY <1>3, <3>3
      <4> QED
        BY <3>1, <4>1
    <3>4. CASE Here(m + 1) # Here(m)
      <4>1. ~Closes(m)
        BY <3>1, <3>4
      <4>2. Here(m) \in SUBSET Here(m + 1)
        BY <3>1
      <4> HIDE DEF Here, Closes
      <4>3. /\ IsFiniteSet(Here(m + 1))
            /\ Cardinality(Here(m)) \in Nat /\ Cardinality(Here(m + 1)) \in Nat
        BY <1>4
      <4>4. /\ Cardinality(Here(m)) <= Cardinality(Here(m + 1))
            /\ Cardinality(Here(m + 1)) # Cardinality(Here(m))
        BY <3>4, <4>2, <4>3, FS_Subset
      <4> QED
        BY <3>2, <4>1, <4>3, <4>4
    <3> QED
      BY <3>3, <3>4
  <2>3. Nat \subseteq P
    <3> HIDE DEF P
    <3> QED
      BY <2>1, <2>2, SetInduction
  <2> QED
    BY <2>3
<1>6. Closes(n)
  <2>1. Closes(n) \/ Cardinality(Here(n)) >= n + 1
    <3> HIDE DEF Here, Closes
    <3> QED
      BY <1>1, <1>5
  <2> HIDE DEF Here, Closes
  <2> QED
    BY <1>1, <1>4, <2>1
<1>7. ASSUME NEW X, ids \subseteq X, Onward(X) \subseteq X, NEW k \in Nat
      PROVE  k <= n => ids \subseteq r[k] /\ r[k] \subseteq X
  <2> DEFINE P == {m \in Nat : m <= n => ids \subseteq r[m] /\ r[m] \subseteq X}
  <2>1. 0 \in P
    BY <1>2, <1>7
  <2>2. ASSUME NEW m \in Nat, m \in P
        PROVE  m + 1 \in P
    <3> SUFFICES ASSUME m + 1 <= n
                 PROVE  ids \subseteq r[m + 1] /\ r[m + 1] \subseteq X
      OBVIOUS
    <3>1. r[m + 1] = r[m] \cup Onward(r[m])
      BY <1>1, <1>2
    <3>2. ids \subseteq r[m] /\ r[m] \subseteq X
      BY <1>1, <2>2
    <3>3. Onward(r[m]) \subseteq Onward(X)
      BY <3>2 DEF Onward
    <3> QED
      BY <1>7, <3>1, <3>2, <3>3
  <2>3. Nat \subseteq P
    <3> HIDE DEF P
    <3> QED
      BY <2>1, <2>2, SetInduction
  <2> QED
    BY <2>3
<1>8. \A X : ids \subseteq X /\ Onward(X) \subseteq X => ids \subseteq r[n] /\ r[n] \subseteq X
  BY <1>1, <1>7
<1>9. ids \subseteq Ids /\ Onward(Ids) \subseteq Ids
  BY OnwardType
<1> QED
  BY <1>2, <1>6, <1>8, <1>9

-----------------------------------------------------------------------------
(* The order                                                               *)

\* Every mod that is not being included has its dependencies enabled, and every
\* frame those it is done with.
FramesInclude ==
    \A i \in DOMAIN stack :
        /\ stack[i].done <= Len(Dependencies(stack[i].id))
        /\ \A j \in 1 .. stack[i].done : Dependencies(stack[i].id)[j].id \in enabled
VisitingOnStack ==
    \A id \in enabled : visit[id] = "visiting" => \E i \in DOMAIN stack : stack[i].id = id
DoneIncludes == \A id \in enabled : visit[id] = "done" => DependsOn(id) \subseteq enabled
Including == phase = "include" => VisitingOnStack /\ order = <<>> /\ ready = {}

Ordering ==
    phase \in {"order", "resolved"} =>
        /\ \A id \in enabled : DependsOn(id) \subseteq enabled
        /\ \A id \in enabled : indegree[id] = Cardinality(Needs(id, enabled \ Placed))
        /\ \A id \in ready : id \notin Placed /\ Needs(id, enabled \ Placed) = {}

IInv ==
    /\ ResolverTypeOK
    /\ FramesInclude /\ DoneIncludes /\ Including
    /\ Ordering
    /\ DependenciesFirst

-----------------------------------------------------------------------------
(* Counting dependencies                                                   *)

\* A manifest's dependencies are a sequence, whose positions are finitely many.
LEMMA ManifestType ==
    ASSUME ResolverTypeOK, NEW id \in DOMAIN catalog
    PROVE  /\ Dependencies(id) \in Seq(Dependency)
           /\ IsFiniteSet(DOMAIN Dependencies(id))
<1>1. Dependencies(id) \in Seq(Dependency)
  BY DEF ResolverTypeOK, Catalog, Manifest, Dependencies
<1>2. DOMAIN Dependencies(id) = 1 .. Len(Dependencies(id)) /\ Len(Dependencies(id)) \in Nat
  BY <1>1
<1> QED
  BY <1>1, <1>2, FS_Interval

LEMMA NeedsFinite ==
    ASSUME ResolverTypeOK, NEW id \in DOMAIN catalog, NEW mods
    PROVE  IsFiniteSet(Needs(id, mods)) /\ Cardinality(Needs(id, mods)) \in Nat
<1>1. Needs(id, mods) \in SUBSET DOMAIN Dependencies(id)
  BY DEF Needs
<1> QED
  BY <1>1, ManifestType, FS_Subset, FS_CardinalityType

LEMMA CardinalityWithout ==
    ASSUME NEW S, IsFiniteSet(S), NEW T \in SUBSET S
    PROVE  /\ Cardinality(S \ T) = Cardinality(S) - Cardinality(T)
           /\ Cardinality(S \ T) \in Nat
<1>1. IsFiniteSet(S \ T) /\ Cardinality(S \ T) = Cardinality(S) - Cardinality(S \cap T)
  BY FS_Difference
<1>2. S \cap T = T
  OBVIOUS
<1> QED
  BY <1>1, <1>2, FS_CardinalityType

\* Lowering an indegree counts the dependencies without the mod placed.
LEMMA LoweredCounts ==
    ASSUME ResolverTypeOK, NEW id \in enabled, NEW mods, NEW mod \in mods,
           indegree[id] = Cardinality(Needs(id, mods))
    PROVE  Lowered(id, mod) = Cardinality(Needs(id, mods \ {mod}))
<1>1. id \in DOMAIN catalog
  BY DEF ResolverTypeOK
<1> DEFINE all == Needs(id, mods)
           met == Needs(id, {mod})
<1>2. /\ IsFiniteSet(all) /\ Cardinality(all) \in Nat
      /\ IsFiniteSet(met) /\ Cardinality(met) \in Nat
  BY <1>1, NeedsFinite
<1>3. Needs(id, mods \ {mod}) = all \ met /\ met \in SUBSET all
  BY DEF Needs
<1>4. indegree[id] = Cardinality(all)
  OBVIOUS
<1>5. Lowered(id, mod) = IF indegree[id] > Cardinality(met)
                        THEN indegree[id] - Cardinality(met) ELSE 0
  BY DEF Lowered
<1> HIDE DEF all, met
<1>6. Cardinality(all \ met) = Cardinality(all) - Cardinality(met)
      /\ Cardinality(all \ met) \in Nat
  BY <1>2, <1>3, CardinalityWithout
<1>7. Cardinality(Needs(id, mods \ {mod})) = Cardinality(all \ met)
  BY <1>3
<1>8. Lowered(id, mod) = Cardinality(all \ met)
  BY <1>2, <1>4, <1>5, <1>6
<1> QED
  BY <1>7, <1>8

-----------------------------------------------------------------------------
(* Including mods                                                          *)

LEMMA FrontParts ==
    ASSUME NEW S, NEW s \in Seq(S), s # <<>>
    PROVE  /\ Len(s) \in Nat \ {0} /\ DOMAIN s = 1 .. Len(s)
           /\ s[Len(s)] \in S
           /\ SubSeq(s, 1, Len(s) - 1) \in Seq(S)
           /\ Len(SubSeq(s, 1, Len(s) - 1)) = Len(s) - 1
           /\ \A i \in 1 .. Len(s) - 1 : SubSeq(s, 1, Len(s) - 1)[i] = s[i]
<1>1. Len(s) \in Nat \ {0} /\ DOMAIN s = 1 .. Len(s) /\ \A i \in 1 .. Len(s) : s[i] \in S
  OBVIOUS
<1> DEFINE m == Len(s) - 1
<1>2. /\ m \in Nat /\ \A i \in 1 .. m : s[i] \in S
      /\ (IF 1 <= m THEN m - 1 + 1 ELSE 0) = m
      /\ m - 1 + 1 = m /\ \A i \in 1 .. m : 1 + i - 1 = i
  BY <1>1
<1> HIDE DEF m
<1>3. /\ SubSeq(s, 1, m) \in Seq(S) /\ Len(SubSeq(s, 1, m)) = m
      /\ \A i \in 1 .. m : SubSeq(s, 1, m)[i] = s[i]
  BY <1>2, SubSeqProperties
<1> QED
  BY <1>1, <1>3 DEF m

LEMMA AppendParts ==
    ASSUME NEW S, NEW s \in Seq(S), NEW e \in S
    PROVE  /\ Append(s, e) \in Seq(S) /\ Len(s) \in Nat
           /\ DOMAIN Append(s, e) = 1 .. Len(s) + 1
           /\ Append(s, e)[Len(s) + 1] = e
           /\ \A i \in 1 .. Len(s) : Append(s, e)[i] = s[i]
  OBVIOUS

\* The frames of include_mod.
Frame == [id : enabled, done : Nat]

LEMMA StackParts ==
    ASSUME ResolverTypeOK, stack # <<>>
    PROVE  /\ Len(stack) \in Nat \ {0} /\ DOMAIN stack = 1 .. Len(stack)
           /\ Top \in Frame /\ Top.id \in enabled /\ Top.done \in Nat
           /\ Callers \in Seq(Frame)
           /\ Len(Callers) = Len(stack) - 1
           /\ \A i \in 1 .. Len(stack) - 1 : Callers[i] = stack[i]
<1>1. stack \in Seq(Frame)
  BY DEF ResolverTypeOK, Frame
<1>2. /\ Len(stack) \in Nat \ {0} /\ DOMAIN stack = 1 .. Len(stack)
      /\ Top \in Frame /\ Callers \in Seq(Frame)
      /\ Len(Callers) = Len(stack) - 1
      /\ \A i \in 1 .. Len(stack) - 1 : Callers[i] = stack[i]
  BY <1>1, FrontParts DEF Top, Callers
<1>3. Top.id \in enabled /\ Top.done \in Nat
  BY <1>2 DEF Frame
<1> QED
  BY <1>2, <1>3

\* What an accepted call finds.
LEMMA FoundType ==
    ASSUME IInv, Found
    PROVE  /\ Wanted \in DOMAIN catalog
           /\ Behind \in Seq(Frame)
           /\ phase = "include"
           /\ Turned => asked' \in 0 .. Len(requested)
<1>1. phase = "include" /\ Wanted \in DOMAIN catalog
  BY DEF Found, Calling
<1>2. asked \in 0 .. Len(requested) /\ requested \in Seq(Ids)
  BY DEF IInv, ResolverTypeOK
<1>3. CASE stack = <<>>
  <2>1. Behind \in Seq(Frame)
    BY <1>3 DEF Behind
  <2>2. Turned => asked' \in 0 .. Len(requested)
    BY <1>2, <1>3 DEF Found, Calling, Turned
  <2> QED
    BY <1>1, <2>1, <2>2
<1>4. CASE stack # <<>>
  <2>1. [id |-> Top.id, done |-> Top.done + 1] \in Frame /\ Callers \in Seq(Frame)
    BY <1>4, StackParts DEF IInv, Frame
  <2>2. Behind \in Seq(Frame)
    BY <1>4, <2>1, AppendParts DEF Behind
  <2> QED
    BY <1>1, <1>2, <1>4, <2>2 DEF Turned
<1> QED
  BY <1>3, <1>4

\* The frames behind a call that was accepted: the caller has one dependency
\* more behind it.
LEMMA BehindShape ==
    ASSUME ResolverTypeOK
    PROVE  /\ DOMAIN Behind = DOMAIN stack
           /\ \A i \in DOMAIN stack :
                /\ Behind[i].id = stack[i].id
                /\ Behind[i].done = IF i = Len(stack) THEN stack[i].done + 1 ELSE stack[i].done
<1>1. CASE stack = <<>>
  BY <1>1 DEF Behind
<1>2. CASE stack # <<>>
  <2> DEFINE moved == [id |-> Top.id, done |-> Top.done + 1]
  <2>2. /\ Len(stack) \in Nat \ {0} /\ DOMAIN stack = 1 .. Len(stack)
        /\ Top.id \in enabled /\ Top.done \in Nat
        /\ Callers \in Seq(Frame) /\ Len(Callers) = Len(stack) - 1
        /\ \A k \in 1 .. Len(stack) - 1 : Callers[k] = stack[k]
    BY <1>2, StackParts
  <2>3. Behind = Append(Callers, moved) /\ moved \in Frame
    BY <1>2, <2>2 DEF Behind, Frame
  <2> HIDE DEF moved
  <2>4. /\ DOMAIN Behind = 1 .. Len(Callers) + 1
        /\ Behind[Len(Callers) + 1] = moved
        /\ \A k \in 1 .. Len(Callers) : Behind[k] = Callers[k]
    <3>1. Callers \in Seq(Frame) /\ moved \in Frame
      BY <2>2, <2>3
    <3> HIDE DEF Callers
    <3>2. /\ DOMAIN Append(Callers, moved) = 1 .. Len(Callers) + 1
          /\ Append(Callers, moved)[Len(Callers) + 1] = moved
          /\ \A k \in 1 .. Len(Callers) : Append(Callers, moved)[k] = Callers[k]
      BY <3>1, AppendParts
    <3> QED
      BY <2>3, <3>2
  <2>5. ASSUME NEW i \in DOMAIN stack
        PROVE  /\ Behind[i].id = stack[i].id
               /\ Behind[i].done = IF i = Len(stack) THEN stack[i].done + 1 ELSE stack[i].done
    <3>1. CASE i = Len(stack)
      <4>1. Behind[i] = moved /\ Top = stack[i]
        BY <2>2, <2>4, <3>1 DEF Top
      <4> QED
        BY <3>1, <4>1 DEF moved
    <3>2. CASE i # Len(stack)
      <4>1. Behind[i] = stack[i]
        BY <2>2, <2>4, <3>2
      <4> QED
        BY <3>2, <4>1
    <3> QED
      BY <3>1, <3>2
  <2> QED
    BY <2>2, <2>4, <2>5
<1> QED
  BY <1>1, <1>2

\* The dependency the caller has now behind it is the mod called for.
LEMMA BehindFrames ==
    ASSUME IInv, Found
    PROVE  /\ DOMAIN Behind = DOMAIN stack
           /\ \A i \in DOMAIN stack :
                /\ Behind[i].id = stack[i].id
                /\ Behind[i].done <= Len(Dependencies(stack[i].id))
                /\ \A j \in 1 .. Behind[i].done :
                    Dependencies(stack[i].id)[j].id \in enabled \cup {Wanted}
<1>1. ResolverTypeOK
  BY DEF IInv
<1>2. ASSUME NEW i \in DOMAIN stack
      PROVE  /\ Behind[i].done <= Len(Dependencies(stack[i].id))
             /\ \A j \in 1 .. Behind[i].done :
                    Dependencies(stack[i].id)[j].id \in enabled \cup {Wanted}
  <2>1. stack # <<>>
    BY <1>2
  <2>2. CASE i = Len(stack)
    <3>1. Top = stack[i] /\ Behind[i].done = Top.done + 1
      BY <1>1, <2>2, BehindShape DEF Top
    <3>2. /\ Top.done < Len(Dependencies(Top.id))
          /\ Wanted = Dependencies(Top.id)[Top.done + 1].id
      BY <2>1 DEF Found, Calling, Wanted, NextDependency
    <3>3. Top.done \in Nat /\ Len(Dependencies(Top.id)) \in Nat
      <4>1. Top.id \in DOMAIN catalog /\ Top.done \in Nat
        BY <1>1, <2>1, StackParts DEF ResolverTypeOK
      <4> QED
        BY <1>1, <4>1, ManifestType
    <3>4. \A j \in 1 .. Top.done : Dependencies(Top.id)[j].id \in enabled
      BY <3>1 DEF IInv, FramesInclude
    <3> QED
      BY <3>1, <3>2, <3>3, <3>4
  <2>3. CASE i # Len(stack)
    <3>1. Behind[i].done = stack[i].done
      BY <1>1, <2>3, BehindShape
    <3> QED
      BY <3>1 DEF IInv, FramesInclude
  <2> QED
    BY <2>2, <2>3
<1> QED
  BY <1>1, <1>2, BehindShape

-----------------------------------------------------------------------------
(* Every step                                                              *)

LEMMA InitialInv == Init => IInv
<1> SUFFICES ASSUME NEW p \in Problems, Given(p) PROVE IInv
  BY DEF Init
<1>1. Catalog(p.catalog) /\ p.requested \in Seq(Ids)
  BY ProblemsAssumption
<1>2. enabled = {}
  BY DEF Given, enabled
<1>3. ResolverTypeOK
  BY <1>1, <1>2 DEF Given, ResolverTypeOK
<1> QED
  BY <1>2, <1>3 DEF Given, IInv, FramesInclude, VisitingOnStack, DoneIncludes,
                    Including, Ordering, DependenciesFirst

LEMMA FailInv == ASSUME IInv, Fail PROVE IInv'
<1> USE DEF Fail
<1>1. ResolverTypeOK'
  BY DEF IInv, ResolverTypeOK, Catalog, enabled
<1> QED
  BY <1>1 DEF IInv, FramesInclude, DoneIncludes, Including, Ordering,
              DependenciesFirst, DependsOn, Dependencies, enabled

LEMMA AlreadyIncludedInv == ASSUME IInv, AlreadyIncluded PROVE IInv'
<1>1. /\ Found /\ Wanted \in enabled
      /\ stack' = Behind /\ Turned
      /\ UNCHANGED <<catalog, requested, phase, visit, indegree, ready, order>>
  BY DEF AlreadyIncluded
<1>2. enabled' = enabled
  BY <1>1 DEF enabled
<1>3. ResolverTypeOK'
  <2>1. stack' \in Seq(Frame) /\ asked' \in 0 .. Len(requested)
    BY <1>1, FoundType
  <2> QED
    BY <1>1, <1>2, <2>1 DEF IInv, ResolverTypeOK, Catalog, Frame
<1>4. FramesInclude'
  BY <1>1, <1>2, BehindFrames DEF FramesInclude, Dependencies
<1>5. DoneIncludes'
  BY <1>1, <1>2 DEF IInv, DoneIncludes, DependsOn, Dependencies
<1>6. Including'
  BY <1>1, <1>2, BehindFrames DEF IInv, Including, VisitingOnStack
<1>7. Ordering' /\ DependenciesFirst'
  <2>1. phase' = "include"
    BY <1>1, FoundType
  <2> QED
    BY <1>1, <2>1 DEF IInv, Ordering, DependenciesFirst, DependsOn, Dependencies
<1> QED
  BY <1>3, <1>4, <1>5, <1>6, <1>7 DEF IInv

LEMMA IncludeModInv == ASSUME IInv, IncludeMod PROVE IInv'
<1> DEFINE called == [id |-> Wanted, done |-> 0]
<1>1. /\ Found /\ Wanted \notin enabled
      /\ visit' = [id \in enabled \cup {Wanted} |->
                    IF id = Wanted THEN "visiting" ELSE visit[id]]
      /\ stack' = Append(Behind, called) /\ Turned
      /\ UNCHANGED <<catalog, requested, phase, indegree, ready, order>>
  BY DEF IncludeMod
<1>2. enabled' = enabled \cup {Wanted}
  BY <1>1 DEF enabled
<1>3. /\ Wanted \in DOMAIN catalog /\ Behind \in Seq(Frame) /\ phase = "include"
      /\ asked' \in 0 .. Len(requested)
  BY <1>1, FoundType
<1>4. called \in Frame' /\ Behind \in Seq(Frame')
  <2>1. called \in Frame' /\ Frame \subseteq Frame'
    BY <1>2 DEF Frame
  <2> QED
    BY <1>3, <2>1
<1> HIDE DEF called
<1>5. /\ stack' \in Seq(Frame') /\ Len(Behind) \in Nat
      /\ DOMAIN stack' = 1 .. Len(Behind) + 1
      /\ stack'[Len(Behind) + 1] = called
      /\ DOMAIN Behind = 1 .. Len(Behind)
      /\ \A i \in 1 .. Len(Behind) : stack'[i] = Behind[i]
  <2> HIDE DEF Behind
  <2>1. /\ Append(Behind, called) \in Seq(Frame') /\ Len(Behind) \in Nat
        /\ DOMAIN Append(Behind, called) = 1 .. Len(Behind) + 1
        /\ Append(Behind, called)[Len(Behind) + 1] = called
        /\ \A i \in 1 .. Len(Behind) : Append(Behind, called)[i] = Behind[i]
    BY <1>4, AppendParts
  <2>2. DOMAIN Behind = 1 .. Len(Behind)
    BY <1>3
  <2> QED
    BY <1>1, <2>1, <2>2
<1>6. ResolverTypeOK'
  BY <1>1, <1>2, <1>3, <1>5 DEF IInv, ResolverTypeOK, Catalog, Frame, Including
<1>7. FramesInclude'
  <2>1. \A id : Dependencies(id)' = Dependencies(id)
    BY <1>1 DEF Dependencies
  <2> SUFFICES ASSUME NEW i \in DOMAIN stack'
               PROVE  /\ stack'[i].done <= Len(Dependencies(stack'[i].id))
                      /\ \A j \in 1 .. stack'[i].done :
                            Dependencies(stack'[i].id)[j].id \in enabled'
    BY <1>1 DEF FramesInclude, Dependencies
  <2>2. CASE i = Len(Behind) + 1
    <3>1. stack'[i].id = Wanted /\ stack'[i].done = 0
      BY <1>5, <2>2 DEF called
    <3>2. Len(Dependencies(Wanted)) \in Nat
      BY <1>3, ManifestType DEF IInv
    <3> QED
      BY <2>1, <3>1, <3>2
  <2>3. CASE i # Len(Behind) + 1
    <3>1. i \in DOMAIN Behind /\ stack'[i] = Behind[i]
      BY <1>5, <2>3
    <3>2. /\ Behind[i].id = stack[i].id
          /\ Behind[i].done <= Len(Dependencies(stack[i].id))
          /\ \A j \in 1 .. Behind[i].done :
                Dependencies(stack[i].id)[j].id \in enabled \cup {Wanted}
      BY <1>1, <3>1, BehindFrames
    <3> QED
      BY <1>2, <2>1, <3>1, <3>2
  <2> QED
    BY <2>2, <2>3
<1>8. DoneIncludes'
  BY <1>1, <1>2 DEF IInv, DoneIncludes, DependsOn, Dependencies
<1>9. Including'
  <2>1. ASSUME NEW id \in enabled', visit'[id] = "visiting"
        PROVE  \E i \in DOMAIN stack' : stack'[i].id = id
    <3>1. CASE id = Wanted
      BY <1>5, <3>1 DEF called
    <3>2. CASE id # Wanted
      <4>1. id \in enabled /\ visit[id] = "visiting"
        BY <1>1, <1>2, <2>1, <3>2
      <4>2. PICK i \in DOMAIN stack : stack[i].id = id
        BY <1>3, <4>1 DEF IInv, Including, VisitingOnStack
      <4>3. i \in DOMAIN Behind /\ Behind[i].id = id
        BY <1>1, <4>2, BehindFrames
      <4>4. i \in DOMAIN stack' /\ stack'[i] = Behind[i]
        BY <1>5, <4>3
      <4> QED
        BY <4>3, <4>4
    <3> QED
      BY <3>1, <3>2
  <2> QED
    BY <1>1, <2>1 DEF IInv, Including, VisitingOnStack
<1>10. Ordering' /\ DependenciesFirst'
  BY <1>1, <1>3 DEF IInv, Ordering, DependenciesFirst, DependsOn, Dependencies
<1> QED
  BY <1>6, <1>7, <1>8, <1>9, <1>10 DEF IInv

LEMMA IncludedInv == ASSUME IInv, Included PROVE IInv'
<1>1. /\ phase = "include" /\ stack # <<>> /\ Top.done = Len(Dependencies(Top.id))
      /\ visit' = [visit EXCEPT ![Top.id] = "done"]
      /\ stack' = Callers
      /\ UNCHANGED <<catalog, requested, phase, asked, indegree, ready, order>>
  BY DEF Included
<1>2. enabled' = enabled
  BY <1>1 DEF enabled
<1>3. /\ Len(stack) \in Nat \ {0} /\ DOMAIN stack = 1 .. Len(stack)
      /\ Top.id \in enabled
      /\ stack' \in Seq(Frame) /\ Len(stack') = Len(stack) - 1
      /\ \A i \in 1 .. Len(stack) - 1 : stack'[i] = stack[i]
  BY <1>1, StackParts DEF IInv
<1>4. DOMAIN stack' = 1 .. Len(stack) - 1
  BY <1>3
<1>5. ResolverTypeOK'
  <2>1. \A id \in enabled : visit'[id] \in {"visiting", "done"}
    BY <1>1, <1>3 DEF IInv, ResolverTypeOK, enabled
  <2> QED
    BY <1>1, <1>2, <1>3, <2>1 DEF IInv, ResolverTypeOK, Catalog, Frame
<1>6. FramesInclude'
  BY <1>1, <1>2, <1>3, <1>4 DEF IInv, FramesInclude, Dependencies
<1>7. DoneIncludes'
  <2>1. DependsOn(Top.id) \subseteq enabled
    <3>1. Top.id \in DOMAIN catalog
      BY <1>3 DEF IInv, ResolverTypeOK
    <3>2. DOMAIN Dependencies(Top.id) = 1 .. Top.done
      BY <1>1, <3>1, ManifestType DEF IInv
    <3>3. \A j \in 1 .. Top.done : Dependencies(Top.id)[j].id \in enabled
      BY <1>3 DEF IInv, FramesInclude, Top
    <3> QED
      BY <3>2, <3>3 DEF DependsOn
  <2>2. ASSUME NEW id \in enabled, visit'[id] = "done"
        PROVE  DependsOn(id) \subseteq enabled
    BY <1>1, <1>3, <2>1, <2>2 DEF IInv, DoneIncludes, enabled
  <2>3. \A id : DependsOn(id)' = DependsOn(id)
    BY <1>1 DEF DependsOn, Dependencies
  <2> QED
    BY <1>2, <2>2, <2>3 DEF DoneIncludes
<1>8. Including'
  <2>1. ASSUME NEW id \in enabled, visit'[id] = "visiting"
        PROVE  \E i \in DOMAIN stack' : stack'[i].id = id
    <3>1. id # Top.id /\ visit[id] = "visiting"
      BY <1>1, <1>3, <2>1 DEF enabled
    <3>2. PICK i \in DOMAIN stack : stack[i].id = id
      BY <1>1, <3>1 DEF IInv, Including, VisitingOnStack
    <3>3. i # Len(stack)
      BY <3>1, <3>2 DEF Top
    <3> QED
      BY <1>3, <1>4, <3>2, <3>3
  <2> QED
    BY <1>1, <1>2, <2>1 DEF IInv, Including, VisitingOnStack
<1>9. Ordering' /\ DependenciesFirst'
  BY <1>1 DEF IInv, Ordering, DependenciesFirst, DependsOn, Dependencies
<1> QED
  BY <1>5, <1>6, <1>7, <1>8, <1>9 DEF IInv

-----------------------------------------------------------------------------
(* Placing mods                                                            *)

LEMMA CountDependenciesInv == ASSUME IInv, CountDependencies PROVE IInv'
<1>1. /\ phase = "include" /\ stack = <<>> /\ phase' = "order"
      /\ indegree' = [id \in enabled |-> Cardinality(Needs(id, enabled))]
      /\ ready' = {id \in enabled : Needs(id, enabled) = {}}
      /\ UNCHANGED <<catalog, requested, asked, stack, visit, order>>
  BY DEF CountDependencies, AllIncluded
<1>2. /\ enabled' = enabled /\ order = <<>> /\ Placed' = {}
      /\ \A id : DependsOn(id)' = DependsOn(id)
      /\ \A id, mods : Needs(id, mods)' = Needs(id, mods)
  BY <1>1 DEF IInv, Including, enabled, Placed, DependsOn, Needs, Dependencies
<1>3. indegree' \in [enabled -> Nat]
  <2>1. \A id \in enabled : Cardinality(Needs(id, enabled)) \in Nat
    BY NeedsFinite DEF IInv, ResolverTypeOK
  <2> QED
    BY <1>1, <2>1
<1>4. ResolverTypeOK'
  BY <1>1, <1>2, <1>3 DEF IInv, ResolverTypeOK, Catalog
<1>5. \A id \in enabled : DependsOn(id) \subseteq enabled
  <2>1. \A id \in enabled : visit[id] = "done"
    BY <1>1 DEF IInv, Including, VisitingOnStack, ResolverTypeOK
  <2> QED
    BY <2>1 DEF IInv, DoneIncludes
<1>6. Ordering'
  <2>1. enabled' \ Placed' = enabled
    BY <1>2
  <2>2. \A id \in enabled' : indegree'[id] = Cardinality(Needs(id, enabled' \ Placed'))
    BY <1>1, <1>2, <2>1
  <2>3. \A id \in ready' : id \notin Placed' /\ Needs(id, enabled' \ Placed') = {}
    BY <1>1, <1>2, <2>1
  <2>4. /\ \A id \in enabled' : DependsOn(id)' \subseteq enabled'
        /\ \A id \in enabled' : indegree'[id] = Cardinality(Needs(id, enabled \ Placed)')
        /\ \A id \in ready' : id \notin Placed' /\ Needs(id, enabled \ Placed)' = {}
    <3>1. \A id : Needs(id, enabled \ Placed)' = Needs(id, enabled' \ Placed')
      BY <1>1 DEF Needs, Dependencies
    <3> QED
      BY <1>2, <1>5, <2>2, <2>3, <3>1
  <2> QED
    BY <2>4 DEF Ordering
<1>7. FramesInclude' /\ DoneIncludes' /\ Including' /\ DependenciesFirst'
  BY <1>1, <1>2 DEF IInv, FramesInclude, DoneIncludes, Including, DependenciesFirst
<1> QED
  BY <1>4, <1>6, <1>7 DEF IInv

LEMMA PlaceInv == ASSUME IInv, Place PROVE IInv'
<1> DEFINE mod == Smallest(ready)
           left == enabled \ Placed
<1>1. /\ phase = "order" /\ ready # {}
      /\ order' = Append(order, mod)
      /\ indegree' = [id \in enabled |-> Lowered(id, mod)]
      /\ ready' = (ready \ {mod}) \cup Released(mod)
      /\ UNCHANGED <<catalog, requested, phase, asked, stack, visit>>
  BY DEF Place
<1>2. /\ ready \subseteq enabled /\ enabled \subseteq Nat /\ order \in Seq(enabled)
      /\ enabled \subseteq DOMAIN catalog
  BY ProblemsAssumption DEF IInv, ResolverTypeOK, Catalog
<1>3. mod \in ready
  BY <1>1, <1>2, SmallestIn
<1> HIDE DEF mod
<1>4. /\ \A id \in enabled : DependsOn(id) \subseteq enabled
      /\ \A id \in enabled : indegree[id] = Cardinality(Needs(id, left))
      /\ \A id \in ready : id \notin Placed /\ Needs(id, left) = {}
  BY <1>1 DEF IInv, Ordering
<1>5. mod \in left
  BY <1>2, <1>3, <1>4
<1>6. /\ order' \in Seq(enabled) /\ Len(order) \in Nat
      /\ DOMAIN order = 1 .. Len(order) /\ DOMAIN order' = 1 .. Len(order) + 1
      /\ order'[Len(order) + 1] = mod
      /\ \A i \in 1 .. Len(order) : order'[i] = order[i]
  BY <1>1, <1>2, <1>3, AppendParts
<1>7. /\ enabled' = enabled
      /\ Placed' = Placed \cup {mod}
      /\ \A id : DependsOn(id)' = DependsOn(id)
      /\ \A id : Needs(id, enabled \ Placed)' = Needs(id, left \ {mod})
  <2>1. enabled' = enabled /\ \A id : Dependencies(id)' = Dependencies(id)
    BY <1>1 DEF enabled, Dependencies
  <2>2. Placed' = Placed \cup {mod}
    BY <1>6 DEF Placed
  <2>3. enabled' \ Placed' = left \ {mod}
    BY <2>1, <2>2
  <2> QED
    BY <2>1, <2>2, <2>3 DEF DependsOn, Needs
\* The mods a placed mod depends on are placed.
<1>8. ASSUME NEW id \in Placed, NEW d \in DependsOn(id)
      PROVE  d \in Placed
  <2>1. PICK i \in 1 .. Len(order) : order[i] = id
    BY <1>6 DEF Placed
  <2>2. PICK j \in 1 .. i - 1 : order[j] = d
    BY <1>6, <2>1 DEF IInv, DependenciesFirst
  <2> QED
    BY <1>6, <2>1, <2>2 DEF Placed
<1>9. \A id \in enabled : Lowered(id, mod) = Cardinality(Needs(id, left \ {mod}))
  BY <1>4, <1>5, LoweredCounts DEF IInv
<1>10. \A id \in enabled : /\ IsFiniteSet(Needs(id, left \ {mod}))
                           /\ Cardinality(Needs(id, left \ {mod})) \in Nat
  BY <1>2, NeedsFinite DEF IInv
<1>11. ASSUME NEW id \in Released(mod)
       PROVE  /\ id \in enabled /\ id \notin Placed \cup {mod}
              /\ Needs(id, left \ {mod}) = {}
  <2>1. id \in enabled /\ Needs(id, {mod}) # {} /\ Lowered(id, mod) = 0
    BY DEF Released
  <2>2. mod \in DependsOn(id) /\ Needs(id, left) # {}
    BY <1>5, <2>1 DEF Needs, DependsOn
  <2>3. id \notin Placed
    BY <1>5, <1>8, <2>2
  <2>4. id # mod
    BY <1>3, <1>4, <2>2
  <2>5. Cardinality(Needs(id, left \ {mod})) = 0
    BY <1>9, <2>1
  <2>6. Needs(id, left \ {mod}) = {}
    BY <1>10, <2>1, <2>5, FS_EmptySet
  <2> QED
    BY <2>1, <2>3, <2>4, <2>6
<1>12. ASSUME NEW id \in ready \ {mod}
       PROVE  /\ id \in enabled /\ id \notin Placed \cup {mod}
              /\ Needs(id, left \ {mod}) = {}
  BY <1>2, <1>4 DEF Needs
<1>13. ResolverTypeOK'
  <2>1. indegree' \in [enabled -> Nat]
    BY <1>1, <1>9, <1>10
  <2>2. ready' \subseteq enabled
    BY <1>1, <1>11, <1>12
  <2> QED
    BY <1>1, <1>6, <1>7, <2>1, <2>2 DEF IInv, ResolverTypeOK, Catalog
<1>14. Ordering'
  <2>1. \A id \in enabled : indegree'[id] = Cardinality(Needs(id, left \ {mod}))
    BY <1>1, <1>9
  <2>2. \A id \in ready' : id \notin Placed' /\ Needs(id, left \ {mod}) = {}
    BY <1>1, <1>7, <1>11, <1>12
  <2> HIDE DEF left
  <2>3. /\ \A id \in enabled' : DependsOn(id)' \subseteq enabled'
        /\ \A id \in enabled' : indegree'[id] = Cardinality(Needs(id, enabled \ Placed)')
        /\ \A id \in ready' : id \notin Placed' /\ Needs(id, enabled \ Placed)' = {}
    BY <1>4, <1>7, <2>1, <2>2
  <2> QED
    BY <2>3 DEF Ordering
<1>15. DependenciesFirst'
  <2>1. DependsOn(mod) \subseteq Placed
    BY <1>2, <1>3, <1>4 DEF Needs, DependsOn
  <2>2. ASSUME NEW i \in DOMAIN order', NEW d \in DependsOn(order'[i])
        PROVE  \E j \in 1 .. i - 1 : order'[j] = d
    <3>1. CASE i = Len(order) + 1
      BY <1>6, <2>1, <2>2, <3>1 DEF Placed
    <3>2. CASE i # Len(order) + 1
      <4>1. i \in DOMAIN order /\ order'[i] = order[i]
        BY <1>6, <3>2
      <4>2. PICK j \in 1 .. i - 1 : order[j] = d
        BY <2>2, <4>1 DEF IInv, DependenciesFirst
      <4> QED
        BY <1>6, <4>1, <4>2
    <3> QED
      BY <3>1, <3>2
  <2> QED
    BY <1>7, <2>2 DEF DependenciesFirst
<1>16. FramesInclude' /\ DoneIncludes' /\ Including'
  BY <1>1, <1>7 DEF IInv, FramesInclude, DoneIncludes, Including, Dependencies
<1> QED
  BY <1>13, <1>14, <1>15, <1>16 DEF IInv

LEMMA FinishInv == ASSUME IInv, Finish PROVE IInv'
<1>1. /\ phase = "order" /\ phase' \in {"resolved", "failed"}
      /\ UNCHANGED <<catalog, requested, asked, stack, visit, indegree, ready, order>>
  BY DEF Finish
<1>2. enabled' = enabled /\ Placed' = Placed
  BY <1>1 DEF enabled, Placed
<1>3. ResolverTypeOK'
  BY <1>1, <1>2 DEF IInv, ResolverTypeOK, Catalog
<1>4. Ordering'
  <2>1. /\ \A id : DependsOn(id)' = DependsOn(id)
        /\ \A id : Needs(id, enabled \ Placed)' = Needs(id, enabled \ Placed)
    BY <1>1, <1>2 DEF DependsOn, Dependencies, Needs
  <2> QED
    BY <1>1, <1>2, <2>1 DEF IInv, Ordering
<1> QED
  BY <1>1, <1>2, <1>3, <1>4 DEF IInv, FramesInclude, DoneIncludes, Including,
     DependenciesFirst, DependsOn, Dependencies

\* What the loader does leaves the resolver's state alone.
LEMMA StepInv == IInv /\ [Next]_vars => IInv'
<1> SUFFICES ASSUME IInv, [Next]_vars PROVE IInv'
  OBVIOUS
<1>1. CASE Resolve
  BY <1>1, FailInv, AlreadyIncludedInv, IncludeModInv, IncludedInv,
     CountDependenciesInv, PlaceInv, FinishInv
     DEF Resolve, Missing, WrongVersion, DependencyCycle, WrongApi, Conflicting
<1>2. CASE UNCHANGED resolver
  BY <1>2 DEF IInv, resolver, ResolverTypeOK, Catalog, enabled, FramesInclude, DoneIncludes,
     Including, VisitingOnStack, Ordering, Placed, DependenciesFirst, DependsOn,
     Dependencies, Needs
<1>3. Resolve \/ UNCHANGED resolver
  BY DEF Next, vars, Load, LoadNativeMods, SkipData, NotOpened, OpenLibrary, Rejected,
     OnLoad, Replace, Destroy, Unload, Unloaded
<1> QED
  BY <1>1, <1>2, <1>3

-----------------------------------------------------------------------------
(* Requests and what they reach                                            *)

\* The j-th dependency of a mod, if it is there, has the version asked for.
Fits(id, j) ==
    Matches(Dependencies(id)[j].requirement, catalog[Dependencies(id)[j].id].version)
AllFit(id) == \A j \in DOMAIN Dependencies(id) : Fits(id, j)
Requested == {requested[i] : i \in DOMAIN requested}

\* Nothing is included that was not asked for, or that does not fit.
OnlyWanted ==
    /\ enabled \subseteq Closure
    /\ \A id \in enabled :
        /\ ApiCompatible(catalog[id].api_version)
        /\ visit[id] = "done" => AllFit(id)
    /\ \A i \in 1 .. asked : requested[i] \in enabled

\* The stack is a way through the dependencies.
Way ==
    \A i \in DOMAIN stack :
        /\ \A j \in 1 .. stack[i].done : Fits(stack[i].id, j)
        /\ i > 1 => stack[i].id \in DependsOn(stack[i - 1].id)

\* A mod that is not placed is ready or waits for another that is not.
Waiting ==
    phase \in {"order", "resolved"} =>
        /\ Requested \subseteq enabled
        /\ \A id \in enabled : AllFit(id) /\ catalog[id].conflicts \cap enabled = {}
        /\ \A id \in enabled \ Placed : id \in ready \/ Needs(id, enabled \ Placed) # {}
        /\ phase = "resolved" => ready = {}

Once == \A i, j \in DOMAIN order : order[i] = order[j] => i = j

ExactInv == OnlyWanted /\ Way /\ Waiting /\ Once /\ ResolutionExact

LEMMA RequestedType ==
    ASSUME ResolverTypeOK
    PROVE  /\ Requested \in SUBSET Ids /\ Catalog(catalog)
           /\ \A id \in DOMAIN catalog : DependsOn(id) \in SUBSET Ids
<1>1. requested \in Seq(Ids) /\ Catalog(catalog)
  BY DEF ResolverTypeOK
<1>2. ASSUME NEW id \in DOMAIN catalog
      PROVE  DependsOn(id) \in SUBSET Ids
  <2>1. Onward({id}) \in SUBSET Ids
    BY <1>1, OnwardType
  <2> QED
    BY <2>1 DEF Onward
<1> QED
  BY <1>1, <1>2 DEF Requested

\* The closure of the request has all that its mods depend on.
LEMMA ClosureCloses ==
    ASSUME ResolverTypeOK
    PROVE  /\ Requested \subseteq Closure
           /\ \A id \in Closure \cap DOMAIN catalog : DependsOn(id) \subseteq Closure
<1>1. Closure = Reach(Requested)
  BY DEF Closure, Requested
<1> HIDE DEF Closure
<1>2. Requested \subseteq Closure /\ Onward(Closure) \subseteq Closure
  BY <1>1, RequestedType, ReachLeast
<1> QED
  BY <1>2 DEF Onward

\* What a mod depends on, directly or not.
LEMMA AllNeedsCloses ==
    ASSUME ResolverTypeOK, NEW id \in DOMAIN catalog
    PROVE  /\ DependsOn(id) \subseteq AllNeeds(id)
           /\ \A d \in AllNeeds(id) \cap DOMAIN catalog : DependsOn(d) \subseteq AllNeeds(id)
           /\ \A d \in AllNeeds(id) \cap DOMAIN catalog : AllNeeds(d) \subseteq AllNeeds(id)
           /\ AllNeeds(id) \subseteq Ids
<1> DEFINE X == AllNeeds(id)
<1>1. DependsOn(id) \in SUBSET Ids /\ Catalog(catalog)
  BY RequestedType
<1>2. DependsOn(id) \subseteq X /\ Onward(X) \subseteq X /\ X \subseteq Ids
  BY <1>1, ReachLeast DEF AllNeeds
<1> HIDE DEF X
<1>3. \A d \in X \cap DOMAIN catalog : DependsOn(d) \subseteq X
  BY <1>2 DEF Onward
<1>4. ASSUME NEW d \in X \cap DOMAIN catalog
      PROVE  AllNeeds(d) \subseteq X
  <2>1. DependsOn(d) \in SUBSET Ids
    BY RequestedType
  <2>2. Reach(DependsOn(d)) \subseteq X
    BY <1>1, <1>2, <1>3, <2>1, ReachLeast
  <2> QED
    BY <2>2 DEF AllNeeds
<1> QED
  BY <1>2, <1>3, <1>4 DEF X

-----------------------------------------------------------------------------
(* Failures are justified                                                  *)

\* A call is only ever made for a mod of the closure.
LEMMA WantedInClosure ==
    ASSUME IInv, ExactInv, Calling
    PROVE  /\ Wanted \in Closure
           /\ stack # <<>> => /\ Top.id \in Closure \cap DOMAIN catalog
                              /\ Top.done + 1 \in DOMAIN Dependencies(Top.id)
                              /\ Wanted = Dependencies(Top.id)[Top.done + 1].id
                              /\ Wanted \in DependsOn(Top.id)
<1>0. ResolverTypeOK
  BY DEF IInv
<1>1. CASE stack = <<>>
  <2>1. asked + 1 \in DOMAIN requested /\ Wanted = requested[asked + 1]
    BY <1>0, <1>1 DEF Calling, Wanted, ResolverTypeOK
  <2> QED
    BY <1>0, <1>1, <2>1, ClosureCloses DEF Requested
<1>2. CASE stack # <<>>
  <2>1. Top.id \in enabled /\ Top.done \in Nat
    BY <1>0, <1>2, StackParts
  <2>2. Top.id \in Closure \cap DOMAIN catalog
    BY <1>0, <2>1 DEF ExactInv, OnlyWanted, ResolverTypeOK
  <2>3. /\ Top.done < Len(Dependencies(Top.id)) /\ Wanted = NextDependency.id
        /\ Dependencies(Top.id) \in Seq(Dependency)
    BY <1>0, <1>2, <2>2, ManifestType DEF Calling, Wanted
  <2>4. /\ Top.done + 1 \in DOMAIN Dependencies(Top.id)
        /\ Wanted = Dependencies(Top.id)[Top.done + 1].id
    BY <2>1, <2>3 DEF NextDependency
  <2>5. Wanted \in DependsOn(Top.id)
    BY <2>4 DEF DependsOn
  <2> QED
    BY <1>0, <2>2, <2>4, <2>5, ClosureCloses
<1> QED
  BY <1>1, <1>2

\* From a mod on the stack to its top there is a way through the dependencies.
LEMMA StackLeads ==
    ASSUME IInv, ExactInv, stack # <<>>, NEW i \in DOMAIN stack
    PROVE  Top.id = stack[i].id \/ Top.id \in AllNeeds(stack[i].id)
<1>0. ResolverTypeOK
  BY DEF IInv
<1>1. /\ Len(stack) \in Nat \ {0} /\ DOMAIN stack = 1 .. Len(stack)
      /\ \A k \in DOMAIN stack : stack[k].id \in enabled
  <2>1. stack \in Seq(Frame)
    BY <1>0 DEF ResolverTypeOK, Frame
  <2>2. \A k \in DOMAIN stack : stack[k] \in Frame
    BY <2>1
  <2>3. \A f \in Frame : f.id \in enabled
    BY DEF Frame
  <2> QED
    BY <1>0, <2>2, <2>3, StackParts
<1>2. enabled \subseteq DOMAIN catalog
  BY <1>0 DEF ResolverTypeOK
<1> DEFINE from == stack[i].id
           P == {k \in Nat : i + k \in DOMAIN stack =>
                    stack[i + k].id = from \/ stack[i + k].id \in AllNeeds(from)}
<1>3. 0 \in P
  BY <1>1
<1>4. ASSUME NEW k \in Nat, k \in P
      PROVE  k + 1 \in P
  <2> SUFFICES ASSUME i + (k + 1) \in DOMAIN stack
               PROVE  \/ stack[i + (k + 1)].id = from
                      \/ stack[i + (k + 1)].id \in AllNeeds(from)
    OBVIOUS
  <2> DEFINE m == i + (k + 1)
  <2>1. m \in DOMAIN stack /\ m > 1 /\ m - 1 = i + k /\ i + k \in DOMAIN stack
    BY <1>1
  <2>2. stack[m].id \in DependsOn(stack[m - 1].id)
    BY <2>1 DEF ExactInv, Way
  <2>3. stack[i + k].id = from \/ stack[i + k].id \in AllNeeds(from)
    BY <1>4, <2>1
  <2>4. from \in DOMAIN catalog /\ stack[i + k].id \in DOMAIN catalog
    BY <1>1, <1>2, <2>1
  <2> HIDE DEF m, from
  <2>5. stack[m].id \in AllNeeds(from)
    BY <1>0, <2>1, <2>2, <2>3, <2>4, AllNeedsCloses
  <2> QED
    BY <2>5 DEF m
<1>5. Nat \subseteq P
  <2> HIDE DEF P
  <2> QED
    BY <1>3, <1>4, SetInduction
<1>6. Len(stack) - i \in Nat /\ i + (Len(stack) - i) = Len(stack) /\ Len(stack) \in DOMAIN stack
  BY <1>1
<1>7. Len(stack) - i \in P
  BY <1>5, <1>6
<1> QED
  BY <1>6, <1>7 DEF Top

LEMMA FailuresJustified ==
    ASSUME IInv, ExactInv,
           Missing \/ WrongVersion \/ DependencyCycle \/ WrongApi \/ Conflicting
    PROVE  ~Resolvable
<1>0. ResolverTypeOK
  BY DEF IInv
<1>1. CASE Missing
  BY <1>1, WantedInClosure DEF Missing, Resolvable
<1>2. CASE WrongVersion
  <2>1. Calling /\ stack # <<>>
        /\ ~Matches(NextDependency.requirement, catalog[Wanted].version)
    BY <1>2 DEF WrongVersion, VersionFits
  <2>2. /\ Top.id \in Closure /\ Top.done + 1 \in DOMAIN Dependencies(Top.id)
        /\ Wanted = Dependencies(Top.id)[Top.done + 1].id
    BY <2>1, WantedInClosure
  <2> QED
    BY <2>1, <2>2 DEF Resolvable, NextDependency
<1>3. CASE DependencyCycle
  <2>1. Calling /\ Wanted \in enabled /\ visit[Wanted] = "visiting" /\ phase = "include"
    BY <1>3 DEF DependencyCycle, Found, UnderWay, Calling
  <2>2. PICK i \in DOMAIN stack : stack[i].id = Wanted
    BY <2>1 DEF IInv, Including, VisitingOnStack
  <2>3. stack # <<>>
    BY <2>2
  <2>4. Top.id = Wanted \/ Top.id \in AllNeeds(Wanted)
    BY <2>2, <2>3, StackLeads
  <2>5. /\ Wanted \in Closure /\ Wanted \in DependsOn(Top.id)
        /\ Top.id \in DOMAIN catalog /\ Wanted \in DOMAIN catalog
    BY <1>0, <2>1, <2>3, WantedInClosure DEF ResolverTypeOK
  <2>6. Wanted \in AllNeeds(Wanted)
    BY <1>0, <2>4, <2>5, AllNeedsCloses
  <2> QED
    BY <2>5, <2>6 DEF Resolvable
<1>4. CASE WrongApi
  <2>1. Wanted \in Closure /\ ~ApiCompatible(catalog[Wanted].api_version)
    BY <1>4, WantedInClosure DEF WrongApi, Found
  <2> QED
    BY <2>1 DEF Resolvable
<1>5. CASE Conflicting
  <2>1. PICK id \in enabled : catalog[id].conflicts \cap enabled # {}
    BY <1>5 DEF Conflicting, Conflict
  <2>2. enabled \subseteq Closure
    BY DEF ExactInv, OnlyWanted
  <2> QED
    BY <2>1, <2>2 DEF Resolvable
<1> QED
  BY <1>1, <1>2, <1>3, <1>4, <1>5


-----------------------------------------------------------------------------
(* Exactly what was asked for                                              *)

\* What a request means does not change while it is resolved.
LEMMA SameGiven ==
    ASSUME UNCHANGED <<catalog, requested>>
    PROVE  /\ \A ids : Reach(ids)' = Reach(ids)
           /\ \A id : Dependencies(id)' = Dependencies(id) /\ DependsOn(id)' = DependsOn(id)
           /\ \A id : AllNeeds(id)' = AllNeeds(id)
           /\ Requested' = Requested /\ Closure' = Closure
           /\ \A id, j : Fits(id, j)' <=> Fits(id, j)
           /\ \A id : AllFit(id)' <=> AllFit(id)
           /\ Resolvable' <=> Resolvable
<1>1. catalog' = catalog /\ requested' = requested
  OBVIOUS
<1>2. \A id : Dependencies(id)' = Dependencies(id) /\ DependsOn(id)' = DependsOn(id)
  BY <1>1 DEF DependsOn, Dependencies
<1>3. Requested' = Requested /\ \A id, j : Fits(id, j)' <=> Fits(id, j)
  BY <1>1 DEF Requested, Fits, Dependencies
<1>4. \A id : AllFit(id)' <=> AllFit(id)
  BY <1>1 DEF AllFit, Fits, Dependencies
<1>5. ASSUME NEW ids PROVE Reach(ids)' = Reach(ids)
  BY <1>1 DEF Reach, Onward, DependsOn, Dependencies
<1>6. ASSUME NEW id PROVE AllNeeds(id)' = AllNeeds(id)
  BY <1>1 DEF AllNeeds, Reach, Onward, DependsOn, Dependencies
<1>7. Closure' = Closure
  BY <1>1 DEF Closure, Reach, Onward, DependsOn, Dependencies
<1>8. Resolvable' <=> Resolvable
  BY <1>1, <1>2, <1>6, <1>7 DEF Resolvable
<1> QED
  BY <1>2, <1>3, <1>4, <1>5, <1>6, <1>7, <1>8

LEMMA InitialExact == Init => ExactInv
<1> SUFFICES ASSUME NEW p \in Problems, Given(p) PROVE ExactInv
  BY DEF Init
<1>1. enabled = {} /\ phase = "include" /\ stack = <<>> /\ order = <<>> /\ asked = 0
  BY DEF Given, enabled
<1> QED
  BY <1>1 DEF ExactInv, OnlyWanted, Way, Waiting, Once, ResolutionExact

LEMMA FailExact == ASSUME IInv, ExactInv, Fail, ~Resolvable PROVE ExactInv'
<1>1. UNCHANGED <<catalog, requested, asked, stack, visit, indegree, ready, order>>
      /\ phase' = "failed" /\ enabled' = enabled
  BY DEF Fail, enabled
<1> QED
  BY <1>1, SameGiven DEF ExactInv, OnlyWanted, Way, Waiting, Once, ResolutionExact

\* The dependency a caller has behind it fits.
LEMMA BehindFits ==
    ASSUME IInv, ExactInv, Found
    PROVE  \A i \in DOMAIN stack : \A j \in 1 .. Behind[i].done : Fits(stack[i].id, j)
<1> SUFFICES ASSUME NEW i \in DOMAIN stack, NEW j \in 1 .. Behind[i].done
             PROVE  Fits(stack[i].id, j)
  OBVIOUS
<1>0. ResolverTypeOK /\ stack # <<>>
  BY DEF IInv
<1>1. CASE i = Len(stack)
  <2>1. Top = stack[i] /\ Behind[i].done = Top.done + 1 /\ Top.done \in Nat
    BY <1>0, <1>1, BehindShape, StackParts DEF Top
  <2>2. CASE j = Top.done + 1
    <3>1. Wanted = Dependencies(Top.id)[j].id /\ NextDependency = Dependencies(Top.id)[j]
      BY <1>0, <2>2 DEF Wanted, NextDependency
    <3>2. Matches(NextDependency.requirement, catalog[Wanted].version)
      BY <1>0 DEF Found, VersionFits
    <3> QED
      BY <2>1, <3>1, <3>2 DEF Fits
  <2>3. CASE j # Top.done + 1
    <3>1. j \in 1 .. stack[i].done
      BY <2>1, <2>3
    <3> QED
      BY <3>1 DEF ExactInv, Way
  <2> QED
    BY <2>2, <2>3
<1>2. CASE i # Len(stack)
  <2>1. Behind[i].done = stack[i].done
    BY <1>0, <1>2, BehindShape
  <2> QED
    BY <2>1 DEF ExactInv, Way
<1> QED
  BY <1>1, <1>2

\* The requested mods turned to are included once the one called for is.
LEMMA AskedStay ==
    ASSUME IInv, ExactInv, Found, Turned, UNCHANGED requested,
           enabled \subseteq enabled', Wanted \in enabled'
    PROVE  \A i \in 1 .. asked' : requested'[i] \in enabled'
<1>1. asked \in 0 .. Len(requested)
  BY DEF IInv, ResolverTypeOK
<1>2. \A i \in 1 .. asked : requested[i] \in enabled'
  BY DEF ExactInv, OnlyWanted
<1>3. CASE stack = <<>>
  BY <1>1, <1>2, <1>3 DEF Turned, Wanted
<1>4. CASE stack # <<>>
  BY <1>1, <1>2, <1>4 DEF Turned
<1> QED
  BY <1>3, <1>4

LEMMA AlreadyIncludedExact == ASSUME IInv, ExactInv, AlreadyIncluded PROVE ExactInv'
<1>1. /\ Found /\ Wanted \in enabled /\ stack' = Behind /\ Turned /\ phase = "include"
      /\ UNCHANGED <<catalog, requested, phase, visit, indegree, ready, order>>
      /\ enabled' = enabled
  BY DEF AlreadyIncluded, enabled, Found, Calling
<1>2. OnlyWanted'
  <2>1. \A i \in 1 .. asked' : requested'[i] \in enabled'
    BY <1>1, AskedStay
  <2> QED
    BY <1>1, <2>1, SameGiven DEF ExactInv, OnlyWanted
<1>3. Way'
  <2>1. /\ DOMAIN stack' = DOMAIN stack /\ \A i \in DOMAIN stack : stack'[i].id = stack[i].id
        /\ \A i \in DOMAIN stack : \A j \in 1 .. stack'[i].done : Fits(stack[i].id, j)
    BY <1>1, BehindShape, BehindFits DEF IInv
  <2>2. \A i \in DOMAIN stack : i > 1 => i - 1 \in DOMAIN stack
    <3>1. stack \in Seq(Frame)
      BY DEF IInv, ResolverTypeOK, Frame
    <3> QED
      BY <3>1
  <2> QED
    BY <1>1, <2>1, <2>2, SameGiven DEF ExactInv, Way
<1>4. Waiting' /\ Once' /\ ResolutionExact'
  BY <1>1 DEF ExactInv, Waiting, Once, ResolutionExact
<1> QED
  BY <1>2, <1>3, <1>4 DEF ExactInv

LEMMA IncludeModExact == ASSUME IInv, ExactInv, IncludeMod PROVE ExactInv'
<1> DEFINE called == [id |-> Wanted, done |-> 0]
<1>1. /\ Found /\ Wanted \notin enabled /\ phase = "include" /\ Turned
      /\ ApiCompatible(catalog[Wanted].api_version)
      /\ visit' = [id \in enabled \cup {Wanted} |->
                    IF id = Wanted THEN "visiting" ELSE visit[id]]
      /\ stack' = Append(Behind, called)
      /\ UNCHANGED <<catalog, requested, phase, indegree, ready, order>>
      /\ enabled' = enabled \cup {Wanted}
  BY DEF IncludeMod, enabled, Found, Calling
<1>2. OnlyWanted'
  <2>1. \A i \in 1 .. asked' : requested'[i] \in enabled'
    BY <1>1, AskedStay
  <2>2. Wanted \in Closure
    BY <1>1, WantedInClosure DEF Found
  <2>3. ASSUME NEW id \in enabled'
        PROVE  /\ ApiCompatible(catalog'[id].api_version)
               /\ visit'[id] = "done" => AllFit(id)'
    <3>1. CASE id = Wanted
      BY <1>1, <3>1
    <3>2. CASE id # Wanted
      <4>1. id \in enabled /\ visit'[id] = visit[id]
        BY <1>1, <3>2
      <4>2. AllFit(id)' <=> AllFit(id)
        BY <1>1, SameGiven
      <4> QED
        BY <1>1, <4>1, <4>2 DEF ExactInv, OnlyWanted
    <3> QED
      BY <3>1, <3>2
  <2>4. enabled' \subseteq Closure'
    BY <1>1, <2>2, SameGiven DEF ExactInv, OnlyWanted
  <2> QED
    BY <2>1, <2>3, <2>4 DEF OnlyWanted
<1>3. Way'
  <2> DEFINE T == [id : enabled', done : Nat]
  <2>1. Behind \in Seq(Frame) /\ called \in T /\ Frame \subseteq T
    BY <1>1, FoundType DEF Frame
  <2> HIDE DEF called, T
  <2>2. Behind \in Seq(T)
    BY <2>1
  <2>3. /\ Len(Behind) \in Nat /\ DOMAIN stack' = 1 .. Len(Behind) + 1
        /\ stack'[Len(Behind) + 1] = called /\ DOMAIN Behind = 1 .. Len(Behind)
        /\ \A i \in 1 .. Len(Behind) : stack'[i] = Behind[i]
    <3> HIDE DEF Behind
    <3>1. /\ Len(Behind) \in Nat /\ DOMAIN Append(Behind, called) = 1 .. Len(Behind) + 1
          /\ Append(Behind, called)[Len(Behind) + 1] = called
          /\ \A i \in 1 .. Len(Behind) : Append(Behind, called)[i] = Behind[i]
      BY <2>1, <2>2, AppendParts
    <3>2. DOMAIN Behind = 1 .. Len(Behind)
      BY <2>1
    <3> QED
      BY <1>1, <3>1, <3>2
  <2>4. /\ DOMAIN Behind = DOMAIN stack /\ \A i \in DOMAIN stack : Behind[i].id = stack[i].id
        /\ \A i \in DOMAIN stack : \A j \in 1 .. Behind[i].done : Fits(stack[i].id, j)
    BY <1>1, BehindShape, BehindFits DEF IInv
  <2>5. ASSUME NEW i \in DOMAIN stack'
        PROVE  /\ \A j \in 1 .. stack'[i].done : Fits(stack'[i].id, j)
               /\ i > 1 => stack'[i].id \in DependsOn(stack'[i - 1].id)
    <3>1. CASE i = Len(Behind) + 1
      <4>1. stack'[i].done = 0 /\ stack'[i].id = Wanted
        BY <2>3, <3>1 DEF called
      <4>2. ASSUME i > 1
            PROVE  Wanted \in DependsOn(stack'[i - 1].id)
        <5>1. i - 1 \in DOMAIN stack /\ stack'[i - 1].id = stack[i - 1].id
          BY <2>3, <2>4, <3>1, <4>2
        <5>2. stack # <<>> /\ DOMAIN stack = 1 .. Len(stack) /\ Len(stack) \in Nat
          BY <5>1, StackParts DEF IInv
        <5>3. i - 1 = Len(stack)
          <6>1. DOMAIN Behind = 1 .. Len(stack)
            BY <2>4, <5>2
          <6>2. i - 1 = Len(Behind) /\ i - 1 >= 1 /\ Len(Behind) \in Nat
            BY <2>3, <3>1, <4>2
          <6>3. Len(Behind) \in DOMAIN Behind
            BY <2>3, <6>2
          <6>4. Len(stack) \in DOMAIN Behind
            BY <5>2, <6>1, <6>2, <6>3
          <6>5. Len(Behind) <= Len(stack) /\ Len(stack) <= Len(Behind)
            BY <2>3, <6>1, <6>3, <6>4
          <6> QED
            BY <5>2, <6>2, <6>5
        <5>4. Wanted \in DependsOn(Top.id)
          BY <1>1, <5>2, WantedInClosure DEF Found
        <5> QED
          BY <5>1, <5>3, <5>4 DEF Top
      <4> QED
        BY <4>1, <4>2
    <3>2. CASE i # Len(Behind) + 1
      <4>1. i \in DOMAIN stack /\ stack'[i] = Behind[i]
        BY <2>3, <2>4, <3>2
      <4>2. i > 1 => i - 1 \in DOMAIN stack /\ stack'[i - 1] = Behind[i - 1]
        BY <2>3, <2>4, <3>2
      <4> QED
        BY <2>4, <4>1, <4>2 DEF ExactInv, Way
    <3> QED
      BY <3>1, <3>2
  <2> QED
    BY <1>1, <2>5, SameGiven DEF Way
<1>4. Waiting' /\ Once' /\ ResolutionExact'
  BY <1>1 DEF ExactInv, Waiting, Once, ResolutionExact
<1> QED
  BY <1>2, <1>3, <1>4 DEF ExactInv

LEMMA IncludedExact == ASSUME IInv, ExactInv, Included PROVE ExactInv'
<1>1. /\ phase = "include" /\ stack # <<>> /\ Top.done = Len(Dependencies(Top.id))
      /\ visit' = [visit EXCEPT ![Top.id] = "done"]
      /\ stack' = Callers /\ enabled' = enabled
      /\ UNCHANGED <<catalog, requested, phase, asked, indegree, ready, order>>
  BY DEF Included, enabled
<1>2. /\ Len(stack) \in Nat \ {0} /\ DOMAIN stack = 1 .. Len(stack)
      /\ Top.id \in enabled /\ Top.id \in DOMAIN catalog
      /\ Callers \in Seq(Frame) /\ Len(Callers) = Len(stack) - 1
      /\ \A i \in 1 .. Len(stack) - 1 : Callers[i] = stack[i]
  BY <1>1, StackParts DEF IInv, ResolverTypeOK
<1>3. AllFit(Top.id)
  <2>1. Len(stack) \in DOMAIN stack /\ Top = stack[Len(stack)]
    BY <1>2 DEF Top
  <2>2. \A j \in 1 .. Top.done : Fits(Top.id, j)
    BY <2>1 DEF ExactInv, Way
  <2>3. DOMAIN Dependencies(Top.id) = 1 .. Top.done
    BY <1>1, <1>2, ManifestType DEF IInv
  <2> QED
    BY <2>2, <2>3 DEF AllFit
<1>4. OnlyWanted'
  <2>1. ASSUME NEW id \in enabled, visit'[id] = "done"
        PROVE  AllFit(id)
    BY <1>1, <1>2, <1>3, <2>1 DEF ExactInv, OnlyWanted, enabled
  <2> QED
    BY <1>1, <2>1, SameGiven DEF ExactInv, OnlyWanted
<1>5. Way'
  <2>1. /\ DOMAIN stack' = 1 .. Len(stack) - 1
        /\ \A i \in 1 .. Len(stack) - 1 : stack'[i] = stack[i]
    BY <1>1, <1>2
  <2>2. \A i \in DOMAIN stack' : /\ i \in DOMAIN stack /\ stack'[i] = stack[i]
                                 /\ i > 1 => stack'[i - 1] = stack[i - 1]
    BY <1>2, <2>1
  <2> QED
    BY <1>1, <2>2, SameGiven DEF ExactInv, Way
<1>6. Waiting' /\ Once' /\ ResolutionExact'
  BY <1>1 DEF ExactInv, Waiting, Once, ResolutionExact
<1> QED
  BY <1>4, <1>5, <1>6 DEF ExactInv

LEMMA CountDependenciesExact == ASSUME IInv, ExactInv, CountDependencies PROVE ExactInv'
<1>1. /\ phase = "include" /\ stack = <<>> /\ asked = Len(requested) /\ phase' = "order"
      /\ ~Conflict
      /\ ready' = {id \in enabled : Needs(id, enabled) = {}}
      /\ UNCHANGED <<catalog, requested, asked, stack, visit, order>>
      /\ enabled' = enabled /\ order = <<>>
  BY DEF CountDependencies, AllIncluded, enabled, IInv, Including
<1>2. \A id \in enabled : visit[id] = "done"
  BY <1>1 DEF IInv, Including, VisitingOnStack, ResolverTypeOK
<1>3. Requested \subseteq enabled
  <2>1. DOMAIN requested = 1 .. asked
    BY <1>1 DEF IInv, ResolverTypeOK
  <2> QED
    BY <2>1 DEF Requested, ExactInv, OnlyWanted
<1>4. \A id \in enabled : AllFit(id) /\ catalog[id].conflicts \cap enabled = {}
  BY <1>1, <1>2 DEF ExactInv, OnlyWanted, Conflict
<1>5. Placed' = {} /\ enabled' \ Placed' = enabled
  BY <1>1 DEF Placed
<1>6. \A id : Needs(id, enabled \ Placed)' = Needs(id, enabled)
  BY <1>1, <1>5 DEF Needs, Dependencies
<1>7. Waiting'
  BY <1>1, <1>3, <1>4, <1>5, <1>6, SameGiven DEF Waiting
<1>8. OnlyWanted' /\ Way' /\ Once'
  BY <1>1, SameGiven DEF ExactInv, OnlyWanted, Way, Once
<1>9. ResolutionExact'
  BY <1>1 DEF ResolutionExact
<1> QED
  BY <1>7, <1>8, <1>9 DEF ExactInv

LEMMA PlaceExact == ASSUME IInv, ExactInv, Place PROVE ExactInv'
<1> DEFINE mod == Smallest(ready)
           left == enabled \ Placed
<1>1. /\ phase = "order" /\ ready # {}
      /\ order' = Append(order, mod)
      /\ ready' = (ready \ {mod}) \cup Released(mod)
      /\ UNCHANGED <<catalog, requested, phase, asked, stack, visit>>
      /\ enabled' = enabled
  BY DEF Place, enabled
<1>2. /\ ready \subseteq enabled /\ enabled \subseteq Nat /\ order \in Seq(enabled)
      /\ enabled \subseteq DOMAIN catalog
  BY ProblemsAssumption DEF IInv, ResolverTypeOK, Catalog
<1>3. mod \in ready /\ mod \in enabled
  BY <1>1, <1>2, SmallestIn
<1> HIDE DEF mod
<1>4. /\ \A id \in enabled : indegree[id] = Cardinality(Needs(id, left))
      /\ \A id \in ready : id \notin Placed
  BY <1>1 DEF IInv, Ordering
<1>5. mod \in left
  BY <1>3, <1>4
<1>6. /\ Len(order) \in Nat
      /\ DOMAIN order = 1 .. Len(order) /\ DOMAIN order' = 1 .. Len(order) + 1
      /\ order'[Len(order) + 1] = mod
      /\ \A i \in 1 .. Len(order) : order'[i] = order[i]
  BY <1>1, <1>2, <1>3, AppendParts
<1>7. Placed' = Placed \cup {mod} /\ enabled' \ Placed' = left \ {mod}
  <2>1. Placed' = Placed \cup {mod}
    BY <1>6 DEF Placed
  <2> QED
    BY <1>1, <2>1
<1>8. Once'
  <2>1. \A i \in 1 .. Len(order) : order[i] # mod
    BY <1>5, <1>6 DEF Placed
  <2>2. ASSUME NEW i \in DOMAIN order', NEW j \in DOMAIN order', order'[i] = order'[j]
        PROVE  i = j
    <3>1. (i = Len(order) + 1) <=> (j = Len(order) + 1)
      BY <1>6, <2>1, <2>2
    <3>2. CASE i = Len(order) + 1
      BY <3>1, <3>2
    <3>3. CASE i # Len(order) + 1
      <4>1. i \in DOMAIN order /\ j \in DOMAIN order
        BY <1>6, <3>1, <3>3
      <4>2. order[i] = order[j]
        BY <1>6, <2>2, <4>1
      <4> QED
        BY <4>1, <4>2 DEF ExactInv, Once
    <3> QED
      BY <3>2, <3>3
  <2> QED
    BY <2>2 DEF Once
<1>9. ASSUME NEW id \in left \ {mod}, Needs(id, left \ {mod}) = {}
      PROVE  id \in ready'
  <2>1. CASE id \in ready
    BY <1>1, <1>9, <2>1
  <2>2. CASE id \notin ready
    <3>1. Needs(id, left) # {}
      BY <1>1, <2>2 DEF ExactInv, Waiting
    <3>2. Needs(id, {mod}) # {}
      BY <1>9, <3>1 DEF Needs
    <3>3. Lowered(id, mod) = Cardinality(Needs(id, left \ {mod}))
      BY <1>4, <1>5, LoweredCounts DEF IInv
    <3>4. Lowered(id, mod) = 0
      BY <1>9, <3>3, FS_EmptySet
    <3> QED
      BY <1>1, <3>2, <3>4 DEF Released
  <2> QED
    BY <2>1, <2>2
<1>10. \A id : Needs(id, enabled \ Placed)' = Needs(id, left \ {mod})
  BY <1>1, <1>7 DEF Needs, Dependencies
<1>11. Waiting'
  BY <1>1, <1>7, <1>9, <1>10, SameGiven DEF ExactInv, Waiting
<1>12. OnlyWanted' /\ Way'
  BY <1>1, SameGiven DEF ExactInv, OnlyWanted, Way
<1>13. ResolutionExact'
  BY <1>1 DEF ResolutionExact
<1> QED
  BY <1>8, <1>11, <1>12, <1>13 DEF ExactInv

\* load_order names a mod once, so its length counts the mods placed.
LEMMA OrderCounts ==
    ASSUME ResolverTypeOK, Once
    PROVE  /\ IsFiniteSet(enabled) /\ Placed \in SUBSET enabled
           /\ Cardinality(Placed) = Len(order)
           /\ Len(order) = Cardinality(enabled) => Placed = enabled
<1>1. /\ order \in Seq(enabled) /\ enabled \in SUBSET DOMAIN catalog
      /\ IsFiniteSet(DOMAIN catalog)
  BY DEF ResolverTypeOK, Catalog
<1>2. IsFiniteSet(enabled)
  BY <1>1, FS_Subset
<1>3. /\ Len(order) \in Nat /\ DOMAIN order = 1 .. Len(order)
      /\ order \in [1 .. Len(order) -> Placed]
  BY <1>1 DEF Placed
<1>4. order \in Bijection(1 .. Len(order), Placed)
  <2>1. order \in Injection(1 .. Len(order), Placed)
    BY <1>3 DEF Once, Injection, IsInjective
  <2>2. order \in Surjection(1 .. Len(order), Placed)
    BY <1>3 DEF Surjection, Placed
  <2> QED
    BY <2>1, <2>2 DEF Bijection
<1>5. ExistsBijection(1 .. Len(order), Placed)
  BY <1>4 DEF ExistsBijection
<1>6. Cardinality(Placed) = Len(order)
  BY <1>3, <1>5, FS_CountingElements
<1>7. Placed \in SUBSET enabled
  BY <1>1, <1>3 DEF Placed
<1> QED
  BY <1>2, <1>6, <1>7, FS_Subset

\* Mods that all wait for one of them: one waits for itself.
LEMMA CycleAmong ==
    ASSUME ResolverTypeOK, NEW U \in SUBSET enabled, U # {},
           \A id \in enabled : DependsOn(id) \subseteq enabled,
           \A id \in U : DependsOn(id) \cap U # {}
    PROVE  \E id \in U : id \in AllNeeds(id)
<1>1. enabled \in SUBSET DOMAIN catalog /\ IsFiniteSet(DOMAIN catalog) /\ Catalog(catalog)
  BY DEF ResolverTypeOK, Catalog
<1>2. IsFiniteSet(enabled)
  BY <1>1, FS_Subset
<1>3. ASSUME NEW id \in U
      PROVE  /\ AllNeeds(id) \in SUBSET enabled
             /\ IsFiniteSet(AllNeeds(id)) /\ Cardinality(AllNeeds(id)) \in Nat
  <2>1. Onward(enabled) \subseteq enabled /\ DependsOn(id) \subseteq enabled
    BY <1>3 DEF Onward
  <2>2. DependsOn(id) \in SUBSET Ids
    BY <1>1, RequestedType
  <2>3. AllNeeds(id) \in SUBSET enabled
    BY <1>1, <2>1, <2>2, ReachLeast DEF AllNeeds
  <2> QED
    BY <1>2, <2>3, FS_Subset, FS_CardinalityType
<1> DEFINE counts == {Cardinality(AllNeeds(id)) : id \in U}
<1>4. PICK least \in counts : \A c \in counts : least <= c
  <2>1. counts \in SUBSET Nat /\ counts # {}
    BY <1>3
  <2> HIDE DEF counts
  <2> QED
    BY <2>1, SmallestIn
<1>5. PICK id \in U : least = Cardinality(AllNeeds(id))
  BY <1>4
<1>6. PICK d \in DependsOn(id) : d \in U
  OBVIOUS
<1>7. d \in AllNeeds(id) /\ AllNeeds(d) \in SUBSET AllNeeds(id)
  BY <1>1, <1>5, <1>6, AllNeedsCloses
<1>8. Cardinality(AllNeeds(id)) <= Cardinality(AllNeeds(d))
  BY <1>4, <1>5, <1>6
<1>9. Cardinality(AllNeeds(d)) <= Cardinality(AllNeeds(id))
  BY <1>3, <1>5, <1>7, FS_Subset
<1>10. Cardinality(AllNeeds(d)) = Cardinality(AllNeeds(id))
  BY <1>3, <1>5, <1>6, <1>8, <1>9
<1>11. AllNeeds(d) = AllNeeds(id)
  BY <1>3, <1>5, <1>7, <1>10, FS_Subset
<1> QED
  BY <1>6, <1>7, <1>11

\* All that a mod needs is before it in load_order.
LEMMA NeedsBefore ==
    ASSUME ResolverTypeOK, DependenciesFirst, NEW i \in DOMAIN order
    PROVE  AllNeeds(order[i]) \subseteq {order[j] : j \in 1 .. i - 1}
<1> DEFINE X == {order[j] : j \in 1 .. i - 1}
<1>1. /\ order \in Seq(enabled) /\ enabled \subseteq DOMAIN catalog /\ Catalog(catalog)
      /\ DOMAIN order = 1 .. Len(order) /\ Len(order) \in Nat
  BY DEF ResolverTypeOK
<1>2. ASSUME NEW k \in 1 .. i
      PROVE  DependsOn(order[k]) \subseteq X
  <2>1. k \in DOMAIN order
    BY <1>1
  <2>2. \A d \in DependsOn(order[k]) : \E j \in 1 .. k - 1 : order[j] = d
    BY <2>1 DEF DependenciesFirst
  <2> QED
    BY <1>1, <2>2
<1>3. DependsOn(order[i]) \subseteq X
  <2>1. i \in 1 .. i
    BY <1>1
  <2> HIDE DEF X
  <2> QED
    BY <1>2, <2>1
<1>4. Onward(X) \subseteq X
  <2>1. ASSUME NEW j \in 1 .. i - 1
        PROVE  DependsOn(order[j]) \subseteq X
    <3>1. j \in 1 .. i
      BY <1>1
    <3> HIDE DEF X
    <3> QED
      BY <1>2, <3>1
  <2> QED
    BY <2>1 DEF Onward
<1>5. DependsOn(order[i]) \in SUBSET Ids
  BY <1>1, RequestedType
<1> HIDE DEF X
<1>6. Reach(DependsOn(order[i])) \subseteq X
  BY <1>1, <1>3, <1>4, <1>5, ReachLeast
<1> QED
  BY <1>6 DEF AllNeeds, X

\* A set that is placed as a whole answers the request.
LEMMA PlacedAll ==
    ASSUME IInv, ExactInv, phase = "order", Len(order) = Cardinality(enabled)
    PROVE  Resolvable /\ Placed = Closure /\ Len(order) = Cardinality(Closure)
<1>0. ResolverTypeOK /\ DependenciesFirst /\ Once
  BY DEF IInv, ExactInv
<1>1. Placed = enabled
  BY <1>0, OrderCounts
<1>2. Closure = enabled
  <2>1. Onward(enabled) \subseteq enabled
    BY DEF IInv, Ordering, Onward
  <2>2. Requested \subseteq enabled
    BY DEF ExactInv, Waiting
  <2>3. Reach(Requested) \subseteq enabled
    BY <1>0, <2>1, <2>2, RequestedType, ReachLeast
  <2>4. Closure = Reach(Requested)
    BY DEF Closure, Requested
  <2> QED
    BY <2>3, <2>4 DEF ExactInv, OnlyWanted
<1>3. ASSUME NEW id \in enabled
      PROVE  id \notin AllNeeds(id)
  <2>1. PICK i \in DOMAIN order : order[i] = id
    BY <1>1 DEF Placed
  <2>2. AllNeeds(id) \subseteq {order[j] : j \in 1 .. i - 1}
    BY <1>0, <2>1, NeedsBefore
  <2>3. ASSUME NEW j \in 1 .. i - 1
        PROVE  order[j] # id
    <3>1. DOMAIN order = 1 .. Len(order) /\ Len(order) \in Nat
      BY <1>0 DEF ResolverTypeOK
    <3>2. j \in DOMAIN order /\ j # i
      BY <2>1, <3>1
    <3> QED
      BY <1>0, <2>1, <3>2 DEF Once
  <2> QED
    BY <2>2, <2>3
<1>4. \A id \in enabled : AllFit(id) /\ catalog[id].conflicts \cap enabled = {}
  BY DEF ExactInv, Waiting
<1>5. \A id \in enabled : ApiCompatible(catalog[id].api_version)
  BY DEF ExactInv, OnlyWanted
<1>6. enabled \subseteq DOMAIN catalog
  BY <1>0 DEF ResolverTypeOK
<1>7. Resolvable
  BY <1>2, <1>3, <1>4, <1>5, <1>6 DEF Resolvable, AllFit, Fits
<1> QED
  BY <1>1, <1>2, <1>7

\* Mods are left only if some of them wait for each other.
LEMMA MissedSome ==
    ASSUME IInv, ExactInv, phase = "order", ready = {}, Len(order) # Cardinality(enabled)
    PROVE  ~Resolvable
<1>0. ResolverTypeOK /\ Once
  BY DEF IInv, ExactInv
<1> DEFINE U == enabled \ Placed
<1>1. U \in SUBSET enabled /\ U # {}
  <2>1. Placed \in SUBSET enabled /\ Cardinality(Placed) = Len(order)
    BY <1>0, OrderCounts
  <2>2. Placed # enabled
    BY <2>1
  <2> QED
    BY <2>1, <2>2
<1>2. \A id \in enabled : DependsOn(id) \subseteq enabled
  BY DEF IInv, Ordering
<1>3. \A id \in U : DependsOn(id) \cap U # {}
  <2>1. \A id \in U : Needs(id, U) # {}
    BY DEF ExactInv, Waiting
  <2> QED
    BY <2>1 DEF Needs, DependsOn
<1> HIDE DEF U
<1>4. PICK id \in U : id \in AllNeeds(id)
  BY <1>0, <1>1, <1>2, <1>3, CycleAmong
<1>5. id \in Closure
  BY <1>1, <1>4 DEF ExactInv, OnlyWanted
<1> QED
  BY <1>4, <1>5 DEF Resolvable

LEMMA FinishExact == ASSUME IInv, ExactInv, Finish PROVE ExactInv'
<1>1. /\ phase = "order" /\ ready = {}
      /\ phase' = IF Len(order) = Cardinality(enabled) THEN "resolved" ELSE "failed"
      /\ UNCHANGED <<catalog, requested, asked, stack, visit, indegree, ready, order>>
      /\ enabled' = enabled /\ Placed' = Placed
  BY DEF Finish, enabled, Placed
<1>2. ResolutionExact'
  <2>1. /\ Resolvable' <=> Resolvable
        /\ Closure' = Closure
    BY <1>1, SameGiven
  <2>2. CASE Len(order) = Cardinality(enabled)
    BY <1>1, <2>1, <2>2, PlacedAll DEF ResolutionExact
  <2>3. CASE Len(order) # Cardinality(enabled)
    BY <1>1, <2>1, <2>3, MissedSome DEF ResolutionExact
  <2> QED
    BY <2>2, <2>3
<1>3. Waiting'
  <2>1. \A id : Needs(id, enabled \ Placed)' = Needs(id, enabled \ Placed)
    BY <1>1 DEF Needs, Dependencies
  <2> QED
    BY <1>1, <2>1, SameGiven DEF ExactInv, Waiting
<1>4. OnlyWanted' /\ Way' /\ Once'
  BY <1>1, SameGiven DEF ExactInv, OnlyWanted, Way, Once
<1> QED
  BY <1>2, <1>3, <1>4 DEF ExactInv

LEMMA UnchangedExact == ASSUME ExactInv, UNCHANGED resolver PROVE ExactInv'
<1>1. UNCHANGED <<catalog, requested, phase, asked, stack, visit, indegree, ready, order>>
      /\ enabled' = enabled /\ Placed' = Placed
  BY DEF resolver, enabled, Placed
<1>2. \A id : Needs(id, enabled \ Placed)' = Needs(id, enabled \ Placed)
  BY <1>1 DEF Needs, Dependencies
<1>3. ResolutionExact' /\ Waiting'
  BY <1>1, <1>2, SameGiven DEF ExactInv, Waiting, ResolutionExact
<1>4. OnlyWanted' /\ Way' /\ Once'
  BY <1>1, SameGiven DEF ExactInv, OnlyWanted, Way, Once
<1> QED
  BY <1>3, <1>4 DEF ExactInv

LEMMA StepExact == IInv /\ ExactInv /\ [Next]_vars => ExactInv'
<1> SUFFICES ASSUME IInv, ExactInv, [Next]_vars PROVE ExactInv'
  OBVIOUS
<1>1. CASE Missing \/ WrongVersion \/ DependencyCycle \/ WrongApi \/ Conflicting
  <2>1. Fail
    BY <1>1 DEF Missing, WrongVersion, DependencyCycle, WrongApi, Conflicting
  <2> QED
    BY <1>1, <2>1, FailuresJustified, FailExact
<1>2. CASE AlreadyIncluded \/ IncludeMod \/ Included
  BY <1>2, AlreadyIncludedExact, IncludeModExact, IncludedExact
<1>3. CASE CountDependencies \/ Place \/ Finish
  BY <1>3, CountDependenciesExact, PlaceExact, FinishExact
<1>4. CASE UNCHANGED resolver
  BY <1>4, UnchangedExact
<1>5. Resolve \/ UNCHANGED resolver
  BY DEF Next, vars, Load, LoadNativeMods, SkipData, NotOpened, OpenLibrary, Rejected,
     OnLoad, Replace, Destroy, Unload, Unloaded
<1> QED
  BY <1>1, <1>2, <1>3, <1>4, <1>5 DEF Resolve

-----------------------------------------------------------------------------
(* Native mods                                                             *)

\* The recursion of NativeMods goes through load_order.
LEMMA NativeModsGo ==
    ASSUME ResolverTypeOK
    PROVE  /\ NativeMods[0] = <<>>
           /\ \A n \in 0 .. Len(order) - 1 :
                NativeMods[n + 1] = IF Native(order[n + 1]) THEN Append(NativeMods[n], order[n + 1])
                                    ELSE NativeMods[n]
<1> DEFINE len == Len(order)
           S == Seq(enabled)
           turn == [k \in Nat |-> [s \in S |->
                      IF k + 1 \in DOMAIN order /\ Native(order[k + 1])
                      THEN Append(s, order[k + 1]) ELSE s]]
           Equation(f) ==
             f = [n \in 0 .. len |->
                    IF n = 0 THEN <<>>
                    ELSE IF Native(order[n]) THEN Append(f[n - 1], order[n])
                    ELSE f[n - 1]]
<1>1. len \in Nat /\ DOMAIN order = 1 .. len /\ \A k \in 1 .. len : order[k] \in enabled
  BY DEF ResolverTypeOK
<1>2. turn \in [Nat -> [S -> S]]
  <2> SUFFICES ASSUME NEW k \in Nat, NEW s \in S, k + 1 \in DOMAIN order
               PROVE  Append(s, order[k + 1]) \in S
    OBVIOUS
  <2> QED
    BY <1>1
<1> HIDE DEF len
<1>3. PICK r : IsLoop(r, S, <<>>, turn, len)
  <2>1. <<>> \in S
    OBVIOUS
  <2> HIDE DEF turn, S
  <2> QED
    BY <1>1, <1>2, <2>1, LoopExists
<1>4. ASSUME NEW n \in 0 .. len
      PROVE  r[n] = IF n = 0 THEN <<>>
                    ELSE IF Native(order[n]) THEN Append(r[n - 1], order[n])
                    ELSE r[n - 1]
  <2>1. CASE n = 0
    BY <1>3, <2>1 DEF IsLoop
  <2>2. CASE n # 0
    <3>1. /\ n - 1 \in 0 .. len - 1 /\ (n - 1) + 1 = n /\ n - 1 \in Nat
          /\ n - 1 \in 0 .. len /\ n \in DOMAIN order
      BY <1>1, <2>2
    <3>2. r[n - 1] \in S /\ r[n] = turn[n - 1][r[n - 1]]
      BY <1>3, <3>1 DEF IsLoop
    <3> QED
      BY <2>2, <3>1, <3>2
  <2> QED
    BY <2>1, <2>2
<1>5. Equation(r)
  <2>1. r = [n \in 0 .. len |-> r[n]]
    BY <1>3 DEF IsLoop
  <2> QED
    BY <1>4, <2>1
<1>6. NativeMods = CHOOSE f : Equation(f)
  BY DEF NativeMods, len
<1>7. Equation(NativeMods)
  BY <1>5, <1>6
<1>8. NativeMods[0] = <<>>
  BY <1>1, <1>7
<1>9. ASSUME NEW n \in 0 .. len - 1
      PROVE  NativeMods[n + 1] = IF Native(order[n + 1]) THEN Append(NativeMods[n], order[n + 1])
                                 ELSE NativeMods[n]
  <2>1. n + 1 \in 0 .. len /\ n + 1 # 0 /\ (n + 1) - 1 = n
    BY <1>1
  <2> QED
    BY <1>7, <2>1
<1> QED
  BY <1>8, <1>9 DEF len

\* Each mod of a sequence comes behind all native mods it needs.
NeedsLoaded(s) ==
    \A i \in DOMAIN s : \A d \in AllNeeds(s[i]) :
        Native(d) => \E j \in 1 .. i - 1 : s[j] = d

LEMMA NativeModsHold ==
    ASSUME ResolverTypeOK, DependenciesFirst, NEW n \in 0 .. Len(order)
    PROVE  /\ NativeMods[n] \in Seq(enabled)
           /\ \A k \in 1 .. n :
                Native(order[k]) => \E j \in DOMAIN NativeMods[n] : NativeMods[n][j] = order[k]
           /\ NeedsLoaded(NativeMods[n])
<1> DEFINE Holds(m) ==
             /\ NativeMods[m] \in Seq(enabled)
             /\ \A k \in 1 .. m :
                    Native(order[k]) => \E j \in DOMAIN NativeMods[m] : NativeMods[m][j] = order[k]
             /\ NeedsLoaded(NativeMods[m])
           P == {m \in Nat : m <= Len(order) => Holds(m)}
<1>1. /\ order \in Seq(enabled) /\ Len(order) \in Nat /\ DOMAIN order = 1 .. Len(order)
  BY DEF ResolverTypeOK
<1>2. 0 \in P
  <2>1. NativeMods[0] = <<>>
    BY NativeModsGo
  <2>2. <<>> \in Seq(enabled) /\ NeedsLoaded(<<>>)
    BY DEF NeedsLoaded
  <2>3. Holds(0)
    BY <2>1, <2>2
  <2> HIDE DEF Holds
  <2> QED
    BY <2>3
<1>3. ASSUME NEW m \in Nat, m \in P
      PROVE  m + 1 \in P
  <2> SUFFICES ASSUME m + 1 <= Len(order)
               PROVE  Holds(m + 1)
    OBVIOUS
  <2>1. Holds(m)
    BY <1>1, <1>3
  <2> DEFINE s == NativeMods[m]
             id == order[m + 1]
  <2>2. NativeMods[m + 1] = IF Native(id) THEN Append(s, id) ELSE s
    BY <1>1, NativeModsGo
  <2>3. id \in enabled /\ m + 1 \in DOMAIN order
    BY <1>1
  <2>4. CASE ~Native(id)
    <3>1. NativeMods[m + 1] = s
      BY <2>2, <2>4
    <3>2. \A k \in 1 .. m + 1 : Native(order[k]) => k \in 1 .. m
      BY <2>4
    <3> QED
      BY <2>1, <3>1, <3>2
  <2>5. CASE Native(id)
    <3>1. s \in Seq(enabled) /\ NativeMods[m + 1] = Append(s, id)
      BY <2>1, <2>2, <2>5
    <3> DEFINE t == NativeMods[m + 1]
    <3>2. AllNeeds(id) \subseteq {order[j] : j \in 1 .. m}
      BY <2>3, NeedsBefore
    <3>3. \A k \in 1 .. m : Native(order[k]) => \E j \in DOMAIN s : s[j] = order[k]
      BY <2>1
    <3>4. NeedsLoaded(s)
      BY <2>1
    <3> HIDE DEF s, id
    <3>5. /\ t \in Seq(enabled) /\ Len(s) \in Nat /\ DOMAIN t = 1 .. Len(s) + 1
          /\ t[Len(s) + 1] = id /\ \A j \in 1 .. Len(s) : t[j] = s[j]
          /\ DOMAIN s = 1 .. Len(s)
      BY <2>3, <3>1, AppendParts
    <3> HIDE DEF t
    <3>6. ASSUME NEW k \in 1 .. m + 1, Native(order[k])
          PROVE  \E j \in DOMAIN t : t[j] = order[k]
      <4>1. CASE k = m + 1
        BY <3>5, <4>1 DEF id
      <4>2. CASE k # m + 1
        <5>1. PICK j \in DOMAIN s : s[j] = order[k]
          BY <3>3, <3>6, <4>2
        <5> QED
          BY <3>5, <5>1
      <4> QED
        BY <4>1, <4>2
    <3>7. ASSUME NEW i \in DOMAIN t, NEW d \in AllNeeds(t[i]), Native(d)
          PROVE  \E j \in 1 .. i - 1 : t[j] = d
      <4>1. CASE i = Len(s) + 1
        <5>1. PICK k \in 1 .. m : order[k] = d
          BY <3>2, <3>5, <3>7, <4>1
        <5>2. PICK j \in DOMAIN s : s[j] = d
          BY <3>3, <3>7, <5>1
        <5> QED
          BY <3>5, <4>1, <5>2
      <4>2. CASE i # Len(s) + 1
        <5>1. i \in DOMAIN s /\ t[i] = s[i]
          BY <3>5, <4>2
        <5>2. PICK j \in 1 .. i - 1 : s[j] = d
          BY <3>4, <3>7, <5>1 DEF NeedsLoaded
        <5> QED
          BY <3>5, <5>1, <5>2
      <4> QED
        BY <4>1, <4>2
    <3>8. NeedsLoaded(t)
      BY <3>7 DEF NeedsLoaded
    <3> QED
      BY <3>5, <3>6, <3>8 DEF t
  <2> QED
    BY <2>4, <2>5
<1>4. Nat \subseteq P
  <2> HIDE DEF P
  <2> QED
    BY <1>2, <1>3, SetInduction
<1>5. n \in P /\ n <= Len(order)
  BY <1>1, <1>4
<1> QED
  BY <1>5

-----------------------------------------------------------------------------
(* Counting what a session holds                                           *)

Held(s, id) == Cardinality({i \in DOMAIN s : s[i] = id})

LEMMA HeldType ==
    ASSUME NEW S, NEW s \in Seq(S), NEW id
    PROVE  /\ Held(s, id) \in Nat
           /\ Held(s, id) > 0 <=> \E i \in DOMAIN s : s[i] = id
<1> DEFINE at == {i \in DOMAIN s : s[i] = id}
<1>1. at \in SUBSET (1 .. Len(s)) /\ Len(s) \in Nat
  OBVIOUS
<1>2. IsFiniteSet(at)
  BY <1>1, FS_Interval, FS_Subset
<1>3. Cardinality(at) \in Nat /\ (Cardinality(at) = 0 <=> at = {})
  BY <1>2, FS_CardinalityType, FS_EmptySet
<1>4. at # {} <=> \E i \in DOMAIN s : s[i] = id
  OBVIOUS
<1> HIDE DEF at
<1>5. Held(s, id) = Cardinality(at)
  BY DEF Held, at
<1> QED
  BY <1>3, <1>4, <1>5

LEMMA HeldEmpty == \A id : Held(<<>>, id) = 0
<1> TAKE id
<1>1. {i \in DOMAIN <<>> : <<>>[i] = id} = {}
  OBVIOUS
<1> QED
  BY <1>1, FS_EmptySet DEF Held

\* One more at the end of a session counts for its own mod.
LEMMA HeldAppend ==
    ASSUME NEW S, NEW s \in Seq(S), NEW e \in S, NEW id
    PROVE  Held(Append(s, e), id) = Held(s, id) + (IF e = id THEN 1 ELSE 0)
<1> DEFINE t == Append(s, e)
           at == {i \in DOMAIN s : s[i] = id}
<1>1. /\ Len(s) \in Nat /\ DOMAIN s = 1 .. Len(s)
      /\ DOMAIN t = 1 .. Len(s) + 1 /\ t[Len(s) + 1] = e
      /\ \A i \in 1 .. Len(s) : t[i] = s[i]
  BY AppendParts
<1> HIDE DEF t
<1>2. {i \in DOMAIN t : t[i] = id} = IF e = id THEN at \cup {Len(s) + 1} ELSE at
  BY <1>1
<1>3. IsFiniteSet(at)
  <2>1. at \in SUBSET (1 .. Len(s))
    BY <1>1
  <2>2. IsFiniteSet(1 .. Len(s))
    BY <1>1, FS_Interval
  <2> HIDE DEF at
  <2> QED
    BY <2>1, <2>2, FS_Subset
<1>4. Len(s) + 1 \notin at
  BY <1>1
<1> HIDE DEF at
<1>5. Cardinality(at \cup {Len(s) + 1}) = Cardinality(at) + 1 /\ Cardinality(at) \in Nat
  BY <1>3, <1>4, FS_AddElement, FS_CardinalityType
<1> DEFINE now == {i \in DOMAIN t : t[i] = id}
<1>6. Cardinality(now) = Cardinality(at) + (IF e = id THEN 1 ELSE 0)
  <2>1. now = IF e = id THEN at \cup {Len(s) + 1} ELSE at
    BY <1>2
  <2> HIDE DEF now
  <2> QED
    BY <1>5, <2>1
<1>7. Held(s, id) = Cardinality(at) /\ Held(t, id) = Cardinality(now)
  BY DEF Held, at
<1> HIDE DEF now
<1> QED
  BY <1>6, <1>7 DEF t

\* The session without its last mod is what remains of it.
LEMMA FrontAgain ==
    ASSUME NEW S, NEW s \in Seq(S), s # <<>>
    PROVE  /\ Len(s) \in Nat \ {0} /\ s[Len(s)] \in S
           /\ RemoveAt(s, Len(s)) \in Seq(S)
           /\ Len(RemoveAt(s, Len(s))) = Len(s) - 1
           /\ \A i \in 1 .. Len(s) - 1 : RemoveAt(s, Len(s))[i] = s[i]
           /\ s = Append(RemoveAt(s, Len(s)), s[Len(s)])
<1> DEFINE front == SubSeq(s, 1, Len(s) - 1)
<1>1. /\ Len(s) \in Nat \ {0} /\ DOMAIN s = 1 .. Len(s) /\ s[Len(s)] \in S
      /\ front \in Seq(S) /\ Len(front) = Len(s) - 1
      /\ \A i \in 1 .. Len(s) - 1 : front[i] = s[i]
  BY FrontParts
<1>2. RemoveAt(s, Len(s)) = front
  <2>1. SubSeq(s, Len(s) + 1, Len(s)) = <<>>
    BY <1>1
  <2>2. RemoveAt(s, Len(s)) = front \o <<>>
    BY <2>1 DEF RemoveAt
  <2> HIDE DEF front
  <2> QED
    BY <1>1, <2>2
<1> HIDE DEF front
<1>3. s = Append(front, s[Len(s)])
  <2> DEFINE e == s[Len(s)]
             t == Append(front, e)
  <2>0. e \in S /\ front \in Seq(S)
    BY <1>1
  <2> HIDE DEF e
  <2>1. /\ t \in Seq(S) /\ Len(front) \in Nat /\ DOMAIN t = 1 .. Len(front) + 1
        /\ t[Len(front) + 1] = e /\ \A i \in 1 .. Len(front) : t[i] = front[i]
    BY <2>0, AppendParts
  <2> HIDE DEF t
  <2>2. \A i \in 1 .. Len(s) : t[i] = s[i]
    BY <1>1, <2>1 DEF e
  <2>3. DOMAIN t = DOMAIN s
    BY <1>1, <2>1
  <2> QED
    <3>1. t \in Seq(S)
      BY <2>1
    <3>2. t = s
      BY <1>1, <2>2, <2>3, <3>1
    <3> QED
      BY <3>2 DEF t, e
<1> QED
  BY <1>1, <1>2, <1>3

-----------------------------------------------------------------------------
(* Loading and unloading                                                   *)

\* A library that is opened belongs to the next mod; no session is there before
\* there is a set.
Turns ==
    /\ loader \in {"idle", "loading", "failing", "replacing", "closing"}
    /\ cursor \in 0 .. Len(order)
    /\ phase # "resolved" => loader = "idle" /\ session = <<>>
    /\ pending # NoMod =>
        /\ loader = "loading" /\ cursor < Len(order)
        /\ pending = NextMod /\ Native(NextMod)

\* The session being made has the native mods the loader has been through.
Sessions ==
    /\ loaded \in Seq(enabled) /\ session \in Seq(enabled)
    /\ loader = "loading" => loaded = NativeMods[cursor]
    /\ loader = "replacing" => loaded = NativeMods[Len(order)]
    /\ loader \in {"idle", "closing"} => loaded = <<>>
    /\ loader \in {"idle", "loading", "failing"} => session \in {<<>>, NativeMods[Len(order)]}
    /\ NeedsLoaded(loaded) /\ NeedsLoaded(session)

Opened(id) == IF pending = id THEN 1 ELSE 0

Counts ==
    /\ open \in [Mods -> Nat] /\ running \in [Mods -> Nat]
    /\ \A id \in Mods :
        /\ running[id] = Held(loaded, id) + Held(session, id)
        /\ open[id] = Held(loaded, id) + Held(session, id) + Opened(id)

LoaderInv == Turns /\ Sessions /\ Counts

LEMMA SameSet ==
    ASSUME UNCHANGED resolver
    PROVE  /\ UNCHANGED <<catalog, phase, order>> /\ enabled' = enabled /\ Mods' = Mods
           /\ NativeMods' = NativeMods
           /\ \A id : Native(id)' = Native(id)
           /\ \A s : NeedsLoaded(s)' <=> NeedsLoaded(s)
<1>1. catalog' = catalog /\ requested' = requested /\ order' = order /\ visit' = visit
      /\ phase' = phase
  BY DEF resolver
<1>2. \A id : AllNeeds(id)' = AllNeeds(id)
  BY <1>1, SameGiven
<1>3. \A id : Native(id)' = Native(id)
  BY <1>1 DEF Native
<1>4. NativeMods' = NativeMods
  BY <1>1 DEF NativeMods, Native
<1>5. ASSUME NEW s PROVE NeedsLoaded(s)' <=> NeedsLoaded(s)
  BY <1>2, <1>3 DEF NeedsLoaded
<1> QED
  BY <1>1, <1>3, <1>4, <1>5 DEF enabled, Mods

LEMMA InitialLoader == Init => LoaderInv
<1> SUFFICES ASSUME Init PROVE LoaderInv
  OBVIOUS
<1>1. PICK p \in Problems :
        /\ Given(p)
        /\ open = [id \in DOMAIN p.catalog |-> 0]
        /\ running = [id \in DOMAIN p.catalog |-> 0]
  BY DEF Init
<1>2. /\ loader = "idle" /\ loads = 0 /\ cursor = 0
      /\ pending = NoMod /\ loaded = <<>> /\ session = <<>>
  BY DEF Init
<1>3. catalog = p.catalog /\ order = <<>> /\ Catalog(catalog)
  BY <1>1, ProblemsAssumption DEF Given
<1>4. Turns
  BY <1>2, <1>3 DEF Turns
<1>5. Sessions
  BY <1>2 DEF Sessions, NeedsLoaded
<1>6. NoMod \notin Mods
  BY <1>3, SessionAssumption DEF Catalog, Mods
<1>7. Counts
  BY <1>1, <1>2, <1>3, <1>6, HeldEmpty DEF Counts, Mods, Opened
<1> QED
  BY <1>4, <1>5, <1>7 DEF LoaderInv

\* While a set is resolved nothing is loaded.
LEMMA ResolveLoader ==
    ASSUME IInv, IInv', LoaderInv, Resolve, UNCHANGED session_vars
    PROVE  LoaderInv'
<1>1. UNCHANGED <<loader, loads, cursor, pending, loaded, session, open, running>>
  BY DEF session_vars
<1>2. phase # "resolved" /\ catalog' = catalog
  BY DEF Resolve, Missing, WrongVersion, DependencyCycle, WrongApi, Conflicting, Fail,
         AlreadyIncluded, IncludeMod, Included, CountDependencies, AllIncluded, Place,
         Finish, Found, Calling
<1>3. loader = "idle" /\ session = <<>> /\ loaded = <<>> /\ pending = NoMod
  BY <1>2 DEF LoaderInv, Turns, Sessions
<1>4. cursor \in 0 .. Len(order')
  <2>1. Len(order) <= Len(order') /\ Len(order') \in Nat /\ Len(order) \in Nat
    <3>1. order \in Seq(enabled) /\ order' \in Seq(enabled')
      BY DEF IInv, ResolverTypeOK
    <3>2. order' = order \/ order' = Append(order, Smallest(ready))
      BY DEF Resolve, Missing, WrongVersion, DependencyCycle, WrongApi, Conflicting, Fail,
             AlreadyIncluded, IncludeMod, Included, CountDependencies, Place, Finish
    <3> QED
      BY <3>1, <3>2
  <2> QED
    BY <2>1 DEF LoaderInv, Turns
<1>5. Turns'
  BY <1>1, <1>3, <1>4 DEF Turns
<1>6. Sessions'
  BY <1>1, <1>3 DEF Sessions, NeedsLoaded
<1>7. Counts'
  BY <1>1, <1>2 DEF LoaderInv, Counts, Mods, Opened
<1> QED
  BY <1>5, <1>6, <1>7 DEF LoaderInv

\* What every step of the loader finds.
LEMMA LoaderFinds ==
    ASSUME IInv, LoaderInv
    PROVE  /\ Len(order) \in Nat /\ cursor \in Nat /\ enabled \subseteq Mods
           /\ NoMod \notin Mods
           /\ cursor < Len(order) =>
                /\ NextMod \in enabled /\ NextMod \in Mods
                /\ cursor + 1 \in 0 .. Len(order)
                /\ NativeMods[cursor + 1] = IF Native(NextMod)
                     THEN Append(NativeMods[cursor], NextMod) ELSE NativeMods[cursor]
           /\ NativeMods[0] = <<>>
           /\ \A n \in 0 .. Len(order) :
                NativeMods[n] \in Seq(enabled) /\ NeedsLoaded(NativeMods[n])
<1>1. /\ ResolverTypeOK /\ DependenciesFirst
      /\ cursor \in 0 .. Len(order)
  BY DEF IInv, LoaderInv, Turns
<1>2. /\ order \in Seq(enabled) /\ enabled \subseteq Mods /\ Catalog(catalog)
  BY <1>1 DEF ResolverTypeOK, Mods
<1>3. Len(order) \in Nat /\ \A k \in 1 .. Len(order) : order[k] \in enabled
  BY <1>2
<1>4. NoMod \notin Mods
  BY <1>2, SessionAssumption DEF Catalog, Mods
<1>5. ASSUME cursor < Len(order)
      PROVE  /\ NextMod \in enabled /\ cursor + 1 \in 0 .. Len(order)
             /\ cursor \in 0 .. Len(order) - 1
  BY <1>1, <1>3, <1>5 DEF NextMod
<1> QED
  BY <1>1, <1>2, <1>3, <1>4, <1>5, NativeModsGo, NativeModsHold DEF NextMod

LEMMA LoadNativeModsLoader ==
    ASSUME IInv, LoaderInv, LoadNativeMods
    PROVE  LoaderInv'
<1>1. /\ phase = "resolved" /\ loader = "idle" /\ loader' = "loading" /\ cursor' = 0
      /\ UNCHANGED <<pending, loaded, session, open, running>> /\ UNCHANGED resolver
  BY DEF LoadNativeMods
<1>2. Turns'
  BY <1>1, SameSet, LoaderFinds DEF LoaderInv, Turns
<1>3. Sessions'
  BY <1>1, SameSet, LoaderFinds DEF LoaderInv, Sessions
<1>4. Counts'
  BY <1>1, SameSet DEF LoaderInv, Counts, Opened
<1> QED
  BY <1>2, <1>3, <1>4 DEF LoaderInv

\* Steps that only turn the loader to something else.
LEMMA TurnLoader ==
    ASSUME IInv, LoaderInv, SkipData \/ NotOpened \/ Replace \/ Destroy
    PROVE  LoaderInv'
<1>1. UNCHANGED <<loads, pending, loaded, session, open, running>> /\ UNCHANGED resolver
  BY DEF SkipData, NotOpened, Replace, Destroy
<1>2. pending = NoMod
  BY LoaderFinds DEF SkipData, NotOpened, Replace, Destroy, ToLoad, LoaderInv, Turns
<1>3. Counts'
  BY <1>1, SameSet DEF LoaderInv, Counts, Opened
<1>4. phase = "resolved"
  BY DEF SkipData, NotOpened, Replace, Destroy, ToLoad, LoaderInv, Turns
<1>5. Turns'
  BY <1>1, <1>2, <1>4, SameSet, LoaderFinds
     DEF SkipData, NotOpened, Replace, Destroy, LoaderInv, Turns
<1>6. Sessions'
  <2>1. CASE SkipData
    <3>1. /\ loader = "loading" /\ loader' = "loading" /\ cursor' = cursor + 1
          /\ cursor < Len(order) /\ ~Native(NextMod)
      BY <2>1 DEF SkipData
    <3> QED
      BY <1>1, <3>1, SameSet, LoaderFinds DEF LoaderInv, Sessions
  <2>2. CASE NotOpened
    <3>1. loader = "loading" /\ loader' = "failing"
      BY <2>2 DEF NotOpened, ToLoad
    <3> QED
      BY <1>1, <3>1, SameSet DEF LoaderInv, Sessions
  <2>3. CASE Replace
    <3>1. loader = "loading" /\ loader' = "replacing" /\ cursor = Len(order)
      BY <2>3 DEF Replace
    <3> QED
      BY <1>1, <3>1, SameSet DEF LoaderInv, Sessions
  <2>4. CASE Destroy
    <3>1. loader = "idle" /\ loader' = "closing"
      BY <2>4 DEF Destroy
    <3> QED
      BY <1>1, <3>1, SameSet DEF LoaderInv, Sessions
  <2> QED
    BY <2>1, <2>2, <2>3, <2>4
<1> QED
  BY <1>3, <1>5, <1>6 DEF LoaderInv

LEMMA OpenLibraryLoader == ASSUME IInv, LoaderInv, OpenLibrary PROVE LoaderInv'
<1>1. /\ loader = "loading" /\ cursor < Len(order) /\ Native(NextMod) /\ pending = NoMod
      /\ pending' = NextMod /\ open' = [open EXCEPT ![NextMod] = @ + 1]
      /\ UNCHANGED <<loader, loads, cursor, loaded, session, running>> /\ UNCHANGED resolver
  BY DEF OpenLibrary, ToLoad
<1>2. NextMod' = NextMod
  BY <1>1, SameSet DEF NextMod
<1>3. Turns'
  BY <1>1, <1>2, SameSet DEF LoaderInv, Turns
<1>4. Sessions'
  BY <1>1, SameSet DEF LoaderInv, Sessions
<1>5. Counts'
  <2>1. NextMod \in Mods /\ NoMod \notin Mods
    BY <1>1, LoaderFinds
  <2>2. open \in [Mods -> Nat] /\ running \in [Mods -> Nat]
    BY DEF LoaderInv, Counts
  <2>3. open' \in [Mods -> Nat]
        /\ \A id \in Mods : open'[id] = open[id] + (IF NextMod = id THEN 1 ELSE 0)
    BY <1>1, <2>1, <2>2
  <2>4. \A id \in Mods : Opened(id) = 0 /\ Opened(id)' = IF NextMod = id THEN 1 ELSE 0
    BY <1>1, <2>1 DEF Opened
  <2>5. /\ \A id \in Mods : /\ running[id] = Held(loaded, id) + Held(session, id)
                            /\ open[id] = Held(loaded, id) + Held(session, id) + Opened(id)
    BY DEF LoaderInv, Counts
  <2>6. ASSUME NEW id \in Mods
        PROVE  open'[id] = Held(loaded, id) + Held(session, id) + Opened(id)'
    <3>1. open[id] \in Nat /\ running[id] \in Nat
      BY <2>2
    <3>2. open'[id] = running[id] + Opened(id)'
      BY <2>3, <2>4, <2>5, <3>1
    <3> QED
      BY <2>5, <3>2
  <2> QED
    BY <1>1, <2>2, <2>3, <2>5, <2>6, SameSet DEF Counts
<1> QED
  BY <1>3, <1>4, <1>5 DEF LoaderInv

LEMMA RejectedLoader == ASSUME IInv, LoaderInv, Rejected PROVE LoaderInv'
<1>1. /\ loader = "loading" /\ cursor < Len(order) /\ Native(NextMod) /\ pending # NoMod
      /\ pending' = NoMod /\ open' = [open EXCEPT ![pending] = @ - 1]
      /\ loader' = "failing"
      /\ UNCHANGED <<loads, cursor, loaded, session, running>> /\ UNCHANGED resolver
  BY DEF Rejected, ToLoad, Closed
<1>2. Turns'
  BY <1>1, SameSet DEF LoaderInv, Turns
<1>3. Sessions'
  BY <1>1, SameSet DEF LoaderInv, Sessions
<1>4. Counts'
  <2>1. pending \in Mods /\ NoMod \notin Mods
    BY <1>1, LoaderFinds DEF LoaderInv, Turns
  <2>2. open \in [Mods -> Nat] /\ running \in [Mods -> Nat]
    BY DEF LoaderInv, Counts
  <2>3. \A id \in Mods : open'[id] = open[id] - Opened(id)
    BY <1>1, <2>1, <2>2 DEF Opened
  <2>4. \A id \in Mods : Opened(id)' = 0
    BY <1>1, <2>1 DEF Opened
  <2>5. \A id \in Mods : /\ running[id] = Held(loaded, id) + Held(session, id)
                         /\ open[id] = Held(loaded, id) + Held(session, id) + Opened(id)
    BY DEF LoaderInv, Counts
  <2>6. ASSUME NEW id \in Mods
        PROVE  open'[id] = running[id]
    <3>1. running[id] \in Nat /\ Opened(id) \in Nat
      BY <2>2 DEF Opened
    <3> QED
      BY <2>3, <2>5, <3>1
  <2>7. open' \in [Mods -> Nat]
    <3>1. open' = [id \in Mods |-> open'[id]]
      BY <1>1, <2>2
    <3> QED
      BY <2>2, <2>6, <3>1
  <2>8. ASSUME NEW id \in Mods
        PROVE  open'[id] = Held(loaded, id) + Held(session, id) + Opened(id)'
    <3>1. running[id] \in Nat
      BY <2>2
    <3> QED
      BY <2>4, <2>5, <2>6, <3>1
  <2> QED
    BY <1>1, <2>2, <2>5, <2>7, <2>8, SameSet DEF Counts
<1> QED
  BY <1>2, <1>3, <1>4 DEF LoaderInv

LEMMA OnLoadLoader == ASSUME IInv, LoaderInv, OnLoad PROVE LoaderInv'
<1>1. /\ loader = "loading" /\ cursor < Len(order) /\ Native(NextMod) /\ pending # NoMod
      /\ running' = [running EXCEPT ![pending] = @ + 1]
      /\ loaded' = Append(loaded, pending)
      /\ pending' = NoMod /\ cursor' = cursor + 1
      /\ UNCHANGED <<loader, loads, session, open>> /\ UNCHANGED resolver
  BY DEF OnLoad, ToLoad
<1>2. pending = NextMod /\ pending \in enabled /\ pending \in Mods /\ NoMod \notin Mods
  BY <1>1, LoaderFinds DEF LoaderInv, Turns
<1>3. Turns'
  BY <1>1, SameSet, LoaderFinds DEF LoaderInv, Turns
<1>4. Sessions'
  <2>1. loaded = NativeMods[cursor] /\ cursor + 1 \in 0 .. Len(order)
    BY <1>1, LoaderFinds DEF LoaderInv, Sessions
  <2>2. loaded' = NativeMods[cursor + 1]
    BY <1>1, <1>2, <2>1, LoaderFinds
  <2>3. loaded' \in Seq(enabled) /\ NeedsLoaded(loaded')
    BY <2>1, <2>2, LoaderFinds
  <2>4. NeedsLoaded(loaded)'
    <3>1. /\ \A id : Native(id)' = Native(id)
          /\ \A id : AllNeeds(id)' = AllNeeds(id)
      BY <1>1, SameSet, SameGiven DEF resolver
    <3> QED
      BY <2>3, <3>1 DEF NeedsLoaded
  <2> QED
    BY <1>1, <2>2, <2>3, <2>4, SameSet DEF LoaderInv, Sessions
<1>5. Counts'
  <2>1. open \in [Mods -> Nat] /\ running \in [Mods -> Nat]
    BY DEF LoaderInv, Counts
  <2>2. /\ running' \in [Mods -> Nat]
        /\ \A id \in Mods : running'[id] = running[id] + Opened(id)
    BY <1>1, <1>2, <2>1 DEF Opened
  <2>3. \A id \in Mods : Opened(id)' = 0
    BY <1>1, <1>2 DEF Opened
  <2>4. \A id \in Mods : /\ running[id] = Held(loaded, id) + Held(session, id)
                         /\ open[id] = Held(loaded, id) + Held(session, id) + Opened(id)
    BY DEF LoaderInv, Counts
  <2>5. ASSUME NEW id \in Mods
        PROVE  /\ running'[id] = Held(loaded', id) + Held(session, id)
               /\ open[id] = Held(loaded', id) + Held(session, id) + Opened(id)'
    <3>1. loaded \in Seq(enabled) /\ session \in Seq(enabled)
      BY DEF LoaderInv, Sessions
    <3>2. Held(loaded, id) \in Nat /\ Held(session, id) \in Nat
      BY <3>1, HeldType
    <3>3. Held(loaded', id) = Held(loaded, id) + Opened(id)
      BY <1>1, <1>2, <3>1, HeldAppend DEF Opened
    <3>4. Opened(id) \in Nat
      BY DEF Opened
    <3> HIDE DEF Held
    <3> QED
      BY <2>2, <2>3, <2>4, <3>2, <3>3, <3>4
  <2>6. \A id : Held(loaded', id) = Held(loaded, id)' /\ Held(session, id) = Held(session, id)'
    BY <1>1 DEF Held
  <2> QED
    BY <1>1, <2>1, <2>2, <2>5, <2>6, SameSet DEF Counts
<1> QED
  BY <1>3, <1>4, <1>5 DEF LoaderInv

\* A session from which its last mod is taken.
LEMMA FrontCounts ==
    ASSUME NEW s \in Seq(enabled), s # <<>>
    PROVE  /\ RemoveAt(s, Len(s)) \in Seq(enabled) /\ s[Len(s)] \in enabled
           /\ NeedsLoaded(s) => NeedsLoaded(RemoveAt(s, Len(s)))
           /\ \A id : /\ Held(RemoveAt(s, Len(s)), id) \in Nat
                      /\ Held(s, id) = Held(RemoveAt(s, Len(s)), id)
                                       + (IF s[Len(s)] = id THEN 1 ELSE 0)
<1> DEFINE left == RemoveAt(s, Len(s))
           last == s[Len(s)]
<1>1. /\ Len(s) \in Nat \ {0} /\ last \in enabled /\ left \in Seq(enabled)
      /\ Len(left) = Len(s) - 1 /\ \A i \in 1 .. Len(s) - 1 : left[i] = s[i]
      /\ s = Append(left, last)
  BY FrontAgain
<1> HIDE DEF left, last
<1>2. ASSUME NeedsLoaded(s)
      PROVE  NeedsLoaded(left)
  <2>1. DOMAIN left = 1 .. Len(s) - 1 /\ DOMAIN s = 1 .. Len(s)
    BY <1>1
  <2>2. ASSUME NEW i \in DOMAIN left, NEW d \in AllNeeds(left[i]), Native(d)
        PROVE  \E j \in 1 .. i - 1 : left[j] = d
    <3>1. i \in DOMAIN s /\ left[i] = s[i]
      BY <1>1, <2>1
    <3>2. PICK j \in 1 .. i - 1 : s[j] = d
      BY <1>2, <2>2, <3>1 DEF NeedsLoaded
    <3>3. left[j] = s[j]
      BY <1>1, <2>1
    <3> QED
      BY <3>2, <3>3
  <2> QED
    BY <2>2 DEF NeedsLoaded
<1>3. ASSUME NEW id
      PROVE  Held(left, id) \in Nat
             /\ Held(s, id) = Held(left, id) + (IF last = id THEN 1 ELSE 0)
  <2>1. Held(left, id) \in Nat
    BY <1>1, HeldType
  <2>2. Held(Append(left, last), id) = Held(left, id) + (IF last = id THEN 1 ELSE 0)
    BY <1>1, HeldAppend
  <2> QED
    BY <1>1, <2>1, <2>2
<1> QED
  BY <1>1, <1>2, <1>3 DEF left, last

LEMMA UnloadLoader == ASSUME IInv, LoaderInv, Unload PROVE LoaderInv'
<1> DEFINE s == Leaving
           mod == s[Len(s)]
           left == RemoveAt(s, Len(s))
<1>1. /\ loader \in {"failing", "replacing", "closing"} /\ s # <<>>
      /\ running' = [running EXCEPT ![mod] = @ - 1]
      /\ open' = [open EXCEPT ![mod] = @ - 1]
      /\ IF loader = "failing" THEN loaded' = left /\ session' = session
                               ELSE session' = left /\ loaded' = loaded
      /\ UNCHANGED <<loader, loads, cursor, pending>> /\ UNCHANGED resolver
      /\ s = IF loader = "failing" THEN loaded ELSE session
  BY DEF Unload, Unloading, NextToUnload, Closed, Leaving
<1> HIDE DEF s
<1>2. loaded \in Seq(enabled) /\ session \in Seq(enabled)
      /\ NeedsLoaded(loaded) /\ NeedsLoaded(session)
  BY DEF LoaderInv, Sessions
<1>3. s \in Seq(enabled) /\ NeedsLoaded(s)
  BY <1>1, <1>2
<1>4. /\ left \in Seq(enabled) /\ mod \in enabled /\ NeedsLoaded(left)
      /\ \A id : /\ Held(left, id) \in Nat
                 /\ Held(s, id) = Held(left, id) + (IF mod = id THEN 1 ELSE 0)
  BY <1>1, <1>3, FrontCounts
<1> HIDE DEF mod, left
<1>5. Turns'
  BY <1>1, SameSet DEF LoaderInv, Turns
<1>6. Sessions'
  <2>1. /\ loaded' \in Seq(enabled) /\ session' \in Seq(enabled)
        /\ NeedsLoaded(loaded') /\ NeedsLoaded(session')
    BY <1>1, <1>2, <1>4
  <2>2. NeedsLoaded(loaded)' /\ NeedsLoaded(session)'
    <3>1. /\ NeedsLoaded(loaded)' <=> NeedsLoaded(loaded')
          /\ NeedsLoaded(session)' <=> NeedsLoaded(session')
      <4>1. /\ \A id : Native(id)' = Native(id)
            /\ \A id : AllNeeds(id)' = AllNeeds(id)
        BY <1>1, SameSet, SameGiven DEF resolver
      <4> QED
        BY <4>1 DEF NeedsLoaded
    <3> QED
      BY <2>1, <3>1
  <2> QED
    BY <1>1, <2>1, <2>2, SameSet DEF LoaderInv, Sessions
<1>7. Counts'
  <2>1. open \in [Mods -> Nat] /\ running \in [Mods -> Nat] /\ mod \in Mods
    BY <1>4, LoaderFinds DEF LoaderInv, Counts
  <2>2. \A id \in Mods : /\ running[id] = Held(loaded, id) + Held(session, id)
                         /\ open[id] = Held(loaded, id) + Held(session, id) + Opened(id)
    BY DEF LoaderInv, Counts
  <2>3. \A id \in Mods : /\ running'[id] = running[id] - (IF mod = id THEN 1 ELSE 0)
                         /\ open'[id] = open[id] - (IF mod = id THEN 1 ELSE 0)
    BY <1>1, <2>1
  <2>4. ASSUME NEW id \in Mods
        PROVE  /\ running'[id] = Held(loaded', id) + Held(session', id)
               /\ open'[id] = Held(loaded', id) + Held(session', id) + Opened(id)
               /\ running'[id] \in Nat /\ open'[id] \in Nat
    <3>1. Held(loaded, id) \in Nat /\ Held(session, id) \in Nat /\ Opened(id) \in Nat
      BY <1>2, HeldType DEF Opened
    <3>2. Held(left, id) \in Nat
          /\ Held(s, id) = Held(left, id) + (IF mod = id THEN 1 ELSE 0)
      BY <1>4
    <3> DEFINE a == Held(loaded, id)
               b == Held(session, id)
               c == Held(left, id)
               one == IF mod = id THEN 1 ELSE 0
    <3>3. CASE loader = "failing"
      <4>1. a = c + one /\ loaded' = left /\ session' = session
        BY <1>1, <3>2, <3>3
      <4>2. Held(loaded', id) = c /\ Held(session', id) = b
        BY <4>1
      <4>3. a \in Nat /\ b \in Nat /\ c \in Nat /\ one \in Nat /\ Opened(id) \in Nat
        BY <3>1, <3>2
      <4>4. running[id] = a + b /\ open[id] = a + b + Opened(id)
            /\ running'[id] = running[id] - one /\ open'[id] = open[id] - one
        BY <2>2, <2>3
      <4> HIDE DEF a, b, c, one
      <4> QED
        BY <4>1, <4>2, <4>3, <4>4
    <3>4. CASE loader # "failing"
      <4>1. b = c + one /\ loaded' = loaded /\ session' = left
        BY <1>1, <3>2, <3>4
      <4>2. Held(loaded', id) = a /\ Held(session', id) = c
        BY <4>1
      <4>3. a \in Nat /\ b \in Nat /\ c \in Nat /\ one \in Nat /\ Opened(id) \in Nat
        BY <3>1, <3>2
      <4>4. running[id] = a + b /\ open[id] = a + b + Opened(id)
            /\ running'[id] = running[id] - one /\ open'[id] = open[id] - one
        BY <2>2, <2>3
      <4> HIDE DEF a, b, c, one
      <4> QED
        BY <4>1, <4>2, <4>3, <4>4
    <3> QED
      BY <3>3, <3>4
  <2>5. open' \in [Mods -> Nat] /\ running' \in [Mods -> Nat]
    <3>1. open' = [id \in Mods |-> open'[id]] /\ running' = [id \in Mods |-> running'[id]]
      BY <1>1, <2>1
    <3> QED
      BY <2>4, <3>1
  <2>6. \A id : /\ Held(loaded', id) = Held(loaded, id)' /\ Held(session', id) = Held(session, id)'
                /\ Opened(id)' = Opened(id)
    BY <1>1 DEF Held, Opened
  <2> QED
    BY <1>1, <2>4, <2>5, <2>6, SameSet DEF Counts
<1> QED
  BY <1>5, <1>6, <1>7 DEF LoaderInv

LEMMA UnloadedLoader == ASSUME IInv, LoaderInv, Unloaded PROVE LoaderInv'
<1>1. /\ loader \in {"failing", "replacing", "closing"} /\ loader' = "idle"
      /\ (IF loader = "failing" THEN loaded ELSE session) = <<>>
      /\ IF loader = "replacing" THEN session' = loaded /\ loaded' = <<>>
                                 ELSE session' = session /\ loaded' = loaded
      /\ UNCHANGED <<loads, cursor, pending, open, running>> /\ UNCHANGED resolver
  BY DEF Unloaded, Unloading, Leaving
<1>2. Turns'
  BY <1>1, SameSet DEF LoaderInv, Turns
<1>3. /\ loaded \in Seq(enabled) /\ session \in Seq(enabled)
      /\ NeedsLoaded(loaded) /\ NeedsLoaded(session) /\ NeedsLoaded(<<>>)
  BY DEF LoaderInv, Sessions, NeedsLoaded
<1>4. Sessions'
  <2>1. loaded' = <<>> /\ session' \in {<<>>, NativeMods[Len(order)]}
    BY <1>1 DEF LoaderInv, Sessions
  <2>2. session' \in {loaded, session}
    BY <1>1
  <2>3. NeedsLoaded(loaded)' /\ NeedsLoaded(session)'
    <3>1. /\ \A id : Native(id)' = Native(id)
          /\ \A id : AllNeeds(id)' = AllNeeds(id)
      BY <1>1, SameSet, SameGiven DEF resolver
    <3> QED
      BY <1>3, <2>1, <2>2, <3>1 DEF NeedsLoaded
  <2> QED
    BY <1>1, <1>3, <2>1, <2>2, <2>3, SameSet DEF Sessions
<1>5. Counts'
  <2>1. ASSUME NEW id \in Mods
        PROVE  Held(loaded', id) + Held(session', id) = Held(loaded, id) + Held(session, id)
    <3>1. Held(loaded, id) \in Nat /\ Held(session, id) \in Nat /\ Held(<<>>, id) = 0
      BY <1>3, HeldType, HeldEmpty
    <3>2. CASE loader = "replacing"
      BY <1>1, <3>1, <3>2
    <3>3. CASE loader # "replacing"
      BY <1>1, <3>3
    <3> QED
      BY <3>2, <3>3
  <2>2. \A id : /\ Held(loaded', id) = Held(loaded, id)' /\ Held(session', id) = Held(session, id)'
                /\ Opened(id)' = Opened(id)
    BY <1>1 DEF Held, Opened
  <2> QED
    BY <1>1, <2>1, <2>2, SameSet DEF LoaderInv, Counts
<1> QED
  BY <1>2, <1>4, <1>5 DEF LoaderInv

LEMMA StepLoader == IInv /\ IInv' /\ LoaderInv /\ [Next]_vars => LoaderInv'
<1> SUFFICES ASSUME IInv, IInv', LoaderInv, [Next]_vars PROVE LoaderInv'
  OBVIOUS
<1>1. CASE Resolve /\ UNCHANGED session_vars
  BY <1>1, ResolveLoader
<1>2. CASE LoadNativeMods \/ SkipData \/ NotOpened \/ Replace \/ Destroy
  BY <1>2, LoadNativeModsLoader, TurnLoader
<1>3. CASE OpenLibrary \/ Rejected \/ OnLoad
  BY <1>3, OpenLibraryLoader, RejectedLoader, OnLoadLoader
<1>4. CASE Unload \/ Unloaded
  BY <1>4, UnloadLoader, UnloadedLoader
<1>5. CASE UNCHANGED vars
  <2>1. UNCHANGED resolver
        /\ UNCHANGED <<loader, loads, cursor, pending, loaded, session, open, running>>
    BY <1>5 DEF vars, session_vars
  <2>2. Turns'
    BY <2>1, SameSet DEF LoaderInv, Turns, NextMod
  <2>3. Sessions'
    BY <2>1, SameSet DEF LoaderInv, Sessions
  <2>4. Counts'
    BY <2>1, SameSet DEF LoaderInv, Counts, Opened
  <2> QED
    BY <2>2, <2>3, <2>4 DEF LoaderInv
<1> QED
  BY <1>1, <1>2, <1>3, <1>4, <1>5 DEF Next, Load

\* No path through the loader loses a library or a mod, or has one twice.
LEMMA NothingIsLost == LoaderInv => NothingLost
<1> SUFFICES ASSUME LoaderInv PROVE NothingLost
  OBVIOUS
<1>1. \A id \in Mods : /\ running[id] = Held(loaded, id) + Held(session, id)
                       /\ open[id] = Held(loaded, id) + Held(session, id) + Opened(id)
  BY DEF LoaderInv, Counts
<1>2. loader = "idle" => session \in {<<>>, NativeMods[Len(order)]}
  BY DEF LoaderInv, Sessions
<1> QED
  BY <1>1, <1>2 DEF NothingLost, Held, Opened

LEMMA NeededRun == IInv /\ LoaderInv => NeedsRun
<1> SUFFICES ASSUME IInv, LoaderInv, NEW id \in Mods, running[id] > 0,
                    NEW d \in AllNeeds(id), Native(d)
             PROVE  running[d] > 0
  BY DEF NeedsRun
<1>1. /\ loaded \in Seq(enabled) /\ session \in Seq(enabled)
      /\ NeedsLoaded(loaded) /\ NeedsLoaded(session)
  BY DEF LoaderInv, Sessions
<1>2. ASSUME NEW s \in Seq(enabled), NeedsLoaded(s), Held(s, id) > 0
      PROVE  Held(s, d) > 0 /\ d \in enabled
  <2>1. PICK i \in DOMAIN s : s[i] = id
    BY <1>2, HeldType
  <2>2. PICK j \in 1 .. i - 1 : s[j] = d
    BY <1>2, <2>1 DEF NeedsLoaded
  <2>3. j \in DOMAIN s /\ d \in enabled
    BY <1>2, <2>1, <2>2
  <2> QED
    BY <1>2, <2>2, <2>3, HeldType
<1>3. \A m \in Mods : running[m] = Held(loaded, m) + Held(session, m)
  BY DEF LoaderInv, Counts
<1>4. /\ Held(loaded, id) \in Nat /\ Held(session, id) \in Nat
      /\ Held(loaded, d) \in Nat /\ Held(session, d) \in Nat
  BY <1>1, HeldType
<1>5. Held(loaded, id) > 0 \/ Held(session, id) > 0
  BY <1>3, <1>4
<1>6. (Held(loaded, d) > 0 \/ Held(session, d) > 0) /\ d \in enabled
  BY <1>1, <1>2, <1>5
<1>7. d \in Mods
  BY <1>6, LoaderFinds
<1> QED
  BY <1>3, <1>4, <1>6, <1>7

\* No session has a mod twice: the loader goes through load_order, where each is once.
BeenThrough ==
    loader = "loading" => \A i \in DOMAIN loaded : \E k \in 1 .. cursor : order[k] = loaded[i]
OnceEach ==
    /\ loads \in 0 .. MaxLoads /\ BeenThrough
    /\ \A id \in Mods : Held(loaded, id) \in 0 .. 1 /\ Held(session, id) \in 0 .. 1

LEMMA NextHeld ==
    ASSUME loads' \in 0 .. MaxLoads, BeenThrough', catalog' = catalog,
           \A id \in Mods : Held(loaded', id) \in 0 .. 1 /\ Held(session', id) \in 0 .. 1
    PROVE  OnceEach'
<1>1. \A id : Held(loaded', id) = Held(loaded, id)' /\ Held(session', id) = Held(session, id)'
  BY DEF Held
<1> QED
  BY <1>1 DEF OnceEach, Mods

LEMMA OnLoadOnceEach == ASSUME IInv, LoaderInv, Once, OnceEach, OnLoad PROVE OnceEach'
<1>1. /\ loader = "loading" /\ cursor < Len(order) /\ pending # NoMod
      /\ loaded' = Append(loaded, pending) /\ cursor' = cursor + 1
      /\ UNCHANGED <<loader, loads, session>> /\ UNCHANGED resolver
  BY DEF OnLoad, ToLoad
<1>2. /\ pending = order[cursor + 1] /\ pending \in enabled /\ cursor \in Nat /\ Len(order) \in Nat
  BY <1>1, LoaderFinds DEF LoaderInv, Turns, NextMod
<1>3. loaded \in Seq(enabled) /\ order \in Seq(enabled)
  BY DEF LoaderInv, Sessions, IInv, ResolverTypeOK
<1>4. \A i \in DOMAIN loaded : \E k \in 1 .. cursor : order[k] = loaded[i]
  BY <1>1 DEF OnceEach, BeenThrough
<1>5. ~ \E i \in DOMAIN loaded : loaded[i] = pending
  <2>1. ASSUME NEW k \in 1 .. cursor PROVE order[k] # pending
    <3>1. k \in DOMAIN order /\ cursor + 1 \in DOMAIN order /\ k # cursor + 1
      <4>1. DOMAIN order = 1 .. Len(order)
        BY <1>3
      <4> QED
        BY <1>1, <1>2, <4>1
    <3> QED
      BY <1>2, <3>1 DEF Once
  <2> QED
    BY <1>4, <2>1
<1>6. /\ Len(loaded) \in Nat /\ DOMAIN loaded = 1 .. Len(loaded)
      /\ DOMAIN loaded' = 1 .. Len(loaded) + 1 /\ loaded'[Len(loaded) + 1] = pending
      /\ \A i \in 1 .. Len(loaded) : loaded'[i] = loaded[i]
  BY <1>1, <1>2, <1>3, AppendParts
<1>7. ASSUME NEW i \in DOMAIN loaded' PROVE \E k \in 1 .. cursor' : order'[k] = loaded'[i]
  <2>0. order' = order
    BY <1>1, SameSet
  <2>1. CASE i = Len(loaded) + 1
    <3>1. cursor + 1 \in 1 .. cursor'
      BY <1>1, <1>2
    <3> QED
      BY <1>2, <1>6, <2>0, <2>1, <3>1
  <2>2. CASE i # Len(loaded) + 1
    <3>1. i \in DOMAIN loaded /\ loaded'[i] = loaded[i]
      BY <1>6, <2>2
    <3>2. PICK k \in 1 .. cursor : order[k] = loaded[i]
      BY <1>4, <3>1
    <3>3. k \in 1 .. cursor'
      BY <1>1, <1>2
    <3> QED
      BY <2>0, <3>1, <3>2, <3>3
  <2> QED
    BY <2>1, <2>2
<1>8. ASSUME NEW id \in Mods PROVE Held(loaded', id) \in 0 .. 1
  <2>1. Held(loaded', id) = Held(loaded, id) + (IF pending = id THEN 1 ELSE 0)
    BY <1>1, <1>2, <1>3, HeldAppend
  <2>2. Held(loaded, id) \in 0 .. 1
    BY DEF OnceEach
  <2>3. Held(loaded, pending) = 0
    BY <1>3, <1>5, HeldType
  <2> QED
    BY <2>1, <2>2, <2>3
<1>9. \A id \in Mods : Held(session', id) \in 0 .. 1
  BY <1>1 DEF OnceEach
<1>10. BeenThrough'
  BY <1>7 DEF BeenThrough
<1>11. loads' \in 0 .. MaxLoads /\ catalog' = catalog
  BY <1>1, SameSet DEF OnceEach
<1> QED
  BY <1>8, <1>9, <1>10, <1>11, NextHeld

LEMMA UnloadOnceEach == ASSUME IInv, LoaderInv, OnceEach, Unload \/ Unloaded PROVE OnceEach'
<1>1. /\ loader \in {"failing", "replacing", "closing"} /\ loader' # "loading"
      /\ UNCHANGED loads /\ UNCHANGED resolver
  BY DEF Unload, Unloaded, Unloading
<1>2. loaded \in Seq(enabled) /\ session \in Seq(enabled)
  BY DEF LoaderInv, Sessions
<1>3. ASSUME NEW s \in Seq(enabled), s # <<>>, NEW id, Held(s, id) \in 0 .. 1
      PROVE  Held(RemoveAt(s, Len(s)), id) \in 0 .. 1
  <2>1. /\ Held(RemoveAt(s, Len(s)), id) \in Nat
        /\ Held(s, id) = Held(RemoveAt(s, Len(s)), id) + (IF s[Len(s)] = id THEN 1 ELSE 0)
    BY <1>3, FrontCounts
  <2> QED
    BY <1>3, <2>1
<1>4. ASSUME NEW id \in Mods
      PROVE  Held(loaded', id) \in 0 .. 1 /\ Held(session', id) \in 0 .. 1
  <2>1. Held(loaded, id) \in 0 .. 1 /\ Held(session, id) \in 0 .. 1 /\ Held(<<>>, id) \in 0 .. 1
    BY HeldEmpty DEF OnceEach
  <2>2. CASE Unload /\ loader = "failing"
    <3>1. /\ loaded # <<>> /\ loaded' = RemoveAt(loaded, Len(loaded)) /\ session' = session
      BY <2>2 DEF Unload, Leaving, NextToUnload
    <3> QED
      BY <1>2, <1>3, <2>1, <3>1
  <2>3. CASE Unload /\ loader # "failing"
    <3>1. /\ session # <<>> /\ session' = RemoveAt(session, Len(session)) /\ loaded' = loaded
      BY <2>3 DEF Unload, Leaving, NextToUnload
    <3> QED
      BY <1>2, <1>3, <2>1, <3>1
  <2>4. CASE Unloaded
    <3>1. /\ loaded' \in {loaded, <<>>} /\ session' \in {session, loaded}
      BY <2>4 DEF Unloaded
    <3> QED
      BY <2>1, <3>1
  <2> QED
    BY <2>2, <2>3, <2>4
<1>5. BeenThrough' /\ loads' \in 0 .. MaxLoads /\ catalog' = catalog
  BY <1>1, SameSet DEF BeenThrough, OnceEach
<1> QED
  BY <1>4, <1>5, NextHeld

LEMMA StepOnceEach == IInv /\ LoaderInv /\ Once /\ OnceEach /\ [Next]_vars => OnceEach'
<1> SUFFICES ASSUME IInv, LoaderInv, Once, OnceEach, [Next]_vars PROVE OnceEach'
  OBVIOUS
<1>1. CASE OnLoad
  BY <1>1, OnLoadOnceEach
<1>2. CASE Unload \/ Unloaded
  BY <1>2, UnloadOnceEach
<1>3. CASE UNCHANGED <<loaded, session>>
  <2>1. \A id \in Mods : Held(loaded', id) \in 0 .. 1 /\ Held(session', id) \in 0 .. 1
    BY <1>3 DEF OnceEach
  <2>2. CASE Resolve /\ UNCHANGED session_vars
    <3>1. phase # "resolved" /\ catalog' = catalog /\ UNCHANGED <<loader, loads>>
      BY <2>2 DEF session_vars, Resolve, Missing, WrongVersion, DependencyCycle, WrongApi,
         Conflicting, Fail, AlreadyIncluded, IncludeMod, Included, CountDependencies,
         AllIncluded, Place, Finish, Found, Calling
    <3>2. loader' = "idle"
      BY <3>1 DEF LoaderInv, Turns
    <3>3. BeenThrough' /\ loads' \in 0 .. MaxLoads
      BY <3>1, <3>2 DEF BeenThrough, OnceEach
    <3> QED
      BY <2>1, <3>1, <3>3, NextHeld
  <2>3. CASE LoadNativeMods
    <3>1. /\ loader = "idle" /\ loads < MaxLoads /\ loads' = loads + 1 /\ UNCHANGED resolver
      BY <2>3 DEF LoadNativeMods
    <3>2. loaded' = <<>>
      BY <1>3, <3>1 DEF LoaderInv, Sessions
    <3>3. BeenThrough'
      BY <3>2 DEF BeenThrough
    <3>4. loads' \in 0 .. MaxLoads
      BY <3>1, SessionAssumption DEF OnceEach
    <3> QED
      BY <2>1, <3>1, <3>3, <3>4, SameSet, NextHeld
  <2>4. CASE SkipData \/ OpenLibrary
    <3>1. /\ loader = "loading" /\ cursor' \in {cursor, cursor + 1} /\ UNCHANGED loads
          /\ UNCHANGED resolver
      BY <2>4 DEF SkipData, OpenLibrary, ToLoad
    <3>2. cursor \in Nat /\ order' = order
      BY <3>1, LoaderFinds, SameSet
    <3>3. \A k \in 1 .. cursor : k \in 1 .. cursor'
      BY <3>1, <3>2
    <3>4. BeenThrough'
      BY <1>3, <3>1, <3>2, <3>3 DEF BeenThrough, OnceEach
    <3>5. loads' \in 0 .. MaxLoads
      BY <3>1 DEF OnceEach
    <3> QED
      BY <2>1, <3>1, <3>4, <3>5, SameSet, NextHeld
  <2>5. CASE NotOpened \/ Rejected \/ Replace \/ Destroy
    <3>1. loader' # "loading" /\ UNCHANGED loads /\ UNCHANGED resolver
      BY <2>5 DEF NotOpened, Rejected, Replace, Destroy
    <3>2. BeenThrough' /\ loads' \in 0 .. MaxLoads
      BY <3>1 DEF BeenThrough, OnceEach
    <3> QED
      BY <2>1, <3>1, <3>2, SameSet, NextHeld
  <2>6. CASE UNCHANGED vars
    <3>1. UNCHANGED <<loader, loads, cursor>> /\ UNCHANGED resolver
      BY <2>6 DEF vars, session_vars
    <3>2. BeenThrough' /\ loads' \in 0 .. MaxLoads
      BY <1>3, <3>1, SameSet DEF BeenThrough, OnceEach
    <3> QED
      BY <2>1, <3>1, <3>2, SameSet, NextHeld
  <2> QED
    BY <1>1, <1>2, <2>2, <2>3, <2>4, <2>5, <2>6 DEF Next, Load
<1>4. ~(OnLoad \/ Unload \/ Unloaded) => UNCHANGED <<loaded, session>>
  BY DEF Next, Load, LoadNativeMods, SkipData, NotOpened, OpenLibrary, Rejected, Replace,
     Destroy, vars, session_vars
<1> QED
  BY <1>1, <1>2, <1>3, <1>4

LEMMA InitialOnceEach == Init => OnceEach
<1> SUFFICES ASSUME Init PROVE OnceEach
  OBVIOUS
<1>1. loader = "idle" /\ loads = 0 /\ loaded = <<>> /\ session = <<>>
  BY DEF Init
<1> QED
  BY <1>1, HeldEmpty, SessionAssumption DEF OnceEach, BeenThrough

LEMMA SessionTyped == IInv /\ LoaderInv /\ OnceEach => TypeOK
<1> SUFFICES ASSUME IInv, LoaderInv, OnceEach PROVE TypeOK
  OBVIOUS
<1>1. pending \in enabled \cup {NoMod}
  BY LoaderFinds DEF LoaderInv, Turns
<1>2. /\ open \in [Mods -> Nat] /\ running \in [Mods -> Nat]
      /\ \A id \in Mods : /\ running[id] = Held(loaded, id) + Held(session, id)
                          /\ open[id] = Held(loaded, id) + Held(session, id) + Opened(id)
  BY DEF LoaderInv, Counts
<1>3. ASSUME NEW id \in Mods PROVE open[id] \in 0 .. 3 /\ running[id] \in 0 .. 2
  <2>1. Held(loaded, id) \in 0 .. 1 /\ Held(session, id) \in 0 .. 1 /\ Opened(id) \in 0 .. 1
    BY DEF OnceEach, Opened
  <2> QED
    BY <1>2, <2>1
<1>4. open \in [Mods -> 0 .. 3] /\ running \in [Mods -> 0 .. 2]
  BY <1>2, <1>3
<1> QED
  BY <1>1, <1>4 DEF TypeOK, IInv, LoaderInv, Turns, Sessions, OnceEach

-----------------------------------------------------------------------------
(* The overlay                                                             *)

FileMap == UNION {[paths -> enabled] : paths \in SUBSET Paths}
OverlayType == [files : FileMap, collisions : SUBSET (Paths \X enabled \X enabled)]

LEMMA LaidType ==
    ASSUME ResolverTypeOK, NEW overlay \in OverlayType, NEW id \in enabled
    PROVE  Laid(overlay, id) \in OverlayType
<1>1. catalog[id].files \in SUBSET Paths
  BY DEF ResolverTypeOK, Catalog, Manifest
<1>2. overlay.files \in FileMap /\ overlay.collisions \in SUBSET (Paths \X enabled \X enabled)
  BY DEF OverlayType
<1>3. PICK paths \in SUBSET Paths : overlay.files \in [paths -> enabled]
  BY <1>2 DEF FileMap
<1> DEFINE all == DOMAIN overlay.files \cup catalog[id].files
           files == [path \in all |->
                       IF path \in catalog[id].files THEN id ELSE overlay.files[path]]
           hidden == {<<path, overlay.files[path], id>> :
                        path \in DOMAIN overlay.files \cap catalog[id].files}
<1>4. files \in [all -> enabled] /\ all \in SUBSET Paths
  BY <1>1, <1>3
<1>5. files \in FileMap
  BY <1>4 DEF FileMap
<1>6. hidden \in SUBSET (Paths \X enabled \X enabled)
  BY <1>1, <1>3
<1>7. Laid(overlay, id) = [files |-> files, collisions |-> overlay.collisions \cup hidden]
  BY DEF Laid
<1> HIDE DEF files, hidden
<1> QED
  BY <1>2, <1>5, <1>6, <1>7 DEF OverlayType

NoFiles == [files |-> <<>>, collisions |-> {}]

\* The recursion of Overlays goes through load_order.
LEMMA OverlaysGo ==
    ASSUME ResolverTypeOK
    PROVE  /\ Overlays[0] = NoFiles
           /\ \A n \in 0 .. Len(order) - 1 :
                Overlays[n + 1] = IF Native(order[n + 1]) THEN Overlays[n]
                                  ELSE Laid(Overlays[n], order[n + 1])
<1> DEFINE len == Len(order)
           S == OverlayType
           turn == [k \in Nat |-> [o \in S |->
                      IF k + 1 \in DOMAIN order /\ ~Native(order[k + 1])
                      THEN Laid(o, order[k + 1]) ELSE o]]
           Equation(f) ==
             f = [n \in 0 .. len |->
                    IF n = 0 THEN NoFiles
                    ELSE IF Native(order[n]) THEN f[n - 1]
                    ELSE Laid(f[n - 1], order[n])]
<1>1. len \in Nat /\ DOMAIN order = 1 .. len /\ \A k \in 1 .. len : order[k] \in enabled
  BY DEF ResolverTypeOK
<1>2. turn \in [Nat -> [S -> S]]
  <2> SUFFICES ASSUME NEW k \in Nat, NEW o \in S, k + 1 \in DOMAIN order
               PROVE  Laid(o, order[k + 1]) \in S
    OBVIOUS
  <2> QED
    BY <1>1, LaidType
<1> HIDE DEF len
<1>3. PICK r : IsLoop(r, S, NoFiles, turn, len)
  <2>1. NoFiles \in S
    <3>1. <<>> \in [{} -> enabled]
      OBVIOUS
    <3> QED
      BY <3>1 DEF NoFiles, OverlayType, FileMap
  <2> HIDE DEF turn, S
  <2> QED
    BY <1>1, <1>2, <2>1, LoopExists
<1>4. ASSUME NEW n \in 0 .. len
      PROVE  r[n] = IF n = 0 THEN NoFiles
                    ELSE IF Native(order[n]) THEN r[n - 1]
                    ELSE Laid(r[n - 1], order[n])
  <2>1. CASE n = 0
    BY <1>3, <2>1 DEF IsLoop
  <2>2. CASE n # 0
    <3>1. /\ n - 1 \in 0 .. len - 1 /\ (n - 1) + 1 = n /\ n - 1 \in Nat
          /\ n - 1 \in 0 .. len /\ n \in DOMAIN order
      BY <1>1, <2>2
    <3>2. r[n - 1] \in S /\ r[n] = turn[n - 1][r[n - 1]]
      BY <1>3, <3>1 DEF IsLoop
    <3> HIDE DEF S
    <3> QED
      BY <2>2, <3>1, <3>2
  <2> QED
    BY <2>1, <2>2
<1>5. Equation(r)
  <2>1. r = [n \in 0 .. len |-> r[n]]
    BY <1>3 DEF IsLoop
  <2> QED
    BY <1>4, <2>1
<1>6. Overlays = CHOOSE f : Equation(f)
  BY DEF Overlays, len, NoFiles
<1>7. Equation(Overlays)
  BY <1>5, <1>6
<1>8. Overlays[0] = NoFiles
  BY <1>1, <1>7
<1>9. ASSUME NEW n \in 0 .. len - 1
      PROVE  Overlays[n + 1] = IF Native(order[n + 1]) THEN Overlays[n]
                               ELSE Laid(Overlays[n], order[n + 1])
  <2>1. n + 1 \in 0 .. len /\ n + 1 # 0 /\ (n + 1) - 1 = n
    BY <1>1
  <2> QED
    BY <1>7, <2>1
<1> QED
  BY <1>8, <1>9 DEF len

\* The data mod at place k has a file at path.
Brings(k, path) == ~Native(order[k]) /\ path \in catalog[order[k]].files

\* After n mods every file is the last one laid there, and each one laid there
\* before it is named in a collision.
Follows(overlay, n) ==
    /\ \A path : path \in DOMAIN overlay.files <=> \E k \in 1 .. n : Brings(k, path)
    /\ \A path \in DOMAIN overlay.files : \E k \in 1 .. n :
        /\ Brings(k, path) /\ overlay.files[path] = order[k]
        /\ \A m \in 1 .. n : Brings(m, path) =>
            m <= k /\ (m < k => \E c \in overlay.collisions : c[1] = path /\ c[2] = order[m])

LEMMA LaidFollows ==
    ASSUME NEW overlay, NEW n \in Nat, Follows(overlay, n), ~Native(order[n + 1])
    PROVE  Follows(Laid(overlay, order[n + 1]), n + 1)
<1> DEFINE id == order[n + 1]
           now == Laid(overlay, id)
<1>1. /\ DOMAIN now.files = DOMAIN overlay.files \cup catalog[id].files
      /\ \A path \in DOMAIN now.files :
            now.files[path] = IF path \in catalog[id].files THEN id ELSE overlay.files[path]
      /\ now.collisions = overlay.collisions \cup
            {<<path, overlay.files[path], id>> :
                path \in DOMAIN overlay.files \cap catalog[id].files}
  BY DEF Laid
<1> HIDE DEF now
<1>2. \A path : Brings(n + 1, path) <=> path \in catalog[id].files
  BY DEF Brings
<1>3. \A k \in 1 .. n + 1 : k = n + 1 \/ k \in 1 .. n
  OBVIOUS
<1>4. \A k \in 1 .. n : k \in 1 .. n + 1 /\ k < n + 1
  OBVIOUS
<1>5. n + 1 \in 1 .. n + 1
  OBVIOUS
<1>6. ASSUME NEW path
      PROVE  path \in DOMAIN now.files <=> \E k \in 1 .. n + 1 : Brings(k, path)
  <2>1. path \in DOMAIN overlay.files <=> \E k \in 1 .. n : Brings(k, path)
    BY DEF Follows
  <2> QED
    BY <1>1, <1>2, <1>3, <1>4, <1>5, <2>1
<1>7. ASSUME NEW path \in DOMAIN now.files
      PROVE  \E k \in 1 .. n + 1 :
                /\ Brings(k, path) /\ now.files[path] = order[k]
                /\ \A m \in 1 .. n + 1 : Brings(m, path) =>
                    m <= k /\ (m < k => \E c \in now.collisions : c[1] = path /\ c[2] = order[m])
  <2>1. path \in DOMAIN overlay.files =>
          \E k \in 1 .. n :
            /\ Brings(k, path) /\ overlay.files[path] = order[k]
            /\ \A m \in 1 .. n : Brings(m, path) =>
                m <= k /\ (m < k => \E c \in overlay.collisions : c[1] = path /\ c[2] = order[m])
    BY DEF Follows
  <2>2. CASE path \notin catalog[id].files
    <3>1. path \in DOMAIN overlay.files /\ now.files[path] = overlay.files[path]
      BY <1>1, <1>7, <2>2
    <3>2. PICK k \in 1 .. n :
            /\ Brings(k, path) /\ overlay.files[path] = order[k]
            /\ \A m \in 1 .. n : Brings(m, path) =>
                m <= k /\ (m < k => \E c \in overlay.collisions : c[1] = path /\ c[2] = order[m])
      BY <2>1, <3>1
    <3>3. \A m \in 1 .. n + 1 : Brings(m, path) => m \in 1 .. n
      BY <1>2, <1>3, <2>2
    <3> QED
      BY <1>1, <1>4, <3>1, <3>2, <3>3
  <2>3. CASE path \in catalog[id].files
    <3>1. Brings(n + 1, path) /\ now.files[path] = order[n + 1]
      BY <1>1, <1>2, <1>7, <2>3
    <3>2. ASSUME NEW m \in 1 .. n, Brings(m, path)
          PROVE  \E c \in now.collisions : c[1] = path /\ c[2] = order[m]
      <4>1. path \in DOMAIN overlay.files
        BY <3>2 DEF Follows
      <4>2. PICK k \in 1 .. n :
              /\ Brings(k, path) /\ overlay.files[path] = order[k]
              /\ \A l \in 1 .. n : Brings(l, path) =>
                  l <= k /\ (l < k => \E c \in overlay.collisions : c[1] = path /\ c[2] = order[l])
        BY <2>1, <4>1
      <4>3. CASE m = k
        <5>1. <<path, overlay.files[path], id>> \in now.collisions
          BY <1>1, <2>3, <4>1
        <5>2. <<path, overlay.files[path], id>>[1] = path
              /\ <<path, overlay.files[path], id>>[2] = order[m]
          BY <4>2, <4>3
        <5> QED
          BY <5>1, <5>2
      <4>4. CASE m # k
        <5>1. m < k
          BY <3>2, <4>2, <4>4
        <5>2. PICK c \in overlay.collisions : c[1] = path /\ c[2] = order[m]
          BY <3>2, <4>2, <5>1
        <5> QED
          BY <1>1, <5>2
      <4> QED
        BY <4>3, <4>4
    <3>3. \A m \in 1 .. n + 1 : m <= n + 1 /\ (m < n + 1 => m \in 1 .. n)
      OBVIOUS
    <3> QED
      BY <1>5, <3>1, <3>2, <3>3
  <2> QED
    BY <2>2, <2>3
<1> QED
  BY <1>6, <1>7 DEF Follows, now

LEMMA OverlaysFollow ==
    ASSUME ResolverTypeOK
    PROVE  Follows(Overlay, Len(order))
<1> DEFINE P == {n \in Nat : n <= Len(order) => Follows(Overlays[n], n)}
<1>1. Len(order) \in Nat
  BY DEF ResolverTypeOK
<1>2. 0 \in P
  <2>1. Overlays[0] = NoFiles
    BY OverlaysGo
  <2>2. Follows(NoFiles, 0)
    BY DEF Follows, NoFiles
  <2> QED
    BY <2>1, <2>2
<1>3. ASSUME NEW n \in Nat, n \in P
      PROVE  n + 1 \in P
  <2> SUFFICES ASSUME n + 1 <= Len(order)
               PROVE  Follows(Overlays[n + 1], n + 1)
    OBVIOUS
  <2>1. Follows(Overlays[n], n)
    BY <1>1, <1>3
  <2>2. Overlays[n + 1] = IF Native(order[n + 1]) THEN Overlays[n]
                          ELSE Laid(Overlays[n], order[n + 1])
    BY <1>1, OverlaysGo
  <2>3. CASE ~Native(order[n + 1])
    BY <2>1, <2>2, <2>3, LaidFollows
  <2>4. CASE Native(order[n + 1])
    <3> DEFINE overlay == Overlays[n]
    <3>1. Overlays[n + 1] = overlay /\ Follows(overlay, n)
      BY <2>1, <2>2, <2>4
    <3>2. \A path : \A k \in 1 .. n + 1 : Brings(k, path) => k \in 1 .. n
      BY <2>4 DEF Brings
    <3>3. \A k \in 1 .. n : k \in 1 .. n + 1
      OBVIOUS
    <3> HIDE DEF overlay
    <3>4. Follows(overlay, n + 1)
      <4>1. ASSUME NEW path
            PROVE  path \in DOMAIN overlay.files <=> \E k \in 1 .. n + 1 : Brings(k, path)
        BY <3>1, <3>2, <3>3 DEF Follows
      <4>2. ASSUME NEW path \in DOMAIN overlay.files
            PROVE  \E k \in 1 .. n + 1 :
                     /\ Brings(k, path) /\ overlay.files[path] = order[k]
                     /\ \A m \in 1 .. n + 1 : Brings(m, path) =>
                         m <= k /\ (m < k => \E c \in overlay.collisions :
                                                c[1] = path /\ c[2] = order[m])
        BY <3>1, <3>2, <3>3 DEF Follows
      <4> QED
        BY <4>1, <4>2 DEF Follows
    <3> QED
      BY <3>1, <3>4
  <2> QED
    BY <2>3, <2>4
<1>4. Nat \subseteq P
  <2> HIDE DEF P
  <2> QED
    BY <1>2, <1>3, SetInduction
<1> QED
  BY <1>1, <1>4 DEF Overlay

LEMMA OverlayIsRight == IInv /\ ExactInv => OverlayFollowsDependencies
<1> SUFFICES ASSUME IInv, ExactInv, phase = "resolved"
             PROVE  OverlayFollowsDependencies
  BY DEF OverlayFollowsDependencies
<1> DEFINE files == Overlay.files
           data == {m \in enabled : ~Native(m)}
<1>0. ResolverTypeOK /\ DependenciesFirst /\ Once
  BY DEF IInv, ExactInv
<1>1. Follows(Overlay, Len(order))
  BY <1>0, OverlaysFollow
<1>2. Placed = enabled
  <2>1. Placed = Closure
    BY DEF ExactInv, ResolutionExact
  <2>2. enabled \subseteq Closure
    BY DEF ExactInv, OnlyWanted
  <2>3. Placed \subseteq enabled
    BY <1>0, OrderCounts
  <2> QED
    BY <2>1, <2>2, <2>3
<1>3. DOMAIN order = 1 .. Len(order) /\ Len(order) \in Nat
  BY <1>0 DEF ResolverTypeOK
<1>4. /\ \A id \in enabled : \E k \in 1 .. Len(order) : order[k] = id
      /\ \A k \in 1 .. Len(order) : order[k] \in enabled
  BY <1>2, <1>3 DEF Placed
<1>5. DOMAIN files = UNION {catalog[id].files : id \in data}
  <2>1. \A path : path \in DOMAIN files <=> \E k \in 1 .. Len(order) : Brings(k, path)
    BY <1>1 DEF Follows
  <2>2. ASSUME NEW path
        PROVE  (\E k \in 1 .. Len(order) : Brings(k, path))
               <=> \E id \in data : path \in catalog[id].files
    BY <1>4 DEF Brings
  <2> HIDE DEF files, data
  <2> QED
    BY <2>1, <2>2
<1>6. ASSUME NEW path \in DOMAIN files, NEW id \in enabled,
             path \in catalog[id].files, ~Native(id), id # files[path]
      PROVE  /\ files[path] \notin AllNeeds(id)
             /\ \E c \in Overlay.collisions : c[1] = path /\ c[2] = id
  <2>1. PICK k \in 1 .. Len(order) :
          /\ Brings(k, path) /\ files[path] = order[k]
          /\ \A m \in 1 .. Len(order) : Brings(m, path) =>
              m <= k /\ (m < k => \E c \in Overlay.collisions : c[1] = path /\ c[2] = order[m])
    BY <1>1, <1>6 DEF Follows
  <2>2. PICK m \in 1 .. Len(order) : order[m] = id
    BY <1>4
  <2>3. Brings(m, path)
    BY <1>6, <2>2 DEF Brings
  <2>4. m < k
    <3>1. m <= k
      BY <2>1, <2>3
    <3>2. m # k
      BY <1>6, <2>1, <2>2
    <3> QED
      BY <3>1, <3>2
  <2>5. \E c \in Overlay.collisions : c[1] = path /\ c[2] = id
    BY <2>1, <2>2, <2>3, <2>4
  <2>6. AllNeeds(id) \subseteq {order[j] : j \in 1 .. m - 1}
    BY <1>0, <1>3, <2>2, NeedsBefore
  <2>7. ASSUME NEW j \in 1 .. m - 1
        PROVE  order[j] # order[k]
    <3>1. j \in DOMAIN order /\ k \in DOMAIN order /\ j # k
      BY <1>3, <2>4
    <3> QED
      BY <1>0, <3>1 DEF Once
  <2> QED
    BY <2>1, <2>5, <2>6, <2>7
<1> HIDE DEF files
<1>7. ASSUME NEW path \in DOMAIN files, NEW id \in enabled
      PROVE  path \in catalog[id].files /\ ~Native(id) /\ id # files[path]
             => /\ files[path] \notin AllNeeds(id)
                /\ \E c \in Overlay.collisions : c[1] = path /\ c[2] = id
  BY <1>6
<1> QED
  BY <1>5, <1>7 DEF OverlayFollowsDependencies, files

-----------------------------------------------------------------------------
(* Why resolve_mod_set returns                                             *)

\* What is left to do, the first before the next: the parts of the function; the
\* mods that can still be enabled, or are to be placed; the calls of include_mod
\* that are to return; the ids the innermost loop has left.
PhasesLeft == IF phase = "include" THEN 2 ELSE IF phase = "order" THEN 1 ELSE 0
ModsLeft == Cardinality(IF phase = "include" THEN DOMAIN catalog \ enabled ELSE enabled \ Placed)
CallsLeft == Len(stack)
IdsLeft == IF stack = <<>> THEN Len(requested) - asked
                           ELSE Len(Dependencies(Top.id)) - Top.done

\* Less is left: lexicographically, in numbers that are never negative.
RunsDown ==
    \/ PhasesLeft' < PhasesLeft
    \/ /\ PhasesLeft' = PhasesLeft
       /\ \/ ModsLeft' < ModsLeft
          \/ /\ ModsLeft' = ModsLeft
             /\ \/ CallsLeft' < CallsLeft
                \/ CallsLeft' = CallsLeft /\ IdsLeft' < IdsLeft
LeftIsCounted == {PhasesLeft, ModsLeft, CallsLeft, IdsLeft} \subseteq Nat

LEMMA Enabled ==
    ASSUME IInv
    PROVE  /\ enabled \in SUBSET DOMAIN catalog
           /\ IsFiniteSet(DOMAIN catalog) /\ IsFiniteSet(enabled)
<1>1. enabled \in SUBSET DOMAIN catalog /\ IsFiniteSet(DOMAIN catalog)
  BY DEF IInv, ResolverTypeOK, Catalog
<1> QED BY <1>1, FS_Subset

LEMMA Counted == IInv => LeftIsCounted
<1> SUFFICES ASSUME IInv PROVE LeftIsCounted
  OBVIOUS
<1>1. ModsLeft \in Nat
  <2>1. IsFiniteSet(DOMAIN catalog \ enabled) /\ IsFiniteSet(enabled \ Placed)
    BY Enabled, FS_Subset
  <2> QED BY <2>1, FS_CardinalityType DEF ModsLeft
<1>2. CallsLeft \in Nat
  BY DEF IInv, ResolverTypeOK, CallsLeft
<1>3. IdsLeft \in Nat
  <2>1. CASE stack = <<>>
    BY <2>1 DEF IInv, ResolverTypeOK, IdsLeft
  <2>2. CASE stack # <<>>
    <3>1. /\ Len(stack) \in DOMAIN stack /\ Top.done \in Nat /\ Top.id \in DOMAIN catalog
          /\ Top = stack[Len(stack)]
      BY <2>2, StackParts, Enabled DEF IInv, Top
    <3>2. Top.done <= Len(Dependencies(Top.id)) /\ Len(Dependencies(Top.id)) \in Nat
      BY <3>1, ManifestType DEF IInv, FramesInclude
    <3> QED BY <2>2, <3>1, <3>2 DEF IdsLeft
  <2> QED BY <2>1, <2>2
<1> QED BY <1>1, <1>2, <1>3 DEF LeftIsCounted, PhasesLeft

\* One of the mods that are left goes.
LEMMA OneGoes ==
    ASSUME NEW S, IsFiniteSet(S), NEW x \in S
    PROVE  Cardinality(S \ {x}) < Cardinality(S)
<1>1. Cardinality(S \ {x}) = Cardinality(S) - 1 /\ Cardinality(S) \in Nat
  BY FS_RemoveElement, FS_CardinalityType
<1> QED BY <1>1

LEMMA AlreadyIncludedRuns == ASSUME IInv, AlreadyIncluded PROVE RunsDown
<1>1. /\ Found /\ stack' = Behind /\ Turned
      /\ UNCHANGED <<catalog, requested, phase, visit, indegree, ready, order>>
  BY DEF AlreadyIncluded
<1>2. PhasesLeft' = PhasesLeft /\ ModsLeft' = ModsLeft
  <2>1. enabled' = enabled /\ Placed' = Placed
    BY <1>1 DEF enabled, Placed
  <2> QED BY <1>1, <2>1 DEF PhasesLeft, ModsLeft
<1>3. CASE stack = <<>>
  <2>1. stack' = <<>> /\ asked' = asked + 1
    BY <1>1, <1>3 DEF Behind, Turned
  <2>2. asked \in Nat /\ Len(requested) \in Nat
    BY DEF IInv, ResolverTypeOK
  <2> QED BY <1>1, <1>2, <1>3, <2>1, <2>2 DEF RunsDown, CallsLeft, IdsLeft
<1>4. CASE stack # <<>>
  <2>1. /\ Len(stack) \in Nat \ {0} /\ DOMAIN stack = 1 .. Len(stack) /\ Top.done \in Nat
        /\ Top.id \in DOMAIN catalog /\ stack' \in Seq(Frame)
    BY <1>1, <1>4, StackParts, FoundType, Enabled DEF IInv
  <2>2. Len(stack') = Len(stack)
    <3> DEFINE m == Len(stack)
               n == Len(stack')
    <3>1. DOMAIN stack' = 1 .. n /\ n \in Nat /\ DOMAIN stack = 1 .. m /\ m \in Nat \ {0}
      BY <2>1
    <3>2. DOMAIN stack' = DOMAIN stack
      BY <1>1, BehindShape DEF IInv
    <3> HIDE DEF m, n
    <3>3. m \in 1 .. n
      BY <3>1, <3>2
    <3>4. n \in 1 .. m
      BY <3>1, <3>2, <3>3
    <3>5. m = n
      BY <3>1, <3>3, <3>4
    <3> QED BY <3>5 DEF m, n
  <2>3. stack' # <<>> /\ Top'.id = Top.id /\ Top'.done = Top.done + 1
    <3>1. stack'[Len(stack)].id = Top.id /\ stack'[Len(stack)].done = Top.done + 1
      BY <1>1, <2>1, BehindShape DEF IInv, Top
    <3>2. Top' = stack'[Len(stack)]
      BY <2>2 DEF Top
    <3> QED BY <2>1, <2>2, <3>1, <3>2
  <2>4. Dependencies(Top.id)' = Dependencies(Top.id) /\ Len(Dependencies(Top.id)) \in Nat
    BY <1>1, <2>1, <2>3, ManifestType DEF Dependencies, IInv
  <2>5. IdsLeft' = IdsLeft - 1 /\ IdsLeft \in Int
    BY <1>4, <2>1, <2>3, <2>4 DEF IdsLeft
  <2> QED BY <1>2, <2>1, <2>2, <2>5 DEF RunsDown, CallsLeft
<1> QED BY <1>3, <1>4

LEMMA IncludeModRuns == ASSUME IInv, IncludeMod PROVE RunsDown
<1>1. /\ Wanted \in DOMAIN catalog /\ Wanted \notin enabled /\ phase = "include"
      /\ UNCHANGED <<catalog, phase>>
      /\ visit' = [id \in enabled \cup {Wanted} |->
                    IF id = Wanted THEN "visiting" ELSE visit[id]]
  BY DEF IncludeMod, Found, Calling
<1>2. enabled' = enabled \cup {Wanted}
  BY <1>1 DEF enabled
<1> DEFINE rest == DOMAIN catalog \ enabled
<1>3. IsFiniteSet(rest) /\ Wanted \in rest
  BY <1>1, Enabled, FS_Subset
<1>4. DOMAIN catalog' \ enabled' = rest \ {Wanted}
  BY <1>1, <1>2
<1>5. ModsLeft = Cardinality(rest) /\ ModsLeft' = Cardinality(rest \ {Wanted})
  BY <1>1, <1>4 DEF ModsLeft
<1> HIDE DEF rest
<1>6. ModsLeft' < ModsLeft
  BY <1>3, <1>5, OneGoes
<1> QED BY <1>1, <1>6 DEF RunsDown, PhasesLeft

LEMMA IncludedRuns == ASSUME IInv, Included PROVE RunsDown
<1>1. /\ stack # <<>> /\ visit' = [visit EXCEPT ![Top.id] = "done"] /\ stack' = Callers
      /\ UNCHANGED <<catalog, phase, order>>
  BY DEF Included
<1>2. PhasesLeft' = PhasesLeft /\ ModsLeft' = ModsLeft
  <2>1. enabled' = enabled /\ Placed' = Placed
    BY <1>1 DEF enabled, Placed
  <2> QED BY <1>1, <2>1 DEF PhasesLeft, ModsLeft
<1>3. Len(stack) \in Nat /\ Len(stack') = Len(stack) - 1
  BY <1>1, StackParts DEF IInv
<1> QED BY <1>2, <1>3 DEF RunsDown, CallsLeft

LEMMA PlaceRuns == ASSUME IInv, Place PROVE RunsDown
<1> DEFINE mod == Smallest(ready)
           rest == enabled \ Placed
<1>1. phase = "order" /\ ready # {} /\ order' = Append(order, mod) /\ UNCHANGED <<phase, visit>>
  BY DEF Place
<1>2. ready \subseteq enabled /\ enabled \subseteq Nat /\ order \in Seq(enabled)
  BY ProblemsAssumption DEF IInv, ResolverTypeOK, Catalog
<1>3. mod \in ready
  BY <1>1, <1>2, SmallestIn
<1> HIDE DEF mod
<1>4. mod \in rest /\ IsFiniteSet(rest)
  <2>1. mod \in enabled /\ mod \notin Placed
    BY <1>1, <1>2, <1>3 DEF IInv, Ordering
  <2> QED BY <2>1, Enabled, FS_Subset
<1>5. Placed' = Placed \cup {mod}
  <2>1. /\ DOMAIN order = 1 .. Len(order) /\ DOMAIN order' = 1 .. Len(order) + 1
        /\ Len(order) \in Nat /\ order'[Len(order) + 1] = mod
        /\ \A i \in 1 .. Len(order) : order'[i] = order[i]
    BY <1>1, <1>2, <1>3, AppendParts
  <2> QED BY <2>1 DEF Placed
<1>6. ModsLeft = Cardinality(rest) /\ ModsLeft' = Cardinality(rest \ {mod})
  <2>1. enabled' \ Placed' = rest \ {mod}
    BY <1>1, <1>5 DEF enabled
  <2> QED BY <1>1, <2>1 DEF ModsLeft
<1> HIDE DEF rest
<1>7. ModsLeft' < ModsLeft
  BY <1>4, <1>6, OneGoes
<1> QED BY <1>1, <1>7 DEF RunsDown, PhasesLeft

LEMMA ResolveRuns == ASSUME IInv, Resolve PROVE RunsDown
<1>1. CASE Missing \/ WrongVersion \/ DependencyCycle \/ WrongApi \/ Conflicting
  <2>1. phase = "include" /\ phase' = "failed"
    BY <1>1 DEF Missing, WrongVersion, DependencyCycle, WrongApi, Conflicting,
                Found, Calling, AllIncluded, Fail
  <2> QED BY <2>1 DEF RunsDown, PhasesLeft
<1>2. CASE CountDependencies \/ Finish
  <2>1. \/ phase = "include" /\ phase' = "order"
        \/ phase = "order" /\ phase' \in {"resolved", "failed"}
    BY <1>2 DEF CountDependencies, AllIncluded, Finish
  <2> QED BY <2>1 DEF RunsDown, PhasesLeft
<1> QED
  BY <1>1, <1>2, AlreadyIncludedRuns, IncludeModRuns, IncludedRuns, PlaceRuns DEF Resolve

-----------------------------------------------------------------------------
(* Why a load and an unloading return                                      *)

\* What is left to do: unloading follows loading; mods to go through, or to unload;
\* the library of the next mod, to be opened.
LoopsLeft == IF loader = "loading" THEN 2 ELSE IF loader = "idle" THEN 0 ELSE 1
TurnsLeft == IF loader = "loading" THEN Len(order) - cursor ELSE Len(Leaving)
LibrariesLeft == IF pending = NoMod THEN 1 ELSE 0

TurnsDown ==
    \/ LoopsLeft' < LoopsLeft
    \/ /\ LoopsLeft' = LoopsLeft
       /\ \/ TurnsLeft' < TurnsLeft
          \/ TurnsLeft' = TurnsLeft /\ LibrariesLeft' < LibrariesLeft
TurnsAreCounted == {LoopsLeft, TurnsLeft, LibrariesLeft} \subseteq Nat

LEMMA CountedTurns == IInv /\ LoaderInv => TurnsAreCounted
<1> SUFFICES ASSUME IInv, LoaderInv PROVE TurnsAreCounted
  OBVIOUS
<1>1. /\ loaded \in Seq(enabled) /\ session \in Seq(enabled)
      /\ cursor \in 0 .. Len(order) /\ Len(order) \in Nat
  BY DEF LoaderInv, Turns, Sessions, IInv, ResolverTypeOK
<1>2. TurnsLeft \in Nat
  BY <1>1 DEF TurnsLeft, Leaving
<1> QED BY <1>2 DEF TurnsAreCounted, LoopsLeft, LibrariesLeft

LEMMA LoadRuns == ASSUME IInv, LoaderInv, Load PROVE TurnsDown
<1>1. /\ loaded \in Seq(enabled) /\ session \in Seq(enabled)
      /\ cursor \in 0 .. Len(order) /\ Len(order) \in Nat
      /\ loader \in {"idle", "loading", "failing", "replacing", "closing"}
  BY DEF LoaderInv, Turns, Sessions, IInv, ResolverTypeOK
<1>2. order' = order
  BY DEF Load, SkipData, NotOpened, OpenLibrary, Rejected, OnLoad, Replace, Unload,
         Unloaded, resolver
<1>3. CASE SkipData \/ OnLoad
  <2>1. loader = "loading" /\ loader' = "loading" /\ cursor' = cursor + 1
    BY <1>3 DEF SkipData, OnLoad, ToLoad
  <2>2. LoopsLeft' = LoopsLeft /\ TurnsLeft' < TurnsLeft
    BY <1>1, <1>2, <2>1 DEF LoopsLeft, TurnsLeft
  <2> QED BY <2>2 DEF TurnsDown
<1>4. CASE NotOpened \/ Rejected \/ Replace
  <2>1. loader = "loading" /\ loader' \in {"failing", "replacing"}
    BY <1>4 DEF NotOpened, Rejected, Replace, ToLoad
  <2> QED BY <2>1 DEF TurnsDown, LoopsLeft
<1>5. CASE OpenLibrary
  <2>1. /\ loader = "loading" /\ UNCHANGED <<loader, cursor>>
        /\ pending = NoMod /\ pending' = NextMod /\ cursor < Len(order)
    BY <1>5 DEF OpenLibrary, ToLoad
  <2>2. NextMod # NoMod
    <3>1. cursor + 1 \in 1 .. Len(order) /\ order \in Seq(enabled) /\ enabled \subseteq Ids
      BY <1>1, <2>1 DEF IInv, ResolverTypeOK, Catalog
    <3> QED BY <3>1, SessionAssumption DEF NextMod
  <2>3. LoopsLeft' = LoopsLeft /\ TurnsLeft' = TurnsLeft
    BY <1>2, <2>1 DEF LoopsLeft, TurnsLeft
  <2> QED BY <2>1, <2>2, <2>3 DEF TurnsDown, LibrariesLeft
<1>6. CASE Unload
  <2> DEFINE s == Leaving
  <2>1. /\ loader \in {"failing", "replacing", "closing"} /\ loader' = loader /\ s # <<>>
        /\ Leaving' = RemoveAt(s, Len(s))
    BY <1>6 DEF Unload, Unloading, NextToUnload, Leaving
  <2>2. s \in Seq(enabled) /\ TurnsLeft = Len(s)
    BY <1>1, <2>1 DEF Leaving, TurnsLeft
  <2>3. TurnsLeft' = Len(Leaving')
    BY <2>1 DEF TurnsLeft
  <2> HIDE DEF s
  <2>4. Len(Leaving') = Len(s) - 1 /\ Len(s) \in Nat
    BY <2>1, <2>2, FrontAgain
  <2>5. LoopsLeft' = LoopsLeft
    BY <2>1 DEF LoopsLeft
  <2> QED BY <2>2, <2>3, <2>4, <2>5 DEF TurnsDown
<1>7. CASE Unloaded
  <2>1. loader \in {"failing", "replacing", "closing"} /\ loader' = "idle"
    BY <1>7 DEF Unloaded, Unloading
  <2> QED BY <2>1 DEF TurnsDown, LoopsLeft
<1> QED BY <1>3, <1>4, <1>5, <1>6, <1>7 DEF Load

-----------------------------------------------------------------------------
(* Versions                                                                *)

\* compare_semver orders the versions totally, and two that it calls equal are.
THEOREM VersionsOrdered ==
    ASSUME NEW a \in SemanticVersion, NEW b \in SemanticVersion, NEW c \in SemanticVersion
    PROVE  /\ AtLeast(a, b) \/ AtLeast(b, a)
           /\ AtLeast(a, b) /\ AtLeast(b, a) => a = b
           /\ AtLeast(a, b) /\ AtLeast(b, c) => AtLeast(a, c)
<1>1. /\ {a.major, a.minor, a.patch, b.major, b.minor, b.patch,
          c.major, c.minor, c.patch} \subseteq Nat
      /\ a = [major |-> a.major, minor |-> a.minor, patch |-> a.patch]
      /\ b = [major |-> b.major, minor |-> b.minor, patch |-> b.patch]
  BY DEF SemanticVersion
<1>2. AtLeast(a, b) \/ AtLeast(b, a)
  BY <1>1 DEF AtLeast
<1>3. AtLeast(a, b) /\ AtLeast(b, a) => a = b
  <2> SUFFICES ASSUME AtLeast(a, b), AtLeast(b, a) PROVE a = b
    OBVIOUS
  <2>1. a.major = b.major /\ a.minor = b.minor /\ a.patch = b.patch
    BY <1>1 DEF AtLeast
  <2> QED BY <1>1, <2>1
<1>4. AtLeast(a, b) /\ AtLeast(b, c) => AtLeast(a, c)
  BY <1>1 DEF AtLeast
<1> QED BY <1>2, <1>3, <1>4

\* A mod that is updated within its major version goes on to satisfy whoever did
\* not ask for exactly the one it was.
THEOREM UpdatesFit ==
    ASSUME NEW old \in SemanticVersion, NEW new \in SemanticVersion,
           NEW requirement \in VersionRequirement,
           AtLeast(new, old), new.major = old.major,
           requirement.kind # "exact", Matches(requirement, old)
    PROVE  Matches(requirement, new)
<1>1. requirement.version \in SemanticVersion
  BY DEF VersionRequirement
<1>2. AtLeast(old, requirement.version) => AtLeast(new, requirement.version)
  BY <1>1, VersionsOrdered
<1> QED BY <1>2 DEF Matches

-----------------------------------------------------------------------------
\* resolve_mod_set's locals keep to their types, for every catalog.
THEOREM ResolverTypes == Spec => []ResolverTypeOK
<1>1. Init => IInv
  BY InitialInv
<1>2. IInv /\ [Next]_vars => IInv'
  BY StepInv
<1>3. IInv => ResolverTypeOK
  BY DEF IInv
<1> QED
  BY <1>1, <1>2, <1>3, PTL DEF Spec

\* In load_order no mod precedes one it depends on, whatever is installed and
\* requested: native mods are loaded, and files laid over, in that order.
THEOREM LoadOrderFollowsDependencies == Spec => []DependenciesFirst
<1>1. Init => IInv
  BY InitialInv
<1>2. IInv /\ [Next]_vars => IInv'
  BY StepInv
<1>3. IInv => DependenciesFirst
  BY DEF IInv
<1> QED
  BY <1>1, <1>2, <1>3, PTL DEF Spec

\* resolve_mod_set succeeds exactly if the request and all it depends on can be
\* had together, and then orders all of it, once: it fails for no other reason,
\* and the cycles it finds on its stack are all there are.
THEOREM ResolutionIsExact == Spec => []ResolutionExact
<1>1. Init => IInv /\ ExactInv
  BY InitialInv, InitialExact
<1>2. IInv /\ ExactInv /\ [Next]_vars => (IInv /\ ExactInv)'
  BY StepInv, StepExact
<1>3. IInv /\ ExactInv => ResolutionExact
  BY DEF ExactInv
<1> QED
  BY <1>1, <1>2, <1>3, PTL DEF Spec

\* Every step of resolve_mod_set leaves less to do, for every catalog, with cycles
\* and without: it returns, and by ResolutionIsExact with the right answer.
THEOREM ResolverRunsDown == Spec => []LeftIsCounted /\ [][Resolve => RunsDown]_vars
<1>1. Init => IInv
  BY InitialInv
<1>2. IInv /\ [Next]_vars => IInv'
  BY StepInv
<1>3. IInv /\ [Next]_vars => [Resolve => RunsDown]_vars
  BY ResolveRuns
<1> QED
  BY <1>1, <1>2, <1>3, Counted, PTL DEF Spec

\* In the overlay build_mod_overlay makes no file is hidden by one of a mod it
\* depends on, none is lost, and every hidden one is named in a collision.
THEOREM OverlayHidesRightly == Spec => []OverlayFollowsDependencies
<1>1. Init => IInv /\ ExactInv
  BY InitialInv, InitialExact
<1>2. IInv /\ ExactInv /\ [Next]_vars => (IInv /\ ExactInv)'
  BY StepInv, StepExact
<1>3. IInv /\ ExactInv => OverlayFollowsDependencies
  BY OverlayIsRight
<1> QED
  BY <1>1, <1>2, <1>3, PTL DEF Spec

\* Whatever libraries do and however often a set is loaded, what is open and what
\* runs is what a session holds, with the library that is being looked at.
THEOREM LoaderLosesNothing == Spec => []NothingLost
<1>1. Init => IInv /\ LoaderInv
  BY InitialInv, InitialLoader
<1>2. IInv /\ LoaderInv /\ [Next]_vars => (IInv /\ LoaderInv)'
  BY StepInv, StepLoader
<1>3. IInv /\ LoaderInv => NothingLost
  BY NothingIsLost
<1> QED
  BY <1>1, <1>2, <1>3, PTL DEF Spec

\* Every step of load_native_mods and of an unloading leaves less to do, whatever
\* libraries answer: each returns if their callbacks do, in a load that fails too.
THEOREM LoaderRunsDown == Spec => []TurnsAreCounted /\ [][Load => TurnsDown]_vars
<1>1. Init => IInv /\ LoaderInv
  BY InitialInv, InitialLoader
<1>2. IInv /\ LoaderInv /\ [Next]_vars => (IInv /\ LoaderInv)'
  BY StepInv, StepLoader
<1>3. IInv /\ LoaderInv /\ [Next]_vars => [Load => TurnsDown]_vars
  BY LoadRuns
<1> QED
  BY <1>1, <1>2, <1>3, CountedTurns, PTL DEF Spec

\* A native mod runs only while all native mods it needs run, in a load that
\* fails and in every unloading too.
THEOREM RunningModsHaveTheirNeeds == Spec => []NeedsRun
<1>1. Init => IInv /\ LoaderInv
  BY InitialInv, InitialLoader
<1>2. IInv /\ LoaderInv /\ [Next]_vars => (IInv /\ LoaderInv)'
  BY StepInv, StepLoader
<1>3. IInv /\ LoaderInv => NeedsRun
  BY NeededRun
<1> QED
  BY <1>1, <1>2, <1>3, PTL DEF Spec

\* The loader's state keeps to its types, and a library is open at most once for each
\* session and once for the mod being loaded: no session loads a mod twice.
THEOREM SessionTypes == Spec => []TypeOK
<1>1. Init => IInv /\ ExactInv /\ LoaderInv /\ OnceEach
  BY InitialInv, InitialExact, InitialLoader, InitialOnceEach
<1>2. IInv /\ ExactInv /\ LoaderInv /\ OnceEach /\ [Next]_vars
        => (IInv /\ ExactInv /\ LoaderInv /\ OnceEach)'
  BY StepInv, StepExact, StepLoader, StepOnceEach DEF ExactInv
<1>3. IInv /\ LoaderInv /\ OnceEach => TypeOK
  BY SessionTyped
<1> QED
  BY <1>1, <1>2, <1>3, PTL DEF Spec
=============================================================================
