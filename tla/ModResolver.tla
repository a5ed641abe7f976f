---------------------------- MODULE ModResolver ----------------------------
(***************************************************************************)
(* resolve_mod_set (src/core/mod_resolver.cpp): from the mods installed    *)
(* and the ones requested to the order in which they are loaded, or to a   *)
(* failure.  include_mod calls itself for every dependency: its frames are *)
(* a stack here, and one step is one turn of a loop of the code.           *)
(***************************************************************************)
EXTENDS Semver, Sequences, FiniteSets

CONSTANTS
    Ids,        \* mod ids: numbers, for their lexicographic order
    Paths,      \* logical paths of the files of mods
    Problems    \* what may be asked: records of a catalog and a request

Dependency == [id : Ids, requirement : VersionRequirement]
Manifest ==
    [version : SemanticVersion, api_version : SemanticVersion,
     dependencies : Seq(Dependency), conflicts : SUBSET Ids,
     native : BOOLEAN, files : SUBSET Paths]

\* discover_mods gives no id twice: a catalog is a function of the ids.
Catalog(c) ==
    /\ DOMAIN c \subseteq Ids /\ IsFiniteSet(DOMAIN c)
    /\ \A id \in DOMAIN c : c[id] \in Manifest

ASSUME ProblemsAssumption ==
    /\ Ids \subseteq Nat
    /\ \A p \in Problems : Catalog(p.catalog) /\ p.requested \in Seq(Ids)

VARIABLES
    catalog, requested,
    phase,      \* the part of resolve_mod_set under way, or its result
    asked,      \* how many of the requested ids have been turned to
    stack,      \* the calls of include_mod: a mod and its dependencies done
    visit,      \* "visiting" or "done", for the enabled mods
    indegree, ready, order

resolver == <<catalog, requested, phase, asked, stack, visit, indegree, ready, order>>

enabled == DOMAIN visit
Dependencies(id) == catalog[id].dependencies
Placed == {order[i] : i \in DOMAIN order}

ResolverTypeOK ==
    /\ Catalog(catalog) /\ requested \in Seq(Ids)
    /\ phase \in {"include", "order", "resolved", "failed"}
    /\ asked \in 0 .. Len(requested)
    /\ stack \in Seq([id : enabled, done : Nat])
    /\ enabled \subseteq DOMAIN catalog
    /\ \A id \in enabled : visit[id] \in {"visiting", "done"}
    /\ phase \in {"order", "resolved"} => indegree \in [enabled -> Nat]
    /\ ready \subseteq enabled
    /\ order \in Seq(enabled)

-----------------------------------------------------------------------------
(* include_mod                                                             *)

Top == stack[Len(stack)]
Callers == SubSeq(stack, 1, Len(stack) - 1)

\* The next requested id, or the next dependency of the mod being included.
Calling ==
    /\ phase = "include"
    /\ IF stack = <<>> THEN asked < Len(requested)
                       ELSE Top.done < Len(Dependencies(Top.id))
NextDependency == Dependencies(Top.id)[Top.done + 1]
Wanted == IF stack = <<>> THEN requested[asked + 1] ELSE NextDependency.id

\* Mutant of VersionFits: the requirement is not looked at.
VersionIgnored == TRUE

VersionFits ==
    stack # <<>> => Matches(NextDependency.requirement, catalog[Wanted].version)

UnderWay(id) == visit[id] = "visiting"

Fail ==
    /\ phase' = "failed"
    /\ UNCHANGED <<catalog, requested, asked, stack, visit, indegree, ready, order>>

Missing ==
    /\ Calling
    /\ Wanted \notin DOMAIN catalog
    /\ Fail

WrongVersion ==
    /\ Calling
    /\ Wanted \in DOMAIN catalog
    /\ ~VersionFits
    /\ Fail

Found == Calling /\ Wanted \in DOMAIN catalog /\ VersionFits

DependencyCycle ==
    /\ Found
    /\ Wanted \in enabled /\ UnderWay(Wanted)
    /\ Fail

WrongApi ==
    /\ Found
    /\ Wanted \notin enabled
    /\ ~ApiCompatible(catalog[Wanted].api_version)
    /\ Fail

\* The caller's loop goes on behind the call.
Behind ==
    IF stack = <<>> THEN <<>>
    ELSE Append(Callers, [id |-> Top.id, done |-> Top.done + 1])
Turned == asked' = IF stack = <<>> THEN asked + 1 ELSE asked

AlreadyIncluded ==
    /\ Found
    /\ Wanted \in enabled /\ ~UnderWay(Wanted)
    /\ stack' = Behind /\ Turned
    /\ UNCHANGED <<catalog, requested, phase, visit, indegree, ready, order>>

IncludeMod ==
    /\ Found
    /\ Wanted \notin enabled
    /\ ApiCompatible(catalog[Wanted].api_version)
    /\ visit' = [id \in enabled \cup {Wanted} |->
                    IF id = Wanted THEN "visiting" ELSE visit[id]]
    /\ stack' = Append(Behind, [id |-> Wanted, done |-> 0]) /\ Turned
    /\ UNCHANGED <<catalog, requested, phase, indegree, ready, order>>

Included ==
    /\ phase = "include"
    /\ stack # <<>> /\ Top.done = Len(Dependencies(Top.id))
    /\ visit' = [visit EXCEPT ![Top.id] = "done"]
    /\ stack' = Callers
    /\ UNCHANGED <<catalog, requested, phase, asked, indegree, ready, order>>

-----------------------------------------------------------------------------
(* The order                                                               *)

AllIncluded == phase = "include" /\ stack = <<>> /\ asked = Len(requested)

Conflict == \E id \in enabled : catalog[id].conflicts \cap enabled # {}

Conflicting == AllIncluded /\ Conflict /\ Fail

\* The dependencies of id, by their position, on mods of a set.
Needs(id, mods) == {i \in DOMAIN Dependencies(id) : Dependencies(id)[i].id \in mods}

CountDependencies ==
    /\ AllIncluded /\ ~Conflict
    /\ phase' = "order"
    /\ indegree' = [id \in enabled |-> Cardinality(Needs(id, enabled))]
    /\ ready' = {id \in enabled : Needs(id, enabled) = {}}
    /\ UNCHANGED <<catalog, requested, asked, stack, visit, order>>

Smallest(ids) == CHOOSE id \in ids : \A other \in ids : id <= other

\* What is left of id's indegree once a mod it may depend on has been placed.
Lowered(id, mod) ==
    LET met == Cardinality(Needs(id, {mod}))
    IN  IF indegree[id] > met THEN indegree[id] - met ELSE 0

\* Mutant of Released: one dependency placed is enough.
ReleasedByAny(mod) == {id \in enabled : Needs(id, {mod}) # {}}

\* The dependents of a mod that wait for nothing else.
Released(mod) == {id \in enabled : Needs(id, {mod}) # {} /\ Lowered(id, mod) = 0}

Place ==
    /\ phase = "order" /\ ready # {}
    /\ LET mod == Smallest(ready)
       IN  /\ order' = Append(order, mod)
           /\ indegree' = [id \in enabled |-> Lowered(id, mod)]
           /\ ready' = (ready \ {mod}) \cup Released(mod)
    /\ UNCHANGED <<catalog, requested, phase, asked, stack, visit>>

Finish ==
    /\ phase = "order" /\ ready = {}
    /\ phase' = IF Len(order) = Cardinality(enabled) THEN "resolved" ELSE "failed"
    /\ UNCHANGED <<catalog, requested, asked, stack, visit, indegree, ready, order>>

-----------------------------------------------------------------------------
\* What resolve_mod_set is called with, and its locals.
Given(p) ==
    /\ catalog = p.catalog /\ requested = p.requested
    /\ phase = "include" /\ asked = 0 /\ stack = <<>> /\ visit = <<>>
    /\ indegree = <<>> /\ ready = {} /\ order = <<>>

Resolve ==
    \/ Missing \/ WrongVersion \/ DependencyCycle \/ WrongApi
    \/ AlreadyIncluded \/ IncludeMod \/ Included
    \/ Conflicting \/ CountDependencies \/ Place \/ Finish

-----------------------------------------------------------------------------
(* What a request means, without the algorithm                             *)

DependsOn(id) == {Dependencies(id)[i].id : i \in DOMAIN Dependencies(id)}

\* What some mods depend on, as far as they are in the catalog.
Onward(ids) == UNION {DependsOn(id) : id \in ids \cap DOMAIN catalog}

\* Some mods and all that is reached from them.  No way through the catalog
\* that repeats nothing is longer than the catalog.
Reach(ids) ==
    LET reached[n \in 0 .. Cardinality(DOMAIN catalog)] ==
            IF n = 0 THEN ids ELSE reached[n - 1] \cup Onward(reached[n - 1])
    IN  reached[Cardinality(DOMAIN catalog)]

Closure == Reach({requested[i] : i \in DOMAIN requested})
AllNeeds(id) == Reach(DependsOn(id))

Resolvable ==
    /\ Closure \subseteq DOMAIN catalog
    /\ \A id \in Closure :
        /\ ApiCompatible(catalog[id].api_version)
        /\ id \notin AllNeeds(id)
        /\ catalog[id].conflicts \cap Closure = {}
        /\ \A i \in DOMAIN Dependencies(id) :
            Matches(Dependencies(id)[i].requirement,
                    catalog[Dependencies(id)[i].id].version)

-----------------------------------------------------------------------------
\* resolve_mod_set succeeds exactly if the request and all it depends on is
\* there, fits together and can be ordered, and then orders all of it, once.
ResolutionExact ==
    /\ phase = "resolved" =>
        /\ Resolvable
        /\ Placed = Closure /\ Len(order) = Cardinality(Closure)
    /\ phase = "failed" => ~Resolvable

\* No mod is placed before a mod it depends on.
DependenciesFirst ==
    \A i \in DOMAIN order : \A d \in DependsOn(order[i]) :
        \E j \in 1 .. i - 1 : order[j] = d
=============================================================================
