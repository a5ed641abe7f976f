---------------------------- MODULE MCModSession ----------------------------
(***************************************************************************)
(* Instances of ModSession: four mods in every shape of dependencies with  *)
(* up to two each, three mods with everything that may be wrong with them, *)
(* and the four mods again with native mods among them to load.            *)
(***************************************************************************)
EXTENDS ModSession, TLC

V(major, minor) == [major |-> major, minor |-> minor, patch |-> 0]
AnyVersion == [kind |-> "any", version |-> V(0, 0)]
On(id) == [id |-> id, requirement |-> AnyVersion]
Dep(id, kind, version) == [id |-> id, requirement |-> [kind |-> kind, version |-> version]]

Plain == [version |-> V(1, 1), api_version |-> kModApiVersion, dependencies |-> <<>>,
          conflicts |-> {}, native |-> FALSE, files |-> {}]
With(deps) == [Plain EXCEPT !.dependencies = deps]

\* The files of four mods: two paths shared in different ways.
Files == [id \in 1 .. 4 |->
            IF id = 2 THEN {"rules"} ELSE IF id = 3 THEN {"menu", "rules"} ELSE {"menu"}]

Shapes(id) ==
    LET others == (1 .. 4) \ {id}
    IN  {<<>>} \cup {<<On(a)>> : a \in others}
        \cup {<<On(Max(two)), On(Min(two))>> : two \in kSubset(2, others)}

Graphs ==
    {[id \in 1 .. 4 |-> [With(deps[id]) EXCEPT !.files = Files[id]]] :
        deps \in {d \in [1 .. 4 -> UNION {Shapes(id) : id \in 1 .. 4}] :
                    \A id \in 1 .. 4 : d[id] \in Shapes(id)}}

\* What may be wrong: a version, an API, a conflict, a mod that is not there, a
\* mod that depends on itself or names a dependency twice.
Wrong1 ==
    {With(deps) : deps \in
        {<<>>, <<On(1)>>, <<On(2), On(2)>>, <<Dep(2, "exact", V(1, 1)), On(3)>>,
         <<Dep(2, "at_least", V(1, 1))>>, <<Dep(2, "compatible_major", V(1, 1)), On(3)>>,
         <<On(3), Dep(2, "compatible_major", V(2, 0))>>}}
    \cup {[Plain EXCEPT !.conflicts = {3}], [Plain EXCEPT !.api_version = V(1, 1)]}
Wrong2 ==
    {[Plain EXCEPT !.version = v, !.dependencies = deps] :
        v \in {V(1, 0), V(1, 1), V(2, 0)}, deps \in {<<>>, <<On(3)>>, <<On(1), On(3)>>}}
Wrong3 ==
    {With(<<>>), With(<<On(1)>>), [Plain EXCEPT !.api_version = V(2, 0)],
     [Plain EXCEPT !.conflicts = {1, 2}]}
Defects ==
    {<<a, b, c>> : a \in Wrong1, b \in Wrong2, c \in Wrong3}
    \cup {<<a, b>> : a \in Wrong1, b \in Wrong2}

\* Native mods: all four, or some that depend on each other through data mods.
Plugins ==
    {[id \in 1 .. 4 |-> [g[id] EXCEPT !.native = id \in natives]] :
        g \in Graphs, natives \in {1 .. 4, {1, 3}, {2, 3, 4}}}

MCProblems ==
    [catalog : Graphs, requested : {<<4>>, <<1, 2, 3>>}]
    \cup [catalog : Defects, requested : {<<1>>, <<3, 2>>, <<2, 1, 3>>}]
    \cup [catalog : Plugins, requested : {<<3, 1>>}]
=============================================================================
