------------------------------ MODULE Explorer ------------------------------
(***************************************************************************)
(* Explorer (src/core/ps1_max3_explorer.cpp): a depth-first search over    *)
(* what a guest does when the BIOS calls nobody has written are answered   *)
(* in four ways.  visit() is recursive: stack holds its calls, each with   *)
(* the runtime it was given, and the run loop of the innermost is taken    *)
(* one turn at a time.  The counts of frames, GPU, CD-ROM and DMA events   *)
(* are left out: no code of the runtime raises them.                       *)
(***************************************************************************)
EXTENDS BootRuntime, FiniteSets, SequencesExt

CONSTANT Explorations   \* programs with the options to explore them under

VARIABLES
    options,    \* options_
    stack,      \* the calls of visit, the outermost first
    report,     \* report_
    expanded    \* expanded_frontiers_

vars == <<program, options, stack, report, expanded>>

Options == [budget : Nat, stagnation : Nat, capacity : Nat, probe : BOOLEAN,
            max_nodes : Nat \ {0}, max_branch_depth : Nat, max_total_retired : Nat]

ASSUME ExplorationsAssumption ==
    \A e \in Explorations : e.program \in Guest /\ e.options \in Options

Reasons == {"completed", "node_limit", "total_retired_limit"}
NoParent == 0
NoFallback == "none"

\* A call of visit, with its arguments and locals.
Call(runtime, depth, parent, fallback, before, path, deps) ==
    [at |-> "enter", runtime |-> runtime, depth |-> depth, parent |-> parent,
     fallback |-> fallback, before |-> before, path |-> path, deps |-> deps,
     segment |-> NewSegment, budget |-> 0, node |-> 0, tried |-> 0]

\* visit's calls, and summaries.
Decision == (Tables \X Int) \X ToSet(Policies)
Dependency == ({"mmio"} \X Access) \cup ({"bios"} \X (Tables \X Int))
Fallbacks == ToSet(Policies) \cup {NoFallback}
Visit == [at : {"enter", "run", "branch"}, runtime : Runtime, depth : Nat, parent : Nat,
          fallback : Fallbacks, before : Nat, path : Seq(Decision), deps : SUBSET Dependency,
          segment : Segment, budget : Nat, node : Nat, tried : 0 .. Len(Policies)]
State == [cpu : Cpu, cells : [{x.address : x \in Answered} -> Int], shadow : [Window -> Int],
          bios : Bios, pending : BOOLEAN]
Node == [parent : Nat, depth : Nat, fallback : Fallbacks, stop : StopReasons \ {"none"},
         retired : Nat, cumulative : Nat, state : State, deduplicated : BOOLEAN,
         dependencies : Nat]

Min2(a, b) == IF a <= b THEN a ELSE b

top == stack[Len(stack)]
Below == SubSeq(stack, 1, Len(stack) - 1)
Proceed(call) == stack' = Append(Below, call)

Init ==
    /\ \E e \in Explorations : program = e.program /\ options = e.options
    /\ stack = <<Call(Created, 0, NoParent, NoFallback, 0, <<>>, {})>>
    /\ report = [termination |-> "completed", total |-> 0, nodes |-> <<>>,
                 dependencies |-> {}, best |-> 0, best_path |-> <<>>,
                 best_report |-> NewSegment]
    /\ expanded = {}

\* The limits, as visit tests them when it is entered and before each child.
LimitReached ==
    IF Len(report.nodes) >= options.max_nodes THEN "node_limit"
    ELSE IF report.nodes # <<>> /\ report.total >= options.max_total_retired
    THEN "total_retired_limit" ELSE "completed"

-----------------------------------------------------------------------------
(* visit, up to and with the segment                                       *)

\* Mutant of SegmentBudget: what other segments retired is not counted.
SegmentBudgetUnshared == Min2(options.budget, options.max_total_retired)

SegmentBudget == Min2(options.budget, options.max_total_retired - report.total)

Enter ==
    /\ stack # <<>> /\ top.at = "enter"
    /\ IF LimitReached = "completed"
       THEN /\ Proceed([top EXCEPT !.at = "run", !.budget = SegmentBudget,
                            !.runtime.bus = Probing(@, options.probe)])
            /\ UNCHANGED report
       ELSE /\ report' = [report EXCEPT !.termination = LimitReached]
            /\ stack' = Below
    /\ UNCHANGED <<program, options, expanded>>

Running == stack # <<>> /\ top.at = "run" /\ top.segment.stop = "none"
InBudget == top.segment.retired < top.budget

Turn(runtime, segment) ==
    /\ Proceed([top EXCEPT !.runtime = runtime, !.segment = segment])
    /\ UNCHANGED <<program, options, report, expanded>>

BudgetExhausted ==
    /\ Running /\ ~InBudget
    /\ Turn(top.runtime, [top.segment EXCEPT !.stop = "execution_budget_exhausted"])

BiosCall ==
    /\ Running /\ InBudget /\ AtBios(top.runtime)
    /\ Handled(top.runtime.cpu)
    /\ Turn(AfterHandled(top.runtime), Called(top.segment, top.runtime.cpu))

BiosFrontier ==
    /\ Running /\ InBudget /\ AtBios(top.runtime)
    /\ ~Handled(top.runtime.cpu)
    /\ Turn([top.runtime EXCEPT !.pending = TRUE],
            [Called(top.segment, top.runtime.cpu) EXCEPT !.stop = "bios_call_unimplemented"])

Retire ==
    /\ Running /\ InBudget /\ ~AtBios(top.runtime)
    /\ Retires(top.runtime)
    /\ LET after == Counted(top.segment, top.runtime, options.capacity)
       IN  Turn(Stepped(top.runtime),
                IF Stalled(after, options.stagnation)
                THEN [after EXCEPT !.stop = "diagnostic_stall"] ELSE after)

\* Where the executor stops, the state of the guest no longer matters.
Boundary ==
    /\ Running /\ InBudget /\ ~AtBios(top.runtime)
    /\ ~Retires(top.runtime)
    /\ Turn([top.runtime EXCEPT !.pending = FALSE],
            [top.segment EXCEPT !.stop = BoundaryReason(top.runtime)])

-----------------------------------------------------------------------------
(* visit, after the segment                                                *)

HasFrontier(call) == call.segment.stop = "bios_call_unimplemented"

\* Mutant of Dependencies: they are looked at where the search can go on.
DependenciesAtFrontier(call) ==
    IF HasFrontier(call)
    THEN {<<"mmio", a>> : a \in ToSet(call.segment.recent)}
         \cup {<<"bios", Frontier(call.runtime.cpu)>>}
    ELSE {}

\* What a segment adds to the dependencies: what is left of its events, and
\* the frontier it stopped at.
Dependencies(call) ==
    {<<"mmio", a>> : a \in ToSet(call.segment.recent)}
    \cup (IF HasFrontier(call) THEN {<<"bios", Frontier(call.runtime.cpu)>>} ELSE {})

\* Mutant of FrontierKey: the state of the guest is not part of it.
FrontierAlone(call) == <<Frontier(call.runtime.cpu), "any">>

FrontierKey(call) == <<Frontier(call.runtime.cpu), DiagnosticState(call.runtime)>>

Expandable(call) == HasFrontier(call) /\ call.depth < options.max_branch_depth
Deduplicated(call) == Expandable(call) /\ FrontierKey(call) \in expanded

Summary(call, deps) ==
    [parent |-> call.parent, depth |-> call.depth, fallback |-> call.fallback,
     stop |-> call.segment.stop, retired |-> call.segment.retired,
     cumulative |-> call.before + call.segment.retired,
     state |-> DiagnosticState(call.runtime), deduplicated |-> Deduplicated(call),
     dependencies |-> Cardinality(deps)]

Outranks(candidate, current) ==
    \/ candidate.dependencies > current.dependencies
    \/ /\ candidate.dependencies = current.dependencies
       /\ candidate.cumulative > current.cumulative

\* The summary is kept, compared with the best so far, and the call goes on
\* to its children, or returns.
Record ==
    /\ stack # <<>> /\ top.at = "run" /\ top.segment.stop # "none"
    /\ LET deps == top.deps \cup Dependencies(top)
           node == Summary(top, deps)
           total == report.total + top.segment.retired
           index == Len(report.nodes) + 1
           better == index = 1 \/ Outranks(node, report.nodes[report.best])
           spent == total >= options.max_total_retired
       IN  /\ report' = [report EXCEPT
                !.total = total,
                !.nodes = Append(@, node),
                !.dependencies = @ \cup Dependencies(top),
                !.best = IF better THEN index ELSE @,
                !.best_path = IF better THEN top.path ELSE @,
                !.best_report = IF better THEN top.segment ELSE @,
                !.termination = IF spent THEN "total_retired_limit" ELSE @]
           /\ expanded' = IF Expandable(top) THEN expanded \cup {FrontierKey(top)} ELSE expanded
           /\ IF spent \/ ~Expandable(top) \/ Deduplicated(top)
              THEN stack' = Below
              ELSE Proceed([top EXCEPT !.at = "branch", !.node = index, !.deps = deps])
    /\ UNCHANGED <<program, options>>

-----------------------------------------------------------------------------
(* visit, the four children                                                *)

Branching == stack # <<>> /\ top.at = "branch" /\ report.termination = "completed"
More == top.tried < Len(Policies)
policy == Policies[top.tried + 1]

\* Mutant of Continued: a child's answer is still there for the next.
ContinuedAnswered(call, child) ==
    [call EXCEPT !.tried = @ + 1, !.runtime.cpu.v0 = child.cpu.v0]

\* A child runs on a copy of the runtime.
Continued(call, child) == [call EXCEPT !.tried = @ + 1]

Branch ==
    /\ Branching /\ More /\ LimitReached = "completed"
    /\ Applicable(top.runtime)
    /\ LET child == WithFallback(top.runtime, policy)
           decision == <<Frontier(top.runtime.cpu), policy>>
       IN  stack' = Append(Append(Below, Continued(top, child)),
                           Call(child, top.depth + 1, top.node, policy,
                                report.nodes[top.node].cumulative,
                                Append(top.path, decision), top.deps))
    /\ UNCHANGED <<program, options, report, expanded>>

BranchLimited ==
    /\ Branching /\ More /\ LimitReached # "completed"
    /\ report' = [report EXCEPT !.termination = LimitReached]
    /\ stack' = Below
    /\ UNCHANGED <<program, options, expanded>>

Return ==
    /\ stack # <<>> /\ top.at = "branch"
    /\ ~More \/ report.termination # "completed"
    /\ stack' = Below
    /\ UNCHANGED <<program, options, report, expanded>>

Next ==
    \/ Enter \/ BudgetExhausted \/ BiosCall \/ BiosFrontier \/ Retire \/ Boundary
    \/ Record \/ Branch \/ BranchLimited \/ Return

Spec == Init /\ [][Next]_vars

\* explore_ps1_max3 is one call that nothing else waits on or interrupts.
FairSpec == Spec /\ WF_vars(Next)

-----------------------------------------------------------------------------
(* Properties.                                                             *)

nodes == report.nodes

\* The report and the calls of visit keep their shape: one call for each level
\* of the search, all but the innermost at a child.
TypeOK ==
    /\ program \in Guest /\ options \in Options
    /\ report \in [termination : Reasons, total : Nat, nodes : Seq(Node),
                   dependencies : SUBSET Dependency, best : Nat, best_path : Seq(Decision),
                   best_report : Segment]
    /\ report.best <= Len(nodes) /\ \A i \in DOMAIN nodes : nodes[i].parent < i
    /\ stack \in Seq(Visit)
    /\ \A i \in DOMAIN stack :
        /\ i < Len(stack) => stack[i].at = "branch"
        /\ stack[i].depth = i - 1 /\ Len(stack[i].path) = i - 1

\* What all nodes retired.
RetiredBy(ns) ==
    LET by[n \in 0 .. Len(ns)] == IF n = 0 THEN 0 ELSE by[n - 1] + ns[n].retired
    IN  by[Len(ns)]

\* No limit is passed: the retired instructions of all nodes are within the
\* total, the nodes within theirs, and a watched segment within its limit for
\* every dependency it met and once more.
WorkBounded ==
    /\ report.total = RetiredBy(nodes)
    /\ report.total <= options.max_total_retired
    /\ Len(nodes) <= options.max_nodes
    /\ \A i \in DOMAIN nodes : nodes[i].depth <= options.max_branch_depth
    /\ stack # <<>> /\ options.stagnation # 0 =>
        top.segment.retired <=
            options.stagnation * (1 + Cardinality(top.segment.bios) + Cardinality(top.segment.mmio))

\* The frontier a node stopped at, and the decisions that lead to a node.
FrontierOf(n) == Frontier(n.state.cpu)
Paths(ns) ==
    LET paths[n \in 0 .. Len(ns)] ==
            IF n = 0 THEN <<>>
            ELSE Append(paths[n - 1],
                        IF ns[n].parent = NoParent THEN <<>>
                        ELSE Append(paths[n - 1][ns[n].parent],
                                    <<FrontierOf(ns[ns[n].parent]), ns[n].fallback>>))
    IN  paths[Len(ns)]
PathTo(index) == Paths(nodes)[index]

\* A guest that runs alone from the start, and at each frontier is given the
\* next decision.
Alone == [runtime |-> [Created EXCEPT !.bus = Probing(@, options.probe)],
          retired |-> 0, taken |-> 0]
Onward(a, path) ==
    LET r == a.runtime
        decided == a.taken < Len(path) /\ path[a.taken + 1][1] = Frontier(r.cpu)
    IN  IF ~AtBios(r) /\ Retires(r)
        THEN [a EXCEPT !.runtime = Stepped(r), !.retired = @ + 1]
        ELSE IF ~AtBios(r) THEN [a EXCEPT !.runtime.pending = FALSE]
        ELSE IF Handled(r.cpu) THEN [a EXCEPT !.runtime = AfterHandled(r)]
        ELSE IF ~r.pending THEN [a EXCEPT !.runtime.pending = TRUE]
        ELSE IF decided
        THEN [a EXCEPT !.runtime = WithFallback(r, path[a.taken + 1][2]), !.taken = @ + 1]
        ELSE a

\* Whether that guest comes by what a node reports: every instruction retires,
\* or is followed by at most a call, a frontier and its decision.
ComesBy(n, path) ==
    LET turns == 2 * (n.cumulative + Len(path)) + 2
        walk[k \in 0 .. turns] == IF k = 0 THEN Alone ELSE Onward(walk[k - 1], path)
    IN  \E k \in 0 .. turns :
            /\ walk[k].retired = n.cumulative /\ walk[k].taken = Len(path)
            /\ DiagnosticState(walk[k].runtime) = n.state

\* A node is what its decisions lead to and nothing else: a guest run alone
\* along them retires as many instructions and gets into the same state, so
\* nothing of one branch is left behind in another.
NodesReplay ==
    nodes # <<>> /\ (stack = <<>> \/ top.at = "branch") =>
        ComesBy(Last(nodes), PathTo(Len(nodes)))

Unanswered(i) ==
    nodes[i].stop = "bios_call_unimplemented" /\ nodes[i].depth < options.max_branch_depth
Children(i) == {j \in DOMAIN nodes : nodes[j].parent = i}

\* The children of a node are the first n answers, in their order.
Given(i, n) ==
    /\ Cardinality(Children(i)) = n
    /\ \A j \in Children(i) : nodes[j].fallback = Policies[Cardinality(Children(i) \cap 1 .. j)]
AnsweredInFull(i) == Given(i, Len(Policies))

\* The reason the search gives for its end is the reason it ended.  When it is
\* completed, each frontier above the depth limit was answered in the four
\* ways, there or where the same state had been met before.
HonestTermination ==
    stack = <<>> =>
        CASE report.termination = "completed" ->
                \A i \in DOMAIN nodes : Unanswered(i) =>
                    \E j \in 1 .. i : nodes[j].state = nodes[i].state /\ AnsweredInFull(j)
          [] report.termination = "node_limit" ->
                /\ Len(nodes) = options.max_nodes
                /\ \E i \in DOMAIN nodes :
                    Unanswered(i) /\ ~nodes[i].deduplicated /\ ~AnsweredInFull(i)
          [] report.termination = "total_retired_limit" ->
                report.total = options.max_total_retired

\* The run loop at a handled call whose $ra is the entry it was reached at: the call
\* uses no budget and returns to itself.
Spinning ==
    /\ Running /\ InBudget /\ AtBios(top.runtime)
    /\ Handled(top.runtime.cpu) /\ top.runtime.cpu.ra = top.runtime.cpu.pc

\* A guest that never calls with a table entry in $ra.
Returning == \A a \in DOMAIN program : program[a].op = "call" => program[a].link \cap Tables = {}

\* The exploration comes to an end, with the watchdog as without it, unless the
\* guest has made a call return to the entry it was reached at, which the design,
\* where every search is bounded, does not except: the loop of run() then spends no
\* budget and no watchdog.  No other loop of calls, decisions and instructions goes
\* on for ever.
EndsOrSpins == <>(stack = <<>> \/ (~Returning /\ Spinning))

\* Nothing a segment met is lost to the report, wherever the segment and the search
\* stopped, as long as the event buffer was not full: its accesses, its frontier and
\* what was there before.  A full buffer has dropped its oldest accesses, and with
\* them dependencies that the design wants in the report.
EvidenceKept ==
    [][/\ report.dependencies \subseteq report'.dependencies
       /\ Len(report'.nodes) > Len(nodes) /\ Len(top.segment.recent) < options.capacity =>
            /\ \A a \in top.segment.mmio : <<"mmio", a>> \in report'.dependencies
            /\ AtBios(top.runtime) /\ ~Handled(top.runtime.cpu) /\ top.runtime.pending =>
                <<"bios", Frontier(top.runtime.cpu)>> \in report'.dependencies]_vars
=============================================================================
