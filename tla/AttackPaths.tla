----------------------------- MODULE AttackPaths -----------------------------
(***************************************************************************)
(* analyze() of graph/attack_paths.py: one search of one attack graph.     *)
(*                                                                         *)
(* A breadth-first pass gives every node the predecessor it was first      *)
(* reached from.  Then each target in turn gets a shortest witness from    *)
(* these predecessors and a depth-first enumeration of its simple paths,   *)
(* under budgets that may end the enumeration anywhere.  One action is one *)
(* turn of a loop.                                                         *)
(***************************************************************************)
EXTENDS AttackGraph

CONSTANTS MaxPathsPerTarget,  \* MAX_PATHS_PER_TARGET
          MaxPaths,           \* MAX_PATHS
          MaxPathDepth,       \* MAX_PATH_DEPTH, in edges
          MaxPathWork         \* MAX_PATH_WORK

ASSUME BudgetAssumption ==
    /\ MaxPathsPerTarget \in Nat \ {0}
    /\ MaxPaths \in Nat
    /\ MaxPathDepth \in Nat \ {0}
    /\ MaxPathWork \in Nat

VARIABLES graph,      \* the graph analysed, see BuildGraph
          step,       \* which loop runs
          parent,     \* predecessors, for the nodes seen
          queue,      \* breadth-first queue
          todo,       \* targets the outer loop has not taken yet
          target,     \* the target whose paths are enumerated
          route,      \* nodes from the Internet to the top of the stack
          untried,    \* per node of the route, what its iterator still holds
          emitted,    \* paths of this target
          paths,      \* result.attack_paths (sorted at the end: a set)
          truncated,  \* result.paths_truncated
          work        \* result.path_work

breadthVars == <<parent, queue>>
stackVars   == <<route, untried>>
resultVars  == <<emitted, paths, truncated, work>>
searchVars  == <<graph, step, breadthVars, todo, target, stackVars,
                 resultVars>>

Step == {"breadth", "target", "depth", "done"}

Position(node) == CHOOSE i \in DOMAIN NodeOrder : NodeOrder[i] = node
IsFirst(node, set) ==
    node \in set /\ \A n \in set : Position(node) <= Position(n)
Before(node, set) == {n \in set : Position(n) < Position(node)}
Sorted(set) ==
    [i \in 1..Cardinality(set) |->
        CHOOSE n \in set : Cardinality(Before(n, set)) = i - 1]

(* What analyze() does before its first loop.                              *)
StartWith(g) ==
    /\ graph = g
    /\ step = "breadth"
    /\ parent = [n \in {Internet} |-> Internet]
    /\ queue = <<Internet>>
    /\ todo = Targets(g)
    /\ target = Internet
    /\ route = <<>> /\ untried = <<>>
    /\ emitted = {} /\ paths = {}
    /\ truncated = FALSE /\ work = 0

Init == \E config \in SUBSET Range(Candidates) : StartWith(BuildGraph(config))

(* The same, for the second analysis of a comparison.                      *)
Restart(g) ==
    /\ graph' = g
    /\ step' = "breadth"
    /\ parent' = [n \in {Internet} |-> Internet]
    /\ queue' = <<Internet>>
    /\ todo' = Targets(g)
    /\ target' = Internet
    /\ route' = <<>> /\ untried' = <<>>
    /\ emitted' = {} /\ paths' = {}
    /\ truncated' = FALSE /\ work' = 0

-----------------------------------------------------------------------------
(* while queue: one node is taken, its unseen successors are appended.     *)
VisitBreadth ==
    /\ step = "breadth" /\ queue # <<>>
    /\ LET unseen == Successors(graph, Head(queue)) \ DOMAIN parent IN
       /\ parent' = [n \in DOMAIN parent \cup unseen |->
                        IF n \in unseen THEN Head(queue) ELSE parent[n]]
       /\ queue' = Tail(queue) \o Sorted(unseen)
    /\ UNCHANGED <<graph, step, todo, target, stackVars, resultVars>>

EndBreadth ==
    /\ step = "breadth" /\ queue = <<>>
    /\ step' = "target"
    /\ UNCHANGED <<graph, breadthVars, todo, target, stackVars, resultVars>>

(* The nodes from `node' back along the predecessors.                      *)
Back(node) ==
    LET up[k \in 0..MaxPathDepth] ==
          IF k = 0 THEN node ELSE parent[up[k - 1]]
    IN up

(* The least number of predecessors to the Internet, within the depth.     *)
DepthsOf(node) == {k \in 0..MaxPathDepth : Back(node)[k] = Internet}
Witness(node) ==
    LET depth == CHOOSE k \in DepthsOf(node) :
                     \A l \in DepthsOf(node) : k <= l
    IN  [i \in 1..(depth + 1) |-> Back(node)[depth + 1 - i]]

BudgetSpent == Cardinality(paths) >= MaxPaths \/ work >= MaxPathWork

(* The head of the outer loop, up to the push of the Internet.             *)
TakeTarget ==
    /\ step = "target"
    /\ \E t \in todo :
       /\ IsFirst(t, todo)
       /\ todo' = todo \ {t}
       /\ \/ \* no witness within the depth: continue
             /\ DepthsOf(t) = {}
             /\ truncated' = TRUE
             /\ UNCHANGED <<step, target, stackVars, emitted, paths>>
          \/ \* break: the remaining targets are given up
             /\ DepthsOf(t) # {} /\ BudgetSpent
             /\ truncated' = TRUE
             /\ step' = "done"
             /\ UNCHANGED <<target, stackVars, emitted, paths>>
          \/ /\ DepthsOf(t) # {} /\ ~BudgetSpent
             /\ paths' = paths \cup {Witness(t)}
             /\ emitted' = {Witness(t)}
             /\ target' = t
             /\ route' = <<Internet>>
             /\ untried' = <<Successors(graph, Internet)>>
             /\ step' = "depth"
             /\ UNCHANGED truncated
    /\ UNCHANGED <<graph, breadthVars, work>>

EndTargets ==
    /\ step = "target" /\ todo = {}
    /\ step' = "done"
    /\ UNCHANGED <<graph, breadthVars, todo, target, stackVars, resultVars>>

(* The budget check at the top of while stack: it breaks that loop only.   *)
RunOut ==
    /\ step = "depth" /\ BudgetSpent
    /\ truncated' = TRUE
    /\ step' = "target"
    /\ UNCHANGED <<graph, breadthVars, todo, target, stackVars, emitted,
                   paths, work>>

(* Mutant of Backtrack: the stack is popped, the route is not.             *)
BacktrackStack ==
    /\ step = "depth" /\ ~BudgetSpent
    /\ Last(untried) = {}
    /\ work' = work + 1
    /\ untried' = Front(untried)
    /\ step' = IF Len(untried) = 1 THEN "target" ELSE "depth"
    /\ UNCHANGED <<graph, breadthVars, todo, target, route, emitted, paths,
                   truncated>>

(* next() has no more nodes: the top of the stack and the last node of  *)
(* the route go, the node may be visited again.                            *)
Backtrack ==
    /\ step = "depth" /\ ~BudgetSpent
    /\ Last(untried) = {}
    /\ work' = work + 1
    /\ untried' = Front(untried)
    /\ route' = Front(route)
    /\ step' = IF Len(untried) = 1 THEN "target" ELSE "depth"
    /\ UNCHANGED <<graph, breadthVars, todo, target, emitted, paths,
                   truncated>>

(* next() yields `node'.  visited is the set of the nodes of the route.    *)
Yield(node) ==
    /\ step = "depth" /\ ~BudgetSpent
    /\ IsFirst(node, Last(untried))
    /\ work' = work + 1
    /\ UNCHANGED <<graph, breadthVars, todo, target>>

Rest(node) ==
    [untried EXCEPT ![Len(untried)] = @ \ {node}]

SkipVisited ==
    \E node \in Node :
       /\ Yield(node) /\ node \in Range(route)
       /\ untried' = Rest(node)
       /\ UNCHANGED <<step, route, emitted, paths, truncated>>

(* Only a path that is not the witness counts.                             *)
EmitPath ==
    \E node \in Node :
       /\ Yield(node) /\ node \notin Range(route) /\ node = target
       /\ untried' = Rest(node)
       /\ emitted' = emitted \cup {Append(route, node)}
       /\ paths' = paths \cup {Append(route, node)}
       /\ LET full == Cardinality(emitted') >= MaxPathsPerTarget IN
          /\ truncated' = (truncated \/ full)
          /\ step' = IF full THEN "target" ELSE "depth"
       /\ UNCHANGED route

(* Mutant of SkipDeep: a route that is too long is left without a word.    *)
SkipDeepSilently ==
    \E node \in Node :
       /\ Yield(node) /\ node \notin Range(route) \cup {target}
       /\ Len(route) >= MaxPathDepth
       /\ untried' = Rest(node)
       /\ UNCHANGED <<step, route, emitted, paths, truncated>>

SkipDeep ==
    \E node \in Node :
       /\ Yield(node) /\ node \notin Range(route) \cup {target}
       /\ Len(route) >= MaxPathDepth
       /\ untried' = Rest(node)
       /\ truncated' = TRUE
       /\ UNCHANGED <<step, route, emitted, paths>>

Descend ==
    \E node \in Node :
       /\ Yield(node) /\ node \notin Range(route) \cup {target}
       /\ Len(route) < MaxPathDepth
       /\ untried' = Append(Rest(node), Successors(graph, node))
       /\ route' = Append(route, node)
       /\ UNCHANGED <<step, emitted, paths, truncated>>

DepthStep == RunOut \/ Backtrack \/ SkipVisited \/ EmitPath \/ SkipDeep
                    \/ Descend

SearchStep == VisitBreadth \/ EndBreadth \/ TakeTarget \/ EndTargets
                           \/ DepthStep

Spec == Init /\ [][SearchStep]_searchVars

-----------------------------------------------------------------------------
SearchTypeOK ==
    /\ graph.findings \subseteq Range(Candidates)
    /\ step \in Step
    /\ todo \subseteq Node /\ target \in Node
    /\ DOMAIN parent \subseteq Node /\ Range(parent) \subseteq Node
    /\ Range(queue) \subseteq DOMAIN parent
    /\ Len(untried) = Len(route)
    /\ Range(route) \subseteq Node
    /\ emitted \subseteq paths
    /\ Cardinality(paths) <= MaxPaths
    /\ work \in 0..MaxPathWork
    /\ truncated \in BOOLEAN

(* Every path ever reported is a simple path of the graph from the         *)
(* Internet to a target of this graph: attack_paths.py never shows a user  *)
(* a route that the edges do not have.                                     *)
PathsAreReal ==
    paths # {} => LET targets == Targets(graph) IN
    \A p \in paths :
       /\ p[1] = Internet /\ Last(p) \in targets
       /\ IsInjective(p)
       /\ \A i \in 1..(Len(p) - 1) : <<p[i], p[i + 1]>> \in DOMAIN graph.edges

(* A result that is not marked truncated has every simple path to every    *)
(* target: what compare() concludes from missing paths rests on it.        *)
UntruncatedIsComplete ==
    step = "done" /\ ~truncated =>
       paths = SimplePathsTo(DOMAIN graph.edges, Targets(graph))

(* Neither dead ends nor other targets hide a target: when its turn is     *)
(* over it has a path, unless the analysis is marked truncated and all its *)
(* paths are longer than the depth budget (docs/coverage.md, "a shortest   *)
(* witness before DFS explores alternatives").                             *)
TargetsAreWitnessed ==
    step = "target" =>
       \A t \in Targets(graph) \ todo :
          \/ \E p \in paths : Last(p) = t
          \/ /\ truncated
             /\ \A p \in SimplePathsTo(DOMAIN graph.edges, {t}) :
                   Len(p) > MaxPathDepth + 1

(* Safety: wherever the budgets stop the search, the result does not hide  *)
(* it, neither for the whole nor for one target.                           *)
BudgetsAreHonest == UntruncatedIsComplete /\ TargetsAreWitnessed
=============================================================================
