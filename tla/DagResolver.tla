---------------------------- MODULE DagResolver ----------------------------
(***************************************************************************)
(* DAGResolver (backend/app/core/dag_resolver.py): validation of a         *)
(* pipeline template and its execution layers, as functions of a template, *)
(* and the two calls that make use of them.                                *)
(*                                                                         *)
(* A template g is a record                                                *)
(*   nodes   : Seq of node ids, in document order, without repetition      *)
(*   edges   : Seq of <<source, target>>; an id may be of no node          *)
(*   kind    : [ids of nodes -> "input" | "output" | "work"]               *)
(*   enabled : [ids of nodes -> BOOLEAN]                                   *)
(***************************************************************************)
EXTENDS Integers, Sequences, SequencesExt

CONSTANT Templates  \* the templates that may be drawn

Ids(g) == ToSet(g.nodes)

Edges(g) == ToSet(g.edges)

IsTemplate(g) ==
    /\ g.nodes \in Seq(Ids(g)) /\ IsInjective(g.nodes)
    /\ g.edges \in Seq(Edges(g))
    /\ \A e \in Edges(g) : e = <<e[1], e[2]>>
    /\ g.kind \in [Ids(g) -> {"input", "output", "work"}]
    /\ g.enabled \in [Ids(g) -> BOOLEAN]

ASSUME TemplatesAssumption == \A g \in Templates : IsTemplate(g)

OfKind(g, k) == {n \in Ids(g) : g.kind[n] = k}

NodeParents(g, n) == {e[1] : e \in {d \in Edges(g) : d[2] = n}}

NodeChildren(g, n) == {e[2] : e \in {d \in Edges(g) : d[1] = n}}

HasDangling(g) == \E e \in Edges(g) : ~({e[1], e[2]} \subseteq Ids(g))

\* What is in T of the sequence s, in its order; of its first i elements, for each i.
Sifted(s, T) ==
    LET upto[i \in 0..Len(s)] ==
            IF i = 0 THEN <<>>
            ELSE IF s[i] \in T THEN Append(upto[i-1], s[i]) ELSE upto[i-1]
    IN upto

Among(s, T) == Sifted(s, T)[Len(s)]

-----------------------------------------------------------------------------
(* Kahn's algorithm. "line" is every node that has entered the queue so    *)
(* far: the while loop takes one after the other, so the order it has made *)
(* is the front of the line and its queue is the rest.                     *)

\* _in_degree counts parallel edges as often as they are there.
Arrivals(g, n) == {i \in DOMAIN g.edges : g.edges[i][2] = n}

Start(g) ==
    LET degree == [n \in Ids(g) |-> Cardinality(Arrivals(g, n))]
    IN [degree |-> degree,
        line   |-> Among(g.nodes, {n \in Ids(g) : degree[n] = 0})]

Release(s, child) ==
    [degree |-> [s.degree EXCEPT ![child] = @ - 1],
     line   |-> IF s.degree[child] = 1 THEN Append(s.line, child) ELSE s.line]

\* One turn: the outgoing edges of a node are removed, in edge order.
Releases(g, s, node) ==
    LET after[i \in 0..Len(g.edges)] ==
            IF i = 0 THEN s
            ELSE LET before == after[i-1] IN
                 IF g.edges[i][1] = node THEN Release(before, g.edges[i][2])
                 ELSE before
    IN after

Turn(g, s, node) == Releases(g, s, node)[Len(g.edges)]

\* No node enters the queue twice, so there are at most as many turns as
\* nodes; nodes on a cycle, or after one, never enter it.
Turns(g) ==
    LET turns[k \in 0..Len(g.nodes)] ==
            IF k = 0 THEN Start(g)
            ELSE LET s == turns[k-1] IN
                 IF k > Len(s.line) THEN s ELSE Turn(g, s, s.line[k])
    IN turns

KahnOrder(g) == Turns(g)[Len(g.nodes)].line

\* Mutant: a cycle is noticed only when no node at all is free of parents.
LeftOver_NothingSorted(g) == KahnOrder(g) = <<>> /\ g.nodes # <<>>

\* _topological_sort returns None.
LeftOver(g) == Len(KahnOrder(g)) # Len(g.nodes)

\* _bfs, a frontier at a time.
Frontiers(g, start) ==
    LET visited[k \in 0..Len(g.nodes)] ==
            IF k = 0 THEN {start}
            ELSE LET before == visited[k-1] IN
                 before \cup UNION {NodeChildren(g, n) : n \in before}
    IN visited

Reachable(g, start) == Frontiers(g, start)[Len(g.nodes)]

Failing(check, failed) == IF failed THEN {check} ELSE {}

\* validate(): the checks that fail; the template is valid when none does.
\* The sort is run only when every edge has both its ends, and the search for
\* orphans only after a sort that took in every node.
Errors(g) ==
    LET inputs == Among(g.nodes, OfKind(g, "input"))
        sorted == ~HasDangling(g) /\ ~LeftOver(g)
    IN UNION {
         Failing("input",    Cardinality(OfKind(g, "input")) # 1),
         Failing("output",   Cardinality(OfKind(g, "output")) # 1),
         Failing("dangling", HasDangling(g)),
         Failing("cycle",    ~HasDangling(g) /\ ~sorted),
         Failing("orphan",   /\ inputs # <<>>
                             /\ sorted
                             /\ \E n \in Ids(g) \ Reachable(g, Head(inputs)) :
                                   g.enabled[n])}

-----------------------------------------------------------------------------
(* Layers of a valid template: nodes by the length of the longest path that *)
(* leads to them, without the disabled ones, without empty layers.         *)

\* The depth table, filled in along the topological order.
Depths(g) ==
    LET order == KahnOrder(g)
        depth[k \in 0..Len(order)] ==
            IF k = 0 THEN [n \in Ids(g) |-> 0]
            ELSE LET before  == depth[k-1]
                     parents == NodeParents(g, order[k]) IN
                 [before EXCEPT ![order[k]] =
                    IF parents = {} THEN 0
                    ELSE Max({before[p] : p \in parents}) + 1]
    IN depth

\* Mutant: the shortest path instead of the longest.
Depth_Shortest(g) ==
    LET order == KahnOrder(g)
        depth[k \in 0..Len(order)] ==
            IF k = 0 THEN [n \in Ids(g) |-> 0]
            ELSE LET before  == depth[k-1]
                     parents == NodeParents(g, order[k]) IN
                 [before EXCEPT ![order[k]] =
                    IF parents = {} THEN 0
                    ELSE Min({before[p] : p \in parents}) + 1]
    IN depth[Len(order)]

Depth(g) == Depths(g)[Len(KahnOrder(g))]

Deepest(g) == Max({0} \cup {Depth(g)[n] : n \in Ids(g)})

Bucket(g, d) == Among(KahnOrder(g), {n \in Ids(g) : Depth(g)[n] = d /\ g.enabled[n]})

ExecutionLayers(g) ==
    LET buckets == [i \in 1..(Deepest(g) + 1) |-> Bucket(g, i - 1)]
    IN Among(buckets, ToSet(buckets) \ {<<>>})

-----------------------------------------------------------------------------
(* A template is drawn and validated; a valid one is layered.              *)

VARIABLES
    template,
    errors,  \* failed checks, once validated
    layers,  \* get_execution_layers(), once computed
    stage    \* "drawn" | "rejected" | "valid" | "layered"

vars == <<template, errors, layers, stage>>

Init ==
    /\ template \in Templates
    /\ errors = {}
    /\ layers = <<>>
    /\ stage = "drawn"

Validate ==
    /\ stage = "drawn"
    /\ errors' = Errors(template)
    /\ stage' = IF errors' = {} THEN "valid" ELSE "rejected"
    /\ UNCHANGED <<template, layers>>

ComputeLayers ==
    /\ stage = "valid"
    /\ layers' = ExecutionLayers(template)
    /\ stage' = "layered"
    /\ UNCHANGED <<template, errors>>

Next == Validate \/ ComputeLayers

Spec == Init /\ [][Next]_vars

-----------------------------------------------------------------------------
(* Properties, in terms that know nothing of queues, degrees and depths.   *)

Enabled(g) == {n \in Ids(g) : g.enabled[n]}

\* A set of nodes each of which has a predecessor in the set.
Cyclic(g) ==
    \E S \in (SUBSET Ids(g)) \ {{}} :
        \A n \in S : \E m \in S : <<m, n>> \in Edges(g)

Closed(g, S) == \A e \in Edges(g) : e[1] \in S => e[2] \in S

\* n is m or comes after it, perhaps through disabled nodes.
Follows(g, m, n) == \A S \in SUBSET Ids(g) : m \in S /\ Closed(g, S) => n \in S

LayerOf(n) == {i \in DOMAIN layers : n \in ToSet(layers[i])}

\* Kahn's algorithm rejects exactly the templates with a cycle. Loops and
\* parallel edges count.
CycleVerdict ==
    stage # "drawn" /\ "dangling" \notin errors =>
        ("cycle" \in errors <=> Cyclic(template))

\* The orphan check names a template with one INPUT and no other defect exactly
\* when some set closed under edges holds INPUT and misses an enabled node.
OrphanVerdict ==
    stage # "drawn" /\ errors \subseteq {"orphan"} =>
        ("orphan" \in errors <=>
            \E S \in SUBSET Ids(template) :
                /\ OfKind(template, "input") \subseteq S
                /\ Closed(template, S)
                /\ Enabled(template) \ S # {})

\* What PipelineRunner assumes of its plan: the layers hold every enabled node
\* once, INPUT is alone in its layer (DAGPipelineRunner.run skips it only then),
\* and whatever a node depends on, also through disabled nodes, comes earlier.
PlanSound ==
    stage = "layered" =>
        /\ \A n \in Ids(template) :
              Cardinality(LayerOf(n)) = (IF n \in Enabled(template) THEN 1 ELSE 0)
        /\ \A i \in DOMAIN layers :
              /\ IsInjective(layers[i])
              /\ \A n \in OfKind(template, "input") \cap ToSet(layers[i]) : layers[i] = <<n>>
        /\ \A m, n \in Enabled(template) : m # n /\ Follows(template, m, n) =>
              \A i \in LayerOf(m), j \in LayerOf(n) : i < j

\* No node waits longer than it must: in a template without disabled nodes
\* every node has a parent in the layer just before its own.
LayersTight ==
    stage = "layered" /\ Enabled(template) = Ids(template) =>
        \A i \in DOMAIN layers : i > 1 =>
            \A n \in ToSet(layers[i]) :
                \E m \in ToSet(layers[i-1]) : <<m, n>> \in Edges(template)

\* validate() decides what its messages say: a cycle, and an orphan.
ValidationVerdict == CycleVerdict /\ OrphanVerdict

\* get_execution_layers: nothing before what it needs, and nothing later than that.
PlanRight == PlanSound /\ LayersTight

=============================================================================
