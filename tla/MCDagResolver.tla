--------------------------- MODULE MCDagResolver ---------------------------
(***************************************************************************)
(* DagResolver on every small template of four nodes.                      *)
(***************************************************************************)
EXTENDS DagResolver, TLC

CONSTANTS
    in, a, b, out,  \* the nodes
    stranger,       \* an id that edges may name and that is no node
    MaxEdges        \* bound: different edges of a template

\* Every edge between the nodes, one loop, and an edge from and to nowhere.
AllEdges ==
    <<<<in, a>>, <<in, b>>, <<in, out>>, <<a, b>>, <<b, a>>, <<a, out>>, <<b, out>>,
      <<a, in>>, <<b, in>>, <<out, in>>, <<out, a>>, <<out, b>>,
      <<a, a>>, <<a, stranger>>, <<stranger, out>>>>

Kinds(k) == (in :> "input") @@ (a :> "work") @@ (b :> k) @@ (out :> "output")

Template(E, disabled, k, doubled) ==
    LET edges == Among(AllEdges, E) IN
    [nodes   |-> <<in, a, b, out>>,
     edges   |-> IF doubled THEN edges \o edges ELSE edges,
     kind    |-> Kinds(k),
     enabled |-> [n \in {in, a, b, out} |-> n \notin disabled]]

MCTemplates ==
    {Template(E, disabled, k, doubled) :
        E \in {F \in SUBSET ToSet(AllEdges) : Cardinality(F) <= MaxEdges},
        disabled \in {{}, {a}, {b, out}, {in}},
        k \in {"work", "input", "output"},
        doubled \in BOOLEAN}

=============================================================================
