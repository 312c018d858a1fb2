-------------------------- MODULE MCPipelineRunner --------------------------
(***************************************************************************)
(* Instances of PipelineRunner for TLC: small templates and their layers.  *)
(***************************************************************************)
EXTENDS PipelineRunner, TLC

CONSTANTS in, a, b, c, d, out

MCNode == {in, a, b, out}
MCNode6 == {in, a, b, c, d, out}

\* in -> a -> out, in -> b -> out
DiamondLayers  == << <<in>>, <<a, b>>, <<out>> >>
DiamondParents == (in :> {}) @@ (a :> {in}) @@ (b :> {in}) @@ (out :> {a, b})

\* in -> a -> b -> out
ChainLayers  == << <<in>>, <<a>>, <<b>>, <<out>> >>
ChainParents == (in :> {}) @@ (a :> {in}) @@ (b :> {a}) @@ (out :> {b})

\* in -> c -> a -> out, c -> b -> d -> out: what comes after a in the layers
\* and what depends on it differ
TwoLaneLayers  == << <<in>>, <<c>>, <<a, b>>, <<d>>, <<out>> >>
TwoLaneParents == (in :> {}) @@ (c :> {in}) @@ (a :> {c}) @@ (b :> {c})
                  @@ (d :> {b}) @@ (out :> {a, d})

NoRetry   == [n \in MCNode |-> 0]
RetryOfA  == [n \in MCNode |-> IF n = a THEN 1 ELSE 0]
RetryOfA6 == [n \in MCNode6 |-> IF n = a THEN 1 ELSE 0]

=============================================================================
