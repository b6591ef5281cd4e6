------------------------- MODULE MC_GraphExecution -------------------------
(* GraphExecution over every declaration of a few nodes.                     *)
EXTENDS GraphExecution, FiniteSets

CONSTANT MCNodes  \* number of nodes

Dags ==
  {d \in [1..MCNodes -> SUBSET (1..MCNodes)] : \A n \in 1..MCNodes : \A p \in d[n] : p < n}

Consumed(d, n) == \E c \in 1..MCNodes : n \in d[c]

\* Declarations that graph validation accepts: one trainer at most, and nothing
\* bound to it, since it has no output columns.
Declarations ==
  {g \in [parents : Dags,
          role : [1..MCNodes -> {"source", "transform", "trainer", "inference"}]] :
     /\ Cardinality({n \in 1..MCNodes : g.role[n] = "trainer"}) <= 1
     /\ \A n \in 1..MCNodes :
          /\ g.parents[n] = {} <=> g.role[n] = "source"
          /\ g.role[n] = "trainer" => ~Consumed(g.parents, n)}

\* Those with inference.
Inferring == {g \in Declarations : \E n \in 1..MCNodes : g.role[n] = "inference"}

Wired(roles, parents) == [role |-> roles, parents |-> parents]

\* Two feeds: a group is trained on one and used on another, which may end earlier,
\* or on both.
TwoFeeds ==
  {Wired(<<"source", "source", "trainer", "inference">>, <<{}, {}, {1}, {2}>>),
   Wired(<<"source", "source", "inference", "trainer">>, <<{}, {}, {1, 2}, {1}>>)}

\* A feature that is trained on, by itself or behind another, before or after
\* inference in the order of the nodes.
Trained ==
  {Wired(<<"source", "transform", "trainer", "inference">>, <<{}, {1}, {2}, {1}>>),
   Wired(<<"source", "transform", "inference", "trainer">>, <<{}, {1}, {2}, {2}>>),
   Wired(<<"source", "transform", "transform", "trainer">>, <<{}, {1}, {2}, {3}>>)}

\* Inference that nothing trains, and its consumer.
Served ==
  {Wired(<<"source", "transform", "inference", "transform">>, <<{}, {1}, {on}, also \union {3}>>) :
     on \in {1, 2}, also \in {{}, {1}, {2}}}

Pipelines == TwoFeeds \union Trained \union Served

Published == {[by |-> "other", at |-> t] : t \in {0, 2}}
=============================================================================
