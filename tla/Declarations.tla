---------------------------- MODULE Declarations ----------------------------
(***************************************************************************)
(* iosislib.core.node.Node and the validation of iosislib.core.graph.Graph.*)
(*                                                                         *)
(* `d` is the sequence of the Node objects a program has built, in that    *)
(* order: a node is immutable and binds nodes that are there already, so   *)
(* the cycle branch of _multi_dependency_order is never taken.  A node is  *)
(*   [fn, bindings, tolerances, handlers, fills, mat]                      *)
(* where fn is its function with the signatures it resolved, `bindings`    *)
(* maps input names to [parent, output], and the rest maps input names.  A *)
(* node's ID, a hash of its definition, is represented by the index of the *)
(* first node of that definition, `id` holds the IDs of d, and `rank` is   *)
(* the order in which the hashes happen to sort.                           *)
(***************************************************************************)
EXTENDS Transforms

IsEmpty(signature) == signature.time = NoTime /\ DOMAIN signature.columns = {}
Bound(node) == DOMAIN node.bindings
Expected(node) == DOMAIN node.fn.in.columns
ParentOf(node, i) == node.bindings[i].parent
ParentsOf(node) == {ParentOf(node, i) : i \in Bound(node)}

\* The effective handlers: the function's default where nothing is configured,
\* and what is configured for names that are no inputs.
Handlers(node) ==
  [i \in Expected(node) \union DOMAIN node.handlers |->
     IF i \in DOMAIN node.handlers THEN node.handlers[i] ELSE node.fn.nulls]

\* The columns a declaration's inputs are bound to, those that exist.
BoundColumns(d, bindings) ==
  LET OutputsOf(i) == d[bindings[i].parent].fn.out.columns
  IN  [i \in {j \in DOMAIN bindings : bindings[j].output \in DOMAIN OutputsOf(j)} |->
         OutputsOf(i)[bindings[i].output]]

\* The node of a declaration [op, args, bindings, tolerances, handlers, fills, mat],
\* mat <<>> for the function's own requirement.
Built(d, decl) ==
  LET fn == Function(decl.op, decl.args, BoundColumns(d, decl.bindings))
  IN  [fn |-> fn, bindings |-> decl.bindings, tolerances |-> decl.tolerances,
       handlers |-> decl.handlers, fills |-> decl.fills,
       mat |-> IF decl.mat = <<>> THEN fn.batch ELSE decl.mat[1]]

\* What Node.__init__ accepts, whatever the graph.
Constructible(d, decl) ==
  LET node == Built(d, decl) IN
  /\ decl.op \in Operations
  /\ \A i \in DOMAIN decl.bindings : decl.bindings[i].parent \in DOMAIN d
  /\ decl.op # "source" =>
       /\ ValidConfig(decl.op, decl.args)
       /\ Resolvable(decl.op, decl.args, BoundColumns(d, decl.bindings))
  /\ \A i \in DOMAIN node.fills \intersect Expected(node) : Handlers(node)[i] = "fill"
  /\ DOMAIN node.tolerances \subseteq Bound(node)

-----------------------------------------------------------------------------
(* Identity: the definition without its name, its materialization and the  *)
(* parameters its function names volatile                                  *)

Excluded(op) ==
  CASE op = "model" -> {"model_dir", "frozen"}
    [] op = "trainer" -> {"model_dir", "run_id"}
    [] OTHER -> {}

IdentityParameters(fn) ==
  IF Excluded(fn.op) = {} THEN fn.args
  ELSE [p \in DOMAIN fn.args \ Excluded(fn.op) |-> fn.args[p]]

SameFunction(f, g) ==
  /\ f.op = g.op /\ f.in = g.in /\ f.out = g.out
  /\ IdentityParameters(f) = IdentityParameters(g)

\* Mutant of SameDefinition: the tolerances of the bindings are left out.
SameUpToTolerances(id, m, n) ==
  /\ SameFunction(m.fn, n.fn) /\ Bound(m) = Bound(n)
  /\ Handlers(m) = Handlers(n) /\ m.fills = n.fills
  /\ \A i \in Bound(n) : /\ id[ParentOf(m, i)] = id[ParentOf(n, i)]
                         /\ m.bindings[i].output = n.bindings[i].output

SameDefinition(id, m, n) ==
  /\ SameFunction(m.fn, n.fn) /\ Bound(m) = Bound(n)
  /\ Handlers(m) = Handlers(n) /\ m.fills = n.fills
  /\ m.tolerances = n.tolerances
  /\ \A i \in Bound(n) : /\ id[ParentOf(m, i)] = id[ParentOf(n, i)]
                         /\ m.bindings[i].output = n.bindings[i].output

\* The ID of a node that is built after those of d, whose IDs are id.
IdOf(d, id, node) ==
  LET same == {m \in 1..Len(d) : SameDefinition(id, d[m], node)}
  IN  IF same = {} THEN Len(d) + 1 ELSE Min(same)

-----------------------------------------------------------------------------
(* Graph._coerce_terminals and Graph._multi_dependency_order *)

\* dict.fromkeys: of members with one ID the first listed stands for all.
Members(id, listed) ==
  Where(listed, {k \in DOMAIN listed : \A j \in 1..(k - 1) : id[listed[j]] # id[listed[k]]})

\* Members whose ID no member is bound to.
Terminals(d, id, members) ==
  LET consumed == UNION {{id[p] : p \in ParentsOf(d[m])} : m \in Range(members)}
  IN  Where(members, {k \in DOMAIN members : id[members[k]] \notin consumed})

\* _canonical_parents: the parents in the order of their inputs' names (a parent
\* that comes again is not visited again).
CanonicalParents(node, names) ==
  LET inputs == Where(names, {k \in DOMAIN names : names[k] \in Bound(node)})
  IN  [k \in DOMAIN inputs |-> ParentOf(node, inputs[k])]

\* One node after the other, each by visit, which extends the order.
InTurn(visit, order, nodes) ==
  LET after[k \in 0..Len(nodes)] == IF k = 0 THEN order ELSE visit[nodes[k]][after[k - 1]]
  IN  after[Len(nodes)]

\* The depth-first traversal: parents before the node, an ID once.
Traversal(d, id, names) ==
  LET visit[n \in 1..Len(d)] ==
        [order \in Seq(1..Len(d)) |->
           IF \E m \in Range(order) : id[m] = id[n] THEN order
           ELSE Append(InTurn(visit, order, CanonicalParents(d[n], names)), n)]
  IN  visit

\* The terminals as their hashes sort.
Sorted(id, terminals, rank) ==
  LET ranks == InOrder({rank[id[m]] : m \in Range(terminals)})
  IN  [k \in DOMAIN ranks |-> CHOOSE m \in Range(terminals) : rank[id[m]] = ranks[k]]

OrderAsListed(d, id, terminals, rank, names) ==              \* mutant of Order
  InTurn(Traversal(d, id, names), <<>>, terminals)

Order(d, id, terminals, rank, names) ==
  InTurn(Traversal(d, id, names), <<>>, Sorted(id, terminals, rank))

-----------------------------------------------------------------------------
(* Graph._lookahead_taint, over IDs, in the order of the traversal *)

TaintOfFunction(d) == [n \in 1..Len(d) |-> d[n].fn.lookahead]     \* mutant of Taint
Taint(d) ==
  LET tainted[n \in 1..Len(d)] ==
        \/ d[n].fn.lookahead
        \/ d[n].fn.allows = {} /\ \E p \in ParentsOf(d[n]) : tainted[p]
  IN  tainted

-----------------------------------------------------------------------------
(* Graph._collect_node_issues: the codes of one node's issues *)

TimeIssues(child, parent) ==
  IF parent.time = NoTime THEN {"PARENT_OUTPUT_TIME_AXIS_MISSING"}
  ELSE IF parent.time # child.time THEN {"TIME_AXIS_MISMATCH"} ELSE {}

\* Mutant of BindingIssues: a column that is there is taken for one that fits.
PresenceIssues(d, node, i) ==
  LET parent == d[ParentOf(node, i)].fn.out
      output == node.bindings[i].output
  IN  IF output \notin DOMAIN parent.columns THEN {"PARENT_OUTPUT_MISSING"}
      ELSE IF i \notin Expected(node) \/ node.fn.in.time = NoTime THEN {}
      ELSE TimeIssues(node.fn.in, parent)

BindingIssues(d, node, i) ==
  LET parent == d[ParentOf(node, i)].fn.out
      output == node.bindings[i].output
  IN  IF output \notin DOMAIN parent.columns THEN {"PARENT_OUTPUT_MISSING"}
      ELSE IF i \notin Expected(node) THEN {}
      ELSE (IF parent.columns[output] # node.fn.in.columns[i]
              THEN {"INPUT_TYPE_MISMATCH"} ELSE {})
           \union (IF node.fn.in.time = NoTime THEN {} ELSE TimeIssues(node.fn.in, parent))

\* Inputs that receive future-derived values and are no declared targets, of
\* nodes that declare targets.
LookaheadIssues(d, node) ==
  IF /\ node.fn.allows # {}
     /\ \E i \in Bound(node) \ node.fn.allows : Taint(d)[ParentOf(node, i)]
    THEN {"LOOKAHEAD_INTO_FEATURES"} ELSE {}

When(condition, code) == IF condition THEN {code} ELSE {}

NodeIssues(d, node) ==
  LET bound == Bound(node)
      expected == Expected(node)
  IN  UNION
        {When(bound = {} /\ ~IsEmpty(node.fn.in), "NON_EMPTY_INPUT_WITHOUT_BINDINGS"),
         When(~(DOMAIN node.handlers \subseteq expected), "UNEXPECTED_NULL_HANDLER"),
         When(~(DOMAIN node.fills \subseteq expected), "UNEXPECTED_NULL_FILL_VALUE"),
         When(\E i \in DOMAIN Handlers(node) :
                Handlers(node)[i] = "fill" /\ i \notin DOMAIN node.fills,
              "MISSING_NULL_FILL_VALUE"),
         When(bound # {} /\ ~(expected \subseteq bound), "MISSING_BINDING"),
         When(~(bound \subseteq expected), "UNEXPECTED_BINDING"),
         When(bound # {} /\ node.fn.in.time = NoTime, "BOUND_INPUT_TIME_AXIS_MISSING"),
         When(node.fn.batch /\ ~node.mat, "REQUIRED_MATERIALIZATION_DISABLED"),
         LookaheadIssues(d, node),
         UNION {BindingIssues(d, node, i) : i \in bound}}

\* _collect_training_issues, MULTIPLE_TRAINERS: a group has one trainer.
TrainingIssues(d, order) ==
  LET trainers == {k \in Range(order) : d[k].fn.op = "trainer"}
  IN  When(\E m, n \in trainers : m # n /\ d[m].fn.args.group = d[n].fn.args.group,
           "MULTIPLE_TRAINERS")

\* Graph.validate of the graph with these members: sound when it reports nothing.
Accepted(d, order) ==
  (\A k \in Range(order) : NodeIssues(d, d[k]) = {}) /\ TrainingIssues(d, order) = {}
=============================================================================
