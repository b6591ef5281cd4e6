------------------------------ MODULE Pipeline ------------------------------
(***************************************************************************)
(* Declarations and Evaluation at work.  A program builds nodes one after  *)
(* the other, lists all of them as a graph, and, when the graph validates, *)
(* executes it again each time its sources have grown by one observation.  *)
(* Caches and models are left out (GraphExecution, WalkForward): a model's *)
(* prediction is its features and a backtest's position is its signal.     *)
(***************************************************************************)
EXTENDS Evaluation

CONSTANTS
  Feeds,          \* what sources read: the column type of each feed
  Sources,        \* the source nodes every program starts with
  Nodes(_),       \* the nodes a program may build next, given those it has
  MaxNodes,       \* bound on the nodes
  Observations,   \* what a moment brings: cells of some of the sources' frames
  MaxRows         \* bound on the moments

\* A source declares the type of its feed.
DeclaresFeed(decl) ==
  decl.op = "source" =>
    decl.args.feed \in DOMAIN Feeds /\ decl.args.type = Feeds[decl.args.feed]

ASSUME FeedsAssumption ==
  IsFiniteSet(DOMAIN Feeds) /\ \A s \in DOMAIN Feeds : Feeds[s].width \in Nat

\* A source is bound to nothing, and there is one per definition.
ASSUME SourcesAssumption ==
  /\ Sources \in Seq(Range(Sources)) /\ IsInjective(Sources)
  /\ \A n \in DOMAIN Sources :
       /\ Sources[n].op = "source" /\ DOMAIN Sources[n].bindings = {}
       /\ Constructible(<<>>, Sources[n]) /\ DeclaresFeed(Sources[n])

\* A feed holds cells of its type.
ASSUME ObservationsAssumption ==
  \A o \in Observations : \A s \in DOMAIN o \intersect DOMAIN Feeds : Fits(o[s], Feeds[s])

VARIABLES
  d,       \* the nodes built so far
  id,      \* their IDs
  seen,    \* frame of each source so far
  now,     \* moments so far
  frames   \* ID -> what the last execution computed

vars == <<d, id, seen, now, frames>>

-----------------------------------------------------------------------------

Init ==
  /\ d = [n \in DOMAIN Sources |-> Built(<<>>, Sources[n])]
  /\ id = [n \in DOMAIN Sources |-> n]
  /\ seen = [s \in DOMAIN Feeds |-> <<>>]
  /\ now = 0
  /\ frames = <<>>

Declare ==
  /\ now = 0 /\ Len(d) < MaxNodes
  /\ \E decl \in Nodes(d) :
       /\ Constructible(d, decl) /\ DeclaresFeed(decl)
       /\ DOMAIN decl.bindings \subseteq Range(Names)
       /\ d' = Append(d, Built(d, decl))
       /\ id' = Append(id, IdOf(d, id, Built(d, decl)))
  /\ UNCHANGED <<seen, now, frames>>

Observe ==
  /\ now < MaxRows /\ Accepted(d, OrderOf(d, id, Listed(d), Rank(d)))
  /\ now' = now + 1
  /\ \E o \in Observations :
       seen' = [s \in DOMAIN seen |->
                  IF s \in DOMAIN o
                    THEN Append(seen[s], [time |-> now', cells |-> [value |-> o[s]]])
                    ELSE seen[s]]
  /\ frames' = Execute(d, id, seen')
  /\ UNCHANGED <<d, id>>

Next == Declare \/ Observe
Spec == Init /\ [][Next]_vars

-----------------------------------------------------------------------------

Executed == {n \in DOMAIN frames : frames[n].status = "ok"}
Ancestors(n) ==
  LET above[m \in 1..Len(d)] == {m} \union UNION {above[p] : p \in ParentsOf(d[m])}
  IN  above[n]

\* A graph that validates never fails on its declaration: every node runs, after
\* its parents, on columns of the types and shapes it resolved, and makes the
\* columns it declared; only data can make it raise ("rejects invalid bindings,
\* incompatible schemas/time axes, and cycles before execution").
AcceptedGraphsExecute ==
  \A n \in DOMAIN frames :
    id[n] = n => frames[n].status \in {"ok", "nulls", "data", "upstream"}

\* The evaluation order, hence the graph's ID, is one for every order in which
\* the members are listed.
OrderIsCanonical ==
  now = 0 /\ Len(d) = MaxNodes =>
    \A listed \in SetToSeqs(1..Len(d)), rank \in {Rank(d), Listed(d)} :
      LET Ids(order) == [k \in DOMAIN order |-> id[order[k]]]
      IN  Ids(OrderOf(d, id, listed, rank)) = Ids(OrderOf(d, id, Listed(d), rank))

\* Nodes that validation takes to be free of the future are: what they computed
\* for the moments before stays when a later moment is observed, through as-of
\* alignment, tolerances, null policies, windows and shifts ("a value is never
\* taken from the future").  A metric has one row, at the last moment.  A model
\* of look-ahead targets makes predictions, not labels, yet it has a row where
\* they have one: a label that comes to be known may insert a row.
UntaintedIsCausal ==
  [][\A n \in Executed :
       /\ ~Taint(d)[n] /\ frames'[n].status = "ok"
       /\ \A m \in Ancestors(n) :
            /\ Kind(d[m].fn.op) \notin {"metric", "error_metric"}
            /\ d[m].fn.allows # {} => \A p \in ParentsOf(d[m]) : ~Taint(d)[p]
       => IsPrefix(frames[n].rows, frames'[n].rows)]_vars

\* Declarations with one ID compute one frame, which is what lets a graph run
\* one of them and the cache serve both.  The ID leaves out where a model is
\* stored, so models that name different stores are no such declarations: they
\* share an ID, and the graph runs the one it visits first.
SharedIDsShareFrames ==
  now > 0 =>
    \A m, n \in DOMAIN frames :
      /\ m < n /\ id[m] = id[n]
      /\ d[n].fn.op = "model" => d[m].fn.args.model_dir = d[n].fn.args.model_dir
      => Evaluate(d, id, frames, seen, d[m]) = Evaluate(d, id, frames, seen, d[n])

\* Transforms of finite values never make an infinity or a NaN, which every later
\* window would carry on; missing stays missing.  A Ratio may: 0 / 0.
OutputsAreFinite ==
  \A n \in Executed :
    (\A m \in Ancestors(n) : d[m].fn.op # "ratio") =>
      \A k \in DOMAIN frames[n].rows, c \in DOMAIN d[n].fn.out.columns :
        LET type == d[n].fn.out.columns[c]
        IN  \A j \in 1..FlatSize(type.width) :
              IsFinite(Component(frames[n].rows[k].cells[c], type.width, j))

\* An input's policy does not depend on where its column stands: "error" looks at
\* the rows that every other input's "drop" has left.
PoliciesCommute ==
  LET names == DOMAIN Feeds
      aligned == Align([s \in names |->
                          [frame |-> seen[s], column |-> "value", tolerance |-> Null]])
      policies == [names -> {"propagate", "drop", "fill", "error", "custom"}]
      fills == [s \in names |-> Whole(0)]
      widths == [s \in names |-> Feeds[s].width]
      columns == SetToSeq(names)
  IN  Len(d) = Len(Sources) =>
        \A p \in policies :
          Prepare(aligned, columns, widths, p, fills)
            = Prepare(aligned, Reverse(columns), widths, p, fills)

\* The components of a shaped computation are the computations of the components,
\* so packing columns and working on the vector is working on the columns: nulls,
\* infinities and missing vectors are treated alike.  LogRatio is not like that.
ComponentsStandAlone ==
  \A n \in Executed :
    LET fn == d[n].fn
        inputs == DOMAIN fn.in.columns
        width == fn.out.columns.value.width
        scalar == [fn EXCEPT !.in.columns = [i \in inputs |-> Float],
                             !.out.columns = [value |-> Float]]
        Given(i) == frames[id[ParentOf(d[n], i)]].rows
        aligned == Align([i \in inputs |->
                     [frame |-> Given(i), column |-> d[n].bindings[i].output,
                      tolerance |-> Null]])
        Only(j) == [k \in DOMAIN aligned |->
                      [aligned[k] EXCEPT !.cells = [i \in inputs |-> Component(@[i], width, j)]]]
    IN  Kind(fn.op) \in {"itemwise", "struct", "shift"} /\ fn.op # "log_ratio" /\ width > 0 =>
          \A j \in 1..width :
            LET alone == Apply(scalar, Only(j))
                whole == Apply(fn, aligned)
            IN  \A k \in DOMAIN aligned :
                  Component(whole[k].cells.value, width, j) = alone[k].cells.value
=============================================================================
