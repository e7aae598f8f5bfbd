-------------------------- MODULE GraphReconciliation --------------------------
(* reconcile_graph of services/reconciliation/graph/engine.py: records split  *)
(* over several others, then several merged into one (with their fees), then  *)
(* a best-first search for paths among the records left.  One action is one   *)
(* iteration of a loop; of the search, one pop of its heap.                   *)
EXTENDS GraphCandidates, FiniteSets, Sequences, FiniteSetsExt

CONSTANTS GraphShapes,  \* the records there may be
          Arrivals,     \* the orders in which records, named by id, arrive
          MaxHops,      \* max_hop_distance, which counts the nodes of a path
          MinScores,    \* what min_path_score may be, in hundredths
          MaxSplit      \* max_group_size

ASSUME GraphAssumption ==
  /\ \A s \in GraphShapes : s.amount \in Int /\ s.amount < 10^MaxDigits /\ s.date \in Int /\ s.fee \in Int
  /\ \A order \in Arrivals : order \in Seq(1..Len(order)) /\ \A k \in 1..Len(order) : \E j \in DOMAIN order : order[j] = k
  /\ MaxHops \in 2..5 /\ MinScores \subseteq 0..100 /\ MaxSplit \in Nat

VARIABLES node,      \* the records, by id
          arrival,   \* the order of the dictionary
          minScore,  \* min_path_score
          edges,     \* candidate_edges, later remaining_edges
          stage,
          todo,      \* what the loop of the stage has not looked at
          taken,     \* the nodes of the paths selected so far
          paths,
          frontier,  \* the heap of the search: paths, as sequences of nodes
          visited,
          unmatched

graphVars == <<node, arrival, minScore, edges, stage, todo, taken, paths, frontier, visited, unmatched>>
records == <<node, arrival, minScore>>
search == <<frontier, visited>>

GraphInit ==
  /\ node = <<>> /\ arrival = <<>> /\ minScore = 0 /\ edges = {} /\ todo = <<>>
  /\ stage = "idle"
  /\ taken = {} /\ paths = {} /\ frontier = {} /\ visited = {} /\ unmatched = {}

\* The types arrive one after the other, as the keys of a mapping do.
Grouped(order, shape) ==
  \A i, k \in DOMAIN order : \A j \in i..k :
    shape[order[i]].type = shape[order[k]].type => shape[order[j]].type = shape[order[i]].type

\* The records sorted by stage and id, which leaves one order.
Ordered(shape) ==
  CHOOSE order \in [1..Cardinality(DOMAIN shape) -> DOMAIN shape] :
    \A i, j \in DOMAIN order : i < j => Directed(shape, order[i], order[j])

BuildGraph ==
  /\ stage = "idle"
  /\ \E order \in Arrivals : \E shape \in [1..Len(order) -> GraphShapes] :
       /\ Grouped(order, shape)
       /\ node' = shape /\ arrival' = order /\ minScore' \in MinScores
       /\ edges' = CandidateEdges(shape)
       /\ todo' = Ordered(shape)
  /\ stage' = "one_to_many"
  /\ UNCHANGED <<taken, paths, search, unmatched>>

-----------------------------------------------------------------------------
(* find_directed_allocations.                                                 *)

Free(kind, u) ==
  {v \in (DOMAIN node) \ taken : (IF kind = "one_to_many" THEN <<u, v>> ELSE <<v, u>>) \in edges}

AmountsOf(shape, G) == MapThenSumSet(LAMBDA u : shape[u].amount, G)
FeesOf(shape, G) == MapThenSumSet(LAMBDA u : Gap(shape[u].fee, 0), G)
Amounts(G) == AmountsOf(node, G)
Fees(G) == FeesOf(node, G)

Missing(kind, u, G) ==
  IF kind = "one_to_many" THEN node[u].amount - Amounts(G) ELSE Amounts(G) - node[u].amount

\* Mutant: the fee may be missing on either side.
BalancedEitherWay(kind, u, G) ==
  Gap(Missing(kind, u, G), 0) \in {0, Fees(G \cup {u})}

Balanced(kind, u, G) ==
  \/ Missing(kind, u, G) = 0
  \/ Fees(G \cup {u}) > 0 /\ Missing(kind, u, G) = Fees(G \cup {u})

AllocationGroups(kind, u) ==
  {G \in SUBSET Free(kind, u) :
     /\ Cardinality(G) \in 2..MaxSplit
     /\ Cardinality({node[v].type : v \in G}) = 1
     /\ \A v \in G : node[v].currency = node[u].currency
     /\ Balanced(kind, u, G)}

\* The order of itertools.combinations, the smaller sizes first.
ComesFirst(G, H) ==
  \/ Cardinality(G) < Cardinality(H)
  \/ /\ Cardinality(G) = Cardinality(H)
     /\ \E u \in G \ H : \A v \in H \ G : u < v

FirstGroup(kind, u, G) ==
  /\ G \in AllocationGroups(kind, u)
  /\ \A H \in AllocationGroups(kind, u) \ {G} : ComesFirst(G, H)

\* The anchor is the record that is split or merged into, or that starts a chain.
GraphPath(kind, anchor, members, score) ==
  [kind |-> kind, anchor |-> anchor, members |-> members, score |-> score]

\* Mutant: the nodes of a path are not marked as used.
SelectUnmarked(path) == paths' = paths \cup {path} /\ UNCHANGED taken

Select(path) ==
  /\ paths' = paths \cup {path}
  /\ taken' = taken \cup path.members

Allocated(kind, u, G) ==
  GraphPath(kind, u, {u} \cup G, IF Missing(kind, u, G) = 0 THEN 88 ELSE 82)

\* An Allocation wants a positive amount: a refund in the group ends the run.
Payable(G) == \A v \in G : node[v].amount > 0

Allocate(kind) ==
  /\ stage = kind /\ todo # <<>>
  /\ LET u == Head(todo) IN
       \/ /\ (u \in taken \/ AllocationGroups(kind, u) = {})
          /\ UNCHANGED <<taken, paths, stage>>
       \/ /\ u \notin taken
          /\ \E G \in AllocationGroups(kind, u) :
               /\ FirstGroup(kind, u, G)
               /\ \/ Payable(G) /\ Select(Allocated(kind, u, G)) /\ UNCHANGED stage
                  \/ ~Payable(G) /\ stage' = "raised" /\ UNCHANGED <<taken, paths>>
  /\ todo' = Tail(todo)
  /\ UNCHANGED <<records, edges, search, unmatched>>

AllocateTargets ==
  /\ stage = "one_to_many" /\ todo = <<>>
  /\ stage' = "many_to_one" /\ todo' = Ordered(node)
  /\ UNCHANGED <<records, edges, taken, paths, search, unmatched>>

-----------------------------------------------------------------------------
(* find_graph_paths, over the nodes and edges no allocation has taken.        *)

\* The records an allocation took are passed over like those an earlier path took.
BeginSearch ==
  /\ stage = "many_to_one" /\ todo = <<>>
  /\ stage' = "paths"
  /\ todo' = arrival
  /\ edges' = {e \in edges : e[1] \notin taken /\ e[2] \notin taken}
  /\ UNCHANGED <<records, taken, paths, search, unmatched>>

\* The product of the scores of its edges, a fraction of 100^(MaxHops - 1).
Score(p) ==
  LET product[k \in DOMAIN p] ==
        IF k = 1 THEN 100^(MaxHops - Len(p)) ELSE EdgeScore(node[p[k - 1]], node[p[k]]) * product[k - 1]
  IN product[Len(p)]

\* How the heap compares: the score, then the ids one by one.
Lexically(p, q) ==
  \E k \in DOMAIN q :
    /\ \A j \in 1..(k - 1) : j \in DOMAIN p /\ p[j] = q[j]
    /\ k \notin DOMAIN p \/ p[k] < q[k]

\* Mutant: heapq gives back the path with the lowest score.
SoonerWorst(p, q) == Score(p) < Score(q) \/ (Score(p) = Score(q) /\ Lexically(p, q))

\* Mutant: the ids are compared before the score.
SoonerById(p, q) == Lexically(p, q)

Sooner(p, q) == Score(p) > Score(q) \/ (Score(p) = Score(q) /\ Lexically(p, q))

StartSearch ==
  /\ stage = "paths" /\ frontier = {} /\ todo # <<>>
  /\ frontier' = IF Head(todo) \in taken THEN {} ELSE {<<Head(todo)>>}
  /\ visited' = {}
  /\ todo' = Tail(todo)
  /\ UNCHANGED <<records, edges, stage, taken, paths, unmatched>>

Nodes(p) == {p[k] : k \in DOMAIN p}
End(p) == p[Len(p)]

Acceptable(p) ==
  Len(p) >= 2 /\ Score(p) >= minScore * 100^(MaxHops - 2) /\ Nodes(p) \cap taken = {}

Extensions(p) ==
  {Append(p, v) : v \in {w \in (DOMAIN node) \ (visited \cup {End(p)}) :
                            Len(p) < MaxHops /\ <<End(p), w>> \in edges}}

Pop ==
  /\ stage = "paths"
  /\ \E p \in frontier :
       /\ \A q \in frontier \ {p} : Sooner(p, q)
       /\ \/ /\ End(p) \in visited
             /\ frontier' = frontier \ {p}
             /\ UNCHANGED <<visited, taken, paths>>
          \/ /\ End(p) \notin visited /\ Acceptable(p)
             /\ frontier' = {} /\ visited' = {}
             /\ Select(GraphPath("chain", p[1], Nodes(p), Score(p)))
          \/ /\ End(p) \notin visited /\ ~Acceptable(p)
             /\ visited' = visited \cup {End(p)}
             /\ frontier' = (frontier \ {p}) \cup Extensions(p)
             /\ UNCHANGED <<taken, paths>>
  /\ UNCHANGED <<records, edges, stage, todo, unmatched>>

\* reconcile_graph: whatever is in no path is unmatched.
FinishGraph ==
  /\ stage = "paths" /\ frontier = {} /\ todo = <<>>
  /\ stage' = "done"
  /\ unmatched' = (DOMAIN node) \ UNION {path.members : path \in paths}
  /\ UNCHANGED <<records, edges, todo, taken, paths, search>>

GraphNext ==
  \/ BuildGraph
  \/ Allocate("one_to_many") \/ AllocateTargets \/ Allocate("many_to_one")
  \/ BeginSearch \/ StartSearch \/ Pop
  \/ FinishGraph

GraphSpec == GraphInit /\ [][GraphNext]_graphVars

-----------------------------------------------------------------------------
GraphTypeOK ==
  /\ node \in [DOMAIN node -> GraphShapes]
  /\ arrival \in Arrivals \cup {<<>>} /\ Len(arrival) = Cardinality(DOMAIN node)
  /\ minScore \in 0..100
  /\ edges \subseteq (DOMAIN node) \X (DOMAIN node)
  /\ stage \in {"idle", "one_to_many", "many_to_one", "paths", "done", "raised"}
  /\ todo \in Seq(DOMAIN node)
  /\ taken \subseteq DOMAIN node /\ visited \subseteq DOMAIN node /\ unmatched \subseteq DOMAIN node
  /\ \A path \in paths : path.kind \in {"one_to_many", "many_to_one", "chain"} /\ path.members \subseteq DOMAIN node
  /\ \A p \in frontier : p \in Seq(DOMAIN node) /\ p # <<>>

Chains == {path \in paths : path.kind = "chain"}

\* No record is in two of the selected paths, whichever stage selected them, and
\* at the end a record is unmatched exactly when it is in none.
OnePathPerRecord ==
  /\ \A path, other \in paths : path # other => path.members \cap other.members = {}
  /\ stage = "done" => \A u \in DOMAIN node : u \in unmatched <=> \A path \in paths : u \notin path.members

\* An allocation conserves money: its members are positive, of one kind and one
\* currency, and what they do not cover is exactly the fees they declare.
GroupsBalance ==
  \A path \in paths \ Chains :
    LET u == path.anchor
        G == path.members \ {u}
    IN /\ Payable(G)
       /\ \A v, w \in G : node[v].type = node[w].type /\ node[v].currency = node[u].currency
       /\ IF path.kind = "one_to_many"
          THEN node[u].amount - Amounts(G) \in {0, Fees(G \cup {u})}
          ELSE Amounts(G) - node[u].amount \in {0, Fees(G \cup {u})}

\* The search promises the optimal end of a path (engine.py, find_graph_paths): no
\* record that is left over would have been a better one for the record the path
\* starts from, whatever the search had visited before it came there.
OptimalEnds ==
  stage = "done" => \A path \in Chains, w \in unmatched :
    <<path.anchor, w>> \in edges => EdgeScore(node[path.anchor], node[w]) * 100^(MaxHops - 2) <= path.score

\* engine.py:3 says that it "Implements multi-hop matching", engine.py:367 that the
\* search will "Find optimal multi-hop paths", and a test that it goes from invoice
\* to payment to settlement (tests/test_graph_reconciliation.py:240): a path that
\* was selected goes on to a record that is left over, where the longer path is
\* still good enough.  False: the first edge that is good enough ends the search.
LineageFollowed ==
  stage = "done" /\ MaxHops >= 3 => \A path \in Chains, w \in unmatched : \A u, v \in path.members :
    <<u, v>> \in edges /\ <<v, w>> \in edges =>
      EdgeScore(node[u], node[v]) * EdgeScore(node[v], node[w]) < minScore * 100

JoinedAbove(score) ==
  {e \in unmatched \X unmatched :
     e[1] # e[2] /\ ~Blocked(node[e[1]], node[e[2]]) /\ EdgeScore(node[e[1]], node[e[2]]) >= score}

\* No two records stay unmatched that agree on the amount, or nearly: the detour
\* that hides a target from the search never scores as well as such an edge.
StrongPairsTaken == stage = "done" /\ minScore <= 80 => JoinedAbove(80) = {}
==============================================================================
