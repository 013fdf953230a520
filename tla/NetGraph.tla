------------------------------- MODULE NetGraph -------------------------------
(***************************************************************************)
(* The graph of a net that is partitioned over the workers of a group      *)
(* (NeuralNet::ConstructNeuralNet, CreatePartitonedGraph and the Graph     *)
(* they build, src/neuralnet/neuralnet.cc, src/utils/graph.cc).            *)
(*                                                                         *)
(* A layer becomes one node or one node per partition; nodes that slice,   *)
(* concatenate, replicate and carry data are put between them.  Nodes are  *)
(* numbered as they are created; the graph finds them by their names,      *)
(* which are tuples here.  The loops of the construction and the calls of  *)
(* the sort take a step each.                                              *)
(***************************************************************************)
EXTENDS SequencesExt, Integers, FiniteSets

CONSTANTS
  LayerNames,   \* the layers in the order the configuration lists them
  GroupSizes,   \* group_size_
  Locations     \* locationid of a layer that is not partitioned

Layers == ToSet(LayerNames)

\* The origins of the nodes between layers.  They are told from layers by
\* their names alone, so a layer must not be called like one.
Between == {"kSlice", "kConcate", "kSplit", "kBridgeSrc", "kBridgeDst"}

ASSUME NetGraphAssumption ==
  /\ LayerNames \in Seq(STRING \ Between) /\ IsInjective(LayerNames)
  /\ GroupSizes \subseteq Nat \ {0, 1}
  /\ Locations \subseteq Nat

VARIABLES
  gsize,        \* group_size_
  type,         \* type[l]: partition_type()
  connection,   \* connection[l]: connection_type(k), the same for every k
  location,     \* location[l]: locationid()
  srclayers,    \* srclayers[l]: the layers l reads, in order
  layers,       \* layers_: the layers in topological order
  graph,        \* nodes by number, their neighbours, and nodes_
  layer2nodes,  \* layer2nodes[l]: the nodes of layer l
  phase,        \* the part of the construction that runs
  todo,         \* what its loop has left
  walk,         \* the neighbours left at the node of an inner loop, and of each call
  visited, stack  \* Sort's: the names of the nodes seen, and of those put down

net   == <<gsize, type, connection, location, srclayers>>
calls == <<visited, stack>>
vars  == <<net, layers, graph, layer2nodes, phase, todo, walk, calls>>

----------------------------------------------------------------------------
(* Graph *)

NoGraph == [size |-> 0, node |-> <<>>, dst |-> <<>>, src |-> <<>>, order |-> <<>>]

Nodes(g)     == 1 .. g.size
Name(g, n)   == g.node[n].name
Origin(g, n) == g.node[n].origin

\* name2node_: the node that got the name last.
Named(g, name) ==
  CHOOSE n \in Nodes(g) : Name(g, n) = name /\ \A m \in n + 1 .. g.size : Name(g, m) # name

\* Mutation: nodes_ gets the number of the node behind the new one.
AddNodesLate(g, k, infos) ==
  [size  |-> g.size + k,
   node  |-> [n \in 1 .. g.size + k |-> IF n <= g.size THEN g.node[n] ELSE infos[n - g.size]],
   dst   |-> [n \in 1 .. g.size + k |-> IF n <= g.size THEN g.dst[n] ELSE <<>>],
   src   |-> [n \in 1 .. g.size + k |-> IF n <= g.size THEN g.src[n] ELSE <<>>],
   order |-> g.order \o [i \in 1 .. k |-> g.size + i + 1]]

\* Adding k nodes, one for each of infos.
AddNodes(g, k, infos) ==
  [size  |-> g.size + k,
   node  |-> [n \in 1 .. g.size + k |-> IF n <= g.size THEN g.node[n] ELSE infos[n - g.size]],
   dst   |-> [n \in 1 .. g.size + k |-> IF n <= g.size THEN g.dst[n] ELSE <<>>],
   src   |-> [n \in 1 .. g.size + k |-> IF n <= g.size THEN g.src[n] ELSE <<>>],
   order |-> g.order \o [i \in 1 .. k |-> g.size + i]]

NewNodes(g, k) == [i \in 1 .. k |-> g.size + i]

\* Each node n gets edges to out[n] and from in[n].
AddEdges(g, out, in) ==
  [g EXCEPT !.dst = [n \in Nodes(g) |-> g.dst[n] \o out[n]],
            !.src = [n \in Nodes(g) |-> g.src[n] \o in[n]]]

\* An edge from each of as to each of bs.
Connect(g, as, bs) ==
  AddEdges(g, [n \in Nodes(g) |-> IF n \in ToSet(as) THEN bs ELSE <<>>],
              [n \in Nodes(g) |-> IF n \in ToSet(bs) THEN as ELSE <<>>])

At(ns, n) == CHOOSE i \in DOMAIN ns : ns[i] = n

\* An edge from each of as to its partner in bs.
Match(g, as, bs) ==
  AddEdges(g, [n \in Nodes(g) |-> IF n \in ToSet(as) THEN <<bs[At(as, n)]>> ELSE <<>>],
              [n \in Nodes(g) |-> IF n \in ToSet(bs) THEN <<as[At(bs, n)]>> ELSE <<>>])

\* Mutation: the name is not looked at.
WithoutFirst(g, ns, n) == Tail(ns)

\* ns without its first node of n's name.
Without(g, ns, n) == RemoveFirstMatch(ns, LAMBDA m : Name(g, m) = Name(g, n))

RemoveEdge(g, a, b) ==
  [g EXCEPT !.dst[a] = Without(g, @, b), !.src[b] = Without(g, @, a)]

\* The edges of n to all it leads to, removed one after the other.
RemoveEdgesFrom(g, n) ==
  [g EXCEPT !.dst[n] = <<>>,
            !.src = [d \in Nodes(g) |-> IF d \in ToSet(g.dst[n]) THEN Without(g, g.src[d], n)
                                        ELSE g.src[d]]]

\* What a new node beside n has, at the same place.
Beside(g, n, label, origin) ==
  [name |-> label, origin |-> origin,
   location |-> g.node[n].location, partition |-> g.node[n].partition]

Inserted(g, s, ds, label, origin) ==
  LET h == AddNodes(g, 1, <<Beside(g, s, <<label, Name(g, s)>>, origin)>>)
  IN  Connect(Connect(h, <<s>>, <<h.size>>), <<h.size>>, ds)

InsertSliceNode(g, s, ds) == Inserted(g, s, ds, "slice", "kSlice")
InsertSplitNode(g, s, ds) == Inserted(g, s, ds, "split", "kSplit")

\* A slice of each of ss whose pieces nobody reads yet.
Sliced(g, ss) ==
  LET k == Len(ss)
      h == AddNodes(g, k, [i \in 1 .. k |-> Beside(g, ss[i], <<"slice", Name(g, ss[i])>>, "kSlice")])
  IN  Match(h, ss, NewNodes(g, k))

\* Mutation: the loop over the pieces ends one early.
ConcatedShort(g, ss, ds) ==
  LET k == Len(ds)
      h == AddNodes(g, k, [i \in 1 .. k |-> Beside(g, ds[i], <<"concate", Name(g, ds[i])>>, "kConcate")])
  IN  Connect(Match(h, NewNodes(g, k), ds), Front(ss), NewNodes(g, k))

\* InsertConcateNode for each of ds: a node that puts ss together for it.
Concated(g, ss, ds) ==
  LET k == Len(ds)
      h == AddNodes(g, k, [i \in 1 .. k |-> Beside(g, ds[i], <<"concate", Name(g, ds[i])>>, "kConcate")])
  IN  Connect(Match(h, NewNodes(g, k), ds), ss, NewNodes(g, k))

InsertBridgeNode(g, s, d) ==
  LET h == AddNodes(g, 2, <<Beside(g, s, <<"s", Name(g, s), Name(g, d)>>, "kBridgeSrc"),
                            Beside(g, d, <<"d", Name(g, s), Name(g, d)>>, "kBridgeDst")>>)
  IN  Match(h, <<s, g.size + 1, g.size + 2>>, <<g.size + 1, g.size + 2, d>>)

----------------------------------------------------------------------------
(* The net *)

Acyclic ==
  \E rank \in [Layers -> 1 .. Len(LayerNames)] :
    \A l \in Layers : \A m \in ToSet(srclayers[l]) : rank[m] < rank[l]

\* A layer without sources: only data layers can do without, and they are
\* never partitioned.
IsData(l) == srclayers[l] = <<>>

\* Any net without cycles, whose layers name each source once.  A partitioned
\* layer's location is not used, nor the connection of a layer that is not
\* partitioned by layer.
Init ==
  /\ srclayers \in [Layers -> {s \in BoundedSeq(Layers, Len(LayerNames)) : IsInjective(s)}]
  /\ Acyclic
  /\ gsize \in GroupSizes
  /\ type \in [Layers -> {"kNone", "kDataPartition", "kLayerPartition"}]
  /\ \A l \in Layers : IsData(l) => type[l] = "kNone"
  /\ connection \in [Layers -> {"kOneToOne", "kOneToAll"}]
  /\ \A l \in Layers : type[l] # "kLayerPartition" => connection[l] = "kOneToOne"
  /\ location \in [Layers -> Locations]
  /\ \A l \in Layers : type[l] # "kNone" => location[l] = CHOOSE x \in Locations : TRUE
  /\ layers = <<>> /\ graph = NoGraph /\ layer2nodes = [l \in Layers |-> <<>>]
  /\ phase = "construct" /\ todo = <<>> /\ walk = <<>> /\ visited = {} /\ stack = <<>>

----------------------------------------------------------------------------
(* Sort *)

\* The loops of phase p are over; phase q is a sort.
BeginSort(p, q) ==
  /\ phase = p /\ walk = <<>> /\ todo = <<>>
  /\ phase' = q /\ todo' = graph.order /\ visited' = {} /\ stack' = <<>>
  /\ UNCHANGED <<net, layers, graph, layer2nodes, walk>>

Sorting == phase \in {"sortLayers", "sortConnected", "sortBridged"}

\* A call that starts at n, if n was not visited, over the calls rest.
Call(n, rest) ==
  IF Name(graph, n) \in visited THEN walk' = rest /\ UNCHANGED visited
  ELSE walk' = <<[at |-> n, left |-> graph.dst[n]]>> \o rest
       /\ visited' = visited \cup {Name(graph, n)}

\* The loop of Sort over the nodes.
Root ==
  /\ Sorting /\ walk = <<>> /\ todo # <<>>
  /\ Call(Head(todo), <<>>)
  /\ todo' = Tail(todo)
  /\ UNCHANGED <<net, layers, graph, layer2nodes, phase, stack>>

\* Mutation: begin for rbegin.
DescendFirst ==
  /\ Sorting /\ walk # <<>> /\ walk[1].left # <<>>
  /\ Call(Head(walk[1].left), <<[walk[1] EXCEPT !.left = Tail(@)]>> \o Tail(walk))
  /\ UNCHANGED <<net, layers, graph, layer2nodes, phase, todo, stack>>

\* The loop of topology_sort_inner, which takes the last neighbour first.
Descend ==
  /\ Sorting /\ walk # <<>> /\ walk[1].left # <<>>
  /\ Call(Last(walk[1].left), <<[walk[1] EXCEPT !.left = Front(@)]>> \o Tail(walk))
  /\ UNCHANGED <<net, layers, graph, layer2nodes, phase, todo, stack>>

\* Mutation: the stack is read from its bottom.
PutLast ==
  /\ Sorting /\ walk # <<>> /\ walk[1].left = <<>>
  /\ stack' = Append(stack, Name(graph, walk[1].at))
  /\ walk' = Tail(walk)
  /\ UNCHANGED <<net, layers, graph, layer2nodes, phase, todo, visited>>

\* The end of a call.
Put ==
  /\ Sorting /\ walk # <<>> /\ walk[1].left = <<>>
  /\ stack' = <<Name(graph, walk[1].at)>> \o stack
  /\ walk' = Tail(walk)
  /\ UNCHANGED <<net, layers, graph, layer2nodes, phase, todo, visited>>

\* nodes_ when the stack has been emptied into it.
SortedNodes == [i \in DOMAIN stack |-> Named(graph, stack[i])]

SortEnds(p) == phase = p /\ walk = <<>> /\ todo = <<>>

----------------------------------------------------------------------------
(* ConstructNeuralNet: one node for a layer, an edge for a source *)

Info(l, label, place, part) ==
  [name |-> label, origin |-> l, location |-> place, partition |-> part]

Construct ==
  /\ phase = "construct"
  /\ graph' = AddNodes(NoGraph, Len(LayerNames),
                [i \in DOMAIN LayerNames |-> Info(LayerNames[i], <<LayerNames[i]>>, 0, 0)])
  /\ phase' = "wire" /\ todo' = LayerNames
  /\ UNCHANGED <<net, layers, layer2nodes, walk, calls>>

\* The loops over layers and their sources.
OpenLayer ==
  /\ phase \in {"wire", "edges"} /\ walk = <<>> /\ todo # <<>>
  /\ walk' = <<[at |-> Head(todo), left |-> srclayers[Head(todo)]]>>
  /\ todo' = Tail(todo)
  /\ UNCHANGED <<net, layers, graph, layer2nodes, phase, calls>>

Close ==
  /\ ~ Sorting /\ walk # <<>> /\ walk[1].left = <<>>
  /\ walk' = <<>>
  /\ UNCHANGED <<net, layers, graph, layer2nodes, phase, todo, calls>>

\* The inner loop is at n, and d is next.
Turn(n, d) ==
  /\ walk # <<>> /\ walk[1].at = n /\ walk[1].left # <<>> /\ Head(walk[1].left) = d
  /\ walk' = <<[walk[1] EXCEPT !.left = Tail(@)]>>
  /\ UNCHANGED <<net, layers, layer2nodes, phase, todo, calls>>

ReadSource(s, l) ==
  /\ phase = "wire" /\ Turn(l, s)
  /\ graph' = Connect(graph, <<Named(graph, <<s>>)>>, <<Named(graph, <<l>>)>>)

SortLayers == BeginSort("wire", "sortLayers")

\* The layers are created in the order of the nodes.
LayersSorted ==
  /\ SortEnds("sortLayers")
  /\ layers' = [i \in DOMAIN stack |-> Origin(graph, SortedNodes[i])]
  /\ phase' = "nodes" /\ graph' = NoGraph /\ todo' = layers'
  /\ UNCHANGED <<net, layer2nodes, walk, calls>>

----------------------------------------------------------------------------
(* CreatePartitonedGraph *)

Partitioned(l) == type[l] # "kNone"

PartsOf(l) == IF Partitioned(l) THEN gsize ELSE 1

AddPartitions ==
  /\ phase = "nodes" /\ todo # <<>>
  /\ LET l == Head(todo)
         Part(i) == IF Partitioned(l) THEN Info(l, <<l, i - 1>>, i - 1, i - 1)
                    ELSE Info(l, <<l>>, location[l], 0)
     IN  /\ graph' = AddNodes(graph, PartsOf(l), [i \in 1 .. PartsOf(l) |-> Part(i)])
         /\ layer2nodes' = [layer2nodes EXCEPT ![l] = NewNodes(graph, PartsOf(l))]
  /\ todo' = Tail(todo)
  /\ UNCHANGED <<net, layers, phase, walk, calls>>

EndPartitions ==
  /\ phase = "nodes" /\ todo = <<>>
  /\ phase' = "edges" /\ todo' = layers
  /\ UNCHANGED <<net, layers, graph, layer2nodes, walk, calls>>

\* What each partition of l reads of the source layer s: nothing but its
\* part, or all of s.
OneToOne(l) ==
  \/ type[l] = "kDataPartition"
  \/ type[l] = "kLayerPartition" /\ connection[l] = "kOneToOne"

WantsAll(l) == ~ OneToOne(l)

Connected(s, l) == phase = "edges" /\ Turn(l, s)

ConnectWhole(s, l) ==
  /\ Connected(s, l) /\ ~ Partitioned(s) /\ ~ Partitioned(l)
  /\ graph' = Connect(graph, layer2nodes[s], layer2nodes[l])

ConnectSliced(s, l) ==
  /\ Connected(s, l) /\ ~ Partitioned(s) /\ OneToOne(l)
  /\ graph' = InsertSliceNode(graph, layer2nodes[s][1], layer2nodes[l])

ConnectSplit(s, l) ==
  /\ Connected(s, l) /\ ~ Partitioned(s) /\ Partitioned(l) /\ WantsAll(l)
  /\ graph' = InsertSplitNode(graph, layer2nodes[s][1], layer2nodes[l])

ConnectConcated(s, l) ==
  /\ Connected(s, l) /\ Partitioned(s) /\ WantsAll(l)
  /\ graph' = Concated(graph, layer2nodes[s], layer2nodes[l])

\* Every partition of s is sliced for the partitions of l, each of which
\* puts its slices together.
ConnectResliced(s, l) ==
  /\ Connected(s, l) /\ Partitioned(s) /\ OneToOne(l) /\ type[s] # type[l]
  /\ graph' = Concated(Sliced(graph, layer2nodes[s]), NewNodes(graph, gsize), layer2nodes[l])

ConnectPairs(s, l) ==
  /\ Connected(s, l) /\ Partitioned(s) /\ OneToOne(l) /\ type[s] = type[l]
  /\ graph' = Match(graph, layer2nodes[s], layer2nodes[l])

SortConnected == BeginSort("edges", "sortConnected")

ConnectedSorted ==
  /\ SortEnds("sortConnected")
  /\ graph' = [graph EXCEPT !.order = SortedNodes]
  /\ phase' = "splits" /\ todo' = SortedNodes
  /\ UNCHANGED <<net, layers, layer2nodes, walk, calls>>

----------------------------------------------------------------------------
(* Splits and bridges *)

\* Mutation: off by one.
ManyReaders(g, n) ==
  Len(g.dst[n]) > 2 /\ Origin(g, n) \notin {"kSlice", "kSplit"} /\ n # Head(g.order)

\* A fan-out of node n, unless n is the first node.
NeedsSplit(g, n) ==
  Len(g.dst[n]) > 1 /\ Origin(g, n) \notin {"kSlice", "kSplit"} /\ n # Head(g.order)

AddSplit ==
  /\ phase = "splits" /\ todo # <<>>
  /\ LET n == Head(todo)
     IN  graph' = IF NeedsSplit(graph, n)
                  THEN InsertSplitNode(RemoveEdgesFrom(graph, n), n, graph.dst[n])
                  ELSE graph
  /\ todo' = Tail(todo)
  /\ UNCHANGED <<net, layers, layer2nodes, phase, walk, calls>>

EndSplits ==
  /\ phase = "splits" /\ todo = <<>>
  /\ phase' = "bridges" /\ todo' = graph.order
  /\ UNCHANGED <<net, layers, graph, layer2nodes, walk, calls>>

\* The loop over the nodes copies each one's neighbours.
OpenNode ==
  /\ phase = "bridges" /\ walk = <<>> /\ todo # <<>>
  /\ walk' = <<[at |-> Head(todo), left |-> graph.dst[Head(todo)]]>>
  /\ todo' = Tail(todo)
  /\ UNCHANGED <<net, layers, graph, layer2nodes, phase, calls>>

\* Mutation: partitions for locations.
OtherPartition(g, n, d) == g.node[n].partition # g.node[d].partition

Apart(g, n, d) == g.node[n].location # g.node[d].location

AddBridge(n, d) ==
  /\ phase = "bridges" /\ Turn(n, d)
  /\ graph' = IF Apart(graph, n, d) THEN InsertBridgeNode(RemoveEdge(graph, n, d), n, d)
              ELSE graph

SortBridged == BeginSort("bridges", "sortBridged")

BridgedSorted ==
  /\ SortEnds("sortBridged")
  /\ graph' = [graph EXCEPT !.order = SortedNodes]
  /\ phase' = "done"
  /\ UNCHANGED <<net, layers, layer2nodes, todo, walk, calls>>

Next ==
  \/ Construct \/ OpenLayer \/ Close \/ SortLayers \/ LayersSorted
  \/ Root \/ Descend \/ Put
  \/ AddPartitions \/ EndPartitions
  \/ \E s, l \in Layers :
       \/ ReadSource(s, l)
       \/ ConnectWhole(s, l) \/ ConnectSliced(s, l) \/ ConnectSplit(s, l)
       \/ ConnectConcated(s, l) \/ ConnectResliced(s, l) \/ ConnectPairs(s, l)
  \/ SortConnected \/ ConnectedSorted \/ AddSplit \/ EndSplits \/ OpenNode
  \/ \E n, d \in Nodes(graph) : AddBridge(n, d)
  \/ SortBridged \/ BridgedSorted

Spec == Init /\ [][Next]_vars
----------------------------------------------------------------------------
IsGraph(g) ==
  /\ g = [size |-> g.size, node |-> g.node, dst |-> g.dst, src |-> g.src, order |-> g.order]
  /\ g.size \in Nat
  /\ DOMAIN g.node = Nodes(g)
  /\ \A n \in Nodes(g) :
       /\ Origin(g, n) \in Layers \cup Between
       /\ g.node[n].location \in Nat /\ g.node[n].partition \in Nat
  /\ g.dst \in [Nodes(g) -> Seq(Nodes(g))] /\ g.src \in [Nodes(g) -> Seq(Nodes(g))]
  /\ g.order \in Seq(Nodes(g))

\* What the loops of the phase run over.
Items == IF phase \in {"wire", "nodes", "edges"} THEN Layers ELSE Nodes(graph)

Names == {Name(graph, n) : n \in Nodes(graph)}

\* Every list holds nodes that are there, or layers, and every name that the
\* sort keeps is a node's (graph.cc:66-101).
TypeOK ==
  /\ gsize \in GroupSizes
  /\ type \in [Layers -> {"kNone", "kDataPartition", "kLayerPartition"}]
  /\ connection \in [Layers -> {"kOneToOne", "kOneToAll"}]
  /\ location \in [Layers -> Locations]
  /\ srclayers \in [Layers -> Seq(Layers)]
  /\ layers \in Seq(Layers)
  /\ IsGraph(graph)
  /\ layer2nodes \in [Layers -> Seq(Nodes(graph))]
  /\ phase \in {"construct", "wire", "sortLayers", "nodes", "edges", "sortConnected",
                "splits", "bridges", "sortBridged", "done"}
  /\ todo \in Seq(Items) /\ walk \in Seq([at : Items, left : Seq(Items)])
  /\ Sorting => visited \subseteq Names /\ stack \in Seq(Names)

----------------------------------------------------------------------------
(* What PartitionNeuralNet builds from the graph *)

Done == phase = "done"

\* A layer is found by its node's name.
SrcLayers(n) == {Named(graph, Name(graph, m)) : m \in ToSet(graph.src[n])}

\* Names come twice when a layer has two readers that slice it, or reads two
\* layers it puts together.  Sort then finds one node for both and loses the
\* other: such a net cannot be run, and the properties leave it out.
DistinctNames ==
  \A n, m \in Nodes(graph) : Name(graph, n) = Name(graph, m) => n = m

OfNet(n) == Origin(graph, n) \in Layers

\* The layers' nodes that n reads through nodes that were put between.
Feeds[n \in Nodes(graph)] ==
  UNION {IF OfNet(m) THEN {m} ELSE Feeds[m] : m \in SrcLayers(n)}

\* The nodes of the source layers whose data n's part of the layer depends on.
Needs(n) ==
  LET l == Origin(graph, n) IN
  {m \in Nodes(graph) :
     /\ Origin(graph, m) \in ToSet(srclayers[l])
     /\ OneToOne(l) /\ type[Origin(graph, m)] = type[l] =>
          graph.node[m].partition = graph.node[n].partition}

\* Partitioning changes no dependency: each part of a layer reads exactly
\* the parts of the layer's sources it depends on, however they are sliced,
\* put together, replicated and carried over.
DependenciesKept ==
  Done /\ DistinctNames => \A n \in Nodes(graph) : OfNet(n) => Feeds[n] = Needs(n)

\* "make `bottom' nodes be placed in the front positions" (graph.cc:83): the
\* layers are computed in the order of nodes_, so every node is in it once,
\* behind all it reads.
SourcesFirst ==
  Done /\ DistinctNames =>
    /\ ToSet(graph.order) = Nodes(graph) /\ IsInjective(graph.order)
    /\ \A i, j \in DOMAIN graph.order :
         graph.order[j] \in ToSet(graph.dst[graph.order[i]]) => i < j

\* Data goes from one location to another through a pair of bridges and
\* through nothing else.
BridgedAtBorders ==
  Done /\ DistinctNames =>
    \A n \in Nodes(graph) : \A d \in ToSet(graph.dst[n]) :
      graph.node[n].location # graph.node[d].location
        <=> Origin(graph, n) = "kBridgeSrc" /\ Origin(graph, d) = "kBridgeDst"

\* The node at the other end of a bridge.
Past(n) ==
  IF Origin(graph, n) = "kBridgeSrc" THEN Head(graph.dst[n])
  ELSE IF Origin(graph, n) = "kBridgeDst" THEN Head(graph.src[n])
  ELSE n

\* One piece for each partition.
Whole(ns) ==
  Len(ns) = gsize /\ {graph.node[Past(n)].partition : n \in ToSet(ns)} = 0 .. gsize - 1

\* A slice has one piece for each partition and a concatenation one piece of
\* each, whatever locations they lie at.
OnePieceEach ==
  Done /\ DistinctNames =>
    \A n \in Nodes(graph) :
      /\ Origin(graph, n) = "kSlice" => Whole(graph.dst[n])
      /\ Origin(graph, n) = "kConcate" => Whole(graph.src[n])

\* By partition, those that are there through no bridge first.
InOrder(ns, bridge) ==
  \A i, j \in DOMAIN ns :
    i < j => \/ graph.node[Past(ns[i])].partition < graph.node[Past(ns[j])].partition
             \/ Origin(graph, ns[i]) # bridge /\ Origin(graph, ns[j]) = bridge

\* A slice gives its i-th reader the i-th piece (base_layer.cc:141-147), a
\* concatenation is made of its sources in their order, and "partition id is
\* the ID of the layer in the original layer" (base_layer.h:158).  A bridge is
\* put at the end of both lists (neuralnet.cc:324-325): that is the only
\* disorder, as the sort brings the parts of a layer to the loop by partition.
PiecesInOrder ==
  Done /\ DistinctNames =>
    \A n \in Nodes(graph) :
      /\ Origin(graph, n) = "kSlice" => InOrder(graph.dst[n], "kBridgeSrc")
      /\ Origin(graph, n) = "kConcate" => InOrder(graph.src[n], "kBridgeDst")

\* A layer computes for many only as a slice or a split, or if it is a data
\* layer, which has no gradients for several readers to overwrite.
FanOutIsSplit ==
  Done /\ DistinctNames =>
    \A n \in Nodes(graph) :
      Len(graph.dst[n]) > 1 =>
        \/ Origin(graph, n) \in {"kSlice", "kSplit"}
        \/ OfNet(n) /\ IsData(Origin(graph, n))
=============================================================================
