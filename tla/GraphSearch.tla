----------------------------- MODULE GraphSearch -----------------------------
(***************************************************************************)
(* Searching the property graph: SearchExpression and the iterators of     *)
(* PMGDQueryHandler.  A graph is [nodes, edges]; a node is [tag, val], an  *)
(* edge is [src, dst, val], both named by their position, which is also    *)
(* the order in which PMGD (external) hands them out.  A property has one  *)
(* key; a predicate is the set of values it accepts.                       *)
(*                                                                         *)
(* A _ref stands for a reusable iterator [list, pos, todo]: the elements   *)
(* already fetched, the current one, and the search that still has to be   *)
(* continued (at most one element is fetched ahead of the current one).    *)
(***************************************************************************)
EXTENDS Lists

CONSTANT None    \* no constraints, no link, no end of an edge given

ASSUME NoneApart == None \notin Seq(Nat)

\* PropertyFilter, external: the value passes every predicate
Passes(val, preds) == \A p \in preds : val \in p

\* SearchExpression::NodeAndIteratorImpl: first predicate in PMGD, the rest in _next
NodeAnd(g, q) ==
  InOrder({n \in DOMAIN g.nodes : g.nodes[n].tag = q.tag /\ Passes(g.nodes[n].val, q.preds)})

LOCAL Take(s, n) == SubSeq(s, 1, Min({n, Len(s)}))

\* _node is never cleared: the last match is returned for as long as one is asked for
Sticky(hits, limit) == [i \in 1..(IF hits = <<>> THEN 0 ELSE limit) |-> hits[Min({i, Len(hits)})]]

\* SearchExpression::NodeOrIteratorImpl: one node, the first, of each predicate
NodeOr(g, q) ==
  LET first(p) == NodeAnd(g, [q EXCEPT !.preds = {p}])
  IN  FlattenSeq([i \in 1..Cardinality(q.preds) |-> Take(first(SetToSeq(q.preds)[i]), 1)])

\* get_neighbors, external: each other end once
Neighbors(g, n, link) ==
  LET kept == {e \in ToSet(g.edges) : Passes(e.val, link.preds)}
  IN  (IF link.dir # "in"  THEN {e.dst : e \in {f \in kept : f.src = n}} ELSE {})
      \cup (IF link.dir # "out" THEN {e.src : e \in {f \in kept : f.dst = n}} ELSE {})

NeighborAnd(g, n, q) ==
  InOrder({m \in Neighbors(g, n, q.link) :
             g.nodes[m].tag = q.tag /\ Passes(g.nodes[m].val, q.preds)})

\* the tag of the neighbour is not looked at
NeighborOr(g, n, q) ==
  InOrder({m \in Neighbors(g, n, q.link) : \E p \in q.preds : g.nodes[m].val \in p})

\* MultiNeighborIteratorImpl: the neighbours of one start node after the other's
MultiNeighbor(g, starts, q) ==
  FlattenSeq([i \in DOMAIN starts |-> NeighborAnd(g, starts[i], q)])

(***************************************************************************)
(* ReusableIterator.                                                       *)
(***************************************************************************)
Whole(list) == [list |-> list, pos |-> 1, todo |-> {}]

\* the constructor fetches the first element and moves the search to the second
Lazy(ids, q) == IF Len(ids) < 2 THEN Whole(ids)
                                ELSE [list |-> SubSeq(ids, 1, 2), pos |-> 1, todo |-> {q}]

\* traverse_all, or next() until the end, continuing the search in the graph as it is now
TraverseAll(g, it) ==
  LET more == UNION {ToSet(NodeAnd(g, q)) : q \in it.todo}
  IN  it.list \o InOrder({n \in more : n > Last(it.list)})

\* the elements from the current one on
Ahead(g, it) == SubSeq(TraverseAll(g, it), it.pos, Len(TraverseAll(g, it)))

Reset_missing(g, it) ==  \* bug: the iterator stays where the traversal left it
  [Whole(TraverseAll(g, it)) EXCEPT !.pos = Len(TraverseAll(g, it)) + 1]

\* after a traversal; reset() goes back to the first element
Reset(g, it) == Whole(TraverseAll(g, it))

(***************************************************************************)
(* NodeEdgeIteratorImpl.  srcs and dsts are sequences of nodes or None.    *)
(***************************************************************************)
EdgesAt(g, n, end) == {e \in DOMAIN g.edges : g.edges[e][end] = n}

\* _next: the matching edges of one start node after the other's
Walk(g, starts, end, kept) ==
  FlattenSeq([i \in DOMAIN starts |-> InOrder(EdgesAt(g, starts[i], end) \cap kept)])

\* bug: the edges are looked up in the wrong direction
NodeEdge_outgoing(g, srcs, dsts, shared, preds) ==
  LET all == {e \in DOMAIN g.edges : Passes(g.edges[e].val, preds)}
      starts == IF srcs = None THEN dsts ELSE IF shared THEN <<Head(srcs)>> ELSE srcs
      kept == {e \in all : srcs = None \/ dsts = None \/ g.edges[e].dst \in ToSet(dsts)}
  IN  IF starts = None THEN InOrder(all)
      ELSE IF EdgesAt(g, Head(starts), "src") = {} THEN <<>>
      ELSE Walk(g, starts, "src", kept)

\* return_iterator and the constructor: nothing is searched when the first start
\* node has no edge; filling the set of destinations uses up a shared iterator
NodeEdge(g, srcs, dsts, shared, preds) ==
  LET all == {e \in DOMAIN g.edges : Passes(g.edges[e].val, preds)}
      starts == IF srcs = None THEN dsts ELSE IF shared THEN <<Head(srcs)>> ELSE srcs
      end == IF srcs = None THEN "dst" ELSE "src"
      kept == {e \in all : srcs = None \/ dsts = None \/ g.edges[e].dst \in ToSet(dsts)}
  IN  IF starts = None THEN InOrder(all)
      ELSE IF EdgesAt(g, Head(starts), end) = {} THEN <<>>
      ELSE Walk(g, starts, end, kept)
=============================================================================
