------------------------------ MODULE GraphQuery ------------------------------
(***************************************************************************)
(* The graph commands of one connection: RSCommand and PMGDQuery build     *)
(* PMGD commands, PMGDQueryHandler executes them one after the other in    *)
(* one transaction.  Commands speak about nodes and edges through the      *)
(* integer references of the query (_ref), which the handler resolves with *)
(* the iterators it caches in _cached_nodes and _cached_edges.             *)
(*                                                                         *)
(* A query is built completely before it runs; what building decides (the  *)
(* references get_available_reference hands out) depends only on the       *)
(* commands before, so a command is built and run in one step.  Deletion,  *)
(* files and other connections are the subject of QueryTx.                 *)
(***************************************************************************)
EXTENDS GraphSearch

CONSTANTS
  Refs,          \* references the client uses
  AutoRef,       \* REFERENCE_RANGE_START
  Tags, Vals,    \* classes of nodes, values of the property
  AskedVals,     \* bound: those of the values that constraints ask for
  Dirs,          \* directions of links
  MaxNodes, MaxEdges, MaxCmds, MaxQueries  \* bounds

NoRef == -1

ASSUME RefsApart == \A r \in Refs : 0 <= r /\ r < AutoRef

VARIABLES
  graph,         \* [nodes, edges] as the open transaction sees it
  cached,        \* [nodes, edges]: reference -> iterator
  tx,            \* "idle", "open", "stuck": the worker thread does not come back
  saved,         \* the graph before the transaction
  auto,          \* the next reference of get_available_reference
  query, cmds    \* queries so far, commands of this one

vars == <<graph, cached, tx, saved, auto, query, cmds>>

NoRefs == [nodes |-> <<>>, edges |-> <<>>]

\* a connection to a database that has been used before
Init ==
  /\ graph \in [nodes : {<<[tag |-> 1, val |-> 0], [tag |-> 1, val |-> 1]>>},
                edges : {<<>>, <<[src |-> 2, dst |-> 1, val |-> 1]>>}]
  /\ cached = NoRefs
  /\ tx = "idle"
  /\ saved = graph
  /\ auto = AutoRef
  /\ query = 0
  /\ cmds = 0

(***************************************************************************)
(* What a PMGD command does to s = [graph, cached]: the new s, the error   *)
(* code and the elements found.                                            *)
(***************************************************************************)
Answer(s, code, ids) == [s |-> s, code |-> code, ids |-> ids]

Cache(s, kind, ref, it) ==
  IF ref = NoRef THEN s
  ELSE [s EXCEPT !.cached[kind] = [r \in DOMAIN @ \cup {ref} |-> IF r = ref THEN it ELSE @[r]]]

\* the iterator of a reference has been used and is reset
Used(s, ref) ==
  IF ref \in DOMAIN s.cached.nodes
    THEN [s EXCEPT !.cached.nodes[ref] = Reset(s.graph, @)] ELSE s

\* the elements a reference stands for
Resolve(s, ref) == Ahead(s.graph, s.cached.nodes[ref])

\* PMGDQueryHandler::query_node, for And searches
QueryNode(s, ref, q, unique, results) ==
  IF ref \in DOMAIN s.cached.nodes THEN Answer(s, "Error", <<>>)
  ELSE IF q.link # None /\ q.link.ref \notin DOMAIN s.cached.nodes THEN Answer(s, "Error", <<>>)
  ELSE LET ids == IF q.link = None THEN NodeAnd(s.graph, q)
                  ELSE MultiNeighbor(s.graph, Resolve(s, q.link.ref), q)
           t == IF q.link = None THEN s ELSE Used(s, q.link.ref)
           it == IF q.link = None /\ ~results THEN Lazy(ids, q) ELSE Whole(ids)
       IN  CASE ids = <<>> /\ ref # NoRef -> Answer(t, "Empty", <<>>)
             [] unique /\ Len(ids) > 1 -> Answer(t, "NotUnique", <<>>)
             [] OTHER -> Answer(Cache(t, "nodes", ref, it), "Success", ids)

\* PMGDQueryHandler::query_edge: an undefined reference is no restriction
QueryEdge(s, ref, src, dst, preds, unique) ==
  LET ends(r) == IF r \in DOMAIN s.cached.nodes THEN Resolve(s, r) ELSE None
      ids == NodeEdge(s.graph, ends(src), ends(dst), src = dst, preds)
      t == Used(Used(s, src), dst)
  IN  IF ref \in DOMAIN s.cached.edges THEN Answer(s, "Error", <<>>)
      ELSE CASE ids = <<>> /\ ref # NoRef -> Answer(t, "Empty", <<>>)
             [] unique /\ Len(ids) > 1 -> Answer(t, "NotUnique", <<>>)
             [] OTHER -> Answer(Cache(t, "edges", ref, Whole(ids)), "Success", ids)

\* PMGDQueryHandler::add_node; preds is None for an unconditional add
AddNode(s, ref, tag, val, preds) ==
  LET found == QueryNode(s, ref, [tag |-> tag, preds |-> preds, link |-> None], TRUE, TRUE)
      grown == [s EXCEPT !.graph.nodes = Append(@, [tag |-> tag, val |-> val])]
      added == Answer(Cache(grown, "nodes", ref, Whole(<<Len(grown.graph.nodes)>>)),
                      "Success", <<Len(grown.graph.nodes)>>)
  IN  IF ref \in DOMAIN s.cached.nodes THEN Answer(s, "Error", <<>>)
      ELSE IF preds = None THEN added
      ELSE CASE found.code = "Success" -> [found EXCEPT !.code = "Exists"]
             [] found.code = "Empty" -> added
             [] OTHER -> found

AddEdge_noReset(s, ref, src, dst, val) ==  \* bug: the destinations are walked once only
  LET Ends == Resolve(s, src)
      Dsts == Resolve(s, dst)
      new == [j \in DOMAIN Dsts |-> [src |-> Head(Ends), dst |-> Dsts[j], val |-> val]]
      t == [Used(Used(s, src), dst) EXCEPT !.graph.edges = @ \o new]
      ids == [i \in DOMAIN new |-> Len(s.graph.edges) + i]
  IN  IF \/ ref \in DOMAIN s.cached.edges
         \/ ~({src, dst} \subseteq DOMAIN s.cached.nodes) THEN Answer(s, "Error", <<>>)
      ELSE IF Ends = <<>> \/ Dsts = <<>> THEN Answer(s, "Empty", <<>>)
      ELSE IF src = dst /\ Len(Ends) > 1 THEN Answer(s, "Spins", <<>>)
      ELSE Answer(Cache(t, "edges", ref, Whole(ids)), "Success", ids)

\* PMGDQueryHandler::add_edge; "Spins": both loops run over one iterator, and the
\* inner one takes the outer one back to the start
AddEdge(s, ref, src, dst, val) ==
  LET Ends == Resolve(s, src)
      Dsts == Resolve(s, dst)
      new == FlattenSeq([i \in DOMAIN Ends |->
               [j \in DOMAIN Dsts |-> [src |-> Ends[i], dst |-> Dsts[j], val |-> val]]])
      t == [Used(Used(s, src), dst) EXCEPT !.graph.edges = @ \o new]
      ids == [i \in DOMAIN new |-> Len(s.graph.edges) + i]
  IN  IF \/ ref \in DOMAIN s.cached.edges
         \/ ~({src, dst} \subseteq DOMAIN s.cached.nodes) THEN Answer(s, "Error", <<>>)
      ELSE IF Ends = <<>> \/ Dsts = <<>> THEN Answer(s, "Empty", <<>>)
      ELSE IF src = dst /\ Len(Ends) > 1 THEN Answer(s, "Spins", <<>>)
      ELSE Answer(Cache(t, "edges", ref, Whole(ids)), "Success", ids)

\* set_property on every element; an edge that was rolled back is not there to change
SetVal(elements, ids, val) ==
  [i \in DOMAIN elements |-> IF i \in ToSet(ids) THEN [elements[i] EXCEPT !.val = val]
                                                 ELSE elements[i]]

\* PMGDQueryHandler::update_node; found is the answer of the query in the command
UpdateNode(s, ref, val, found, foundRef) ==
  LET t == IF ref \in DOMAIN s.cached.nodes THEN s ELSE found.s
      r == IF ref \in DOMAIN s.cached.nodes THEN ref ELSE foundRef
  IN  IF ref \notin DOMAIN s.cached.nodes /\ found.code # "Success" THEN found
      ELSE Answer([Used(t, r) EXCEPT !.graph.nodes = SetVal(@, Resolve(t, r), val)],
                  "Success", Resolve(t, r))

\* PMGDQueryHandler::update_edge
UpdateEdge(s, ref, val, found, foundRef) ==
  LET t == IF ref \in DOMAIN s.cached.edges THEN s ELSE found.s
      r == IF ref \in DOMAIN s.cached.edges THEN ref ELSE foundRef
  IN  IF ref \notin DOMAIN s.cached.edges /\ found.code # "Success" THEN found
      ELSE Answer([t EXCEPT !.graph.edges = SetVal(@, t.cached.edges[r].list, val)],
                  "Success", t.cached.edges[r].list)

(***************************************************************************)
(* The commands of a client.                                               *)
(***************************************************************************)
State == [graph |-> graph, cached |-> cached]
AnyRef == Refs \cup {NoRef}
PredSets == {{}} \cup {{{v}} : v \in AskedVals}
Constraints == PredSets \cup {None}
Links == [ref : Refs, dir : Dirs, preds : PredSets]

\* PMGDQuery's constructor and TxBegin
BeginTx ==
  /\ tx = "idle" /\ query < MaxQueries
  /\ tx' = "open"
  /\ saved' = graph
  /\ auto' = AutoRef
  /\ query' = query + 1
  /\ cmds' = 0
  /\ UNCHANGED <<graph, cached>>

\* the end of process_queries: the iterators of nodes are deleted, those of edges stay
EndTx(edges) == /\ tx' = "idle"
                /\ cached' = [nodes |-> <<>>, edges |-> edges]
                /\ cmds' = 0
                /\ UNCHANGED <<saved, auto, query>>

\* error_cleanup: the transaction is deleted without a commit
Abort(s) == EndTx(s.cached.edges) /\ graph' = saved

TxCommit == tx = "open" /\ cmds > 0 /\ EndTx(cached.edges) /\ UNCHANGED graph

\* process_query: only the results of the updates are dropped
Dropped == {"UpdateEntity", "UpdateConnection"}

\* process_queries on the answer to a command of the open transaction
Respond(cmd, r) ==
  /\ Len(r.s.graph.nodes) <= MaxNodes /\ Len(r.s.graph.edges) <= MaxEdges
  /\ CASE r.code = "Spins" ->
            tx' = "stuck" /\ UNCHANGED <<graph, cached, saved, query, cmds>>
       [] r.code \in {"Success", "Exists"} \/ (r.code # "Spins" /\ cmd \in Dropped) ->
            /\ graph' = r.s.graph
            /\ cached' = r.s.cached
            /\ cmds' = cmds + 1
            /\ UNCHANGED <<tx, saved, query>>
       [] OTHER -> Abort(r.s)

\* AddEntity::construct_protobuf without a link
AddEntity == \E ref \in AnyRef, tag \in Tags, val \in Vals, preds \in Constraints :
  /\ Respond("AddEntity", AddNode(State, ref, tag, val, preds))
  /\ UNCHANGED auto

\* with a link: the node gets a reference, and an edge follows in the same group
AddLinked == \E ref \in AnyRef, tag \in Tags, val \in Vals, preds \in Constraints,
                other \in Refs, out \in BOOLEAN :
  LET own == IF ref = NoRef THEN auto ELSE ref
      added == AddNode(State, own, tag, val, preds)
      ends == IF out THEN <<own, other>> ELSE <<other, own>>
  IN  /\ Respond("AddEntity", IF added.code \in {"Success", "Exists"}
                                 THEN AddEdge(added.s, NoRef, ends[1], ends[2], 0) ELSE added)
      /\ auto' = IF ref = NoRef THEN auto + 1 ELSE auto

NoSearch == Answer(State, "Error", <<>>)

\* UpdateEntity::construct_protobuf with constraints
UpdateEntity == \E ref \in AnyRef, tag \in Tags, val \in Vals, preds \in PredSets,
                   unique \in BOOLEAN :
  LET own == IF ref = NoRef THEN auto ELSE ref
      q == [tag |-> tag, preds |-> preds, link |-> None]
  IN  /\ Respond("UpdateEntity",
                 UpdateNode(State, ref, val, QueryNode(State, own, q, unique, TRUE), own))
      /\ auto' = IF ref = NoRef THEN auto + 1 ELSE auto

\* without: only what the reference stands for
UpdateByRef == \E ref \in AnyRef, val \in Vals :
  /\ \/ Respond("UpdateEntity", UpdateNode(State, ref, val, NoSearch, ref))
     \/ Respond("UpdateConnection", UpdateEdge(State, ref, val, NoSearch, ref))
  /\ UNCHANGED auto

\* AddConnection::construct_protobuf
AddConnection == \E ref, src, dst \in AnyRef, val \in Vals :
  /\ Respond("AddConnection", AddEdge(State, ref, src, dst, val))
  /\ UNCHANGED auto

\* UpdateConnection::construct_protobuf with constraints
UpdateConnection == \E ref, src, dst \in AnyRef, val \in Vals, preds \in PredSets,
                       unique \in BOOLEAN :
  LET own == IF ref = NoRef THEN auto ELSE ref
      found == QueryEdge(State, own, src, dst, preds, unique)
  IN  /\ Respond("UpdateConnection", UpdateEdge(State, ref, val, found, own))
      /\ auto' = IF ref = NoRef THEN auto + 1 ELSE auto

\* FindEntity::construct_protobuf; results are wanted or only the reference
FindEntity == \E ref \in AnyRef, tag \in Tags, preds \in PredSets, link \in Links \cup {None},
                 unique, results \in BOOLEAN :
  /\ Respond("FindEntity", QueryNode(State, ref, [tag |-> tag, preds |-> preds, link |-> link],
                                     unique, results))
  /\ UNCHANGED auto

\* an array in the constraints makes it an Or search: it ends at a limit only, and
\* when nothing matches it is the uninitialised _node that decides
FindEntityOr == \E tag \in Tags, link \in Links \cup {None}, limit \in 0..2, garbage \in BOOLEAN :
  LET q == [tag |-> tag, preds |-> {{v} : v \in Vals}, link |-> link]
      hits == IF link = None THEN NodeOr(graph, q)
              ELSE NeighborOr(graph, Head(Resolve(State, link.ref)), q)
      code == IF (IF hits = <<>> THEN garbage ELSE limit = 0) THEN "Spins" ELSE "Success"
  IN  /\ link # None => link.ref \in DOMAIN cached.nodes
      /\ Respond("FindEntity", Answer(IF link = None THEN State ELSE Used(State, link.ref),
                                      code, Sticky(hits, limit)))
      /\ UNCHANGED auto

\* FindConnection::construct_protobuf
FindConnection == \E ref, src, dst \in AnyRef, preds \in PredSets, unique \in BOOLEAN :
  /\ Respond("FindConnection", QueryEdge(State, ref, src, dst, preds, unique))
  /\ UNCHANGED auto

\* an Or search of edges is refused
FindConnectionOr == Respond("FindConnection", NoSearch) /\ UNCHANGED auto

Next ==
  \/ BeginTx \/ TxCommit
  \/ /\ tx = "open" /\ cmds < MaxCmds
     /\ \/ AddEntity \/ AddLinked \/ UpdateEntity
        \/ AddConnection \/ UpdateConnection \/ UpdateByRef
        \/ FindEntity \/ FindEntityOr \/ FindConnection \/ FindConnectionOr

Spec == Init /\ [][Next]_vars

(***************************************************************************)
(* Properties.                                                             *)
(***************************************************************************)

\* The nodes and edges that a search is asked for.
Meant(ref) == ToSet(TraverseAll(graph, cached.nodes[ref]))
Wanted(q) == {n \in DOMAIN graph.nodes : graph.nodes[n].tag = q.tag /\ Passes(graph.nodes[n].val, q.preds)}
Linked(q) == {n \in Wanted(q) : \E e \in ToSet(graph.edges) :
  /\ Passes(e.val, q.link.preds)
  /\ \/ q.link.dir # "in" /\ e.src \in Meant(q.link.ref) /\ e.dst = n
     \/ q.link.dir # "out" /\ e.dst \in Meant(q.link.ref) /\ e.src = n}

\* Whatever commands used a reference before, a FindEntity finds exactly the nodes
\* that match, and with a link exactly those linked to some node of the reference
\* (the iterators behind the references are back at their start each time).
FindExact == tx = "open" =>
  \A tag \in Tags, preds \in PredSets,
     link \in {None} \cup {l \in Links : l.ref \in DOMAIN cached.nodes} :
    LET q == [tag |-> tag, preds |-> preds, link |-> link]
    IN  ToSet(QueryNode(State, NoRef, q, FALSE, TRUE).ids) =
          IF link = None THEN Wanted(q) ELSE Linked(q)

\* A FindConnection returns only edges that match and run between the two references,
\* and all of them as long as the references differ and the first start node has an
\* edge at all: the search gives up when it has none (PMGDIterators.h:238).
EdgesExact == tx = "open" =>
  \A src, dst \in {NoRef} \cup DOMAIN cached.nodes, preds \in PredSets :
    LET found == ToSet(QueryEdge(State, NoRef, src, dst, preds, FALSE).ids)
        wanted == {e \in DOMAIN graph.edges :
                     /\ Passes(graph.edges[e].val, preds)
                     /\ src # NoRef => graph.edges[e].src \in Meant(src)
                     /\ dst # NoRef => graph.edges[e].dst \in Meant(dst)}
        start == CASE src # NoRef -> EdgesAt(graph, Head(Resolve(State, src)), "src")
                   [] src = NoRef /\ dst # NoRef -> EdgesAt(graph, Head(Resolve(State, dst)), "dst")
                   [] OTHER -> DOMAIN graph.edges
    IN  /\ found \subseteq wanted
        /\ (src # dst \/ src = NoRef) /\ start # {} => found = wanted

\* How often a reference stands for a node: a search over a link finds a node once for
\* each of the nodes it is linked to.
Found(ref) == TraverseAll(graph, cached.nodes[ref])
Times(ref, n) == Cardinality({i \in DOMAIN Found(ref) : Found(ref)[i] = n})

\* AddConnection joins each two nodes as often as the one reference stands for the one
\* and the other reference for the other, so once where no search found them twice, and
\* joins no others; also when it resolves the references lazily in the middle of a
\* transaction, when other commands walked them before, and when both are the same
\* reference of one node.  (With the same reference of several nodes it does not end.)
ConnectsEveryPair == tx = "open" =>
  \A src, dst \in DOMAIN cached.nodes, val \in Vals : src # dst \/ Len(Found(src)) = 1 =>
    LET edges == AddEdge(State, NoRef, src, dst, val).s.graph.edges
        new == DOMAIN edges \ DOMAIN graph.edges
    IN  \A u, v \in DOMAIN graph.nodes :
          Cardinality({e \in new : edges[e].src = u /\ edges[e].dst = v})
            = Times(src, u) * Times(dst, v)
=============================================================================
