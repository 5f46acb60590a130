---------------------------- MODULE Descriptors ----------------------------
(***************************************************************************)
(* One descriptor set of the server: the node that stands for it and the   *)
(* nodes of its descriptors in the graph, the index the engines keep in    *)
(* memory behind the handle of DescriptorsManager, and the directory they  *)
(* store it in.  One query runs at a time; it adds its vectors to the      *)
(* index while it is built, and its nodes when its transaction commits.    *)
(***************************************************************************)
EXTENDS Lists

CONSTANTS
  Engines,    \* subset of {"flat", "ivf", "hnsw", "flinng", "dense", "sparse"}
  Vectors,    \* descriptors, of one dimension: a set of integers
  Labels,     \* labels, each the sequence of its words, which are numbers; <<>> is the empty one
  Quorum,     \* votes of a classification
  MaxBatch,   \* bound: descriptors in one AddDescriptor
  MaxDescs    \* bound: descriptors added, and labels

ASSUME DescAssumption ==
  /\ Engines \subseteq {"flat", "ivf", "hnsw", "flinng", "dense", "sparse"}
  /\ Labels \subseteq Seq(Nat) /\ MaxBatch \in Nat

VARIABLES
  engine,   \* VCL::DescriptorSetEngine, fixed
  setNode,  \* the node VD:DESCSET is in the graph
  nodes,    \* the nodes VD:DESC: id, label, vector, and whether the first of its batch
  disk,     \* what is stored under the path of the set, or Absent
  handle,   \* the index behind the handle of the DescriptorsManager, or Absent
  adding,   \* the nodes of the transaction under way
  lossy     \* history: a crash lost what was in memory only, or the index was opened again
            \* by an engine that then numbers from elsewhere

descVars == <<engine, setNode, nodes, disk, handle, adding, lossy>>

Faiss == {"flat", "ivf", "hnsw"}
InMemory == Faiss \cup {"flinng"}
Forgetful == {"flinng", "sparse"}   \* opened with no count of the descriptors, or an old one
Absent == <<>>
Garbage == -7   \* a label id read from beyond the only one there is
NoId == -1

(***************************************************************************)
(* A set: the vectors by id, their label ids (possibly fewer), the map     *)
(* from label ids to labels, the number of descriptors, the cells of the   *)
(* sparse array, whether the buffer of the dense one is up to date, and    *)
(* whether _lock was left locked.                                          *)
(***************************************************************************)
EmptySet == [vecs |-> <<>>, lids |-> <<>>, names |-> <<>>, total |-> 0,
             cells |-> {}, ready |-> engine \in InMemory, locked |-> FALSE]

FirstWord(label) == SubSeq(label, 1, 1)

\* labels.txt is read back word by word
Reread(names) == [i \in DOMAIN names |-> FirstWord(names[i])]

\* the constructor that opens what is stored; FLINNG starts to count again at 0
Opened(d) ==
  [d EXCEPT !.names = Reread(@), !.ready = engine \in InMemory, !.locked = FALSE,
            !.total = IF engine = "flinng" THEN 0 ELSE @,
            !.vecs = IF engine \in InMemory THEN @ ELSE <<>>,
            !.lids = IF engine \in InMemory THEN @ ELSE <<>>]

\* DescriptorsManager::get_descriptors_handler
GetHandle == IF handle = Absent THEN Opened(disk) ELSE handle

\* what store() leaves on disk: TileDB writes the arrays when it adds, here only the labels
Stored(h) ==
  IF engine \in InMemory THEN h ELSE [disk EXCEPT !.names = h.names]

LabelId(names, label) ==
  IF label \in ToSet(names) THEN (CHOOSE i \in DOMAIN names : names[i] = label) - 1
  ELSE Len(names)

\* get_label_id: an unknown label gets the next id
Labelled(h, label) ==
  IF label = <<>> \/ label \in ToSet(h.names) THEN h
  ELSE [h EXCEPT !.names = Append(@, label)]

\* resize() fills with zeros what lies between, and drops what lies behind
WithLabelIds(lids, n) == [i \in 1..n |-> IF i <= Len(lids) THEN lids[i] ELSE 0]

\* the label ids an engine reads for n descriptors when it is given a pointer to one
LabelIds(h, label, n) ==
  [i \in 1..n |-> IF i = 1 THEN LabelId(h.names, label) ELSE Garbage]

AddInMemory_noResize(h, vs, label) ==  \* bug: the label ids are appended, not placed
  [h EXCEPT !.vecs = @ \o vs, !.total = @ + Len(vs),
            !.lids = IF label = <<>> THEN @ ELSE @ \o LabelIds(h, label, Len(vs))]

AddInMemory(h, vs, label) ==
  [h EXCEPT !.vecs = @ \o vs, !.total = @ + Len(vs),
            !.lids = IF label = <<>> THEN @
                     ELSE WithLabelIds(@, h.total) \o LabelIds(h, label, Len(vs))]

OnDisk(h, label, n) ==
  IF label = <<>> THEN [i \in 1..n |-> NoId] ELSE LabelIds(h, label, n)

\* the array and its metadata, then the buffer
AddDense(h, vs, label) ==
  /\ disk' = [disk EXCEPT !.vecs = @ \o vs, !.lids = @ \o OnDisk(h, label, Len(vs)),
                          !.total = h.total + Len(vs)]
  /\ handle' = IF h.ready THEN AddInMemory(h, vs, label)
               ELSE [h EXCEPT !.total = @ + Len(vs)]

\* a cell is found by its vector; the metadata is written before the number of
\* descriptors grows
AddSparse(h, vs, label) ==
  LET lids == OnDisk(h, label, Len(vs))
      new == {[vec |-> vs[i], id |-> h.total + i - 1, lid |-> lids[i]] : i \in
               {i \in DOMAIN vs : \A j \in (i + 1)..Len(vs) : vs[j] # vs[i]}}
  IN  /\ disk' = [disk EXCEPT !.cells = {c \in @ : c.vec \notin ToSet(vs)} \cup new,
                              !.total = h.total]
      /\ handle' = [h EXCEPT !.total = @ + Len(vs)]

\* load_buffer, before a dense set is searched
Buffered(h) == IF engine = "dense" /\ ~h.ready
               THEN [h EXCEPT !.vecs = disk.vecs, !.lids = disk.lids, !.total = disk.total,
                              !.ready = TRUE]
               ELSE h

(***************************************************************************)
(* The commands.                                                           *)
(***************************************************************************)
Idle == adding = {}

DescInit ==
  /\ engine \in Engines
  /\ setNode = FALSE
  /\ nodes = {} /\ adding = {}
  /\ disk = Absent /\ handle = Absent
  /\ lossy = FALSE

\* AddDescriptorSet: the transaction adds the node
AddDescriptorSet ==
  /\ Idle /\ ~setNode
  /\ setNode' = TRUE
  /\ UNCHANGED <<engine, nodes, disk, handle, adding, lossy>>

\* then, with the responses, the index is created and stored
CreateIndex ==
  /\ setNode /\ disk = Absent /\ nodes = {} /\ ~lossy
  /\ disk' = EmptySet
  /\ UNCHANGED <<engine, setNode, nodes, handle, adding, lossy>>

Usable == setNode /\ (handle # Absent \/ disk # Absent)

NewNodes_idAfter(h, vs, label) ==  \* bug: the id is taken after the add
  {[id |-> h.total + i, label |-> label, vec |-> vs[i], first |-> i = 1] : i \in DOMAIN vs}

\* the nodes of a batch
NewNodes(h, vs, label) ==
  {[id |-> h.total + i - 1, label |-> label, vec |-> vs[i], first |-> i = 1] : i \in DOMAIN vs}

\* AddDescriptor, one or a batch, while the query is built
AddDescriptor == Idle /\ Usable /\
  \E vs \in BoundedSeq(Vectors, MaxBatch) \ {<<>>}, label \in Labels :
    LET h == Labelled(GetHandle, label) IN
    /\ h.total + Len(vs) <= MaxDescs /\ Len(h.names) <= MaxDescs
    /\ Cardinality(nodes) + Len(vs) <= MaxDescs /\ Len(h.vecs) + Len(vs) <= MaxDescs
    /\ engine \in InMemory => ~h.locked
    /\ \/ engine \in InMemory /\ handle' = AddInMemory(h, vs, label) /\ UNCHANGED disk
       \/ engine = "dense" /\ AddDense(h, vs, label)
       \/ engine = "sparse" /\ AddSparse(h, vs, label)
    /\ adding' = NewNodes(h, vs, label)
    /\ UNCHANGED <<engine, setNode, nodes, lossy>>

DescCommit ==
  /\ ~Idle
  /\ nodes' = nodes \cup adding
  /\ adding' = {}
  /\ UNCHANGED <<engine, setNode, disk, handle, lossy>>

\* another command of the query fails: the vectors stay in the index
DescAbort ==
  /\ ~Idle
  /\ adding' = {}
  /\ UNCHANGED <<engine, setNode, nodes, disk, handle, lossy>>

\* FindDescriptorSet, with storeIndex
FindDescriptorSet == \E store \in BOOLEAN :
  /\ Idle /\ Usable
  /\ engine \in InMemory => ~GetHandle.locked
  /\ handle' = GetHandle
  /\ disk' = IF store THEN Stored(GetHandle) ELSE disk
  /\ UNCHANGED <<engine, setNode, nodes, adding, lossy>>

\* DescriptorsManager::flush stores every handle and deletes it
Flush == IF handle = Absent THEN disk ELSE Stored(handle)

\* before a backup and when the server stops
StopServer ==
  /\ Idle /\ handle # Absent /\ ~handle.locked
  /\ disk' = Flush
  /\ handle' = Absent
  /\ lossy' = (lossy \/ engine \in Forgetful)
  /\ UNCHANGED <<engine, setNode, nodes, adding>>

DescCrash ==
  /\ setNode
  /\ handle' = Absent /\ adding' = {}
  /\ lossy' = TRUE
  /\ UNCHANGED <<engine, setNode, nodes, disk>>

(***************************************************************************)
(* Searching.  Faiss flat and the TileDB engines compare with every        *)
(* vector, the others with some.                                           *)
(***************************************************************************)
Points(h) == IF engine = "sparse" THEN {<<c.id, c.vec>> : c \in disk.cells}
             ELSE {<<i - 1, h.vecs[i]>> : i \in DOMAIN h.vecs}

Distance(v, w) == (v - w) * (v - w)

Sorted(S, v) == {s \in SetToSeqs(S) : \A i \in 2..Len(s) :
                   Distance(s[i-1][2], v) <= Distance(s[i][2], v)}

Padded(s, k) == [i \in 1..k |-> IF i <= Len(s) THEN s[i][1] ELSE NoId]

Undefined == <<>>   \* partial_sort beyond the end of what there is

Search(h, v, k) ==
  IF engine \in {"dense", "sparse"} /\ k > Cardinality(Points(h)) THEN {Undefined}
  ELSE {Padded(s, k) : s \in UNION {Sorted(S, v) : S \in
          IF engine \in {"ivf", "hnsw", "flinng"} THEN SUBSET Points(h) ELSE {Points(h)}}}

CellLabel(id) == (CHOOSE c \in disk.cells : c.id = id).lid

\* the label ids of the neighbours vote; the first to reach the most votes wins
Vote(h, ids) ==
  LET lid(i) == IF engine = "sparse" THEN CellLabel(ids[i]) ELSE h.lids[ids[i] + 1]
      found == {i \in DOMAIN ids : ids[i] >= 0}
      votes(i) == Cardinality({j \in found : j <= i /\ lid(j) = lid(i)})
  IN  IF found = {} THEN NoId
      ELSE lid(CHOOSE i \in found : \A j \in found :
                 votes(j) < votes(i) \/ (votes(j) = votes(i) /\ i <= j))

\* label_ids.at() of a descriptor without one
Throws(h, ids) == engine # "sparse" /\ \E i \in DOMAIN ids : ids[i] >= Len(h.lids)

LabelOf(h, lid) == IF lid \in 0..(Len(h.names) - 1) THEN h.names[lid + 1] ELSE <<>>

\* ClassifyDescriptor: flushes when it is built, searches the stored set when it answers
ClassifyDescriptor == \E v \in Vectors :
  /\ Idle /\ setNode /\ Flush # Absent
  /\ handle # Absent => ~handle.locked
  /\ disk' = Flush
  /\ LET h == Buffered(Opened(Flush)) IN
     \E ids \in Search(h, v, Quorum) :
       handle' = [h EXCEPT !.locked = engine \in InMemory /\ Throws(h, ids)]
  /\ lossy' = (lossy \/ (engine \in Forgetful /\ handle # Absent))
  /\ UNCHANGED <<engine, setNode, nodes, adding>>

(***************************************************************************)
(* FindDescriptor with k_neighbors: one search, then for every neighbour a *)
(* query for its node.  A query that finds nothing leaves a null value,    *)
(* whose id reads as 0.  want: "_id" or "_distance" is asked for.          *)
(***************************************************************************)
Null == [id |-> 0, null |-> TRUE]

Trimmed(ids) == Filtered(ids, Nat)

NodeOf_anyLabel(id, label) ==  \* bug: the query for a neighbour leaves out the constraints
  IF \E n \in nodes : n.id = id THEN [id |-> id, null |-> FALSE] ELSE Null

\* the answers of the queries by id, for a label that must match or <<>> for any
NodeOf(id, label) ==
  IF \E n \in nodes : n.id = id /\ label \in {<<>>, n.label}
  THEN [id |-> id, null |-> FALSE] ELSE Null

Responses(ids, label) == [i \in DOMAIN ids |-> NodeOf(ids[i], label)]

\* for each neighbour the first answer with its id
Merge(ids, label) ==
  LET ents == Responses(ids, label)
      match(i) == {j \in DOMAIN ents : ents[j].id = ids[i]}
      kept == InOrder({i \in DOMAIN ids : match(i) # {}})
  IN  [n \in DOMAIN kept |-> ents[CHOOSE j \in match(kept[n]) :
                                    \A l \in match(kept[n]) : j <= l]]

\* an entity without members removes them all
Nearest(ids, label, want) ==
  LET found == Merge(Trimmed(ids), label)
  IN  IF want = {} /\ found # <<>> THEN <<>> ELSE found

\* what remains of FindDescriptor in the state: the handle, and the buffer when it searches
FindDescriptor == \E knn \in BOOLEAN :
  /\ Idle /\ Usable
  /\ handle' = IF knn THEN Buffered(GetHandle) ELSE GetHandle
  /\ UNCHANGED <<engine, setNode, nodes, disk, adding, lossy>>

DescNext ==
  \/ AddDescriptorSet \/ CreateIndex \/ AddDescriptor \/ DescCommit \/ DescAbort
  \/ FindDescriptorSet \/ FindDescriptor \/ ClassifyDescriptor \/ StopServer \/ DescCrash

DescSpec == DescInit /\ [][DescNext]_descVars
(***************************************************************************)
(* Properties.                                                             *)
(***************************************************************************)
Held == IF handle = Absent THEN disk ELSE handle

\* The id in the node of a descriptor is that of its vector in the index, also when
\* transactions were aborted, and no other node has it: for Faiss until a crash, also when the
\* index was stored and opened again; for FLINNG and the sparse engine until it is opened
\* again; for the dense engine across crashes.
DescriptorIds ==
  LET vecs == IF engine = "dense" THEN disk.vecs ELSE Held.vecs IN
  ~lossy \/ engine = "dense" => \A n \in nodes \cup adding :
    /\ \A m \in nodes \cup adding : m.id = n.id => m = n
    /\ engine # "sparse" => n.id < Len(vecs) /\ vecs[n.id + 1] = n.vec

\* The label given to a descriptor, the first of its batch, is the one the index has for
\* its id, up to the first word, which is what a reload keeps: for Faiss and the dense engine
\* until a crash, for FLINNG until the index is opened again, when its ids start anew.
LabelKept ==
  LET names == IF handle = Absent THEN Reread(disk.names) ELSE handle.names
      lids == IF engine = "dense" /\ (handle = Absent \/ ~handle.ready)
              THEN disk.lids ELSE Held.lids
  IN  ~lossy /\ engine # "sparse" => \A n \in nodes \cup adding :
        n.first /\ n.label # <<>> =>
          /\ n.id < Len(lids)
          /\ FirstWord(LabelOf([names |-> names], lids[n.id + 1])) = FirstWord(n.label)

\* The answer of FindDescriptor with k_neighbors lists, in the order of the search, the
\* neighbours whose node is committed and meets the constraints, whatever was aborted or
\* filtered out; descriptor 0 is listed whenever it was found, and its entry alone may be null
\* (the missing node of a neighbour also has the id 0), if a neighbour before it lacks its
\* node or it does itself.
KnnAnswer ==
  Idle /\ Usable => \A v \in Vectors, k \in 1..2, label \in Labels :
    \A ids \in Search(Buffered(GetHandle), v, k) \ {Undefined} :
      LET found == Filtered(ids, Int \ {NoId})
          kept == {n.id : n \in {m \in nodes : label \in {<<>>, m.label}}}
          listed == Filtered(found, kept \cup {0})
          standsIn == \E i, j \in DOMAIN found :
                        found[i] = 0 /\ found[j] \notin kept /\ ~(0 \in kept /\ i < j)
          answer == Nearest(ids, label, {"_id"})
      IN  /\ DOMAIN answer = DOMAIN listed
          /\ \A i \in DOMAIN listed :
               /\ answer[i].id = listed[i]
               /\ answer[i].null => listed[i] = 0 /\ standsIn
=============================================================================
