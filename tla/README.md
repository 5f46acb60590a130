# A verification development for VDMS

VDMS stores visual data: a property graph (PMGD) holds metadata, files and
TileDB arrays hold images, videos, blobs and descriptors, and clients send JSON
queries over TCP. This directory holds TLA+ models of the server, the TLC
configurations that check them on small instances, and TLAPS proofs.

## 1. Inventory

Paths are relative to the repository; `src/` is its source directory.

| Component | State | Operations | Interacts with |
|---|---|---|---|
| Server threads (`src/vdms.cc`, `src/Server.cc`) | `shutdown` flag | accept loop, autodelete loop, replication loop, signal handler, destructor | connection pool, query handlers |
| Connection pool (`src/CommunicationManager.cc`) | `_workq`, `_conn_list`, `_shutdown`, the threads | `process_queue`, `add_connection`, `shutdown`, destructor | sockets, query handlers |
| Messages (`utils/src/comm/`, `src/QueryMessage.cc`), clients (`client/`) | socket, TLS session, buffer limit | connect, accept, send and receive length-prefixed messages | pool threads, clients |
| PMGD query handler (`src/QueryHandlerPMGD.cc`, `src/QueryHandlerBase.cc`) | logs of files written, the answer | `process_query`, `cleanup_query`, autodelete and autoreplicate runs | commands, query builder, graph transactions |
| Commands (`src/*Command.cc`) | one shared object per command | `construct_protobuf` (before the transaction), `construct_responses` (after it) | VCL storage, query builder, descriptor manager |
| Query builder (`src/PMGDQuery.cc`) | list of graph commands, deletion flag, references | `run`, `AddNode`, `QueryNode`, `AddEdge`, ... | graph transactions |
| Graph transactions (`src/PMGDQueryHandler.cc`) | open transaction, cached references; *static*: expiration queue, list of files to clean up | `process_queries` and one function per graph command | PMGD (external), disk |
| Graph iterators, search expressions (`src/PMGDIterators.*`, `src/SearchExpression.*`) | position in a traversal, elements already fetched | `next`, `reset`, `traverse_all`, neighbours, edges of nodes | PMGD |
| Expiration queue (`src/AutoDeleteNode.*`) | sorted list of (timestamp, node pointer) | insert, delete by node, pop expired | graph transactions, autodelete thread |
| Bounding boxes (`src/BoundingBoxCommand.cc`) | nodes with rectangles, edges to images | add, update, find, with pixels | query builder, images |
| Event loops (`src/VideoLoop.cc`, `src/ImageLoop.cc`) | two queues, flags, result map | enqueue, local thread, remote thread, wait | Find commands, remote functions |
| Descriptor sets (`src/DescriptorsManager.cc`, `src/DescriptorsCommand.cc`, `src/vcl/*DescriptorSet*`) | loaded sets; per set: index, labels, locks, directory | add, search, classify, store, flush | graph transactions (a set's node), disk |
| Neo4j backend (`src/BackendNeo4j.cc`, `src/QueryHandlerNeo4j.cc`, `src/Neo4JHandlerCommands.cc`, `src/OpsIOCoordinator.cc`) | pool of connections, their transactions | get, put, open, commit, store and fetch images | Neo4j, object store (external) |
| Image objects (`src/vcl/Image.cc`), TileDB images (`src/vcl/TDBImage.cc`, `TDBObject.cc`) | queue of operations, pixel data, size and tiles | store, read, delete, operations | OpenCV, TileDB (external) |
| Video objects (`src/vcl/Video.cc`) | queue of operations, files of the stages | store, `perform_operations`, `get_encoded` | OpenCV, disk, remote functions |
| Key frame parser and decoder (`src/vcl/KeyFrame.cc`) | intervals, demuxer position, last frame consumed | parse, set key frames, decode a list of frames | libav (external) |
| Remote storage (`src/vcl/RemoteConnection.cc`) | connection to a bucket | write, read | AWS (external) |
| Configuration, timers, statistics, remote functions, distributed senders | none shared with the above | - | - |

What is hard here: pool threads and the autodelete thread run transactions at the
same time over static containers without locks; a query touches the disk
before, during and after its transaction, and can fail at each point; the
shutdown walks a list that other threads change; the event loops agree that
work is done through flags; descriptor indexes change outside the transaction; references
of a query are iterators that every use moves and must take back; operations on
media are cut into stages, and an operation that fails is often swallowed; what a
codec, a TLS stream or a remote service returns depends on the calls before.
`PROJECT.json` lists each hazard at its line, under "hazards".

## 2. Modules

### CommManager

The pool threads, the request thread and the main thread during shutdown, one
step per critical section. `WorkerSleep/Exit/Pop` are the three outcomes of
`_cv.wait` in `process_queue`, `WorkerEnlist/Leave/Release` the life of a
connection, `RequestPush/Notify` the two halves of `add_connection` (the notify
is outside the lock), `MainSetFlag` to `MainDestroy` the steps of
`~Server`. The destructor's walk (`Walk`, `WalkFreed`, `WalkEnd`) takes no lock,
so pool threads may insert and erase between its turns; reading an erased
element may continue the walk anywhere or end it. `process_connection` is
abstracted to serving until the socket reports an error, which it does once the
client closed it or the destructor shut it down. The main thread also joins the
autodelete and replication threads, which share nothing with the pool; the
model joins only the request thread.

Properties: `OneOwner`, `NoLostConnection`, `ListedAreServed`, `PoisonStays`,
the refinement `Promise`, and the liveness properties `NoIdleThreadWhileQueued` (no lost wakeup) and
`ShutdownCompletes`.

Fairness: weak fairness of each pool thread, of the request thread outside
`accept()`, and of the main thread: the operating system runs every thread that
can run. Nothing is assumed of clients or of the operator. Weak fairness is
enough because no two threads compete for a step that one could be denied for
ever: each lock is held for one step.

Refinement: `ConnService` says what the pool promises without locks, program counters,
list or shutdown steps: connections wait in one line in the order of `accept()`,
an attendant serves one at a time and each only once, and nobody joins after the line
was closed. The mapping (`Service`) reads the line as `_workq` with the connection the
request thread has in hand behind it, and a thread as serving from the pop to the
`delete`; so `Promise` fails if a push goes to the wrong end, a pop does not remove,
or a thread consumes the NULL. Sleeping, notifying, the list and the walk are stutters.

Bounds: 2 threads and 3 connections, so that connections wait while all threads
are busy, threads sleep while others serve, and the walk meets two elements
while a third arrives.

### QueryTx

Queries of concurrent workers (pool threads and the autodelete thread) from the
first command to the answer: files stored while commands are constructed
(`Construct*`, `Store*`), the graph transaction command by command (`RunTx`,
`Exec*`, `Expire*`, `TxCommit`, `TxFail`, `Abort`), the answer and the cleanup
of deleted files (`Respond*`), and crashes (`Crash`, and the two paths on which an
exception leaves the handler and ends the server). The five shared variables
are the graph, the disk, the names handed out, the expiration queue and the
static list of files to clean up. A media node is identified with its file.

PMGD is external and modelled from its use: a transaction's writes are visible
to itself and locked for others, a conflicting access throws, an uncommitted
transaction is undone. An update of the unsynchronised queue while another
transaction runs may lose or keep any entry (`UpdateQueue`); `raced` records
which, so that the properties say what holds apart from the data race.

Properties: `AckedDurable`, `ExpiringQueued`, `QueueAlive` (entries point to live
nodes, but for those that an abort, an earlier stray or the data race left behind). That
a cleanup removes every file of an aborted query is not among them: `cleanup_query` may
meet the array of a TileDB image twice, the second deletion throws and the rest of its
log stays; the model has this (`Abort`). Bounds: two workers, two queries of two commands
over a TileDB image, a video and a blob, and one crash at any step. Two commands are
enough for a query that adds and then finds, expires or fails, and for a log that names
a file twice; the second worker's query meets the first at every step, before and after
its answer.

### ExpirationQueue

The sorted list behind `_expiration`, in detail: `AddExpiring` inserts
(`insert_into_queue`, `InsertsAt` says where), `DeleteResult` erases a node of a
query with `_deletion` (`delete_by_value`), `DeleteExpired` and `AutoDelete` start
a purge that takes entries from the front (`ExpireFront`, `ExpireDangling`,
`ExpireDone`), `UpdateExpiration` writes the property and leaves the list alone,
`Commit` and `Abort` end the transaction, `Crash` loses the list, and a start
rebuilds it (`ScanInsert`, `ScanDone`) from images and videos and purges once
before it serves. `graph` and `committed` are the nodes inside and outside the open
transaction, a node being its value of `_expiration`. Transactions run one at
a time; QueryTx has their races.

List and graph separate in three ways that are the code's own: an abort undoes
the graph and not the list, an update writes the graph and not the list, and a
restart does not look for expiring nodes that are no images or videos. The
history variable `loose` collects the nodes concerned (`touched` and `moved`
are those of the open transaction), so that `ListMatchesGraph` and `PurgeExact` can
say what holds of all others.

Fairness: a transaction ends, loops go on, time passes (weak fairness). The
autodelete thread gets strong fairness: it wakes up again and again whatever
clients do, but in this model it can be shut out while a client's
transaction is open, which is an effect of running one transaction at a time.

Bounds: two slots, one of which is a media slot; a clock of three seconds; a list of
up to three entries, so that an insertion can go before the front, between two entries
and to the end, and a dangling entry can stand before a good one (aborted insertions
leave entries behind, that is why two slots fill three places); one restart.

`ExpiredIsDeleted` promises nothing while an entry of an aborted node is in the list: a
purge that meets it may fail each time, and everything behind it waits for the next start.
The model has this; the code has nothing that would remove the entry earlier.

### EventLoop

`VideoLoop`: the handler of FindVideo (`Send` to `Answer`, then the destructor
`Destroy` to `JoinRemote`), the local thread (`Local*`) and the remote thread
(`Remote*`). Every access to a flag or a queue is a step of its own, in the order
of the code; in particular the end-of-batch test of the local thread reads
`_remote_running` and the lengths of both queues one after the other. Booleans
shared without synchronisation are read and written as if atomic. The map of
results is shared too: while the remote thread inserts, a write of the local
thread may get lost, and `torn` records that it happened. All videos of a query
have the same operations; `left` counts the remote ones a video still has. A
destructor that finds no entry in the map may end the process (`crashed`).

Fairness: each thread runs, and remote services answer, with success or not.

Bounds: three videos (a first, a middle and a last one of a batch) and up to two
remote operations (so that a video comes back and is passed on again) in
`video_loop`; two and one are enough for the counterexample of `video_stop`.

### The libraries: Parts and its modules

The modules below share no state with each other. (They take two operators on
ordered lists from `Lists`.) `Parts` puts them side by side: a
behaviour chooses one (`part`) of those the constant `Driven` names and drives it, the
others stay as they started, so the states are the sum of theirs and not the product. Two
runs drive those that search and those that carry media and messages. None of the safety
properties needs fairness, and every part stops at its bounds, so deadlock is not checked.

**GraphSearch, GraphQuery.** `GraphSearch` has the graph, the search iterators and
the reusable iterators behind references (`Lazy`, `Ahead`, `Reset`) as operators;
`GraphQuery` is one query on one connection: `BeginTx`, the commands of a client (the Adds,
the updates by search, with constraints and by reference, the Finds), each of them building
its PMGD commands and running them at once, because what building decides (the automatic
references) depends on earlier commands only. An error is an abort of the transaction (`Respond`). A worker that does
not come back is `tx = "stuck"`: `AddConnection` with the same reference of several
nodes twice, and an Or search without limit, whose iterator never ends. The lists of nodes
and edges a reference resolves to are compared with definitions that only look
at the graph (`FindExact`, `EdgesExact`, `ConnectsEveryPair`). `EdgesExact` states what the
code does when the first start node has no edge: it may return fewer, never others.
`ConnectsEveryPair` counts: two nodes get as many edges as the first reference stands for
the one times the second for the other, because a search may find a node twice (an Or, or
two start nodes with a common neighbour) and the code then connects it twice. The same
reference on both sides is in it where it stands for one node.
Bounds: three nodes, two edges, three commands; enough for a reference of
two nodes to be used twice, lazily and after another command has moved it.

**FindQuery.** The loop over the constraints of one Find (`AddConstraint`), which decides
whether it deletes its results (`_deletion`, or `_expiration` compared with the clock), and
the loop that sums a property of the results up (`AddFound`). The sum is kept in a word
of `WordSize` bits, 4 here, so that negative totals wrap within the bound. `Parts` uses one expiration time,
since only the sum is checked there; `find_purge` uses the times before, at and after the clock's.

**Descriptors.** One descriptor set with each engine: the nodes in the graph, the index in
memory behind the manager's handle, its directory. `AddDescriptor` changes the index
while the query is built, `DescCommit` or `DescAbort` ends its transaction, `StopServer`
flushes, `DescCrash` loses what is only in memory; searches and votes follow each engine.
`lossy` remembers that something was lost, in a crash or, with the sparse engine, by
writing its metadata before counting, or by opening an index of FLINNG again: its total
starts from 0 then (`Forgetful`, `Opened`), so that the next descriptor gets an id a node
has already and the labels are cut to the new total. The run has the engines `ivf` (for
those of Faiss: its searches include those of the flat and the HNSW index), `flinng`,
`dense` and `sparse`. Two vectors, two descriptors and no label, one of one word or one of
two are enough for an aborted batch before a committed one, a label shortened by
a reload, and a neighbour without a node; sparse and FLINNG sets are bounded to one label.
`KnnAnswer` includes the case in which a neighbour without a node stands in for id 0.

**ImageLoop.** `VCL::Image` with its queue of operations (`Performed` for images stored,
`Executed` for images returned) and FindImage's loop of two threads. The content of an image is
the sequence of operations applied, so a lost, doubled or reordered one shows. The
remote thread sends images again that could not be decoded (`pending`), hangs on an empty
answer, and the local thread may stop the loop too early. A remote operation on an image
without pixels fails (`Image.cc:344`). The remote thread says that it is done before it
hands its last image back (`RemoteCollect`, `RemoteHand`); between the two the local
thread's test sees nothing outstanding, which `ImageNotLost` states as the one place where
an image can be when the loop stops. Two images, two operations.

**TdbImage.** One `TDBImage` object in any order of operations, over arrays of a group.
Sizes are stored byte by byte, tiles are the greatest factors. `MaxUchar = 2` makes a
side of 4 overflow its two bytes; 4 pixels and names n1, n2 let one object write, resize
and write again.

**VideoFile.** `Video::perform_operations` stage by stage, each stage with its own file,
for AddVideo (of an upload, a local file or a path), FindVideo and FindFrames. A
frame is its number, what was done to it and its size, and the writer drops frames that do
not fit. An operation may throw at any frame (a crop outside it, the check of the memory):
the stage ends with what it has written and the error (`FrameOperationsFail`).
`VideoOpsInOrder` compares a video that came out without an error with a definition
of its own that applies one operation after the other (`Reduced`, `OneByOne`), counting the
frames of an interval from 1 as the code does, not from 0 as documented. Videos of no, one or five frames and up to three operations, so that
two stages follow each other, an interval exceeds the video, and a remote operation stands
first, in the middle or last.

**KeyFrames.** The decoder with what survives between two calls: position of the demuxer, frames
held by the codec, `_last_consumed_frame`. Time is counted in units of which a frame lasts
`duration / Micro`; the code divides as integers (`TimeBase`), so a duration of 3 halves
loses a third of each frame, and within four frames the time that is sought lies before its key
frame. `KeyFramesExact` holds for streams in which this has not added up to a frame
(`Seekable`); `SeeksAfterKeyFrame` claims it of every stream without neighbouring key
frames, as the comment in the code does, and is violated. Streams are all sets of key frames over four frames, with and
without timestamps. Lists of two frames and any number of calls: the second may continue,
go back, or follow a refused packet.

**NeoQuery.** `QueryHandlerNeo4j` with commands that store or fetch images. The object store
and Neo4j commit separately and either may fail; a command that failed leaves its
transaction open on the connection, and the next worker that takes the connection goes on
in it. Three workers over two connections, so that one waits.

**Wire.** A client (C++ or Python) and the server's thread over a byte stream that cuts messages
anywhere. Either end may give up at any send or receive: by closing, or with an error or a
timeout on a link that stays open, after which a client can go on with its next query.
`gaveUp` is the first query left like that. `RightAnswer` says that the queries before it
keep their own answers; those after it may get another's, which the model shows and the
property does not excuse for any query before. Two queries, a header of two bytes, contents
of none, two or (refused) three bytes; TLS on either side. A receive that takes garbage for
a length may take any length.

**Regions.** Bounding boxes and FindBoundingBox, which pairs regions and images by position.
One axis of the rectangle; two images, two regions, rectangles that start at 0 or beyond
the edge of the image. `RegionsPaired` claims the pairs up to the first region whose image
is missing, unreadable or not the only one, whatever follows; from there on the lists are
shifted against each other.

Known divergences that these modules contain as the code has them and that no run is
spent on: `Interval` counts frames from 1 (`Video.cc:941`) where the comment (`Video.h:376-378`)
and FindFrames count from 0, so it keeps the frames one before the documented ones; a seek one past a key frame
finds the neighbour if two key frames are adjacent (`KeyFrame.cc:301`; hence `Spaced`);
an average of a negative total wraps (`PMGDQueryHandler.cc`, in `AggregateExact`); a
connection that a failed command of Neo4j gave back keeps its transaction open;
`rectangle` of FindBoundingBox compares a coordinate with a width; a failed crop returns the whole
image; results of updates are dropped (`PMGDQueryHandler.cc:184`); `_cached_edges` survives
the transaction although `PMGDQueryHandler.h:99` says otherwise; a failed commit to Neo4j goes
unreported.

## 3. Runs

| Run | Module, cfg | Checks | Shows |
|---|---|---|---|
| `conn_pool` | CommManager | `TypeOK`, `OneOwner`, `NoLostConnection`, `ListedAreServed`, `PoisonStays`, `NoIdleThreadWhileQueued`, `ShutdownCompletes`, `Promise` | the pool neither loses, doubles nor leaks a connection, a shutdown ends, and the pool implements ConnService |
| `conn_kill` | CommManager, CommManagerKill | `AllConnectionsKilled`, violated | the unlocked walk of the destructor may miss a connection |
| `query_tx` | QueryTx | `TypeOK`, `QueueAlive`, `AckedDurable`, `ExpiringQueued` | two workers and a crash anywhere: what was acknowledged survives, expiring media are tracked |
| `query_files` | QueryTx, QueryTxFiles | `FilesOutliveResponse`, violated | the video of a node that an open transaction removed is deleted by another worker's cleanup |
| `exp_queue` | ExpirationQueue | `TypeOK`, `Sorted`, `ListMatchesGraph`, `PurgeExact`, `ExpiredIsDeleted` | the list is sorted and exact, a purge deletes what is due and nothing else, and expired nodes are deleted in the end, across a restart |
| `exp_early` | ExpirationQueue, ExpirationQueueEarly | `OnlyExpiredDeleted`, violated | a node whose expiration was prolonged dies at its old deadline |
| `video_loop` | EventLoop | `OnePlace`, `AnswerComplete`, `BatchWhole`, `Returns` | no video lost or doubled, whole batches, no hang |
| `video_stop` | EventLoop, EventLoopStop | `AllTasksCompleted`, violated | the loop stops before the handler enqueued the second video |
| `find_purge` | FindQuery, FindQueryPurge | `PurgesOnlyExpired`, violated | a Find with an array or a range on `_expiration` deletes nodes that have not expired |
| `search_parts` | Parts, PartsSearch | `FindExact`, `EdgesExact`, `ConnectsEveryPair` (graph), `AggregateExact` (find), `RegionsPaired` (regions), `DescriptorIds`, `LabelKept`, `KnnAnswer` (descriptors) | what searches answer is what graph and index hold, for every legal sequence of calls within the bounds |
| `media_parts` | Parts, PartsMedia | `OpsInOrder`, `ImageNotLost` (images), `TdbRoundTrip`, `ResizeInBounds` (TileDB), `VideoOpsInOrder`, `SourceKept` (videos), `KeyFramesExact` (key frames), `RightAnswer` (messages), `ConnsConserved`, `NeoImagesStored` (Neo4j) | media keep their content and their operations whatever fails, messages keep their order, and connections return to the pool while a worker waits for one |
| `key_seek` | KeyFrames | `SeeksAfterKeyFrame`, violated | the truncated time base makes a seek miss its key frame |

`PROJECT.json` gives the exact list of properties of each run. A violation run
states what a comment of the code says and shows that the code does something
else; "findings" quotes the comment. Operators named after the definition that follows
them, with a suffix and a comment "bug: ..." (`PutConn_committed` before `PutConn`), are
mutated forms of it; no specification uses them. With such a form in place of the
definition, TLC finds the property violated, which shows that the property depends on
that part of the code.

Deadlock is checked except where a bound ends the behaviours: in the runs of QueryTx (bound on
queries), in those of `Parts` and KeyFrames, and in `find_purge` (operations that
are bounded, or a Find whose constraints are complete). An ended `VideoLoop` stutters in `Terminated`, an ended
server in `Ended`.

## 4. Proofs

Proofs hold for every value of the constants that satisfies the assumptions named in the
modules. These say that bounds are naturals, that special values are distinct, and of the
libraries what their code fixes: a header has a byte and sizes are naturals
(`WireAssumption`), engines are the six that `DescriptorsManager` knows and a label is a
sequence of numbers (`DescAssumption`), a query has an image (`ImageAssumption`), images
are numbered and corners are integers (`RegionAssumption`), a byte and the least tile are
not 0 (`TdbAssumption`), lengths and numbers of operations and frames are naturals
(`VideoAssumption`, `KeyAssumption`), and `None` is no list of nodes (`NoneApart`). One
assumption is a bound rather than a fact: as many values as a Find may add do not reach
the width of a sum (`FindAssumption`; for the code, fewer than 2^64), so that only a
negative total wraps.

Eight modules hold theorems; the small components share one where their proofs need the
same lemmas.

- **Service_proofs: CommManager.** The inductive invariant joins all safety properties
  with `HandsInv`, which ties program counters to pointers: the request thread has a
  connection in hand exactly between `accept()` and the push, a pool thread exactly while
  it processes one, and the NULL is pushed after the flag is set. `OneOwner` alone is not
  inductive: that an accepted connection gets a single owner needs that the pushing thread
  really holds it, and that nobody else does. Proved: `TypeCorrect`, `InductiveInvariant`,
  `Ownership`, `NothingLost`, `ListExact`, `PoisonNeverConsumed`. `Refinement` shows that
  the pool implements `ConnService`. It needs `CloseInv` besides: the NULL is queued by
  the shutdown only, after the request thread has been joined, so a head that is popped is
  a connection and nothing is accepted behind a NULL. Each step of the pool is then one of
  the service (`RequestAccept` an arrival, `MainPushNull` the closing, `WorkerPop` and
  `WorkerRelease` the service) or leaves its state alone; that `RequestPush` does so is
  why the line counts the connection in hand as its last.
- **QueryTx_proofs.** Lemmas say which files a log names and what a cleanup removes.
  Durability rests on three facts: a file belongs to the query that wrote it, from its
  creation to the answer, and to no other (`OwnInv`); what is removed or named for cleanup
  was asked for or has strayed before (`DoomInv`); until its answer a query's files stay,
  and from its commit its nodes (`KeepInv`). `QueuedInv` says where an expiring node may
  be that is not in the queue. Proved: `TypeCorrect`, `InductiveInvariant`, `Durability`,
  `ExpirationTracked`. `QueuePointsToLive` needs that names are fresh: a query names each
  file it adds once (`OnceInv`), before its transaction it has touched no node
  (`StartInv`), and a file still to be added is in no graph (`TouchInv`, `FreshInv`). A
  node that an open transaction removed is out of the queue (`GoneInv`), so that its
  commit leaves no entry behind.
- **ExpirationQueue_proofs.** Lemmas about one list first: what insertion and erasure do
  to each index, that they keep the order (`InsertInOrder`, `EraseInOrder`), and how they
  change the entries of one node (`InsertMatches`, `EraseMatches`). `ScanInv` says how far
  the rebuilding of a start has got, which `ListMatchesGraph` excludes and needs when the
  scan ends. Proved: `TypeCorrect`, `ListSorted`, `InductiveInvariant`, `ListExact`, and
  the action property `PurgesExactly` (from order and agreement: the purge's stop at the
  first entry not due hides no due one).

- **EventLoop_proofs.** A video is in at most one of the four queues and batches, once,
  and in none when it has an error (`PlaceInv`). That alone is not inductive: how the
  threads hand videos over depends on flags that each reads at another time. `HandlerInv`,
  `LocalInv`, `WakeInv` and `RemoteInv` tie program counters to flags, batches and the
  elements by which the destructor wakes the threads; `RoundInv` says that until then all
  videos are in the same round (those waiting for the remote thread one operation behind),
  so that a batch is complete when it is taken; `StopInv` says that what the local thread
  found at rest, one variable after the other, is still so when it stops. Proved:
  `InductiveInvariant`, `NothingLostOrDoubled`, `ServicesGetWholeBatch`, `AnswerAtRest`.
- **Service_proofs: NeoQuery.** `PoolInv`: a connection is in the pool at one place or
  held by one worker, never both, and a worker holds one as long as its query runs.
  `ImageInv`: only names that were given are in the bucket, hence every new name is
  unused; what an open transaction refers to is in the bucket before the transaction
  commits, and belongs to no other transaction. Proved: `NeoInductive`,
  `ConnectionsConserved`, `CommittedImagesStored`.
- **Service_proofs: Wire.** At most one message is on its way, and while it is, `Framed`
  relates what the sender has sent, the stream and what the receiver has got, for any cut;
  `Phases` says whose turn it is and `Book` that answers are returned in the order of the
  queries. They hold until the client leaves a query half sent or unanswered on an open
  link. From then on `Past` holds, which each further step keeps whatever the stream has:
  the answers of the queries before that one are those they had, and the server has their
  results. Proved:
  `WireInductive`, `QueriesGetTheirAnswers`.
- **Lists_proofs.** What the other proofs need of loops over lists. Theorems of the
  library about induction take an operator and cannot be used here; the well-foundedness
  of the naturals, which is about a set, can (`Least`). From it follow induction up to a
  bound (`Climb`), and that the folds of the library exist and are what their definitions
  describe (`FoldExists`), among them `FlattenSeq` (`FlattenFacts`). `Lists.tla` has the
  two operators by which the models list numbers in order and select from lists
  (`InOrder`, `Filtered`), defined by ranks: `InOrderFacts` says that the one lists each
  number once and ascending, `InOrderUnique` that only one list does.
- **Search_proofs: Descriptors.** `IndexInv` relates the index to the nodes, those of the
  open transaction included, once for the directory (`DiskFits`) and once for the handle
  in memory or the one the next command will load (`HandleFits`): counts agree, ids are
  different and below the total, each id leads to the vector and label of its node. That
  the handle may be absent is why both are needed, and that they differ per engine is the
  code's doing: Faiss and FLINNG keep all in memory, the dense engine writes through, the
  sparse one only its metadata. For Faiss it holds until a crash, for FLINNG and the sparse
  engine until the index is opened again. Proved: `DescInductive`, `IdsAgree`, `LabelsAgree`.
  `NeighboursListed` (`KnnAnswer`) needs of the sparse engine that its cells carry ids
  (`CellsInv`); then the answer, put together from the ids of the search and from the
  nodes matched with each of them, is the search's list without the ids that no node has,
  because the nodes have different ids.
- **Search_proofs: GraphQuery.** `GraphInv`: between two commands the iterator behind each
  reference stands at its first node and has one, and edges run between nodes. Without the
  first part no property of a Find would hold for the second use of a reference; each
  command is therefore proved to take the iterators back that it walked, however it ends
  (`GraphStep`, one case per command and its outcomes). Then `FindsExactly`, `FindsEdges`
  and `ConnectsPairs` compare what the iterators yield with definitions that only look at
  the graph; the lemmas say what traversing, prefetching, the neighbours of several nodes
  and the edges between two lists return. Where the search for edges gives up
  (`PMGDIterators.h:238`) only the inclusion is proved, as the property says.
- **Search_proofs: FindQuery and Regions.** `AggInv`: the count is that of the values
  taken up to the limit, the sum is their total modulo the width, and the total stays
  below the width. `RegionInv`: an answer was made from the regions, links and readable
  images that are there, because nothing changes them between question and answer; where
  each region up to some position has exactly one image, the list of images begins with
  these images, and the same positions belong together (`FlattenOnes`). Proved: `SumsExactly`,
  `PairsRegions`.
- **Video_proofs: VideoFile.** Whatever the stages of `perform_operations` do, the next
  file written or removed is a temporary one (`Careful`), and the source is where it was
  (`Source`); new names are unused because file names are bounded (`FilesFit`). Proved:
  `VideoInductive`, `SourceStays`. `VideoOpsApplied` (`VideoOpsInOrder`) compares what is
  stored or returned with the operations done one by one. The invariant `OpsInv` has the
  video after each operation as a sequence `r`, and says for each place of the procedure
  which element of it the file at hand is, or that it has no frames (`Stands`): what a
  stage reads is the video after the operations before it, and what comes back from a
  remote service goes on from the next element. A stage that takes frame by frame through
  several operations equals the operations one by one (`DoneRun`, `Goes`). That is where
  the two indices of the code could go wrong. A stage in which an operation throws ends in
  an error, of which the property says nothing.
- **Video_proofs: KeyFrames.** The codec holds a run of consecutive frames, from the one
  it has to give next up to where the demuxer is (`CodecFits`); this holds between calls
  as long as no packet was refused and is what lets a call continue where the last one
  stopped. Within a call, `FoundFits` says that the frames found so far are the first of
  the list and how many intervals they cover (`CutIn`). It is required of ascending lists
  and of streams whose key frames are not neighbours, since otherwise a seek may land
  beside its target, and in which the rounded time base has not lost a frame (`Seekable`).
  Proved: `DecodesExactly`.
- **Image_proofs: ImageLoop.** The two threads pass copies of an image back and forth, and
  an image whose remote answer was useless leaves an empty copy in the pending list
  besides the one that goes on. The invariant (`LoopInv`) says that a copy that is not
  empty is the only one of its image (`Lone`, `Apart` in `CopiesInv`). So when the map
  records an error no good copy of that image is on its way that would hide it again
  (`NoneFailed`), a copy with nothing left to do is in the map (`Settled`), and until
  something fails each image is with a thread or complete (`KeptInv`). What one turn of
  the local thread does is a fold over the operations that are left, along which `Climb`
  carries `RunOk` (`ExecutedFacts`). What AddImage stores is treated likewise
  (`PerformedAdded`). Proved: `ImageInductive`, `OperationsInOrder`, `NoImageLost`.
- **Image_proofs: TdbImage.** `TdbInv`: each array holds the image it was given last,
  written tile by tile into a domain that covers it (`Holds`), and the object's pixels are
  as many as its size says (`IsObject`). Reading takes each pixel from the tile and place
  it was written to, which needs the arithmetic of quotients and remainders by the extents
  of a tile. Proved: `TdbReadsBack`, `ResizeReadsItsImage`.

Every safety invariant and action property that a passing run checks is thus a theorem,
under the named assumptions alone.
`Parts` itself has no theorem: its behaviours drive one module at a time and leave the
others alone, and the theorems are about those modules' specifications.

Only model-checked: the liveness properties (`NoIdleThreadWhileQueued`,
`ShutdownCompletes`, `ExpiredIsDeleted`, `Returns`), which need fairness and ENABLED and
are out of the prover's reach, and the violation runs, whose counterexamples TLC finds.

## 5. Not modelled, and the plan

Not modelled by intention: pixels, frames, codecs and distance computations (data),
OpenCV, TileDB, libav, AWS and curl (external, appear as steps that succeed or fail),
logging and timers (`TimerMap`, `SystemStats`), build and deployment files; the
configuration (`VDMSConfig`, read once at start); the CSV parser and `rapidcsv.h` of the
client, which turn rows into queries; replication, which runs `tar` on the database
directory at set times; the distributed senders and the remote functions, which are
programs of their own around a broker or HTTP; paths, prefixes and compression settings of
TileDB.

Hazards without a property, each with its reason in `PROJECT.json`: the entry of an aborted
node that makes every purge fail, the edges a connection
keeps from its last query, the race of two first lookups of one descriptor set, and the
list of videos that FindVideo keeps in a shared object. Several other hazards are caught
only in part, because a property leaves out the case in which the code itself goes wrong
(edges of a first node without edges, regions whose image is missing, operations whose
failure the code swallows, a query after one that was given up); their notes say which. Outside the models are further the
race on the map of VideoLoop beyond lost writes (`torn` in EventLoop) and what a thread
sees of a freed list element beyond where the walk goes on.

What is left: the last three of these hazards, each of which needs a model of several
queries at once on shared containers; and replication.
