------------------------------ MODULE QueryTx ------------------------------
(***************************************************************************)
(* Queries of concurrent clients in the PMGD query handler: how one query  *)
(* message writes its media files, runs its graph transaction, answers,    *)
(* and cleans up, while other workers do the same over the shared graph,   *)
(* the shared disk, the shared expiration queue and the shared list of     *)
(* files to clean up (src/src/QueryHandlerPMGD.cc, PMGDQuery.cc,           *)
(* PMGDQueryHandler.cc and the Add*/Find* commands).                       *)
(*                                                                         *)
(* A node that carries media is identified with the path property that     *)
(* names its file: Files stands for both.  The queue is the set of nodes   *)
(* it points to; its order and the clock are the business of module        *)
(* ExpirationQueue, so here any queued node may have expired.              *)
(***************************************************************************)
EXTENDS Naturals, Sequences, FiniteSets

CONSTANTS
  Workers,      \* pool threads, and the autodelete thread
  Images,       \* image files in a plain format (png, jpg, bin)
  TdbImages,    \* images stored as TileDB arrays
  Videos,       \* video files, the only ones under path_videos
  Blobs,        \* blobs of AddBlob and AddEntity
  Expiring,     \* the nodes that get an _expiration property
  NoFile,       \* no file
  MaxCmds,      \* bound: commands of one query
  MaxQueries,   \* bound: queries of a run
  MaxCrashes    \* bound: crashes of a run

Media == Images \cup TdbImages \cup Videos
Files == Media \cup Blobs

ASSUME FilesAssumption ==
  /\ NoFile \notin Files
  /\ Expiring \subseteq Files
  /\ (Images \cup TdbImages) \cap Videos = {}
  /\ Media \cap Blobs = {}
  /\ Images \cap TdbImages = {}

ASSUME BoundsAssumption ==
  MaxCmds \in Nat /\ MaxQueries \in Nat /\ MaxCrashes \in Nat

VARIABLES
  graph,      \* nodes of committed transactions
  disk,       \* files that exist
  created,    \* names VCL::create_unique has handed out
  queue,      \* _expiration_timestamp_queue, as the nodes it points to
  cleanup,    \* _cleanup_filename_list
  pc,         \* where each worker is in process_query
  cmds,       \* the commands of its query constructed so far
  ip,         \* the command its transaction runs next
  added,      \* nodes its transaction added
  removed,    \* nodes its transaction removed
  started,    \* queries started, against MaxQueries
  crashes,    \* crashes, against MaxCrashes
  (* History, read by properties only.                                     *)
  acked,      \* nodes whose query was answered with success
  requested,  \* nodes matched for deletion, or expired
  strayed,    \* nodes hit through a queue entry of an aborted node
  raced,      \* queue entries damaged by unsynchronised updates
  aborted     \* nodes whose transaction added them and then aborted

shared == <<graph, disk, created, queue, cleanup>>
bounds == <<started, crashes>>
history == <<acked, requested, strayed, raced, aborted>>
vars == <<graph, disk, created, queue, cleanup, pc, cmds, ip, added, removed,
          started, crashes, acked, requested, strayed, raced, aborted>>

-----------------------------------------------------------------------------
(* Types.                                                                  *)

Cmd == [op : {"add"}, file : Files, purge : {FALSE}]
         \cup [op : {"find", "expire"}, file : {NoFile}, purge : BOOLEAN]
WorkerPC == {"idle", "construct", "commands", "failed", "respond"}

TypeOK ==
  /\ graph \in SUBSET Files
  /\ disk \in SUBSET Files
  /\ created \in SUBSET Files
  /\ queue \in SUBSET Files
  /\ cleanup \in SUBSET Files
  /\ pc \in [Workers -> WorkerPC]
  /\ cmds \in [Workers -> Seq(Cmd)]
  /\ ip \in [Workers -> Nat]
  /\ added \in [Workers -> SUBSET Files]
  /\ removed \in [Workers -> SUBSET Files]
  /\ started \in Nat
  /\ crashes \in Nat
  /\ acked \in SUBSET Files
  /\ requested \in SUBSET Files
  /\ strayed \in SUBSET Files
  /\ raced \in SUBSET Files
  /\ aborted \in SUBSET Files

Init ==
  /\ graph = {}
  /\ disk = {}
  /\ created = {}
  /\ queue = {}
  /\ cleanup = {}
  /\ pc = [w \in Workers |-> "idle"]
  /\ cmds = [w \in Workers |-> <<>>]
  /\ ip = [w \in Workers |-> 0]
  /\ added = [w \in Workers |-> {}]
  /\ removed = [w \in Workers |-> {}]
  /\ started = 0
  /\ crashes = 0
  /\ acked = {}
  /\ requested = {}
  /\ strayed = {}
  /\ raced = {}
  /\ aborted = {}

-----------------------------------------------------------------------------
(* What the commands of a query say.                                       *)

(* Bug: the path property is lost.                                         *)
AddCmd_noPath(f) == [op |-> "add", file |-> NoFile, purge |-> FALSE]

AddCmd(f) == [op |-> "add", file |-> f, purge |-> FALSE]
FindCmd(purge) == [op |-> "find", file |-> NoFile, purge |-> purge]
ExpireCmd == [op |-> "expire", file |-> NoFile, purge |-> FALSE]

(* The places of a sequence of commands that wrote a file of this kind.    *)
Adds(s, kind) == {i \in DOMAIN s : s[i].op = "add" /\ s[i].file \in kind}

FilesOf(s) == {s[i].file : i \in Adds(s, Files)}
Owned(w) == FilesOf(cmds[w])

Running(w, op) == ip[w] \in DOMAIN cmds[w] /\ cmds[w][ip[w]].op = op

(* _resultdeletion is one flag of the whole transaction, and every         *)
(* QueryNode overwrites it: the last one decides for all.                  *)
Purging(w) ==
  \E i \in DOMAIN cmds[w] :
    /\ cmds[w][i].op = "find"
    /\ cmds[w][i].purge
    /\ \A j \in DOMAIN cmds[w] : j > i => cmds[w][j].op # "find"

(***************************************************************************)
(* images_log and videos_log.  cmd_result is not reset between commands,   *)
(* so each command pushes once more the last image and the last video of   *)
(* the query: what command j pushes is the last file of that kind so far   *)
(* (nothing if there is none).                                             *)
(***************************************************************************)
Pushed(s, kind, j) ==
  LET sofar == {i \in Adds(s, kind) : i <= j}
  IN {s[i].file : i \in {k \in sofar : \A m \in sofar : m <= k}}

(***************************************************************************)
(* cleanup_query deletes the logged images in order, then the logged       *)
(* videos.  Deleting a plain file twice is harmless; deleting a TileDB     *)
(* array twice throws, and what comes after it is not deleted.             *)
(***************************************************************************)
AllImages == Images \cup TdbImages

CleanupThrowsAt(s) ==
  {j \in DOMAIN s : \E i \in 1..(j - 1) :
     Pushed(s, AllImages, i) \cap Pushed(s, AllImages, j) \cap TdbImages # {}}

CleanupThrows(w) == CleanupThrowsAt(cmds[w]) # {}

Cleaned(s) ==
  LET bad == CleanupThrowsAt(s)
  IN IF bad = {}
     THEN FilesOf(s) \cap Media
     ELSE UNION {Pushed(s, AllImages, j) : j \in {k \in DOMAIN s : \A b \in bad : k < b}}

-----------------------------------------------------------------------------
(* Transactions (PMGD is external: a transaction locks what it writes, a   *)
(* conflicting access throws, deleting an uncommitted transaction aborts). *)

Open(w) == pc[w] \in {"commands", "failed"}
Locked(w) == UNION {added[v] \cup removed[v] : v \in {u \in Workers \ {w} : Open(u)}}
Visible(w) == ((graph \cup added[w]) \ removed[w]) \ Locked(w)

(* The nodes in the database's memory, committed or not.                   *)
Alive == graph \cup UNION {added[w] : w \in {u \in Workers : Open(u)}}

(***************************************************************************)
(* The queue is a static std::list without a lock.  An update while        *)
(* another transaction runs may interleave with an update of that one and  *)
(* leave any of the entries lost or an erased one linked.                  *)
(***************************************************************************)
Racing(w) == \E v \in Workers \ {w} : pc[v] = "commands"

UpdateQueue(w, new) ==
  \/ /\ queue' = new
     /\ raced' = raced
  \/ /\ Racing(w)
     /\ queue # new
     /\ \E q \in SUBSET (queue \cup new) :
          /\ queue' = q
          /\ raced' = raced \cup (q \ new) \cup (new \ q)

EndQuery(w) ==
  /\ pc' = [pc EXCEPT ![w] = "idle"]
  /\ cmds' = [cmds EXCEPT ![w] = <<>>]
  /\ ip' = [ip EXCEPT ![w] = 0]
  /\ added' = [added EXCEPT ![w] = {}]
  /\ removed' = [removed EXCEPT ![w] = {}]

(***************************************************************************)
(* The nodes that build_autodelete_queue queues when the server starts.    *)
(* Its JSON closes the array of commands after FindImage and FindVideo, so *)
(* the parser never sees the others.                                       *)
(***************************************************************************)
(* Bug: the queue is not rebuilt.                                          *)
Requeued_none == {}

Requeued == graph \cap Expiring \cap Media

(* The process dies: open transactions are gone, the static queue and the  *)
(* static list are empty; and it is started again.                         *)
Restart ==
  /\ crashes < MaxCrashes
  /\ crashes' = crashes + 1
  /\ queue' = Requeued
  /\ cleanup' = {}
  /\ pc' = [w \in Workers |-> "idle"]
  /\ cmds' = [w \in Workers |-> <<>>]
  /\ ip' = [w \in Workers |-> 0]
  /\ added' = [w \in Workers |-> {}]
  /\ removed' = [w \in Workers |-> {}]

-----------------------------------------------------------------------------
(* Constructing the commands: construct_protobuf of each command in turn.  *)

StartQuery(w) ==
  /\ pc[w] = "idle"
  /\ started < MaxQueries
  /\ started' = started + 1
  /\ pc' = [pc EXCEPT ![w] = "construct"]
  /\ UNCHANGED <<shared, crashes, history, cmds, ip, added, removed>>

(* Bug: the name of a new file is not checked to be unused.                *)
ConstructAdd_reusesName(w) ==
  /\ pc[w] = "construct"
  /\ Len(cmds[w]) < MaxCmds
  /\ \E f \in Files :
       /\ created' = created \cup {f}
       /\ disk' = disk \cup {f}
       /\ cmds' = [cmds EXCEPT ![w] = Append(@, AddCmd(f))]
  /\ UNCHANGED <<bounds, history, graph, queue, cleanup, pc, ip, added, removed>>

(* An Add command stores its file at once, before the transaction exists.  *)
ConstructAdd(w) ==
  /\ pc[w] = "construct"
  /\ Len(cmds[w]) < MaxCmds
  /\ \E f \in Files \ created :
       /\ created' = created \cup {f}
       /\ disk' = disk \cup {f}
       /\ cmds' = [cmds EXCEPT ![w] = Append(@, AddCmd(f))]
  /\ UNCHANGED <<bounds, history, graph, queue, cleanup, pc, ip, added, removed>>

ConstructOther(w) ==
  /\ pc[w] = "construct"
  /\ Len(cmds[w]) < MaxCmds
  /\ \E c \in {FindCmd(TRUE), FindCmd(FALSE), ExpireCmd} :
       cmds' = [cmds EXCEPT ![w] = Append(@, c)]
  /\ UNCHANGED <<shared, bounds, history, pc, ip, added, removed>>

(* A command cannot be constructed (return value -1): the lambda "error"   *)
(* cleans up what was logged and answers.                                  *)
ConstructError(w) ==
  /\ pc[w] = "construct"
  /\ EndQuery(w)
  /\ disk' = disk \ Cleaned(cmds[w])
  /\ UNCHANGED <<bounds, history, graph, created, queue, cleanup>>

(* Storing a file fails.  An Add logs its file after storing it, so the    *)
(* part it wrote is not cleaned up.  (The command is not constructed, so   *)
(* MaxCmds does not bound it.)                                             *)
StoreThrows(w, f) ==
  /\ pc[w] = "construct"
  /\ f \in Files \ created
  /\ created' = created \cup {f}
  /\ \E partly \in {{}, {f}} :
       disk' = (disk \cup partly) \ Cleaned(cmds[w])

(* A VCL::Exception is answered after cleanup_query...                     *)
StoreVCLException(w) ==
  /\ ~CleanupThrows(w)
  /\ \E f \in Files : StoreThrows(w, f)
  /\ EndQuery(w)
  /\ UNCHANGED <<bounds, history, graph, queue, cleanup>>

(* ...and when cleanup_query itself throws in that handler, nothing        *)
(* catches it: process_connection expects ExceptionComm only, so the       *)
(* server terminates.                                                      *)
StoreVCLTerminates(w) ==
  /\ CleanupThrows(w)
  /\ \E f \in Files : StoreThrows(w, f)
  /\ Restart
  /\ UNCHANGED <<started, history, graph>>

(* Any other exception (of JSON, of the constraints) is only answered.     *)
ConstructException(w) ==
  /\ pc[w] = "construct"
  /\ EndQuery(w)
  /\ UNCHANGED <<shared, bounds, history>>

-----------------------------------------------------------------------------
(* The transaction: PMGDQuery::run and process_queries.                    *)

(* TxBegin                                                                 *)
RunTx(w) ==
  /\ pc[w] = "construct"
  /\ cmds[w] # <<>>
  /\ pc' = [pc EXCEPT ![w] = "commands"]
  /\ ip' = [ip EXCEPT ![w] = 1]
  /\ UNCHANGED <<shared, bounds, history, cmds, added, removed>>

(* AddNode queues an expiring node at once, while it is uncommitted.       *)
ExecAdd(w) ==
  /\ pc[w] = "commands"
  /\ Running(w, "add")
  /\ LET f == cmds[w][ip[w]].file
     IN /\ added' = [added EXCEPT ![w] = @ \cup {f}]
        /\ UpdateQueue(w, IF f \in Expiring THEN queue \cup {f} ELSE queue)
  /\ ip' = [ip EXCEPT ![w] = @ + 1]
  /\ UNCHANGED <<bounds, graph, disk, created, cleanup, pc, cmds, removed,
                 acked, requested, strayed, aborted>>

(* AddEntity with constraints that a node already meets: it adds nothing.  *)
ExecAddExists(w) ==
  /\ pc[w] = "commands"
  /\ Running(w, "add")
  /\ cmds[w][ip[w]].file \in Blobs
  /\ ip' = [ip EXCEPT ![w] = @ + 1]
  /\ UNCHANGED <<shared, bounds, history, pc, cmds, added, removed>>

(* QueryNode with a list result, of one tag.  When the transaction purges, *)
(* build_results unlinks every node of the result from the queue, names    *)
(* its files for cleanup and removes it.                                   *)
ExecFind(w) ==
  /\ pc[w] = "commands"
  /\ Running(w, "find")
  /\ \E tag \in {AllImages, Videos, Blobs} :
       \E found \in SUBSET (Visible(w) \cap tag) :
         LET gone == IF Purging(w) THEN found ELSE {}
         IN /\ removed' = [removed EXCEPT ![w] = @ \cup gone]
            /\ UpdateQueue(w, queue \ gone)
            /\ cleanup' = cleanup \cup gone
            /\ requested' = requested \cup gone
  /\ ip' = [ip EXCEPT ![w] = @ + 1]
  /\ UNCHANGED <<bounds, graph, disk, created, pc, cmds, added,
                 acked, strayed, aborted>>

(* remove() of a path; it fails on a TileDB array, which is a directory.   *)
Unlinked(fs) == disk \ (fs \ TdbImages)

(* Bug: the entry is not popped.                                           *)
ExpireOne_keepsEntry(w) ==
  /\ pc[w] = "commands"
  /\ Running(w, "expire")
  /\ \E f \in queue \cap Visible(w) :
       /\ disk' = Unlinked({f})
       /\ removed' = [removed EXCEPT ![w] = @ \cup {f}]
       /\ requested' = requested \cup {f}
  /\ UNCHANGED <<bounds, graph, created, queue, cleanup, pc, cmds, ip, added,
                 acked, strayed, raced, aborted>>

(* One turn of delete_expired_nodes: remove the files of the front entry,  *)
(* remove its node, pop the entry.                                         *)
ExpireOne(w) ==
  /\ pc[w] = "commands"
  /\ Running(w, "expire")
  /\ \E f \in queue \cap Visible(w) :
       /\ disk' = Unlinked({f})
       /\ removed' = [removed EXCEPT ![w] = @ \cup {f}]
       /\ UpdateQueue(w, queue \ {f})
       /\ requested' = requested \cup {f}
  /\ UNCHANGED <<bounds, graph, created, cleanup, pc, cmds, ip, added,
                 acked, strayed, aborted>>

(* The files are gone when removing the node throws, because another       *)
(* transaction reads it or added it and has not committed yet.  (When      *)
(* already reading its path throws, that is TxFail.)                       *)
ExpireThrows(w) ==
  /\ pc[w] = "commands"
  /\ Running(w, "expire")
  /\ \E f \in queue \cap Alive :
       /\ disk' = Unlinked({f})
       /\ requested' = requested \cup {f}
  /\ pc' = [pc EXCEPT ![w] = "failed"]
  /\ UNCHANGED <<bounds, graph, created, queue, cleanup, cmds, ip, added, removed,
                 acked, strayed, raced, aborted>>

(* The front entry points to a node whose transaction aborted: nothing is  *)
(* removed, or whatever node the database has put in its place.            *)
ExpireStray(w) ==
  /\ pc[w] = "commands"
  /\ Running(w, "expire")
  /\ \E f \in queue \ Alive : \E hit \in SUBSET Visible(w) :
       /\ Cardinality(hit) <= 1
       /\ disk' = Unlinked(hit)
       /\ removed' = [removed EXCEPT ![w] = @ \cup hit]
       /\ UpdateQueue(w, queue \ {f})
       /\ strayed' = strayed \cup hit
  /\ UNCHANGED <<bounds, graph, created, cleanup, pc, cmds, ip, added,
                 acked, requested, aborted>>

(* The loop ends: the queue is empty or its front has not expired.         *)
ExpireDone(w) ==
  /\ pc[w] = "commands"
  /\ Running(w, "expire")
  /\ ip' = [ip EXCEPT ![w] = @ + 1]
  /\ UNCHANGED <<shared, bounds, history, pc, cmds, added, removed>>

(* Any command may fail: an undefined _ref, a result that is not unique,   *)
(* a PMGD exception, also at TxCommit.                                     *)
TxFail(w) ==
  /\ pc[w] = "commands"
  /\ pc' = [pc EXCEPT ![w] = "failed"]
  /\ UNCHANGED <<shared, bounds, history, cmds, ip, added, removed>>

(* process_queries deletes the open transaction, run() reports the error,  *)
(* and "error" cleans up and answers.  What the commands did to the queue  *)
(* and to the list of files to clean up stays.                             *)
Abort(w) ==
  /\ pc[w] = "failed"
  /\ EndQuery(w)
  /\ disk' = disk \ Cleaned(cmds[w])
  /\ aborted' = aborted \cup added[w]
  /\ UNCHANGED <<bounds, graph, created, queue, cleanup,
                 acked, requested, strayed, raced>>

TxCommit(w) ==
  /\ pc[w] = "commands"
  /\ ip[w] > Len(cmds[w])
  /\ graph' = (graph \cup added[w]) \ removed[w]
  /\ pc' = [pc EXCEPT ![w] = "respond"]
  /\ UNCHANGED <<bounds, history, disk, created, queue, cleanup, cmds, ip, added, removed>>

-----------------------------------------------------------------------------
(* Answering: construct_responses of each command, then cleanup_files.     *)

(* The shared list is never emptied, and holds the names that other        *)
(* transactions put there, committed or not.                               *)
RespondSuccess(w) ==
  /\ pc[w] = "respond"
  /\ EndQuery(w)
  /\ disk' = disk \ (cleanup \cap Videos)
  /\ acked' = acked \cup added[w]
  /\ UNCHANGED <<bounds, graph, created, queue, cleanup, requested, strayed, raced, aborted>>

(* Only the Finds read media here, and only they can throw.  A             *)
(* VCL::Exception cleans up the files of a query that has committed.       *)
RespondThrows(w) ==
  /\ pc[w] = "respond"
  /\ \E i \in DOMAIN cmds[w] : cmds[w][i].op = "find"

RespondVCLException(w) ==
  /\ RespondThrows(w)
  /\ ~CleanupThrows(w)
  /\ EndQuery(w)
  /\ disk' = disk \ Cleaned(cmds[w])
  /\ UNCHANGED <<bounds, history, graph, created, queue, cleanup>>

RespondVCLTerminates(w) ==
  /\ RespondThrows(w)
  /\ CleanupThrows(w)
  /\ disk' = disk \ Cleaned(cmds[w])
  /\ Restart
  /\ UNCHANGED <<started, history, graph, created>>

RespondException(w) ==
  /\ RespondThrows(w)
  /\ EndQuery(w)
  /\ UNCHANGED <<shared, bounds, history>>

-----------------------------------------------------------------------------

Crash ==
  /\ Restart
  /\ UNCHANGED <<started, history, graph, disk, created>>

Construct(w) ==
  \/ StartQuery(w)
  \/ ConstructAdd(w)
  \/ ConstructOther(w)
  \/ ConstructError(w)
  \/ StoreVCLException(w)
  \/ StoreVCLTerminates(w)
  \/ ConstructException(w)

Transact(w) ==
  \/ RunTx(w)
  \/ ExecAdd(w)
  \/ ExecAddExists(w)
  \/ ExecFind(w)
  \/ ExpireOne(w)
  \/ ExpireThrows(w)
  \/ ExpireStray(w)
  \/ ExpireDone(w)
  \/ TxFail(w)
  \/ Abort(w)
  \/ TxCommit(w)

Respond(w) ==
  \/ RespondSuccess(w)
  \/ RespondVCLException(w)
  \/ RespondVCLTerminates(w)
  \/ RespondException(w)

Next ==
  \/ \E w \in Workers : Construct(w) \/ Transact(w) \/ Respond(w)
  \/ Crash

Spec == Init /\ [][Next]_vars

-----------------------------------------------------------------------------
(* Safety.                                                                 *)

(* Once a client was told that its node was added, node and file stay      *)
(* until a client asks for their deletion or they expire: no failing,      *)
(* aborting or crashing query of another worker takes them away.  (An      *)
(* entry of an aborted node in the expiration queue can: strayed.)         *)
AckedDurable == acked \subseteq (graph \cap disk) \cup requested \cup strayed

(* Every committed node that expires is in the expiration queue, through   *)
(* aborts, crashes and restarts, unless its deletion was tried before or a *)
(* data race dropped its entry -- for images and videos: the restart does  *)
(* not queue other nodes again.                                            *)
ExpiringQueued ==
  graph \cap Expiring \cap Media \subseteq queue \cup requested \cup strayed \cup raced

(* The queue points to existing nodes only, except to those whose own      *)
(* transaction aborted after queueing them.                                *)
QueueAlive == queue \subseteq Alive \cup aborted \cup strayed \cup raced

(***************************************************************************)
(* The comment on _cleanup_filename_list: "files cannot be deleted until   *)
(* after blobs are added".  The file of a node that a query deletes with   *)
(* its results stays until that query has answered.                        *)
(***************************************************************************)
FilesOutliveResponse ==
  [][\A w \in Workers : \A f \in removed[w] \cap cleanup \cap disk :
       f \notin disk' => pc'[w] = "idle"]_vars

=============================================================================
