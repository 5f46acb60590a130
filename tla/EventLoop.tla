----------------------------- MODULE EventLoop -----------------------------
(***************************************************************************)
(* VideoLoop, the pipeline that runs the operations of a FindVideo: the    *)
(* handler enqueues the videos of the answer and spins until the loop has  *)
(* stopped; a local thread runs operations up to the next remote one; a    *)
(* remote thread waits until all videos have arrived, calls the remote     *)
(* services and hands the videos back.  The threads agree on being done    *)
(* through flags and queue lengths that they read without a lock.          *)
(*                                                                         *)
(* All videos of a query have the same operations.  An operation that runs *)
(* locally takes part in the step of its video; remote operations are      *)
(* counted down.                                                           *)
(***************************************************************************)
EXTENDS Integers, Sequences, FiniteSets

CONSTANTS
  N,         \* number of videos, _nrof_entities
  MaxRounds  \* bound: remote operations of the query

ASSUME SizesAssumption == N \in Nat \ {0} /\ MaxRounds \in Nat

VARIABLES
  rounds,          \* remote operations of the query
  sent,            \* videos the handler has enqueued
  m_writeBuffer,   \* local queue
  r_writeBuffer,   \* remote queue
  m_running,
  r_running,
  remote_running,  \* _remote_running
  destroyed,
  videoMap,        \* results
  hpc,             \* where the handler is
  lpc,             \* where the local thread is
  lBatch,          \* the rest of its readBuffer
  flag,            \* it passed a video of the batch on to the remote thread
  rpc,             \* where the remote thread is
  rBatch,          \* the rest of its readBuffer
  torn             \* history: both threads were in videoMap at a time

local == <<lpc, lBatch, flag>>
remote == <<rpc, rBatch>>
queues == <<m_writeBuffer, r_writeBuffer>>
running == <<m_running, r_running>>
results == <<videoMap, torn>>
query == <<rounds, sent>>
vars == <<query, queues, running, remote_running, destroyed, results,
          hpc, local, remote>>

(* Videos are numbered in the order of their ids, the order of videoMap.   *)
(* The element with which the destructor wakes up a thread has no          *)
(* operations; what it writes to videoMap is never read.                   *)
Videos == 1..N
Wake == 0
Elements == [id : Videos \cup {Wake}, left : 0..MaxRounds]

(* A video is not in videoMap, or there with an error, or with the number  *)
(* of remote operations it still had then.                                 *)
Absent == -1
Failed == -2
Results == {Absent, Failed} \cup 0..MaxRounds

TypeOK ==
  /\ rounds \in 0..MaxRounds
  /\ sent \subseteq Videos
  /\ m_writeBuffer \in Seq(Elements)
  /\ r_writeBuffer \in Seq(Elements)
  /\ m_running \in BOOLEAN /\ r_running \in BOOLEAN
  /\ remote_running \in BOOLEAN
  /\ destroyed \in BOOLEAN
  /\ videoMap \in [Videos -> Results]
  /\ hpc \in {"send", "answer", "destroy", "mark", "wake_local", "join_local",
              "wake_remote", "join_remote", "done", "crashed"}
  /\ lpc \in {"loop", "wait", "work", "m_size", "r_size", "stop", "stop_r", "exit"}
  /\ lBatch \in Seq(Elements)
  /\ flag \in BOOLEAN
  /\ rpc \in {"loop", "wait", "test", "mark", "call", "finish", "insert",
              "enqueue", "unmark", "stop", "stop_r", "exit"}
  /\ rBatch \in Seq(Elements)
  /\ torn \in BOOLEAN

Init ==
  /\ rounds \in 0..MaxRounds
  /\ sent = {}
  /\ m_writeBuffer = <<>> /\ r_writeBuffer = <<>>
  /\ m_running = TRUE /\ r_running = TRUE
  /\ remote_running = FALSE
  /\ destroyed = FALSE
  /\ videoMap = [v \in Videos |-> Absent]
  /\ hpc = "send"
  /\ lpc = "loop" /\ lBatch = <<>> /\ flag = FALSE
  /\ rpc = "loop" /\ rBatch = <<>>
  /\ torn = FALSE

-----------------------------------------------------------------------------
(* The handler, FindVideo::construct_responses.                            *)

Enqueue(x) == m_writeBuffer' = Append(m_writeBuffer, x)

Send(v) ==
  /\ hpc = "send"
  /\ v \notin sent
  /\ Enqueue([id |-> v, left |-> rounds])
  /\ sent' = sent \cup {v}
  /\ UNCHANGED <<rounds, r_writeBuffer, running, remote_running, destroyed,
                 results, hpc, local, remote>>

(* A video cannot be prepared: the handler returns an error, which destroys*)
(* the loop with whatever it is doing.                                     *)
GiveUp ==
  /\ hpc = "send"
  /\ sent # Videos
  /\ hpc' = "destroy"
  /\ UNCHANGED <<query, queues, running, remote_running, destroyed, results,
                 local, remote>>

(* Without operations nothing is enqueued; an entry is made for the        *)
(* destructor.                                                             *)
CloseNoOperation(v) ==
  /\ hpc = "send"
  /\ sent = {}
  /\ videoMap' = [videoMap EXCEPT ![v] = 0]
  /\ hpc' = "destroy"
  /\ UNCHANGED <<query, queues, running, remote_running, destroyed, torn,
                 local, remote>>

(* The spinning ends; flags are never set again, so that the order in which*)
(* is_loop_running reads them does not matter.                             *)
LoopStopped ==
  /\ hpc = "send"
  /\ sent = Videos
  /\ ~m_running /\ ~r_running
  /\ hpc' = "answer"
  /\ UNCHANGED <<query, queues, running, remote_running, destroyed, results,
                 local, remote>>

Answer ==
  /\ hpc = "answer"
  /\ hpc' = "destroy"
  /\ UNCHANGED <<query, queues, running, remote_running, destroyed, results,
                 local, remote>>

(* The destructor reads the first entry of videoMap.  If there is none, the*)
(* bytes it takes for a string may be an empty one, or end the process.    *)
Destroy ==
  /\ hpc = "destroy"
  /\ m_running' = FALSE /\ r_running' = FALSE
  /\ \/ hpc' = "mark" /\ UNCHANGED <<lpc, rpc>>
     \/ /\ \A v \in Videos : videoMap[v] = Absent
        /\ hpc' = "crashed" /\ lpc' = "exit" /\ rpc' = "exit"
  /\ UNCHANGED <<query, queues, remote_running, destroyed, results, lBatch, flag,
                 rBatch>>

DestroyMark ==
  /\ hpc = "mark"
  /\ destroyed' = TRUE
  /\ hpc' = "wake_local"
  /\ UNCHANGED <<query, queues, running, remote_running, results, local, remote>>

WakeLocal ==
  /\ hpc = "wake_local"
  /\ Enqueue([id |-> Wake, left |-> 0])
  /\ hpc' = "join_local"
  /\ UNCHANGED <<query, r_writeBuffer, running, remote_running, destroyed,
                 results, local, remote>>

JoinLocal ==
  /\ hpc = "join_local"
  /\ lpc = "exit"
  /\ hpc' = "wake_remote"
  /\ UNCHANGED <<query, queues, running, remote_running, destroyed, results,
                 local, remote>>

(* Bug: the remote thread is joined without being woken up. *)
WakeRemote_notWoken ==
  /\ hpc = "wake_remote"
  /\ hpc' = "join_remote"
  /\ UNCHANGED <<query, queues, running, remote_running, destroyed, results,
                 local, remote>>

WakeRemote ==
  /\ hpc = "wake_remote"
  /\ r_writeBuffer' = Append(r_writeBuffer, [id |-> Wake, left |-> 0])
  /\ hpc' = "join_remote"
  /\ UNCHANGED <<query, m_writeBuffer, running, remote_running, destroyed,
                 results, local, remote>>

JoinRemote ==
  /\ hpc = "join_remote"
  /\ rpc = "exit"
  /\ hpc' = "done"
  /\ UNCHANGED <<query, queues, running, remote_running, destroyed, results,
                 local, remote>>

Handler ==
  \/ \E v \in Videos : Send(v) \/ CloseNoOperation(v)
  \/ GiveUp \/ LoopStopped \/ Answer
  \/ Destroy \/ DestroyMark \/ WakeLocal \/ JoinLocal \/ WakeRemote \/ JoinRemote

-----------------------------------------------------------------------------
(* The local thread, operationThread.                                      *)

LocalLoop ==
  /\ lpc = "loop"
  /\ lpc' = IF m_running THEN "wait" ELSE "exit"
  /\ UNCHANGED <<query, queues, running, remote_running, destroyed, results,
                 hpc, lBatch, flag, remote>>

(* Bug: the queue is copied and not emptied. *)
LocalTake_copies ==
  /\ lpc = "wait"
  /\ m_writeBuffer # <<>>
  /\ lBatch' = m_writeBuffer
  /\ flag' = FALSE
  /\ lpc' = "work"
  /\ UNCHANGED <<query, queues, running, remote_running, destroyed, results,
                 hpc, remote>>

LocalTake ==
  /\ lpc = "wait"
  /\ m_writeBuffer # <<>>
  /\ lBatch' = m_writeBuffer
  /\ m_writeBuffer' = <<>>
  /\ flag' = FALSE
  /\ lpc' = "work"
  /\ UNCHANGED <<query, r_writeBuffer, running, remote_running, destroyed,
                 results, hpc, remote>>

(* The local thread writes to videoMap.  There is no lock: while the remote*)
(* thread inserts, the write may be lost.                                  *)
LocalResult(x, result) ==
  \/ x.id = Wake /\ UNCHANGED results
  \/ /\ x.id # Wake
     /\ \/ videoMap' = [videoMap EXCEPT ![x.id] = result]
        \/ rpc = "insert" /\ UNCHANGED videoMap
     /\ torn' = (torn \/ rpc = "insert")

(* After its local operations, the next one of a video is a remote one.    *)
HasRemote(x) == x.left > 0

LocalDone ==
  /\ lpc = "work" /\ lBatch # <<>>
  /\ ~HasRemote(Head(lBatch))
  /\ LocalResult(Head(lBatch), 0)
  /\ lBatch' = Tail(lBatch)
  /\ UNCHANGED <<query, queues, running, remote_running, destroyed, hpc, lpc,
                 flag, remote>>

(* Bug: flag is not set. *)
LocalToRemote_noFlag ==
  /\ lpc = "work" /\ lBatch # <<>>
  /\ HasRemote(Head(lBatch))
  /\ r_writeBuffer' = Append(r_writeBuffer, [Head(lBatch) EXCEPT !.left = @ - 1])
  /\ lBatch' = Tail(lBatch)
  /\ UNCHANGED <<query, m_writeBuffer, running, remote_running, destroyed,
                 results, hpc, lpc, flag, remote>>

LocalToRemote ==
  /\ lpc = "work" /\ lBatch # <<>>
  /\ HasRemote(Head(lBatch))
  /\ r_writeBuffer' = Append(r_writeBuffer, [Head(lBatch) EXCEPT !.left = @ - 1])
  /\ flag' = TRUE
  /\ lBatch' = Tail(lBatch)
  /\ UNCHANGED <<query, m_writeBuffer, running, remote_running, destroyed,
                 results, hpc, lpc, remote>>

(* An operation fails: the queues are emptied, without their locks, and the*)
(* loop is stopped.                                                        *)
ClearAll ==
  /\ m_writeBuffer' = <<>> /\ r_writeBuffer' = <<>>
  /\ remote_running' = FALSE

LocalFail ==
  /\ lpc = "work" /\ lBatch # <<>>
  /\ Head(lBatch).id # Wake
  /\ LocalResult(Head(lBatch), Failed)
  /\ ClearAll
  /\ lBatch' = <<>>
  /\ flag' = FALSE
  /\ lpc' = "stop"
  /\ UNCHANGED <<query, running, destroyed, hpc, remote>>

(* At the end of a batch: no video of it went to the remote thread, that   *)
(* thread is not busy, and both queues are empty, read one after the other.*)
LocalTest ==
  /\ \/ /\ lpc = "work" /\ lBatch = <<>>
        /\ lpc' = IF ~flag /\ ~remote_running THEN "m_size" ELSE "loop"
     \/ /\ lpc = "m_size"
        /\ lpc' = IF m_writeBuffer = <<>> THEN "r_size" ELSE "loop"
     \/ /\ lpc = "r_size"
        /\ lpc' = IF r_writeBuffer = <<>> THEN "stop" ELSE "loop"
  /\ UNCHANGED <<query, queues, running, remote_running, destroyed, results,
                 hpc, lBatch, flag, remote>>

LocalStop ==
  /\ \/ /\ lpc = "stop"
        /\ m_running' = FALSE /\ UNCHANGED r_running
        /\ lpc' = "stop_r"
     \/ /\ lpc = "stop_r"
        /\ r_running' = FALSE /\ UNCHANGED m_running
        /\ lpc' = "loop"
  /\ UNCHANGED <<query, queues, remote_running, destroyed, results, hpc,
                 lBatch, flag, remote>>

Local ==
  LocalLoop \/ LocalTake \/ LocalDone \/ LocalToRemote \/ LocalFail \/ LocalTest
  \/ LocalStop

-----------------------------------------------------------------------------
(* The remote thread, remoteOperationThread.                               *)

RemoteLoop ==
  /\ rpc = "loop"
  /\ rpc' = IF r_running THEN "wait" ELSE "exit"
  /\ UNCHANGED <<query, queues, running, remote_running, destroyed, results,
                 hpc, local, rBatch>>

(* The queue is taken when all videos are there; else the thread spins.    *)
RemoteTake ==
  /\ rpc = "wait"
  /\ r_writeBuffer # <<>>
  /\ \/ /\ Len(r_writeBuffer) = N
        /\ rBatch' = r_writeBuffer /\ r_writeBuffer' = rBatch
     \/ Len(r_writeBuffer) # N /\ UNCHANGED <<rBatch, r_writeBuffer>>
  /\ rpc' = "test"
  /\ UNCHANGED <<query, m_writeBuffer, running, remote_running, destroyed,
                 results, hpc, local>>

(* Bug: the element that wakes up the thread counts as a video. *)
RemoteTest_ignoresDestroyed ==
  /\ rpc = "test"
  /\ rpc' = IF Len(rBatch) = N THEN "mark" ELSE "loop"
  /\ UNCHANGED <<query, queues, running, remote_running, destroyed, results,
                 hpc, local, rBatch>>

RemoteTest ==
  /\ rpc = "test"
  /\ rpc' = IF Len(rBatch) = N /\ ~destroyed THEN "mark" ELSE "loop"
  /\ UNCHANGED <<query, queues, running, remote_running, destroyed, results,
                 hpc, local, rBatch>>

RemoteMark ==
  /\ rpc = "mark"
  /\ remote_running' = TRUE
  /\ rpc' = "call"
  /\ UNCHANGED <<query, queues, running, destroyed, results, hpc, local, rBatch>>

(* All services have answered. *)
RemoteCall ==
  /\ rpc = "call"
  /\ rpc' = "finish"
  /\ UNCHANGED <<query, queues, running, remote_running, destroyed, results,
                 hpc, local, rBatch>>

(* One has not, or not with success; the first video gets the error.       *)
RemoteFail ==
  /\ rpc = "call"
  /\ videoMap' = [videoMap EXCEPT ![Head(rBatch).id] = Failed]
  /\ ClearAll
  /\ rBatch' = <<>>
  /\ rpc' = "stop"
  /\ UNCHANGED <<query, running, destroyed, torn, hpc, local>>

(* Video by video, the result goes into videoMap and the video back to the *)
(* local thread; _remote_running is reset before the last one goes.        *)
RemoteInsert ==
  /\ rpc = "finish"
  /\ rpc' = "insert"
  /\ UNCHANGED <<query, queues, running, remote_running, destroyed, results,
                 hpc, local, rBatch>>

RemoteInserted ==
  /\ rpc = "insert"
  /\ videoMap' = [videoMap EXCEPT ![Head(rBatch).id] = Head(rBatch).left]
  /\ remote_running' = (remote_running /\ Len(rBatch) # 1)
  /\ rpc' = "enqueue"
  /\ UNCHANGED <<query, queues, running, destroyed, torn, hpc, local, rBatch>>

RemoteEnqueue ==
  /\ rpc = "enqueue"
  /\ Enqueue(Head(rBatch))
  /\ rBatch' = Tail(rBatch)
  /\ rpc' = IF Len(rBatch) = 1 THEN "unmark" ELSE "finish"
  /\ UNCHANGED <<query, r_writeBuffer, running, remote_running, destroyed,
                 results, hpc, local>>

RemoteUnmark ==
  /\ rpc = "unmark"
  /\ remote_running' = FALSE
  /\ rpc' = "loop"
  /\ UNCHANGED <<query, queues, running, destroyed, results, hpc, local, rBatch>>

RemoteStop ==
  /\ \/ /\ rpc = "stop"
        /\ m_running' = FALSE /\ UNCHANGED r_running
        /\ rpc' = "stop_r"
     \/ /\ rpc = "stop_r"
        /\ r_running' = FALSE /\ UNCHANGED m_running
        /\ rpc' = "unmark"
  /\ UNCHANGED <<query, queues, remote_running, destroyed, results, hpc, local,
                 rBatch>>

Remote ==
  RemoteLoop \/ RemoteTake \/ RemoteTest \/ RemoteMark \/ RemoteCall \/ RemoteFail
  \/ RemoteInsert \/ RemoteInserted \/ RemoteEnqueue \/ RemoteUnmark \/ RemoteStop

-----------------------------------------------------------------------------
Ended == hpc \in {"done", "crashed"}

Terminated == Ended /\ UNCHANGED vars

Next == Handler \/ Local \/ Remote \/ Terminated

Spec == Init /\ [][Next]_vars

(* The system runs every thread that can run, and remote services answer.  *)
Fairness ==
  /\ WF_vars(Handler) /\ WF_vars(Local) /\ WF_vars(Remote)

FairSpec == Spec /\ Fairness

-----------------------------------------------------------------------------
InFlight == m_writeBuffer \o lBatch \o r_writeBuffer \o rBatch
Copies(q, v) == Cardinality({i \in 1..Len(q) : q[i].id = v})

Failure == \E v \in Videos : videoMap[v] = Failed

(* No hand-over between the threads loses or duplicates a video: each one  *)
(* the handler sent is with one thread or in one queue, or has its result, *)
(* until an error empties the queues.                                      *)
OnePlace ==
  /\ \A v \in Videos : Copies(InFlight, v) <= 1
  /\ ~Failure /\ ~torn =>
       \A v \in sent : Copies(InFlight, v) = 0 => videoMap[v] = 0

(* When the handler collects the results, no error and no race on videoMap *)
(* having occurred, the remote thread does not use that map any more: a    *)
(* video it still has is the last of its batch, on its way to the local    *)
(* queue.  Videos left in the local queue are those of AllTasksCompleted.  *)
AnswerComplete ==
  hpc = "answer" /\ ~Failure /\ ~torn =>
    /\ lBatch = <<>> /\ r_writeBuffer = <<>>
    /\ rBatch # <<>> => rpc = "enqueue" /\ Len(rBatch) = 1

(* A count of queued elements decides when the services are called: it is  *)
(* the videos of the query, each once and all in the same round, even if   *)
(* the destructor adds elements of its own.                                *)
BatchWhole ==
  rpc \in {"mark", "call"} =>
    /\ \A v \in Videos : Copies(rBatch, v) = 1
    /\ \A i, j \in 1..Len(rBatch) : rBatch[i].left = rBatch[j].left

(* The comment in operationThread says of the test at the end of a batch:  *)
(* "All eventloop tasks are completed".                                    *)
AllTasksCompleted ==
  lpc = "stop" /\ hpc = "send" /\ ~Failure =>
    \A v \in Videos : videoMap[v] = 0 /\ Copies(InFlight, v) = 0

(* However the threads interleave, whatever fails, FindVideo gets past its *)
(* loop: no lost wakeup, no spinning for ever, no thread that cannot be    *)
(* joined.                                                                 *)
Returns == <>Ended

=============================================================================
