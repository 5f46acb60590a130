---------------------------- MODULE CommManager ----------------------------
(***************************************************************************)
(* The connection thread pool of the server (src/src/CommunicationManager  *)
(* .cc) with the two threads that drive it: the request thread, which      *)
(* accepts connections (Server::process_requests), and the main thread,    *)
(* which joins the request thread and then runs ~Server.                   *)
(*                                                                         *)
(* A critical section of the code is one step.  What runs outside a lock   *)
(* (the flag _shutdown, the destructor's walk over _conn_list, a notify    *)
(* after the unlock) is a step of its own.                                 *)
(***************************************************************************)
EXTENDS Naturals, Sequences, FiniteSets

CONSTANTS
  Threads,   \* the pool (_pool): min(max_simultaneous_clients, 500) threads
  Conns,     \* connections that clients may open during a run
  NULL,      \* the null pointer that shutdown() pushes, and "no connection"
  End        \* _conn_list.end()

ASSUME PoolAssumption ==
  /\ Threads # {}
  /\ NULL \notin Conns
  /\ End \notin Conns
  /\ NULL # End

VARIABLES
  srvStop,   \* Server::shutdown, set by the signal handler
  cmStop,    \* CommunicationManager::_shutdown
  workq,     \* _workq
  connList,  \* _conn_list (its order only matters to the walk, see Walk)
  wpc,       \* program counter of each pool thread
  cur,       \* the connection a pool thread holds
  sock,      \* state of each connection object and its socket
  rpc,       \* program counter of the request thread
  racc,      \* the connection the request thread accepted, not yet queued
  mpc,       \* program counter of the main thread
  iter,      \* the destructor's iterator over _conn_list
  todo       \* the elements of _conn_list behind that iterator

vars == <<srvStop, cmStop, workq, connList, wpc, cur, sock, rpc, racc, mpc, iter,
          todo>>

-----------------------------------------------------------------------------

WorkerPC == {"top", "asleep", "popped", "serving", "leaving", "done"}
SockState == {"none", "open", "peerClosed", "shut", "deleted"}
RequestPC == {"head", "accept", "push", "notify", "gone"}
MainPC == {"joinRequest", "setFlag", "pushNull", "notifyOne", "notifyAll",
           "walk", "joinPool", "destroyed"}

TypeOK ==
  /\ srvStop \in BOOLEAN
  /\ cmStop \in BOOLEAN
  /\ workq \in Seq(Conns \cup {NULL})
  /\ connList \in SUBSET Conns
  /\ wpc \in [Threads -> WorkerPC]
  /\ cur \in [Threads -> Conns \cup {NULL}]
  /\ sock \in [Conns -> SockState]
  /\ rpc \in RequestPC
  /\ racc \in Conns \cup {NULL}
  /\ mpc \in MainPC
  /\ iter \in Conns \cup {End}
  /\ todo \in SUBSET Conns

Init ==
  /\ srvStop = FALSE
  /\ cmStop = FALSE
  /\ workq = <<>>
  /\ connList = {}
  /\ wpc = [t \in Threads |-> "top"]
  /\ cur = [t \in Threads |-> NULL]
  /\ sock = [c \in Conns |-> "none"]
  /\ rpc = "head"
  /\ racc = NULL
  /\ mpc = "joinRequest"
  /\ iter = End
  /\ todo = {}

Queued(c) == \E i \in DOMAIN workq : workq[i] = c
Asleep == {t \in Threads : wpc[t] = "asleep"}
Held == {"popped", "serving", "leaving"}   \* where a thread holds a connection

(***************************************************************************)
(* notify_one on _cv wakes one sleeping thread, if there is one.           *)
(***************************************************************************)
NotifyOne_lost == UNCHANGED wpc   \* bug: nobody is woken

NotifyOne ==
  \/ /\ Asleep = {}
     /\ UNCHANGED wpc
  \/ \E t \in Asleep : wpc' = [wpc EXCEPT ![t] = "top"]

(***************************************************************************)
(* The destructor's iterator moves to the next of the elements left, in    *)
(* list order, which nothing here depends on.  Insertions go to the front  *)
(* of the list, so the walk never meets a connection newer than its start. *)
(***************************************************************************)
Advance_toNull(left) ==   \* bug: the end is not the list's end
  \/ /\ left = {}
     /\ iter' = NULL
     /\ todo' = {}
  \/ \E c \in left :
       /\ iter' = c
       /\ todo' = left \ {c}

Advance(left) ==
  \/ /\ left = {}
     /\ iter' = End
     /\ todo' = {}
  \/ \E c \in left :
       /\ iter' = c
       /\ todo' = left \ {c}

-----------------------------------------------------------------------------
(* Pool threads: process_queue.                                            *)

(* _cv.wait with its predicate, under _mlock: an empty queue puts the      *)
(* thread to sleep, _shutdown ends it and leaves the queue alone, else it  *)
(* pops; a NULL is dropped.                                                *)
WorkerSleep(t) ==
  /\ wpc[t] = "top"
  /\ workq = <<>>
  /\ wpc' = [wpc EXCEPT ![t] = "asleep"]
  /\ UNCHANGED <<srvStop, cmStop, workq, connList, cur, sock, rpc, racc, mpc, iter, todo>>

WorkerExit_pops(t) ==   \* bug: pop before looking at the flag
  /\ wpc[t] = "top"
  /\ workq # <<>>
  /\ cmStop
  /\ workq' = Tail(workq)
  /\ wpc' = [wpc EXCEPT ![t] = "done"]
  /\ UNCHANGED <<srvStop, cmStop, connList, cur, sock, rpc, racc, mpc, iter, todo>>

WorkerExit(t) ==
  /\ wpc[t] = "top"
  /\ workq # <<>>
  /\ cmStop
  /\ wpc' = [wpc EXCEPT ![t] = "done"]
  /\ UNCHANGED <<srvStop, cmStop, workq, connList, cur, sock, rpc, racc, mpc, iter, todo>>

WorkerPop_noPop(t) ==   \* bug: front() without pop()
  /\ wpc[t] = "top"
  /\ workq # <<>>
  /\ ~cmStop
  /\ cur' = [cur EXCEPT ![t] = Head(workq)]
  /\ wpc' = [wpc EXCEPT ![t] = IF Head(workq) = NULL THEN "top" ELSE "popped"]
  /\ UNCHANGED <<srvStop, cmStop, workq, connList, sock, rpc, racc, mpc, iter, todo>>

WorkerPop(t) ==
  /\ wpc[t] = "top"
  /\ workq # <<>>
  /\ ~cmStop
  /\ workq' = Tail(workq)
  /\ cur' = [cur EXCEPT ![t] = Head(workq)]
  /\ wpc' = [wpc EXCEPT ![t] = IF Head(workq) = NULL THEN "top" ELSE "popped"]
  /\ UNCHANGED <<srvStop, cmStop, connList, sock, rpc, racc, mpc, iter, todo>>

(* _conn_list.insert(begin(), c) under _conn_list_lock.                    *)
WorkerEnlist(t) ==
  /\ wpc[t] = "popped"
  /\ connList' = connList \cup {cur[t]}
  /\ wpc' = [wpc EXCEPT ![t] = "serving"]
  /\ UNCHANGED <<srvStop, cmStop, workq, cur, sock, rpc, racc, mpc, iter, todo>>

(* process_connection returns: its socket reports an ExceptionComm, because*)
(* the peer closed it or the destructor shut it down.                      *)
WorkerLeave(t) ==
  /\ wpc[t] = "serving"
  /\ sock[cur[t]] \in {"peerClosed", "shut"}
  /\ wpc' = [wpc EXCEPT ![t] = "leaving"]
  /\ UNCHANGED <<srvStop, cmStop, workq, connList, cur, sock, rpc, racc, mpc, iter, todo>>

WorkerRelease_noErase(t) ==   \* bug: delete c without the erase
  /\ wpc[t] = "leaving"
  /\ sock' = [sock EXCEPT ![cur[t]] = "deleted"]
  /\ cur' = [cur EXCEPT ![t] = NULL]
  /\ wpc' = [wpc EXCEPT ![t] = "top"]
  /\ UNCHANGED <<srvStop, cmStop, workq, connList, rpc, racc, mpc, iter, todo>>

(* _conn_list.erase(c_it); delete c -- under _conn_list_lock.              *)
WorkerRelease(t) ==
  /\ wpc[t] = "leaving"
  /\ connList' = connList \ {cur[t]}
  /\ todo' = todo \ {cur[t]}
  /\ sock' = [sock EXCEPT ![cur[t]] = "deleted"]
  /\ cur' = [cur EXCEPT ![t] = NULL]
  /\ wpc' = [wpc EXCEPT ![t] = "top"]
  /\ UNCHANGED <<srvStop, cmStop, workq, rpc, racc, mpc, iter>>

-----------------------------------------------------------------------------
(* The request thread: Server::process_requests.                           *)

RequestHead ==
  /\ rpc = "head"
  /\ rpc' = IF srvStop THEN "gone" ELSE "accept"
  /\ UNCHANGED <<srvStop, cmStop, workq, connList, wpc, cur, sock, racc, mpc, iter, todo>>

(* accept() returns a client's connection...                               *)
RequestAccept ==
  /\ rpc = "accept"
  /\ \E c \in Conns :
       /\ sock[c] = "none"
       /\ sock' = [sock EXCEPT ![c] = "open"]
       /\ racc' = c
  /\ rpc' = "push"
  /\ UNCHANGED <<srvStop, cmStop, workq, connList, wpc, cur, mpc, iter, todo>>

(* ...or throws (a failed handshake, a signal), which the loop swallows.   *)
RequestAcceptFails ==
  /\ rpc = "accept"
  /\ rpc' = "head"
  /\ UNCHANGED <<srvStop, cmStop, workq, connList, wpc, cur, sock, racc, mpc, iter, todo>>

RequestPush_overwrites ==   \* bug: a queue of one slot
  /\ rpc = "push"
  /\ workq' = <<racc>>
  /\ racc' = NULL
  /\ rpc' = "notify"
  /\ UNCHANGED <<srvStop, cmStop, connList, wpc, cur, sock, mpc, iter, todo>>

RequestPush_front ==   \* bug: the newest connection goes first
  /\ rpc = "push"
  /\ workq' = <<racc>> \o workq
  /\ racc' = NULL
  /\ rpc' = "notify"
  /\ UNCHANGED <<srvStop, cmStop, connList, wpc, cur, sock, mpc, iter, todo>>

(* add_connection: push under _mlock, then notify_one outside it.          *)
RequestPush ==
  /\ rpc = "push"
  /\ workq' = Append(workq, racc)
  /\ racc' = NULL
  /\ rpc' = "notify"
  /\ UNCHANGED <<srvStop, cmStop, connList, wpc, cur, sock, mpc, iter, todo>>

RequestNotify ==
  /\ rpc = "notify"
  /\ NotifyOne
  /\ rpc' = "head"
  /\ UNCHANGED <<srvStop, cmStop, workq, connList, cur, sock, racc, mpc, iter, todo>>

-----------------------------------------------------------------------------
(* Main thread: pthread_join of the request thread, then ~Server, that is  *)
(* _cm->shutdown(); delete _cm; PMGDQueryHandler::destroy().               *)

MainJoinRequest ==
  /\ mpc = "joinRequest"
  /\ rpc = "gone"
  /\ mpc' = "setFlag"
  /\ UNCHANGED <<srvStop, cmStop, workq, connList, wpc, cur, sock, rpc, racc, iter, todo>>

MainSetFlag ==
  /\ mpc = "setFlag"
  /\ cmStop' = TRUE
  /\ mpc' = "pushNull"
  /\ UNCHANGED <<srvStop, workq, connList, wpc, cur, sock, rpc, racc, iter, todo>>

MainPushNull ==
  /\ mpc = "pushNull"
  /\ workq' = Append(workq, NULL)
  /\ mpc' = "notifyOne"
  /\ UNCHANGED <<srvStop, cmStop, connList, wpc, cur, sock, rpc, racc, iter, todo>>

MainNotifyOne ==
  /\ mpc = "notifyOne"
  /\ NotifyOne
  /\ mpc' = "notifyAll"
  /\ UNCHANGED <<srvStop, cmStop, workq, connList, cur, sock, rpc, racc, iter, todo>>

MainNotifyAll_none ==   \* bug: notify_one is taken to be enough
  /\ mpc = "notifyAll"
  /\ Advance(connList)
  /\ mpc' = "walk"
  /\ UNCHANGED <<srvStop, cmStop, workq, connList, wpc, cur, sock, rpc, racc>>

(* notify_all, then the destructor's loop takes _conn_list.begin().        *)
MainNotifyAll ==
  /\ mpc = "notifyAll"
  /\ wpc' = [t \in Threads |-> IF wpc[t] = "asleep" THEN "top" ELSE wpc[t]]
  /\ Advance(connList)
  /\ mpc' = "walk"
  /\ UNCHANGED <<srvStop, cmStop, workq, connList, cur, sock, rpc, racc>>

(***************************************************************************)
(* One turn of the destructor's loop, which takes no lock: shut the        *)
(* connection down and advance.  When the element under the iterator was   *)
(* erased meanwhile, advancing reads freed memory: the walk goes on        *)
(* somewhere or ends.                                                      *)
(***************************************************************************)
Walk ==
  /\ mpc = "walk"
  /\ iter \in connList
  /\ sock' = [sock EXCEPT ![iter] = "shut"]
  /\ Advance(todo)
  /\ UNCHANGED <<srvStop, cmStop, workq, connList, wpc, cur, rpc, racc, mpc>>

WalkFreed ==
  /\ mpc = "walk"
  /\ iter \notin connList \cup {End}
  /\ \E rest \in SUBSET todo : Advance(rest)
  /\ UNCHANGED <<srvStop, cmStop, workq, connList, wpc, cur, sock, rpc, racc, mpc>>

WalkEnd ==
  /\ mpc = "walk"
  /\ iter = End
  /\ mpc' = "joinPool"
  /\ UNCHANGED <<srvStop, cmStop, workq, connList, wpc, cur, sock, rpc, racc, iter, todo>>

(* Join every thread of the pool, then destroy the database.               *)
MainDestroy ==
  /\ mpc = "joinPool"
  /\ \A t \in Threads : wpc[t] = "done"
  /\ mpc' = "destroyed"
  /\ UNCHANGED <<srvStop, cmStop, workq, connList, wpc, cur, sock, rpc, racc, iter, todo>>

-----------------------------------------------------------------------------
(* Outside the server: the signal handler and the clients.                 *)

Signal ==
  /\ ~srvStop
  /\ srvStop' = TRUE
  /\ UNCHANGED <<cmStop, workq, connList, wpc, cur, sock, rpc, racc, mpc, iter, todo>>

ClientClose(c) ==
  /\ sock[c] = "open"
  /\ sock' = [sock EXCEPT ![c] = "peerClosed"]
  /\ UNCHANGED <<srvStop, cmStop, workq, connList, wpc, cur, rpc, racc, mpc, iter, todo>>

-----------------------------------------------------------------------------

WorkerStep(t) ==
  \/ WorkerSleep(t)
  \/ WorkerExit(t)
  \/ WorkerPop(t)
  \/ WorkerEnlist(t)
  \/ WorkerLeave(t)
  \/ WorkerRelease(t)

RequestStep ==
  \/ RequestHead
  \/ RequestAccept
  \/ RequestAcceptFails
  \/ RequestPush
  \/ RequestNotify

MainStep ==
  \/ MainJoinRequest
  \/ MainSetFlag
  \/ MainPushNull
  \/ MainNotifyOne
  \/ MainNotifyAll
  \/ Walk
  \/ WalkFreed
  \/ WalkEnd
  \/ MainDestroy

(* main has returned: nothing is left to run.                              *)
Ended ==
  /\ mpc = "destroyed"
  /\ UNCHANGED vars

Next ==
  \/ \E t \in Threads : WorkerStep(t)
  \/ RequestStep
  \/ MainStep
  \/ Signal
  \/ \E c \in Conns : ClientClose(c)
  \/ Ended

(***************************************************************************)
(* The operating system runs every thread that can run.  Nothing is        *)
(* assumed of the clients (they need not close, nor connect) or of the     *)
(* operator (the signal may never come).                                   *)
(***************************************************************************)
Fairness ==
  /\ \A t \in Threads : WF_vars(WorkerStep(t))
  /\ WF_vars(RequestHead \/ RequestPush \/ RequestNotify)
  /\ WF_vars(MainStep)

Spec == Init /\ [][Next]_vars
FairSpec == Spec /\ Fairness

-----------------------------------------------------------------------------
(* Safety.                                                                 *)

Live(c) == sock[c] \notin {"none", "deleted"}

(* A connection object has one owner at a time: the request thread that    *)
(* accepted it, one slot of _workq, or one pool thread; none of these has  *)
(* a pointer to an object that "delete c" freed.  The walk of the          *)
(* destructor is not an owner: it may read an element that a pool thread   *)
(* has freed (CommunicationManager.cc:97, WalkFreed).                      *)
OneOwner ==
  \A c \in Conns :
    /\ racc = c => Live(c) /\ ~Queued(c) /\ \A t \in Threads : cur[t] # c
    /\ Queued(c) => Live(c) /\ \A t \in Threads : cur[t] # c
    /\ \A i, j \in DOMAIN workq : workq[i] = c /\ workq[j] = c => i = j
    /\ \A t \in Threads : cur[t] = c => Live(c)
    /\ \A t, u \in Threads : cur[t] = c /\ cur[u] = c => t = u

(* No accepted connection is forgotten: until it is deleted, someone has   *)
(* it (at shutdown, possibly only the queue).                              *)
NoLostConnection ==
  \A c \in Conns :
    Live(c) => racc = c \/ Queued(c) \/ \E t \in Threads : cur[t] = c

(* _conn_list holds exactly the connections being served, which is what    *)
(* the destructor relies on to unblock every pool thread.                  *)
ListedAreServed ==
  connList = {cur[t] : t \in {u \in Threads : wpc[u] \in {"serving", "leaving"}}}

(* One NULL ends the whole pool because no thread consumes it: after       *)
(* shutdown() pushed it the queue never is empty again, and no thread that *)
(* reaches the wait goes to sleep.                                         *)
PoisonStays ==
  mpc \notin {"joinRequest", "setFlag", "pushNull"} => cmStop /\ Queued(NULL)

(***************************************************************************)
(* What the destructor's comment says of its loop: it kills all            *)
(* connections, else a handler would stay blocked in process_connection.   *)
(* The code does not do this for a connection whose thread popped it       *)
(* before the flag was set and enlists it after the walk started.          *)
(***************************************************************************)
AllConnectionsKilled ==
  mpc = "joinPool" =>
    \A t \in Threads : wpc[t] = "serving" => sock[cur[t]] # "open"

(* Liveness.                                                               *)

(* No wakeup is lost: it never stays so that a connection is queued, the   *)
(* server is running and a pool thread has nothing to do.                  *)
NoIdleThreadWhileQueued ==
  []<>(workq = <<>> \/ cmStop \/ \A t \in Threads : wpc[t] \in Held)

(* Shutdown completes, without any help of the clients, unless a           *)
(* connection escaped the walk and its client keeps it open.               *)
Escaped ==
  mpc = "joinPool" /\ \E t \in Threads : wpc[t] = "serving" /\ sock[cur[t]] = "open"

ShutdownCompletes ==
  mpc = "setFlag" ~> (mpc = "destroyed" \/ Escaped)

-----------------------------------------------------------------------------
(* Refinement.  The line of ConnService is the work queue behind which the *)
(* request thread stands with the connection it has just accepted; a       *)
(* thread serves from the pop to the delete.                               *)
Service ==
  INSTANCE ConnService WITH
    line <- IF racc = NULL THEN workq ELSE Append(workq, racc),
    serves <- cur,
    left <- {c \in Conns : sock[c] = "deleted"}

(* What clients may rely on, whatever the interleaving of the threads and  *)
(* of the shutdown: connections are taken up in the order of accept(),     *)
(* each by one thread and once, and none after the line was closed.        *)
Promise == Service!Spec

=============================================================================
