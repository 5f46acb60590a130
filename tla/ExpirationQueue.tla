-------------------------- MODULE ExpirationQueue --------------------------
(***************************************************************************)
(* How nodes with the property _expiration are deleted when their time has *)
(* come: the sorted list _expiration_timestamp_queue of PMGDQueryHandler,  *)
(* the graph commands that insert into it and erase from it, the periodic  *)
(* DeleteExpired command, and the rebuilding of the list at a start.       *)
(*                                                                         *)
(* An entry of the list is a deadline and the address of a node.  Only the *)
(* graph is transactional: an abort undoes the writes to nodes but leaves  *)
(* the list as it is, and the address of a node that never was committed   *)
(* may be given to another one.  Transactions run one at a time here; the  *)
(* races between them are in QueryTx.                                      *)
(***************************************************************************)
EXTENDS Integers, Sequences, SequencesExt

CONSTANTS
  Slots,       \* addresses in the node table of the graph
  MediaSlots,  \* those that images and videos get
  MaxTime,     \* the clock stops here
  Ttls,        \* times to live clients ask for
  Updates,     \* values clients write to _expiration, 0 to remove it
  MaxCmds,     \* bound: commands of one query
  MaxQueue,    \* bound: length of the list
  MaxCrashes   \* bound: crashes and restarts of a run

ASSUME BoundsAssumption ==
  /\ MediaSlots \subseteq Slots
  /\ MaxTime \in Nat \ {0}
  /\ Ttls \subseteq Nat
  /\ Updates \subseteq 0..MaxTime
  /\ MaxCmds \in Nat
  /\ MaxQueue \in Nat
  /\ MaxCrashes \in Nat

VARIABLES
  graph,      \* the nodes as the open transaction sees them
  committed,  \* the nodes of the last committed transaction
  queue,      \* _expiration_timestamp_queue
  clock,      \* system_clock in seconds
  phase,      \* what the open transaction is doing
  now,        \* current_timestamp of delete_expired_nodes, 0 before its call
  serving,    \* the server has finished starting
  cmds,       \* commands of the open query, against MaxCmds
  crashes,    \* crashes, against MaxCrashes
  touched,    \* history: slots whose entries the open transaction changed
  moved,      \* history: slots whose _expiration it overwrote
  loose       \* history: slots for which list and graph may disagree

data == <<graph, committed, queue>>
control == <<phase, now, serving, crashes>>
history == <<touched, moved, loose>>
vars == <<data, clock, control, cmds, history>>

(* A slot holds no node, or a node given by its property _expiration.      *)
Free == -1
Never == 0    \* no such property
Nodes == Never..MaxTime
Entries == [at : 0..MaxTime, slot : Slots]

TypeOK ==
  /\ graph \in [Slots -> Nodes \cup {Free}]
  /\ committed \in [Slots -> Nodes \cup {Free}]
  /\ queue \in Seq(Entries)
  /\ clock \in 1..MaxTime
  /\ phase \in {"idle", "open", "purge", "scan"}
  /\ now \in 0..MaxTime
  /\ serving \in BOOLEAN
  /\ cmds \in 0..MaxCmds
  /\ crashes \in 0..MaxCrashes
  /\ touched \subseteq Slots
  /\ moved \subseteq Slots
  /\ loose \subseteq Slots

-----------------------------------------------------------------------------
(* The list.                                                               *)

(* Bug: the front is never compared. *)
InsertsAt_noFront(q, at, k) ==
  \/ /\ q # <<>> => at >= q[Len(q)].at
     /\ k = Len(q) + 1
  \/ /\ q # <<>> /\ at < q[Len(q)].at
     /\ k = 2

(* Where insert_into_queue puts a new deadline: behind the last entry if   *)
(* it is not earlier than that one; else behind the first entry that is    *)
(* earlier, looking from the back and stopping before the front; else      *)
(* before the front or just behind it.                                     *)
InsertsAt(q, at, k) ==
  \/ /\ q # <<>> => at >= q[Len(q)].at
     /\ k = Len(q) + 1
  \/ /\ q # <<>> /\ at < q[Len(q)].at
     /\ \/ /\ k \in 3..Len(q)
           /\ q[k - 1].at < at
           /\ \A j \in k..Len(q) : q[j].at >= at
        \/ /\ \A j \in 2..Len(q) : q[j].at >= at
           /\ k = IF at < q[1].at THEN 1 ELSE 2

(* delete_by_value erases the first entry of a node, if there is one.      *)
ErasesAt(q, s, k) ==
  /\ k \in 1..Len(q)
  /\ q[k].slot = s
  /\ \A j \in 1..(k - 1) : q[j].slot # s

Tracked(q, s) == \E k \in 1..Len(q) : q[k].slot = s

-----------------------------------------------------------------------------
Init ==
  /\ graph = [s \in Slots |-> Free]
  /\ committed = graph
  /\ queue = <<>>
  /\ clock = 1
  /\ phase = "idle"
  /\ now = 0
  /\ serving = TRUE
  /\ cmds = 0
  /\ crashes = 0
  /\ touched = {} /\ moved = {} /\ loose = {}

Tick ==
  /\ clock < MaxTime
  /\ clock' = clock + 1
  /\ UNCHANGED <<data, control, cmds, history>>

-----------------------------------------------------------------------------
(* Queries.                                                                *)

Begin ==
  /\ phase = "idle"
  /\ phase' = "open"
  /\ UNCHANGED <<data, clock, now, serving, cmds, crashes, history>>

(* The open query of a client executes one more command. *)
Command ==
  /\ phase = "open" /\ serving
  /\ cmds < MaxCmds
  /\ cmds' = cmds + 1

(* Bug: the time to live is added twice. *)
AddExpiring_ttlTwice(s, ttl) ==
  /\ Command
  /\ graph[s] = Free
  /\ clock + ttl <= MaxTime
  /\ graph' = [graph EXCEPT ![s] = clock + ttl + ttl]
  /\ UNCHANGED <<committed, queue, clock, control, history>>

(* AddNode with _expiration: the time to live counts from now, and the     *)
(* entry goes into the list before the transaction commits.                *)
AddExpiring(s, ttl) ==
  /\ Command
  /\ graph[s] = Free
  /\ clock + ttl <= MaxTime
  /\ Len(queue) < MaxQueue
  /\ graph' = [graph EXCEPT ![s] = clock + ttl]
  /\ \E k \in 1..(Len(queue) + 1) :
       /\ InsertsAt(queue, clock + ttl, k)
       /\ queue' = InsertAt(queue, k, [at |-> clock + ttl, slot |-> s])
  /\ touched' = touched \cup {s}
  /\ UNCHANGED <<committed, clock, control, moved, loose>>

AddPlain(s) ==
  /\ Command
  /\ graph[s] = Free
  /\ graph' = [graph EXCEPT ![s] = Never]
  /\ UNCHANGED <<committed, queue, clock, control, history>>

(* UpdateNode writes or removes _expiration like any other property: an    *)
(* absolute time, and no change of the list.                               *)
UpdateExpiration(s, exp) ==
  /\ Command
  /\ graph[s] # Free
  /\ graph[s] # exp
  /\ graph' = [graph EXCEPT ![s] = exp]
  /\ moved' = moved \cup {s}
  /\ UNCHANGED <<committed, queue, clock, control, touched, loose>>

(* Bug: the entry of a deleted node stays in the list. *)
DeleteResult_keepsEntry(s) ==
  /\ Command
  /\ graph[s] # Free
  /\ graph' = [graph EXCEPT ![s] = Free]
  /\ UNCHANGED <<committed, queue, clock, control, history>>

(* A result of a query with _deletion: its entry is erased, then the node. *)
DeleteResult(s) ==
  /\ Command
  /\ graph[s] # Free
  /\ \/ \E k \in 1..Len(queue) :
          /\ ErasesAt(queue, s, k)
          /\ queue' = RemoveAt(queue, k)
          /\ touched' = touched \cup {s}
     \/ ~Tracked(queue, s) /\ UNCHANGED <<queue, touched>>
  /\ graph' = [graph EXCEPT ![s] = Free]
  /\ UNCHANGED <<committed, clock, control, moved, loose>>

-----------------------------------------------------------------------------
(* DeleteExpired: the clock is read once, then entries are taken from the  *)
(* front of the list while their deadline is before that time.             *)

DeleteExpired ==
  /\ \/ Command
     \/ phase = "open" /\ ~serving /\ UNCHANGED cmds
  /\ now = 0
  /\ phase' = "purge"
  /\ now' = clock
  /\ UNCHANGED <<data, clock, serving, crashes, history>>

(* The autodelete thread sends a query with DeleteExpired alone.           *)
AutoDelete ==
  /\ phase = "idle"
  /\ phase' = "purge"
  /\ now' = clock
  /\ UNCHANGED <<data, clock, serving, cmds, crashes, history>>

(* Bug: a node is deleted in the second of its deadline. *)
FrontDue_atDeadline == phase = "purge" /\ queue # <<>> /\ Head(queue).at <= now

FrontDue == phase = "purge" /\ queue # <<>> /\ Head(queue).at < now

ExpireFront ==
  /\ FrontDue
  /\ graph[Head(queue).slot] # Free
  /\ graph' = [graph EXCEPT ![Head(queue).slot] = Free]
  /\ queue' = Tail(queue)
  /\ touched' = touched \cup {Head(queue).slot}
  /\ UNCHANGED <<committed, clock, control, cmds, moved, loose>>

(* The address holds no node: removing it does nothing, or throws (Abort). *)
ExpireDangling ==
  /\ FrontDue
  /\ graph[Head(queue).slot] = Free
  /\ queue' = Tail(queue)
  /\ touched' = touched \cup {Head(queue).slot}
  /\ UNCHANGED <<graph, committed, clock, control, cmds, moved, loose>>

ExpireDone ==
  /\ phase = "purge"
  /\ ~FrontDue
  /\ phase' = "open"
  /\ UNCHANGED <<data, clock, now, serving, cmds, crashes, history>>

-----------------------------------------------------------------------------
(* The end of a transaction.  The first one of a start is the purge.       *)

Ending == phase = "open" /\ (serving \/ now # 0)

Commit ==
  /\ Ending
  /\ committed' = graph
  /\ loose' = loose \cup moved
  /\ phase' = "idle"
  /\ now' = 0
  /\ cmds' = 0
  /\ serving' = TRUE
  /\ touched' = {} /\ moved' = {}
  /\ UNCHANGED <<graph, queue, clock, crashes>>

(* A command fails, or the front entry of the list points to no node.      *)
(* PMGD undoes the transaction's writes; nobody restores the list.         *)
Fails ==
  \/ Ending
  \/ FrontDue /\ graph[Head(queue).slot] = Free

Abort ==
  /\ Fails
  /\ graph' = committed
  /\ loose' = loose \cup touched
  /\ phase' = "idle"
  /\ now' = 0
  /\ cmds' = 0
  /\ serving' = TRUE
  /\ touched' = {} /\ moved' = {}
  /\ UNCHANGED <<committed, queue, clock, crashes>>

-----------------------------------------------------------------------------
(* A crash or a shutdown loses the list.  A start queries images and videos*)
(* with _expiration > 0 and inserts them; the JSON of that query is closed *)
(* by a bracket behind FindVideo, so that no other node is looked for.     *)

Expiring(g, s) == g[s] > Never

(* Bug: what expired while the server was down is not looked for. *)
Rebuilt_onlyFuture(s) == s \in MediaSlots /\ Expiring(committed, s) /\ committed[s] > clock

Rebuilt(s) == s \in MediaSlots /\ Expiring(committed, s)

Crash ==
  /\ crashes < MaxCrashes
  /\ crashes' = crashes + 1
  /\ graph' = committed
  /\ queue' = <<>>
  /\ phase' = "scan"
  /\ now' = 0
  /\ cmds' = 0
  /\ serving' = FALSE
  /\ touched' = {} /\ moved' = {}
  /\ loose' = {s \in Slots \ MediaSlots : Expiring(committed, s)}
  /\ UNCHANGED <<committed, clock>>

ScanInsert(s) ==
  /\ phase = "scan"
  /\ Rebuilt(s) /\ ~Tracked(queue, s)
  /\ \E k \in 1..(Len(queue) + 1) :
       /\ InsertsAt(queue, committed[s], k)
       /\ queue' = InsertAt(queue, k, [at |-> committed[s], slot |-> s])
  /\ UNCHANGED <<graph, committed, clock, control, cmds, history>>

ScanDone ==
  /\ phase = "scan"
  /\ \A s \in Slots : Rebuilt(s) => Tracked(queue, s)
  /\ phase' = "open"
  /\ UNCHANGED <<data, clock, now, serving, cmds, crashes, history>>

-----------------------------------------------------------------------------
Client ==
  \/ Begin
  \/ \E s \in Slots :
       \/ AddPlain(s)
       \/ \E ttl \in Ttls : AddExpiring(s, ttl)
       \/ \E exp \in Updates : UpdateExpiration(s, exp)
       \/ DeleteResult(s)
  \/ DeleteExpired
  \/ Commit
  \/ Abort

Purge == ExpireFront \/ ExpireDangling \/ ExpireDone

Start == ScanDone \/ \E s \in Slots : ScanInsert(s)

Next == Client \/ AutoDelete \/ Purge \/ Start \/ Tick \/ Crash

Spec == Init /\ [][Next]_vars

(* Transactions and loops end, the autodelete thread wakes up again and    *)
(* again whatever clients do (strong: clients may open transactions in     *)
(* between), and time passes.                                              *)
Fairness ==
  /\ WF_vars(Purge) /\ WF_vars(Start)
  /\ WF_vars(Commit \/ Abort)
  /\ WF_vars(~serving /\ DeleteExpired)
  /\ SF_vars(AutoDelete)
  /\ WF_vars(Tick)

FairSpec == Spec /\ Fairness

-----------------------------------------------------------------------------
(* Safety.                                                                 *)

(* The list is sorted by deadline, whatever the order of insertions (the   *)
(* purge stops at the first entry that is not due).                        *)
InOrder(q) == \A i, j \in 1..Len(q) : i <= j => q[i].at <= q[j].at

Sorted == InOrder(queue)

(* An expiring node has one entry, with its deadline; others have none.    *)
Matches(q, g, s) ==
  IF Expiring(g, s)
  THEN \E k \in 1..Len(q) :
         /\ q[k] = [at |-> g[s], slot |-> s]
         /\ \A j \in 1..Len(q) : q[j].slot = s => j = k
  ELSE ~Tracked(q, s)

(* List and graph agree, except where an abort undid only the graph, where *)
(* an update set _expiration behind the list's back, and for the nodes a   *)
(* start does not rebuild.                                                 *)
ListMatchesGraph ==
  phase # "scan" =>
    \A s \in Slots \ loose :
      /\ s \notin moved => Matches(queue, graph, s)
      /\ s \notin touched => Matches(queue, committed, s)

Removes(s) ==
  /\ phase = "purge" /\ phase' = "purge"
  /\ graph[s] # Free /\ graph'[s] = Free

(* A purge removes no node, of those where list and graph agree, before    *)
(* its deadline, and does not end before it has removed all that are due.  *)
PurgeExact ==
  [][ \A s \in Slots \ (loose \cup moved) :
        /\ Removes(s) => Expiring(graph, s) /\ graph[s] < now
        /\ phase = "purge" /\ phase' = "open"
             => ~(Expiring(graph, s) /\ graph[s] < now) ]_vars

(* The comment on the autodelete loop in Server.cc says: "delete data      *)
(* expired since startup".  What it deletes had expired.                   *)
OnlyExpiredDeleted ==
  [][\A s \in Slots :
       Removes(s) => Expiring(graph, s) /\ graph[s] < now]_vars

-----------------------------------------------------------------------------
(* Liveness.                                                               *)

Awaits(s) ==
  Expiring(committed, s) /\ committed[s] < MaxTime /\ s \notin loose

(* An entry left by an abort, whose address holds no node.                 *)
Dangling ==
  \E k \in 1..Len(queue) :
    queue[k].slot \in loose /\ committed[queue[k].slot] = Free

(* An expiring node is deleted in the end, unless a dangling entry makes   *)
(* the purges fail.                                                        *)
ExpiredIsDeleted == \A s \in Slots : Awaits(s) ~> (~Awaits(s) \/ Dangling)

=============================================================================
