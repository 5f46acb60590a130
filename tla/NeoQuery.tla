------------------------------ MODULE NeoQuery ------------------------------
(***************************************************************************)
(* The Neo4j query handler: workers that take a connection of the pool,    *)
(* run the commands of a query in one transaction on it and give it back,  *)
(* and the object store that holds the images.  An ill-formed query, or an *)
(* image that cannot be decoded, ends the process.                         *)
(***************************************************************************)
EXTENDS Integers, SequencesExt

CONSTANTS
  NeoWorkers,   \* threads that run queries
  NeoConns,     \* connections of the pool
  NoConn,       \* no connection
  NeoCmds,      \* bound: commands of a query
  NeoQueries    \* bound: queries, and images, of a run

ASSUME NeoAssumption == IsFiniteSet(NeoConns) /\ NoConn \notin NeoConns

VARIABLES
  neoUp,      \* whether the process runs
  connected,  \* _remote_connected of global_s3_connection
  connPool,   \* conn_pool
  neoPc,      \* where each worker is in process_query
  conn,       \* the connection it holds
  neoCmds,    \* the commands of its query
  neoAt,      \* the command it is at
  open4j,         \* the images the transaction open on each connection refers to, or NoTx
  nodes4j,    \* the images committed nodes refer to
  objects,    \* what is in the bucket
  named,      \* names gen_random has given
  answers     \* what the response of each worker says: one entry for each command run

neoVars == <<neoUp, connected, connPool, neoPc, conn, neoCmds, neoAt, open4j, nodes4j, objects,
             named, answers>>

NoTx == {0}    \* no image has the name 0
Commands == {"md_only", "image", "find"}

(***************************************************************************)
(* RemoteConnection: without a connection, or with any error, writing      *)
(* returns false and reading nothing.                                      *)
(***************************************************************************)
RemoteWrite(img) == IF connected THEN {objects, objects \cup {img}} ELSE {objects}
RemoteRead(img) == IF connected /\ img \in objects THEN {{}, {img}} ELSE {{}}

Uploaded_anyway(img, stored) == TRUE   \* bug: the result of the upload is not looked at

Uploaded(img, stored) == img \in stored

(***************************************************************************)
(* The handler.                                                            *)
(***************************************************************************)
NeoInit ==
  /\ neoUp = TRUE
  /\ connected \in BOOLEAN
  /\ connPool = SetToSeq(NeoConns)
  /\ neoPc = [w \in NeoWorkers |-> "idle"]
  /\ conn = [w \in NeoWorkers |-> NoConn]
  /\ neoCmds = [w \in NeoWorkers |-> <<>>]
  /\ neoAt = [w \in NeoWorkers |-> 0]
  /\ open4j = [c \in NeoConns |-> NoTx]
  /\ nodes4j = {}
  /\ objects = {}
  /\ named = 0
  /\ answers = [w \in NeoWorkers |-> <<>>]

Holds(c) == \E w \in NeoWorkers : conn[w] = c

\* get_conn, which waits while all are taken
GetConn(w) ==
  /\ neoPc[w] = "idle" /\ connPool # <<>>
  /\ conn' = [conn EXCEPT ![w] = Head(connPool)]
  /\ connPool' = Tail(connPool)
  /\ neoPc' = [neoPc EXCEPT ![w] = "parse"]
  /\ UNCHANGED <<neoUp, connected, neoCmds, neoAt, open4j, nodes4j, objects, named,
                 answers>>

\* a query that does not pass the checks becomes an object, which has no element 0
Malformed(w) ==
  /\ neoPc[w] = "parse"
  /\ neoUp' = FALSE
  /\ UNCHANGED <<connected, connPool, neoPc, conn, neoCmds, neoAt, open4j, nodes4j, objects, named,
                 answers>>

\* the server lets go a transaction that was left open when its time is over; before that
\* none can be begun on the connection
OpenTx(w) == neoPc[w] = "parse" /\ \E cmds \in BoundedSeq(Commands, NeoCmds) :
  /\ neoCmds' = [neoCmds EXCEPT ![w] = cmds]
  /\ neoAt' = [neoAt EXCEPT ![w] = 1]
  /\ open4j' = [open4j EXCEPT ![conn[w]] = {}]
  /\ neoPc' = [neoPc EXCEPT ![w] = "commands"]
  /\ UNCHANGED <<neoUp, connected, connPool, conn, nodes4j, objects, named, answers>>

\* begin on an open transaction fails, and the commands run in no transaction
OpenTxFails(w) ==
  /\ neoPc[w] = "parse" /\ open4j[conn[w]] # NoTx
  /\ neoUp' = FALSE
  /\ UNCHANGED <<connected, connPool, neoPc, conn, neoCmds, neoAt, open4j, nodes4j, objects, named,
                 answers>>

Running4j(w, op) ==
  neoPc[w] = "commands" /\ neoAt[w] <= Len(neoCmds[w]) /\ neoCmds[w][neoAt[w]] = op

Answered(w, entry) ==
  /\ answers' = [answers EXCEPT ![w] = Append(@, entry)]
  /\ neoAt' = [neoAt EXCEPT ![w] = @ + 1]
  /\ neoPc' = neoPc

NeoAddMetadata(w) ==
  /\ Running4j(w, "md_only")
  /\ Answered(w, {})
  /\ UNCHANGED <<neoUp, connected, connPool, conn, neoCmds, open4j, nodes4j, objects, named>>

\* the image is stored under a new name before the cypher with the name runs; a failure
\* ends the loop and says nothing in the response
NeoAddImage(w) ==
  /\ Running4j(w, "image") /\ named < NeoQueries
  /\ named' = named + 1
  /\ \E stored \in RemoteWrite(named') :
       /\ objects' = stored
       /\ IF Uploaded(named', stored)
          THEN /\ open4j' = [open4j EXCEPT ![conn[w]] = @ \cup {named'}]
               /\ Answered(w, {})
          ELSE /\ neoPc' = [neoPc EXCEPT ![w] = "failed"]
               /\ UNCHANGED <<open4j, answers, neoAt>>
  /\ UNCHANGED <<neoUp, connected, connPool, conn, neoCmds, nodes4j>>

\* the image cannot be decoded
NeoAddExits(w) ==
  /\ Running4j(w, "image")
  /\ neoUp' = FALSE
  /\ UNCHANGED <<connected, connPool, neoPc, conn, neoCmds, neoAt, open4j, nodes4j, objects, named,
                 answers>>

\* the images are read one after the other; the first that fails ends it, without an error
\* in the response
NeoFindImages(w) ==
  /\ Running4j(w, "find")
  /\ \E found \in SUBSET (nodes4j \cup open4j[conn[w]]) :
     \E read \in SUBSET found :
       /\ \A img \in read : {img} \in RemoteRead(img)
       /\ Answered(w, read)
  /\ UNCHANGED <<neoUp, connected, connPool, conn, neoCmds, open4j, nodes4j, objects, named>>

CommitTx(w) ==
  /\ neoPc[w] = "commands" /\ neoAt[w] > Len(neoCmds[w])
  /\ nodes4j' = nodes4j \cup open4j[conn[w]]
  /\ open4j' = [open4j EXCEPT ![conn[w]] = NoTx]
  /\ neoPc' = [neoPc EXCEPT ![w] = "put"]
  /\ UNCHANGED <<neoUp, connected, connPool, conn, neoCmds, neoAt, objects, named, answers>>

\* the return code of the commit is dropped
CommitFails(w) ==
  /\ neoPc[w] = "commands" /\ neoAt[w] > Len(neoCmds[w])
  /\ open4j' = [open4j EXCEPT ![conn[w]] = NoTx]
  /\ neoPc' = [neoPc EXCEPT ![w] = "put"]
  /\ UNCHANGED <<neoUp, connected, connPool, conn, neoCmds, neoAt, nodes4j, objects, named,
                 answers>>

PutConn_committed(w) ==  \* bug: only a query that was committed gives it back
  /\ neoPc[w] \in {"put", "failed"}
  /\ connPool' = IF neoPc[w] = "put" THEN Append(connPool, conn[w]) ELSE connPool
  /\ conn' = [conn EXCEPT ![w] = NoConn]
  /\ neoPc' = [neoPc EXCEPT ![w] = "idle"]
  /\ neoCmds' = [neoCmds EXCEPT ![w] = <<>>]
  /\ neoAt' = [neoAt EXCEPT ![w] = 0]
  /\ answers' = [answers EXCEPT ![w] = <<>>]
  /\ UNCHANGED <<neoUp, connected, open4j, nodes4j, objects, named>>

\* a transaction that failed is not rolled back; the response goes out
PutConn(w) ==
  /\ neoPc[w] \in {"put", "failed"}
  /\ connPool' = Append(connPool, conn[w])
  /\ conn' = [conn EXCEPT ![w] = NoConn]
  /\ neoPc' = [neoPc EXCEPT ![w] = "idle"]
  /\ neoCmds' = [neoCmds EXCEPT ![w] = <<>>]
  /\ neoAt' = [neoAt EXCEPT ![w] = 0]
  /\ answers' = [answers EXCEPT ![w] = <<>>]
  /\ UNCHANGED <<neoUp, connected, open4j, nodes4j, objects, named>>

NeoNext ==
  /\ neoUp
  /\ \E w \in NeoWorkers :
       \/ GetConn(w) \/ Malformed(w) \/ OpenTx(w) \/ OpenTxFails(w)
       \/ NeoAddMetadata(w) \/ NeoAddImage(w) \/ NeoAddExits(w) \/ NeoFindImages(w)
       \/ CommitTx(w) \/ CommitFails(w) \/ PutConn(w)

NeoSpec == NeoInit /\ [][NeoNext]_neoVars

(***************************************************************************)
(* Properties.                                                             *)
(***************************************************************************)

\* Whatever failed on the way, every connection is either in the pool, once, or with one
\* worker that runs a query: none is lost or shared, so a worker that waits for one gets it
\* when another worker has answered.
ConnsConserved ==
  /\ \A c \in NeoConns :
       Cardinality({i \in DOMAIN connPool : connPool[i] = c}) + (IF Holds(c) THEN 1 ELSE 0) = 1
  /\ \A v, w \in NeoWorkers : conn[v] # NoConn /\ conn[v] = conn[w] => v = w
  /\ \A w \in NeoWorkers : conn[w] = NoConn <=> neoPc[w] = "idle"

\* A committed node refers to an image that is in the bucket, and an image goes to at most
\* one transaction, though the store and Neo4j commit separately and either may fail.
NeoImagesStored ==
  /\ nodes4j \subseteq objects
  /\ \A c, d \in NeoConns : c # d => open4j[c] \cap open4j[d] \subseteq NoTx
=============================================================================
