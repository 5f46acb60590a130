-------------------------------- MODULE Wire --------------------------------
(***************************************************************************)
(* A client and the server's thread for it, over a stream of bytes: a      *)
(* message is its length and then its content, both ends cut the stream    *)
(* back into messages, and every send and receive may stop short.  The     *)
(* client is the C++ one, built on the same comm::Connection as the server,*)
(* or the Python one, which has a loop of its own.                         *)
(***************************************************************************)
EXTENDS Integers, SequencesExt

CONSTANTS
  Header,       \* bytes of a length
  Sizes,        \* bound: bytes of a message
  MaxSize,      \* MAX_BUFFER_SIZE: a longer message is refused
  WireQueries   \* bound: queries of the client

ASSUME WireAssumption ==
  Header \in Nat \ {0} /\ Sizes \subseteq Nat /\ MaxSize \in Nat /\ WireQueries \in Nat

VARIABLES
  client,     \* "cpp" or "python", fixed
  serverTls, clientTls,   \* which end has a certificate and a key, fixed
  link,       \* "none", "open", "shut", or of no use: "mute" and "failed"
  toServer, toClient,     \* bytes in flight
  asking,     \* the client: what it does, with which message, bytes sent, bytes and length received
  serving,    \* the server's thread, likewise
  queries,    \* the length of every query, as they are sent
  responses,  \* the length of every response, and the query it answers (0: of garbage)
  returned,   \* for each query the one whose response query() returned, or 0
  gaveUp      \* the first query the client half sent, or left with the link open, or 0

wireVars == <<client, serverTls, clientTls, link, toServer, toClient, asking, serving,
              queries, responses, returned, gaveUp>>
fixedVars == <<client, serverTls, clientTls>>

\* bytes of message n of one direction, those of its length first
Bytes(n, from, to) == [i \in 1..to - from + 1 |-> [msg |-> n, at |-> from + i - 1]]

Quiet == [does |-> "nothing", n |-> 0, sent |-> 0, got |-> <<>>, len |-> 0]

WireInit ==
  /\ client \in {"cpp", "python"}
  /\ serverTls \in BOOLEAN /\ clientTls \in BOOLEAN
  /\ link = "none"
  /\ toServer = <<>> /\ toClient = <<>>
  /\ asking = Quiet /\ serving = Quiet
  /\ queries = <<>> /\ responses = <<>> /\ returned = <<>> /\ gaveUp = 0

(***************************************************************************)
(* ConnClient and ConnServer::accept.  TLS is on where there is a          *)
(* certificate and a key.  A plain client of a TLS server is given up in   *)
(* SSL_accept with its socket left open; a TLS client of a plain server    *)
(* waits for a greeting that the server takes for the length of a message. *)
(***************************************************************************)
AcceptConnection ==
  /\ link = "none" /\ serverTls = clientTls
  /\ link' = "open"
  /\ serving' = [serving EXCEPT !.does = "receive"]
  /\ UNCHANGED <<fixedVars, toServer, toClient, asking, queries, responses, returned, gaveUp>>

RefuseConnection ==
  /\ link = "none" /\ (serverTls \/ clientTls)   \* a mismatch, or a bad certificate
  /\ link' = IF clientTls THEN "failed" ELSE "mute"
  /\ UNCHANGED <<fixedVars, toServer, toClient, asking, serving, queries, responses, returned, gaveUp>>

-----------------------------------------------------------------------------
(***************************************************************************)
(* comm::Connection.  What one send or recv moves is up to the stream.     *)
(***************************************************************************)
\* send_message: the length with one send, the content in a loop
SentAll(end, size) == end.sent = Header + size

Sends(end, size, k) ==
  IF end.sent < Header THEN k = Header ELSE k \in 1..Header + size - end.sent

\* recv_message: bytes that do not start a message are a length of anything
MeantLengths(got, sizes) ==
  IF \A i \in 1..Header : got[i] = [msg |-> got[1].msg, at |-> i]
  THEN {sizes[got[1].msg]} ELSE Sizes

Awaited(end) == (IF Len(end.got) < Header THEN Header ELSE Header + end.len) - Len(end.got)

Receives(end, stream, k) == k \in 1..Len(stream) /\ k <= Awaited(end)

Received_once(end, bytes, len) ==  \* bug: what one recv returns is taken for the content
  [end EXCEPT !.got = @ \o bytes, !.len = len,
              !.does = IF Len(end.got) >= Header THEN "received" ELSE @]
Received(end, bytes, len) ==
  LET new == [end EXCEPT !.got = @ \o bytes, !.len = len]
  IN  [new EXCEPT !.does = IF Len(new.got) >= Header /\ Awaited(new) = 0 THEN "received" ELSE @]

\* the length that end knows once it has got these bytes as well
LengthKnown(end, bytes, sizes) ==
  IF Len(end.got) >= Header \/ Len(end.got) + Len(bytes) < Header THEN {end.len}
  ELSE MeantLengths(end.got \o bytes, sizes)

\* the message that was received, or 0
Parsed(end) ==
  IF end.got = Bytes(end.got[1].msg, 1, Header + end.len) THEN end.got[1].msg ELSE 0

-----------------------------------------------------------------------------
(***************************************************************************)
(* The client: query, and its return or exception                          *)
(***************************************************************************)
Leaves(n) == asking' = Quiet /\ returned' = [returned EXCEPT ![asking.n] = n]

GivesUp == gaveUp' = IF gaveUp = 0 THEN asking.n ELSE gaveUp

\* the C++ client refuses a message that is too long
Query == \E size \in Sizes :
  /\ link \in {"open", "mute"} /\ asking.does = "nothing" /\ Len(queries) < WireQueries
  /\ queries' = Append(queries, size) /\ returned' = Append(returned, 0)
  /\ asking' = IF client = "cpp" /\ size > MaxSize THEN Quiet
               ELSE [Quiet EXCEPT !.does = "send", !.n = Len(queries')]
  /\ UNCHANGED <<fixedVars, link, toServer, toClient, serving, responses, gaveUp>>

ClientSend == \E k \in 1..Header + MaxSize :
  /\ client = "cpp" /\ asking.does = "send"
  /\ Sends(asking, queries[asking.n], k)
  /\ toServer' = toServer \o Bytes(asking.n, asking.sent + 1, asking.sent + k)
  /\ asking' = LET new == [asking EXCEPT !.sent = @ + k] IN
               [new EXCEPT !.does = IF SentAll(new, queries[new.n]) THEN "receive" ELSE @]
  /\ UNCHANGED <<fixedVars, link, toClient, serving, queries, responses, returned, gaveUp>>

\* two calls of send, of which the second may send no more than a record with TLS; its
\* result is not looked at
PythonSend ==
  /\ client = "python" /\ asking.does = "send"
  /\ \E k \in 0..queries[asking.n] :
       /\ (clientTls /\ k > 0) \/ k = queries[asking.n]
       /\ toServer' = toServer \o Bytes(asking.n, 1, Header + k)
       /\ IF k < queries[asking.n] THEN GivesUp ELSE UNCHANGED gaveUp
  /\ asking' = [asking EXCEPT !.does = "receive"]
  /\ UNCHANGED <<fixedVars, link, toClient, serving, queries, responses, returned>>

\* for Python, the length must come with the first recv
ClientReceive == \E k \in 1..Len(toClient) :
  /\ asking.does = "receive" /\ (client = "python" \/ asking.len <= MaxSize) /\ Receives(asking, toClient, k)
  /\ LET bytes == SubSeq(toClient, 1, k) IN
     IF client = "python" /\ Len(asking.got) + k < Header
     THEN Leaves(0) /\ GivesUp
     ELSE /\ \E len \in LengthKnown(asking, bytes, [i \in DOMAIN responses |-> responses[i].size]) :
               asking' = Received(asking, bytes, len)
          /\ UNCHANGED <<returned, gaveUp>>
  /\ toClient' = SubSeq(toClient, k + 1, Len(toClient))
  /\ UNCHANGED <<fixedVars, link, toServer, serving, queries, responses>>

ClientReturn ==
  /\ asking.does = "received"
  /\ Leaves(IF Parsed(asking) = 0 THEN 0 ELSE responses[Parsed(asking)].of)
  /\ UNCHANGED <<fixedVars, link, toServer, toClient, serving, queries, responses, gaveUp>>

\* with TLS the Python client waits for five seconds, and can be asked again
ClientTimeout ==
  /\ client = "python" /\ clientTls /\ asking.does = "receive" /\ link = "open"
  /\ Leaves(0) /\ GivesUp
  /\ UNCHANGED <<fixedVars, link, toServer, toClient, serving, queries, responses>>

\* query throws: the stream has ended, the C++ client reads a length it refuses, or send or
\* recv fails on a link that stays open, over which the client may ask again
ClientFail ==
  /\ \/ asking.does \in {"send", "receive"} /\ link = "shut" /\ UNCHANGED gaveUp
     \/ asking.does = "receive" /\ client = "cpp" /\ asking.len > MaxSize /\ UNCHANGED gaveUp
     \/ asking.does \in {"send", "receive"} /\ link = "open" /\ GivesUp
  /\ Leaves(0)
  /\ UNCHANGED <<fixedVars, link, toServer, toClient, serving, queries, responses>>

Disconnect ==
  /\ link = "open" /\ asking.does = "nothing"
  /\ link' = "shut"
  /\ UNCHANGED <<fixedVars, toServer, toClient, asking, serving, queries, responses, returned, gaveUp>>

-----------------------------------------------------------------------------
(***************************************************************************)
(* The server: process_connection, until an exception ends it              *)
(***************************************************************************)
ServerReceive == \E k \in 1..Len(toServer) :
  /\ serving.does = "receive" /\ serving.len <= MaxSize /\ Receives(serving, toServer, k)
  /\ LET bytes == SubSeq(toServer, 1, k) IN
     \E len \in LengthKnown(serving, bytes, queries) : serving' = Received(serving, bytes, len)
  /\ toServer' = SubSeq(toServer, k + 1, Len(toServer))
  /\ UNCHANGED <<fixedVars, link, toClient, asking, queries, responses, returned, gaveUp>>

\* process_query, whatever it answers
ServerAnswer == \E size \in Sizes :
  /\ serving.does = "received"
  /\ responses' = Append(responses, [size |-> size, of |-> Parsed(serving)])
  /\ serving' = [Quiet EXCEPT !.does = "send", !.n = Len(responses')]
  /\ UNCHANGED <<fixedVars, link, toServer, toClient, asking, queries, returned, gaveUp>>

ServerSend == \E k \in 1..Header + MaxSize :
  /\ serving.does = "send" /\ link = "open" /\ responses[serving.n].size <= MaxSize
  /\ Sends(serving, responses[serving.n].size, k)
  /\ toClient' = toClient \o Bytes(serving.n, serving.sent + 1, serving.sent + k)
  /\ serving' = LET new == [serving EXCEPT !.sent = @ + k] IN
                IF SentAll(new, responses[new.n].size) THEN [Quiet EXCEPT !.does = "receive"] ELSE new
  /\ UNCHANGED <<fixedVars, link, toServer, asking, queries, responses, returned, gaveUp>>

\* a message too long to be received or sent, the end of the stream, or send or recv fails
ServerFail ==
  /\ serving.does \in {"receive", "send"}
  /\ serving' = Quiet /\ link' = "shut"
  /\ UNCHANGED <<fixedVars, toServer, toClient, asking, queries, responses, returned, gaveUp>>

WireNext ==
  \/ AcceptConnection \/ RefuseConnection
  \/ Query \/ ClientSend \/ PythonSend \/ ClientReceive \/ ClientReturn \/ ClientTimeout
  \/ ClientFail \/ Disconnect
  \/ ServerReceive \/ ServerAnswer \/ ServerSend \/ ServerFail

WireSpec == WireInit /\ [][WireNext]_wireVars

-----------------------------------------------------------------------------
\* However sends and receives are cut and wherever an end fails, a query that returns a response
\* returns the one to this query, and the server answers whole queries only, in their order.
\* This ends with the first query the client leaves half sent, or unanswered on an open link; the
\* queries before that one keep their answers (Connection.cc, recv_message; vdms.py, query).
RightAnswer ==
  /\ \A n \in DOMAIN returned : (gaveUp = 0 \/ n < gaveUp) => returned[n] \in {0, n}
  /\ gaveUp = 0 => \A i \in DOMAIN responses :
                     responses[i].of # 0 /\ (i > 1 => responses[i].of > responses[i - 1].of)
=============================================================================
