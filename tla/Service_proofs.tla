--------------------------- MODULE Service_proofs ---------------------------
(***************************************************************************)
(* Proofs about modules Wire, CommManager and NeoQuery: for messages of    *)
(* any length, cut by sends and receives in any way, for any header, limit *)
(* and number of queries, a query returns the response to itself; for any  *)
(* number of threads and connections, each connection has one owner and    *)
(* none is lost at the end of the pool; and for any number of workers,     *)
(* commands and queries, no connection of the Neo4j pool is lost or        *)
(* shared, and a committed node has its image in the object store.         *)
(***************************************************************************)
EXTENDS Wire, CommManager, NeoQuery, FiniteSetTheorems, SequenceTheorems, TLAPS

(***************************************************************************)
(* Module Wire.                                                            *)
(***************************************************************************)

(* Types.                                                                  *)

Byte == [msg : Nat, at : Nat]
Side == [does : {"nothing", "send", "receive", "received"}, n : Nat, sent : Nat,
        got : Seq(Byte), len : Nat]
Response == [size : Sizes, of : Nat]

WireTypes ==
  /\ asking \in Side
  /\ serving \in Side
  /\ queries \in Seq(Sizes)
  /\ responses \in Seq(Response)
  /\ returned \in Seq(Nat)

-----------------------------------------------------------------------------
(* A part of a message.                                                    *)

Part(n, a, b) == Bytes(n, a + 1, b)
Cat(s, t) == s \o t
Cut(s, i, j) == SubSeq(s, i, j)

IsPart(x, n, a, b) ==
  /\ x \in Seq(Byte)
  /\ Len(x) = b - a
  /\ \A i \in 1..(b - a) : x[i] = [msg |-> n, at |-> a + i]

LEMMA PartFacts ==
  ASSUME NEW n \in Nat, NEW a \in Nat, NEW b \in Nat, a <= b
  PROVE  IsPart(Part(n, a, b), n, a, b)
<1> DEFINE m == b - a
           s == [i \in 1..m |-> [msg |-> n, at |-> a + i]]
<1>1. m \in Nat /\ b - (a + 1) + 1 = m /\ \A i \in 1..m : (a + 1) + i - 1 = a + i
  OBVIOUS
<1>2. Part(n, a, b) = s
  BY <1>1 DEF Part, Bytes
<1>3. \A i \in 1..m : [msg |-> n, at |-> a + i] \in Byte
  BY DEF Byte
<1>4. s \in Seq(Byte) /\ Len(s) = m
  BY <1>1, <1>3
<1> QED
  BY <1>2, <1>4, ZenonT(60) DEF IsPart

LEMMA PartEmpty ==
  ASSUME NEW n \in Nat, NEW a \in Nat
  PROVE  Part(n, a, a) = <<>>
<1>1. IsPart(Part(n, a, a), n, a, a)
  BY PartFacts
<1>2. Part(n, a, a) \in Seq(Byte) /\ Len(Part(n, a, a)) = 0
  BY <1>1 DEF IsPart
<1> QED
  BY <1>2, EmptySeq

(* Joining two sequences and cutting them again.                           *)
LEMMA JoinFacts ==
  ASSUME NEW x \in Seq(Byte), NEW y \in Seq(Byte), NEW z \in Seq(Byte),
         Len(z) = Len(x) + Len(y),
         \A i \in 1..Len(x) : z[i] = x[i],
         \A i \in 1..Len(y) : z[Len(x) + i] = y[i]
  PROVE  x \o y = z
<1>1. /\ x \o y \in Seq(Byte) /\ Len(x \o y) = Len(x) + Len(y)
      /\ \A i \in 1..Len(x) + Len(y) : (x \o y)[i] = IF i <= Len(x) THEN x[i] ELSE y[i - Len(x)]
  BY ConcatProperties
<1>2. \A i \in 1..Len(z) : (x \o y)[i] = z[i]
  <2> SUFFICES ASSUME NEW i \in 1..Len(x) + Len(y) PROVE (x \o y)[i] = z[i]
    OBVIOUS
  <2>0. Len(x) \in Nat /\ Len(y) \in Nat
    OBVIOUS
  <2>1. CASE i <= Len(x)
    BY <1>1, <2>0, <2>1
  <2>2. CASE ~ (i <= Len(x))
    <3>1. i - Len(x) \in 1..Len(y) /\ Len(x) + (i - Len(x)) = i
      BY <2>0, <2>2
    <3> QED
      BY <1>1, <2>2, <3>1
  <2> QED
    BY <2>1, <2>2
<1> QED
  BY <1>1, <1>2, SeqEqual

LEMMA CutFacts ==
  ASSUME NEW x \in Seq(Byte), NEW y \in Seq(Byte)
  PROVE  /\ SubSeq(x \o y, 1, Len(x)) = x
         /\ SubSeq(x \o y, Len(x) + 1, Len(x \o y)) = y
<1> DEFINE z == x \o y
<1>1. /\ z \in Seq(Byte) /\ Len(z) = Len(x) + Len(y)
      /\ \A i \in 1..Len(x) + Len(y) : z[i] = IF i <= Len(x) THEN x[i] ELSE y[i - Len(x)]
  BY ConcatProperties
<1>2. Len(x) \in Nat /\ Len(y) \in Nat
  OBVIOUS
<1> HIDE DEF z
<1>3. /\ SubSeq(z, 1, Len(x)) \in Seq(Byte)
      /\ Len(SubSeq(z, 1, Len(x))) = Len(x)
      /\ \A i \in 1..Len(x) : SubSeq(z, 1, Len(x))[i] = z[i]
  BY <1>1, <1>2
<1>4. SubSeq(z, 1, Len(x)) = x
  BY <1>1, <1>2, <1>3, SeqEqual
<1>5. /\ SubSeq(z, Len(x) + 1, Len(z)) \in Seq(Byte)
      /\ Len(SubSeq(z, Len(x) + 1, Len(z))) = Len(y)
      /\ \A i \in 1..Len(y) : SubSeq(z, Len(x) + 1, Len(z))[i] = z[i + Len(x)]
  BY <1>1, <1>2
<1>6. \A i \in 1..Len(y) : z[i + Len(x)] = y[i]
  <2> TAKE i \in 1..Len(y)
  <2>1. i + Len(x) \in 1..Len(x) + Len(y) /\ ~ (i + Len(x) <= Len(x)) /\ (i + Len(x)) - Len(x) = i
    BY <1>2
  <2> QED
    BY <1>1, <2>1
<1>7. SubSeq(z, Len(x) + 1, Len(z)) = y
  BY <1>2, <1>5, <1>6, SeqEqual
<1> QED
  BY <1>4, <1>7 DEF z

(* Parts that adjoin make one, and one is cut into its parts.              *)
LEMMA PartsJoin ==
  ASSUME NEW n \in Nat, NEW a \in Nat, NEW b \in Nat, NEW c \in Nat, a <= b, b <= c
  PROVE  Cat(Part(n, a, b), Part(n, b, c)) = Part(n, a, c)
<1> DEFINE x == Part(n, a, b)
           y == Part(n, b, c)
           z == Part(n, a, c)
<1>0. a <= c
  OBVIOUS
<1>3. IsPart(x, n, a, b) /\ IsPart(y, n, b, c) /\ IsPart(z, n, a, c)
  BY <1>0, PartFacts
<1> HIDE DEF x, y, z
<1>1. x \in Seq(Byte) /\ Len(x) = b - a /\ \A i \in 1..(b - a) : x[i] = [msg |-> n, at |-> a + i]
  BY <1>3 DEF IsPart
<1>2. y \in Seq(Byte) /\ Len(y) = c - b /\ \A i \in 1..(c - b) : y[i] = [msg |-> n, at |-> b + i]
  BY <1>3 DEF IsPart
<1>4. z \in Seq(Byte) /\ Len(z) = c - a /\ \A i \in 1..(c - a) : z[i] = [msg |-> n, at |-> a + i]
  BY <1>3 DEF IsPart
<1>5. Len(z) = Len(x) + Len(y)
  BY <1>1, <1>2, <1>4
<1>6. \A i \in 1..Len(x) : z[i] = x[i]
  <2> TAKE i \in 1..Len(x)
  <2>1. i \in 1..(b - a) /\ i \in 1..(c - a)
    BY <1>1
  <2> QED
    BY <1>1, <1>4, <2>1
<1>7. \A i \in 1..Len(y) : z[Len(x) + i] = y[i]
  <2> TAKE i \in 1..Len(y)
  <2>1. /\ i \in 1..(c - b) /\ (b - a) + i \in 1..(c - a) /\ a + ((b - a) + i) = b + i
    BY <1>2
  <2>2. z[(b - a) + i] = [msg |-> n, at |-> a + ((b - a) + i)]
    BY <1>4, <2>1
  <2> QED
    BY <1>1, <1>2, <2>1, <2>2
<1> QED
  <2>1. Cat(x, y) = z
    BY <1>1, <1>2, <1>4, <1>5, <1>6, <1>7, JoinFacts DEF Cat
  <2> QED
    BY <2>1 DEF x, y, z

CutAt(a, b, c, j) == a \in Nat /\ b \in a..c /\ c \in Nat /\ j = b - a

LEMMA PartCut ==
  ASSUME NEW n \in Nat, NEW a, NEW b, NEW c, NEW j, CutAt(a, b, c, j)
  PROVE  /\ Cut(Part(n, a, c), 1, j) = Part(n, a, b)
         /\ Cut(Part(n, a, c), j + 1, Len(Part(n, a, c))) = Part(n, b, c)
<1> DEFINE x == Part(n, a, b)
           y == Part(n, b, c)
           z == Part(n, a, c)
<1>0. a \in Nat /\ b \in Nat /\ c \in Nat /\ a <= b /\ b <= c /\ j = b - a
  BY DEF CutAt
<1>1. IsPart(x, n, a, b) /\ IsPart(y, n, b, c)
  BY <1>0, PartFacts
<1>2. Cat(x, y) = z
  BY <1>0, PartsJoin
<1>3. x \in Seq(Byte) /\ Len(x) = b - a /\ y \in Seq(Byte)
  BY <1>1 DEF IsPart
<1> HIDE DEF x, y, z
<1>4. Cut(Cat(x, y), 1, Len(x)) = x /\ Cut(Cat(x, y), Len(x) + 1, Len(Cat(x, y))) = y
  BY <1>3, CutFacts DEF Cut, Cat
<1>5. Len(x) = j
  BY <1>0, <1>3
<1>6. Cut(z, 1, j) = x /\ Cut(z, j + 1, Len(z)) = y
  BY <1>2, <1>4, <1>5
<1> QED
  BY <1>6 DEF x, y, z

-----------------------------------------------------------------------------
(***************************************************************************)
(* The inductive invariant.  While the client has not given up a query on  *)
(* an open link, a session is at rest, or the last query is on its way to  *)
(* the server and nothing is on the way back, or the response to the last  *)
(* query is on its way to the client and nothing is on the way to the      *)
(* server, which may have ended, or the link was not or is no longer of    *)
(* use.  What is on its way is one message, of which k bytes were sent and *)
(* g received.  After that, what the queries before returned stays.        *)
(***************************************************************************)
Listening == [Quiet EXCEPT !.does = "receive"]

Framed(end, stream, n, size, g, k) ==
  /\ g <= k /\ k <= Header + size
  /\ end.got = Part(n, 0, g)
  /\ stream = Part(n, g, k)
  /\ end.len = IF g < Header THEN 0 ELSE size
  /\ end.does = IF g = Header + size THEN "received" ELSE "receive"

Fresh == asking.got = <<>> /\ asking.len = 0

Resting ==
  link = "open" /\ asking = Quiet /\ serving = Listening /\ toServer = <<>> /\ toClient = <<>>

Asking(end, who, size, k) ==
  \/ /\ end.does = "send" /\ end.sent = k /\ k < Header + size
     /\ k = 0 \/ k >= Header
     /\ who = "python" => k = 0
  \/ end.does = "receive" /\ k = Header + size

AskingPhase ==
  /\ link = "open" /\ toClient = <<>> /\ Fresh
  /\ asking.n = Len(queries) /\ asking.n # 0
  /\ responses # <<>> => responses[Len(responses)].of < Len(queries)
  /\ \E k \in 0..Header + queries[Len(queries)] : \E g \in 0..k :
       /\ Framed(serving, toServer, Len(queries), queries[Len(queries)], g, k)
       /\ Asking(asking, client, queries[Len(queries)], k)

Answering(end, n, size, k) ==
  /\ k > 0 => size <= MaxSize
  /\ \/ /\ end = [Quiet EXCEPT !.does = "send", !.n = n, !.sent = k]
        /\ k < Header + size /\ (k = 0 \/ k >= Header)
     \/ end = Listening /\ k = Header + size
     \/ end = Quiet

AnswerPhase ==
  /\ link \in {"open", "shut"} /\ (serving = Quiet <=> link = "shut") /\ toServer = <<>>
  /\ asking.n = Len(queries) /\ asking.n # 0
  /\ responses # <<>> /\ responses[Len(responses)].of = Len(queries)
  /\ \E k \in 0..Header + responses[Len(responses)].size : \E g \in 0..k :
       /\ Framed(asking, toClient, Len(responses), responses[Len(responses)].size, g, k)
       /\ Answering(serving, Len(responses), responses[Len(responses)].size, k)

Dead ==
  /\ link # "open" /\ Fresh
  /\ toClient = <<>> \/ (link = "shut" /\ asking = Quiet)
  /\ asking.does \in {"nothing", "send", "receive"}
  /\ asking.does # "nothing" => asking.n = Len(queries) /\ asking.n # 0
  /\ \/ serving = Quiet
     \/ serving = Listening /\ link = "shut" /\ toServer = <<>> /\ asking = Quiet
  /\ link = "none" => asking = Quiet /\ serving = Quiet /\ toServer = <<>>

Book ==
  /\ Len(returned) = Len(queries)
  /\ \A n \in DOMAIN returned : returned[n] \in {0, n}
  /\ \A i \in DOMAIN responses : responses[i].of # 0 /\ (i > 1 => responses[i].of > responses[i - 1].of)
  /\ responses # <<>> => responses[Len(responses)].of <= Len(queries)

Phases == Resting \/ AskingPhase \/ AnswerPhase \/ Dead

\* holds from the start, and is what is left when the client has given up
Past ==
  /\ gaveUp \in 0..Len(queries) /\ queries \in Seq(Sizes)
  /\ returned = [n \in 1..Len(queries) |-> returned[n]]
  /\ DOMAIN asking = DOMAIN Quiet
  /\ asking.does # "nothing" => asking.n \in 1..Len(queries) /\ asking.n >= gaveUp
  /\ gaveUp # 0 => \A n \in 1..gaveUp - 1 : returned[n] \in {0, n}

WireInv == Past /\ (gaveUp = 0 => WireTypes /\ Book /\ Phases)

-----------------------------------------------------------------------------
(* One receive, of either end.                                             *)

LEMMA MeantByPart ==
  ASSUME NEW n \in Nat, NEW h \in Nat, NEW sizes, Header <= h
  PROVE  MeantLengths(Part(n, 0, h), sizes) = {sizes[n]}
<1> DEFINE x == Part(n, 0, h)
<1>1. IsPart(x, n, 0, h)
  BY PartFacts
<1> HIDE DEF x
<1>2. Header \in Nat \ {0}
  BY WireAssumption DEF WireAssumption
<1>3. \A i \in 1..Header : x[i] = [msg |-> n, at |-> i]
  <2> TAKE i \in 1..Header
  <2>1. i \in 1..(h - 0) /\ 0 + i = i
    BY <1>2
  <2> QED
    BY <1>1, <2>1 DEF IsPart
<1>4. x[1].msg = n
  <2>1. 1 \in 1..Header
    BY <1>2
  <2>2. x[1] = [msg |-> n, at |-> 1]
    BY <1>3, <2>1
  <2> QED
    BY <2>2
<1>5. \A i \in 1..Header : x[i] = [msg |-> x[1].msg, at |-> i]
  BY <1>3, <1>4
<1>6. MeantLengths(x, sizes) = {sizes[x[1].msg]}
  BY <1>5 DEF MeantLengths
<1> QED
  BY <1>4, <1>6 DEF x

\* end receives j bytes of a stream with g to k of message n, becomes new and leaves the rest
OneReceive(end, stream, sizes, n, g, k, j, rest, new) ==
  /\ end \in Side /\ n \in Nat /\ g \in Nat /\ k \in Nat /\ sizes[n] \in Nat
  /\ Framed(end, stream, n, sizes[n], g, k)
  /\ j \in 1..Len(stream) /\ Receives(end, stream, j)
  /\ rest = Cut(stream, j + 1, Len(stream))
  /\ \E len \in LengthKnown(end, Cut(stream, 1, j), sizes) :
       new = Received(end, Cut(stream, 1, j), len)

LEMMA ReceiveStep ==
  ASSUME NEW end, NEW stream, NEW sizes, NEW n, NEW g, NEW k, NEW j, NEW rest, NEW new,
         OneReceive(end, stream, sizes, n, g, k, j, rest, new)
  PROVE  /\ g + j \in 0..k
         /\ new \in Side
         /\ new.n = end.n /\ new.sent = end.sent
         /\ Framed(new, rest, n, sizes[n], g + j, k)
<1> DEFINE bytes == Cut(stream, 1, j)
<1>given. /\ end \in Side /\ n \in Nat /\ g \in Nat /\ k \in Nat /\ sizes[n] \in Nat
      /\ Framed(end, stream, n, sizes[n], g, k)
      /\ j \in 1..Len(stream) /\ Receives(end, stream, j)
      /\ rest = Cut(stream, j + 1, Len(stream))
  BY DEF OneReceive
<1>len. PICK len \in LengthKnown(end, bytes, sizes) : new = Received(end, bytes, len)
  BY DEF OneReceive
<1>bytes. bytes = Cut(stream, 1, j)
  OBVIOUS
<1> HIDE DEF bytes
<1> USE <1>given, <1>len, <1>bytes
<1> DEFINE size == sizes[n]
           h == g + j
           x == Part(n, g, h)
           got == Part(n, 0, h)
<1>0. Header \in Nat \ {0} /\ size \in Nat
  BY WireAssumption DEF WireAssumption
<1>1. /\ g <= k /\ k <= Header + size
      /\ end.got = Part(n, 0, g)
      /\ stream = Part(n, g, k)
      /\ end.len = IF g < Header THEN 0 ELSE size
      /\ end.does = IF g = Header + size THEN "received" ELSE "receive"
  BY DEF Framed
<1>2. Len(stream) = k - g
  <2>1. IsPart(stream, n, g, k)
    BY <1>1, PartFacts
  <2> QED
    BY <2>1 DEF IsPart
<1>3. j \in Nat \ {0} /\ h \in Nat /\ g <= h /\ h <= k /\ h - g = j /\ 0 <= g /\ 0 <= h
  BY <1>1, <1>2
<1>order. 0 \in Nat /\ h \in Nat /\ 0 <= g /\ g <= h
  BY <1>3
<1>cut. CutAt(g, h, k, j)
  BY <1>3 DEF CutAt
<1> HIDE DEF size, h
<1>4. bytes = x /\ rest = Part(n, h, k)
  <2>1. /\ Cut(Part(n, g, k), 1, j) = Part(n, g, h)
        /\ Cut(Part(n, g, k), j + 1, Len(Part(n, g, k))) = Part(n, h, k)
    BY <1>cut, PartCut
  <2> QED
    BY <1>1, <2>1
<1>5. Cat(end.got, x) = got
  <2>1. Cat(Part(n, 0, g), Part(n, g, h)) = Part(n, 0, h)
    BY <1>order, PartsJoin
  <2> QED
    BY <1>1, <2>1
<1>6. IsPart(end.got, n, 0, g) /\ IsPart(x, n, g, h) /\ IsPart(got, n, 0, h)
  <2>1. IsPart(Part(n, 0, g), n, 0, g) /\ IsPart(Part(n, g, h), n, g, h) /\ IsPart(Part(n, 0, h), n, 0, h)
    BY <1>3, PartFacts
  <2> QED
    BY <1>1, <2>1
<1>7. Len(end.got) = g /\ Len(x) = j /\ Len(got) = h /\ got \in Seq(Byte)
  BY <1>3, <1>6 DEF IsPart
<1> HIDE DEF x, got
<1>8. IF g < Header THEN h <= Header ELSE h <= Header + end.len
  <2>1. j <= (IF g < Header THEN Header ELSE Header + end.len) - g
    BY <1>7 DEF Receives, Awaited
  <2>2. end.len \in Nat
    BY DEF Side
  <2> QED
    BY <1>0, <1>3, <2>1, <2>2
<1>9. len = IF h < Header THEN 0 ELSE size
  <2>1. len \in IF g >= Header \/ h < Header THEN {end.len} ELSE MeantLengths(got, sizes)
    BY <1>4, <1>5, <1>7 DEF LengthKnown, Cat, h
  <2>2. CASE g >= Header
    BY <1>0, <1>1, <1>3, <2>1, <2>2
  <2>3. CASE h < Header
    BY <1>0, <1>1, <1>3, <2>1, <2>3
  <2>4. CASE ~ (g >= Header) /\ ~ (h < Header)
    <3>1. Header <= h
      BY <1>0, <1>3, <2>4
    <3>2. MeantLengths(got, sizes) = {size}
      BY <1>3, <3>1, MeantByPart DEF got, size
    <3> QED
      BY <2>1, <2>4, <3>2
  <2> QED
    BY <2>2, <2>3, <2>4
<1>10. len \in Nat
  BY <1>0, <1>9
<1> DEFINE base == [end EXCEPT !.got = got, !.len = len]
<1>11. /\ base.got = got /\ base.len = len /\ base.does = end.does
       /\ base.n = end.n /\ base.sent = end.sent
       /\ base \in Side
  BY <1>7, <1>10 DEF Side
<1>12. new = [base EXCEPT !.does = IF h >= Header /\ Awaited(base) = 0 THEN "received" ELSE @]
  BY <1>4, <1>5, <1>7, <1>11 DEF Received, Cat
<1> HIDE DEF base
<1>13. Awaited(base) = (IF h < Header THEN Header ELSE Header + len) - h
  BY <1>7, <1>11 DEF Awaited
<1>14. /\ new \in Side /\ new.got = got /\ new.len = len
       /\ new.n = end.n /\ new.sent = end.sent
       /\ new.does = IF h >= Header /\ Awaited(base) = 0 THEN "received" ELSE end.does
  BY <1>11, <1>12 DEF Side
<1>15. new.does = IF h = Header + size THEN "received" ELSE "receive"
  <2>1. g # Header + size
    BY <1>0, <1>1, <1>3
  <2>2. end.does = "receive"
    BY <1>1, <2>1
  <2>3. (h >= Header /\ Awaited(base) = 0) <=> h = Header + size
    BY <1>0, <1>3, <1>9, <1>13
  <2> QED
    BY <1>14, <2>2, <2>3
<1>16. Framed(new, Part(n, h, k), n, size, h, k)
  BY <1>1, <1>3, <1>9, <1>14, <1>15 DEF Framed, got
<1>17. h \in 0..k
  BY <1>3
<1> HIDE DEF size, h
<1>18. Framed(new, rest, n, size, h, k)
  BY <1>4, <1>16
<1> QED
  BY <1>14, <1>17, <1>18 DEF h, size

-----------------------------------------------------------------------------
(* A message on its way: not begun, sent further, received to its end.     *)

LEMMA EndFacts ==
  /\ Quiet \in Side /\ Listening \in Side
  /\ Quiet.does = "nothing" /\ Quiet.n = 0 /\ Quiet.sent = 0 /\ Quiet.got = <<>> /\ Quiet.len = 0
  /\ Listening.does = "receive" /\ Listening.n = 0 /\ Listening.sent = 0
  /\ Listening.got = <<>> /\ Listening.len = 0
<1>1. <<>> \in Seq(Byte)
  OBVIOUS
<1> QED
  BY <1>1 DEF Quiet, Listening, Side

LEMMA FramedStart ==
  ASSUME NEW end, end.got = <<>>, end.len = 0, end.does = "receive",
         NEW n \in Nat, NEW size \in Nat
  PROVE  Framed(end, <<>>, n, size, 0, 0)
<1>1. Part(n, 0, 0) = <<>>
  BY PartEmpty
<1>2. Header \in Nat \ {0}
  BY WireAssumption DEF WireAssumption
<1> QED
  BY <1>1, <1>2 DEF Framed

LEMMA FramedUnsent ==
  ASSUME NEW end, NEW stream, NEW n \in Nat, NEW size \in Nat, NEW g \in 0..0,
         Framed(end, stream, n, size, g, 0)
  PROVE  end.got = <<>> /\ end.len = 0 /\ end.does = "receive" /\ stream = <<>>
<1>1. Part(n, 0, 0) = <<>>
  BY PartEmpty
<1>2. Header \in Nat \ {0}
  BY WireAssumption DEF WireAssumption
<1> QED
  BY <1>1, <1>2 DEF Framed

LEMMA FramedSend ==
  ASSUME NEW end, NEW stream, NEW n \in Nat, NEW size \in Nat, NEW k \in Nat, NEW g \in 0..k,
         Framed(end, stream, n, size, g, k),
         NEW m \in Nat, k <= m, m <= Header + size
  PROVE  Framed(end, Cat(stream, Part(n, k, m)), n, size, g, m)
<1>1. g \in Nat /\ g <= k /\ g <= m
  OBVIOUS
<1>2. Cat(Part(n, g, k), Part(n, k, m)) = Part(n, g, m)
  BY <1>1, PartsJoin
<1> QED
  BY <1>1, <1>2 DEF Framed

LEMMA FramedWhole ==
  ASSUME NEW end, NEW stream, NEW n \in Nat, NEW size \in Nat, NEW k \in Nat, NEW g \in 0..k,
         Framed(end, stream, n, size, g, k), end.does = "received"
  PROVE  stream = <<>> /\ k = Header + size /\ Parsed(end) = n
<1>1. Header \in Nat \ {0}
  BY WireAssumption DEF WireAssumption
<1>2. /\ g = Header + size /\ k = g
      /\ end.got = Part(n, 0, g) /\ stream = Part(n, g, g) /\ end.len = size
  BY <1>1 DEF Framed
<1>3. stream = <<>>
  BY <1>2, PartEmpty
<1> DEFINE x == Part(n, 0, g)
<1>4. IsPart(x, n, 0, g)
  BY PartFacts
<1> HIDE DEF x
<1>5. 1 \in 1..(g - 0) /\ 0 + 1 = 1
  BY <1>1, <1>2
<1>6. x[1].msg = n
  BY <1>4, <1>5 DEF IsPart
<1>7. Bytes(n, 1, Header + end.len) = x
  BY <1>2, <1>5 DEF Part, x
<1>8. end.got = x /\ end.got[1].msg = n
  BY <1>2, <1>6 DEF x
<1>9. Parsed(end) = n
  BY <1>7, <1>8 DEF Parsed
<1> QED
  BY <1>2, <1>3, <1>9

LEMMA SendsFacts ==
  ASSUME NEW end, NEW size \in Nat, NEW k \in Nat, end.sent = k, k < Header + size,
         k = 0 \/ k >= Header, NEW j \in Nat, Sends(end, size, j)
  PROVE  /\ k + j \in Nat /\ k <= k + j /\ k + j <= Header + size
         /\ k + j >= Header /\ k + j > 0
<1>1. Header \in Nat \ {0}
  BY WireAssumption DEF WireAssumption
<1> QED
  BY <1>1 DEF Sends

LEMMA BytesArePart ==
  ASSUME NEW n \in Nat, NEW k \in Nat, NEW m \in Nat
  PROVE  Bytes(n, k + 1, m) = Part(n, k, m) /\ Bytes(n, 1, m) = Part(n, 0, m)
  BY DEF Part

LEMMA SizesAreNat ==
  ASSUME WireTypes
  PROVE  /\ Len(queries) \in Nat /\ Len(responses) \in Nat /\ Len(returned) \in Nat
         /\ DOMAIN queries = 1..Len(queries) /\ DOMAIN responses = 1..Len(responses)
         /\ DOMAIN returned = 1..Len(returned)
         /\ \A i \in 1..Len(queries) : queries[i] \in Nat
         /\ \A i \in 1..Len(responses) : responses[i].size \in Nat /\ responses[i].of \in Nat
<1>1. Sizes \subseteq Nat
  BY WireAssumption DEF WireAssumption
<1>2. queries \in Seq(Sizes) /\ responses \in Seq(Response) /\ returned \in Seq(Nat)
  BY DEF WireTypes
<1>3. \A i \in 1..Len(queries) : queries[i] \in Nat
  <2> TAKE i \in 1..Len(queries)
  <2>1. queries[i] \in Sizes
    BY <1>2
  <2> QED
    BY <1>1, <2>1
<1>4. \A i \in 1..Len(responses) : responses[i].size \in Nat /\ responses[i].of \in Nat
  <2> TAKE i \in 1..Len(responses)
  <2>1. responses[i] \in Response
    BY <1>2
  <2> QED
    BY <1>1, <2>1 DEF Response
<1> QED
  BY <1>2, <1>3, <1>4

-----------------------------------------------------------------------------
(* Every action keeps the invariant.                                       *)

Good == WireTypes /\ Book /\ Phases

\* the types and the account of what was sent when an action leaves these alone
LEMMA BookSame ==
  ASSUME Book, UNCHANGED <<queries, responses, returned>>
  PROVE  Book'
  BY DEF Book

LEMMA AcceptStep ==
  ASSUME Good, AcceptConnection
  PROVE  Good'
<1> USE DEF Good
<1>1. Dead
  BY DEF Phases, AcceptConnection, Resting, AskingPhase, AnswerPhase
<1>2. /\ link' = "open" /\ serving' = [serving EXCEPT !.does = "receive"]
      /\ UNCHANGED <<toServer, toClient, asking, queries, responses, returned>>
  BY DEF AcceptConnection
<1>3. asking = Quiet /\ serving = Quiet /\ toServer = <<>> /\ toClient = <<>>
  BY <1>1 DEF Dead, AcceptConnection
<1>4. Resting'
  BY <1>2, <1>3 DEF Resting, Listening
<1>5. WireTypes'
  BY <1>2, <1>3, EndFacts DEF WireTypes, Listening
<1>6. Book'
  BY <1>2, BookSame
<1> QED
  BY <1>4, <1>5, <1>6 DEF Phases

LEMMA RefuseStep ==
  ASSUME Good, RefuseConnection
  PROVE  Good'
<1> USE DEF Good
<1>1. Dead
  BY DEF Phases, RefuseConnection, Resting, AskingPhase, AnswerPhase
<1>2. /\ link' \in {"failed", "mute"}
      /\ UNCHANGED <<toServer, toClient, asking, serving, queries, responses, returned>>
  BY DEF RefuseConnection
<1>3. asking = Quiet /\ serving = Quiet /\ toServer = <<>> /\ toClient = <<>>
  BY <1>1 DEF Dead, RefuseConnection
<1>4. Dead'
  BY <1>1, <1>2, <1>3 DEF Dead, Fresh
<1>5. WireTypes'
  BY <1>2 DEF WireTypes
<1>6. Book'
  BY <1>2, BookSame
<1> QED
  BY <1>4, <1>5, <1>6 DEF Phases

LEMMA DisconnectStep ==
  ASSUME Good, Disconnect
  PROVE  Good'
<1> USE DEF Good
<1>1. /\ link = "open" /\ asking.does = "nothing" /\ link' = "shut"
      /\ UNCHANGED <<toServer, toClient, asking, serving, queries, responses, returned>>
  BY DEF Disconnect
<1>2. Resting
  <2>1. ~ AskingPhase
    BY <1>1 DEF AskingPhase, Asking
  <2>2. ~ AnswerPhase
    BY <1>1 DEF AnswerPhase, Framed
  <2> QED
    BY <1>1, <2>1, <2>2 DEF Phases, Dead
<1>3. Dead'
  BY <1>1, <1>2, EndFacts DEF Resting, Dead, Fresh
<1>4. WireTypes'
  BY <1>1 DEF WireTypes
<1>5. Book'
  BY <1>1, BookSame
<1> QED
  BY <1>3, <1>4, <1>5 DEF Phases

\* in a phase with a message on its way, its number is one that was sent
LEMMA LastQuery ==
  ASSUME WireTypes, asking.n = Len(queries), asking.n # 0
  PROVE  /\ Len(queries) \in Nat \ {0} /\ Len(queries) \in 1..Len(queries)
         /\ queries[Len(queries)] \in Nat
  BY SizesAreNat

LEMMA LastResponse ==
  ASSUME WireTypes, responses # <<>>
  PROVE  /\ Len(responses) \in Nat \ {0} /\ Len(responses) \in 1..Len(responses)
         /\ responses[Len(responses)].size \in Nat /\ responses[Len(responses)].of \in Nat
<1>1. Len(responses) \in Nat \ {0}
  BY EmptySeq DEF WireTypes
<1> QED
  BY <1>1, SizesAreNat

LEMMA AsksLast ==
  ASSUME Good, asking.does # "nothing"
  PROVE  asking.n = Len(queries) /\ asking.n \in Nat /\ asking.n # 0
<1>1. asking.n \in Nat
  BY DEF Good, WireTypes, Side
<1>2. ~ Resting
  BY EndFacts DEF Resting
<1> QED
  BY <1>1, <1>2 DEF Good, Phases, AskingPhase, AnswerPhase, Dead

LEMMA QueryStep ==
  ASSUME Good, Query
  PROVE  Good'
<1> USE DEF Good
<1>1. PICK size \in Sizes :
        /\ link \in {"open", "mute"} /\ asking.does = "nothing"
        /\ queries' = Append(queries, size) /\ returned' = Append(returned, 0)
        /\ asking' = IF client = "cpp" /\ size > MaxSize THEN Quiet
                     ELSE [Quiet EXCEPT !.does = "send", !.n = Len(queries')]
        /\ UNCHANGED <<client, link, toServer, toClient, serving, responses>>
  BY DEF Query, fixedVars
<1>2. /\ Len(queries') = Len(queries) + 1 /\ queries' \in Seq(Sizes)
      /\ queries'[Len(queries')] = size /\ size \in Nat /\ Len(queries) \in Nat
  <2>1. queries \in Seq(Sizes) /\ Sizes \subseteq Nat
    BY WireAssumption DEF WireTypes, WireAssumption
  <2> QED
    BY <1>1, <2>1
<1>3. WireTypes'
  <2>1. asking' \in Side
    <3>1. Len(queries') \in Nat
      BY <1>2
    <3>2. asking' = Quiet \/ asking' = [Quiet EXCEPT !.does = "send", !.n = Len(queries')]
      BY <1>1
    <3> QED
      BY <3>1, <3>2, EndFacts DEF Side
  <2>2. returned' \in Seq(Nat)
    BY <1>1 DEF WireTypes
  <2> QED
    BY <1>1, <1>2, <2>1, <2>2 DEF WireTypes
<1>4. Book'
  <2>1. returned \in Seq(Nat)
    BY DEF WireTypes
  <2>2. Len(returned') = Len(returned) + 1
    BY <1>1, <2>1
  <2>3. \A n \in DOMAIN returned' : returned'[n] \in {0, n}
    BY <1>1, <2>1 DEF Book
  <2>4. responses' # <<>> => responses'[Len(responses')].of <= Len(queries')
    <3> SUFFICES ASSUME responses # <<>>
                 PROVE  responses[Len(responses)].of <= Len(queries) + 1
      BY <1>1, <1>2
    <3> QED
      BY <1>2, LastResponse DEF Book
  <2> QED
    BY <1>1, <1>2, <2>2, <2>3, <2>4 DEF Book
<1>5. asking' = Quiet \/ asking' = [Quiet EXCEPT !.does = "send", !.n = Len(queries')]
  BY <1>1
<1>6. asking'.got = <<>> /\ asking'.len = 0 /\ Fresh'
  BY <1>5, EndFacts DEF Quiet, Fresh
<1>7. Resting \/ Dead
  <2>1. ~ AskingPhase
    BY <1>1 DEF AskingPhase, Asking
  <2>2. ~ AnswerPhase
    BY <1>1 DEF AnswerPhase, Framed
  <2> QED
    BY <2>1, <2>2 DEF Phases
<1>8. CASE Resting /\ asking' = Quiet
  BY <1>1, <1>3, <1>4, <1>8 DEF Resting, Phases
<1>9. CASE Resting /\ asking' = [Quiet EXCEPT !.does = "send", !.n = Len(queries')]
  <2>1. Framed(serving', toServer', Len(queries'), size, 0, 0)
    <3>1. serving' = Listening /\ toServer' = <<>>
      BY <1>1, <1>9 DEF Resting
    <3> QED
      BY <1>2, <3>1, EndFacts, FramedStart
  <2>2. asking'.does = "send" /\ asking'.sent = 0 /\ asking'.n = Len(queries')
    BY <1>9, EndFacts DEF Quiet
  <2>3. Header \in Nat \ {0}
    BY WireAssumption DEF WireAssumption
  <2>4. Asking(asking', client', size, 0)
    BY <1>2, <2>2, <2>3 DEF Asking
  <2>5. responses' # <<>> => responses'[Len(responses')].of < Len(queries')
    <3> SUFFICES ASSUME responses # <<>>
                 PROVE  responses[Len(responses)].of < Len(queries) + 1
      BY <1>1, <1>2
    <3> QED
      BY <1>2, LastResponse DEF Book
  <2>6. link' = "open" /\ toClient' = <<>>
    BY <1>1, <1>9 DEF Resting
  <2>7. 0 \in 0..Header + queries'[Len(queries')] /\ 0 \in 0..0 /\ Len(queries') # 0
    BY <1>2, <2>3
  <2>8. \E k \in 0..Header + queries'[Len(queries')] : \E g \in 0..k :
           /\ Framed(serving', toServer', Len(queries'), queries'[Len(queries')], g, k)
           /\ Asking(asking', client', queries'[Len(queries')], k)
    BY <1>2, <2>1, <2>4, <2>7
  <2>9. AskingPhase'
    BY <1>6, <2>2, <2>5, <2>6, <2>7, <2>8 DEF AskingPhase
  <2> QED
    BY <1>3, <1>4, <2>9 DEF Phases
<1>10. CASE Dead
  <2>1. link # "none" /\ link' = link /\ link # "shut"
    BY <1>1
  <2>2. asking'.does \in {"nothing", "send"} /\ (asking'.does # "nothing" => asking'.n = Len(queries'))
    BY <1>5, EndFacts DEF Quiet
  <2>3. Len(queries') # 0
    BY <1>2
  <2>4. serving' = Quiet /\ toClient' = <<>>
    BY <1>1, <1>10, <2>1 DEF Dead
  <2>5. Dead'
    BY <1>6, <1>10, <2>1, <2>2, <2>3, <2>4 DEF Dead
  <2> QED
    BY <1>3, <1>4, <2>5 DEF Phases
<1> QED
  BY <1>3, <1>4, <1>5, <1>7, <1>8, <1>9, <1>10

LEMMA ClientSendStep ==
  ASSUME Good, ClientSend
  PROVE  Good'
<1> USE DEF Good
<1> DEFINE n == Len(queries)
           size == queries[n]
<1>0. Header \in Nat \ {0} /\ MaxSize \in Nat
  BY WireAssumption DEF WireAssumption
<1>1. PICK j \in 1..Header + MaxSize :
        /\ client = "cpp" /\ asking.does = "send"
        /\ Sends(asking, queries[asking.n], j)
        /\ toServer' = toServer \o Bytes(asking.n, asking.sent + 1, asking.sent + j)
        /\ asking' = LET new == [asking EXCEPT !.sent = @ + j] IN
                     [new EXCEPT !.does = IF SentAll(new, queries[new.n]) THEN "receive" ELSE @]
        /\ UNCHANGED <<client, link, toClient, serving, queries, responses, returned>>
  BY DEF ClientSend, fixedVars
<1>2. /\ asking'.n = asking.n /\ asking'.sent = asking.sent + j
      /\ asking'.got = asking.got /\ asking'.len = asking.len
      /\ asking'.does = IF asking.sent + j = Header + queries[asking.n] THEN "receive" ELSE "send"
      /\ asking' \in Side
  <2> DEFINE new == [asking EXCEPT !.sent = @ + j]
  <2>0. asking \in Side
    BY DEF WireTypes
  <2>1. /\ new \in Side /\ new.n = asking.n /\ new.sent = asking.sent + j
        /\ new.got = asking.got /\ new.len = asking.len /\ new.does = asking.does
    BY <1>0, <2>0, SMTT(60) DEF Side
  <2>2. asking' = [new EXCEPT !.does = IF SentAll(new, queries[new.n]) THEN "receive" ELSE @]
    BY <1>1
  <2> HIDE DEF new
  <2>3. SentAll(new, queries[new.n]) <=> asking.sent + j = Header + queries[asking.n]
    BY <2>1 DEF SentAll
  <2>4. \/ asking' = [new EXCEPT !.does = "receive"] /\ asking.sent + j = Header + queries[asking.n]
        \/ asking' = new /\ asking.sent + j # Header + queries[asking.n]
    BY <2>1, <2>2, <2>3 DEF Side
  <2> QED
    BY <1>1, <2>1, <2>4 DEF Side
<1>3. WireTypes' /\ Book'
  BY <1>1, <1>2, BookSame DEF WireTypes
<1>4. CASE AskingPhase
  <2>1. /\ asking.n = n /\ n # 0 /\ link = "open" /\ toClient = <<>> /\ Fresh
        /\ responses # <<>> => responses[Len(responses)].of < n
    BY <1>4 DEF AskingPhase
  <2>2. n \in Nat /\ size \in Nat
    BY <2>1, LastQuery
  <2>3. PICK k \in 0..Header + size : \E g \in 0..k :
           Framed(serving, toServer, n, size, g, k) /\ Asking(asking, client, size, k)
    BY <1>4 DEF AskingPhase
  <2>4. PICK g \in 0..k : Framed(serving, toServer, n, size, g, k)
    BY <2>3
  <2>5. asking.sent = k /\ k < Header + size /\ (k = 0 \/ k >= Header)
    BY <1>1, <2>3 DEF Asking
  <2>6. k \in Nat /\ j \in Nat
    BY <1>0, <2>2
  <2> HIDE DEF n, size
  <2>7. Sends(asking, size, j)
    BY <1>1, <2>1 DEF size
  <2>8. k + j \in Nat /\ k <= k + j /\ k + j <= Header + size /\ k + j >= Header
    BY <2>2, <2>5, <2>6, <2>7, SendsFacts
  <2>9. toServer' = Cat(toServer, Part(n, k, k + j))
    <3>1. toServer' = toServer \o Bytes(n, k + 1, k + j)
      BY <1>1, <2>1, <2>5
    <3> QED
      BY <3>1 DEF Cat, Part
  <2>10. Framed(serving', toServer', n, size, g, k + j)
    <3>1. Framed(serving, Cat(toServer, Part(n, k, k + j)), n, size, g, k + j)
      BY <2>2, <2>4, <2>6, <2>8, FramedSend
    <3> QED
      BY <1>1, <2>9, <3>1
  <2>11. Len(queries') = n /\ queries'[Len(queries')] = size
    BY <1>1 DEF n, size
  <2>12. /\ asking'.sent = k + j /\ asking'.n = n
         /\ asking'.does = IF k + j = Header + size THEN "receive" ELSE "send"
    BY <1>2, <2>1, <2>5 DEF size
  <2>13. Asking(asking', client', size, k + j)
    <3>1. client' = "cpp"
      BY <1>1
    <3>2. CASE k + j = Header + size
      BY <2>11, <2>12, <3>2 DEF Asking
    <3>3. CASE k + j # Header + size
      <4>1. k + j < Header + size
        BY <1>0, <2>2, <2>8, <3>3
      <4> QED
        BY <2>8, <2>11, <2>12, <3>1, <3>3, <4>1 DEF Asking
    <3> QED
      BY <3>2, <3>3
  <2>14. k + j \in 0..Header + size /\ g \in 0..k + j
    BY <2>6, <2>8
  <2>15. \E kk \in 0..Header + queries'[Len(queries')] : \E gg \in 0..kk :
           /\ Framed(serving', toServer', Len(queries'), queries'[Len(queries')], gg, kk)
           /\ Asking(asking', client', queries'[Len(queries')], kk)
    BY <2>10, <2>11, <2>13, <2>14
  <2>16. AskingPhase'
    BY <1>1, <1>2, <2>1, <2>11, <2>12, <2>15 DEF AskingPhase, Fresh
  <2> QED
    BY <1>3, <2>16 DEF Phases
<1>5. CASE Dead
  <2>1. asking.does = "send" /\ asking # Quiet
    BY <1>1, EndFacts
  <2>2. serving = Quiet /\ link # "none" /\ asking.n = Len(queries) /\ asking.n # 0
    BY <1>5, <2>1 DEF Dead
  <2>3. Dead'
    BY <1>1, <1>2, <1>5, <2>1, <2>2 DEF Dead, Fresh
  <2> QED
    BY <1>3, <2>3 DEF Phases
<1>6. ~ Resting /\ ~ AnswerPhase
  BY <1>1, EndFacts DEF Resting, AnswerPhase, Framed
<1> QED
  BY <1>4, <1>5, <1>6 DEF Phases

LEMMA PythonSendStep ==
  ASSUME Good, PythonSend, gaveUp = 0, gaveUp' = 0
  PROVE  Good'
<1> USE DEF Good
<1> DEFINE n == Len(queries)
           size == queries[n]
<1>0. Header \in Nat \ {0}
  BY WireAssumption DEF WireAssumption
<1>1. /\ client = "python" /\ asking.does = "send"
      /\ asking' = [asking EXCEPT !.does = "receive"]
      /\ UNCHANGED <<client, link, toClient, serving, queries, responses, returned>>
  BY DEF PythonSend, fixedVars
<1>2. asking \in Side
  BY DEF WireTypes
<1>3. /\ asking'.n = asking.n /\ asking'.got = asking.got /\ asking'.len = asking.len
      /\ asking'.does = "receive" /\ asking' \in Side
  BY <1>1, <1>2 DEF Side
<1>4. WireTypes' /\ Book'
  BY <1>1, <1>3, BookSame DEF WireTypes
<1>5. CASE AskingPhase
  <2>1. /\ asking.n = n /\ n # 0 /\ link = "open" /\ toClient = <<>> /\ Fresh
        /\ responses # <<>> => responses[Len(responses)].of < n
    BY <1>5 DEF AskingPhase
  <2>2. n \in Nat /\ size \in Nat
    BY <2>1, LastQuery
  <2>3. PICK k \in 0..Header + size : \E g \in 0..k :
           Framed(serving, toServer, n, size, g, k) /\ Asking(asking, client, size, k)
    BY <1>5 DEF AskingPhase
  <2>4. PICK g \in 0..k : Framed(serving, toServer, n, size, g, k)
    BY <2>3
  <2>5. k = 0 /\ asking.sent = 0
    BY <1>1, <2>3 DEF Asking
  <2>6. toServer' = toServer \o Bytes(n, 1, Header + size)
    <3>1. PICK j \in 0..queries[asking.n] :
             /\ toServer' = toServer \o Bytes(asking.n, 1, Header + j)
             /\ IF j < queries[asking.n] THEN GivesUp ELSE UNCHANGED gaveUp
      BY DEF PythonSend
    <3>2. ~ (j < queries[asking.n])
      BY <2>1, <3>1 DEF GivesUp
    <3>3. j = size
      BY <2>1, <2>2, <3>2
    <3> QED
      BY <2>1, <3>1, <3>3
  <2> HIDE DEF n, size
  <2>7. toServer' = Cat(toServer, Part(n, 0, Header + size))
    BY <2>6 DEF Cat, Part
  <2>8. Framed(serving', toServer', n, size, g, Header + size)
    <3>1. Framed(serving, Cat(toServer, Part(n, k, Header + size)), n, size, g, Header + size)
      BY <1>0, <2>2, <2>4, FramedSend
    <3> QED
      BY <1>1, <2>5, <2>7, <3>1
  <2>9. Len(queries') = n /\ queries'[Len(queries')] = size
    BY <1>1 DEF n, size
  <2>10. Asking(asking', client', size, Header + size)
    BY <1>3, <2>9 DEF Asking
  <2>11. Header + size \in 0..Header + size /\ g \in 0..Header + size
    BY <1>0, <2>2, <2>5
  <2>12. \E kk \in 0..Header + queries'[Len(queries')] : \E gg \in 0..kk :
           /\ Framed(serving', toServer', Len(queries'), queries'[Len(queries')], gg, kk)
           /\ Asking(asking', client', queries'[Len(queries')], kk)
    BY <2>8, <2>9, <2>10, <2>11
  <2>13. AskingPhase'
    BY <1>1, <1>3, <2>1, <2>9, <2>12 DEF AskingPhase, Fresh
  <2> QED
    BY <1>4, <2>13 DEF Phases
<1>6. CASE Dead
  <2>1. asking # Quiet
    BY <1>1, EndFacts
  <2>2. serving = Quiet /\ link # "none" /\ asking.n = Len(queries) /\ asking.n # 0
    BY <1>1, <1>6, <2>1 DEF Dead
  <2>3. Dead'
    BY <1>1, <1>3, <1>6, <2>1, <2>2 DEF Dead, Fresh
  <2> QED
    BY <1>4, <2>3 DEF Phases
<1>7. ~ Resting /\ ~ AnswerPhase
  BY <1>1, EndFacts DEF Resting, AnswerPhase, Framed
<1> QED
  BY <1>5, <1>6, <1>7 DEF Phases

LEMMA ClientReceiveStep ==
  ASSUME Good, ClientReceive, gaveUp = 0, gaveUp' = 0
  PROVE  Good'
<1> USE DEF Good
<1> DEFINE n == Len(responses)
           size == responses[n].size
           sizes == [i \in DOMAIN responses |-> responses[i].size]
<1>0. ~ GivesUp
  BY AsksLast DEF GivesUp, ClientReceive
<1>1. PICK j \in 1..Len(toClient) :
        /\ asking.does = "receive" /\ Receives(asking, toClient, j)
        /\ \E len \in LengthKnown(asking, SubSeq(toClient, 1, j), sizes) :
              asking' = Received(asking, SubSeq(toClient, 1, j), len)
        /\ toClient' = SubSeq(toClient, j + 1, Len(toClient))
        /\ UNCHANGED <<link, toServer, serving, queries, responses, returned>>
  BY <1>0 DEF ClientReceive
<1> DEFINE bytes == SubSeq(toClient, 1, j)
<1>2. PICK len \in LengthKnown(asking, bytes, sizes) : asking' = Received(asking, bytes, len)
  BY <1>1
<1>3. AnswerPhase
  <2>1. toClient # <<>> /\ asking # Quiet
    BY <1>1, EndFacts
  <2> QED
    BY <2>1 DEF Phases, Resting, AskingPhase, Dead
<1>4. /\ link \in {"open", "shut"} /\ (serving = Quiet <=> link = "shut") /\ toServer = <<>>
      /\ asking.n = Len(queries) /\ asking.n # 0
      /\ responses # <<>> /\ responses[n].of = Len(queries)
  BY <1>3 DEF AnswerPhase
<1>5. n \in Nat /\ size \in Nat /\ sizes[n] = size
  BY <1>4, LastResponse, SizesAreNat
<1>6. PICK k \in 0..Header + size : \E g \in 0..k :
         Framed(asking, toClient, n, size, g, k) /\ Answering(serving, n, size, k)
  BY <1>3 DEF AnswerPhase
<1>7. PICK g \in 0..k : Framed(asking, toClient, n, size, g, k)
  BY <1>6
<1>8. asking \in Side /\ k \in Nat /\ g \in Nat
  BY DEF WireTypes
<1>9. bytes = Cut(toClient, 1, j) /\ toClient' = Cut(toClient, j + 1, Len(toClient))
  BY <1>1, Zenon DEF Cut
<1> HIDE DEF n, size, sizes, bytes
<1>10. /\ g + j \in 0..k
       /\ asking' \in Side /\ asking'.n = asking.n
       /\ Framed(asking', toClient', n, size, g + j, k)
  <2>1. OneReceive(asking, toClient, sizes, n, g, k, j, toClient', asking')
    BY <1>1, <1>2, <1>5, <1>7, <1>8, <1>9 DEF OneReceive
  <2>2. /\ g + j \in 0..k
        /\ asking' \in Side /\ asking'.n = asking.n
        /\ Framed(asking', toClient', n, sizes[n], g + j, k)
    BY <2>1, ReceiveStep
  <2> QED
    BY <1>5, <2>2
<1>11. Len(responses') = n /\ responses'[Len(responses')].size = size
  BY <1>1 DEF n, size
<1>12. Answering(serving', n, size, k)
  BY <1>1, <1>6 DEF Answering
<1>13. \E kk \in 0..Header + responses'[Len(responses')].size : \E gg \in 0..kk :
         /\ Framed(asking', toClient', Len(responses'), responses'[Len(responses')].size, gg, kk)
         /\ Answering(serving', Len(responses'), responses'[Len(responses')].size, kk)
  BY <1>10, <1>11, <1>12
<1>14. AnswerPhase'
  BY <1>1, <1>4, <1>10, <1>13 DEF AnswerPhase, n
<1>15. WireTypes' /\ Book'
  BY <1>1, <1>10, BookSame DEF WireTypes
<1> QED
  BY <1>14, <1>15 DEF Phases

LEMMA ClientReturnStep ==
  ASSUME Good, ClientReturn
  PROVE  Good'
<1> USE DEF Good
<1>1. /\ asking.does = "received" /\ asking' = Quiet
      /\ returned' = [returned EXCEPT ![asking.n] =
                        IF Parsed(asking) = 0 THEN 0 ELSE responses[Parsed(asking)].of]
      /\ UNCHANGED <<link, toServer, toClient, serving, queries, responses>>
  BY DEF ClientReturn, Leaves
<1>2. AnswerPhase
  BY <1>1, EndFacts DEF Phases, Resting, AskingPhase, Asking, Dead
<1>3. PICK n \in Nat : n = Len(responses)
  BY SizesAreNat
<1>4. PICK size \in Nat : size = responses[n].size
  BY <1>2, <1>3, LastResponse DEF AnswerPhase
<1>5. /\ link \in {"open", "shut"} /\ (serving = Quiet <=> link = "shut") /\ toServer = <<>>
      /\ asking.n = Len(queries) /\ asking.n # 0
      /\ n # 0 /\ responses[n].of = Len(queries)
  BY <1>2, <1>3, LastResponse DEF AnswerPhase
<1>6. PICK k \in 0..Header + size : \E g \in 0..k :
         Framed(asking, toClient, n, size, g, k) /\ Answering(serving, n, size, k)
  BY <1>2, <1>3, <1>4 DEF AnswerPhase
<1>7. PICK g \in 0..k : Framed(asking, toClient, n, size, g, k)
  BY <1>6
<1>8. toClient = <<>> /\ k = Header + size /\ Parsed(asking) = n
  <2>1. k \in Nat
    OBVIOUS
  <2> QED
    BY <1>1, <1>7, <2>1, FramedWhole
<1>9. serving = Listening \/ serving = Quiet
  <2>1. ~ (k < Header + size)
    BY <1>8, WireAssumption DEF WireAssumption
  <2> QED
    BY <1>6, <2>1 DEF Answering
<1>10. Resting' \/ Dead'
  <2>1. CASE serving = Listening
    BY <1>1, <1>5, <1>8, <2>1, EndFacts DEF Resting
  <2>2. CASE serving = Quiet
    BY <1>1, <1>5, <2>2, EndFacts DEF Dead, Fresh
  <2> QED
    BY <1>9, <2>1, <2>2
<1>11. returned' = [returned EXCEPT ![Len(queries)] = Len(queries)]
  BY <1>1, <1>5, <1>8
<1>12. /\ returned \in Seq(Nat) /\ Len(returned) = Len(queries)
       /\ Len(queries) \in Nat /\ Len(queries) \in 1..Len(returned)
  BY <1>5, SizesAreNat DEF Book, WireTypes
<1>13. WireTypes'
  <2>1. returned' \in Seq(Nat)
    BY <1>11, <1>12, ExceptSeq
  <2> QED
    BY <1>1, <2>1, EndFacts DEF WireTypes
<1>14. Book'
  <2>1. Len(returned') = Len(queries)
    BY <1>11, <1>12
  <2>2. \A i \in DOMAIN returned' : returned'[i] \in {0, i}
    BY <1>11, <1>12 DEF Book
  <2> QED
    BY <1>1, <2>1, <2>2 DEF Book
<1> QED
  BY <1>10, <1>13, <1>14 DEF Phases

LEMMA ClientFailStep ==
  ASSUME Good, ClientFail, gaveUp = 0, gaveUp' = 0
  PROVE  Good'
<1> USE DEF Good
<1>0. MaxSize \in Nat /\ Header \in Nat \ {0}
  BY WireAssumption DEF WireAssumption
<1>1. /\ \/ asking.does \in {"send", "receive"} /\ link = "shut"
         \/ asking.does = "receive" /\ asking.len > MaxSize
      /\ asking' = Quiet /\ returned' = [returned EXCEPT ![asking.n] = 0]
      /\ UNCHANGED <<link, toServer, toClient, serving, queries, responses>>
  BY AsksLast DEF ClientFail, Leaves, GivesUp
<1>2. asking.does # "nothing"
  BY <1>1
<1>3. ~ Resting
  BY <1>2, EndFacts DEF Resting
<1>4. ~ AskingPhase
  BY <1>0, <1>1 DEF AskingPhase, Fresh
<1>5. ASSUME AnswerPhase PROVE link = "shut"
  <2> SUFFICES ASSUME link # "shut" PROVE FALSE
    OBVIOUS
  <2> USE <1>5
  <2>1. asking.len > MaxSize
    BY <1>1
  <2>2. PICK size \in Nat : size = responses[Len(responses)].size
    BY LastResponse DEF AnswerPhase
  <2>3. PICK k \in 0..Header + size : \E g \in 0..k :
           Framed(asking, toClient, Len(responses), size, g, k) /\ Answering(serving, Len(responses), size, k)
    BY <2>2 DEF AnswerPhase
  <2>4. PICK g \in 0..k : Framed(asking, toClient, Len(responses), size, g, k)
    BY <2>3
  <2>5. asking.len = IF g < Header THEN 0 ELSE size
    BY <2>4 DEF Framed
  <2>6. g >= Header /\ size > MaxSize
    BY <1>0, <2>1, <2>5
  <2>7. size <= MaxSize
    BY <1>0, <2>3, <2>6 DEF Answering
  <2> QED
    BY <1>0, <2>6, <2>7
<1>6. Dead \/ (AnswerPhase /\ link = "shut")
  BY <1>3, <1>4, <1>5 DEF Phases
<1>7. WireTypes'
  <2>1. returned \in Seq(Nat) /\ asking.n \in 1..Len(returned)
    BY <1>2, AsksLast, SizesAreNat DEF WireTypes, Book
  <2>2. returned' \in Seq(Nat)
    BY <1>1, <2>1, ExceptSeq
  <2> QED
    BY <1>1, <2>2, EndFacts DEF WireTypes
<1>8. Book'
  <2>1. returned \in Seq(Nat)
    BY DEF WireTypes
  <2>2. Len(returned') = Len(returned) /\ \A i \in DOMAIN returned' : returned'[i] \in {0, i}
    BY <1>1, <2>1 DEF Book
  <2> QED
    BY <1>1, <2>2 DEF Book
<1>9. Dead'
  BY <1>1, <1>6, EndFacts DEF Dead, Fresh, AnswerPhase
<1> QED
  BY <1>7, <1>8, <1>9 DEF Phases

LEMMA ServerReceiveStep ==
  ASSUME Good, ServerReceive
  PROVE  Good'
<1> USE DEF Good
<1>1. PICK j \in 1..Len(toServer) :
        /\ serving.does = "receive" /\ Receives(serving, toServer, j)
        /\ \E len \in LengthKnown(serving, SubSeq(toServer, 1, j), queries) :
              serving' = Received(serving, SubSeq(toServer, 1, j), len)
        /\ toServer' = SubSeq(toServer, j + 1, Len(toServer))
        /\ UNCHANGED <<client, link, toClient, asking, queries, responses, returned>>
  BY DEF ServerReceive, fixedVars
<1> DEFINE bytes == SubSeq(toServer, 1, j)
<1>2. PICK len \in LengthKnown(serving, bytes, queries) : serving' = Received(serving, bytes, len)
  BY <1>1
<1>3. AskingPhase
  <2>1. toServer # <<>> /\ serving # Quiet
    BY <1>1, EndFacts
  <2> QED
    BY <2>1 DEF Phases, Resting, AnswerPhase, Dead
<1>4. PICK n \in Nat : n = Len(queries)
  BY SizesAreNat
<1>5. /\ asking.n = n /\ n # 0 /\ link = "open" /\ toClient = <<>> /\ Fresh
      /\ responses # <<>> => responses[Len(responses)].of < n
  BY <1>3, <1>4 DEF AskingPhase
<1>6. PICK size \in Nat : size = queries[n]
  BY <1>4, <1>5, LastQuery
<1>7. PICK k \in 0..Header + size : \E g \in 0..k :
         Framed(serving, toServer, n, size, g, k) /\ Asking(asking, client, size, k)
  BY <1>3, <1>4, <1>6 DEF AskingPhase
<1>8. PICK g \in 0..k : Framed(serving, toServer, n, size, g, k)
  BY <1>7
<1>9. serving \in Side /\ k \in Nat /\ g \in Nat
  BY DEF WireTypes
<1>10. bytes = Cut(toServer, 1, j) /\ toServer' = Cut(toServer, j + 1, Len(toServer))
  BY <1>1, Zenon DEF Cut
<1> HIDE DEF bytes
<1>11. /\ g + j \in 0..k
       /\ serving' \in Side
       /\ Framed(serving', toServer', n, size, g + j, k)
  <2>1. OneReceive(serving, toServer, queries, n, g, k, j, toServer', serving')
    BY <1>1, <1>2, <1>6, <1>8, <1>9, <1>10 DEF OneReceive
  <2>2. /\ g + j \in 0..k
        /\ serving' \in Side
        /\ Framed(serving', toServer', n, queries[n], g + j, k)
    BY <2>1, ReceiveStep
  <2> QED
    BY <1>6, <2>2
<1>12. Len(queries') = n /\ queries'[n] = size
  BY <1>1, <1>4, <1>6
<1>13. Asking(asking', client', size, k)
  BY <1>1, <1>7
<1>14. \E kk \in 0..Header + size : \E gg \in 0..kk :
         /\ Framed(serving', toServer', n, size, gg, kk)
         /\ Asking(asking', client', size, kk)
  BY <1>11, <1>13
<1>15. AskingPhase'
  BY <1>1, <1>5, <1>12, <1>14 DEF AskingPhase, Fresh
<1>16. WireTypes' /\ Book'
  BY <1>1, <1>11, BookSame DEF WireTypes
<1> QED
  BY <1>15, <1>16 DEF Phases

LEMMA ServerAnswerStep ==
  ASSUME Good, ServerAnswer
  PROVE  Good'
<1> USE DEF Good
<1>0. Header \in Nat \ {0} /\ Sizes \subseteq Nat
  BY WireAssumption DEF WireAssumption
<1>1. PICK size \in Sizes :
        /\ serving.does = "received"
        /\ responses' = Append(responses, [size |-> size, of |-> Parsed(serving)])
        /\ serving' = [Quiet EXCEPT !.does = "send", !.n = Len(responses')]
        /\ UNCHANGED <<link, toServer, toClient, asking, queries, returned>>
  BY DEF ServerAnswer
<1>2. AskingPhase
  BY <1>1, EndFacts DEF Phases, Resting, AnswerPhase, Answering, Dead, Quiet
<1>3. PICK n \in Nat : n = Len(queries)
  BY SizesAreNat
<1>4. /\ asking.n = n /\ n # 0 /\ link = "open" /\ toClient = <<>> /\ Fresh
      /\ responses # <<>> => responses[Len(responses)].of < n
  BY <1>2, <1>3 DEF AskingPhase
<1>5. PICK s \in Nat : s = queries[n]
  BY <1>3, <1>4, LastQuery
<1>6. PICK k \in 0..Header + s : \E g \in 0..k :
         Framed(serving, toServer, n, s, g, k) /\ Asking(asking, client, s, k)
  BY <1>2, <1>3, <1>5 DEF AskingPhase
<1>7. PICK g \in 0..k : Framed(serving, toServer, n, s, g, k)
  BY <1>6
<1>8. toServer = <<>> /\ k = Header + s /\ Parsed(serving) = n
  <2>1. k \in Nat
    OBVIOUS
  <2> QED
    BY <1>1, <1>7, <2>1, FramedWhole
<1>9. asking.does = "receive"
  <2>1. ~ (k < Header + s)
    BY <1>0, <1>8
  <2> QED
    BY <1>6, <2>1 DEF Asking
<1>10. PICK m \in Nat : m = Len(responses')
  <2>1. responses' \in Seq(Response)
    BY <1>1, <1>8 DEF WireTypes, Response
  <2> QED
    BY <2>1
<1>11. /\ responses' \in Seq(Response) /\ m = Len(responses) + 1 /\ Len(responses) \in Nat
       /\ responses'[m] = [size |-> size, of |-> n]
       /\ \A i \in 1..Len(responses) : responses'[i] = responses[i]
  <2>1. responses \in Seq(Response) /\ [size |-> size, of |-> n] \in Response
    BY DEF WireTypes, Response
  <2>2. responses' = Append(responses, [size |-> size, of |-> n])
    BY <1>1, <1>8
  <2> QED
    BY <1>10, <2>1, <2>2
<1>12. size \in Nat /\ responses'[m].size = size /\ responses'[m].of = n
  BY <1>0, <1>11
<1>13. serving' = [Quiet EXCEPT !.does = "send", !.n = m, !.sent = 0] /\ serving' \in Side
  <2>1. serving' = [Quiet EXCEPT !.does = "send", !.n = m]
    BY <1>1, <1>10
  <2> QED
    BY <2>1, EndFacts DEF Quiet, Side
<1>14. WireTypes'
  BY <1>1, <1>11, <1>13 DEF WireTypes
<1>15. Book'
  <2>1. DOMAIN responses = 1..Len(responses) /\ DOMAIN responses' = 1..m
    BY <1>10, <1>11, SizesAreNat, LenProperties
  <2>2. ASSUME NEW i \in 1..m
        PROVE  responses'[i].of # 0 /\ (i > 1 => responses'[i].of > responses'[i - 1].of)
    <3>1. CASE i \in 1..Len(responses)
      <4>1. responses'[i] = responses[i]
        BY <1>11, <3>1
      <4>2. CASE i > 1
        <5>1. i - 1 \in 1..Len(responses)
          BY <1>11, <3>1, <4>2
        <5>2. responses'[i - 1] = responses[i - 1]
          BY <1>11, <5>1
        <5> QED
          BY <2>1, <3>1, <4>1, <4>2, <5>2 DEF Book
      <4>3. CASE ~ (i > 1)
        BY <2>1, <3>1, <4>1, <4>3 DEF Book
      <4> QED
        BY <4>2, <4>3
    <3>2. CASE i = m
      <4>1. CASE i > 1
        <5>1. i - 1 = Len(responses) /\ Len(responses) \in 1..Len(responses) /\ responses # <<>>
          BY <1>11, <3>2, <4>1
        <5>2. responses'[i - 1] = responses[Len(responses)]
          BY <1>11, <5>1
        <5>3. responses[Len(responses)].of < n
          BY <1>4, <5>1
        <5>4. responses[Len(responses)].of \in Nat
          BY <5>1, SizesAreNat
        <5> QED
          BY <1>4, <1>12, <3>2, <5>2, <5>3, <5>4
      <4>2. CASE ~ (i > 1)
        BY <1>4, <1>12, <3>2, <4>2
      <4> QED
        BY <4>1, <4>2
    <3> QED
      BY <1>11, <3>1, <3>2
  <2>3. responses'[Len(responses')].of <= Len(queries')
    BY <1>1, <1>3, <1>10, <1>12
  <2>4. Len(returned') = Len(queries') /\ \A i \in DOMAIN returned' : returned'[i] \in {0, i}
    BY <1>1 DEF Book
  <2> QED
    BY <2>1, <2>2, <2>3, <2>4 DEF Book
<1>16. AnswerPhase'
  <2>1. Framed(asking', toClient', m, size, 0, 0)
    <3>1. Framed(asking, <<>>, m, size, 0, 0)
      BY <1>4, <1>9, <1>12, FramedStart DEF Fresh
    <3> QED
      BY <1>1, <1>4, <3>1
  <2>2. Answering(serving', m, size, 0)
    BY <1>0, <1>12, <1>13 DEF Answering
  <2>3. 0 \in 0..Header + size /\ 0 \in 0..0
    BY <1>0, <1>12
  <2>4. \E kk \in 0..Header + size : \E gg \in 0..kk :
           Framed(asking', toClient', m, size, gg, kk) /\ Answering(serving', m, size, kk)
    BY <2>1, <2>2, <2>3
  <2>5. /\ link' = "open" /\ toServer' = <<>> /\ asking'.n = Len(queries') /\ asking'.n # 0
        /\ serving' # Quiet
    BY <1>1, <1>3, <1>4, <1>8, <1>13, EndFacts DEF Quiet
  <2>6. responses' # <<>> /\ responses'[Len(responses')].of = Len(queries')
    BY <1>1, <1>3, <1>10, <1>11, <1>12
  <2> QED
    BY <1>10, <1>12, <2>4, <2>5, <2>6 DEF AnswerPhase
<1> QED
  BY <1>14, <1>15, <1>16 DEF Phases

LEMMA ServerSendStep ==
  ASSUME Good, ServerSend
  PROVE  Good'
<1> USE DEF Good
<1>0. Header \in Nat \ {0} /\ MaxSize \in Nat
  BY WireAssumption DEF WireAssumption
<1>1. PICK j \in 1..Header + MaxSize :
        /\ serving.does = "send" /\ link = "open" /\ responses[serving.n].size <= MaxSize
        /\ Sends(serving, responses[serving.n].size, j)
        /\ toClient' = toClient \o Bytes(serving.n, serving.sent + 1, serving.sent + j)
        /\ serving' = LET new == [serving EXCEPT !.sent = @ + j] IN
                      IF SentAll(new, responses[new.n].size) THEN [Quiet EXCEPT !.does = "receive"] ELSE new
        /\ UNCHANGED <<link, toServer, asking, queries, responses, returned>>
  BY DEF ServerSend
<1>2. AnswerPhase
  BY <1>1, EndFacts DEF Phases, Resting, AskingPhase, Framed, Dead
<1>3. PICK n \in Nat : n = Len(responses)
  BY SizesAreNat
<1>4. PICK size \in Nat : size = responses[n].size
  BY <1>2, <1>3, LastResponse DEF AnswerPhase
<1>5. /\ toServer = <<>> /\ asking.n = Len(queries) /\ asking.n # 0
      /\ responses # <<>> /\ responses[n].of = Len(queries)
      /\ link' = "open" /\ serving' # Quiet
  <2>1. serving'.does \in {"send", "receive"}
    BY <1>1, EndFacts DEF WireTypes, Side
  <2> QED
    BY <1>1, <1>2, <1>3, <2>1, EndFacts DEF AnswerPhase
<1>6. PICK k \in 0..Header + size : \E g \in 0..k :
         Framed(asking, toClient, n, size, g, k) /\ Answering(serving, n, size, k)
  BY <1>2, <1>3, <1>4 DEF AnswerPhase
<1>7. PICK g \in 0..k : Framed(asking, toClient, n, size, g, k)
  BY <1>6
<1>8. k \in Nat /\ j \in Nat
  BY <1>0
<1>9. /\ serving = [Quiet EXCEPT !.does = "send", !.n = n, !.sent = k]
      /\ k < Header + size /\ (k = 0 \/ k >= Header)
  <2>1. serving # Listening /\ serving # Quiet
    BY <1>1, EndFacts
  <2> QED
    BY <1>6, <2>1 DEF Answering
<1>10. serving.n = n /\ serving.sent = k
  BY <1>9 DEF Quiet
<1>11. size <= MaxSize /\ Sends(serving, size, j)
  BY <1>1, <1>4, <1>10
<1>12. k + j \in Nat /\ k <= k + j /\ k + j <= Header + size /\ k + j >= Header
  BY <1>8, <1>9, <1>10, <1>11, SendsFacts
<1>13. Framed(asking', toClient', n, size, g, k + j)
  <2>1. toClient' = Cat(toClient, Part(n, k, k + j))
    <3>1. toClient' = toClient \o Bytes(n, k + 1, k + j)
      BY <1>1, <1>10
    <3> QED
      BY <3>1 DEF Cat, Part
  <2>2. Framed(asking, Cat(toClient, Part(n, k, k + j)), n, size, g, k + j)
    BY <1>7, <1>8, <1>12, FramedSend
  <2> QED
    BY <1>1, <2>1, <2>2
<1>14. Answering(serving', n, size, k + j) /\ serving' \in Side
  <2> DEFINE new == [serving EXCEPT !.sent = @ + j]
  <2>1. new = [Quiet EXCEPT !.does = "send", !.n = n, !.sent = k + j]
    BY <1>9 DEF Quiet
  <2>2. new.n = n /\ new.sent = k + j /\ new \in Side
    BY <1>12, <2>1, EndFacts DEF Quiet, Side
  <2>3. serving' = IF SentAll(new, responses[new.n].size) THEN Listening ELSE new
    BY <1>1 DEF Listening
  <2> HIDE DEF new
  <2>4. SentAll(new, responses[new.n].size) <=> k + j = Header + size
    BY <1>4, <2>2 DEF SentAll
  <2>5. CASE k + j = Header + size
    BY <1>11, <2>3, <2>4, <2>5, EndFacts DEF Answering
  <2>6. CASE k + j # Header + size
    <3>1. k + j < Header + size
      BY <1>0, <1>12, <2>6
    <3> QED
      BY <1>11, <1>12, <2>1, <2>2, <2>3, <2>4, <2>6, <3>1 DEF Answering
  <2> QED
    BY <2>5, <2>6
<1>15. k + j \in 0..Header + size /\ g \in 0..k + j
  BY <1>8, <1>12
<1>16. \E kk \in 0..Header + size : \E gg \in 0..kk :
          Framed(asking', toClient', n, size, gg, kk) /\ Answering(serving', n, size, kk)
  BY <1>13, <1>14, <1>15
<1>17. Len(responses') = n /\ responses'[n].size = size
  BY <1>1, <1>3, <1>4
<1>18. AnswerPhase'
  BY <1>1, <1>3, <1>5, <1>16, <1>17, ZenonT(60) DEF AnswerPhase
<1>19. WireTypes' /\ Book'
  BY <1>1, <1>14, BookSame DEF WireTypes
<1> QED
  BY <1>18, <1>19 DEF Phases

LEMMA ServerFailStep ==
  ASSUME Good, ServerFail
  PROVE  Good'
<1> USE DEF Good
<1>1. /\ serving.does \in {"receive", "send"} /\ serving' = Quiet /\ link' = "shut"
      /\ UNCHANGED <<toServer, toClient, asking, queries, responses, returned>>
  BY DEF ServerFail
<1>2. WireTypes' /\ Book'
  BY <1>1, EndFacts, BookSame DEF WireTypes
<1>3. CASE Resting
  BY <1>1, <1>2, <1>3, EndFacts DEF Resting, Dead, Fresh, Phases
<1>4. CASE AskingPhase
  <2>1. asking.does \in {"send", "receive"}
    BY <1>4 DEF AskingPhase, Asking
  <2>2. Dead'
    BY <1>1, <1>4, <2>1 DEF AskingPhase, Dead, Fresh
  <2> QED
    BY <1>2, <2>2 DEF Phases
<1>5. CASE AnswerPhase
  <2>1. PICK n \in Nat : n = Len(responses)
    BY SizesAreNat
  <2>2. PICK size \in Nat : size = responses[n].size
    BY <1>5, <2>1, LastResponse DEF AnswerPhase
  <2>3. PICK k \in 0..Header + size : \E g \in 0..k :
           Framed(asking, toClient, n, size, g, k) /\ Answering(serving, n, size, k)
    BY <1>5, <2>1, <2>2 DEF AnswerPhase
  <2>4. PICK g \in 0..k : Framed(asking, toClient, n, size, g, k)
    BY <2>3
  <2>5. Answering(serving', n, size, k) /\ Framed(asking', toClient', n, size, g, k)
    BY <1>1, <2>3, <2>4 DEF Answering
  <2>6. \E kk \in 0..Header + size : \E gg \in 0..kk :
           Framed(asking', toClient', n, size, gg, kk) /\ Answering(serving', n, size, kk)
    BY <2>5
  <2>7. AnswerPhase'
    BY <1>1, <1>5, <2>1, <2>2, <2>6 DEF AnswerPhase
  <2> QED
    BY <1>2, <2>7 DEF Phases
<1>6. CASE Dead
  <2>1. serving # Quiet
    BY <1>1, EndFacts
  <2>2. Dead'
    BY <1>1, <1>6, <2>1 DEF Dead, Fresh
  <2> QED
    BY <1>2, <2>2 DEF Phases
<1> QED
  BY <1>3, <1>4, <1>5, <1>6 DEF Phases

-----------------------------------------------------------------------------
(* The theorems.                                                           *)

LEMMA WireStart ==
  ASSUME WireInit
  PROVE  WireInv
<1>1. /\ link = "none" /\ toServer = <<>> /\ toClient = <<>>
      /\ asking = Quiet /\ serving = Quiet /\ gaveUp = 0
      /\ queries = <<>> /\ responses = <<>> /\ returned = <<>>
  BY DEF WireInit
<1>2. WireTypes
  BY <1>1, EndFacts DEF WireTypes
<1>3. Book
  BY <1>1 DEF Book
<1>4. Dead
  BY <1>1, EndFacts DEF Dead, Fresh
<1>5. Past
  BY <1>1, EndFacts DEF Past
<1> QED
  BY <1>2, <1>3, <1>4, <1>5 DEF WireInv, Phases

\* a sequence of anything, one longer
LEMMA OneMore ==
  ASSUME NEW n \in Nat, NEW f, f = [i \in 1..n |-> f[i]]
  PROVE  Append(f, 0) = [i \in 1..n + 1 |-> IF i \in 1..n THEN f[i] ELSE 0]
<1> DEFINE S == {f[i] : i \in 1..n} \cup {0}
           t == [i \in 1..n + 1 |-> IF i \in 1..n THEN f[i] ELSE 0]
<1>1. f \in [1..n -> S] /\ 0 \in S
  OBVIOUS
<1>2. f \in Seq(S) /\ Len(f) = n
  BY <1>1
<1>3. Append(f, 0) \in Seq(S) /\ Len(Append(f, 0)) = n + 1
      /\ \A i \in 1..n + 1 : Append(f, 0)[i] = t[i]
  BY <1>1, <1>2
<1>4. t \in Seq(S) /\ Len(t) = n + 1
  BY <1>1
<1> HIDE DEF t, S
<1>5. Append(f, 0) = t
  BY <1>3, <1>4, SeqEqual
<1> QED
  BY <1>5 DEF t

\* the client goes on with its query, unchanged but for what it does
LEMMA PastGoesOn ==
  ASSUME Past, UNCHANGED <<queries, returned>>, DOMAIN asking' = DOMAIN asking,
         asking.does # "nothing", asking'.n = asking.n,
         gaveUp' = gaveUp \/ (gaveUp = 0 /\ gaveUp' = asking.n /\ Good)
  PROVE  Past'
<1>1. CASE gaveUp' = gaveUp
  BY <1>1 DEF Past
<1>2. CASE gaveUp = 0 /\ gaveUp' = asking.n /\ Good
  <2>1. asking.n = Len(queries) /\ asking.n \in Nat /\ asking.n # 0
    BY <1>2, AsksLast
  <2>2. \A n \in 1..asking.n - 1 : returned[n] \in {0, n}
    <3>1. DOMAIN returned = 1..Len(queries)
      BY DEF Past
    <3> QED
      BY <1>2, <2>1, <3>1 DEF Good, Book
  <2>3. gaveUp' \in 0..Len(queries') /\ gaveUp' = Len(queries)
    BY <1>2, <2>1
  <2>4. asking'.n \in 1..Len(queries') /\ asking'.n >= gaveUp'
    BY <1>2, <2>1
  <2>5. \A n \in 1..gaveUp' - 1 : returned'[n] \in {0, n}
    BY <1>2, <2>2
  <2> QED
    BY <2>3, <2>4, <2>5 DEF Past
<1> QED
  BY <1>1, <1>2

\* the client leaves its query
LEMMA PastLeaves ==
  ASSUME Past, NEW r, Leaves(r), UNCHANGED queries, asking.does # "nothing",
         gaveUp' = gaveUp \/ (gaveUp = 0 /\ gaveUp' = asking.n /\ Good)
  PROVE  Past'
<1> DEFINE m == Len(queries)
<1>1. m \in Nat /\ asking.n \in 1..m /\ returned = [n \in 1..m |-> returned[n]]
  BY DEF Past
<1>2. asking' = Quiet /\ returned' = [returned EXCEPT ![asking.n] = r]
  BY DEF Leaves
<1> HIDE DEF m
<1>3. returned' = [n \in 1..m |-> IF n = asking.n THEN r ELSE returned[n]]
  BY <1>1, <1>2
<1>4. returned' = [n \in 1..m |-> returned'[n]]
      /\ \A n \in 1..m : n # asking.n => returned'[n] = returned[n]
  BY <1>3
<1>5. CASE gaveUp' = gaveUp
  <2>1. gaveUp \in 0..m /\ asking.n >= gaveUp
    BY <1>5 DEF Past, m
  <2>2. gaveUp # 0 => \A n \in 1..gaveUp - 1 : returned'[n] \in {0, n}
    <3> SUFFICES ASSUME gaveUp # 0, NEW n \in 1..gaveUp - 1 PROVE returned'[n] \in {0, n}
      OBVIOUS
    <3>1. n \in 1..m /\ n # asking.n
      BY <1>1, <2>1
    <3> QED
      BY <1>4, <3>1 DEF Past
  <2> QED
    BY <1>2, <1>4, <1>5, <2>1, <2>2, EndFacts DEF Past, m
<1>6. CASE gaveUp = 0 /\ gaveUp' = asking.n /\ Good
  <2>1. \A n \in 1..asking.n - 1 : returned'[n] \in {0, n}
    <3> SUFFICES ASSUME NEW n \in 1..asking.n - 1 PROVE returned'[n] \in {0, n}
      OBVIOUS
    <3>1. n \in 1..m /\ n # asking.n /\ DOMAIN returned = 1..m
      BY <1>1
    <3> QED
      BY <1>4, <1>6, <3>1 DEF Good, Book
  <2> QED
    BY <1>1, <1>2, <1>4, <1>6, <2>1, EndFacts DEF Past, m
<1> QED
  BY <1>5, <1>6

LEMMA PastStep ==
  ASSUME WireInv, [WireNext]_wireVars
  PROVE  Past'
<1>1. Past /\ (gaveUp = 0 => Good)
  BY DEF WireInv, Good
<1>2. GivesUp => gaveUp' = gaveUp \/ (gaveUp = 0 /\ gaveUp' = asking.n /\ Good)
  BY <1>1 DEF GivesUp
<1>3. CASE UNCHANGED wireVars \/ AcceptConnection \/ RefuseConnection \/ Disconnect
           \/ ServerReceive \/ ServerAnswer \/ ServerSend \/ ServerFail
  <2>1. UNCHANGED <<queries, returned, asking, gaveUp>>
    BY <1>3 DEF wireVars, AcceptConnection, RefuseConnection, Disconnect,
         ServerReceive, ServerAnswer, ServerSend, ServerFail
  <2> QED
    BY <1>1, <2>1 DEF Past
<1>4. CASE Query
  <2>1. PICK size \in Sizes :
          /\ queries' = Append(queries, size) /\ returned' = Append(returned, 0)
          /\ asking' = Quiet \/ asking' = [Quiet EXCEPT !.does = "send", !.n = Len(queries')]
          /\ UNCHANGED gaveUp
    BY <1>4 DEF Query
  <2>2. PICK m \in Nat : m = Len(queries)
    BY <1>1 DEF Past
  <2>3. queries' \in Seq(Sizes) /\ Len(queries') = m + 1
    BY <1>1, <2>1, <2>2 DEF Past
  <2>4. returned' = [i \in 1..m + 1 |-> IF i \in 1..m THEN returned[i] ELSE 0]
    BY <1>1, <2>1, <2>2, OneMore DEF Past
  <2>5. DOMAIN asking' = DOMAIN Quiet /\ (asking'.does # "nothing" => asking'.n = m + 1)
    BY <2>1, <2>3, EndFacts DEF Quiet
  <2>6. returned' = [i \in 1..m + 1 |-> returned'[i]]
    BY <2>4
  <2>7. gaveUp' \in 0..m + 1 /\ gaveUp' \in 0..m /\ gaveUp' = gaveUp
    <3>1. gaveUp \in 0..m
      BY <1>1, <2>2 DEF Past
    <3> QED
      BY <2>1, <2>2, <3>1
  <2>8. gaveUp' # 0 => \A n \in 1..gaveUp' - 1 : returned'[n] \in {0, n}
    <3> SUFFICES ASSUME gaveUp # 0, NEW n \in 1..gaveUp - 1 PROVE returned'[n] \in {0, n}
      BY <2>7
    <3>1. n \in 1..m /\ returned[n] \in {0, n}
      <4>1. gaveUp \in 0..m /\ n \in 1..gaveUp - 1
        BY <2>7
      <4>2. n \in 1..m
        BY <2>2, <4>1
      <4>3. \A i \in 1..gaveUp - 1 : returned[i] \in {0, i}
        BY <1>1 DEF Past
      <4> QED
        BY <4>2, <4>3
    <3>2. returned'[n] = returned[n]
      BY <2>4, <3>1
    <3> QED
      BY <3>1, <3>2
  <2> QED
    BY <2>3, <2>5, <2>6, <2>7, <2>8 DEF Past
<1>5. CASE ClientSend
  <2>1. PICK k \in 1..Header + MaxSize :
          asking' = LET new == [asking EXCEPT !.sent = @ + k] IN
                    [new EXCEPT !.does = IF SentAll(new, queries[new.n]) THEN "receive" ELSE @]
    BY <1>5 DEF ClientSend
  <2>2. asking.does = "send" /\ UNCHANGED <<queries, returned, gaveUp>>
    BY <1>5 DEF ClientSend
  <2>3. DOMAIN asking' = DOMAIN asking /\ asking'.n = asking.n
    BY <1>1, <2>1 DEF Past, Quiet
  <2> QED
    BY <1>1, <2>2, <2>3, PastGoesOn
<1>6. CASE PythonSend
  <2>1. /\ asking.does = "send" /\ UNCHANGED <<queries, returned>>
        /\ asking' = [asking EXCEPT !.does = "receive"]
        /\ GivesUp \/ UNCHANGED gaveUp
    BY <1>6 DEF PythonSend
  <2>2. DOMAIN asking' = DOMAIN asking /\ asking'.n = asking.n
    BY <1>1, <2>1 DEF Past, Quiet
  <2> QED
    BY <1>1, <1>2, <2>1, <2>2, PastGoesOn
<1>7. CASE ClientReceive
  <2>1. /\ asking.does = "receive" /\ UNCHANGED queries
        /\ \/ Leaves(0) /\ GivesUp
           \/ /\ \E bytes, len : asking' = Received(asking, bytes, len)
              /\ UNCHANGED <<returned, gaveUp>>
    BY <1>7 DEF ClientReceive
  <2>2. CASE Leaves(0) /\ GivesUp
    BY <1>1, <1>2, <2>1, <2>2, PastLeaves
  <2>3. CASE /\ \E bytes, len : asking' = Received(asking, bytes, len)
             /\ UNCHANGED <<returned, gaveUp>>
    <3>1. PICK bytes, len : asking' = Received(asking, bytes, len)
      BY <2>3
    <3>2. DOMAIN asking' = DOMAIN asking /\ asking'.n = asking.n
      BY <1>1, <3>1 DEF Past, Quiet, Received
    <3> QED
      BY <1>1, <2>1, <2>3, <3>2, PastGoesOn
  <2> QED
    BY <2>1, <2>2, <2>3
<1>8. CASE ClientReturn
  BY <1>1, <1>8, PastLeaves DEF ClientReturn
<1>9. CASE ClientTimeout
  BY <1>1, <1>2, <1>9, PastLeaves DEF ClientTimeout
<1>10. CASE ClientFail
  <2>1. /\ asking.does # "nothing" /\ Leaves(0) /\ UNCHANGED queries
        /\ GivesUp \/ UNCHANGED gaveUp
    BY <1>10 DEF ClientFail
  <2> QED
    BY <1>1, <1>2, <2>1, PastLeaves
<1> QED
  BY <1>3, <1>4, <1>5, <1>6, <1>7, <1>8, <1>9, <1>10 DEF WireNext

LEMMA WireStep ==
  ASSUME WireInv, [WireNext]_wireVars
  PROVE  WireInv'
<1>0. Past'
  BY PastStep
<1> SUFFICES ASSUME gaveUp' = 0 PROVE Good'
  BY <1>0 DEF WireInv, Good
<1>1. gaveUp = 0
  <2> SUFFICES ASSUME gaveUp # 0 PROVE FALSE
    OBVIOUS
  <2>1. GivesUp => gaveUp' = gaveUp
    BY DEF GivesUp
  <2> QED
    BY <2>1 DEF WireNext, wireVars, AcceptConnection, RefuseConnection, Query, ClientSend, PythonSend,
         ClientReceive, ClientReturn, ClientTimeout, ClientFail, Disconnect,
         ServerReceive, ServerAnswer, ServerSend, ServerFail
<1>2. Good
  BY <1>1 DEF WireInv, Good
<1>3. CASE UNCHANGED wireVars
  BY <1>2, <1>3 DEF wireVars, Good, WireTypes, Book, Phases, Resting, AskingPhase, AnswerPhase, Dead, Fresh
<1>4. CASE AcceptConnection
  BY <1>2, <1>4, AcceptStep
<1>5. CASE RefuseConnection
  BY <1>2, <1>5, RefuseStep
<1>6. CASE Query
  BY <1>2, <1>6, QueryStep
<1>7. CASE ClientSend
  BY <1>2, <1>7, ClientSendStep
<1>8. CASE PythonSend
  BY <1>1, <1>2, <1>8, PythonSendStep
<1>9. CASE ClientReceive
  BY <1>1, <1>2, <1>9, ClientReceiveStep
<1>10. CASE ClientReturn
  BY <1>2, <1>10, ClientReturnStep
<1>11. CASE ClientTimeout
  <2>1. asking.does # "nothing" /\ GivesUp
    BY <1>11 DEF ClientTimeout
  <2> QED
    BY <1>1, <1>2, <2>1, AsksLast DEF GivesUp
<1>12. CASE ClientFail
  BY <1>1, <1>2, <1>12, ClientFailStep
<1>13. CASE Disconnect
  BY <1>2, <1>13, DisconnectStep
<1>14. CASE ServerReceive
  BY <1>2, <1>14, ServerReceiveStep
<1>15. CASE ServerAnswer
  BY <1>2, <1>15, ServerAnswerStep
<1>16. CASE ServerSend
  BY <1>2, <1>16, ServerSendStep
<1>17. CASE ServerFail
  BY <1>2, <1>17, ServerFailStep
<1> QED
  BY <1>3, <1>4, <1>5, <1>6, <1>7, <1>8, <1>9, <1>10, <1>11, <1>12, <1>13, <1>14, <1>15, <1>16, <1>17
     DEF WireNext

\* A session is in one of four phases, with at most one message on its way, of which both ends
\* have counted the bytes right (Connection.cc, send_message and recv_message; vdms.py, query).
THEOREM WireInductive == WireSpec => []WireInv
<1>1. WireInit => WireInv
  BY WireStart
<1>2. WireInv /\ [WireNext]_wireVars => WireInv'
  BY WireStep
<1> QED
  BY <1>1, <1>2, PTL DEF WireSpec

\* However the stream cuts messages of whatever length and wherever an end fails, a query returns
\* its own response and the server answers whole queries only and in order, up to the first query
\* that the client leaves half sent, or unanswered on an open link: a timeout, a short send or an
\* error after which the next query may get another one's bytes. The queries before it keep
\* their answers (Connection.cc, recv_message; VDMSClient.cc, query; vdms.py, query).
THEOREM QueriesGetTheirAnswers == WireSpec => []RightAnswer
<1>1. WireInv => RightAnswer
  <2> SUFFICES ASSUME WireInv PROVE RightAnswer
    OBVIOUS
  <2>1. CASE gaveUp = 0
    BY <2>1 DEF WireInv, Book, RightAnswer
  <2>2. CASE gaveUp # 0
    <3>1. /\ gaveUp \in Nat /\ Len(queries) \in Nat /\ DOMAIN returned = 1..Len(queries)
          /\ \A n \in 1..gaveUp - 1 : returned[n] \in {0, n}
      <4>1. /\ gaveUp \in 0..Len(queries) /\ queries \in Seq(Sizes)
            /\ returned = [n \in 1..Len(queries) |-> returned[n]]
            /\ \A n \in 1..gaveUp - 1 : returned[n] \in {0, n}
        BY <2>2 DEF WireInv, Past
      <4>2. Len(queries) \in Nat
        BY <4>1
      <4>3. gaveUp \in Nat
        BY <4>1, <4>2
      <4>4. DOMAIN returned = 1..Len(queries)
        BY <4>1, Zenon
      <4> QED
        BY <4>1, <4>2, <4>3, <4>4
    <3>2. \A n \in DOMAIN returned : n < gaveUp => n \in 1..gaveUp - 1
      BY <3>1
    <3> QED
      BY <2>2, <3>1, <3>2 DEF RightAnswer
  <2> QED
    BY <2>1, <2>2
<1> QED
  BY <1>1, WireInductive, PTL

(***************************************************************************)
(* Module CommManager.                                                     *)
(***************************************************************************)

(***************************************************************************)
(* The inductive invariant adds to the safety properties what the program  *)
(* counters say about the pointers: the request thread has a connection in *)
(* hand exactly between accept() and the push, a pool thread exactly while *)
(* it processes one, and the NULL is pushed after the flag is set.         *)
(***************************************************************************)
HandsInv ==
  /\ rpc = "push" <=> racc # NULL
  /\ \A t \in Threads : wpc[t] \in Held <=> cur[t] # NULL
  /\ mpc = "pushNull" => cmStop

IInv ==
  /\ TypeOK
  /\ HandsInv
  /\ OneOwner
  /\ NoLostConnection
  /\ ListedAreServed
  /\ PoisonStays

USE PoolAssumption DEF PoolAssumption

-----------------------------------------------------------------------------
(* What the queue's operations do to the set of its elements.              *)

LEMMA AppendFacts ==
  ASSUME NEW S, NEW s \in Seq(S), NEW e \in S
  PROVE  /\ Append(s, e) \in Seq(S)
         /\ Len(s) \in Nat
         /\ DOMAIN s = 1..Len(s)
         /\ DOMAIN Append(s, e) = 1..(Len(s) + 1)
         /\ \A i \in 1..Len(s) : Append(s, e)[i] = s[i]
         /\ Append(s, e)[Len(s) + 1] = e
  OBVIOUS

LEMMA TailFacts ==
  ASSUME NEW S, NEW s \in Seq(S), s # <<>>
  PROVE  /\ Tail(s) \in Seq(S)
         /\ Len(s) \in Nat \ {0}
         /\ DOMAIN s = 1..Len(s)
         /\ DOMAIN Tail(s) = 1..(Len(s) - 1)
         /\ \A i \in 1..(Len(s) - 1) : Tail(s)[i] = s[i + 1]
         /\ Head(s) = s[1]
         /\ Head(s) \in S
  OBVIOUS

LEMMA PushQueued ==
  ASSUME TypeOK, NEW e \in Conns \cup {NULL}, workq' = Append(workq, e), NEW c
  PROVE  Queued(c)' <=> e = c \/ Queued(c)
<1>1. /\ workq \in Seq(Conns \cup {NULL})
      /\ DOMAIN workq' = 1..(Len(workq) + 1)
      /\ DOMAIN workq = 1..Len(workq)
      /\ Len(workq) \in Nat
      /\ \A i \in 1..Len(workq) : workq'[i] = workq[i]
      /\ workq'[Len(workq) + 1] = e
  BY AppendFacts DEF TypeOK
<1>2. \A i \in DOMAIN workq' : i \in DOMAIN workq \/ i = Len(workq) + 1
  BY <1>1
<1>3. Len(workq) + 1 \in DOMAIN workq' /\ DOMAIN workq \subseteq DOMAIN workq'
  BY <1>1
<1> QED
  BY <1>1, <1>2, <1>3 DEF Queued

LEMMA PopQueued ==
  ASSUME TypeOK, workq # <<>>, workq' = Tail(workq), NEW c
  PROVE  /\ Queued(c) <=> Head(workq) = c \/ Queued(c)'
         /\ (\A i, j \in DOMAIN workq : workq[i] = c /\ workq[j] = c => i = j)
              => ~(Head(workq) = c /\ Queued(c)')
<1>1. /\ Len(workq) \in Nat \ {0}
      /\ DOMAIN workq = 1..Len(workq)
      /\ DOMAIN workq' = 1..(Len(workq) - 1)
      /\ \A i \in 1..(Len(workq) - 1) : workq'[i] = workq[i + 1]
      /\ Head(workq) = workq[1]
  BY TailFacts DEF TypeOK
<1>2. ASSUME NEW i \in DOMAIN workq, workq[i] = c, i # 1
      PROVE  i - 1 \in DOMAIN workq' /\ workq'[i - 1] = c
  BY <1>1, <1>2
<1>3. ASSUME NEW i \in DOMAIN workq', workq'[i] = c
      PROVE  i + 1 \in DOMAIN workq /\ workq[i + 1] = c /\ i + 1 # 1
  BY <1>1, <1>3
<1>4. 1 \in DOMAIN workq
  BY <1>1
<1> QED
  BY <1>1, <1>2, <1>3, <1>4 DEF Queued

-----------------------------------------------------------------------------
(* The initial states.                                                     *)

LEMMA InitIInv == Init => IInv
<1> SUFFICES ASSUME Init PROVE IInv
  OBVIOUS
<1>1. TypeOK
  <2>1. workq \in Seq(Conns \cup {NULL})
    BY DEF Init
  <2> QED
    BY <2>1 DEF Init, TypeOK, WorkerPC, SockState, RequestPC, MainPC
<1>2. \A c : ~Queued(c)
  BY DEF Init, Queued
<1>3. HandsInv /\ PoisonStays
  BY DEF Init, HandsInv, PoisonStays, Held
<1>4. OneOwner /\ NoLostConnection
  BY <1>2, Zenon DEF Init, OneOwner, NoLostConnection, Live, Queued
<1>5. ListedAreServed
  BY DEF Init, ListedAreServed
<1> QED
  BY <1>1, <1>3, <1>4, <1>5 DEF IInv

-----------------------------------------------------------------------------
(* Types, and what the program counters say of the pointers.               *)

LEMMA TypeStep == TypeOK /\ HandsInv /\ [Next]_vars => TypeOK'
<1> SUFFICES ASSUME TypeOK, HandsInv, [Next]_vars PROVE TypeOK'
  OBVIOUS
<1> USE DEF TypeOK, WorkerPC, SockState, RequestPC, MainPC
<1>1. ASSUME NEW t \in Threads, WorkerSleep(t) PROVE TypeOK'
  BY <1>1 DEF WorkerSleep
<1>2. ASSUME NEW t \in Threads, WorkerExit(t) PROVE TypeOK'
  BY <1>2 DEF WorkerExit
<1>3. ASSUME NEW t \in Threads, WorkerPop(t) PROVE TypeOK'
  BY <1>3 DEF WorkerPop
<1>4. ASSUME NEW t \in Threads, WorkerEnlist(t) PROVE TypeOK'
  BY <1>4 DEF WorkerEnlist, HandsInv, Held
<1>5. ASSUME NEW t \in Threads, WorkerLeave(t) PROVE TypeOK'
  BY <1>5 DEF WorkerLeave
<1>6. ASSUME NEW t \in Threads, WorkerRelease(t) PROVE TypeOK'
  BY <1>6 DEF WorkerRelease
<1>7. CASE RequestHead
  BY <1>7 DEF RequestHead
<1>8. CASE RequestAccept
  BY <1>8 DEF RequestAccept
<1>9. CASE RequestAcceptFails
  BY <1>9 DEF RequestAcceptFails
<1>10. CASE RequestPush
  BY <1>10 DEF RequestPush
<1>11. CASE RequestNotify
  BY <1>11 DEF RequestNotify, NotifyOne, Asleep
<1>12. CASE MainJoinRequest
  BY <1>12 DEF MainJoinRequest
<1>13. CASE MainSetFlag
  BY <1>13 DEF MainSetFlag
<1>14. CASE MainPushNull
  BY <1>14 DEF MainPushNull
<1>15. CASE MainNotifyOne
  BY <1>15 DEF MainNotifyOne, NotifyOne, Asleep
<1>16. CASE MainNotifyAll
  BY <1>16 DEF MainNotifyAll, Advance
<1>17. CASE Walk
  BY <1>17 DEF Walk, Advance
<1>18. CASE WalkFreed
  BY <1>18 DEF WalkFreed, Advance
<1>19. CASE WalkEnd
  BY <1>19 DEF WalkEnd
<1>20. CASE MainDestroy
  BY <1>20 DEF MainDestroy
<1>21. CASE Signal
  BY <1>21 DEF Signal
<1>22. ASSUME NEW c \in Conns, ClientClose(c) PROVE TypeOK'
  BY <1>22 DEF ClientClose
<1>23. CASE Ended \/ UNCHANGED vars
  BY <1>23 DEF Ended, vars
<1> QED
  BY <1>1, <1>2, <1>3, <1>4, <1>5, <1>6, <1>7, <1>8, <1>9, <1>10, <1>11, <1>12, <1>13, <1>14, <1>15, <1>16, <1>17, <1>18, <1>19, <1>20, <1>21, <1>22, <1>23
     DEF Next, WorkerStep, RequestStep, MainStep

LEMMA HandsStep == TypeOK /\ HandsInv /\ [Next]_vars => HandsInv'
<1> SUFFICES ASSUME TypeOK, HandsInv, [Next]_vars PROVE HandsInv'
  OBVIOUS
<1> USE DEF TypeOK, HandsInv, Held, WorkerPC
<1>1. ASSUME NEW t \in Threads, WorkerSleep(t) PROVE HandsInv'
  BY <1>1 DEF WorkerSleep
<1>2. ASSUME NEW t \in Threads, WorkerExit(t) PROVE HandsInv'
  BY <1>2 DEF WorkerExit
<1>3. ASSUME NEW t \in Threads, WorkerPop(t) PROVE HandsInv'
  <2>1. Head(workq) \in Conns \cup {NULL}
    BY <1>3, TailFacts DEF WorkerPop
  <2> QED
    BY <1>3, <2>1 DEF WorkerPop
<1>4. ASSUME NEW t \in Threads, WorkerEnlist(t) PROVE HandsInv'
  BY <1>4 DEF WorkerEnlist
<1>5. ASSUME NEW t \in Threads, WorkerLeave(t) PROVE HandsInv'
  BY <1>5 DEF WorkerLeave
<1>6. ASSUME NEW t \in Threads, WorkerRelease(t) PROVE HandsInv'
  BY <1>6 DEF WorkerRelease
<1>7. CASE RequestHead
  BY <1>7 DEF RequestHead
<1>8. CASE RequestAccept
  BY <1>8 DEF RequestAccept
<1>9. CASE RequestAcceptFails
  BY <1>9 DEF RequestAcceptFails
<1>10. CASE RequestPush
  BY <1>10 DEF RequestPush
<1>11. CASE RequestNotify
  BY <1>11 DEF RequestNotify, NotifyOne, Asleep
<1>12. CASE MainJoinRequest
  BY <1>12 DEF MainJoinRequest
<1>13. CASE MainSetFlag
  BY <1>13 DEF MainSetFlag
<1>14. CASE MainPushNull
  BY <1>14 DEF MainPushNull
<1>15. CASE MainNotifyOne
  BY <1>15 DEF MainNotifyOne, NotifyOne, Asleep
<1>16. CASE MainNotifyAll
  BY <1>16 DEF MainNotifyAll, Advance
<1>17. CASE Walk
  BY <1>17 DEF Walk, Advance
<1>18. CASE WalkFreed
  BY <1>18 DEF WalkFreed, Advance
<1>19. CASE WalkEnd
  BY <1>19 DEF WalkEnd
<1>20. CASE MainDestroy
  BY <1>20 DEF MainDestroy
<1>21. CASE Signal
  BY <1>21 DEF Signal
<1>22. ASSUME NEW c \in Conns, ClientClose(c) PROVE HandsInv'
  BY <1>22 DEF ClientClose
<1>23. CASE Ended \/ UNCHANGED vars
  BY <1>23 DEF Ended, vars
<1> QED
  BY <1>1, <1>2, <1>3, <1>4, <1>5, <1>6, <1>7, <1>8, <1>9, <1>10, <1>11, <1>12, <1>13, <1>14, <1>15, <1>16, <1>17, <1>18, <1>19, <1>20, <1>21, <1>22, <1>23
     DEF Next, WorkerStep, RequestStep, MainStep

-----------------------------------------------------------------------------
(* Ownership.  The steps not named here change no owner and no socket.     *)

owners == <<workq, cur, sock, racc>>

LEMMA OwnerSteps ==
  ASSUME [Next]_vars
  PROVE  \/ UNCHANGED owners
         \/ \E t \in Threads : WorkerPop(t) \/ WorkerRelease(t)
         \/ RequestAccept
         \/ RequestPush
         \/ MainPushNull
         \/ Walk
         \/ \E c \in Conns : ClientClose(c)
  BY Zenon DEF owners, vars, Next, WorkerStep, RequestStep, MainStep, WorkerSleep, WorkerExit,
     WorkerEnlist, WorkerLeave, RequestHead, RequestAcceptFails, RequestNotify,
     MainJoinRequest, MainSetFlag, MainNotifyOne, MainNotifyAll, WalkFreed, WalkEnd,
     MainDestroy, Signal, Ended

LEMMA OneOwnerStep == IInv /\ [Next]_vars => OneOwner'
<1> SUFFICES ASSUME IInv, [Next]_vars PROVE OneOwner'
  OBVIOUS
<1> USE DEF IInv
<1>0. TypeOK'
  BY TypeStep
<1>1. CASE UNCHANGED owners
  BY <1>1 DEF owners, OneOwner, Live, Queued
<1>2. ASSUME NEW t \in Threads, WorkerPop(t) PROVE OneOwner'
  <2>0. /\ cur' = [cur EXCEPT ![t] = Head(workq)]
        /\ workq' = Tail(workq) /\ workq # <<>>
        /\ sock' = sock /\ racc' = racc
    BY <1>2 DEF WorkerPop
  <2>1. \A c : Queued(c) <=> Head(workq) = c \/ Queued(c)'
    BY <2>0, PopQueued
  <2>2. \A c \in Conns : ~(Head(workq) = c /\ Queued(c)')
    BY <2>0, PopQueued DEF OneOwner
  <2>3. \A c \in Conns : \A i, j \in DOMAIN workq' : workq'[i] = c /\ workq'[j] = c => i = j
    <3>1. /\ Len(workq) \in Nat \ {0}
          /\ DOMAIN workq = 1..Len(workq)
          /\ DOMAIN workq' = 1..(Len(workq) - 1)
          /\ \A i \in 1..(Len(workq) - 1) : workq'[i] = workq[i + 1]
      BY <2>0, TailFacts DEF TypeOK
    <3>2. ASSUME NEW c \in Conns, NEW i \in DOMAIN workq', NEW j \in DOMAIN workq',
                 workq'[i] = c, workq'[j] = c
          PROVE  i = j
      <4>1. /\ i + 1 \in DOMAIN workq /\ workq[i + 1] = c
            /\ j + 1 \in DOMAIN workq /\ workq[j + 1] = c
        BY <3>1, <3>2
      <4>2. i + 1 = j + 1
        BY <4>1 DEF OneOwner
      <4> QED BY <3>1, <4>2
    <3> QED BY <3>2
  <2> QED
    BY <2>0, <2>1, <2>2, <2>3 DEF OneOwner, Live, TypeOK
<1>3. ASSUME NEW t \in Threads, WorkerRelease(t) PROVE OneOwner'
  BY <1>3 DEF WorkerRelease, OneOwner, Live, Queued, TypeOK, HandsInv, Held
<1>4. CASE RequestAccept
  BY <1>4 DEF RequestAccept, OneOwner, Live, Queued, TypeOK, HandsInv
<1>5. CASE RequestPush
  <2>0. racc \in Conns /\ workq' = Append(workq, racc) /\ racc' = NULL
        /\ cur' = cur /\ sock' = sock
    BY <1>5 DEF RequestPush, TypeOK, HandsInv
  <2>1. \A c : Queued(c)' <=> racc = c \/ Queued(c)
    BY <2>0, PushQueued
  <2>2. \A c \in Conns : \A i, j \in DOMAIN workq' : workq'[i] = c /\ workq'[j] = c => i = j
    <3>1. /\ Len(workq) \in Nat
          /\ DOMAIN workq = 1..Len(workq)
          /\ DOMAIN workq' = 1..(Len(workq) + 1)
          /\ \A i \in 1..Len(workq) : workq'[i] = workq[i]
          /\ workq'[Len(workq) + 1] = racc
      BY <2>0, AppendFacts DEF TypeOK
    <3>2. ~Queued(racc)
      BY <2>0 DEF OneOwner
    <3> QED
      BY <2>0, <3>1, <3>2 DEF OneOwner, Queued
  <2> QED
    BY <2>0, <2>1, <2>2 DEF OneOwner, Live, TypeOK
<1>6. CASE MainPushNull
  <2>0. workq' = Append(workq, NULL) /\ racc' = racc /\ cur' = cur /\ sock' = sock
    BY <1>6 DEF MainPushNull
  <2>1. \A c : Queued(c)' <=> NULL = c \/ Queued(c)
    BY <2>0, PushQueued
  <2>2. \A c \in Conns : \A i, j \in DOMAIN workq' : workq'[i] = c /\ workq'[j] = c => i = j
    <3>1. /\ Len(workq) \in Nat
          /\ DOMAIN workq = 1..Len(workq)
          /\ DOMAIN workq' = 1..(Len(workq) + 1)
          /\ \A i \in 1..Len(workq) : workq'[i] = workq[i]
          /\ workq'[Len(workq) + 1] = NULL
      BY <2>0, AppendFacts DEF TypeOK
    <3> QED
      BY <3>1 DEF OneOwner
  <2> QED
    BY <2>0, <2>1, <2>2 DEF OneOwner, Live
<1>7. CASE Walk
  BY <1>7 DEF Walk, OneOwner, Live, Queued, TypeOK, ListedAreServed
<1>8. ASSUME NEW c \in Conns, ClientClose(c) PROVE OneOwner'
  BY <1>8 DEF ClientClose, OneOwner, Live, Queued, TypeOK
<1> QED
  BY <1>1, <1>2, <1>3, <1>4, <1>5, <1>6, <1>7, <1>8, OwnerSteps

LEMMA NoLostStep == IInv /\ [Next]_vars => NoLostConnection'
<1> SUFFICES ASSUME IInv, [Next]_vars PROVE NoLostConnection'
  OBVIOUS
<1> USE DEF IInv
<1>1. CASE UNCHANGED owners
  BY <1>1 DEF owners, NoLostConnection, Live, Queued
<1>2. ASSUME NEW t \in Threads, WorkerPop(t) PROVE NoLostConnection'
  <2>1. /\ cur' = [cur EXCEPT ![t] = Head(workq)]
        /\ cur[t] = NULL
        /\ sock' = sock /\ racc' = racc
    BY <1>2 DEF WorkerPop, HandsInv, Held
  <2>2. \A c : Queued(c) <=> Head(workq) = c \/ Queued(c)'
    BY <1>2, PopQueued DEF WorkerPop
  <2> QED
    BY <2>1, <2>2 DEF NoLostConnection, Live, TypeOK
<1>3. ASSUME NEW t \in Threads, WorkerRelease(t) PROVE NoLostConnection'
  BY <1>3 DEF WorkerRelease, NoLostConnection, Live, Queued, TypeOK, HandsInv, Held
<1>4. CASE RequestAccept
  BY <1>4 DEF RequestAccept, NoLostConnection, Live, Queued, TypeOK, HandsInv
<1>5. CASE RequestPush
  <2>1. \A c : Queued(c)' <=> racc = c \/ Queued(c)
    BY <1>5, PushQueued DEF RequestPush, TypeOK
  <2> QED
    BY <1>5, <2>1 DEF RequestPush, NoLostConnection, Live
<1>6. CASE MainPushNull
  <2>1. \A c : Queued(c)' <=> NULL = c \/ Queued(c)
    BY <1>6, PushQueued DEF MainPushNull
  <2> QED
    BY <1>6, <2>1 DEF MainPushNull, NoLostConnection, Live
<1>7. CASE Walk
  BY <1>7 DEF Walk, NoLostConnection, Live, Queued, TypeOK, ListedAreServed
<1>8. ASSUME NEW c \in Conns, ClientClose(c) PROVE NoLostConnection'
  BY <1>8 DEF ClientClose, NoLostConnection, Live, Queued, TypeOK
<1> QED
  BY <1>1, <1>2, <1>3, <1>4, <1>5, <1>6, <1>7, <1>8, OwnerSteps

(* A thread enters the list with WorkerEnlist and leaves it with           *)
(* WorkerRelease, whose connection no other thread can have.               *)
LEMMA ListedStep == IInv /\ [Next]_vars => ListedAreServed'
<1> SUFFICES ASSUME IInv, [Next]_vars PROVE ListedAreServed'
  OBVIOUS
<1> USE DEF IInv, ListedAreServed, TypeOK, WorkerPC
<1>1. ASSUME NEW t \in Threads, WorkerSleep(t) PROVE ListedAreServed'
  BY <1>1 DEF WorkerSleep, HandsInv, Held, OneOwner
<1>2. ASSUME NEW t \in Threads, WorkerExit(t) PROVE ListedAreServed'
  BY <1>2 DEF WorkerExit, HandsInv, Held, OneOwner
<1>3. ASSUME NEW t \in Threads, WorkerPop(t) PROVE ListedAreServed'
  BY <1>3 DEF WorkerPop, HandsInv, Held, OneOwner
<1>4. ASSUME NEW t \in Threads, WorkerEnlist(t) PROVE ListedAreServed'
  BY <1>4 DEF WorkerEnlist, HandsInv, Held, OneOwner
<1>5. ASSUME NEW t \in Threads, WorkerLeave(t) PROVE ListedAreServed'
  BY <1>5 DEF WorkerLeave, HandsInv, Held, OneOwner
<1>6. ASSUME NEW t \in Threads, WorkerRelease(t) PROVE ListedAreServed'
  BY <1>6 DEF WorkerRelease, HandsInv, Held, OneOwner
<1>7. CASE NotifyOne /\ UNCHANGED <<connList, cur>>
  BY <1>7 DEF NotifyOne, Asleep
<1>8. CASE MainNotifyAll
  BY <1>8 DEF MainNotifyAll
<1>9. CASE UNCHANGED <<connList, wpc, cur>>
  BY <1>9
<1>10. CASE RequestStep
  BY <1>7, <1>9, <1>10 DEF RequestStep, RequestHead, RequestAccept, RequestAcceptFails,
     RequestPush, RequestNotify
<1>11. CASE MainStep
  BY <1>7, <1>8, <1>9, <1>11 DEF MainStep, MainJoinRequest, MainSetFlag, MainPushNull,
     MainNotifyOne, Walk, WalkFreed, WalkEnd, MainDestroy
<1>12. CASE Signal \/ (\E c \in Conns : ClientClose(c)) \/ Ended \/ UNCHANGED vars
  BY <1>9, <1>12 DEF Signal, ClientClose, Ended, vars
<1> QED
  BY <1>1, <1>2, <1>3, <1>4, <1>5, <1>6, <1>10, <1>11, <1>12 DEF Next, WorkerStep

(* Only WorkerPop takes from the queue, and it does not once the flag is   *)
(* set; the NULL is pushed after that.                                     *)
LEMMA PoisonStep == IInv /\ [Next]_vars => PoisonStays'
<1> SUFFICES ASSUME IInv, [Next]_vars PROVE PoisonStays'
  OBVIOUS
<1> USE DEF IInv, PoisonStays, HandsInv
<1>1. ASSUME UNCHANGED <<cmStop, workq>>,
             mpc' = mpc \/ mpc \notin {"joinRequest", "setFlag", "pushNull"}
                        \/ mpc' \in {"joinRequest", "setFlag", "pushNull"}
      PROVE  PoisonStays'
  BY <1>1 DEF Queued
<1>2. ASSUME NEW t \in Threads, WorkerPop(t) PROVE PoisonStays'
  BY <1>2 DEF WorkerPop
<1>3. CASE RequestPush
  <2>1. \A c : Queued(c)' <=> racc = c \/ Queued(c)
    BY <1>3, PushQueued DEF RequestPush, TypeOK
  <2> QED
    BY <1>3, <2>1 DEF RequestPush
<1>4. CASE MainSetFlag
  BY <1>4 DEF MainSetFlag
<1>5. CASE MainPushNull
  <2>1. \A c : Queued(c)' <=> NULL = c \/ Queued(c)
    BY <1>5, PushQueued DEF MainPushNull
  <2> QED
    BY <1>5, <2>1 DEF MainPushNull
<1>6. ASSUME NEW t \in Threads, WorkerStep(t), ~WorkerPop(t) PROVE PoisonStays'
  BY <1>1, <1>6 DEF WorkerStep, WorkerSleep, WorkerExit, WorkerEnlist, WorkerLeave,
     WorkerRelease
<1>7. CASE RequestStep /\ ~RequestPush
  BY <1>1, <1>7 DEF RequestStep, RequestHead, RequestAccept, RequestAcceptFails, RequestNotify
<1>8. CASE MainStep /\ ~MainSetFlag /\ ~MainPushNull
  BY <1>1, <1>8 DEF MainStep, MainJoinRequest, MainNotifyOne, MainNotifyAll, Walk,
     WalkFreed, WalkEnd, MainDestroy
<1>9. CASE Signal \/ (\E c \in Conns : ClientClose(c)) \/ Ended \/ UNCHANGED vars
  BY <1>1, <1>9 DEF Signal, ClientClose, Ended, vars
<1> QED
  BY <1>2, <1>3, <1>4, <1>5, <1>6, <1>7, <1>8, <1>9 DEF Next

-----------------------------------------------------------------------------
(* The theorems.                                                           *)

(* The inductive invariant holds in every reachable state of the pool.     *)
THEOREM InductiveInvariant == Spec => []IInv
<1>1. Init => IInv
  BY InitIInv
<1>2. IInv /\ [Next]_vars => IInv'
  BY TypeStep, HandsStep, OneOwnerStep, NoLostStep, ListedStep, PoisonStep DEF IInv
<1> QED
  BY <1>1, <1>2, PTL DEF Spec

(* The pool's variables keep their types.                                  *)
THEOREM TypeCorrect == Spec => []TypeOK
<1>1. IInv => TypeOK
  BY DEF IInv
<1> QED
  BY <1>1, InductiveInvariant, PTL

(* However many threads pop, enlist and delete connections, none is        *)
(* handled by two of them or queued twice, and the request thread, the     *)
(* queue and the pool threads have none that was deleted.  The walk of the *)
(* destructor (CommunicationManager.cc:97) is not an owner: what it reads  *)
(* may have been freed.                                                    *)
THEOREM Ownership == Spec => []OneOwner
<1>1. IInv => OneOwner
  BY DEF IInv
<1> QED
  BY <1>1, InductiveInvariant, PTL

(* No accepted connection is dropped between accept() and delete.          *)
THEOREM NothingLost == Spec => []NoLostConnection
<1>1. IInv => NoLostConnection
  BY DEF IInv
<1> QED
  BY <1>1, InductiveInvariant, PTL

(* _conn_list is at any time exactly what the pool serves.                 *)
THEOREM ListExact == Spec => []ListedAreServed
<1>1. IInv => ListedAreServed
  BY DEF IInv
<1> QED
  BY <1>1, InductiveInvariant, PTL

(* The NULL that shutdown() pushes is never taken out of the queue.        *)
THEOREM PoisonNeverConsumed == Spec => []PoisonStays
<1>1. IInv => PoisonStays
  BY DEF IInv
<1> QED
  BY <1>1, InductiveInvariant, PTL

-----------------------------------------------------------------------------
(* The refinement.  A step of the service needs two more facts: the NULL   *)
(* is queued by shutdown() only, and from then on nothing is accepted.     *)
CloseInv ==
  /\ mpc \in {"joinRequest", "setFlag", "pushNull"} => ~Queued(NULL)
  /\ mpc # "joinRequest" => rpc = "gone"

RInv == IInv /\ CloseInv

LEMMA InitCloseInv == Init => CloseInv
BY DEF Init, CloseInv, Queued

LEMMA CloseStep == RInv /\ [Next]_vars => CloseInv'
<1> SUFFICES ASSUME RInv, [Next]_vars PROVE CloseInv'
  OBVIOUS
<1>1. TypeOK /\ HandsInv /\ CloseInv
  BY DEF RInv, IInv
<1> USE DEF CloseInv
<1>2. ASSUME NEW t \in Threads, WorkerPop(t) PROVE CloseInv'
  <2>1. Queued(NULL)' => Queued(NULL)
    BY <1>1, <1>2, PopQueued DEF WorkerPop, TypeOK
  <2> QED
    BY <1>1, <1>2, <2>1 DEF WorkerPop
<1>3. ASSUME NEW t \in Threads, WorkerSleep(t) \/ WorkerExit(t) \/ WorkerEnlist(t)
                               \/ WorkerLeave(t) \/ WorkerRelease(t)
      PROVE CloseInv'
  BY <1>1, <1>3 DEF WorkerSleep, WorkerExit, WorkerEnlist, WorkerLeave, WorkerRelease, Queued
<1>4. CASE RequestPush
  <2>1. racc # NULL /\ rpc = "push"
    BY <1>1, <1>4 DEF RequestPush, HandsInv
  <2>2. Queued(NULL)' => Queued(NULL)
    BY <1>1, <1>4, <2>1, PushQueued DEF RequestPush, TypeOK
  <2> QED
    BY <1>1, <1>4, <2>1, <2>2 DEF RequestPush
<1>5. CASE RequestHead \/ RequestAccept \/ RequestAcceptFails \/ RequestNotify
  BY <1>1, <1>5 DEF RequestHead, RequestAccept, RequestAcceptFails, RequestNotify, Queued
<1>6. CASE MainStep
  BY <1>1, <1>6 DEF MainStep, MainJoinRequest, MainSetFlag, MainPushNull, MainNotifyOne,
     MainNotifyAll, Walk, WalkFreed, WalkEnd, MainDestroy, Queued
<1>7. CASE Signal \/ (\E c \in Conns : ClientClose(c)) \/ Ended \/ UNCHANGED vars
  BY <1>1, <1>7 DEF Signal, ClientClose, Ended, vars, Queued
<1> QED
  BY <1>2, <1>3, <1>4, <1>5, <1>6, <1>7 DEF Next, WorkerStep, RequestStep

(* What the pop and the push do to the line behind them.                   *)
LEMMA LineFacts ==
  ASSUME NEW S, NEW s \in Seq(S), NEW e \in S, s # <<>>
  PROVE  /\ Append(s, e) # <<>>
         /\ Head(Append(s, e)) = Head(s)
         /\ Tail(Append(s, e)) = Append(Tail(s), e)
OBVIOUS

(* The connections whose service is over, and who stands in the line.      *)
Gone == {c \in Conns : sock[c] = "deleted"}

LEMMA InLineFacts ==
  ASSUME TypeOK, NEW c
  PROVE  Service!InLine(c) <=> Queued(c) \/ (racc # NULL /\ racc = c)
<1>1. CASE racc = NULL
  BY <1>1 DEF Service!InLine, Queued
<1>2. CASE racc # NULL
  <2>1. /\ DOMAIN Append(workq, racc) = 1..(Len(workq) + 1)
        /\ DOMAIN workq = 1..Len(workq)
        /\ Len(workq) \in Nat
        /\ \A i \in 1..Len(workq) : Append(workq, racc)[i] = workq[i]
        /\ Append(workq, racc)[Len(workq) + 1] = racc
    BY AppendFacts DEF TypeOK
  <2>2. \A i \in 1..(Len(workq) + 1) : i \in 1..Len(workq) \/ i = Len(workq) + 1
    BY <2>1
  <2>3. Len(workq) + 1 \in 1..(Len(workq) + 1) /\ 1..Len(workq) \subseteq 1..(Len(workq) + 1)
    BY <2>1
  <2> QED
    BY <1>2, <2>1, <2>2, <2>3 DEF Service!InLine, Queued
<1> QED
  BY <1>1, <1>2

LEMMA ServiceInit == Init => Service!Init
BY DEF Init, Service!Init

(* A step of the pool that leaves line, threads' connections and deleted   *)
(* connections alone is a stutter of the service.                          *)
LEMMA Stutters ==
  ASSUME workq' = workq, racc' = racc, cur' = cur, Gone' = Gone
  PROVE  UNCHANGED Service!lineVars
BY DEF Service!lineVars, Gone

LEMMA ServiceStep == RInv /\ [Next]_vars => [Service!Next]_(Service!lineVars)
<1> SUFFICES ASSUME RInv, [Next]_vars PROVE Service!Next \/ UNCHANGED Service!lineVars
  OBVIOUS
<1>1. TypeOK /\ HandsInv /\ OneOwner /\ ListedAreServed /\ PoisonStays /\ CloseInv
  BY DEF RInv, IInv
<1>2. ASSUME NEW t \in Threads, WorkerPop(t) PROVE Service!Serve(t)
  <2>1. Head(workq) # NULL
    <3>1. ~Queued(NULL)
      BY <1>1, <1>2 DEF WorkerPop, PoisonStays, CloseInv
    <3>2. 1 \in DOMAIN workq /\ Head(workq) = workq[1]
      BY <1>1, <1>2, TailFacts DEF WorkerPop, TypeOK
    <3> QED
      BY <3>1, <3>2 DEF Queued
  <2>2. cur[t] = NULL
    BY <1>1, <1>2 DEF WorkerPop, HandsInv, Held
  <2>3. CASE racc = NULL
    BY <1>2, <2>1, <2>2, <2>3 DEF WorkerPop, Service!Serve
  <2>4. CASE racc # NULL
    <3>1. /\ Append(workq, racc) # <<>>
          /\ Head(Append(workq, racc)) = Head(workq)
          /\ Tail(Append(workq, racc)) = Append(Tail(workq), racc)
      BY <1>1, <1>2, LineFacts DEF WorkerPop, TypeOK
    <3> QED
      BY <1>2, <2>1, <2>2, <2>4, <3>1 DEF WorkerPop, Service!Serve
  <2> QED
    BY <2>3, <2>4
<1>3. ASSUME NEW t \in Threads, WorkerRelease(t) PROVE Service!Finish(t)
  <2>1. cur[t] \in Conns /\ cur[t] # NULL
    BY <1>1, <1>3 DEF WorkerRelease, HandsInv, Held, TypeOK
  <2>2. Gone' = Gone \cup {cur[t]}
    BY <1>1, <1>3, <2>1 DEF WorkerRelease, Gone, TypeOK
  <2> QED
    BY <1>3, <2>1, <2>2 DEF WorkerRelease, Service!Finish, Gone
<1>4. ASSUME NEW t \in Threads, WorkerSleep(t) \/ WorkerExit(t) \/ WorkerEnlist(t) \/ WorkerLeave(t)
      PROVE UNCHANGED Service!lineVars
  <2>1. workq' = workq /\ racc' = racc /\ cur' = cur /\ sock' = sock
    BY <1>4 DEF WorkerSleep, WorkerExit, WorkerEnlist, WorkerLeave
  <2> QED
    BY <2>1, Stutters DEF Gone
<1>5. CASE RequestAccept
  <2>1. PICK c \in Conns : sock[c] = "none" /\ sock' = [sock EXCEPT ![c] = "open"] /\ racc' = c
    BY <1>5 DEF RequestAccept
  <2>2. racc = NULL /\ ~Queued(NULL)
    BY <1>1, <1>5 DEF RequestAccept, HandsInv, CloseInv
  <2>3. ~Service!InLine(NULL) /\ ~Service!InLine(c)
    <3>1. ~Queued(c)
      BY <1>1, <2>1 DEF OneOwner, Live
    <3> QED
      BY <1>1, <2>2, <3>1, InLineFacts
  <2>4. ~Service!Known(c)
    BY <1>1, <2>1, <2>3 DEF Service!Known, OneOwner, Live
  <2>5. Gone' = Gone
    BY <1>1, <2>1 DEF Gone, TypeOK
  <2>6. Service!Arrive(c)
    BY <1>5, <2>1, <2>2, <2>3, <2>4, <2>5 DEF RequestAccept, Service!Arrive, Gone
  <2> QED
    BY <2>6 DEF Service!Next
<1>6. CASE RequestPush
  <2>1. racc # NULL /\ racc' = NULL /\ workq' = Append(workq, racc)
    BY <1>1, <1>6 DEF RequestPush, HandsInv
  <2>2. cur' = cur /\ sock' = sock
    BY <1>6 DEF RequestPush
  <2> QED
    BY <2>1, <2>2 DEF Service!lineVars
<1>7. CASE RequestHead \/ RequestAcceptFails \/ RequestNotify
  <2>1. workq' = workq /\ racc' = racc /\ cur' = cur /\ sock' = sock
    BY <1>7 DEF RequestHead, RequestAcceptFails, RequestNotify
  <2> QED
    BY <2>1, Stutters DEF Gone
<1>8. CASE MainPushNull
  <2>1. racc = NULL /\ ~Queued(NULL)
    BY <1>1, <1>8 DEF MainPushNull, HandsInv, CloseInv
  <2>2. ~Service!InLine(NULL)
    BY <1>1, <2>1, InLineFacts
  <2>3. Service!Close
    BY <1>8, <2>1, <2>2 DEF MainPushNull, Service!Close
  <2> QED
    BY <2>3 DEF Service!Next
<1>9. CASE Walk
  <2>1. iter \in Conns /\ sock[iter] # "deleted"
    BY <1>1, <1>9 DEF Walk, ListedAreServed, OneOwner, Live, TypeOK
  <2>2. Gone' = Gone
    BY <1>1, <1>9, <2>1 DEF Walk, Gone, TypeOK
  <2> QED
    BY <1>9, <2>2, Stutters DEF Walk
<1>10. CASE \/ MainJoinRequest \/ MainSetFlag \/ MainNotifyOne \/ MainNotifyAll
            \/ WalkFreed \/ WalkEnd \/ MainDestroy
  <2>1. workq' = workq /\ racc' = racc /\ cur' = cur /\ sock' = sock
    BY <1>10 DEF MainJoinRequest, MainSetFlag, MainNotifyOne, MainNotifyAll, WalkFreed,
       WalkEnd, MainDestroy
  <2> QED
    BY <2>1, Stutters DEF Gone
<1>11. ASSUME NEW c \in Conns, ClientClose(c) PROVE UNCHANGED Service!lineVars
  <2>1. Gone' = Gone
    BY <1>1, <1>11 DEF ClientClose, Gone, TypeOK
  <2> QED
    BY <1>11, <2>1, Stutters DEF ClientClose
<1>12. CASE Signal \/ Ended \/ UNCHANGED vars
  <2>1. workq' = workq /\ racc' = racc /\ cur' = cur /\ sock' = sock
    BY <1>12 DEF Signal, Ended, vars
  <2> QED
    BY <2>1, Stutters DEF Gone
<1> QED
  BY <1>2, <1>3, <1>4, <1>5, <1>6, <1>7, <1>8, <1>9, <1>10, <1>11, <1>12
     DEF Next, WorkerStep, RequestStep, MainStep, Service!Next

(* The pool implements the service: whatever the threads, the shutdown and *)
(* the clients do, connections are taken up in the order of accept(), by   *)
(* one thread and once, and none after the NULL.                           *)
THEOREM Refinement == Spec => Promise
<1>1. Init => RInv
  BY InitIInv, InitCloseInv DEF RInv
<1>2. RInv /\ [Next]_vars => RInv'
  BY TypeStep, HandsStep, OneOwnerStep, NoLostStep, ListedStep, PoisonStep, CloseStep
     DEF RInv, IInv
<1> QED
  BY <1>1, <1>2, ServiceInit, ServiceStep, PTL DEF Spec, Promise, Service!Spec

(***************************************************************************)
(* Module NeoQuery.                                                        *)
(***************************************************************************)

USE NeoAssumption DEF NeoAssumption

-----------------------------------------------------------------------------
(* Types, as far as the proofs need them.                                  *)

NeoPC == {"idle", "parse", "commands", "failed", "put"}

PoolTypes ==
  /\ connPool \in Seq(NeoConns)
  /\ neoPc \in [NeoWorkers -> NeoPC]
  /\ conn \in [NeoWorkers -> NeoConns \cup {NoConn}]

ImageTypes ==
  /\ open4j \in [NeoConns -> SUBSET Nat]
  /\ nodes4j \in SUBSET Nat
  /\ objects \in SUBSET Nat
  /\ named \in Nat

-----------------------------------------------------------------------------
(***************************************************************************)
(* The inductive invariant.  A connection is in the pool, at one place,    *)
(* or held by one worker, and a worker holds one as long as its query runs *)
(* (PoolInv).  Only names that were given are in the bucket, so that every *)
(* new one is unused; what a transaction refers to is in the bucket before *)
(* it commits, and was uploaded by that transaction (ImageInv).            *)
(***************************************************************************)
Pooled(c) == \E i \in DOMAIN connPool : connPool[i] = c

PoolInv ==
  /\ \A i, j \in DOMAIN connPool : connPool[i] = connPool[j] => i = j
  /\ \A c \in NeoConns : Pooled(c) <=> ~Holds(c)
  /\ \A v, w \in NeoWorkers : conn[v] # NoConn /\ conn[v] = conn[w] => v = w
  /\ \A w \in NeoWorkers : conn[w] = NoConn <=> neoPc[w] = "idle"

ImageInv ==
  /\ objects \subseteq 1..named
  /\ nodes4j \subseteq objects
  /\ \A c \in NeoConns : open4j[c] \subseteq objects \cup NoTx
  /\ \A w \in NeoWorkers : neoPc[w] = "commands" => open4j[conn[w]] \subseteq objects
  /\ \A c, d \in NeoConns : c # d => open4j[c] \cap open4j[d] \subseteq NoTx

NeoInv == PoolTypes /\ PoolInv /\ ImageTypes /\ ImageInv

-----------------------------------------------------------------------------
(* The pool.                                                               *)

(* The pool starts with every connection, once.                            *)
LEMMA PoolStart ==
  /\ SetToSeq(NeoConns) \in Seq(NeoConns)
  /\ \A c \in NeoConns : \E i \in DOMAIN SetToSeq(NeoConns) : SetToSeq(NeoConns)[i] = c
  /\ \A i, j \in DOMAIN SetToSeq(NeoConns) :
       SetToSeq(NeoConns)[i] = SetToSeq(NeoConns)[j] => i = j
<1> DEFINE n == Cardinality(NeoConns)
           s == SetToSeq(NeoConns)
<1>1. n \in Nat /\ ExistsBijection(1..n, NeoConns)
  BY FS_CardinalityType
<1>2. \E f \in [1..n -> NeoConns] : IsInjective(f)
  BY <1>1 DEF ExistsBijection, Bijection, Injection, IsInjective
<1>3. s \in [1..n -> NeoConns] /\ IsInjective(s)
  BY <1>2 DEF SetToSeq
<1>4. s \in Injection(1..n, NeoConns)
  BY <1>3 DEF Injection
<1>5. s \in Surjection(1..n, NeoConns)
  <2>1. Cardinality(1..n) = n
    BY <1>1, FS_Interval
  <2> HIDE DEF n, s
  <2> QED
    BY <1>4, <2>1, FS_Injection DEF n
<1>6. s \in Seq(NeoConns)
  BY <1>1, <1>3
<1> QED
  BY <1>3, <1>5, <1>6 DEF Surjection, IsInjective

(* What get_conn takes is not left behind.                                 *)
LEMMA TakeFacts ==
  ASSUME NEW s \in Seq(NeoConns), s # <<>>,
         \A i, j \in DOMAIN s : s[i] = s[j] => i = j
  PROVE  /\ Head(s) \in NeoConns
         /\ \E i \in DOMAIN s : s[i] = Head(s)
         /\ Tail(s) \in Seq(NeoConns)
         /\ \A i, j \in DOMAIN Tail(s) : Tail(s)[i] = Tail(s)[j] => i = j
         /\ \A c : (\E i \in DOMAIN Tail(s) : Tail(s)[i] = c)
                     <=> c # Head(s) /\ \E i \in DOMAIN s : s[i] = c
<1>1. /\ Len(s) \in Nat /\ Len(s) >= 1
      /\ DOMAIN s = 1..Len(s)
      /\ Head(s) = s[1]
      /\ Tail(s) \in Seq(NeoConns)
      /\ DOMAIN Tail(s) = 1..(Len(s) - 1)
      /\ \A i \in 1..(Len(s) - 1) : Tail(s)[i] = s[i + 1]
  BY HeadTailProperties, EmptySeq
<1>2. \A i \in 1..Len(s) : i # 1 => (i - 1) \in 1..(Len(s) - 1) /\ (i - 1) + 1 = i
  BY <1>1
<1>3. \A c : (\E i \in DOMAIN Tail(s) : Tail(s)[i] = c)
               <=> c # Head(s) /\ \E i \in DOMAIN s : s[i] = c
  <2> TAKE c
  <2>1. ASSUME NEW i \in DOMAIN Tail(s), Tail(s)[i] = c
        PROVE  c # Head(s) /\ \E k \in DOMAIN s : s[k] = c
    BY <1>1, <2>1
  <2>2. ASSUME c # Head(s), NEW i \in DOMAIN s, s[i] = c
        PROVE  \E k \in DOMAIN Tail(s) : Tail(s)[k] = c
    BY <1>1, <1>2, <2>2
  <2> QED
    BY <2>1, <2>2
<1> QED
  BY <1>1, <1>3

(* What put_conn gives back is added.                                      *)
LEMMA GiveFacts ==
  ASSUME NEW s \in Seq(NeoConns), NEW c \in NeoConns,
         \A i, j \in DOMAIN s : s[i] = s[j] => i = j,
         ~ \E i \in DOMAIN s : s[i] = c
  PROVE  /\ Append(s, c) \in Seq(NeoConns)
         /\ \A i, j \in DOMAIN Append(s, c) : Append(s, c)[i] = Append(s, c)[j] => i = j
         /\ \A d : (\E i \in DOMAIN Append(s, c) : Append(s, c)[i] = d)
                     <=> d = c \/ \E i \in DOMAIN s : s[i] = d
<1>1. /\ Len(s) \in Nat
      /\ DOMAIN s = 1..Len(s)
      /\ DOMAIN Append(s, c) = 1..(Len(s) + 1)
      /\ \A i \in 1..Len(s) : Append(s, c)[i] = s[i]
      /\ Append(s, c)[Len(s) + 1] = c
      /\ Append(s, c) \in Seq(NeoConns)
  OBVIOUS
<1>2. \A i \in 1..(Len(s) + 1) : i \in 1..Len(s) \/ i = Len(s) + 1
  BY <1>1
<1> QED
  BY <1>1, <1>2

LEMMA InitPool == NeoInit => PoolTypes /\ PoolInv
<1> SUFFICES ASSUME NeoInit PROVE PoolTypes /\ PoolInv
  OBVIOUS
<1>1. \A w \in NeoWorkers : conn[w] = NoConn /\ neoPc[w] = "idle"
  BY DEF NeoInit
<1>2. PoolTypes
  BY PoolStart DEF NeoInit, PoolTypes, NeoPC
<1>3. \A c \in NeoConns : Pooled(c) /\ ~Holds(c)
  BY <1>1, PoolStart DEF NeoInit, Pooled, Holds
<1>4. PoolInv
  BY <1>1, <1>3, PoolStart DEF NeoInit, PoolInv
<1> QED
  BY <1>2, <1>4

(* A step inside a query leaves the pool and the holders alone.            *)
LEMMA InsidePool ==
  ASSUME PoolTypes, PoolInv, UNCHANGED <<connPool, conn>>,
         neoPc' \in [NeoWorkers -> NeoPC],
         \A w \in NeoWorkers : neoPc'[w] = "idle" <=> neoPc[w] = "idle"
  PROVE  PoolTypes' /\ PoolInv'
  BY DEF PoolTypes, PoolInv, Pooled, Holds

LEMMA PoolStep == PoolTypes /\ PoolInv /\ [NeoNext]_neoVars => PoolTypes' /\ PoolInv'
<1> SUFFICES ASSUME PoolTypes, PoolInv, [NeoNext]_neoVars PROVE PoolTypes' /\ PoolInv'
  OBVIOUS
<1>1. ASSUME NEW w \in NeoWorkers, GetConn(w) PROVE PoolTypes' /\ PoolInv'
  <2> DEFINE c == Head(connPool)
  <2>1. /\ neoPc[w] = "idle" /\ conn[w] = NoConn
        /\ connPool \in Seq(NeoConns) /\ connPool # <<>>
        /\ \A i, j \in DOMAIN connPool : connPool[i] = connPool[j] => i = j
    BY <1>1 DEF GetConn, PoolTypes, PoolInv
  <2>2. /\ connPool' = Tail(connPool)
        /\ \A v \in NeoWorkers : conn'[v] = IF v = w THEN c ELSE conn[v]
        /\ \A v \in NeoWorkers : neoPc'[v] = IF v = w THEN "parse" ELSE neoPc[v]
    BY <1>1 DEF GetConn, PoolTypes
  <2>3. /\ c \in NeoConns /\ Pooled(c)
        /\ connPool' \in Seq(NeoConns)
        /\ \A i, j \in DOMAIN connPool' : connPool'[i] = connPool'[j] => i = j
        /\ \A d : Pooled(d)' <=> d # c /\ Pooled(d)
    <3> DEFINE s == connPool
    <3>1. s \in Seq(NeoConns) /\ s # <<>> /\ \A i, j \in DOMAIN s : s[i] = s[j] => i = j
      BY <2>1
    <3> HIDE DEF s
    <3>2. /\ Head(s) \in NeoConns
          /\ \E i \in DOMAIN s : s[i] = Head(s)
          /\ Tail(s) \in Seq(NeoConns)
          /\ \A i, j \in DOMAIN Tail(s) : Tail(s)[i] = Tail(s)[j] => i = j
          /\ \A d : (\E i \in DOMAIN Tail(s) : Tail(s)[i] = d)
                      <=> d # Head(s) /\ \E i \in DOMAIN s : s[i] = d
      BY <3>1, TakeFacts
    <3> QED
      BY <2>2, <3>2 DEF Pooled, s
  <2>4. \A v \in NeoWorkers : conn[v] # c
    BY <2>3 DEF PoolInv, Holds
  <2> HIDE DEF c
  <2>5. PoolTypes'
    BY <1>1, <2>3 DEF PoolTypes, GetConn, NeoPC, c
  <2>6. \A d \in NeoConns : Holds(d)' <=> d = c \/ Holds(d)
    BY <2>1, <2>2 DEF Holds
  <2>7. PoolInv'
    BY <2>1, <2>2, <2>3, <2>4, <2>6 DEF PoolInv
  <2> QED
    BY <2>5, <2>7
<1>2. ASSUME NEW w \in NeoWorkers, PutConn(w) PROVE PoolTypes' /\ PoolInv'
  <2> DEFINE c == conn[w]
  <2>1. neoPc[w] # "idle" /\ c \in NeoConns /\ ~Pooled(c)
    BY <1>2 DEF PutConn, PoolTypes, PoolInv, Holds
  <2>2. /\ connPool' = Append(connPool, c)
        /\ \A v \in NeoWorkers : conn'[v] = IF v = w THEN NoConn ELSE conn[v]
        /\ \A v \in NeoWorkers : neoPc'[v] = IF v = w THEN "idle" ELSE neoPc[v]
    BY <1>2 DEF PutConn, PoolTypes
  <2>3. /\ connPool' \in Seq(NeoConns)
        /\ \A i, j \in DOMAIN connPool' : connPool'[i] = connPool'[j] => i = j
        /\ \A d : Pooled(d)' <=> d = c \/ Pooled(d)
    BY <2>1, <2>2, GiveFacts DEF Pooled, PoolTypes, PoolInv
  <2>4. \A d \in NeoConns : Holds(d)' <=> d # c /\ Holds(d)
    BY <2>1, <2>2 DEF Holds, PoolInv
  <2>5. PoolTypes'
    BY <1>2, <2>3 DEF PoolTypes, PutConn, NeoPC
  <2>6. PoolInv'
    BY <2>1, <2>2, <2>3, <2>4 DEF PoolInv
  <2> QED
    BY <2>5, <2>6
<1>3. ASSUME NEW w \in NeoWorkers, Malformed(w) PROVE PoolTypes' /\ PoolInv'
  BY <1>3, InsidePool DEF Malformed, PoolTypes
<1>4. ASSUME NEW w \in NeoWorkers, OpenTx(w) PROVE PoolTypes' /\ PoolInv'
  BY <1>4, InsidePool DEF OpenTx, PoolTypes, NeoPC
<1>5. ASSUME NEW w \in NeoWorkers, OpenTxFails(w) PROVE PoolTypes' /\ PoolInv'
  BY <1>5, InsidePool DEF OpenTxFails, PoolTypes
<1>6. ASSUME NEW w \in NeoWorkers, NeoAddMetadata(w) PROVE PoolTypes' /\ PoolInv'
  BY <1>6, InsidePool DEF NeoAddMetadata, Answered, PoolTypes
<1>7. ASSUME NEW w \in NeoWorkers, NeoAddImage(w) PROVE PoolTypes' /\ PoolInv'
  <2>1. neoPc[w] = "commands" /\ UNCHANGED <<connPool, conn>>
    BY <1>7 DEF NeoAddImage, Running4j
  <2>2. neoPc' = neoPc \/ neoPc' = [neoPc EXCEPT ![w] = "failed"]
    BY <1>7 DEF NeoAddImage, Answered
  <2> QED
    BY <2>1, <2>2, InsidePool DEF PoolTypes, NeoPC
<1>8. ASSUME NEW w \in NeoWorkers, NeoAddExits(w) PROVE PoolTypes' /\ PoolInv'
  BY <1>8, InsidePool DEF NeoAddExits, PoolTypes
<1>9. ASSUME NEW w \in NeoWorkers, NeoFindImages(w) PROVE PoolTypes' /\ PoolInv'
  BY <1>9, InsidePool DEF NeoFindImages, Answered, PoolTypes
<1>10. ASSUME NEW w \in NeoWorkers, CommitTx(w) PROVE PoolTypes' /\ PoolInv'
  BY <1>10, InsidePool DEF CommitTx, PoolTypes, NeoPC
<1>11. ASSUME NEW w \in NeoWorkers, CommitFails(w) PROVE PoolTypes' /\ PoolInv'
  BY <1>11, InsidePool DEF CommitFails, PoolTypes, NeoPC
<1>12. ASSUME UNCHANGED neoVars PROVE PoolTypes' /\ PoolInv'
  BY <1>12, InsidePool DEF neoVars, PoolTypes
<1> QED
  BY <1>1, <1>2, <1>3, <1>4, <1>5, <1>6, <1>7, <1>8, <1>9, <1>10, <1>11, <1>12 DEF NeoNext

-----------------------------------------------------------------------------
(* The images.                                                             *)

LEMMA InitImages == NeoInit => ImageTypes /\ ImageInv
  BY DEF NeoInit, ImageTypes, ImageInv, NoTx

(* The connection of a running query is its own.                           *)
LEMMA OwnConn ==
  ASSUME PoolTypes, PoolInv, NEW w \in NeoWorkers, neoPc[w] # "idle"
  PROVE  /\ conn[w] \in NeoConns
         /\ \A v \in NeoWorkers \ {w} : conn[v] # conn[w]
  BY DEF PoolTypes, PoolInv

(* A step that ends a transaction, or changes none, and uploads nothing.   *)
LEMMA QuietImages ==
  ASSUME ImageTypes, ImageInv, UNCHANGED <<objects, named, nodes4j>>,
         open4j' \in [NeoConns -> SUBSET Nat],
         \A c \in NeoConns : open4j'[c] \in {open4j[c], {}, NoTx},
         \A w \in NeoWorkers : neoPc'[w] = "commands" =>
           open4j'[conn'[w]] \subseteq objects
  PROVE  ImageTypes' /\ ImageInv'
  BY DEF ImageTypes, ImageInv, NoTx

LEMMA ImageStep == NeoInv /\ [NeoNext]_neoVars => ImageTypes' /\ ImageInv'
<1> SUFFICES ASSUME NeoInv, [NeoNext]_neoVars PROVE ImageTypes' /\ ImageInv'
  OBVIOUS
<1>0. PoolTypes /\ PoolInv /\ ImageTypes /\ ImageInv
  BY DEF NeoInv
<1>1. ASSUME NEW w \in NeoWorkers, GetConn(w) PROVE ImageTypes' /\ ImageInv'
  <2>1. \A v \in NeoWorkers : neoPc'[v] = "commands" =>
          neoPc[v] = "commands" /\ conn'[v] = conn[v]
    BY <1>0, <1>1 DEF GetConn, PoolTypes
  <2> QED
    BY <1>0, <1>1, <2>1, QuietImages DEF GetConn, ImageTypes, ImageInv
<1>2. ASSUME NEW w \in NeoWorkers, PutConn(w) PROVE ImageTypes' /\ ImageInv'
  <2>1. \A v \in NeoWorkers : neoPc'[v] = "commands" =>
          neoPc[v] = "commands" /\ conn'[v] = conn[v]
    BY <1>0, <1>2 DEF PutConn, PoolTypes
  <2> QED
    BY <1>0, <1>2, <2>1, QuietImages DEF PutConn, ImageTypes, ImageInv
<1>3. ASSUME NEW w \in NeoWorkers, Malformed(w) PROVE ImageTypes' /\ ImageInv'
  BY <1>0, <1>3, QuietImages DEF Malformed, ImageTypes, ImageInv
<1>4. ASSUME NEW w \in NeoWorkers, OpenTx(w) PROVE ImageTypes' /\ ImageInv'
  <2>1. /\ neoPc[w] # "idle"
        /\ open4j' = [open4j EXCEPT ![conn[w]] = {}]
        /\ UNCHANGED <<conn, objects, named, nodes4j>>
    BY <1>4 DEF OpenTx
  <2>2. \A v \in NeoWorkers : v # w => neoPc'[v] = neoPc[v]
    BY <1>0, <1>4 DEF OpenTx, PoolTypes
  <2>3. \A c \in NeoConns : open4j'[c] = IF c = conn[w] THEN {} ELSE open4j[c]
    BY <1>0, <2>1, OwnConn DEF ImageTypes
  <2>4. \A v \in NeoWorkers : neoPc'[v] = "commands" => open4j'[conn'[v]] \subseteq objects
    <3>1. conn[w] \in NeoConns
      BY <1>0, <2>1, OwnConn
    <3> SUFFICES ASSUME NEW v \in NeoWorkers \ {w}, neoPc[v] = "commands"
                 PROVE  open4j'[conn[v]] \subseteq objects
      BY <2>1, <2>2, <2>3, <3>1
    <3>2. conn[v] \in NeoConns /\ conn[v] # conn[w]
      BY <1>0, <2>1, OwnConn
    <3> QED
      BY <1>0, <2>3, <3>2 DEF ImageInv
  <2> QED
    BY <1>0, <2>1, <2>3, <2>4, QuietImages DEF ImageTypes
<1>5. ASSUME NEW w \in NeoWorkers, OpenTxFails(w) PROVE ImageTypes' /\ ImageInv'
  BY <1>0, <1>5, QuietImages DEF OpenTxFails, ImageTypes, ImageInv
<1>6. ASSUME NEW w \in NeoWorkers, NeoAddMetadata(w) PROVE ImageTypes' /\ ImageInv'
  BY <1>0, <1>6, QuietImages DEF NeoAddMetadata, Answered, ImageTypes, ImageInv
<1>7. ASSUME NEW w \in NeoWorkers, NeoAddImage(w) PROVE ImageTypes' /\ ImageInv'
  <2> DEFINE n == named + 1
  <2>1. /\ neoPc[w] = "commands" /\ named' = n /\ UNCHANGED <<conn, nodes4j>>
        /\ conn[w] \in NeoConns
    BY <1>0, <1>7, OwnConn DEF NeoAddImage, Running4j
  <2>2. n \in Nat /\ n \notin 1..named /\ 1..named' = 1..named \cup {n}
    BY <1>0, <2>1 DEF ImageTypes
  <2>3. objects \subseteq objects' /\ objects' \subseteq objects \cup {n}
    BY <1>7, <2>1 DEF NeoAddImage, RemoteWrite
  <2>4. \/ UNCHANGED open4j /\ neoPc' = [neoPc EXCEPT ![w] = "failed"]
        \/ /\ n \in objects'
           /\ open4j' = [open4j EXCEPT ![conn[w]] = @ \cup {n}]
           /\ neoPc' = neoPc
    BY <1>7, <2>1 DEF NeoAddImage, Uploaded, Answered
  <2>5. \A c \in NeoConns : n \notin open4j[c]
    BY <1>0, <2>2 DEF ImageInv, ImageTypes, NoTx
  <2> HIDE DEF n
  <2>6. CASE UNCHANGED open4j /\ neoPc' = [neoPc EXCEPT ![w] = "failed"]
    <3>1. ImageTypes'
      BY <1>0, <2>1, <2>2, <2>3, <2>6 DEF ImageTypes
    <3>2. \A v \in NeoWorkers : neoPc'[v] = "commands" => neoPc[v] = "commands"
      BY <1>0, <2>6 DEF PoolTypes
    <3>3. ImageInv'
      BY <1>0, <2>1, <2>2, <2>3, <2>6, <3>2 DEF ImageInv
    <3> QED
      BY <3>1, <3>3
  <2>7. CASE /\ n \in objects'
             /\ open4j' = [open4j EXCEPT ![conn[w]] = @ \cup {n}]
             /\ neoPc' = neoPc
    <3>1. \A c \in NeoConns : open4j'[c] = IF c = conn[w] THEN open4j[c] \cup {n} ELSE open4j[c]
      BY <1>0, <2>1, <2>7 DEF ImageTypes
    <3>2. ImageTypes'
      BY <1>0, <2>1, <2>2, <2>3, <2>7 DEF ImageTypes
    <3>3. /\ objects' \subseteq 1..named'
          /\ nodes4j' \subseteq objects'
      BY <1>0, <2>1, <2>2, <2>3 DEF ImageInv
    <3>4. \A c \in NeoConns : open4j'[c] \subseteq objects' \cup NoTx
      <4> SUFFICES ASSUME NEW c \in NeoConns PROVE open4j'[c] \subseteq objects' \cup NoTx
        OBVIOUS
      <4>1. open4j[c] \subseteq objects \cup NoTx
        BY <1>0 DEF ImageInv
      <4>2. open4j'[c] \subseteq open4j[c] \cup {n}
        BY <3>1
      <4> QED
        BY <2>3, <2>7, <4>1, <4>2
    <3>5. \A v \in NeoWorkers : neoPc'[v] = "commands" => open4j'[conn'[v]] \subseteq objects'
      <4> SUFFICES ASSUME NEW v \in NeoWorkers, neoPc[v] = "commands"
                   PROVE  open4j'[conn[v]] \subseteq objects'
        BY <2>1, <2>7
      <4>1. conn[v] \in NeoConns
        BY <1>0, OwnConn
      <4>2. open4j[conn[v]] \subseteq objects
        BY <1>0 DEF ImageInv
      <4>3. open4j'[conn[v]] \subseteq open4j[conn[v]] \cup {n}
        BY <3>1, <4>1
      <4> QED
        BY <2>3, <2>7, <4>2, <4>3
    <3>6. \A c, d \in NeoConns : c # d => open4j'[c] \cap open4j'[d] \subseteq NoTx
      <4> SUFFICES ASSUME NEW c \in NeoConns, NEW d \in NeoConns, c # d
                   PROVE  open4j'[c] \cap open4j'[d] \subseteq NoTx
        OBVIOUS
      <4>1. open4j[c] \cap open4j[d] \subseteq NoTx /\ n \notin open4j[c] /\ n \notin open4j[d]
        BY <1>0, <2>5 DEF ImageInv
      <4>2. CASE c = conn[w]
        <5>1. open4j'[c] = open4j[c] \cup {n} /\ open4j'[d] = open4j[d]
          BY <3>1, <4>2
        <5> QED
          BY <4>1, <5>1
      <4>3. CASE c # conn[w]
        <5>1. open4j'[c] = open4j[c] /\ open4j'[d] \subseteq open4j[d] \cup {n}
          BY <3>1, <4>3
        <5> QED
          BY <4>1, <5>1
      <4> QED
        BY <4>2, <4>3
    <3> QED
      BY <3>2, <3>3, <3>4, <3>5, <3>6 DEF ImageInv
  <2> QED
    BY <2>4, <2>6, <2>7
<1>8. ASSUME NEW w \in NeoWorkers, NeoAddExits(w) PROVE ImageTypes' /\ ImageInv'
  BY <1>0, <1>8, QuietImages DEF NeoAddExits, ImageTypes, ImageInv
<1>9. ASSUME NEW w \in NeoWorkers, NeoFindImages(w) PROVE ImageTypes' /\ ImageInv'
  BY <1>0, <1>9, QuietImages DEF NeoFindImages, Answered, ImageTypes, ImageInv
<1>10. ASSUME NEW w \in NeoWorkers, CommitTx(w) PROVE ImageTypes' /\ ImageInv'
  <2>1. /\ neoPc[w] = "commands"
        /\ nodes4j' = nodes4j \cup open4j[conn[w]]
        /\ open4j' = [open4j EXCEPT ![conn[w]] = NoTx]
        /\ UNCHANGED <<conn, objects, named>>
    BY <1>10 DEF CommitTx
  <2>2. conn[w] \in NeoConns
    BY <1>0, <2>1, OwnConn
  <2>3. \A v \in NeoWorkers : neoPc'[v] = "commands" => v # w /\ neoPc[v] = "commands"
    BY <1>0, <1>10 DEF CommitTx, PoolTypes
  <2>4. \A c \in NeoConns : open4j'[c] = IF c = conn[w] THEN NoTx ELSE open4j[c]
    BY <1>0, <2>1 DEF ImageTypes
  <2>5. nodes4j' \subseteq objects
    BY <1>0, <2>1 DEF ImageInv
  <2>6. \A v \in NeoWorkers : neoPc'[v] = "commands" => open4j'[conn'[v]] \subseteq objects
    <3> SUFFICES ASSUME NEW v \in NeoWorkers \ {w}, neoPc[v] = "commands"
                 PROVE  open4j'[conn[v]] \subseteq objects
      BY <2>1, <2>3
    <3>1. conn[v] \in NeoConns /\ conn[v] # conn[w]
      BY <1>0, <2>1, OwnConn
    <3> QED
      BY <1>0, <2>4, <3>1 DEF ImageInv
  <2>7. ImageTypes'
    <3>1. NoTx \in SUBSET Nat
      BY DEF NoTx
    <3>2. open4j[conn[w]] \in SUBSET Nat
      BY <1>0, <2>2 DEF ImageTypes
    <3> QED
      BY <1>0, <2>1, <3>1, <3>2 DEF ImageTypes
  <2>8. ImageInv'
    BY <1>0, <2>1, <2>4, <2>5, <2>6 DEF ImageInv
  <2> QED
    BY <2>7, <2>8
<1>11. ASSUME NEW w \in NeoWorkers, CommitFails(w) PROVE ImageTypes' /\ ImageInv'
  <2>1. /\ neoPc[w] = "commands"
        /\ open4j' = [open4j EXCEPT ![conn[w]] = NoTx]
        /\ UNCHANGED <<conn, objects, named, nodes4j>>
    BY <1>11 DEF CommitFails
  <2>2. conn[w] \in NeoConns
    BY <1>0, <2>1, OwnConn
  <2>3. \A v \in NeoWorkers : neoPc'[v] = "commands" => v # w /\ neoPc[v] = "commands"
    BY <1>0, <1>11 DEF CommitFails, PoolTypes
  <2>4. \A c \in NeoConns : open4j'[c] = IF c = conn[w] THEN NoTx ELSE open4j[c]
    BY <1>0, <2>1 DEF ImageTypes
  <2>5. \A v \in NeoWorkers : neoPc'[v] = "commands" => open4j'[conn'[v]] \subseteq objects
    <3> SUFFICES ASSUME NEW v \in NeoWorkers \ {w}, neoPc[v] = "commands"
                 PROVE  open4j'[conn[v]] \subseteq objects
      BY <2>1, <2>3
    <3>1. conn[v] \in NeoConns /\ conn[v] # conn[w]
      BY <1>0, <2>1, OwnConn
    <3> QED
      BY <1>0, <2>4, <3>1 DEF ImageInv
  <2>6. open4j' \in [NeoConns -> SUBSET Nat]
    <3>1. NoTx \in SUBSET Nat
      BY DEF NoTx
    <3> QED
      BY <1>0, <2>1, <3>1 DEF ImageTypes
  <2> QED
    BY <1>0, <2>1, <2>4, <2>5, <2>6, QuietImages
<1>12. ASSUME UNCHANGED neoVars PROVE ImageTypes' /\ ImageInv'
  BY <1>0, <1>12, QuietImages DEF neoVars, ImageTypes, ImageInv
<1> QED
  BY <1>1, <1>2, <1>3, <1>4, <1>5, <1>6, <1>7, <1>8, <1>9, <1>10, <1>11, <1>12 DEF NeoNext

-----------------------------------------------------------------------------
(* The theorems.                                                           *)

(* Connections have one holder, names are fresh, and what is committed was *)
(* uploaded before.                                                        *)
THEOREM NeoInductive == NeoSpec => []NeoInv
<1>1. NeoInit => NeoInv
  BY InitPool, InitImages DEF NeoInv
<1>2. NeoInv /\ [NeoNext]_neoVars => NeoInv'
  BY PoolStep, ImageStep DEF NeoInv
<1> QED
  BY <1>1, <1>2, PTL DEF NeoSpec

LEMMA PoolCounts ==
  ASSUME NeoInv, NEW c \in NeoConns
  PROVE  Cardinality({i \in DOMAIN connPool : connPool[i] = c})
           + (IF Holds(c) THEN 1 ELSE 0) = 1
<1> DEFINE places == {i \in DOMAIN connPool : connPool[i] = c}
<1>1. CASE Holds(c)
  <2>1. places = {}
    BY <1>1 DEF NeoInv, PoolInv, Pooled
  <2> QED
    BY <1>1, <2>1, FS_EmptySet
<1>2. CASE ~Holds(c)
  <2>1. PICK i \in DOMAIN connPool : connPool[i] = c
    BY <1>2 DEF NeoInv, PoolInv, Pooled
  <2>2. \A j \in DOMAIN connPool : connPool[j] = c => j = i
    BY <2>1 DEF NeoInv, PoolInv
  <2>3. places = {i}
    BY <2>1, <2>2
  <2>4. Cardinality(places) = 1
    BY <2>3, FS_Singleton
  <2> QED
    BY <1>2, <2>4
<1> QED
  BY <1>1, <1>2

(* Whatever fails on the way, every connection is in the pool once or with *)
(* one worker (get_conn, put_conn): none is lost or shared.                *)
THEOREM ConnectionsConserved == NeoSpec => []ConnsConserved
<1>1. NeoInv => ConnsConserved
  BY PoolCounts DEF NeoInv, PoolInv, ConnsConserved
<1> QED
  BY <1>1, NeoInductive, PTL

(* A committed node's image is in the bucket, and no two transactions refer*)
(* to one image, though the bucket and Neo4j commit separately.            *)
THEOREM CommittedImagesStored == NeoSpec => []NeoImagesStored
<1>1. NeoInv => NeoImagesStored
  BY DEF NeoInv, ImageInv, NeoImagesStored
<1> QED
  BY <1>1, NeoInductive, PTL
=============================================================================
