-------------------------- MODULE EventLoop_proofs --------------------------
(***************************************************************************)
(* Proofs about module EventLoop: for any number of videos and remote      *)
(* operations no hand-over loses or duplicates a video, the services are   *)
(* called with the whole batch, and the handler finds the loop at rest.    *)
(***************************************************************************)
EXTENDS EventLoop, FiniteSetTheorems, TLAPS

(***************************************************************************)
(* The inductive invariant speaks of each queue by itself: which videos    *)
(* are in it, each of them once, and how many remote operations they have  *)
(* left.                                                                   *)
(***************************************************************************)
In(q, v) == \E i \in 1..Len(q) : q[i].id = v

Once(q, v) == \A i, j \in 1..Len(q) : q[i].id = v /\ q[j].id = v => i = j

Left(q, k) == \A i \in 1..Len(q) : q[i].id # Wake => q[i].left = k

Flying(v) ==
  In(m_writeBuffer, v) \/ In(lBatch, v) \/ In(r_writeBuffer, v) \/ In(rBatch, v)

Over == \E v \in sent : ~Flying(v)

Clean == ~Failure /\ ~torn

(* Each video is in one queue, once.  One with an error is in none any     *)
(* more, and before there is an error one that is in none has its result.  *)
OneQueue(v) ==
  /\ Once(m_writeBuffer, v) /\ Once(lBatch, v)
  /\ Once(r_writeBuffer, v) /\ Once(rBatch, v)
  /\ In(m_writeBuffer, v) => ~In(lBatch, v) /\ ~In(r_writeBuffer, v) /\ ~In(rBatch, v)
  /\ In(lBatch, v) => ~In(r_writeBuffer, v) /\ ~In(rBatch, v)
  /\ In(r_writeBuffer, v) => ~In(rBatch, v)

PlaceInv ==
  /\ \A v \in Videos : OneQueue(v)
  /\ \A v \in Videos : Flying(v) => v \in sent
  /\ \A v \in Videos : videoMap[v] = Failed => v \in sent /\ ~Flying(v)
  /\ Clean => \A v \in sent : Flying(v) \/ videoMap[v] = 0

(* What the program counters say about the flags, the batches and the      *)
(* elements of the destructor.                                             *)
Late == {"wake_local", "join_local", "wake_remote", "join_remote", "done"}

HandlerInv ==
  /\ destroyed <=> hpc \in Late
  /\ hpc \notin {"send", "destroy"} => ~m_running /\ ~r_running
  /\ hpc = "answer" => sent = Videos
  /\ hpc = "crashed" => lpc = "exit" /\ rpc = "exit"

LocalInv == lpc \notin {"work", "exit"} => lBatch = <<>>

WakeInv ==
  /\ In(m_writeBuffer, Wake) => destroyed
  /\ In(lBatch, Wake) => destroyed
  /\ In(r_writeBuffer, Wake) => destroyed
  /\ In(rBatch, Wake) => destroyed /\ rpc \in {"test", "loop", "exit"}

RemoteInv ==
  /\ rpc \in {"wait", "unmark", "stop", "stop_r"} => rBatch = <<>>
  /\ rpc = "test" => rBatch = <<>> \/ Len(rBatch) = N
  /\ rpc \in {"loop", "exit"} => rBatch = <<>> \/ ~r_running
  /\ rpc \in {"mark", "call"} => Len(rBatch) = N /\ \E k \in 0..MaxRounds : Left(rBatch, k)
  /\ rpc \in {"finish", "insert", "enqueue"} => rBatch # <<>>
  /\ Clean /\ ~remote_running =>
       /\ rpc \notin {"call", "finish", "insert"}
       /\ rpc = "enqueue" => Len(rBatch) = 1

(* Until the destructor adds its elements all videos are in one round: k   *)
(* remote operations are left, one less for the videos that wait for the   *)
(* next call.  Once a video has all its results there are none left.       *)
Round(k) ==
  /\ Left(m_writeBuffer, k) /\ Left(lBatch, k) /\ Left(rBatch, k)
  /\ Left(r_writeBuffer, k - 1)
  /\ sent # Videos => k = rounds
  /\ Clean /\ Over => k = 0

RoundInv == ~destroyed => \E k \in 0..MaxRounds : Round(k)

(* While the handler waits: what the local thread knows when it finds the  *)
(* loop at rest stays true, whatever the remote thread does after it.      *)
Early == hpc \in {"send", "answer"}

Stopping ==
  lpc \in {"m_size", "r_size", "stop", "stop_r"} \/ ~m_running \/ ~r_running

AtRest ==
  /\ Over
  /\ lBatch = <<>>
  /\ rBatch # <<>> => rpc = "enqueue" /\ Len(rBatch) = 1

StopInv ==
  Early /\ Clean =>
    /\ lpc = "work" /\ ~flag => lBatch # <<>> \/ Over
    /\ Stopping => AtRest
    /\ ~r_running => ~m_running
    /\ ~m_running => lpc \in {"stop_r", "loop", "exit"}
    /\ lpc \in {"stop_r", "exit"} => ~m_running
    /\ rpc \notin {"stop", "stop_r"}

IInv ==
  TypeOK /\ PlaceInv /\ HandlerInv /\ LocalInv /\ WakeInv /\ RemoteInv /\ RoundInv /\ StopInv

USE SizesAssumption DEF SizesAssumption

-----------------------------------------------------------------------------
(* What the operations of a queue do to its elements.                      *)

LEMMA EmptyFacts ==
  /\ \A v : ~In(<<>>, v) /\ Once(<<>>, v)
  /\ \A k : Left(<<>>, k)
BY DEF In, Once, Left

LEMMA AppendFacts ==
  ASSUME NEW q \in Seq(Elements), NEW x \in Elements
  PROVE  /\ Append(q, x) \in Seq(Elements)
         /\ \A v : In(Append(q, x), v) <=> In(q, v) \/ x.id = v
         /\ \A v : Once(q, v) /\ ~(In(q, v) /\ x.id = v) => Once(Append(q, x), v)
         /\ \A k : Left(q, k) /\ (x.id # Wake => x.left = k) => Left(Append(q, x), k)
<1>1. /\ Append(q, x) \in Seq(Elements)
      /\ Len(Append(q, x)) = Len(q) + 1
      /\ Len(q) \in Nat
      /\ \A i \in 1..Len(q) : Append(q, x)[i] = q[i]
      /\ Append(q, x)[Len(q) + 1] = x
  OBVIOUS
<1>2. \A i \in 1..(Len(q) + 1) : i \in 1..Len(q) \/ i = Len(q) + 1
  BY <1>1
<1>3. Len(q) + 1 \in 1..(Len(q) + 1) /\ 1..Len(q) \subseteq 1..(Len(q) + 1)
  BY <1>1
<1> QED
  BY <1>1, <1>2, <1>3 DEF In, Once, Left

LEMMA HeadFacts ==
  ASSUME NEW q \in Seq(Elements), q # <<>>
  PROVE  /\ Head(q) \in Elements
         /\ Tail(q) \in Seq(Elements)
         /\ \A v : In(q, v) <=> In(Tail(q), v) \/ Head(q).id = v
         /\ \A v : Once(q, v) => Once(Tail(q), v) /\ ~(In(Tail(q), v) /\ Head(q).id = v)
         /\ \A k : Left(q, k) => Left(Tail(q), k) /\ (Head(q).id # Wake => Head(q).left = k)
<1>1. /\ Head(q) \in Elements /\ Head(q) = q[1]
      /\ Tail(q) \in Seq(Elements)
      /\ Len(q) \in Nat \ {0}
      /\ Len(Tail(q)) = Len(q) - 1
      /\ \A i \in 1..(Len(q) - 1) : Tail(q)[i] = q[i + 1]
  OBVIOUS
<1>2. \A i \in 1..Len(q) : i = 1 \/ i - 1 \in 1..(Len(q) - 1)
  BY <1>1
<1>3. \A i \in 1..(Len(q) - 1) : i + 1 \in 1..Len(q) /\ i + 1 # 1
  BY <1>1
<1>4. 1 \in 1..Len(q) /\ \A i \in 1..Len(q) : (i - 1) + 1 = i
  BY <1>1
<1>5. \A i, j \in 1..(Len(q) - 1) : i + 1 = j + 1 => i = j
  BY <1>1
<1>6. ASSUME NEW v PROVE In(q, v) <=> In(Tail(q), v) \/ Head(q).id = v
  <2>1. ASSUME NEW i \in 1..Len(q), q[i].id = v PROVE In(Tail(q), v) \/ Head(q).id = v
    <3>1. CASE i = 1
      BY <1>1, <2>1, <3>1
    <3>2. CASE i - 1 \in 1..(Len(q) - 1)
      <4>1. Tail(q)[i - 1] = q[(i - 1) + 1]
        BY <1>1, <3>2
      <4> QED
        BY <1>1, <1>4, <2>1, <3>2, <4>1 DEF In
    <3> QED
      BY <1>2, <3>1, <3>2
  <2> QED
    BY <1>1, <1>3, <1>4, <2>1 DEF In
<1>7. ASSUME NEW v, Once(q, v)
      PROVE  Once(Tail(q), v) /\ ~(In(Tail(q), v) /\ Head(q).id = v)
  BY <1>1, <1>3, <1>4, <1>5, <1>7 DEF In, Once
<1>8. ASSUME NEW k, Left(q, k)
      PROVE  Left(Tail(q), k) /\ (Head(q).id # Wake => Head(q).left = k)
  BY <1>1, <1>3, <1>4, <1>8 DEF Left
<1> QED
  BY <1>1, <1>6, <1>7, <1>8

LEMMA LastOne ==
  ASSUME NEW q \in Seq(Elements), q # <<>>
  PROVE  Tail(q) = <<>> <=> Len(q) = 1
<1>1. Tail(q) \in Seq(Elements) /\ Len(Tail(q)) = Len(q) - 1 /\ Len(q) \in Nat
  OBVIOUS
<1>2. \A s \in Seq(Elements) : Len(s) = 0 <=> s = <<>>
  OBVIOUS
<1>3. Len(Tail(q)) = 0 <=> Tail(q) = <<>>
  BY <1>1, <1>2, Zenon
<1> QED
  BY <1>1, <1>3

LEMMA ConcatFacts ==
  ASSUME NEW a \in Seq(Elements), NEW b \in Seq(Elements), NEW v
  PROVE  /\ a \o b \in Seq(Elements)
         /\ In(a \o b, v) <=> In(a, v) \/ In(b, v)
         /\ Once(a, v) /\ Once(b, v) /\ ~(In(a, v) /\ In(b, v)) => Once(a \o b, v)
<1>1. /\ a \o b \in Seq(Elements)
      /\ Len(a) \in Nat /\ Len(b) \in Nat
      /\ Len(a \o b) = Len(a) + Len(b)
      /\ \A i \in 1..(Len(a) + Len(b)) :
           (a \o b)[i] = IF i <= Len(a) THEN a[i] ELSE b[i - Len(a)]
  OBVIOUS
<1>2. \A i \in 1..(Len(a) + Len(b)) :
        (i <= Len(a) /\ i \in 1..Len(a)) \/ (~(i <= Len(a)) /\ i - Len(a) \in 1..Len(b))
  BY <1>1
<1>3. \A i \in 1..Len(a) : i \in 1..(Len(a) + Len(b)) /\ (a \o b)[i] = a[i]
  BY <1>1
<1>4. \A i \in 1..Len(b) : i + Len(a) \in 1..(Len(a) + Len(b)) /\ (a \o b)[i + Len(a)] = b[i]
  BY <1>1
<1>5. \A i, j \in 1..(Len(a) + Len(b)) : i - Len(a) = j - Len(a) => i = j
  BY <1>1
<1>6. \A i \in 1..(Len(a) + Len(b)) :
        \/ i \in 1..Len(a) /\ (a \o b)[i] = a[i]
        \/ i - Len(a) \in 1..Len(b) /\ (a \o b)[i] = b[i - Len(a)]
  BY <1>1, <1>2
<1>7. In(a \o b, v) <=> In(a, v) \/ In(b, v)
  BY <1>1, <1>3, <1>4, <1>6, ZenonT(60) DEF In
<1>8. ASSUME Once(a, v), Once(b, v), ~(In(a, v) /\ In(b, v)) PROVE Once(a \o b, v)
  BY <1>1, <1>5, <1>6, <1>8 DEF In, Once
<1> QED
  BY <1>1, <1>7, <1>8

LEMMA CopiesFacts ==
  ASSUME NEW q \in Seq(Elements), NEW v
  PROVE  /\ Copies(q, v) = 0 <=> ~In(q, v)
         /\ Once(q, v) => Copies(q, v) <= 1
         /\ Once(q, v) /\ In(q, v) => Copies(q, v) = 1
<1> DEFINE S == {i \in 1..Len(q) : q[i].id = v}
<1>1. IsFiniteSet(S) /\ Cardinality(S) \in Nat
  <2>1. Len(q) \in Nat
    OBVIOUS
  <2>2. IsFiniteSet(1..Len(q))
    BY <2>1, FS_Interval
  <2>3. S \in SUBSET (1..Len(q))
    OBVIOUS
  <2>4. IsFiniteSet(S)
    BY <2>2, <2>3, FS_Subset
  <2> QED
    BY <2>4, FS_CardinalityType
<1>2. Cardinality(S) = 0 <=> S = {}
  BY <1>1, FS_EmptySet
<1>3. Once(q, v) => S = {} \/ \E i : S = {i}
  BY ZenonT(60) DEF Once
<1>4. \A i : S = {i} => Cardinality(S) = 1
  BY FS_Singleton
<1>5. In(q, v) <=> S # {}
  BY DEF In
<1>6. Copies(q, v) = Cardinality(S)
  BY DEF Copies
<1> HIDE DEF S
<1>7. Copies(q, v) = 0 <=> ~In(q, v)
  BY <1>2, <1>5, <1>6
<1>8. ASSUME Once(q, v) PROVE Copies(q, v) = 0 \/ Copies(q, v) = 1
  BY <1>2, <1>3, <1>4, <1>6, <1>8
<1> QED
  BY <1>7, <1>8

(* As many elements as videos, all of them videos and no two the same: all *)
(* videos are there.                                                       *)
LEMMA FullQueue ==
  ASSUME NEW q \in Seq(Elements), Len(q) = N, ~In(q, Wake), \A v \in Videos : Once(q, v)
  PROVE  \A v \in Videos : In(q, v)
<1> DEFINE f == [i \in 1..N |-> q[i].id]
<1>1. \A i \in 1..N : q[i] \in Elements
  OBVIOUS
<1>2. \A i \in 1..N : q[i].id \in Videos
  BY <1>1 DEF In, Elements
<1>3. f \in Injection(Videos, Videos)
  <2>1. f \in [Videos -> Videos]
    BY <1>2 DEF Videos
  <2>2. \A i, j \in Videos : f[i] = f[j] => i = j
    BY <1>2 DEF Once, Videos
  <2>3. PICK g : g = f
    OBVIOUS
  <2>4. g \in [Videos -> Videos] /\ \A i, j \in Videos : g[i] = g[j] => i = j
    BY <2>1, <2>2, <2>3
  <2>5. IsInjective(g)
    <3>1. DOMAIN g = Videos
      BY <2>4
    <3> QED
      BY <2>4, <3>1, Zenon DEF IsInjective
  <2>6. g \in Injection(Videos, Videos)
    BY <2>4, <2>5, Zenon DEF Injection
  <2> QED
    BY <2>3, <2>6
<1>4. IsFiniteSet(Videos)
  BY FS_Interval DEF Videos
<1>5. f \in Surjection(Videos, Videos)
  BY <1>3, <1>4, FS_Injection
<1> QED
  BY <1>5 DEF Surjection, In, Videos

-----------------------------------------------------------------------------
(* Types.                                                                  *)

DataTypes ==
  /\ rounds \in 0..MaxRounds
  /\ sent \subseteq Videos
  /\ m_writeBuffer \in Seq(Elements) /\ r_writeBuffer \in Seq(Elements)
  /\ lBatch \in Seq(Elements) /\ rBatch \in Seq(Elements)
  /\ videoMap \in [Videos -> Results]

FlagTypes ==
  /\ m_running \in BOOLEAN /\ r_running \in BOOLEAN
  /\ remote_running \in BOOLEAN /\ destroyed \in BOOLEAN
  /\ flag \in BOOLEAN /\ torn \in BOOLEAN

CounterTypes ==
  /\ hpc \in {"send", "answer", "destroy", "mark", "wake_local", "join_local",
              "wake_remote", "join_remote", "done", "crashed"}
  /\ lpc \in {"loop", "wait", "work", "m_size", "r_size", "stop", "stop_r", "exit"}
  /\ rpc \in {"loop", "wait", "test", "mark", "call", "finish", "insert",
              "enqueue", "unmark", "stop", "stop_r", "exit"}

LEMMA TypeParts == TypeOK <=> DataTypes /\ FlagTypes /\ CounterTypes
BY DEF TypeOK, DataTypes, FlagTypes, CounterTypes

LEMMA InitTypes == Init => TypeOK
<1> SUFFICES ASSUME Init PROVE TypeOK
  OBVIOUS
<1>1. <<>> \in Seq(Elements) /\ Absent \in Results
  BY DEF Results
<1>2. DataTypes
  BY <1>1 DEF Init, DataTypes
<1>3. FlagTypes /\ CounterTypes
  BY DEF Init, FlagTypes, CounterTypes
<1> QED
  BY <1>2, <1>3, TypeParts

LEMMA ElementFacts ==
  /\ [id |-> Wake, left |-> 0] \in Elements
  /\ \A x \in Elements :
       /\ x.id \in Videos \cup {Wake} /\ x.left \in 0..MaxRounds
       /\ HasRemote(x) =>
            /\ [x EXCEPT !.left = @ - 1] \in Elements
            /\ [x EXCEPT !.left = @ - 1].id = x.id
            /\ [x EXCEPT !.left = @ - 1].left = x.left - 1
  /\ Wake \notin Videos
  /\ \A v \in Videos, k \in 0..MaxRounds : [id |-> v, left |-> k] \in Elements
BY DEF Elements, Videos, Wake, HasRemote

LEMMA ResultTypes ==
  ASSUME TypeOK, NEW x \in Elements, NEW result \in Results, LocalResult(x, result)
  PROVE  videoMap' \in [Videos -> Results] /\ torn' \in BOOLEAN
<1>1. CASE UNCHANGED results
  BY <1>1 DEF results, TypeOK
<1>2. CASE /\ \/ videoMap' = [videoMap EXCEPT ![x.id] = result]
              \/ rpc = "insert" /\ UNCHANGED videoMap
           /\ torn' = (torn \/ rpc = "insert")
  BY <1>2 DEF TypeOK
<1> QED
  BY <1>1, <1>2 DEF LocalResult

LEMMA CounterStep == TypeOK /\ [Next]_vars => CounterTypes'
<1> SUFFICES ASSUME CounterTypes, [Next]_vars PROVE CounterTypes'
  BY TypeParts
<1> USE DEF CounterTypes
<1>1. ASSUME NEW v \in Videos, Send(v) \/ CloseNoOperation(v) PROVE CounterTypes'
  BY <1>1 DEF Send, CloseNoOperation, local, remote
<1>2. CASE \/ GiveUp \/ LoopStopped \/ Answer \/ DestroyMark \/ WakeLocal \/ JoinLocal
           \/ WakeRemote \/ JoinRemote
  BY <1>2 DEF GiveUp, LoopStopped, Answer, DestroyMark, WakeLocal, JoinLocal, WakeRemote,
     JoinRemote, local, remote
<1>3. CASE Destroy
  BY <1>3 DEF Destroy
<1>4. CASE Local
  BY <1>4 DEF Local, LocalLoop, LocalTake, LocalDone, LocalToRemote, LocalFail, LocalTest,
     LocalStop, remote
<1>5. CASE Remote
  BY <1>5 DEF Remote, RemoteLoop, RemoteTake, RemoteTest, RemoteMark, RemoteCall, RemoteFail,
     RemoteInsert, RemoteInserted, RemoteEnqueue, RemoteUnmark, RemoteStop, local
<1>6. CASE Terminated \/ UNCHANGED vars
  BY <1>6 DEF Terminated, vars, local, remote
<1> QED
  BY <1>1, <1>2, <1>3, <1>4, <1>5, <1>6 DEF Next, Handler

LEMMA FlagStep == TypeOK /\ [Next]_vars => FlagTypes'
<1> SUFFICES ASSUME TypeOK, [Next]_vars PROVE FlagTypes'
  OBVIOUS
<1>0. FlagTypes
  BY TypeParts
<1> USE <1>0 DEF FlagTypes
<1>1. ASSUME NEW v \in Videos, Send(v) \/ CloseNoOperation(v) PROVE FlagTypes'
  BY <1>1 DEF Send, CloseNoOperation, running, results, local
<1>2. CASE GiveUp \/ LoopStopped \/ Answer \/ WakeLocal \/ JoinLocal \/ WakeRemote \/ JoinRemote
  BY <1>2 DEF GiveUp, LoopStopped, Answer, WakeLocal, JoinLocal, WakeRemote, JoinRemote,
     running, results, local
<1>3. CASE Destroy \/ DestroyMark
  BY <1>3 DEF Destroy, DestroyMark, running, results, local
<1>4. CASE LocalLoop \/ LocalTake \/ LocalToRemote \/ LocalTest \/ LocalStop
  BY <1>4, ZenonT(60) DEF LocalLoop, LocalTake, LocalToRemote, LocalTest, LocalStop, running, results
<1>5. CASE LocalDone
  <2>1. torn' \in BOOLEAN
    BY <1>5 DEF LocalDone, LocalResult, results
  <2> QED
    BY <1>5, <2>1 DEF LocalDone, running
<1>6. CASE LocalFail
  <2>1. torn' \in BOOLEAN
    BY <1>6 DEF LocalFail, LocalResult, results
  <2> QED
    BY <1>6, <2>1 DEF LocalFail, ClearAll, running
<1>7. CASE \/ RemoteLoop \/ RemoteTake \/ RemoteTest \/ RemoteMark \/ RemoteCall \/ RemoteFail
           \/ RemoteInsert \/ RemoteEnqueue \/ RemoteUnmark \/ RemoteStop
  BY <1>7, ZenonT(60) DEF RemoteLoop, RemoteTake, RemoteTest, RemoteMark, RemoteCall, RemoteFail,
     RemoteInsert, RemoteEnqueue, RemoteUnmark, RemoteStop, ClearAll, running, results, local
<1>8. CASE RemoteInserted
  <2>1. remote_running' \in BOOLEAN
    BY <1>8 DEF RemoteInserted
  <2> QED
    BY <1>8, <2>1 DEF RemoteInserted, running, local
<1>9. CASE Terminated \/ UNCHANGED vars
  BY <1>9 DEF Terminated, vars, running, results, local
<1> QED
  BY <1>1, <1>2, <1>3, <1>4, <1>5, <1>6, <1>7, <1>8, <1>9 DEF Next, Handler, Local, Remote

(* The steps that move no video and write no result.                       *)
content == <<rounds, sent, m_writeBuffer, lBatch, r_writeBuffer, rBatch, videoMap, torn>>

Quiet ==
  \/ GiveUp \/ LoopStopped \/ Answer \/ Destroy \/ DestroyMark \/ JoinLocal \/ JoinRemote
  \/ LocalLoop \/ LocalTest \/ LocalStop
  \/ RemoteLoop \/ RemoteTest \/ RemoteMark \/ RemoteCall \/ RemoteInsert \/ RemoteUnmark
  \/ RemoteStop
  \/ Terminated \/ UNCHANGED vars

LEMMA QuietContent == Quiet => UNCHANGED content
<1> USE DEF content, query, queues, results, local, remote
<1>1. GiveUp \/ LoopStopped \/ Answer \/ DestroyMark \/ JoinLocal \/ JoinRemote
        => UNCHANGED content
  BY DEF GiveUp, LoopStopped, Answer, DestroyMark, JoinLocal, JoinRemote
<1>2. Destroy => UNCHANGED content
  BY DEF Destroy
<1>3. LocalLoop \/ LocalTest \/ LocalStop => UNCHANGED content
  BY DEF LocalLoop, LocalTest, LocalStop
<1>4. RemoteLoop \/ RemoteTest \/ RemoteMark \/ RemoteCall \/ RemoteInsert \/ RemoteUnmark
        \/ RemoteStop => UNCHANGED content
  BY DEF RemoteLoop, RemoteTest, RemoteMark, RemoteCall, RemoteInsert, RemoteUnmark, RemoteStop
<1>5. Terminated \/ UNCHANGED vars => UNCHANGED content
  BY DEF Terminated, vars
<1> QED
  BY <1>1, <1>2, <1>3, <1>4, <1>5 DEF Quiet

(* The other steps.                                                        *)
LEMMA Steps ==
  ASSUME [Next]_vars
  PROVE  \/ Quiet
         \/ \E v \in Videos : Send(v) \/ CloseNoOperation(v)
         \/ WakeLocal \/ WakeRemote
         \/ LocalTake \/ LocalDone \/ LocalToRemote \/ LocalFail
         \/ RemoteTake \/ RemoteFail \/ RemoteInserted \/ RemoteEnqueue
BY DEF Next, Handler, Local, Remote, Quiet

LEMMA DataStep == IInv /\ [Next]_vars => DataTypes'
<1> SUFFICES ASSUME IInv, [Next]_vars PROVE DataTypes'
  OBVIOUS
<1>0. TypeOK /\ DataTypes /\ RemoteInv
  BY TypeParts DEF IInv
<1> USE DEF DataTypes
<1>1. CASE Quiet
  BY <1>0, <1>1, QuietContent DEF content
<1>2. ASSUME NEW v \in Videos, Send(v) PROVE DataTypes'
  <2>1. m_writeBuffer' \in Seq(Elements)
    BY <1>0, <1>2, AppendFacts, ElementFacts DEF Send, Enqueue
  <2> QED
    BY <1>0, <1>2, <2>1 DEF Send, results, local, remote
<1>3. ASSUME NEW v \in Videos, CloseNoOperation(v) PROVE DataTypes'
  <2>1. 0 \in Results
    BY DEF Results
  <2> QED
    BY <1>0, <1>3, <2>1 DEF CloseNoOperation, query, queues, local, remote
<1>4. CASE WakeLocal
  <2>1. m_writeBuffer' \in Seq(Elements)
    BY <1>0, <1>4, AppendFacts, ElementFacts DEF WakeLocal, Enqueue
  <2> QED
    BY <1>0, <1>4, <2>1 DEF WakeLocal, query, results, local, remote
<1>5. CASE WakeRemote
  <2>1. r_writeBuffer' \in Seq(Elements)
    BY <1>0, <1>5, AppendFacts, ElementFacts DEF WakeRemote
  <2> QED
    BY <1>0, <1>5, <2>1 DEF WakeRemote, query, results, local, remote
<1>6. CASE LocalTake
  BY <1>0, <1>6 DEF LocalTake, query, results, remote
<1>7. CASE LocalDone
  <2>1. Head(lBatch) \in Elements /\ lBatch' \in Seq(Elements)
    BY <1>0, <1>7, HeadFacts DEF LocalDone
  <2>2. 0 \in Results
    BY DEF Results
  <2>3. videoMap' \in [Videos -> Results]
    BY <1>0, <1>7, <2>1, <2>2, ResultTypes DEF LocalDone
  <2> QED
    BY <1>0, <1>7, <2>1, <2>3 DEF LocalDone, query, queues, remote
<1>8. CASE LocalToRemote
  <2>1. Head(lBatch) \in Elements /\ lBatch' \in Seq(Elements)
    BY <1>0, <1>8, HeadFacts DEF LocalToRemote
  <2>2. r_writeBuffer' \in Seq(Elements)
    BY <1>0, <1>8, <2>1, AppendFacts, ElementFacts DEF LocalToRemote
  <2> QED
    BY <1>0, <1>8, <2>1, <2>2 DEF LocalToRemote, query, results, remote
<1>9. CASE LocalFail
  <2>1. Head(lBatch) \in Elements
    BY <1>0, <1>9, HeadFacts DEF LocalFail
  <2>2. Failed \in Results
    BY DEF Results
  <2>3. videoMap' \in [Videos -> Results]
    BY <1>0, <1>9, <2>1, <2>2, ResultTypes DEF LocalFail
  <2> QED
    BY <1>0, <1>9, <2>3 DEF LocalFail, ClearAll, query, remote
<1>10. CASE RemoteTake
  BY <1>0, <1>10 DEF RemoteTake, query, results, local
<1>11. CASE RemoteFail
  <2>1. Failed \in Results /\ <<>> \in Seq(Elements)
    BY DEF Results
  <2>2. videoMap' \in [Videos -> Results]
    BY <1>0, <1>11, <2>1 DEF RemoteFail
  <2> QED
    BY <1>0, <1>11, <2>1, <2>2 DEF RemoteFail, ClearAll, query, local
<1>12. CASE RemoteInserted
  <2>1. Head(rBatch) \in Elements
    BY <1>0, <1>12, HeadFacts DEF RemoteInserted, RemoteInv
  <2>2. Head(rBatch).left \in Results
    BY <2>1, ElementFacts DEF Results
  <2> QED
    BY <1>0, <1>12, <2>2 DEF RemoteInserted, query, queues, local
<1>13. CASE RemoteEnqueue
  <2>1. Head(rBatch) \in Elements /\ Tail(rBatch) \in Seq(Elements)
    BY <1>0, <1>13, HeadFacts DEF RemoteEnqueue, RemoteInv
  <2>2. m_writeBuffer' \in Seq(Elements)
    BY <1>0, <1>13, <2>1, AppendFacts DEF RemoteEnqueue, Enqueue
  <2> QED
    BY <1>0, <1>13, <2>1, <2>2 DEF RemoteEnqueue, query, results, local
<1> QED
  BY <1>1, <1>2, <1>3, <1>4, <1>5, <1>6, <1>7, <1>8, <1>9, <1>10, <1>11, <1>12, <1>13, Steps

LEMMA TypeStep == IInv /\ [Next]_vars => TypeOK'
<1>1. DataTypes' /\ FlagTypes' /\ CounterTypes' => TypeOK'
  BY DEF TypeOK, DataTypes, FlagTypes, CounterTypes
<1> QED
  BY <1>1, CounterStep, FlagStep, DataStep DEF IInv

-----------------------------------------------------------------------------
(* Program counters, flags and the destructor's elements.                  *)

LEMMA HandlerStep == IInv /\ [Next]_vars => HandlerInv'
<1> SUFFICES ASSUME HandlerInv, [Next]_vars PROVE HandlerInv'
  BY DEF IInv
<1> USE DEF HandlerInv, Late
<1>1. ASSUME NEW v \in Videos, Send(v) \/ CloseNoOperation(v) PROVE HandlerInv'
  BY <1>1 DEF Send, CloseNoOperation, running, local, remote
<1>2. CASE GiveUp \/ LoopStopped \/ Answer \/ Destroy \/ DestroyMark
  BY <1>2 DEF GiveUp, LoopStopped, Answer, Destroy, DestroyMark, query, running, local, remote
<1>3. CASE WakeLocal \/ JoinLocal \/ WakeRemote \/ JoinRemote
  BY <1>3 DEF WakeLocal, JoinLocal, WakeRemote, JoinRemote, query, running, local, remote
<1>4. CASE Local
  BY <1>4 DEF Local, LocalLoop, LocalTake, LocalDone, LocalToRemote, LocalFail, LocalTest,
     LocalStop, query, running, remote
<1>5. CASE Remote
  BY <1>5 DEF Remote, RemoteLoop, RemoteTake, RemoteTest, RemoteMark, RemoteCall, RemoteFail,
     RemoteInsert, RemoteInserted, RemoteEnqueue, RemoteUnmark, RemoteStop, query, running, local
<1>6. CASE Terminated \/ UNCHANGED vars
  BY <1>6 DEF Terminated, vars, query, running, local, remote
<1> QED
  BY <1>1, <1>2, <1>3, <1>4, <1>5, <1>6 DEF Next, Handler

LEMMA LocalStep == IInv /\ [Next]_vars => LocalInv'
<1> SUFFICES ASSUME LocalInv, [Next]_vars PROVE LocalInv'
  BY DEF IInv
<1> USE DEF LocalInv
<1>1. ASSUME NEW v \in Videos, Send(v) \/ CloseNoOperation(v) PROVE LocalInv'
  BY <1>1 DEF Send, CloseNoOperation, local
<1>2. CASE \/ GiveUp \/ LoopStopped \/ Answer \/ Destroy \/ DestroyMark \/ WakeLocal
           \/ JoinLocal \/ WakeRemote \/ JoinRemote
  BY <1>2 DEF GiveUp, LoopStopped, Answer, Destroy, DestroyMark, WakeLocal, JoinLocal,
     WakeRemote, JoinRemote, local
<1>3. CASE Local
  BY <1>3 DEF Local, LocalLoop, LocalTake, LocalDone, LocalToRemote, LocalFail, LocalTest, LocalStop
<1>4. CASE Remote
  BY <1>4 DEF Remote, RemoteLoop, RemoteTake, RemoteTest, RemoteMark, RemoteCall, RemoteFail,
     RemoteInsert, RemoteInserted, RemoteEnqueue, RemoteUnmark, RemoteStop, local
<1>5. CASE Terminated \/ UNCHANGED vars
  BY <1>5 DEF Terminated, vars, local
<1> QED
  BY <1>1, <1>2, <1>3, <1>4, <1>5 DEF Next, Handler

(* What the steps that move one video do to the queues.                    *)
others == <<sent, rounds, videoMap, torn>>

LEMMA SendFacts ==
  ASSUME DataTypes, NEW v \in Videos, Send(v)
  PROVE  /\ \A u : In(m_writeBuffer', u) <=> In(m_writeBuffer, u) \/ v = u
         /\ \A u : Once(m_writeBuffer, u) /\ ~(In(m_writeBuffer, u) /\ v = u)
                    => Once(m_writeBuffer', u)
         /\ Left(m_writeBuffer, rounds) => Left(m_writeBuffer', rounds)
         /\ v \notin sent /\ sent' = sent \cup {v}
         /\ UNCHANGED <<rounds, lBatch, r_writeBuffer, rBatch, videoMap, torn>>
<1> DEFINE x == [id |-> v, left |-> rounds]
<1>1. x \in Elements /\ x.id = v /\ x.left = rounds
  BY ElementFacts DEF DataTypes
<1>2. m_writeBuffer' = Append(m_writeBuffer, x)
  BY DEF Send, Enqueue
<1>3. m_writeBuffer \in Seq(Elements)
  BY DEF DataTypes
<1> HIDE DEF x
<1>4. /\ \A u : In(m_writeBuffer', u) <=> In(m_writeBuffer, u) \/ x.id = u
      /\ \A u : Once(m_writeBuffer, u) /\ ~(In(m_writeBuffer, u) /\ x.id = u)
                 => Once(m_writeBuffer', u)
      /\ \A k : Left(m_writeBuffer, k) /\ (x.id # Wake => x.left = k) => Left(m_writeBuffer', k)
  BY <1>1, <1>2, <1>3, AppendFacts
<1> QED
  BY <1>1, <1>4 DEF Send, results, local, remote

LEMMA WakeLocalFacts ==
  ASSUME DataTypes, WakeLocal
  PROVE  /\ \A u \in Videos : In(m_writeBuffer', u) <=> In(m_writeBuffer, u)
         /\ \A u \in Videos : Once(m_writeBuffer, u) => Once(m_writeBuffer', u)
         /\ UNCHANGED <<others, lBatch, r_writeBuffer, rBatch>>
<1> DEFINE x == [id |-> Wake, left |-> 0]
<1>1. x \in Elements /\ x.id = Wake /\ Wake \notin Videos
  BY ElementFacts
<1>2. m_writeBuffer' = Append(m_writeBuffer, x) /\ m_writeBuffer \in Seq(Elements)
  BY DEF WakeLocal, Enqueue, DataTypes
<1> HIDE DEF x
<1>3. /\ \A u : In(m_writeBuffer', u) <=> In(m_writeBuffer, u) \/ x.id = u
      /\ \A u : Once(m_writeBuffer, u) /\ ~(In(m_writeBuffer, u) /\ x.id = u)
                 => Once(m_writeBuffer', u)
  BY <1>1, <1>2, AppendFacts
<1> QED
  BY <1>1, <1>3 DEF WakeLocal, others, query, results, local, remote

LEMMA WakeRemoteFacts ==
  ASSUME DataTypes, WakeRemote
  PROVE  /\ \A u \in Videos : In(r_writeBuffer', u) <=> In(r_writeBuffer, u)
         /\ \A u \in Videos : Once(r_writeBuffer, u) => Once(r_writeBuffer', u)
         /\ UNCHANGED <<others, m_writeBuffer, lBatch, rBatch>>
<1> DEFINE x == [id |-> Wake, left |-> 0]
<1>1. x \in Elements /\ x.id = Wake /\ Wake \notin Videos
  BY ElementFacts
<1>2. r_writeBuffer' = Append(r_writeBuffer, x) /\ r_writeBuffer \in Seq(Elements)
  BY DEF WakeRemote, DataTypes
<1> HIDE DEF x
<1>3. /\ \A u : In(r_writeBuffer', u) <=> In(r_writeBuffer, u) \/ x.id = u
      /\ \A u : Once(r_writeBuffer, u) /\ ~(In(r_writeBuffer, u) /\ x.id = u)
                 => Once(r_writeBuffer', u)
  BY <1>1, <1>2, AppendFacts
<1> QED
  BY <1>1, <1>3 DEF WakeRemote, others, query, results, local, remote

LEMMA DoneFacts ==
  ASSUME DataTypes, LocalDone
  PROVE  /\ Head(lBatch) \in Elements /\ Head(lBatch).left = 0
         /\ \A u : In(lBatch, u) <=> In(lBatch', u) \/ Head(lBatch).id = u
         /\ \A u : Once(lBatch, u) => Once(lBatch', u) /\ ~(In(lBatch', u) /\ Head(lBatch).id = u)
         /\ \A k : Left(lBatch, k) => Left(lBatch', k) /\ (Head(lBatch).id # Wake => k = 0)
         /\ LocalResult(Head(lBatch), 0)
         /\ UNCHANGED <<sent, rounds, m_writeBuffer, r_writeBuffer, rBatch>>
<1>1. lBatch \in Seq(Elements) /\ lBatch # <<>> /\ lBatch' = Tail(lBatch)
  BY DEF LocalDone, DataTypes
<1>2. /\ Head(lBatch) \in Elements
      /\ \A u : In(lBatch, u) <=> In(lBatch', u) \/ Head(lBatch).id = u
      /\ \A u : Once(lBatch, u) => Once(lBatch', u) /\ ~(In(lBatch', u) /\ Head(lBatch).id = u)
      /\ \A k : Left(lBatch, k) => Left(lBatch', k) /\ (Head(lBatch).id # Wake => Head(lBatch).left = k)
  BY <1>1, HeadFacts
<1>3. Head(lBatch).left = 0
  <2>1. Head(lBatch).left \in 0..MaxRounds
    BY <1>2, ElementFacts
  <2> QED
    BY <2>1 DEF LocalDone, HasRemote
<1> QED
  BY <1>2, <1>3 DEF LocalDone, query, queues, remote

LEMMA ToRemoteFacts ==
  ASSUME DataTypes, LocalToRemote
  PROVE  /\ Head(lBatch) \in Elements
         /\ \A u : In(lBatch, u) <=> In(lBatch', u) \/ Head(lBatch).id = u
         /\ \A u : Once(lBatch, u) => Once(lBatch', u) /\ ~(In(lBatch', u) /\ Head(lBatch).id = u)
         /\ \A k : Left(lBatch, k) => Left(lBatch', k)
         /\ \A u : In(r_writeBuffer', u) <=> In(r_writeBuffer, u) \/ Head(lBatch).id = u
         /\ \A u : Once(r_writeBuffer, u) /\ ~(In(r_writeBuffer, u) /\ Head(lBatch).id = u)
                    => Once(r_writeBuffer', u)
         /\ \A k : Left(lBatch, k) /\ Left(r_writeBuffer, k - 1) => Left(r_writeBuffer', k - 1)
         /\ UNCHANGED <<others, m_writeBuffer, rBatch>>
<1> DEFINE x == [Head(lBatch) EXCEPT !.left = @ - 1]
<1>1. /\ lBatch \in Seq(Elements) /\ lBatch # <<>> /\ lBatch' = Tail(lBatch)
      /\ r_writeBuffer \in Seq(Elements) /\ r_writeBuffer' = Append(r_writeBuffer, x)
      /\ HasRemote(Head(lBatch))
  BY DEF LocalToRemote, DataTypes
<1>2. /\ Head(lBatch) \in Elements
      /\ \A u : In(lBatch, u) <=> In(lBatch', u) \/ Head(lBatch).id = u
      /\ \A u : Once(lBatch, u) => Once(lBatch', u) /\ ~(In(lBatch', u) /\ Head(lBatch).id = u)
      /\ \A k : Left(lBatch, k) => Left(lBatch', k) /\ (Head(lBatch).id # Wake => Head(lBatch).left = k)
  BY <1>1, HeadFacts
<1>3. x \in Elements /\ x.id = Head(lBatch).id /\ x.left = Head(lBatch).left - 1
  BY <1>1, <1>2, ElementFacts
<1> HIDE DEF x
<1>4. /\ \A u : In(r_writeBuffer', u) <=> In(r_writeBuffer, u) \/ x.id = u
      /\ \A u : Once(r_writeBuffer, u) /\ ~(In(r_writeBuffer, u) /\ x.id = u)
                 => Once(r_writeBuffer', u)
      /\ \A k : Left(r_writeBuffer, k) /\ (x.id # Wake => x.left = k) => Left(r_writeBuffer', k)
  BY <1>1, <1>3, AppendFacts
<1>5. ASSUME NEW k, Left(lBatch, k), Left(r_writeBuffer, k - 1) PROVE Left(r_writeBuffer', k - 1)
  BY <1>2, <1>3, <1>4, <1>5
<1>6. UNCHANGED <<others, m_writeBuffer, rBatch>>
  BY DEF LocalToRemote, others, query, results, remote
<1> QED
  BY <1>2, <1>3, <1>4, <1>5, <1>6

LEMMA EnqueueFacts ==
  ASSUME DataTypes, RemoteInv, RemoteEnqueue
  PROVE  /\ Head(rBatch) \in Elements
         /\ \A u : In(rBatch, u) <=> In(rBatch', u) \/ Head(rBatch).id = u
         /\ \A u : Once(rBatch, u) => Once(rBatch', u) /\ ~(In(rBatch', u) /\ Head(rBatch).id = u)
         /\ \A k : Left(rBatch, k) => Left(rBatch', k)
         /\ \A u : In(m_writeBuffer', u) <=> In(m_writeBuffer, u) \/ Head(rBatch).id = u
         /\ \A u : Once(m_writeBuffer, u) /\ ~(In(m_writeBuffer, u) /\ Head(rBatch).id = u)
                    => Once(m_writeBuffer', u)
         /\ \A k : Left(rBatch, k) /\ Left(m_writeBuffer, k) => Left(m_writeBuffer', k)
         /\ UNCHANGED <<others, lBatch, r_writeBuffer>>
<1>1. /\ rBatch \in Seq(Elements) /\ rBatch # <<>> /\ rBatch' = Tail(rBatch)
      /\ m_writeBuffer \in Seq(Elements) /\ m_writeBuffer' = Append(m_writeBuffer, Head(rBatch))
  BY DEF RemoteEnqueue, Enqueue, RemoteInv, DataTypes
<1>2. /\ Head(rBatch) \in Elements
      /\ \A u : In(rBatch, u) <=> In(rBatch', u) \/ Head(rBatch).id = u
      /\ \A u : Once(rBatch, u) => Once(rBatch', u) /\ ~(In(rBatch', u) /\ Head(rBatch).id = u)
      /\ \A k : Left(rBatch, k) => Left(rBatch', k) /\ (Head(rBatch).id # Wake => Head(rBatch).left = k)
  BY <1>1, HeadFacts
<1>3. /\ \A u : In(m_writeBuffer', u) <=> In(m_writeBuffer, u) \/ Head(rBatch).id = u
      /\ \A u : Once(m_writeBuffer, u) /\ ~(In(m_writeBuffer, u) /\ Head(rBatch).id = u)
                 => Once(m_writeBuffer', u)
      /\ \A k : Left(m_writeBuffer, k) /\ (Head(rBatch).id # Wake => Head(rBatch).left = k)
                 => Left(m_writeBuffer', k)
  BY <1>1, <1>2, AppendFacts
<1>4. UNCHANGED <<others, lBatch, r_writeBuffer>>
  BY DEF RemoteEnqueue, others, query, results, local
<1> QED
  BY <1>2, <1>3, <1>4

LEMMA WakeStep == IInv /\ [Next]_vars => WakeInv'
<1> SUFFICES ASSUME IInv, [Next]_vars PROVE WakeInv'
  OBVIOUS
<1>0. DataTypes /\ HandlerInv /\ LocalInv /\ WakeInv /\ RemoteInv
  BY TypeParts DEF IInv
<1> USE DEF WakeInv
<1>1. CASE Quiet
  <2>1. UNCHANGED <<m_writeBuffer, lBatch, r_writeBuffer, rBatch>>
    BY <1>1, QuietContent DEF content
  <2>2. destroyed => destroyed'
    BY <1>1 DEF Quiet, GiveUp, LoopStopped, Answer, Destroy, DestroyMark, JoinLocal, JoinRemote,
       LocalLoop, LocalTest, LocalStop, RemoteLoop, RemoteTest, RemoteMark, RemoteCall,
       RemoteInsert, RemoteUnmark, RemoteStop, Terminated, vars
  <2>3. destroyed /\ rpc \in {"test", "loop", "exit"} => rpc' \in {"test", "loop", "exit"}
    <3>1. HandlerInv /\ destroyed => ~r_running
      BY DEF HandlerInv, Late
    <3> QED
      BY <1>0, <1>1, <3>1 DEF Quiet, GiveUp, LoopStopped, Answer, Destroy, DestroyMark, JoinLocal,
         JoinRemote, LocalLoop, LocalTest, LocalStop, RemoteLoop, RemoteTest, RemoteMark,
         RemoteCall, RemoteInsert, RemoteUnmark, RemoteStop, Terminated, vars, remote
  <2> QED
    BY <1>0, <2>1, <2>2, <2>3
<1>2. ASSUME NEW v \in Videos, Send(v) PROVE WakeInv'
  BY <1>0, <1>2, SendFacts, ElementFacts DEF Send, local, remote
<1>3. ASSUME NEW v \in Videos, CloseNoOperation(v) PROVE WakeInv'
  BY <1>0, <1>3 DEF CloseNoOperation, queues, local, remote
<1>4. CASE WakeLocal
  BY <1>0, <1>4 DEF WakeLocal, HandlerInv, Late, local, remote
<1>5. CASE WakeRemote
  BY <1>0, <1>5 DEF WakeRemote, HandlerInv, Late, local, remote
<1>6. CASE LocalTake
  BY <1>0, <1>6, EmptyFacts DEF LocalTake, remote
<1>7. CASE LocalDone
  BY <1>0, <1>7, DoneFacts DEF LocalDone, remote
<1>8. CASE LocalToRemote
  BY <1>0, <1>8, ToRemoteFacts DEF LocalToRemote, remote
<1>9. CASE LocalFail
  BY <1>0, <1>9, EmptyFacts DEF LocalFail, ClearAll, remote
<1>10. CASE RemoteTake
  BY <1>0, <1>10, EmptyFacts DEF RemoteTake, RemoteInv, local
<1>11. CASE RemoteFail
  BY <1>0, <1>11, EmptyFacts DEF RemoteFail, ClearAll, local
<1>12. CASE RemoteInserted
  BY <1>0, <1>12 DEF RemoteInserted, queues, local
<1>13. CASE RemoteEnqueue
  BY <1>0, <1>13, EnqueueFacts DEF RemoteEnqueue, local
<1> QED
  BY <1>1, <1>2, <1>3, <1>4, <1>5, <1>6, <1>7, <1>8, <1>9, <1>10, <1>11, <1>12, <1>13, Steps

-----------------------------------------------------------------------------
(* Every video has one place.                                              *)

(* A full remote batch, or remote queue, holds every video.                *)
LEMMA FullBatch ==
  ASSUME DataTypes, \A v \in Videos : OneQueue(v)
  PROVE  /\ Len(rBatch) = N /\ ~In(rBatch, Wake) => \A v \in Videos : In(rBatch, v)
         /\ Len(r_writeBuffer) = N /\ ~In(r_writeBuffer, Wake)
              => \A v \in Videos : In(r_writeBuffer, v)
BY FullQueue DEF DataTypes, OneQueue

LEMMA HeadIn ==
  ASSUME NEW q \in Seq(Elements), q # <<>>
  PROVE  In(q, Head(q).id) /\ Head(q) \in Elements
BY HeadFacts

(* An error, or a race, is never forgotten.                                *)
LEMMA CleanStep == IInv /\ [Next]_vars => (Clean' => Clean)
<1> SUFFICES ASSUME IInv, [Next]_vars PROVE Clean' => Clean
  OBVIOUS
<1>0. DataTypes /\ PlaceInv /\ RemoteInv
  BY TypeParts DEF IInv
<1> USE DEF Clean, Failure
<1>1. CASE Quiet
  BY <1>1, QuietContent DEF content
<1>2. ASSUME NEW v \in Videos, Send(v) PROVE Clean' => Clean
  BY <1>0, <1>2, SendFacts
<1>3. ASSUME NEW v \in Videos, CloseNoOperation(v) PROVE Clean' => Clean
  BY <1>0, <1>3 DEF CloseNoOperation, PlaceInv
<1>4. CASE WakeLocal \/ WakeRemote \/ LocalTake \/ LocalToRemote \/ RemoteTake \/ RemoteEnqueue
  BY <1>4 DEF WakeLocal, WakeRemote, LocalTake, LocalToRemote, RemoteTake, RemoteEnqueue, results
<1>5. CASE LocalDone \/ LocalFail
  <2> DEFINE x == Head(lBatch)
  <2>1. x.id = Wake \/ (x.id \in Videos /\ videoMap[x.id] # Failed)
    <3>1. In(lBatch, x.id) /\ x \in Elements
      BY <1>0, <1>5, HeadIn DEF LocalDone, LocalFail, DataTypes
    <3> QED
      BY <1>0, <3>1, ElementFacts DEF PlaceInv, Flying
  <2>2. LocalResult(x, 0) \/ LocalResult(x, Failed)
    BY <1>5 DEF LocalDone, LocalFail
  <2>3. \A u \in Videos : videoMap[u] = Failed => videoMap'[u] = Failed
    BY <1>0, <2>1, <2>2 DEF LocalResult, results, DataTypes
  <2>4. torn => torn'
    BY <2>2 DEF LocalResult, results
  <2> QED
    BY <2>3, <2>4
<1>6. CASE RemoteFail
  <2>1. \A u \in Videos : videoMap[u] = Failed => videoMap'[u] = Failed
    BY <1>0, <1>6 DEF RemoteFail, DataTypes
  <2> QED
    BY <1>6, <2>1 DEF RemoteFail
<1>7. CASE RemoteInserted
  <2>1. \A u \in Videos : u = Head(rBatch).id => videoMap[u] # Failed
    BY <1>0, <1>7, HeadIn DEF RemoteInserted, RemoteInv, DataTypes, PlaceInv, Flying
  <2>2. \A u \in Videos : videoMap[u] = Failed => videoMap'[u] = Failed
    BY <1>0, <1>7, <2>1 DEF RemoteInserted, DataTypes
  <2> QED
    BY <1>7, <2>2 DEF RemoteInserted
<1> QED
  BY <1>1, <1>2, <1>3, <1>4, <1>5, <1>6, <1>7, Steps

LEMMA PlaceStep == IInv /\ [Next]_vars => PlaceInv'
<1> SUFFICES ASSUME IInv, [Next]_vars PROVE PlaceInv'
  OBVIOUS
<1>0. DataTypes /\ PlaceInv /\ LocalInv /\ WakeInv /\ RemoteInv /\ (Clean' => Clean)
  BY TypeParts, CleanStep DEF IInv
<1> USE DEF PlaceInv
<1>1. CASE Quiet
  <2>1. UNCHANGED content
    BY <1>1, QuietContent
  <2> QED
    BY <1>0, <2>1 DEF content, OneQueue, Flying
<1>2. ASSUME NEW v \in Videos, Send(v) PROVE PlaceInv'
  BY <1>0, <1>2, SendFacts DEF OneQueue, Flying
<1>3. ASSUME NEW v \in Videos, CloseNoOperation(v) PROVE PlaceInv'
  BY <1>0, <1>3 DEF CloseNoOperation, DataTypes, OneQueue, Flying, Failed, query, queues, local, remote
<1>4. CASE WakeLocal
  BY <1>0, <1>4, WakeLocalFacts DEF others, DataTypes, OneQueue, Flying
<1>5. CASE WakeRemote
  BY <1>0, <1>5, WakeRemoteFacts DEF others, DataTypes, OneQueue, Flying
<1>6. CASE LocalTake
  <2>1. lBatch = <<>>
    BY <1>0, <1>6 DEF LocalTake, LocalInv
  <2>2. UNCHANGED <<others, r_writeBuffer, rBatch>>
    BY <1>6 DEF LocalTake, others, query, results, remote
  <2> QED
    BY <1>0, <1>6, <2>1, <2>2, EmptyFacts DEF LocalTake, others, OneQueue, Flying
<1>7. CASE LocalDone
  <2> DEFINE x == Head(lBatch)
  <2>1. /\ UNCHANGED <<sent, m_writeBuffer, r_writeBuffer, rBatch>>
        /\ \A u \in Videos : Flying(u) <=> Flying(u)' \/ u = x.id
        /\ \A u \in Videos : OneQueue(u)' /\ (u = x.id => ~Flying(u)')
        /\ x \in Elements
        /\ x.id \in Videos => Flying(x.id)
    BY <1>0, <1>7, DoneFacts DEF OneQueue, Flying
  <2>2. x.id = Wake \/ x.id \in Videos
    BY <2>1, ElementFacts
  <2>3. LocalResult(x, 0)
    BY <1>0, <1>7, DoneFacts
  <2>4. CASE UNCHANGED results /\ x.id = Wake
    BY <1>0, <2>1, <2>4, ElementFacts DEF results, DataTypes
  <2>5. CASE x.id \in Videos /\ videoMap' = [videoMap EXCEPT ![x.id] = 0] /\ (torn => torn')
    <3>1. \A u \in Videos : videoMap'[u] = IF u = x.id THEN 0 ELSE videoMap[u]
      BY <1>0, <2>5 DEF DataTypes
    <3>2. videoMap[x.id] # Failed
      BY <1>0, <2>1, <2>5
    <3> QED
      BY <1>0, <2>1, <3>1, <3>2 DEF Failed, DataTypes
  <2>6. CASE x.id \in Videos /\ UNCHANGED videoMap /\ torn'
    BY <1>0, <2>1, <2>6 DEF Clean
  <2> QED
    BY <2>2, <2>3, <2>4, <2>5, <2>6, ElementFacts DEF LocalResult
<1>8. CASE LocalToRemote
  BY <1>0, <1>8, ToRemoteFacts DEF others, OneQueue, Flying
<1>9. CASE LocalFail
  <2>1. PICK v \in Videos : In(lBatch, v) /\ v = Head(lBatch).id
    BY <1>0, <1>9, HeadIn, ElementFacts DEF LocalFail, DataTypes
  <2>2. /\ UNCHANGED <<sent, rBatch>>
        /\ m_writeBuffer' = <<>> /\ lBatch' = <<>> /\ r_writeBuffer' = <<>>
    BY <1>9 DEF LocalFail, ClearAll, query, remote
  <2>3. /\ \A u \in Videos : OneQueue(u)' /\ (Flying(u)' => Flying(u))
        /\ ~Flying(v)' /\ Flying(v)
    BY <1>0, <2>1, <2>2, EmptyFacts DEF OneQueue, Flying
  <2>4. LocalResult(Head(lBatch), Failed) /\ v # Wake
    BY <1>9, ElementFacts DEF LocalFail
  <2>5. CASE videoMap' = [videoMap EXCEPT ![v] = Failed]
    <3>1. \A u \in Videos : videoMap'[u] = IF u = v THEN Failed ELSE videoMap[u]
      BY <1>0, <2>5 DEF DataTypes
    <3>2. ~Clean'
      BY <2>1, <3>1 DEF Clean, Failure
    <3>3. v \in sent'
      BY <1>0, <2>2, <2>3
    <3> QED
      BY <1>0, <2>2, <2>3, <3>1, <3>2, <3>3
  <2>6. CASE UNCHANGED videoMap /\ torn'
    BY <1>0, <2>2, <2>3, <2>6 DEF Clean
  <2> QED
    BY <2>1, <2>4, <2>5, <2>6 DEF LocalResult
<1>10. CASE RemoteTake
  <2>1. rBatch = <<>>
    BY <1>0, <1>10 DEF RemoteTake, RemoteInv
  <2>2. UNCHANGED <<others, m_writeBuffer, lBatch>>
    BY <1>10 DEF RemoteTake, others, query, results, local
  <2>3. \/ rBatch' = r_writeBuffer /\ r_writeBuffer' = <<>>
        \/ UNCHANGED <<rBatch, r_writeBuffer>>
    BY <1>10, <2>1 DEF RemoteTake
  <2> QED
    BY <1>0, <2>1, <2>2, <2>3, EmptyFacts DEF others, OneQueue, Flying
<1>11. CASE RemoteFail
  <2>1. PICK v \in Videos : In(rBatch, v) /\ v = Head(rBatch).id
    <3>1. rBatch # <<>> /\ ~In(rBatch, Wake) /\ rBatch \in Seq(Elements)
      BY <1>0, <1>11 DEF RemoteFail, RemoteInv, WakeInv, DataTypes
    <3> QED
      BY <3>1, HeadIn, ElementFacts
  <2>2. /\ UNCHANGED <<sent, lBatch>>
        /\ m_writeBuffer' = <<>> /\ rBatch' = <<>> /\ r_writeBuffer' = <<>>
    BY <1>11 DEF RemoteFail, ClearAll, query, local
  <2>3. /\ \A u \in Videos : OneQueue(u)' /\ (Flying(u)' => Flying(u))
        /\ ~Flying(v)' /\ Flying(v)
    BY <1>0, <2>1, <2>2, EmptyFacts DEF OneQueue, Flying
  <2>4. \A u \in Videos : videoMap'[u] = IF u = v THEN Failed ELSE videoMap[u]
    BY <1>0, <1>11, <2>1 DEF RemoteFail, DataTypes
  <2>5. ~Clean'
    BY <2>1, <2>4 DEF Clean, Failure
  <2>6. v \in sent'
    BY <1>0, <2>2, <2>3
  <2> QED
    BY <1>0, <2>2, <2>3, <2>4, <2>5, <2>6
<1>12. CASE RemoteInserted
  <2> DEFINE x == Head(rBatch)
  <2>1. In(rBatch, x.id) /\ x \in Elements
    BY <1>0, <1>12, HeadIn DEF RemoteInserted, RemoteInv, DataTypes
  <2>2. x.left # Failed
    <3>1. x.left \in 0..MaxRounds
      BY <2>1, ElementFacts
    <3> QED
      BY <3>1 DEF Failed
  <2>3. \A u \in Videos : videoMap'[u] = IF u = x.id THEN x.left ELSE videoMap[u]
    BY <1>0, <1>12 DEF RemoteInserted, DataTypes
  <2>4. UNCHANGED <<sent, torn, m_writeBuffer, lBatch, r_writeBuffer, rBatch>>
    BY <1>12 DEF RemoteInserted, query, queues, local
  <2>5. \A u \in Videos :
          /\ OneQueue(u)' /\ (Flying(u)' <=> Flying(u))
          /\ u = x.id => Flying(u) /\ videoMap[u] # Failed
    BY <1>0, <2>1, <2>4 DEF OneQueue, Flying
  <2> QED
    BY <1>0, <2>2, <2>3, <2>4, <2>5 DEF DataTypes
<1>13. CASE RemoteEnqueue
  BY <1>0, <1>13, EnqueueFacts DEF others, OneQueue, Flying
<1> QED
  BY <1>1, <1>2, <1>3, <1>4, <1>5, <1>6, <1>7, <1>8, <1>9, <1>10, <1>11, <1>12, <1>13, Steps

-----------------------------------------------------------------------------
(* The remote thread.                                                      *)

LEMMA FailStep == IInv /\ (LocalFail \/ RemoteFail) => ~Clean'
<1> SUFFICES ASSUME IInv, LocalFail \/ RemoteFail PROVE ~Clean'
  OBVIOUS
<1>0. DataTypes /\ RemoteInv /\ WakeInv
  BY TypeParts DEF IInv
<1>1. CASE LocalFail
  <2>1. PICK v \in Videos : v = Head(lBatch).id
    BY <1>0, <1>1, HeadIn, ElementFacts DEF LocalFail, DataTypes
  <2>2. torn' \/ videoMap' = [videoMap EXCEPT ![v] = Failed]
    BY <1>1, <2>1 DEF LocalFail, LocalResult
  <2>3. torn' \/ videoMap'[v] = Failed
    BY <1>0, <2>2 DEF DataTypes
  <2> QED
    BY <2>3 DEF Clean, Failure
<1>2. CASE RemoteFail
  <2>1. PICK v \in Videos : v = Head(rBatch).id
    <3>1. rBatch # <<>> /\ ~In(rBatch, Wake) /\ rBatch \in Seq(Elements)
      BY <1>0, <1>2 DEF RemoteFail, RemoteInv, WakeInv, DataTypes
    <3> QED
      BY <3>1, HeadIn, ElementFacts
  <2>2. videoMap'[v] = Failed
    BY <1>0, <1>2, <2>1 DEF RemoteFail, DataTypes
  <2> QED
    BY <2>2 DEF Clean, Failure
<1> QED
  BY <1>1, <1>2

LEMMA RemoteStep == IInv /\ [Next]_vars => RemoteInv'
<1> SUFFICES ASSUME IInv, [Next]_vars PROVE RemoteInv'
  OBVIOUS
<1>0. /\ DataTypes /\ HandlerInv /\ RemoteInv /\ RoundInv
      /\ Clean' => Clean
      /\ Len(rBatch) \in Nat /\ (rBatch = <<>> <=> Len(rBatch) = 0)
  BY TypeParts, CleanStep DEF IInv, DataTypes
<1>1. ASSUME rpc' = rpc, rBatch' = rBatch, remote_running' = remote_running \/ ~Clean',
             r_running' => r_running
      PROVE RemoteInv'
  BY <1>0, <1>1 DEF RemoteInv
<1>2. ASSUME NEW v \in Videos, Send(v) \/ CloseNoOperation(v) PROVE RemoteInv'
  <2>1. rpc' = rpc /\ rBatch' = rBatch /\ remote_running' = remote_running /\ r_running' = r_running
    BY <1>2 DEF Send, CloseNoOperation, running, remote
  <2> QED
    BY <1>1, <2>1
<1>3. CASE \/ GiveUp \/ LoopStopped \/ Answer \/ DestroyMark \/ WakeLocal \/ JoinLocal
           \/ WakeRemote \/ JoinRemote
  <2>1. rpc' = rpc /\ rBatch' = rBatch /\ remote_running' = remote_running /\ r_running' = r_running
    BY <1>3 DEF GiveUp, LoopStopped, Answer, DestroyMark, WakeLocal, JoinLocal, WakeRemote,
       JoinRemote, running, remote
  <2> QED
    BY <1>1, <2>1
<1>4. CASE Destroy
  <2>1. rBatch' = rBatch /\ remote_running' = remote_running /\ ~r_running'
    BY <1>4 DEF Destroy
  <2>2. rpc' = rpc \/ rpc' = "exit"
    BY <1>4 DEF Destroy
  <2> QED
    BY <1>0, <2>1, <2>2 DEF RemoteInv
<1>5. CASE LocalLoop \/ LocalTake \/ LocalDone \/ LocalToRemote \/ LocalTest \/ LocalStop
  <2>1. rpc' = rpc /\ rBatch' = rBatch /\ remote_running' = remote_running
    BY <1>5 DEF LocalLoop, LocalTake, LocalDone, LocalToRemote, LocalTest, LocalStop, remote
  <2>2. r_running' => r_running
    BY <1>5 DEF LocalLoop, LocalTake, LocalDone, LocalToRemote, LocalTest, LocalStop, running
  <2> QED
    BY <1>1, <2>1, <2>2
<1>6. CASE LocalFail
  <2>1. rpc' = rpc /\ rBatch' = rBatch /\ r_running' = r_running
    BY <1>6 DEF LocalFail, running, remote
  <2> QED
    BY <1>1, <1>6, <2>1, FailStep
<1>7. CASE RemoteLoop
  BY <1>0, <1>7 DEF RemoteLoop, RemoteInv, running
<1>8. CASE RemoteTake
  BY <1>0, <1>8 DEF RemoteTake, RemoteInv, running
<1>9. CASE RemoteTest
  <2>1. destroyed => ~r_running
    BY <1>0 DEF HandlerInv, Late
  <2>2. CASE Len(rBatch) = N /\ ~destroyed
    <3>1. \E k \in 0..MaxRounds : Left(rBatch, k)
      BY <1>0, <2>2 DEF RoundInv, Round
    <3> QED
      BY <1>9, <2>2, <3>1 DEF RemoteTest, RemoteInv, running
  <2>3. CASE ~(Len(rBatch) = N /\ ~destroyed)
    BY <1>0, <1>9, <2>1, <2>3 DEF RemoteTest, RemoteInv, running
  <2> QED
    BY <2>2, <2>3
<1>10. CASE RemoteMark
  BY <1>0, <1>10 DEF RemoteMark, RemoteInv, running
<1>11. CASE RemoteCall
  BY <1>0, <1>11 DEF RemoteCall, RemoteInv, running
<1>12. CASE RemoteFail
  BY <1>0, <1>12, FailStep DEF RemoteFail, RemoteInv, running
<1>13. CASE RemoteInsert
  BY <1>0, <1>13 DEF RemoteInsert, RemoteInv, running
<1>14. CASE RemoteInserted
  BY <1>0, <1>14 DEF RemoteInserted, RemoteInv, running, queues
<1>15. CASE RemoteEnqueue
  <2>1. Tail(rBatch) = <<>> <=> Len(rBatch) = 1
    BY <1>0, <1>15, LastOne DEF RemoteEnqueue, RemoteInv, DataTypes
  <2> QED
    BY <1>0, <1>15, <2>1 DEF RemoteEnqueue, RemoteInv, running
<1>16. CASE RemoteUnmark
  BY <1>0, <1>16 DEF RemoteUnmark, RemoteInv, running
<1>17. CASE RemoteStop
  BY <1>0, <1>17 DEF RemoteStop, RemoteInv
<1>18. CASE Terminated \/ UNCHANGED vars
  BY <1>1, <1>18 DEF Terminated, vars, running, remote
<1> QED
  BY <1>2, <1>3, <1>4, <1>5, <1>6, <1>7, <1>8, <1>9, <1>10, <1>11, <1>12, <1>13, <1>14,
     <1>15, <1>16, <1>17, <1>18 DEF Next, Handler, Local, Remote

-----------------------------------------------------------------------------
(* All videos are in one round.                                            *)

LEMMA EmptyQueue ==
  ASSUME NEW q \in Seq(Elements), ~In(q, Wake)
  PROVE  /\ (\A v \in Videos : ~In(q, v)) => q = <<>>
         /\ Left(q, -1) => q = <<>>
<1>1. CASE q = <<>>
  BY <1>1
<1>2. CASE q # <<>>
  <2>1. Head(q).id \in Videos /\ In(q, Head(q).id) /\ Head(q) \in Elements
    BY <1>2, HeadIn, ElementFacts
  <2>2. Head(q).left \in Nat
    <3>1. Head(q).left \in 0..MaxRounds
      BY <2>1, ElementFacts
    <3> QED
      BY <3>1
  <2>3. Left(q, -1) => Head(q).left = -1
    BY <1>2, <2>1, HeadFacts, ElementFacts
  <2> QED
    BY <2>1, <2>2, <2>3
<1> QED
  BY <1>1, <1>2

(* No step takes up a video again that the loop is done with.              *)
LEMMA OverStep == IInv /\ [Next]_vars /\ Over => Over'
<1> SUFFICES ASSUME IInv, [Next]_vars PROVE Over => Over'
  OBVIOUS
<1>0. DataTypes /\ PlaceInv /\ LocalInv /\ RemoteInv
  BY TypeParts DEF IInv
<1> USE DEF Over, Flying
<1>1. CASE Quiet
  BY <1>1, QuietContent DEF content
<1>2. ASSUME NEW v \in Videos, Send(v) PROVE Over => Over'
  BY <1>0, <1>2, SendFacts
<1>3. ASSUME NEW v \in Videos, CloseNoOperation(v) PROVE Over => Over'
  BY <1>3 DEF CloseNoOperation, query, queues, local, remote
<1>4. CASE WakeLocal
  BY <1>0, <1>4, WakeLocalFacts DEF others, DataTypes
<1>5. CASE WakeRemote
  BY <1>0, <1>5, WakeRemoteFacts DEF others, DataTypes
<1>6. CASE LocalTake
  BY <1>6, EmptyFacts DEF LocalTake, query, remote
<1>7. CASE LocalDone
  BY <1>0, <1>7, DoneFacts
<1>8. CASE LocalToRemote
  BY <1>0, <1>8, ToRemoteFacts DEF others
<1>9. CASE LocalFail
  BY <1>9, EmptyFacts DEF LocalFail, ClearAll, query, remote
<1>10. CASE RemoteTake
  BY <1>0, <1>10 DEF RemoteTake, RemoteInv, query, local
<1>11. CASE RemoteFail
  BY <1>11, EmptyFacts DEF RemoteFail, ClearAll, query, local
<1>12. CASE RemoteInserted
  BY <1>12 DEF RemoteInserted, query, queues, local
<1>13. CASE RemoteEnqueue
  BY <1>0, <1>13, EnqueueFacts DEF others
<1> QED
  BY <1>1, <1>2, <1>3, <1>4, <1>5, <1>6, <1>7, <1>8, <1>9, <1>10, <1>11, <1>12, <1>13, Steps

LEMMA RoundStep == IInv /\ [Next]_vars => RoundInv'
<1> SUFFICES ASSUME IInv, [Next]_vars, ~destroyed' PROVE \E k \in 0..MaxRounds : Round(k)'
  BY DEF RoundInv
<1>0. /\ DataTypes /\ PlaceInv /\ HandlerInv /\ LocalInv /\ WakeInv /\ RemoteInv /\ RoundInv
      /\ Clean' => Clean
  BY TypeParts, CleanStep DEF IInv
<1>a. ~destroyed
  <2>1. CASE Quiet
    BY <2>1 DEF Quiet, GiveUp, LoopStopped, Answer, Destroy, DestroyMark, JoinLocal, JoinRemote,
       LocalLoop, LocalTest, LocalStop, RemoteLoop, RemoteTest, RemoteMark, RemoteCall,
       RemoteInsert, RemoteUnmark, RemoteStop, Terminated, vars
  <2>2. ASSUME NEW v \in Videos, Send(v) \/ CloseNoOperation(v) PROVE ~destroyed
    BY <2>2 DEF Send, CloseNoOperation
  <2>3. CASE WakeLocal \/ WakeRemote \/ LocalTake \/ LocalDone \/ LocalToRemote \/ LocalFail
    BY <2>3 DEF WakeLocal, WakeRemote, LocalTake, LocalDone, LocalToRemote, LocalFail
  <2>4. CASE RemoteTake \/ RemoteFail \/ RemoteInserted \/ RemoteEnqueue
    BY <2>4 DEF RemoteTake, RemoteFail, RemoteInserted, RemoteEnqueue
  <2> QED
    BY <2>1, <2>2, <2>3, <2>4, Steps
<1>b. PICK k \in 0..MaxRounds : Round(k)
  BY <1>0, <1>a DEF RoundInv
<1>c. /\ ~In(m_writeBuffer, Wake) /\ ~In(lBatch, Wake)
      /\ ~In(r_writeBuffer, Wake) /\ ~In(rBatch, Wake)
  BY <1>0, <1>a DEF WakeInv
<1> USE DEF Round
<1>1. CASE Quiet
  BY <1>0, <1>1, <1>b, QuietContent DEF content, Over, Flying
<1>2. ASSUME NEW v \in Videos, Send(v) PROVE Round(k)'
  <2>1. k = rounds
    BY <1>0, <1>2, <1>b, SendFacts
  <2>2. Over' => Over
    BY <1>0, <1>2, SendFacts DEF Over, Flying
  <2> QED
    BY <1>0, <1>2, <1>b, <2>1, <2>2, SendFacts
<1>3. ASSUME NEW v \in Videos, CloseNoOperation(v) PROVE Round(k)'
  <2>1. ~Over'
    BY <1>3 DEF CloseNoOperation, Over, query
  <2> QED
    BY <1>b, <1>3, <2>1 DEF CloseNoOperation, query, queues, local, remote
<1>4. CASE WakeLocal \/ WakeRemote
  BY <1>0, <1>4, <1>a DEF WakeLocal, WakeRemote, HandlerInv, Late
<1>5. CASE LocalTake
  <2>1. lBatch = <<>>
    BY <1>0, <1>5 DEF LocalTake, LocalInv
  <2>2. Over' => Over
    BY <1>5, <2>1, EmptyFacts DEF LocalTake, Over, Flying, query, remote
  <2> QED
    BY <1>0, <1>5, <1>b, <2>2, EmptyFacts DEF LocalTake, query, remote
<1>6. CASE LocalDone
  <2>1. Head(lBatch).id # Wake
    BY <1>0, <1>6, <1>c, HeadIn DEF LocalDone, DataTypes
  <2>2. k = 0
    BY <1>0, <1>6, <1>b, <2>1, DoneFacts
  <2> QED
    BY <1>0, <1>6, <1>b, <2>2, DoneFacts
<1>7. CASE LocalToRemote
  <2>1. Over' => Over
    BY <1>0, <1>7, ToRemoteFacts DEF Over, Flying, others
  <2> QED
    BY <1>0, <1>7, <1>b, <2>1, ToRemoteFacts DEF others
<1>8. CASE LocalFail
  BY <1>8, <1>b, EmptyFacts, FailStep DEF LocalFail, ClearAll, query, remote
<1>9. CASE RemoteTake
  <2>0. rBatch = <<>> /\ UNCHANGED <<others, m_writeBuffer, lBatch>>
    BY <1>0, <1>9 DEF RemoteTake, RemoteInv, others, query, results, local
  <2>1. CASE UNCHANGED <<rBatch, r_writeBuffer>>
    BY <1>0, <1>b, <2>0, <2>1 DEF others, Over, Flying
  <2>2. CASE Len(r_writeBuffer) = N /\ rBatch' = r_writeBuffer /\ r_writeBuffer' = rBatch
    <3>1. \A v \in Videos : In(r_writeBuffer, v)
      BY <1>0, <1>c, <2>2, FullBatch DEF PlaceInv
    <3>2. m_writeBuffer = <<>> /\ lBatch = <<>>
      BY <1>0, <1>c, <3>1, EmptyQueue DEF PlaceInv, OneQueue, DataTypes
    <3>3. sent' = Videos /\ ~Over'
      BY <1>0, <2>0, <2>2, <3>1 DEF PlaceInv, Over, Flying, others, DataTypes
    <3>4. k - 1 \in 0..MaxRounds
      <4>1. r_writeBuffer # <<>> /\ r_writeBuffer \in Seq(Elements)
        BY <1>0, <1>9 DEF RemoteTake, DataTypes
      <4>2. Head(r_writeBuffer).id # Wake /\ Head(r_writeBuffer) \in Elements
        BY <1>c, <4>1, HeadIn
      <4>3. Head(r_writeBuffer).left = k - 1
        BY <1>b, <4>1, <4>2, HeadFacts
      <4> QED
        BY <4>2, <4>3, ElementFacts
    <3>5. Round(k - 1)'
      BY <1>b, <2>0, <2>2, <3>2, <3>3, EmptyFacts
    <3> QED
      BY <3>4, <3>5
  <2> QED
    BY <1>9, <2>1, <2>2 DEF RemoteTake
<1>10. CASE RemoteFail
  BY <1>10, <1>b, EmptyFacts, FailStep DEF RemoteFail, ClearAll, query, local
<1>11. CASE RemoteInserted
  BY <1>0, <1>11, <1>b DEF RemoteInserted, Over, Flying, query, queues, local
<1>12. CASE RemoteEnqueue
  <2>1. Over' => Over
    BY <1>0, <1>12, EnqueueFacts DEF Over, Flying, others
  <2> QED
    BY <1>0, <1>12, <1>b, <2>1, EnqueueFacts DEF others
<1> QED
  BY <1>1, <1>2, <1>3, <1>4, <1>5, <1>6, <1>7, <1>8, <1>9, <1>10, <1>11, <1>12, Steps

-----------------------------------------------------------------------------
(* The end of the loop.                                                    *)

(* What the local thread sees at the end of a batch is what holds.         *)
LEMMA TestFinds ==
  ASSUME IInv, Early, Clean, lpc = "work", lBatch = <<>>, ~flag, ~remote_running
  PROVE  AtRest
<1>0. DataTypes /\ PlaceInv /\ HandlerInv /\ WakeInv /\ RemoteInv /\ StopInv
  BY TypeParts DEF IInv
<1>1. Over
  BY <1>0 DEF StopInv
<1>2. r_running
  BY <1>0 DEF StopInv
<1>3. ~destroyed
  BY <1>0 DEF HandlerInv, Early, Late
<1>4. ~In(rBatch, Wake)
  BY <1>0, <1>3 DEF WakeInv
<1>5. Len(rBatch) # N
  <2>1. PICK v \in sent : ~Flying(v)
    BY <1>1 DEF Over
  <2>2. ~In(rBatch, v) /\ v \in Videos
    BY <1>0, <2>1 DEF Flying, DataTypes
  <2> QED
    BY <1>0, <1>4, <2>2, FullBatch DEF PlaceInv
<1>6. rpc \in {"loop", "wait", "test", "mark", "call", "finish", "insert", "enqueue", "unmark",
              "stop", "stop_r", "exit"}
  BY TypeParts DEF IInv, CounterTypes
<1> QED
  BY <1>0, <1>1, <1>2, <1>5, <1>6 DEF RemoteInv, AtRest

LEMMA StopStep == IInv /\ [Next]_vars => StopInv'
<1> SUFFICES ASSUME IInv, [Next]_vars, Early', Clean' PROVE StopInv'
  BY DEF StopInv
<1>0. /\ DataTypes /\ PlaceInv /\ HandlerInv /\ LocalInv /\ WakeInv /\ RemoteInv
      /\ RoundInv /\ StopInv
      /\ Clean
      /\ Over => Over'
  BY TypeParts, CleanStep, OverStep DEF IInv
<1> USE DEF StopInv, AtRest, Stopping, Early
(* The destructor has not begun.                                           *)
<1>a. ASSUME Early
      PROVE  /\ ~In(m_writeBuffer, Wake) /\ ~In(lBatch, Wake) /\ ~In(r_writeBuffer, Wake)
             /\ Over => r_writeBuffer = <<>>
  <2>1. ~destroyed
    BY <1>0, <1>a DEF HandlerInv, Late
  <2>2. PICK k \in 0..MaxRounds : Round(k)
    BY <1>0, <2>1 DEF RoundInv
  <2>3. Over => Left(r_writeBuffer, -1)
    BY <1>0, <2>2 DEF Round
  <2> QED
    BY <1>0, <2>1, <2>3, EmptyQueue DEF WakeInv, DataTypes
<1>1. ASSUME NEW v \in Videos, Send(v) \/ CloseNoOperation(v) PROVE StopInv'
  BY <1>0, <1>1 DEF Send, CloseNoOperation, running, local, remote
<1>2. CASE GiveUp \/ LoopStopped \/ Answer
  BY <1>0, <1>2 DEF GiveUp, LoopStopped, Answer, running, local, remote
<1>3. CASE Destroy \/ DestroyMark \/ WakeLocal \/ JoinLocal \/ WakeRemote \/ JoinRemote
  BY <1>3 DEF Destroy, DestroyMark, WakeLocal, JoinLocal, WakeRemote, JoinRemote
<1>4. CASE LocalLoop
  BY <1>0, <1>4 DEF LocalLoop, running, remote
<1>5. CASE LocalTake
  BY <1>0, <1>5 DEF LocalTake, running, remote
<1>6. CASE LocalDone
  <2>0. hpc' = hpc /\ lpc' = lpc /\ flag' = flag /\ rpc' = rpc /\ rBatch' = rBatch
        /\ m_running' = m_running /\ r_running' = r_running /\ lpc = "work"
    BY <1>6 DEF LocalDone, running, remote
  <2>1. Head(lBatch).id \in Videos
    BY <1>0, <1>6, <1>a, <2>0, HeadIn, ElementFacts DEF LocalDone, DataTypes
  <2>2. PICK v \in Videos : v = Head(lBatch).id
    BY <2>1
  <2>3. v \in sent' /\ ~Flying(v)'
    BY <1>0, <1>6, <2>2, DoneFacts DEF PlaceInv, OneQueue, Flying
  <2>4. Over'
    BY <2>3 DEF Over
  <2> QED
    BY <1>0, <2>0, <2>4
<1>7. CASE LocalToRemote
  BY <1>0, <1>7 DEF LocalToRemote, running, remote
<1>8. CASE LocalFail \/ RemoteFail
  BY <1>8, FailStep
<1>9. CASE LocalTest
  <2>0. hpc' = hpc /\ flag' = flag /\ rpc' = rpc /\ rBatch' = rBatch /\ lBatch' = lBatch
        /\ m_running' = m_running /\ r_running' = r_running
    BY <1>9 DEF LocalTest, running, remote
  <2>1. CASE lpc = "work" /\ lBatch = <<>>
    <3>1. ~flag /\ ~remote_running => AtRest
      BY <1>0, <2>0, <2>1, TestFinds
    <3>2. lpc' = IF ~flag /\ ~remote_running THEN "m_size" ELSE "loop"
      BY <1>9, <2>1 DEF LocalTest
    <3> QED
      BY <1>0, <2>0, <2>1, <3>1, <3>2
  <2>2. CASE lpc \in {"m_size", "r_size"}
    <3>1. lpc' \in {"r_size", "stop", "loop"}
      BY <1>9, <2>2 DEF LocalTest
    <3> QED
      BY <1>0, <2>0, <2>2, <3>1
  <2> QED
    BY <1>9, <2>1, <2>2 DEF LocalTest
<1>10. CASE LocalStop
  BY <1>0, <1>10 DEF LocalStop, remote
<1>11. CASE RemoteLoop \/ RemoteTest \/ RemoteMark \/ RemoteCall
  BY <1>0, <1>11 DEF RemoteLoop, RemoteTest, RemoteMark, RemoteCall, running, local
<1>12. CASE RemoteTake
  BY <1>0, <1>12, <1>a DEF RemoteTake, running, local
<1>13. CASE RemoteInsert \/ RemoteInserted \/ RemoteUnmark
  BY <1>0, <1>13 DEF RemoteInsert, RemoteInserted, RemoteUnmark, RemoteInv, queues, running, local
<1>14. CASE RemoteEnqueue
  <2>1. Len(rBatch) = 1 => rBatch' = <<>>
    BY <1>0, <1>14, LastOne DEF RemoteEnqueue, RemoteInv, DataTypes
  <2> QED
    BY <1>0, <1>14, <2>1 DEF RemoteEnqueue, running, local
<1>15. CASE RemoteStop
  BY <1>0, <1>15 DEF RemoteStop
<1>16. CASE Terminated \/ UNCHANGED vars
  BY <1>0, <1>16 DEF Terminated, vars, running, local, remote
<1> QED
  BY <1>1, <1>2, <1>3, <1>4, <1>5, <1>6, <1>7, <1>8, <1>9, <1>10, <1>11, <1>12, <1>13,
     <1>14, <1>15, <1>16 DEF Next, Handler, Local, Remote

-----------------------------------------------------------------------------
(* The theorems.                                                           *)

LEMMA InitIInv == Init => IInv
<1> SUFFICES ASSUME Init PROVE IInv
  OBVIOUS
<1>1. TypeOK
  BY InitTypes
<1>2. PlaceInv
  BY EmptyFacts DEF Init, PlaceInv, OneQueue, Flying, Absent, Failed
<1>3. HandlerInv /\ LocalInv /\ WakeInv /\ RemoteInv
  BY EmptyFacts DEF Init, HandlerInv, Late, LocalInv, WakeInv, RemoteInv
<1>4. Round(rounds) /\ rounds \in 0..MaxRounds
  BY EmptyFacts DEF Init, Round, Over
<1>5. StopInv
  BY DEF Init, StopInv, Stopping
<1> QED
  BY <1>1, <1>2, <1>3, <1>4, <1>5 DEF IInv, RoundInv

LEMMA IInvStep == IInv /\ [Next]_vars => IInv'
BY TypeStep, PlaceStep, HandlerStep, LocalStep, WakeStep, RemoteStep, RoundStep, StopStep DEF IInv

(* The three threads keep the inductive invariant, for any number of       *)
(* videos and of remote operations.                                        *)
THEOREM InductiveInvariant == Spec => []IInv
<1> QED
  BY InitIInv, IInvStep, PTL DEF Spec

(* Every variable keeps its type.                                          *)
THEOREM TypeCorrect == Spec => []TypeOK
<1>1. IInv => TypeOK
  BY DEF IInv
<1> QED
  BY <1>1, InductiveInvariant, PTL

(* No hand-over between the threads loses or duplicates a video.           *)
THEOREM NothingLostOrDoubled == Spec => []OnePlace
<1>1. IInv => OnePlace
  <2> SUFFICES ASSUME IInv PROVE OnePlace
    OBVIOUS
  <2>0. DataTypes /\ PlaceInv
    BY TypeParts DEF IInv
  <2>1. ASSUME NEW v \in Videos
        PROVE  Copies(InFlight, v) <= 1 /\ (Copies(InFlight, v) = 0 <=> ~Flying(v))
    <3> DEFINE a == m_writeBuffer \o lBatch
               b == a \o r_writeBuffer
               c == b \o rBatch
    <3>1. OneQueue(v)
      BY <2>0 DEF PlaceInv
    <3>2. /\ a \in Seq(Elements) /\ Once(a, v)
          /\ In(a, v) <=> In(m_writeBuffer, v) \/ In(lBatch, v)
      BY <2>0, <3>1, ConcatFacts DEF DataTypes, OneQueue
    <3> HIDE DEF a
    <3>3. /\ b \in Seq(Elements) /\ Once(b, v)
          /\ In(b, v) <=> In(a, v) \/ In(r_writeBuffer, v)
      BY <2>0, <3>1, <3>2, ConcatFacts DEF DataTypes, OneQueue
    <3> HIDE DEF b
    <3>4. /\ c \in Seq(Elements) /\ Once(c, v)
          /\ In(c, v) <=> In(b, v) \/ In(rBatch, v)
      BY <2>0, <3>1, <3>2, <3>3, ConcatFacts DEF DataTypes, OneQueue
    <3>5. InFlight = c
      BY DEF InFlight, a, b
    <3> HIDE DEF c
    <3>6. Copies(c, v) <= 1 /\ (Copies(c, v) = 0 <=> ~In(c, v))
      BY <3>4, CopiesFacts
    <3> QED
      BY <3>2, <3>3, <3>4, <3>5, <3>6 DEF Flying
  <2>2. \A v \in sent : v \in Videos
    BY <2>0 DEF DataTypes
  <2> QED
    BY <2>0, <2>1, <2>2 DEF OnePlace, PlaceInv, Clean
<1> QED
  BY <1>1, InductiveInvariant, PTL

(* The services are called with all videos of the query, each once, and    *)
(* with as many operations left for one as for another.                    *)
THEOREM ServicesGetWholeBatch == Spec => []BatchWhole
<1>1. IInv => BatchWhole
  <2> SUFFICES ASSUME IInv, rpc \in {"mark", "call"} PROVE BatchWhole
    BY DEF BatchWhole
  <2>0. DataTypes /\ PlaceInv /\ RemoteInv /\ WakeInv
    BY TypeParts DEF IInv
  <2>1. ~In(rBatch, Wake) /\ Len(rBatch) = N
    BY <2>0 DEF WakeInv, RemoteInv
  <2>2. \A v \in Videos : In(rBatch, v) /\ Once(rBatch, v)
    BY <2>0, <2>1, FullBatch DEF PlaceInv, OneQueue
  <2>3. \A v \in Videos : Copies(rBatch, v) = 1
    BY <2>0, <2>2, CopiesFacts DEF DataTypes
  <2>4. PICK k : Left(rBatch, k)
    BY <2>0 DEF RemoteInv
  <2>5. \A i \in 1..Len(rBatch) : rBatch[i].left = k
    BY <2>1, <2>4 DEF Left, In
  <2> QED
    BY <2>3, <2>5 DEF BatchWhole
<1> QED
  BY <1>1, InductiveInvariant, PTL

(* The handler collects the results when the loop is at rest: a thread may *)
(* at most be about to hand the last video back.                           *)
THEOREM AnswerAtRest == Spec => []AnswerComplete
<1>1. IInv => AnswerComplete
  <2> SUFFICES ASSUME IInv, hpc = "answer", Clean PROVE AnswerComplete
    BY DEF AnswerComplete, Clean
  <2>0. DataTypes /\ HandlerInv /\ WakeInv /\ RoundInv /\ StopInv
    BY TypeParts DEF IInv
  <2>1. AtRest /\ ~destroyed
    BY <2>0 DEF HandlerInv, Late, StopInv, Early, Stopping
  <2>2. PICK k \in 0..MaxRounds : Round(k)
    BY <2>0, <2>1 DEF RoundInv
  <2>3. Left(r_writeBuffer, -1)
    BY <2>1, <2>2 DEF Round, AtRest
  <2>4. r_writeBuffer = <<>>
    BY <2>0, <2>1, <2>3, EmptyQueue DEF WakeInv, DataTypes
  <2> QED
    BY <2>1, <2>4 DEF AnswerComplete, AtRest
<1> QED
  BY <1>1, InductiveInvariant, PTL

=============================================================================
