---------------------- MODULE ExpirationQueue_proofs ----------------------
(***************************************************************************)
(* Proofs about module ExpirationQueue: for any number of slots, times,    *)
(* commands and crashes the list is sorted, agrees with the graph wherever *)
(* nothing separated them, and purges delete exactly what is due.          *)
(***************************************************************************)
EXTENDS ExpirationQueue, SequenceTheorems, TLAPS

(***************************************************************************)
(* While a start scans the graph, the list holds part of the nodes to be   *)
(* found, each with its deadline; nodes that are not looked for are loose. *)
(***************************************************************************)
ScanInv ==
  phase = "scan" =>
    /\ graph = committed
    /\ loose = {s \in Slots \ MediaSlots : Expiring(committed, s)}
    /\ \A s \in Slots : Tracked(queue, s) =>
         Rebuilt(s) /\ Matches(queue, committed, s)

IInv ==
  /\ TypeOK
  /\ Sorted
  /\ ScanInv
  /\ ListMatchesGraph

-----------------------------------------------------------------------------
(* What insertion and erasure do to a list.                                *)

LEMMA InsertFacts ==
  ASSUME NEW q \in Seq(Entries), NEW e \in Entries, NEW k \in 1..(Len(q) + 1)
  PROVE  /\ InsertAt(q, k, e) \in Seq(Entries)
         /\ Len(InsertAt(q, k, e)) = Len(q) + 1
         /\ \A j \in 1..(Len(q) + 1) :
              InsertAt(q, k, e)[j] = IF j < k THEN q[j]
                                     ELSE IF j = k THEN e ELSE q[j - 1]
<1> DEFINE front == SubSeq(q, 1, k - 1)
           back == SubSeq(q, k, Len(q))
<1>1. Len(q) \in Nat /\ \A i \in 1..Len(q) : q[i] \in Entries
  OBVIOUS
<1>2. /\ front \in Seq(Entries)
      /\ Len(front) = k - 1
      /\ \A i \in 1..(k - 1) : front[i] = q[i]
  BY <1>1, SubSeqProperties
<1>3. /\ back \in Seq(Entries)
      /\ Len(back) = Len(q) - k + 1
      /\ \A i \in 1..(Len(q) - k + 1) : back[i] = q[k + i - 1]
  <2>1. \A i \in k..Len(q) : q[i] \in Entries
    BY <1>1
  <2>2. /\ SubSeq(q, k, Len(q)) \in Seq(Entries)
        /\ Len(SubSeq(q, k, Len(q))) = IF k <= Len(q) THEN Len(q) - k + 1 ELSE 0
        /\ \A i \in 1..(Len(q) - k + 1) : SubSeq(q, k, Len(q))[i] = q[k + i - 1]
    BY <1>1, <2>1, SubSeqProperties
  <2> QED
    BY <1>1, <2>2
<1>4. <<e>> \in Seq(Entries) /\ Len(<<e>>) = 1 /\ <<e>>[1] = e
  OBVIOUS
<1> HIDE DEF front, back
<1> DEFINE head == front \o <<e>>
<1>5. /\ head \in Seq(Entries)
      /\ Len(head) = k
      /\ \A i \in 1..k : head[i] = IF i <= k - 1 THEN front[i] ELSE e
  BY <1>2, <1>4, ConcatProperties
<1> HIDE DEF head
<1>6. /\ head \o back \in Seq(Entries)
      /\ Len(head \o back) = Len(q) + 1
      /\ \A i \in 1..(Len(q) + 1) :
           (head \o back)[i] = IF i <= k THEN head[i] ELSE back[i - k]
  <2>1. /\ head \o back \in Seq(Entries)
        /\ Len(head \o back) = Len(head) + Len(back)
        /\ \A i \in 1..(Len(head) + Len(back)) :
             (head \o back)[i] = IF i <= Len(head) THEN head[i]
                                ELSE back[i - Len(head)]
    BY <1>3, <1>5, ConcatProperties
  <2>2. Len(head) = k /\ Len(head) + Len(back) = Len(q) + 1
    BY <1>1, <1>3, <1>5
  <2> QED
    BY <2>1, <2>2
<1>7. InsertAt(q, k, e) = head \o back
  BY DEF InsertAt, head, front, back
<1>8. ASSUME NEW j \in 1..(Len(q) + 1)
      PROVE  (head \o back)[j] = IF j < k THEN q[j]
                                 ELSE IF j = k THEN e ELSE q[j - 1]
  <2>1. CASE j <= k
    BY <1>1, <1>2, <1>5, <1>6, <2>1
  <2>2. CASE j > k
    <3>1. j - k \in 1..(Len(q) - k + 1) /\ k + (j - k) - 1 = j - 1
      BY <1>1, <2>2
    <3> QED
      BY <1>1, <1>3, <1>6, <2>2, <3>1
  <2>3. j <= k \/ j > k
    BY <1>1
  <2> QED
    BY <2>1, <2>2, <2>3
<1> QED
  BY <1>6, <1>7, <1>8

LEMMA EraseFacts ==
  ASSUME NEW q \in Seq(Entries), NEW k \in 1..Len(q)
  PROVE  /\ RemoveAt(q, k) \in Seq(Entries)
         /\ Len(RemoveAt(q, k)) = Len(q) - 1
         /\ \A j \in 1..(Len(q) - 1) :
              RemoveAt(q, k)[j] = IF j < k THEN q[j] ELSE q[j + 1]
<1> DEFINE front == SubSeq(q, 1, k - 1)
           back == SubSeq(q, k + 1, Len(q))
<1>1. Len(q) \in Nat /\ \A i \in 1..Len(q) : q[i] \in Entries
  OBVIOUS
<1>2. /\ front \in Seq(Entries)
      /\ Len(front) = k - 1
      /\ \A i \in 1..(k - 1) : front[i] = q[i]
  BY <1>1, SubSeqProperties
<1>3. /\ back \in Seq(Entries)
      /\ Len(back) = Len(q) - k
      /\ \A i \in 1..(Len(q) - k) : back[i] = q[k + i]
  <2>1. /\ SubSeq(q, k + 1, Len(q)) \in Seq(Entries)
        /\ Len(SubSeq(q, k + 1, Len(q)))
             = IF k + 1 <= Len(q) THEN Len(q) - (k + 1) + 1 ELSE 0
        /\ \A i \in 1..(Len(q) - (k + 1) + 1) :
             SubSeq(q, k + 1, Len(q))[i] = q[k + 1 + i - 1]
    BY <1>1, SubSeqProperties
  <2>2. ASSUME NEW i \in 1..(Len(q) - k) PROVE back[i] = q[k + i]
    <3>1. i \in 1..(Len(q) - (k + 1) + 1) /\ k + 1 + i - 1 = k + i
      BY <1>1
    <3> QED
      BY <2>1, <3>1
  <2> QED
    BY <1>1, <2>1, <2>2
<1> HIDE DEF front, back
<1>4. /\ front \o back \in Seq(Entries)
      /\ Len(front \o back) = Len(q) - 1
      /\ \A i \in 1..(Len(q) - 1) :
           (front \o back)[i] = IF i <= k - 1 THEN front[i] ELSE back[i - (k - 1)]
  <2>1. /\ front \o back \in Seq(Entries)
        /\ Len(front \o back) = Len(front) + Len(back)
        /\ \A i \in 1..(Len(front) + Len(back)) :
             (front \o back)[i] = IF i <= Len(front) THEN front[i]
                                 ELSE back[i - Len(front)]
    BY <1>2, <1>3, ConcatProperties, ZenonT(60)
  <2>2. Len(front) = k - 1 /\ Len(front) + Len(back) = Len(q) - 1
    BY <1>1, <1>2, <1>3
  <2> QED
    BY <2>1, <2>2
<1>5. RemoveAt(q, k) = front \o back
  BY DEF RemoveAt, front, back
<1>6. ASSUME NEW j \in 1..(Len(q) - 1), j >= k
      PROVE  (front \o back)[j] = q[j + 1]
  <2>1. j - (k - 1) \in 1..(Len(q) - k) /\ k + (j - (k - 1)) = j + 1
    BY <1>1, <1>6
  <2> QED
    BY <1>1, <1>3, <1>4, <1>6, <2>1, SMTT(60)
<1> QED
  BY <1>1, <1>2, <1>4, <1>5, <1>6

LEMMA TailErases ==
  ASSUME NEW q \in Seq(Entries), q # <<>>
  PROVE  /\ 1 \in 1..Len(q)
         /\ Head(q) = q[1]
         /\ Tail(q) \in Seq(Entries)
         /\ Len(Tail(q)) = Len(q) - 1
         /\ \A j \in 1..(Len(q) - 1) : Tail(q)[j] = q[j + 1]
  OBVIOUS

-----------------------------------------------------------------------------
(* The order of the list.                                                  *)

LEMMA InsertInOrder ==
  ASSUME NEW q \in Seq(Entries), InOrder(q),
         NEW e \in Entries, NEW k \in 1..(Len(q) + 1), InsertsAt(q, e.at, k)
  PROVE  InOrder(InsertAt(q, k, e))
<1> DEFINE p == InsertAt(q, k, e)
<1>1. /\ Len(q) \in Nat /\ Len(p) = Len(q) + 1
      /\ \A j \in 1..(Len(q) + 1) :
           p[j] = IF j < k THEN q[j] ELSE IF j = k THEN e ELSE q[j - 1]
  BY InsertFacts
<1> HIDE DEF p
<1>2. e.at \in Int /\ \A j \in 1..Len(q) : q[j].at \in Int
  <2>1. \A j \in 1..Len(q) : q[j] \in Entries
    OBVIOUS
  <2>2. \A x \in Entries : x.at \in Int
    BY DEF Entries
  <2> QED
    BY <2>1, <2>2
<1>3. \A j \in 1..(k - 1) : q[j].at <= e.at
  <2>1. ASSUME NEW j \in 1..(k - 1) PROVE q[j].at <= e.at
    <3>1. j \in 1..Len(q) /\ k - 1 \in 1..Len(q) /\ j <= k - 1
      BY <1>1
    <3>2. q[j].at <= q[k - 1].at
      BY <3>1 DEF InOrder
    <3>3. q[k - 1].at <= e.at
      BY <1>1, <1>2, <3>1, SMTT(60) DEF InsertsAt
    <3> QED
      BY <1>2, <3>1, <3>2, <3>3
  <2> QED
    BY <2>1
<1>4. \A j \in k..Len(q) : e.at <= q[j].at
  BY <1>1, <1>2 DEF InsertsAt, InOrder
<1>5. ASSUME NEW i \in 1..Len(p), NEW j \in 1..Len(p), i < j
      PROVE  p[i].at <= p[j].at
  <2>1. CASE j < k
    BY <1>1, <1>5, <2>1 DEF InOrder
  <2>2. CASE i < k /\ j = k
    BY <1>1, <1>3, <1>5, <2>2
  <2>3. CASE i < k /\ k < j
    <3>1. i \in 1..Len(q) /\ j - 1 \in 1..Len(q) /\ i <= j - 1
      BY <1>1, <1>5, <2>3
    <3>2. q[i].at <= q[j - 1].at
      BY <3>1 DEF InOrder
    <3>3. p[i] = q[i] /\ p[j] = q[j - 1]
      BY <1>1, <1>5, <2>3
    <3> QED
      BY <3>2, <3>3
  <2>4. CASE i = k
    <3>1. j - 1 \in k..Len(q)
      BY <1>1, <1>5, <2>4
    <3>2. p[i] = e /\ p[j] = q[j - 1]
      BY <1>1, <1>5, <2>4
    <3> QED
      BY <1>4, <3>1, <3>2
  <2>5. CASE k < i
    <3>1. i - 1 \in 1..Len(q) /\ j - 1 \in 1..Len(q) /\ i - 1 <= j - 1
      BY <1>1, <1>5, <2>5
    <3>2. q[i - 1].at <= q[j - 1].at
      BY <3>1 DEF InOrder
    <3> QED
      BY <1>1, <1>5, <2>5, <3>2
  <2> QED
    BY <1>1, <1>5, <2>1, <2>2, <2>3, <2>4, <2>5
<1>6. \A j \in 1..Len(p) : p[j].at \in Int
  BY <1>1, <1>2
<1> QED
  BY <1>1, <1>5, <1>6 DEF InOrder, p

LEMMA EraseInOrder ==
  ASSUME NEW q \in Seq(Entries), InOrder(q), NEW k \in 1..Len(q)
  PROVE  InOrder(RemoveAt(q, k))
<1> DEFINE p == RemoveAt(q, k)
<1>1. /\ Len(q) \in Nat /\ Len(p) = Len(q) - 1
      /\ \A j \in 1..(Len(q) - 1) : p[j] = IF j < k THEN q[j] ELSE q[j + 1]
  BY EraseFacts
<1> HIDE DEF p
<1>2. ASSUME NEW i \in 1..Len(p), NEW j \in 1..Len(p), i <= j
      PROVE  p[i].at <= p[j].at
  <2>1. CASE j < k
    BY <1>1, <1>2, <2>1 DEF InOrder
  <2>2. CASE i < k /\ k <= j
    BY <1>1, <1>2, <2>2 DEF InOrder
  <2>3. CASE k <= i
    <3>1. i + 1 \in 1..Len(q) /\ j + 1 \in 1..Len(q) /\ i + 1 <= j + 1
      BY <1>1, <1>2, <2>3
    <3>2. q[i + 1].at <= q[j + 1].at
      BY <3>1 DEF InOrder
    <3> QED
      BY <1>1, <1>2, <2>3, <3>2
  <2> QED
    BY <1>1, <1>2, <2>1, <2>2, <2>3
<1> QED
  BY <1>2 DEF InOrder, p

LEMMA TailInOrder ==
  ASSUME NEW q \in Seq(Entries), InOrder(q), q # <<>>
  PROVE  InOrder(Tail(q))
BY TailErases DEF InOrder

-----------------------------------------------------------------------------
(* The entries of one node.                                                *)

(* p is q with e put in at place k.                                        *)
Inserts(p, q, k, e) ==
  /\ Len(p) = Len(q) + 1
  /\ \A j \in 1..(Len(q) + 1) :
       p[j] = IF j < k THEN q[j] ELSE IF j = k THEN e ELSE q[j - 1]

LEMMA InsertAtInserts ==
  ASSUME NEW q \in Seq(Entries), NEW e \in Entries, NEW k \in 1..(Len(q) + 1)
  PROVE  Inserts(InsertAt(q, k, e), q, k, e)
BY InsertFacts DEF Inserts

LEMMA InsertMatches ==
  ASSUME NEW q \in Seq(Entries), NEW e \in Entries,
         NEW k \in 1..(Len(q) + 1), NEW p, Inserts(p, q, k, e),
         NEW g, NEW h, NEW s
  PROVE  /\ e.slot # s /\ h[s] = g[s] /\ Matches(q, g, s) => Matches(p, h, s)
         /\ e.slot # s => (Tracked(p, s) <=> Tracked(q, s))
         /\ e.slot = s /\ h[s] = e.at /\ h[s] > Never /\ ~Tracked(q, s)
              => Matches(p, h, s)
<1>1. /\ Len(q) \in Nat /\ Len(p) = Len(q) + 1
      /\ \A j \in 1..(Len(q) + 1) :
           p[j] = IF j < k THEN q[j] ELSE IF j = k THEN e ELSE q[j - 1]
  BY DEF Inserts
(* Each old entry has a place in the new list, and all but e come from one.*)
<1>2. ASSUME NEW j \in 1..Len(q)
      PROVE  \E i \in 1..Len(p) : i # k /\ p[i] = q[j]
  <2>1. CASE j < k
    <3>1. j \in 1..Len(p) /\ j # k /\ p[j] = q[j]
      BY <1>1, <2>1
    <3> QED
      BY <3>1
  <2>2. CASE j >= k
    <3>1. j + 1 \in 1..Len(p) /\ j + 1 # k
      BY <1>1, <2>2
    <3>2. p[j + 1] = q[j + 1 - 1]
      BY <1>1, <2>2, <3>1
    <3>3. p[j + 1] = q[j]
      <4>1. j + 1 - 1 = j
        OBVIOUS
      <4> QED
        BY <3>2, <4>1
    <3> QED
      BY <3>1, <3>3
  <2>3. j < k \/ j >= k
    OBVIOUS
  <2> QED
    BY <2>1, <2>2, <2>3
<1> DEFINE Old(i) == IF i < k THEN i ELSE i - 1
<1>3. ASSUME NEW i \in 1..Len(p), i # k
      PROVE  Old(i) \in 1..Len(q) /\ p[i] = q[Old(i)]
  BY <1>1, <1>3
<1>4. \A i, j \in 1..Len(p) : i # k /\ j # k /\ Old(i) = Old(j) => i = j
  BY <1>1
<1>5. k \in 1..Len(p) /\ p[k] = e
  BY <1>1
<1> HIDE DEF Old
<1>6. e.slot # s => (Tracked(p, s) <=> Tracked(q, s))
  <2>1. ASSUME e.slot # s, Tracked(q, s) PROVE Tracked(p, s)
    BY <1>2, <2>1 DEF Tracked
  <2>2. ASSUME e.slot # s, Tracked(p, s) PROVE Tracked(q, s)
    <3>1. PICK i \in 1..Len(p) : p[i].slot = s
      BY <2>2 DEF Tracked
    <3>2. i # k
      BY <1>5, <2>2, <3>1
    <3> QED
      BY <1>3, <3>1, <3>2 DEF Tracked
  <2> QED
    BY <2>1, <2>2
<1>7. ASSUME e.slot # s, h[s] = g[s], Matches(q, g, s) PROVE Matches(p, h, s)
  <2>1. CASE Expiring(g, s)
    <3>1. PICK n \in 1..Len(q) :
            /\ q[n] = [at |-> g[s], slot |-> s]
            /\ \A j \in 1..Len(q) : q[j].slot = s => j = n
      BY <1>7, <2>1 DEF Matches
    <3>2. PICK m \in 1..Len(p) : m # k /\ p[m] = q[n]
      BY <1>2
    <3>3. p[m].slot = s
      BY <3>1, <3>2
    <3>4. ASSUME NEW j \in 1..Len(p), p[j].slot = s PROVE j = m
      BY <1>3, <1>4, <1>5, <1>7, <3>1, <3>2, <3>3, <3>4
    <3>5. Expiring(h, s)
      BY <1>7, <2>1 DEF Expiring
    <3> QED
      BY <1>7, <3>1, <3>2, <3>4, <3>5 DEF Matches
  <2>2. CASE ~Expiring(g, s)
    BY <1>6, <1>7, <2>2 DEF Matches, Expiring
  <2> QED
    BY <2>1, <2>2
<1>8. ASSUME e.slot = s, h[s] = e.at, h[s] > Never, ~Tracked(q, s)
      PROVE  Matches(p, h, s)
  <2>1. e = [at |-> h[s], slot |-> s]
    BY <1>8 DEF Entries
  <2>2. ASSUME NEW j \in 1..Len(p), p[j].slot = s PROVE j = k
    BY <1>3, <1>8, <2>2 DEF Tracked
  <2> QED
    BY <1>5, <1>8, <2>1, <2>2 DEF Matches, Expiring
<1> QED
  BY <1>6, <1>7, <1>8

(* p is q without its k-th entry.                                          *)
Skips(p, q, k) ==
  /\ Len(p) = Len(q) - 1
  /\ \A j \in 1..(Len(q) - 1) : p[j] = IF j < k THEN q[j] ELSE q[j + 1]

LEMMA EraseMatches ==
  ASSUME NEW q \in Seq(Entries), NEW k \in 1..Len(q), NEW p, Skips(p, q, k),
         NEW g, NEW h, NEW s
  PROVE  /\ q[k].slot # s /\ h[s] = g[s] /\ Matches(q, g, s) => Matches(p, h, s)
         /\ q[k].slot = s /\ Matches(q, g, s) /\ ~Expiring(h, s) => Matches(p, h, s)
<1>1. /\ Len(q) \in Nat /\ Len(p) = Len(q) - 1
      /\ \A j \in 1..(Len(q) - 1) : p[j] = IF j < k THEN q[j] ELSE q[j + 1]
  BY DEF Skips
<1> DEFINE Old(i) == IF i < k THEN i ELSE i + 1
<1>2. ASSUME NEW i \in 1..Len(p)
      PROVE  Old(i) \in 1..Len(q) /\ Old(i) # k /\ p[i] = q[Old(i)]
  BY <1>1, <1>2
<1>3. \A i, j \in 1..Len(p) : Old(i) = Old(j) => i = j
  BY <1>1
<1>4. ASSUME NEW j \in 1..Len(q), j # k
      PROVE  \E i \in 1..Len(p) : p[i] = q[j]
  <2>1. CASE j < k
    BY <1>1, <2>1
  <2>2. CASE j > k
    <3>1. j - 1 \in 1..Len(p) /\ p[j - 1] = q[j]
      BY <1>1, <2>2
    <3> QED
      BY <3>1
  <2> QED
    BY <1>1, <1>4, <2>1, <2>2
<1> HIDE DEF Old
<1>5. ASSUME q[k].slot # s, h[s] = g[s], Matches(q, g, s) PROVE Matches(p, h, s)
  <2>1. CASE Expiring(g, s)
    <3>1. PICK n \in 1..Len(q) :
            /\ q[n] = [at |-> g[s], slot |-> s]
            /\ \A j \in 1..Len(q) : q[j].slot = s => j = n
      BY <1>5, <2>1 DEF Matches
    <3>2. n # k
      BY <1>5, <3>1
    <3>3. PICK m \in 1..Len(p) : p[m] = q[n]
      BY <1>4, <3>2
    <3>4. p[m].slot = s
      BY <3>1, <3>3
    <3>5. ASSUME NEW j \in 1..Len(p), p[j].slot = s PROVE j = m
      BY <1>2, <1>3, <3>1, <3>3, <3>4, <3>5
    <3>6. Expiring(h, s)
      BY <1>5, <2>1 DEF Expiring
    <3> QED
      BY <1>5, <3>1, <3>3, <3>5, <3>6 DEF Matches
  <2>2. CASE ~Expiring(g, s)
    <3>1. ~Tracked(q, s) /\ ~Expiring(h, s)
      BY <1>5, <2>2 DEF Matches, Expiring
    <3>2. ~Tracked(p, s)
      BY <1>2, <3>1 DEF Tracked
    <3> QED
      BY <3>1, <3>2 DEF Matches
  <2> QED
    BY <2>1, <2>2
<1>6. ASSUME q[k].slot = s, Matches(q, g, s), ~Expiring(h, s) PROVE Matches(p, h, s)
  <2>1. Tracked(q, s)
    BY <1>6 DEF Tracked
  <2>2. \A j \in 1..Len(q) : q[j].slot = s => j = k
    BY <1>6, <2>1 DEF Matches
  <2>3. ~Tracked(p, s)
    BY <1>2, <2>2 DEF Tracked
  <2> QED
    BY <1>6, <2>3 DEF Matches
<1> QED
  BY <1>5, <1>6

-----------------------------------------------------------------------------
(* Types.                                                                  *)

LEMMA TypeStep == TypeOK /\ [Next]_vars => TypeOK'
<1> SUFFICES ASSUME TypeOK, [Next]_vars PROVE TypeOK'
  OBVIOUS
<1> USE BoundsAssumption DEF BoundsAssumption, Nodes, Free, Never
<1>1. ASSUME NEW s \in Slots, NEW ttl \in Ttls, AddExpiring(s, ttl) PROVE TypeOK'
  <2>1. clock + ttl \in 0..MaxTime
    BY <1>1 DEF AddExpiring, TypeOK
  <2>2. [at |-> clock + ttl, slot |-> s] \in Entries
    BY <2>1 DEF Entries
  <2>3. queue' \in Seq(Entries)
    BY <1>1, <2>2, InsertFacts DEF AddExpiring, TypeOK
  <2> QED
    BY <1>1, <2>1, <2>3 DEF AddExpiring, Command, TypeOK, control
<1>2. ASSUME NEW s \in Slots, AddPlain(s) PROVE TypeOK'
  BY <1>2 DEF AddPlain, Command, TypeOK, control, history
<1>3. ASSUME NEW s \in Slots, NEW exp \in Updates, UpdateExpiration(s, exp)
      PROVE  TypeOK'
  BY <1>3 DEF UpdateExpiration, Command, TypeOK, control
<1>4. ASSUME NEW s \in Slots, DeleteResult(s) PROVE TypeOK'
  <2>1. queue' \in Seq(Entries)
    BY <1>4, EraseFacts DEF DeleteResult, ErasesAt, TypeOK
  <2>2. touched' \subseteq Slots
    BY <1>4 DEF DeleteResult, TypeOK
  <2> QED
    BY <1>4, <2>1, <2>2 DEF DeleteResult, Command, TypeOK, control
<1>5. ASSUME DeleteExpired \/ AutoDelete \/ Begin \/ ExpireDone \/ ScanDone
      PROVE  TypeOK'
  BY <1>5, SMTT(60) DEF DeleteExpired, AutoDelete, Begin, ExpireDone, ScanDone, Command,
              TypeOK, data, history
<1>6. ASSUME ExpireFront \/ ExpireDangling PROVE TypeOK'
  <2>1. queue # <<>>
    BY <1>6 DEF ExpireFront, ExpireDangling, FrontDue
  <2>2. Head(queue) \in Entries /\ Tail(queue) \in Seq(Entries)
    BY <2>1 DEF TypeOK
  <2>3. Head(queue).slot \in Slots
    BY <2>2 DEF Entries
  <2> QED
    BY <1>6, <2>2, <2>3 DEF ExpireFront, ExpireDangling, TypeOK, control
<1>7. ASSUME Commit \/ Abort \/ Crash PROVE TypeOK'
  <2>1. CASE Commit
    BY <2>1 DEF Commit, TypeOK
  <2>2. CASE Abort
    BY <2>2 DEF Abort, TypeOK
  <2>3. CASE Crash
    <3>1. crashes' \in 0..MaxCrashes
      BY <2>3 DEF Crash, TypeOK
    <3>2. queue' \in Seq(Entries) /\ loose' \subseteq Slots
      BY <2>3 DEF Crash
    <3>3. /\ graph' = committed /\ committed' = committed /\ clock' = clock
          /\ phase' = "scan" /\ now' = 0 /\ cmds' = 0
      BY <2>3 DEF Crash
    <3>4. serving' \in BOOLEAN
      BY <2>3 DEF Crash
    <3>5. touched' \subseteq Slots /\ moved' \subseteq Slots
      BY <2>3 DEF Crash
    <3>6. /\ graph' \in [Slots -> Nodes \cup {Free}]
          /\ committed' \in [Slots -> Nodes \cup {Free}]
          /\ clock' \in 1..MaxTime
      BY <3>3 DEF TypeOK
    <3>7. /\ phase' \in {"idle", "open", "purge", "scan"}
          /\ now' \in 0..MaxTime /\ cmds' \in 0..MaxCmds
      BY <3>3
    <3> QED
      BY <3>1, <3>2, <3>4, <3>5, <3>6, <3>7 DEF TypeOK
  <2> QED
    BY <1>7, <2>1, <2>2, <2>3
<1>8. ASSUME NEW s \in Slots, ScanInsert(s) PROVE TypeOK'
  <2>1. committed[s] \in 0..MaxTime
    BY <1>8 DEF ScanInsert, Rebuilt, Expiring, TypeOK
  <2>2. [at |-> committed[s], slot |-> s] \in Entries
    BY <2>1 DEF Entries
  <2>3. queue' \in Seq(Entries)
    BY <1>8, <2>2, InsertFacts DEF ScanInsert, TypeOK
  <2> QED
    BY <1>8, <2>3 DEF ScanInsert, TypeOK, control, history
<1>9. ASSUME Tick PROVE TypeOK'
  BY <1>9 DEF Tick, TypeOK, data, control, history
<1>10. CASE UNCHANGED vars
  BY <1>10 DEF TypeOK, vars, data, control, history
<1> QED
  BY <1>1, <1>2, <1>3, <1>4, <1>5, <1>6, <1>7, <1>8, <1>9, <1>10
     DEF Next, Client, Purge, Start

-----------------------------------------------------------------------------
(* The order of the list.                                                  *)

LEMMA SortedStep == TypeOK /\ TypeOK' /\ Sorted /\ [Next]_vars => Sorted'
<1> SUFFICES ASSUME TypeOK, TypeOK', Sorted, [Next]_vars PROVE Sorted'
  OBVIOUS
<1>0. queue \in Seq(Entries) /\ queue' \in Seq(Entries)
  BY DEF TypeOK
<1>1. ASSUME UNCHANGED queue PROVE Sorted'
  BY <1>1 DEF Sorted
<1>2. ASSUME NEW at, NEW s \in Slots, at \in 0..MaxTime,
             NEW k \in 1..(Len(queue) + 1), InsertsAt(queue, at, k),
             queue' = InsertAt(queue, k, [at |-> at, slot |-> s])
      PROVE  Sorted'
  <2>1. [at |-> at, slot |-> s] \in Entries /\ [at |-> at, slot |-> s].at = at
    BY <1>2 DEF Entries
  <2>2. InOrder(queue)
    BY DEF Sorted
  <2>3. InOrder(InsertAt(queue, k, [at |-> at, slot |-> s]))
    BY <1>0, <1>2, <2>1, <2>2, InsertInOrder
  <2> QED
    BY <1>2, <2>3 DEF Sorted
<1>3. ASSUME NEW s \in Slots, NEW ttl \in Ttls, AddExpiring(s, ttl) PROVE Sorted'
  <2>1. clock + ttl \in 0..MaxTime
    BY <1>3, BoundsAssumption DEF AddExpiring, TypeOK, BoundsAssumption
  <2> QED
    BY <1>2, <1>3, <2>1 DEF AddExpiring
<1>4. ASSUME NEW s \in Slots, ScanInsert(s) PROVE Sorted'
  <2>1. committed[s] \in 0..MaxTime
    BY <1>4 DEF ScanInsert, Rebuilt, Expiring, TypeOK, Nodes, Never, Free
  <2> QED
    BY <1>2, <1>4, <2>1 DEF ScanInsert
<1>5. ASSUME NEW s \in Slots, DeleteResult(s) PROVE Sorted'
  BY <1>0, <1>1, <1>5, EraseInOrder DEF DeleteResult, ErasesAt, Sorted
<1>6. ASSUME ExpireFront \/ ExpireDangling PROVE Sorted'
  BY <1>0, <1>6, TailInOrder DEF ExpireFront, ExpireDangling, FrontDue, Sorted
<1>7. ASSUME Crash PROVE Sorted'
  BY <1>7 DEF Crash, Sorted, InOrder
<1>8. ASSUME NEW s \in Slots, NEW exp, AddPlain(s) \/ UpdateExpiration(s, exp)
      PROVE  Sorted'
  BY <1>1, <1>8 DEF AddPlain, UpdateExpiration
<1>9. ASSUME DeleteExpired \/ AutoDelete \/ Begin \/ ExpireDone \/ ScanDone
             \/ Commit \/ Abort \/ Tick \/ UNCHANGED vars
      PROVE  Sorted'
  BY <1>1, <1>9 DEF DeleteExpired, AutoDelete, Begin, ExpireDone, ScanDone, Commit,
     Abort, Tick, vars, data
<1> QED
  BY <1>3, <1>4, <1>5, <1>6, <1>7, <1>8, <1>9 DEF Next, Client, Purge, Start

-----------------------------------------------------------------------------
(* The scan of a start.                                                    *)

LEMMA ScanStep ==
  TypeOK /\ TypeOK' /\ ScanInv /\ [Next]_vars => ScanInv'
<1> SUFFICES ASSUME TypeOK, TypeOK', ScanInv, [Next]_vars, phase' = "scan"
             PROVE  /\ graph' = committed'
                    /\ loose' = {s \in Slots \ MediaSlots : Expiring(committed', s)}
                    /\ \A s \in Slots : Tracked(queue', s) =>
                         Rebuilt(s)' /\ Matches(queue', committed', s)
  BY DEF ScanInv
<1>0. queue \in Seq(Entries)
  BY DEF TypeOK
<1>1. CASE Crash
  <2>1. queue' = <<>> /\ graph' = committed /\ committed' = committed
        /\ loose' = {s \in Slots \ MediaSlots : Expiring(committed, s)}
    BY <1>1 DEF Crash
  <2>2. \A s \in Slots : ~Tracked(queue', s)
    BY <2>1 DEF Tracked
  <2> QED
    BY <2>1, <2>2
<1>2. ASSUME NEW t \in Slots, ScanInsert(t)
      PROVE  /\ graph' = committed'
             /\ loose' = {s \in Slots \ MediaSlots : Expiring(committed', s)}
             /\ \A s \in Slots : Tracked(queue', s) =>
                  Rebuilt(s)' /\ Matches(queue', committed', s)
  <2>1. /\ phase = "scan" /\ Rebuilt(t) /\ ~Tracked(queue, t)
        /\ graph' = graph /\ committed' = committed /\ loose' = loose
    BY <1>2 DEF ScanInsert, history
  <2>2. committed[t] \in 0..MaxTime /\ committed[t] > Never
    BY <2>1 DEF Rebuilt, Expiring, TypeOK, Nodes, Never, Free
  <2> DEFINE e == [at |-> committed[t], slot |-> t]
  <2>3. e \in Entries /\ e.slot = t /\ e.at = committed[t]
    BY <2>2 DEF Entries
  <2>0. \E k \in 1..(Len(queue) + 1) : queue' = InsertAt(queue, k, e)
    BY <1>2 DEF ScanInsert
  <2> HIDE DEF e
  <2>4. PICK k \in 1..(Len(queue) + 1) : Inserts(queue', queue, k, e)
    BY <1>0, <2>0, <2>3, InsertAtInserts
  <2>5. ASSUME NEW s \in Slots, Tracked(queue', s)
        PROVE  Rebuilt(s) /\ Matches(queue', committed, s)
    <3>1. CASE s = t
      BY <1>0, <2>1, <2>2, <2>3, <2>4, <3>1, InsertMatches
    <3>2. CASE s # t
      <4>1. Tracked(queue, s)
        BY <1>0, <2>3, <2>4, <2>5, <3>2, InsertMatches
      <4>2. Rebuilt(s) /\ Matches(queue, committed, s)
        BY <2>1, <4>1 DEF ScanInv
      <4> QED
        BY <1>0, <2>3, <2>4, <3>2, <4>2, InsertMatches
    <3> QED
      BY <3>1, <3>2
  <2> QED
    BY <2>1, <2>5 DEF ScanInv, Rebuilt
<1>3. CASE UNCHANGED <<phase, queue, graph, committed, loose>>
  BY <1>3 DEF ScanInv, Rebuilt
<1>4. Tick \/ UNCHANGED vars => UNCHANGED <<phase, queue, graph, committed, loose>>
  BY DEF Tick, vars, data, control, history
<1>5. ~(DeleteExpired \/ AutoDelete \/ Begin \/ ExpireDone \/ ScanDone
        \/ Commit \/ Abort \/ ExpireFront \/ ExpireDangling)
  BY DEF DeleteExpired, AutoDelete, Begin, ExpireDone, ScanDone, Commit, Abort,
     ExpireFront, ExpireDangling, FrontDue, control
<1>6. ASSUME NEW s \in Slots, NEW x
      PROVE  ~(AddExpiring(s, x) \/ AddPlain(s) \/ UpdateExpiration(s, x)
               \/ DeleteResult(s))
  BY DEF AddExpiring, AddPlain, UpdateExpiration, DeleteResult, Command, control
<1> QED
  BY <1>1, <1>2, <1>3, <1>4, <1>5, <1>6 DEF Next, Client, Purge, Start

-----------------------------------------------------------------------------
(* The agreement of list and graph.                                        *)

(* What one step has to show: ListMatchesGraph for one node.               *)
Agrees(s) ==
  /\ s \notin moved => Matches(queue, graph, s)
  /\ s \notin touched => Matches(queue, committed, s)

LEMMA ListStep ==
  IInv /\ TypeOK' /\ [Next]_vars => ListMatchesGraph'
<1> SUFFICES ASSUME IInv, TypeOK', [Next]_vars, phase' # "scan",
                    NEW s \in Slots, s \notin loose'
             PROVE  Agrees(s)'
  BY DEF ListMatchesGraph, Agrees
<1>0. /\ TypeOK /\ queue \in Seq(Entries)
      /\ s \notin loose /\ phase # "scan" => Agrees(s)
  BY DEF IInv, ListMatchesGraph, Agrees, TypeOK
<1>1. ASSUME UNCHANGED <<data, history>>, phase # "scan" PROVE Agrees(s)'
  BY <1>0, <1>1 DEF Agrees, Matches, Expiring, Tracked, data, history
<1>2. ASSUME NEW t \in Slots, NEW ttl \in Ttls, AddExpiring(t, ttl)
      PROVE  Agrees(s)'
  <2> DEFINE e == [at |-> clock + ttl, slot |-> t]
  <2>1. clock + ttl \in 0..MaxTime /\ clock + ttl > Never
    <3>1. clock \in 1..MaxTime
      BY <1>0 DEF TypeOK
    <3>2. ttl \in Nat /\ MaxTime \in Nat
      BY BoundsAssumption DEF BoundsAssumption
    <3>3. clock + ttl <= MaxTime
      BY <1>2 DEF AddExpiring
    <3> QED
      BY <3>1, <3>2, <3>3 DEF Never
  <2>2. e \in Entries /\ e.slot = t /\ e.at = clock + ttl
    BY <2>1 DEF Entries
  <2>0. \E k \in 1..(Len(queue) + 1) : queue' = InsertAt(queue, k, e)
    BY <1>2 DEF AddExpiring
  <2>4. /\ graph[t] = Free /\ graph' = [graph EXCEPT ![t] = e.at]
        /\ committed' = committed /\ touched' = touched \cup {t}
        /\ moved' = moved /\ loose' = loose /\ phase # "scan"
    BY <1>2, <2>2 DEF AddExpiring, Command
  <2>5. Agrees(s)
    BY <1>0, <2>4
  <2> HIDE DEF e
  <2>3. PICK k \in 1..(Len(queue) + 1) : Inserts(queue', queue, k, e)
    BY <1>0, <2>0, <2>2, InsertAtInserts
  <2>6. CASE s = t
    <3>1. ASSUME s \notin moved PROVE Matches(queue', graph', s)
      <4>1. ~Tracked(queue, s)
        BY <2>4, <2>5, <2>6, <3>1 DEF Agrees, Matches, Expiring, Free, Never
      <4>2. graph'[s] = e.at /\ e.at > Never /\ e.slot = s
        BY <1>0, <2>1, <2>2, <2>4, <2>6 DEF TypeOK
      <4> QED
        BY <1>0, <2>2, <2>3, <4>1, <4>2, InsertMatches
    <3> QED
      BY <2>4, <2>6, <3>1 DEF Agrees
  <2>7. CASE s # t
    <3>1. graph'[s] = graph[s] /\ e.slot # s
      BY <1>0, <2>2, <2>4, <2>7 DEF TypeOK
    <3>2. Matches(queue, graph, s) => Matches(queue', graph', s)
      BY <1>0, <2>2, <2>3, <3>1, InsertMatches
    <3>3. Matches(queue, committed, s) => Matches(queue', committed, s)
      BY <1>0, <2>2, <2>3, <3>1, InsertMatches
    <3> QED
      BY <2>4, <2>5, <3>2, <3>3 DEF Agrees
  <2> QED
    BY <2>6, <2>7
<1>3. ASSUME NEW t \in Slots, NEW x, UNCHANGED <<queue, committed, loose, touched>>,
             graph' = [graph EXCEPT ![t] = x], phase # "scan",
             \/ x = Never /\ graph[t] = Free /\ moved' = moved
             \/ moved' = moved \cup {t}
      PROVE  Agrees(s)'
  <2>1. Agrees(s)
    BY <1>0, <1>3
  <2>2. s \notin moved' => s \notin moved /\ (Matches(queue, graph, s) => Matches(queue, graph', s))
    BY <1>0, <1>3 DEF Matches, Expiring, TypeOK, Free, Never
  <2> QED
    BY <1>3, <2>1, <2>2 DEF Agrees
<1>4. ASSUME NEW t \in Slots, AddPlain(t) PROVE Agrees(s)'
  BY <1>3, <1>4 DEF AddPlain, Command, history
<1>5. ASSUME NEW t \in Slots, NEW exp \in Updates, UpdateExpiration(t, exp)
      PROVE  Agrees(s)'
  BY <1>3, <1>5 DEF UpdateExpiration, Command
(* The k-th entry, that of node t, leaves the list and t the graph.        *)
<1>6. ASSUME NEW t \in Slots, NEW k \in 1..Len(queue), queue[k].slot = t,
             Skips(queue', queue, k), graph' = [graph EXCEPT ![t] = Free],
             committed' = committed, touched' = touched \cup {t},
             moved' = moved, loose' = loose, phase # "scan"
      PROVE  Agrees(s)'
  <2>1. Agrees(s)
    BY <1>0, <1>6
  <2>2. s = t => ~Expiring(graph', s)
    BY <1>0, <1>6 DEF Expiring, Free, Never, TypeOK
  <2>3. s # t => graph'[s] = graph[s] /\ queue[k].slot # s
    BY <1>0, <1>6 DEF TypeOK
  <2>4. Matches(queue, graph, s) => Matches(queue', graph', s)
    BY <1>0, <1>6, <2>2, <2>3, EraseMatches
  <2>5. s # t /\ Matches(queue, committed, s) => Matches(queue', committed, s)
    BY <1>0, <1>6, <2>3, EraseMatches
  <2> QED
    BY <1>6, <2>1, <2>4, <2>5 DEF Agrees
<1>7. ASSUME NEW t \in Slots, DeleteResult(t) PROVE Agrees(s)'
  <2>1. CASE Tracked(queue, t)
    <3>1. PICK k \in 1..Len(queue) :
            /\ ErasesAt(queue, t, k) /\ queue' = RemoveAt(queue, k)
            /\ touched' = touched \cup {t}
      BY <1>7, <2>1 DEF DeleteResult
    <3>2. Skips(queue', queue, k)
      BY <1>0, <3>1, EraseFacts DEF Skips
    <3> QED
      BY <1>6, <1>7, <3>1, <3>2 DEF DeleteResult, Command, ErasesAt, control
  <2>2. CASE ~Tracked(queue, t)
    <3>1. /\ queue' = queue /\ touched' = touched /\ committed' = committed
          /\ moved' = moved /\ loose' = loose /\ phase # "scan"
          /\ graph' = [graph EXCEPT ![t] = Free]
      BY <1>7, <2>2 DEF DeleteResult, Command, ErasesAt, Tracked
    <3>2. Agrees(s)
      BY <1>0, <3>1
    <3>3. Matches(queue, graph, s) => Matches(queue, graph', s)
      <4>1. CASE s = t
        <5>1. ~Expiring(graph', s)
          BY <1>0, <3>1, <4>1 DEF Expiring, Free, Never, TypeOK
        <5> QED
          BY <2>2, <4>1, <5>1 DEF Matches
      <4>2. CASE s # t
        BY <1>0, <3>1, <4>2 DEF Matches, Expiring, TypeOK
      <4> QED
        BY <4>1, <4>2
    <3> QED
      BY <3>1, <3>2, <3>3 DEF Agrees
  <2> QED
    BY <2>1, <2>2
<1>8. ASSUME ExpireFront \/ ExpireDangling PROVE Agrees(s)'
  <2> DEFINE t == Head(queue).slot
  <2>1. queue # <<>> /\ phase # "scan" /\ queue' = Tail(queue)
    BY <1>8 DEF ExpireFront, ExpireDangling, FrontDue
  <2>2. /\ 1 \in 1..Len(queue) /\ queue[1].slot = t /\ t \in Slots
        /\ Skips(queue', queue, 1)
    <3>1. Head(queue) \in Entries
      BY <1>0, <2>1
    <3> QED
      BY <1>0, <2>1, <3>1, TailErases DEF Skips, Entries
  <2>3. graph' = [graph EXCEPT ![t] = Free]
    BY <1>0, <1>8, <2>2 DEF ExpireFront, ExpireDangling, TypeOK
  <2>4. /\ committed' = committed /\ touched' = touched \cup {t}
        /\ moved' = moved /\ loose' = loose
    BY <1>8 DEF ExpireFront, ExpireDangling
  <2> HIDE DEF t
  <2> QED
    BY <1>6, <2>1, <2>2, <2>3, <2>4
<1>9. CASE Commit
  <2>1. /\ graph' = graph /\ queue' = queue /\ committed' = graph
        /\ loose' = loose \cup moved /\ phase # "scan"
    BY <1>9 DEF Commit, Ending
  <2> QED
    BY <1>0, <2>1 DEF Agrees
<1>10. CASE Abort
  <2>1. /\ graph' = committed /\ queue' = queue /\ committed' = committed
        /\ loose' = loose \cup touched /\ phase # "scan"
    BY <1>10 DEF Abort, Fails, Ending, FrontDue
  <2> QED
    BY <1>0, <2>1 DEF Agrees
<1>11. CASE ScanDone
  <2>1. /\ phase = "scan" /\ queue' = queue /\ graph' = graph
        /\ committed' = committed /\ loose' = loose
        /\ Rebuilt(s) => Tracked(queue, s)
    BY <1>11 DEF ScanDone, data, history
  <2>2. /\ graph = committed
        /\ loose = {x \in Slots \ MediaSlots : Expiring(committed, x)}
        /\ Tracked(queue, s) => Rebuilt(s) /\ Matches(queue, committed, s)
    BY <2>1 DEF IInv, ScanInv
  <2>3. Matches(queue, committed, s)
    <3>1. CASE Expiring(committed, s)
      BY <2>1, <2>2, <3>1 DEF Rebuilt
    <3>2. CASE ~Expiring(committed, s)
      BY <2>2, <3>2 DEF Rebuilt, Matches
    <3> QED
      BY <3>1, <3>2
  <2> QED
    BY <2>1, <2>2, <2>3 DEF Agrees
<1>12. ~Crash /\ \A t \in Slots : ~ScanInsert(t)
  BY DEF Crash, ScanInsert, control
<1>13. ASSUME DeleteExpired \/ AutoDelete \/ Begin \/ ExpireDone
       PROVE  Agrees(s)'
  BY <1>1, <1>13 DEF DeleteExpired, AutoDelete, Begin, ExpireDone, Command
<1>14. ASSUME Tick \/ UNCHANGED vars PROVE Agrees(s)'
  BY <1>1, <1>14 DEF Tick, vars, control
<1> QED
  BY <1>2, <1>4, <1>5, <1>7, <1>8, <1>9, <1>10, <1>11, <1>12, <1>13, <1>14
     DEF Next, Client, Purge, Start

-----------------------------------------------------------------------------
(* The theorems.                                                           *)

LEMMA InitIInv == Init => IInv
<1> SUFFICES ASSUME Init PROVE IInv
  OBVIOUS
<1>1. queue = <<>> /\ queue \in Seq(Entries) /\ \A s \in Slots : ~Tracked(queue, s)
  BY DEF Init, Tracked
<1>2. \A s \in Slots : graph[s] = Free /\ committed[s] = Free
  BY DEF Init
<1>3. TypeOK
  BY <1>1, BoundsAssumption DEF Init, TypeOK, BoundsAssumption, Nodes, Free, Never
<1>4. Sorted
  BY <1>1 DEF Sorted, InOrder
<1>5. ScanInv
  BY DEF Init, ScanInv
<1>6. ListMatchesGraph
  BY <1>1, <1>2 DEF ListMatchesGraph, Matches, Expiring, Free, Never
<1> QED
  BY <1>3, <1>4, <1>5, <1>6 DEF IInv

(* Every variable keeps its type: deadlines stay in the range of the       *)
(* clock, and the list holds entries of nodes only.                        *)
THEOREM TypeCorrect == Spec => []TypeOK
<1>1. Init => TypeOK
  BY InitIInv DEF IInv
<1> QED
  BY <1>1, TypeStep, PTL DEF Spec

(* The inductive invariant: types, the order of the list, what the scan of *)
(* a start has done so far, and the agreement of list and graph.           *)
THEOREM InductiveInvariant == Spec => []IInv
<1>1. IInv /\ [Next]_vars => IInv'
  BY TypeStep, SortedStep, ScanStep, ListStep DEF IInv
<1> QED
  BY <1>1, InitIInv, PTL DEF Spec

(* insert_into_queue and delete_by_value keep the list sorted by deadline. *)
THEOREM ListSorted == Spec => []Sorted
<1>1. IInv => Sorted
  BY DEF IInv
<1> QED
  BY <1>1, InductiveInvariant, PTL

(* add_node, the deletions and the scan of a start keep one entry for each *)
(* expiring node, except where an abort, an update or a restart came       *)
(* between list and graph.                                                 *)
THEOREM ListExact == Spec => []ListMatchesGraph
<1>1. IInv => ListMatchesGraph
  BY DEF IInv
<1> QED
  BY <1>1, InductiveInvariant, PTL

(* delete_expired_nodes removes no node before its deadline and leaves     *)
(* none that is due, of those where list and graph agree.                  *)
THEOREM PurgesExactly == Spec => PurgeExact
<1> DEFINE Exact(s) ==
      /\ Removes(s) => Expiring(graph, s) /\ graph[s] < now
      /\ phase = "purge" /\ phase' = "open"
           => ~(Expiring(graph, s) /\ graph[s] < now)
<1>1. ASSUME IInv, [Next]_vars, NEW s \in Slots \ (loose \cup moved)
      PROVE  Exact(s)
  <2>0. queue \in Seq(Entries) /\ now \in Int /\ graph[s] \in Int
    BY <1>1, BoundsAssumption
       DEF IInv, TypeOK, Nodes, Free, Never, BoundsAssumption
  <2>1. phase = "purge" => Matches(queue, graph, s)
    BY <1>1 DEF IInv, ListMatchesGraph
  <2>2. ASSUME Removes(s) PROVE Expiring(graph, s) /\ graph[s] < now
    <3>1. ExpireFront
      <4>1. phase = "purge" /\ phase' = "purge" /\ graph'[s] # graph[s]
        BY <2>2 DEF Removes
      <4>2. ~(UNCHANGED graph)
        BY <4>1
      <4> QED
        BY <1>1, <4>1, <4>2 DEF Next, Client, Purge, Start, AddExpiring, AddPlain,
           UpdateExpiration, DeleteResult, Command, DeleteExpired, AutoDelete, Begin,
           ExpireDangling, ExpireDone, Commit, Abort, ScanDone, ScanInsert, Tick,
           Crash, vars, data
    <3>2. queue # <<>> /\ Head(queue).at < now /\ phase = "purge"
      BY <3>1 DEF ExpireFront, FrontDue
    <3>3. 1 \in 1..Len(queue) /\ Head(queue) = queue[1]
      BY <2>0, <3>2, TailErases
    <3>4. queue[1].slot = s
      BY <1>1, <2>2, <3>1, <3>3 DEF ExpireFront, Removes, IInv, TypeOK
    <3>5. Expiring(graph, s)
      BY <2>1, <3>2, <3>3, <3>4 DEF Matches, Tracked
    <3>6. queue[1] = [at |-> graph[s], slot |-> s]
      BY <2>1, <3>2, <3>3, <3>4, <3>5 DEF Matches
    <3> QED
      BY <3>2, <3>3, <3>5, <3>6
  <2>3. ASSUME phase = "purge", phase' = "open", Expiring(graph, s), graph[s] < now
        PROVE  FALSE
    <3>1. ~FrontDue
      BY <1>1, <2>3 DEF Next, Client, Purge, Start, AddExpiring, AddPlain,
         UpdateExpiration, DeleteResult, Command, DeleteExpired, AutoDelete, Begin,
         ExpireFront, ExpireDangling, ExpireDone, Commit, Abort, ScanDone, ScanInsert,
         Tick, Crash, vars, control
    <3>2. PICK k \in 1..Len(queue) : queue[k] = [at |-> graph[s], slot |-> s]
      BY <2>1, <2>3 DEF Matches
    <3>3. queue # <<>>
      BY <3>2
    <3>4. 1 \in 1..Len(queue) /\ Head(queue) = queue[1] /\ 1 <= k
      BY <2>0, <3>3, TailErases
    <3>5. queue[1].at <= queue[k].at
      BY <1>1, <3>4 DEF IInv, Sorted, InOrder
    <3>6. queue[1].at \in Int
      <4>1. queue[1] \in Entries
        BY <2>0, <3>4
      <4> QED
        BY <4>1, BoundsAssumption DEF Entries, BoundsAssumption
    <3>7. queue[1].at < now
      BY <2>0, <2>3, <3>2, <3>5, <3>6
    <3> QED
      BY <2>3, <3>1, <3>3, <3>4, <3>7 DEF FrontDue
  <2> QED
    BY <2>2, <2>3
<1>2. IInv /\ [Next]_vars =>
        [\A s \in Slots \ (loose \cup moved) : Exact(s)]_vars
  BY <1>1
<1> HIDE DEF Exact
<1> QED
  BY <1>2, InductiveInvariant, PTL DEF Spec, PurgeExact, Exact

=============================================================================
