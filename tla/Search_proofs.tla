--------------------------- MODULE Search_proofs ----------------------------
(***************************************************************************)
(* Proofs about modules Descriptors, GraphQuery, FindQuery and Regions:    *)
(* the ids and labels of a descriptor set are those in the graph, and its  *)
(* answers list the nearest ones; nodes and edges are found, and           *)
(* connected, as the references say; sums are those of the values found;   *)
(* and each region is cut out of its own image.                            *)
(***************************************************************************)
EXTENDS GraphQuery, FindQuery, Descriptors, Regions, Lists_proofs

(***************************************************************************)
(* Module Descriptors.                                                     *)
(***************************************************************************)

(* The inductive invariant.                                                *)

\* an index, of which the cells do not matter here
IsIndex(h) ==
  /\ h = [vecs |-> h.vecs, lids |-> h.lids, names |-> h.names, total |-> h.total,
          cells |-> h.cells, ready |-> h.ready, locked |-> h.locked]
  /\ h.vecs \in Seq(Vectors) /\ h.lids \in Seq(Int) /\ h.names \in Seq(Seq(Nat))
  /\ h.total \in Nat /\ h.ready \in BOOLEAN

Node == [id : Nat, label : Labels, vec : Vectors, first : BOOLEAN]

AllNodes == nodes \cup adding

DescTypes ==
  /\ engine \in InMemory \cup {"dense", "sparse"} /\ lossy \in BOOLEAN
  /\ nodes \subseteq Node /\ adding \subseteq Node
  /\ disk = Absent => handle = Absent /\ nodes = {} /\ adding = {}
  /\ handle = Absent => adding = {}
  /\ handle # Absent => IsIndex(handle)

\* the nodes ns have different ids below total
NodeIds(ns, total) ==
  /\ \A n \in ns : n.id < total
  /\ \A n \in ns, m \in ns : m.id = n.id => m = n

VecsFit(ns, vecs) == \A n \in ns : vecs[n.id + 1] = n.vec

LabelsFit(ns, lids, names) ==
  \A n \in ns : n.first /\ n.label # <<>> =>
    /\ n.id < Len(lids)
    /\ lids[n.id + 1] \in 0..Len(names) - 1
    /\ FirstWord(names[lids[n.id + 1] + 1]) = FirstWord(n.label)

\* what the dense engine has stored in d counts its vectors and fits the nodes ns
DiskFits(e, d, ns) ==
  /\ IsIndex(d)
  /\ e = "dense" => /\ d.total = Len(d.vecs) /\ Len(d.lids) = d.total
                    /\ NodeIds(ns, d.total) /\ VecsFit(ns, d.vecs)

\* an index h over d, unless something was lost, counts the vectors and fits the nodes ns
HandleFits(e, h, d, ns, lost) ==
  /\ IsIndex(h)
  /\ e \in InMemory /\ ~lost =>
       /\ h.total = Len(h.vecs) /\ Len(h.lids) <= h.total
       /\ NodeIds(ns, h.total) /\ VecsFit(ns, h.vecs) /\ LabelsFit(ns, h.lids, h.names)
  /\ e = "dense" =>
       /\ h.total = d.total
       /\ h.ready => Len(h.lids) <= h.total
       /\ ~lost => /\ LabelsFit(ns, d.lids, h.names)
                   /\ h.ready => LabelsFit(ns, h.lids, h.names)
  /\ e = "sparse" /\ ~lost => NodeIds(ns, h.total)

\* whether the handle is there or the next command opens it
IndexInv ==
  disk # Absent => /\ DiskFits(engine, disk, AllNodes)
                   /\ HandleFits(engine, GetHandle, disk, AllNodes, lossy)

DescInv == DescTypes /\ IndexInv

-----------------------------------------------------------------------------
(* What the operations on an index do.                                     *)

LEMMA NotAbsent ==
  ASSUME NEW h, IsIndex(h)
  PROVE  h # Absent
<1>1. "vecs" \in DOMAIN h
  BY DEF IsIndex
<1>2. "vecs" \notin DOMAIN <<>>
  BY DEF IsIndex
<1> QED
  BY <1>1, <1>2, SMTT(60) DEF Absent

LEMMA FirstWordFacts ==
  ASSUME NEW l \in Seq(Nat)
  PROVE  FirstWord(l) \in Seq(Nat) /\ FirstWord(FirstWord(l)) = FirstWord(l)
<1>1. CASE Len(l) = 0
  <2>1. l = <<>>
    BY <1>1, EmptySeq
  <2>2. FirstWord(<<>>) = <<>>
    BY SubSeqEmpty DEF FirstWord
  <2> QED
    BY <2>1, <2>2
<1>2. CASE Len(l) > 0
  <2> DEFINE f == SubSeq(l, 1, 1)
  <2>1. f \in Seq(Nat) /\ Len(f) = 1
    BY <1>2
  <2> HIDE DEF f
  <2>2. SubSeq(f, 1, Len(f)) = f
    BY <2>1, SubSeqFull
  <2>3. SubSeq(f, 1, 1) = f
    BY <2>1, <2>2
  <2> QED
    BY <2>1, <2>3, Zenon DEF FirstWord, f
<1> QED
  BY <1>1, <1>2

LEMMA RereadFacts ==
  ASSUME NEW names \in Seq(Seq(Nat))
  PROVE  /\ Reread(names) \in Seq(Seq(Nat)) /\ Len(Reread(names)) = Len(names)
         /\ \A i \in 1..Len(names) : Reread(names)[i] = FirstWord(names[i])
<1>1. \A i \in 1..Len(names) : FirstWord(names[i]) \in Seq(Nat)
  BY FirstWordFacts
<1>2. DOMAIN names = 1..Len(names) /\ Len(names) \in Nat
  OBVIOUS
<1>3. Reread(names) = [i \in 1..Len(names) |-> FirstWord(names[i])]
  BY <1>2 DEF Reread
<1> QED
  BY <1>1, <1>2, <1>3

LEMMA OpenedFacts ==
  ASSUME NEW d, IsIndex(d)
  PROVE  /\ IsIndex(Opened(d))
         /\ Opened(d).total = (IF engine = "flinng" THEN 0 ELSE d.total)
         /\ Opened(d).names = Reread(d.names)
         /\ engine \in InMemory => Opened(d).vecs = d.vecs /\ Opened(d).lids = d.lids
         /\ engine \notin InMemory =>
              Opened(d).vecs = <<>> /\ Opened(d).lids = <<>> /\ ~ Opened(d).ready
<1>0. /\ d = [vecs |-> d.vecs, lids |-> d.lids, names |-> d.names, total |-> d.total,
              cells |-> d.cells, ready |-> d.ready, locked |-> d.locked]
      /\ d.vecs \in Seq(Vectors) /\ d.lids \in Seq(Int) /\ d.total \in Nat
      /\ Reread(d.names) \in Seq(Seq(Nat))
  BY RereadFacts DEF IsIndex
<1>3. PICK t \in Nat : t = IF engine = "flinng" THEN 0 ELSE d.total
  BY <1>0
<1>1. CASE engine \in InMemory
  <2>1. Opened(d) = [vecs |-> d.vecs, lids |-> d.lids, names |-> Reread(d.names),
                     total |-> t, cells |-> d.cells, ready |-> TRUE, locked |-> FALSE]
    <3>1. (engine \in InMemory) = TRUE
      BY <1>1
    <3>2. Opened(d) = [d EXCEPT !.names = Reread(d.names), !.ready = TRUE, !.locked = FALSE, !.total = t,
                                !.vecs = d.vecs, !.lids = d.lids]
      BY <1>1, <1>3, <3>1, Zenon DEF Opened
    <3> QED
      BY <1>0, <3>2, ZenonT(60)
  <2> QED
    BY <1>0, <1>1, <1>3, <2>1 DEF IsIndex
<1>2. CASE engine \notin InMemory
  <2>1. Opened(d) = [vecs |-> <<>>, lids |-> <<>>, names |-> Reread(d.names),
                     total |-> t, cells |-> d.cells, ready |-> FALSE, locked |-> FALSE]
    <3>1. (engine \in InMemory) = FALSE
      BY <1>2
    <3>2. Opened(d) = [d EXCEPT !.names = Reread(d.names), !.ready = FALSE, !.locked = FALSE, !.total = t,
                                !.vecs = <<>>, !.lids = <<>>]
      BY <1>2, <1>3, <3>1, Zenon DEF Opened
    <3> QED
      BY <1>0, <3>2, ZenonT(60)
  <2>2. <<>> \in Seq(Vectors) /\ <<>> \in Seq(Int)
    OBVIOUS
  <2> QED
    BY <1>0, <1>2, <1>3, <2>1, <2>2 DEF IsIndex
<1> QED
  BY <1>1, <1>2

LEMMA BufferedFacts ==
  ASSUME NEW h, IsIndex(h), IsIndex(disk)
  PROVE  /\ IsIndex(Buffered(h))
         /\ Buffered(h).names = h.names
         /\ engine # "dense" \/ h.ready => Buffered(h) = h
         /\ engine = "dense" /\ ~h.ready =>
              /\ Buffered(h).vecs = disk.vecs /\ Buffered(h).lids = disk.lids
              /\ Buffered(h).total = disk.total /\ Buffered(h).ready
<1>1. CASE engine = "dense" /\ ~h.ready
  <2>1. Buffered(h) = [vecs |-> disk.vecs, lids |-> disk.lids, names |-> h.names,
                       total |-> disk.total, cells |-> h.cells, ready |-> TRUE, locked |-> h.locked]
    BY <1>1 DEF Buffered, IsIndex
  <2> QED
    BY <1>1, <2>1 DEF IsIndex
<1>2. CASE ~ (engine = "dense" /\ ~h.ready)
  BY <1>2 DEF Buffered
<1> QED
  BY <1>1, <1>2

LEMMA StoredFacts ==
  ASSUME NEW h, IsIndex(h), IsIndex(disk)
  PROVE  /\ IsIndex(Stored(h)) /\ Stored(h).names = h.names
         /\ engine \in InMemory => Stored(h) = h
         /\ engine \notin InMemory =>
              /\ Stored(h).vecs = disk.vecs /\ Stored(h).lids = disk.lids
              /\ Stored(h).total = disk.total
<1>1. CASE engine \in InMemory
  BY <1>1 DEF Stored
<1>2. CASE engine \notin InMemory
  <2>1. Stored(h) = [vecs |-> disk.vecs, lids |-> disk.lids, names |-> h.names,
                     total |-> disk.total, cells |-> disk.cells, ready |-> disk.ready,
                     locked |-> disk.locked]
    BY <1>2 DEF Stored, IsIndex
  <2> QED
    BY <1>2, <2>1 DEF IsIndex
<1> QED
  BY <1>1, <1>2

-----------------------------------------------------------------------------
(* Growing sequences.                                                      *)

Cat(s, t) == s \o t

Grows(old, new) == Len(old) <= Len(new) /\ \A i \in 1..Len(old) : new[i] = old[i]

LEMMA CatFacts ==
  ASSUME NEW S, NEW s \in Seq(S), NEW t \in Seq(S)
  PROVE  /\ Cat(s, t) \in Seq(S) /\ Len(Cat(s, t)) = Len(s) + Len(t) /\ Grows(s, Cat(s, t))
         /\ \A i \in 1..Len(t) : Cat(s, t)[Len(s) + i] = t[i]
<1> DEFINE c == s \o t
<1>1. /\ c \in Seq(S) /\ Len(c) = Len(s) + Len(t)
      /\ \A i \in 1..Len(s) + Len(t) : c[i] = IF i <= Len(s) THEN s[i] ELSE t[i - Len(s)]
  BY ConcatProperties
<1>2. Len(s) \in Nat /\ Len(t) \in Nat
  OBVIOUS
<1> HIDE DEF c
<1>3. \A i \in 1..Len(s) : c[i] = s[i]
  BY <1>1, <1>2
<1>4. \A i \in 1..Len(t) : c[Len(s) + i] = t[i]
  <2> TAKE i \in 1..Len(t)
  <2>1. Len(s) + i \in 1..Len(s) + Len(t) /\ ~ (Len(s) + i <= Len(s)) /\ (Len(s) + i) - Len(s) = i
    BY <1>2
  <2> QED
    BY <1>1, <2>1
<1>5. Grows(s, c)
  BY <1>1, <1>2, <1>3 DEF Grows
<1> QED
  BY <1>1, <1>4, <1>5 DEF c, Cat

\* c is s with t behind it
Joined(s, t, c) ==
  /\ c \in Seq(Int) /\ Len(c) = Len(s) + Len(t) /\ Grows(s, c)
  /\ \A i \in 1..Len(t) : c[Len(s) + i] = t[i]

LEMMA CatIds ==
  ASSUME NEW s \in Seq(Int), NEW t \in Seq(Int)
  PROVE  Joined(s, t, Cat(s, t))
<1> DEFINE S == Int
<1>1. s \in Seq(S) /\ t \in Seq(S)
  OBVIOUS
<1> HIDE DEF S
<1>2. /\ Cat(s, t) \in Seq(S) /\ Len(Cat(s, t)) = Len(s) + Len(t) /\ Grows(s, Cat(s, t))
      /\ \A i \in 1..Len(t) : Cat(s, t)[Len(s) + i] = t[i]
  BY <1>1, CatFacts
<1> QED
  BY <1>2 DEF S, Joined

LEMMA GrowsTransitive ==
  ASSUME NEW S, NEW r \in Seq(S), NEW s \in Seq(S), NEW t \in Seq(S), Grows(r, s), Grows(s, t)
  PROVE  Grows(r, t)
  BY DEF Grows

LEMMA GrowsSame ==
  ASSUME NEW S, NEW s \in Seq(S)
  PROVE  Grows(s, s)
  BY DEF Grows

LEMMA LabelledFacts ==
  ASSUME NEW h, IsIndex(h), NEW label \in Seq(Nat)
  PROVE  LET l == Labelled(h, label) IN
         /\ IsIndex(l) /\ l.vecs = h.vecs /\ l.lids = h.lids /\ l.total = h.total
         /\ l.ready = h.ready /\ Grows(h.names, l.names)
         /\ label # <<>> => label \in ToSet(l.names)
<1>1. CASE label = <<>> \/ label \in ToSet(h.names)
  <2>1. Labelled(h, label) = h
    BY <1>1 DEF Labelled
  <2>2. Grows(h.names, h.names)
    BY GrowsSame DEF IsIndex
  <2> QED
    BY <1>1, <2>1, <2>2
<1>2. CASE ~ (label = <<>> \/ label \in ToSet(h.names))
  <2> DEFINE names == Append(h.names, label)
  <2>0. h.names \in Seq(Seq(Nat))
    BY DEF IsIndex
  <2>1. /\ names \in Seq(Seq(Nat)) /\ Len(names) = Len(h.names) + 1 /\ Len(h.names) \in Nat
        /\ DOMAIN names = 1..Len(names)
        /\ \A i \in 1..Len(h.names) : names[i] = h.names[i]
        /\ names[Len(h.names) + 1] = label
    BY <2>0
  <2>2. Labelled(h, label) = [h EXCEPT !.names = names]
    BY <1>2, Zenon DEF Labelled
  <2> HIDE DEF names
  <2>3. Grows(h.names, names)
    BY <2>1 DEF Grows
  <2>4. label \in ToSet(names)
    <3>1. Len(h.names) + 1 \in DOMAIN names
      BY <2>1
    <3> QED
      BY <2>1, <3>1 DEF ToSet
  <2>5. [h EXCEPT !.names = names] =
          [vecs |-> h.vecs, lids |-> h.lids, names |-> names, total |-> h.total,
           cells |-> h.cells, ready |-> h.ready, locked |-> h.locked]
    <3>1. h = [vecs |-> h.vecs, lids |-> h.lids, names |-> h.names, total |-> h.total,
               cells |-> h.cells, ready |-> h.ready, locked |-> h.locked]
      BY DEF IsIndex
    <3> QED
      BY <3>1
  <2>6. /\ IsIndex([h EXCEPT !.names = names])
        /\ [h EXCEPT !.names = names].vecs = h.vecs /\ [h EXCEPT !.names = names].lids = h.lids
        /\ [h EXCEPT !.names = names].total = h.total /\ [h EXCEPT !.names = names].ready = h.ready
        /\ [h EXCEPT !.names = names].names = names
    BY <2>1, <2>5 DEF IsIndex
  <2> QED
    BY <2>2, <2>3, <2>4, <2>6
<1> QED
  BY <1>1, <1>2

LEMMA LabelIdFacts ==
  ASSUME NEW names \in Seq(Seq(Nat)), NEW label, label \in ToSet(names)
  PROVE  LabelId(names, label) \in 0..Len(names) - 1 /\ names[LabelId(names, label) + 1] = label
<1> DEFINE i == CHOOSE i \in DOMAIN names : names[i] = label
<1>1. \E j \in DOMAIN names : names[j] = label
  BY DEF ToSet
<1>2. i \in DOMAIN names /\ names[i] = label
  BY <1>1
<1>3. LabelId(names, label) = i - 1
  BY DEF LabelId
<1> HIDE DEF i
<1>4. i \in 1..Len(names) /\ Len(names) \in Nat
  BY <1>2
<1> QED
  BY <1>2, <1>3, <1>4

LEMMA LabelIdsFacts ==
  ASSUME NEW h, IsIndex(h), NEW label, label \in ToSet(h.names), NEW n \in Nat \ {0}
  PROVE  /\ LabelIds(h, label, n) \in Seq(Int) /\ Len(LabelIds(h, label, n)) = n
         /\ LabelIds(h, label, n)[1] = LabelId(h.names, label)
<1>1. LabelId(h.names, label) \in Int
  BY LabelIdFacts DEF IsIndex
<1>2. \A i \in 1..n : (IF i = 1 THEN LabelId(h.names, label) ELSE Garbage) \in Int
  BY <1>1 DEF Garbage
<1> QED
  BY <1>2 DEF LabelIds

LEMMA WithLabelIdsFacts ==
  ASSUME NEW lids \in Seq(Int), NEW n \in Nat
  PROVE  /\ WithLabelIds(lids, n) \in Seq(Int) /\ Len(WithLabelIds(lids, n)) = n
         /\ Len(lids) <= n => Grows(lids, WithLabelIds(lids, n))
<1>1. \A i \in 1..n : (IF i <= Len(lids) THEN lids[i] ELSE 0) \in Int
  <2> TAKE i \in 1..n
  <2>1. CASE i <= Len(lids)
    <3>1. i \in 1..Len(lids)
      BY <2>1
    <3> QED
      BY <2>1, <3>1
  <2> QED
    BY <2>1
<1>2. /\ WithLabelIds(lids, n) \in Seq(Int) /\ Len(WithLabelIds(lids, n)) = n
      /\ \A i \in 1..n : WithLabelIds(lids, n)[i] = IF i <= Len(lids) THEN lids[i] ELSE 0
  BY <1>1 DEF WithLabelIds
<1> QED
  BY <1>2 DEF Grows

\* what an add makes of the vectors and the label ids, in memory or, with n ids, on disk
LEMMA AddInMemoryFacts ==
  ASSUME NEW h, IsIndex(h), NEW vs \in Seq(Vectors), Len(vs) # 0,
         NEW label, label # <<>> => label \in ToSet(h.names)
  PROVE  LET a == AddInMemory(h, vs, label) IN
         /\ IsIndex(a) /\ a.vecs = Cat(h.vecs, vs) /\ a.total = h.total + Len(vs)
         /\ a.names = h.names /\ a.ready = h.ready
         /\ Len(h.lids) <= h.total => Grows(h.lids, a.lids) /\ Len(a.lids) <= a.total
         /\ label # <<>> => /\ h.total < Len(a.lids)
                            /\ a.lids[h.total + 1] = LabelId(h.names, label)
<1>0. /\ h = [vecs |-> h.vecs, lids |-> h.lids, names |-> h.names, total |-> h.total,
              cells |-> h.cells, ready |-> h.ready, locked |-> h.locked]
      /\ h.lids \in Seq(Int)
  BY DEF IsIndex
<1>1. h.total \in Nat /\ Len(vs) \in Nat \ {0} /\ h.total + Len(vs) \in Nat
  BY DEF IsIndex
<1>2. Cat(h.vecs, vs) \in Seq(Vectors)
  BY CatFacts DEF IsIndex
<1>3. ASSUME NEW lids \in Seq(Int),
             AddInMemory(h, vs, label) =
               [h EXCEPT !.vecs = Cat(h.vecs, vs), !.total = @ + Len(vs), !.lids = lids]
      PROVE  LET a == AddInMemory(h, vs, label) IN
             /\ IsIndex(a) /\ a.vecs = Cat(h.vecs, vs) /\ a.total = h.total + Len(vs)
             /\ a.names = h.names /\ a.ready = h.ready /\ a.lids = lids
  <2>1. AddInMemory(h, vs, label) =
          [vecs |-> Cat(h.vecs, vs), lids |-> lids, names |-> h.names,
           total |-> h.total + Len(vs), cells |-> h.cells, ready |-> h.ready, locked |-> h.locked]
    BY <1>0, <1>3, ZenonT(60)
  <2> QED
    BY <1>1, <1>2, <2>1 DEF IsIndex
<1>4. CASE label = <<>>
  <2>1. AddInMemory(h, vs, label) =
          [h EXCEPT !.vecs = Cat(h.vecs, vs), !.total = @ + Len(vs), !.lids = h.lids]
    BY <1>0, <1>4 DEF AddInMemory, Cat
  <2>2. Grows(h.lids, h.lids)
    BY <1>0, GrowsSame
  <2>3. Len(h.lids) <= h.total => Len(h.lids) <= h.total + Len(vs)
    BY <1>0, <1>1
  <2> QED
    BY <1>0, <1>3, <1>4, <2>1, <2>2, <2>3
<1>5. CASE label # <<>>
  <2> DEFINE w == WithLabelIds(h.lids, h.total)
             x == LabelIds(h, label, Len(vs))
  <2>1. w \in Seq(Int) /\ Len(w) = h.total /\ (Len(h.lids) <= h.total => Grows(h.lids, w))
    BY <1>0, <1>1, WithLabelIdsFacts
  <2>2. x \in Seq(Int) /\ Len(x) = Len(vs) /\ x[1] = LabelId(h.names, label)
    BY <1>1, <1>5, LabelIdsFacts
  <2>3. AddInMemory(h, vs, label) =
          [h EXCEPT !.vecs = Cat(h.vecs, vs), !.total = @ + Len(vs), !.lids = Cat(w, x)]
    BY <1>5, Zenon DEF AddInMemory, Cat
  <2> HIDE DEF w, x
  <2>4. /\ Cat(w, x) \in Seq(Int) /\ Len(Cat(w, x)) = h.total + Len(vs) /\ Grows(w, Cat(w, x))
        /\ \A i \in 1..Len(vs) : Cat(w, x)[h.total + i] = x[i]
    <3>1. Joined(w, x, Cat(w, x))
      BY <2>1, <2>2, CatIds
    <3> QED
      BY <2>1, <2>2, <3>1 DEF Joined
  <2>5. Len(h.lids) <= h.total => Grows(h.lids, Cat(w, x))
    BY <1>0, <2>1, <2>4, GrowsTransitive
  <2>6. Cat(w, x)[h.total + 1] = LabelId(h.names, label)
    <3>1. 1 \in 1..Len(vs)
      BY <1>1
    <3> QED
      BY <2>2, <2>4, <3>1
  <2>7. h.total < h.total + Len(vs)
    BY <1>1
  <2>8. LET a == AddInMemory(h, vs, label) IN
        /\ IsIndex(a) /\ a.vecs = Cat(h.vecs, vs) /\ a.total = h.total + Len(vs)
        /\ a.names = h.names /\ a.ready = h.ready /\ a.lids = Cat(w, x)
    BY <1>3, <2>3, <2>4
  <2> QED
    BY <1>1, <2>4, <2>5, <2>6, <2>7, <2>8
<1> QED
  BY <1>4, <1>5

LEMMA OnDiskFacts ==
  ASSUME NEW h, IsIndex(h), NEW n \in Nat \ {0}, NEW label, label # <<>> => label \in ToSet(h.names)
  PROVE  /\ OnDisk(h, label, n) \in Seq(Int) /\ Len(OnDisk(h, label, n)) = n
         /\ label # <<>> => OnDisk(h, label, n)[1] = LabelId(h.names, label)
<1>1. CASE label = <<>>
  BY <1>1 DEF OnDisk, NoId
<1>2. CASE label # <<>>
  BY <1>2, LabelIdsFacts DEF OnDisk
<1> QED
  BY <1>1, <1>2

LEMMA AddDenseFacts ==
  ASSUME NEW h, IsIndex(h), IsIndex(disk), NEW vs \in Seq(Vectors), Len(vs) # 0,
         NEW label, label # <<>> => label \in ToSet(h.names), AddDense(h, vs, label)
  PROVE  /\ IsIndex(disk') /\ disk'.vecs = Cat(disk.vecs, vs) /\ disk'.total = h.total + Len(vs)
         /\ disk'.names = disk.names
         /\ Grows(disk.lids, disk'.lids) /\ Len(disk'.lids) = Len(disk.lids) + Len(vs)
         /\ label # <<>> => disk'.lids[Len(disk.lids) + 1] = LabelId(h.names, label)
         /\ h.ready => handle' = AddInMemory(h, vs, label)
         /\ ~h.ready => /\ IsIndex(handle') /\ handle'.total = h.total + Len(vs)
                        /\ handle'.names = h.names /\ ~handle'.ready
<1> DEFINE x == OnDisk(h, label, Len(vs))
<1>1. Len(vs) \in Nat \ {0} /\ h.total + Len(vs) \in Nat
  BY SMTT(60) DEF IsIndex
<1>2. x \in Seq(Int) /\ Len(x) = Len(vs) /\ (label # <<>> => x[1] = LabelId(h.names, label))
  BY <1>1, OnDiskFacts
<1>3. disk' = [disk EXCEPT !.vecs = Cat(disk.vecs, vs), !.lids = Cat(disk.lids, x),
                           !.total = h.total + Len(vs)]
  <2>1. disk = [vecs |-> disk.vecs, lids |-> disk.lids, names |-> disk.names, total |-> disk.total,
                cells |-> disk.cells, ready |-> disk.ready, locked |-> disk.locked]
    BY DEF IsIndex
  <2>2. disk' = [disk EXCEPT !.vecs = @ \o vs, !.lids = @ \o x, !.total = h.total + Len(vs)]
    BY Zenon DEF AddDense
  <2> QED
    BY <2>1, <2>2 DEF Cat
<1> HIDE DEF x
<1>4. Cat(disk.vecs, vs) \in Seq(Vectors)
  BY CatFacts DEF IsIndex
<1>5. /\ Cat(disk.lids, x) \in Seq(Int) /\ Len(Cat(disk.lids, x)) = Len(disk.lids) + Len(vs)
      /\ Grows(disk.lids, Cat(disk.lids, x))
      /\ \A i \in 1..Len(vs) : Cat(disk.lids, x)[Len(disk.lids) + i] = x[i]
  <2>1. disk.lids \in Seq(Int)
    BY DEF IsIndex
  <2>2. Joined(disk.lids, x, Cat(disk.lids, x))
    BY <1>2, <2>1, CatIds
  <2> QED
    BY <1>2, <2>1, <2>2 DEF Joined
<1>6. label # <<>> => Cat(disk.lids, x)[Len(disk.lids) + 1] = LabelId(h.names, label)
  <2>1. 1 \in 1..Len(vs)
    BY <1>1
  <2> QED
    BY <1>2, <1>5, <2>1
<1>7. disk' = [vecs |-> Cat(disk.vecs, vs), lids |-> Cat(disk.lids, x), names |-> disk.names,
               total |-> h.total + Len(vs), cells |-> disk.cells, ready |-> disk.ready,
               locked |-> disk.locked]
  <2>1. disk = [vecs |-> disk.vecs, lids |-> disk.lids, names |-> disk.names, total |-> disk.total,
                cells |-> disk.cells, ready |-> disk.ready, locked |-> disk.locked]
    BY DEF IsIndex
  <2> QED
    BY <1>3, <2>1
<1>8. /\ IsIndex(disk') /\ disk'.vecs = Cat(disk.vecs, vs) /\ disk'.total = h.total + Len(vs)
      /\ disk'.names = disk.names /\ disk'.lids = Cat(disk.lids, x)
  <2>1. disk.names \in Seq(Seq(Nat)) /\ disk.ready \in BOOLEAN
    BY DEF IsIndex
  <2> QED
    BY <1>1, <1>4, <1>5, <1>7, <2>1 DEF IsIndex
<1>9. h.ready => handle' = AddInMemory(h, vs, label)
  BY DEF AddDense
<1>10. ASSUME ~h.ready
       PROVE  /\ IsIndex(handle') /\ handle'.total = h.total + Len(vs)
              /\ handle'.names = h.names /\ ~handle'.ready
  <2>1. handle' = [h EXCEPT !.total = @ + Len(vs)]
    BY <1>10 DEF AddDense
  <2>2. handle' = [vecs |-> h.vecs, lids |-> h.lids, names |-> h.names, total |-> h.total + Len(vs),
                   cells |-> h.cells, ready |-> h.ready, locked |-> h.locked]
    BY <2>1 DEF IsIndex
  <2>3. h.vecs \in Seq(Vectors) /\ h.lids \in Seq(Int) /\ h.names \in Seq(Seq(Nat)) /\ h.ready \in BOOLEAN
    BY DEF IsIndex
  <2> QED
    BY <1>1, <1>10, <2>2, <2>3 DEF IsIndex
<1> QED
  BY <1>5, <1>6, <1>8, <1>9, <1>10

-----------------------------------------------------------------------------
(* What fits the nodes keeps fitting: longer sequences, fewer nodes, labels *)
(* read back from disk.                                                     *)

LEMMA LabelsGrow ==
  ASSUME NEW ns, ns \subseteq Node, NEW lids \in Seq(Int), NEW lids2 \in Seq(Int),
         NEW names \in Seq(Seq(Nat)), NEW names2 \in Seq(Seq(Nat)),
         Grows(lids, lids2), Grows(names, names2), LabelsFit(ns, lids, names)
  PROVE  LabelsFit(ns, lids2, names2)
<1> SUFFICES ASSUME NEW n \in ns, n.first /\ n.label # <<>>
             PROVE  /\ n.id < Len(lids2)
                    /\ lids2[n.id + 1] \in 0..Len(names2) - 1
                    /\ FirstWord(names2[lids2[n.id + 1] + 1]) = FirstWord(n.label)
  BY Zenon DEF LabelsFit
<1>1. /\ n.id < Len(lids) /\ lids[n.id + 1] \in 0..Len(names) - 1
      /\ FirstWord(names[lids[n.id + 1] + 1]) = FirstWord(n.label)
  BY DEF LabelsFit
<1>2. n.id \in Nat
  BY DEF Node
<1>3. PICK k : k = lids[n.id + 1]
  OBVIOUS
<1>4. Len(lids) \in Nat /\ Len(lids2) \in Nat /\ Len(names) \in Nat /\ Len(names2) \in Nat
  OBVIOUS
<1>5. Len(lids) <= Len(lids2) /\ Len(names) <= Len(names2)
  BY DEF Grows
<1>6. n.id + 1 \in 1..Len(lids) /\ n.id < Len(lids2)
  <2>1. n.id < Len(lids)
    BY <1>1
  <2> QED
    BY <1>2, <1>4, <1>5, <2>1, SMTT(60)
<1>7. lids2[n.id + 1] = k
  BY <1>3, <1>6 DEF Grows
<1>8. k \in 0..Len(names) - 1
  BY <1>1, <1>3
<1>9. k + 1 \in 1..Len(names) /\ k \in 0..Len(names2) - 1
  BY <1>4, <1>5, <1>8
<1>10. names2[k + 1] = names[k + 1]
  BY <1>9 DEF Grows
<1> QED
  BY <1>1, <1>3, <1>6, <1>7, <1>9, <1>10

LEMMA LabelsReread ==
  ASSUME NEW ns, NEW lids, NEW names \in Seq(Seq(Nat)), LabelsFit(ns, lids, names)
  PROVE  LabelsFit(ns, lids, Reread(names))
<1> SUFFICES ASSUME NEW n \in ns, n.first /\ n.label # <<>>
             PROVE  /\ n.id < Len(lids)
                    /\ lids[n.id + 1] \in 0..Len(Reread(names)) - 1
                    /\ FirstWord(Reread(names)[lids[n.id + 1] + 1]) = FirstWord(n.label)
  BY Zenon DEF LabelsFit
<1>1. /\ n.id < Len(lids) /\ lids[n.id + 1] \in 0..Len(names) - 1
      /\ FirstWord(names[lids[n.id + 1] + 1]) = FirstWord(n.label)
  BY DEF LabelsFit
<1>2. PICK k : k = lids[n.id + 1]
  OBVIOUS
<1>3. k + 1 \in 1..Len(names) /\ k \in 0..Len(names) - 1
  BY <1>1, <1>2, SMTT(60)
<1>4. Len(Reread(names)) = Len(names) /\ Reread(names)[k + 1] = FirstWord(names[k + 1])
  BY <1>3, RereadFacts
<1>5. FirstWord(FirstWord(names[k + 1])) = FirstWord(names[k + 1])
  BY <1>3, FirstWordFacts
<1> QED
  BY <1>1, <1>2, <1>3, <1>4, <1>5

LEMMA VecsGrow ==
  ASSUME NEW ns, ns \subseteq Node, NEW vecs \in Seq(Vectors), NEW vecs2 \in Seq(Vectors),
         Grows(vecs, vecs2), NodeIds(ns, Len(vecs)), VecsFit(ns, vecs)
  PROVE  VecsFit(ns, vecs2)
<1> SUFFICES ASSUME NEW n \in ns
             PROVE  vecs2[n.id + 1] = n.vec
  BY Zenon DEF VecsFit
<1>1. n.id \in Nat /\ n.id < Len(vecs)
  BY DEF Node, NodeIds
<1>2. n.id + 1 \in 1..Len(vecs)
  BY <1>1
<1> QED
  BY <1>2 DEF Grows, VecsFit

\* with fewer nodes everything fits still
LEMMA FewerNodes ==
  ASSUME NEW e, NEW d, NEW h, NEW ns, NEW ns2, ns2 \subseteq ns, NEW lost,
         DiskFits(e, d, ns), HandleFits(e, h, d, ns, lost)
  PROVE  DiskFits(e, d, ns2) /\ HandleFits(e, h, d, ns2, lost)
<1>1. \A total : NodeIds(ns, total) => NodeIds(ns2, total)
  BY DEF NodeIds
<1>2. \A vecs : VecsFit(ns, vecs) => VecsFit(ns2, vecs)
  BY DEF VecsFit
<1>3. \A lids, names : LabelsFit(ns, lids, names) => LabelsFit(ns2, lids, names)
  BY Zenon DEF LabelsFit
<1> QED
  BY <1>1, <1>2, <1>3, Zenon DEF DiskFits, HandleFits

-----------------------------------------------------------------------------
(* The nodes of a batch.                                                    *)

\* the first of the batch ns has this id and label
Led(ns, id, label) == \A n \in ns : n.first => n.id = id /\ n.label = label

LEMMA NewNodesFacts ==
  ASSUME NEW ns, ns \subseteq Node, NEW h, h.total \in Nat, NEW vs \in Seq(Vectors),
         NEW label \in Labels
  PROVE  /\ NewNodes(h, vs, label) \subseteq Node
         /\ NodeIds(ns, h.total) => NodeIds(ns \cup NewNodes(h, vs, label), h.total + Len(vs))
         /\ Led(NewNodes(h, vs, label), h.total, label)
<1> DEFINE new == NewNodes(h, vs, label)
<1>1. \A i \in DOMAIN vs : i \in 1..Len(vs) /\ vs[i] \in Vectors /\ Len(vs) \in Nat
  OBVIOUS
<1>2. \A n \in new : \E i \in DOMAIN vs :
        n = [id |-> h.total + i - 1, label |-> label, vec |-> vs[i], first |-> i = 1]
  BY DEF NewNodes
<1>3. \A n \in new : \E i \in 1..Len(vs) :
        /\ n = [id |-> h.total + i - 1, label |-> label, vec |-> vs[i], first |-> i = 1]
        /\ n.id = h.total + i - 1 /\ n.first = (i = 1) /\ n.label = label /\ n \in Node
  <2> TAKE n \in new
  <2>1. PICK i \in DOMAIN vs :
          n = [id |-> h.total + i - 1, label |-> label, vec |-> vs[i], first |-> i = 1]
    BY <1>2
  <2>2. h.total + i - 1 \in Nat /\ (i = 1) \in BOOLEAN /\ vs[i] \in Vectors /\ i \in 1..Len(vs)
    BY <1>1
  <2> QED
    BY <2>1, <2>2 DEF Node
<1>4. \A n \in new : n \in Node
  BY <1>3
<1>5. ASSUME NEW n \in new, n.first
      PROVE  n.id = h.total /\ n.label = label
  <2>1. PICK i \in 1..Len(vs) :
          n.id = h.total + i - 1 /\ n.first = (i = 1) /\ n.label = label
    BY <1>3
  <2>2. i = 1
    BY <1>5, <2>1, Zenon
  <2> QED
    BY <2>1, <2>2
<1> HIDE DEF new
<1>6. ASSUME NodeIds(ns, h.total)
      PROVE  NodeIds(ns \cup new, h.total + Len(vs))
  <2>1. \A n \in ns : n.id \in Nat /\ n.id < h.total
    BY <1>6 DEF NodeIds, Node
  <2>2. \A n \in new : n.id \in Nat /\ h.total <= n.id /\ n.id < h.total + Len(vs)
    BY <1>1, <1>3
  <2>3. \A n \in ns \cup new : n.id < h.total + Len(vs)
    BY <2>1, <2>2
  <2>4. \A n \in new, m \in new : m.id = n.id => m = n
    <3> TAKE n \in new, m \in new
    <3> HAVE m.id = n.id
    <3>1. PICK i \in 1..Len(vs) : 
            /\ n = [id |-> h.total + i - 1, label |-> label, vec |-> vs[i], first |-> i = 1]
            /\ n.id = h.total + i - 1
      BY <1>3
    <3>2. PICK j \in 1..Len(vs) : 
            /\ m = [id |-> h.total + j - 1, label |-> label, vec |-> vs[j], first |-> j = 1]
            /\ m.id = h.total + j - 1
      BY <1>3
    <3>3. i = j
      BY <3>1, <3>2
    <3> QED
      BY <3>1, <3>2, <3>3
  <2>5. \A n \in ns, m \in ns : m.id = n.id => m = n
    BY <1>6 DEF NodeIds
  <2>6. \A n \in ns, m \in new : m.id # n.id
    BY <2>1, <2>2
  <2>7. \A n \in ns \cup new, m \in ns \cup new : m.id = n.id => m = n
    BY <2>4, <2>5, <2>6
  <2> QED
    BY <2>3, <2>7 DEF NodeIds
<1>7. Led(new, h.total, label)
  BY <1>5, Zenon DEF Led
<1> QED
  BY <1>4, <1>6, <1>7 DEF new

LEMMA NewVecsFit ==
  ASSUME NEW ns, ns \subseteq Node, NEW h, h.total \in Nat, NEW vs \in Seq(Vectors), NEW label,
         NEW vecs \in Seq(Vectors), Len(vecs) = h.total, NodeIds(ns, h.total), VecsFit(ns, vecs)
  PROVE  VecsFit(ns \cup NewNodes(h, vs, label), Cat(vecs, vs))
<1>1. /\ Cat(vecs, vs) \in Seq(Vectors) /\ Grows(vecs, Cat(vecs, vs))
      /\ \A i \in 1..Len(vs) : Cat(vecs, vs)[Len(vecs) + i] = vs[i]
  BY CatFacts, ZenonT(60)
<1>2. NodeIds(ns, Len(vecs))
  OBVIOUS
<1>3. VecsFit(ns, Cat(vecs, vs))
  BY <1>1, <1>2, VecsGrow
<1>4. ASSUME NEW n \in NewNodes(h, vs, label)
      PROVE  Cat(vecs, vs)[n.id + 1] = n.vec
  <2>1. PICK i \in DOMAIN vs : n.id = h.total + i - 1 /\ n.vec = vs[i]
    BY <1>4 DEF NewNodes
  <2>2. i \in 1..Len(vs) /\ n.id + 1 = Len(vecs) + i
    BY <2>1
  <2> QED
    BY <1>1, <2>1, <2>2
<1> QED
  BY <1>3, <1>4 DEF VecsFit

LEMMA NewLabelsFit ==
  ASSUME NEW ns, ns \subseteq Node, NEW h, h.total \in Nat, NEW vs \in Seq(Vectors),
         NEW label \in Labels, NEW lids \in Seq(Int), NEW names \in Seq(Seq(Nat)),
         LabelsFit(ns, lids, names),
         label # <<>> => /\ label \in ToSet(names) /\ h.total < Len(lids)
                         /\ lids[h.total + 1] = LabelId(names, label)
  PROVE  LabelsFit(ns \cup NewNodes(h, vs, label), lids, names)
<1> SUFFICES ASSUME NEW n \in ns \cup NewNodes(h, vs, label), n.first /\ n.label # <<>>
             PROVE  /\ n.id < Len(lids)
                    /\ lids[n.id + 1] \in 0..Len(names) - 1
                    /\ FirstWord(names[lids[n.id + 1] + 1]) = FirstWord(n.label)
  BY Zenon DEF LabelsFit
<1>1. CASE n \in ns
  BY <1>1 DEF LabelsFit
<1>2. CASE n \in NewNodes(h, vs, label)
  <2>1. n.id = h.total /\ n.label = label
    <3>1. Led(NewNodes(h, vs, label), h.total, label)
      BY NewNodesFacts
    <3> QED
      BY <1>2, <3>1, Zenon DEF Led
  <2>2. label \in ToSet(names) /\ h.total < Len(lids) /\ lids[h.total + 1] = LabelId(names, label)
    BY <2>1
  <2>3. LabelId(names, label) \in 0..Len(names) - 1 /\ names[LabelId(names, label) + 1] = label
    BY <2>2, LabelIdFacts
  <2> QED
    BY <2>1, <2>2, <2>3
<1> QED
  BY <1>1, <1>2

-----------------------------------------------------------------------------
(* What fits an index fits it after each operation.                         *)

\* what a d that is stored must keep to be opened again
Kept(e, d, ns, lost) ==
  ~lost =>
    /\ e \in InMemory => /\ d.total = Len(d.vecs) /\ Len(d.lids) <= d.total
                         /\ NodeIds(ns, d.total) /\ VecsFit(ns, d.vecs)
    /\ e = "flinng" => d.total = 0
    /\ e # "sparse" => LabelsFit(ns, d.lids, d.names)
    /\ e = "sparse" => NodeIds(ns, d.total)

LEMMA EnginesDiffer ==
  /\ "dense" \notin InMemory /\ "sparse" \notin InMemory
  /\ "dense" # "flinng" /\ "sparse" # "flinng" /\ "flinng" \in InMemory
  BY DEF InMemory, Faiss

\* an index that is given up is lost for the engines that forget
Gone(e, lost) == lost \/ e \in Forgetful

LEMMA OpenedFits ==
  ASSUME NEW d, NEW ns, NEW lost, DiskFits(engine, d, ns), Kept(engine, d, ns, lost)
  PROVE  HandleFits(engine, Opened(d), d, ns, lost)
<1> DEFINE o == Opened(d)
<1>0. IsIndex(d) /\ d.names \in Seq(Seq(Nat))
  BY DEF DiskFits, IsIndex
<1>1. /\ IsIndex(o) /\ o.names = Reread(d.names)
      /\ o.total = IF engine = "flinng" THEN 0 ELSE d.total
      /\ engine \in InMemory => o.vecs = d.vecs /\ o.lids = d.lids
      /\ engine \notin InMemory => ~ o.ready
  BY <1>0, OpenedFacts
<1>2. LabelsFit(ns, d.lids, d.names) => LabelsFit(ns, d.lids, o.names)
  BY <1>0, <1>1, LabelsReread
<1> HIDE DEF o
<1>3. engine \in InMemory /\ ~lost =>
       /\ o.total = Len(o.vecs) /\ Len(o.lids) <= o.total
       /\ NodeIds(ns, o.total) /\ VecsFit(ns, o.vecs) /\ LabelsFit(ns, o.lids, o.names)
  <2> SUFFICES ASSUME engine \in InMemory, ~lost
               PROVE  /\ o.total = Len(o.vecs) /\ Len(o.lids) <= o.total
                      /\ NodeIds(ns, o.total) /\ VecsFit(ns, o.vecs)
                      /\ LabelsFit(ns, o.lids, o.names)
    OBVIOUS
  <2>1. o.total = d.total
    BY <1>1, Zenon DEF Kept
  <2> QED
    BY <1>1, <1>2, <2>1, EnginesDiffer, Zenon DEF Kept
<1>4. engine = "dense" =>
       /\ o.total = d.total /\ ~o.ready
       /\ ~lost => LabelsFit(ns, d.lids, o.names)
  <2>1. engine = "dense" => engine \notin InMemory /\ engine # "sparse" /\ engine # "flinng"
    BY EnginesDiffer
  <2> QED
    BY <1>1, <1>2, <2>1, Zenon DEF DiskFits, Kept
<1>5. engine = "sparse" /\ ~lost => NodeIds(ns, o.total)
  BY <1>1, EnginesDiffer, Zenon DEF Kept
<1> QED
  BY <1>1, <1>3, <1>4, <1>5, Zenon DEF HandleFits, o

LEMMA LabelledFits ==
  ASSUME NEW ns, ns \subseteq Node, NEW h, NEW d, IsIndex(d), NEW lost, HandleFits(engine, h, d, ns, lost),
         NEW label \in Seq(Nat)
  PROVE  /\ HandleFits(engine, Labelled(h, label), d, ns, lost)
         /\ label # <<>> => label \in ToSet(Labelled(h, label).names)
<1>0. PICK l : l = Labelled(h, label)
  OBVIOUS
<1>1. /\ IsIndex(l) /\ l.vecs = h.vecs /\ l.lids = h.lids /\ l.total = h.total
      /\ l.ready = h.ready /\ Grows(h.names, l.names)
      /\ label # <<>> => label \in ToSet(l.names)
  BY <1>0, LabelledFacts DEF HandleFits
<1>2. /\ h.lids \in Seq(Int) /\ d.lids \in Seq(Int) /\ h.names \in Seq(Seq(Nat))
      /\ l.names \in Seq(Seq(Nat))
  BY <1>1 DEF HandleFits, IsIndex
<1>3. LabelsFit(ns, h.lids, h.names) => LabelsFit(ns, h.lids, l.names)
  <2>1. Grows(h.lids, h.lids)
    BY <1>2, GrowsSame
  <2> QED
    BY <1>1, <1>2, <2>1, LabelsGrow
<1>4. LabelsFit(ns, d.lids, h.names) => LabelsFit(ns, d.lids, l.names)
  <2>1. Grows(d.lids, d.lids)
    BY <1>2, GrowsSame
  <2> QED
    BY <1>1, <1>2, <2>1, LabelsGrow
<1>5. HandleFits(engine, l, d, ns, lost)
  BY <1>1, <1>3, <1>4, Zenon DEF HandleFits
<1> QED
  BY <1>0, <1>1, <1>5

LEMMA BufferedFits ==
  ASSUME NEW ns, NEW h, NEW d, NEW lost, HandleFits(engine, h, d, ns, lost), IsIndex(disk),
         engine = "dense" =>
           /\ d.vecs = disk.vecs /\ d.lids = disk.lids /\ d.total = disk.total
           /\ Len(d.lids) <= d.total
  PROVE  HandleFits(engine, Buffered(h), d, ns, lost)
<1>1. CASE engine = "dense" /\ ~h.ready
  <2>0. PICK b : b = Buffered(h)
    OBVIOUS
  <2>1. /\ IsIndex(b) /\ b.names = h.names /\ b.lids = disk.lids /\ b.total = disk.total /\ b.ready
    BY <1>1, <2>0, BufferedFacts DEF HandleFits
  <2>2. engine \notin InMemory /\ engine # "sparse"
    BY <1>1, EnginesDiffer
  <2>3. Len(b.lids) <= b.total
    BY <1>1, <2>1
  <2> QED
    BY <1>1, <2>0, <2>1, <2>2, <2>3, Zenon DEF HandleFits
<1>2. CASE ~ (engine = "dense" /\ ~h.ready)
  BY <1>2, Zenon DEF Buffered
<1> QED
  BY <1>1, <1>2

LEMMA StoredFits ==
  ASSUME NEW ns, NEW h, NEW lost, DiskFits(engine, disk, ns), HandleFits(engine, h, disk, ns, lost),
         engine \in InMemory \cup {"dense", "sparse"}
  PROVE  /\ DiskFits(engine, Stored(h), ns)
         /\ HandleFits(engine, h, Stored(h), ns, lost)
         /\ Kept(engine, Stored(h), ns, Gone(engine, lost))
         /\ engine = "dense" => /\ Stored(h).vecs = disk.vecs /\ Stored(h).lids = disk.lids
                                /\ Stored(h).total = disk.total /\ Len(disk.lids) <= disk.total
<1>0. PICK s : s = Stored(h)
  OBVIOUS
<1>1. /\ IsIndex(s) /\ s.names = h.names /\ IsIndex(disk) /\ IsIndex(h)
      /\ engine \in InMemory => s = h
      /\ engine \notin InMemory => s.vecs = disk.vecs /\ s.lids = disk.lids /\ s.total = disk.total
  BY <1>0, StoredFacts DEF DiskFits, HandleFits
<1>2. CASE engine \in InMemory
  <2>1. engine # "dense" /\ engine # "sparse"
    BY <1>2, EnginesDiffer
  <2>2. ~ Gone(engine, lost) => ~lost /\ engine # "flinng"
    BY DEF Gone, Forgetful
  <2>3. Kept(engine, s, ns, Gone(engine, lost))
    BY <1>1, <1>2, <2>1, <2>2, Zenon DEF HandleFits, Kept
  <2> QED
    BY <1>0, <1>1, <1>2, <2>1, <2>3, Zenon DEF DiskFits, HandleFits
<1>3. CASE engine \notin InMemory
  <2>1. Len(disk.lids) = disk.total => Len(disk.lids) <= disk.total
    BY <1>1 DEF IsIndex
  <2>2. DiskFits(engine, s, ns)
    BY <1>1, <1>3, Zenon DEF DiskFits
  <2>3. HandleFits(engine, h, s, ns, lost)
    BY <1>1, <1>3, Zenon DEF HandleFits
  <2>4. Kept(engine, s, ns, Gone(engine, lost))
    <3>1. engine # "flinng"
      BY <1>3, EnginesDiffer
    <3>2. ~lost /\ engine = "dense" => LabelsFit(ns, s.lids, s.names)
      BY <1>1, <1>3, Zenon DEF HandleFits
    <3>3. engine # "sparse" => engine = "dense"
      BY <1>3
    <3>4. ~ Gone(engine, lost) => ~lost /\ engine # "sparse"
      BY DEF Gone, Forgetful
    <3> QED
      BY <1>3, <3>1, <3>2, <3>3, <3>4, Zenon DEF Kept
  <2> QED
    BY <1>0, <1>1, <1>3, <2>1, <2>2, <2>3, <2>4, Zenon DEF DiskFits
<1> QED
  BY <1>2, <1>3

LEMMA LockedFits ==
  ASSUME NEW ns, NEW h, NEW d, NEW lost, NEW b, HandleFits(engine, h, d, ns, lost)
  PROVE  HandleFits(engine, [h EXCEPT !.locked = b], d, ns, lost)
<1>0. PICK l : l = [h EXCEPT !.locked = b]
  OBVIOUS
<1>1. /\ IsIndex(h)
      /\ h = [vecs |-> h.vecs, lids |-> h.lids, names |-> h.names, total |-> h.total,
              cells |-> h.cells, ready |-> h.ready, locked |-> h.locked]
  BY DEF HandleFits, IsIndex
<1>2. l = [vecs |-> h.vecs, lids |-> h.lids, names |-> h.names, total |-> h.total,
           cells |-> h.cells, ready |-> h.ready, locked |-> b]
  BY <1>0, <1>1
<1>3. /\ IsIndex(l) /\ l.vecs = h.vecs /\ l.lids = h.lids /\ l.names = h.names
      /\ l.total = h.total /\ l.ready = h.ready
  BY <1>1, <1>2 DEF IsIndex
<1>4. HandleFits(engine, l, d, ns, lost)
  BY <1>3, Zenon DEF HandleFits
<1> QED
  BY <1>0, <1>4

-----------------------------------------------------------------------------
(* Adding a batch.                                                          *)

LEMMA AddFitsInMemory ==
  ASSUME engine \in InMemory, NEW ns, ns \subseteq Node, NEW d, NEW h, NEW lost,
         HandleFits(engine, h, d, ns, lost), NEW vs \in Seq(Vectors), Len(vs) # 0,
         NEW label \in Labels, label # <<>> => label \in ToSet(h.names)
  PROVE  HandleFits(engine, AddInMemory(h, vs, label), d, ns \cup NewNodes(h, vs, label), lost)
<1> DEFINE new == NewNodes(h, vs, label)
<1>0. PICK a : a = AddInMemory(h, vs, label)
  OBVIOUS
<1>1. /\ IsIndex(h)
      /\ ~lost => /\ h.total = Len(h.vecs) /\ Len(h.lids) <= h.total
                  /\ NodeIds(ns, h.total) /\ VecsFit(ns, h.vecs) /\ LabelsFit(ns, h.lids, h.names)
  BY Zenon DEF HandleFits
<1>2. /\ h.vecs \in Seq(Vectors) /\ h.lids \in Seq(Int) /\ h.names \in Seq(Seq(Nat)) /\ h.total \in Nat
  BY <1>1 DEF IsIndex
<1>3. /\ IsIndex(a) /\ a.vecs = Cat(h.vecs, vs) /\ a.total = h.total + Len(vs)
      /\ a.names = h.names /\ a.ready = h.ready
      /\ ~lost => Grows(h.lids, a.lids) /\ Len(a.lids) <= a.total
      /\ label # <<>> => /\ h.total < Len(a.lids)
                         /\ a.lids[h.total + 1] = LabelId(h.names, label)
  BY <1>0, <1>1, AddInMemoryFacts
<1>4. ~lost => a.total = Len(a.vecs)
  <2>1. Len(Cat(h.vecs, vs)) = Len(h.vecs) + Len(vs)
    BY <1>2, CatFacts
  <2> QED
    BY <1>1, <1>3, <2>1
<1>5. ASSUME ~lost
      PROVE  /\ NodeIds(ns \cup new, a.total) /\ VecsFit(ns \cup new, a.vecs)
             /\ LabelsFit(ns \cup new, a.lids, a.names)
  <2>1. NodeIds(ns \cup new, h.total + Len(vs))
    BY <1>1, <1>2, <1>5, NewNodesFacts
  <2>2. VecsFit(ns \cup new, Cat(h.vecs, vs))
    BY <1>1, <1>2, <1>5, NewVecsFit
  <2>3. a.lids \in Seq(Int) /\ Grows(h.names, h.names)
    BY <1>2, <1>3, GrowsSame DEF IsIndex
  <2>4. LabelsFit(ns, a.lids, h.names)
    BY <1>1, <1>2, <1>3, <1>5, <2>3, LabelsGrow
  <2>5. LabelsFit(ns \cup new, a.lids, h.names)
    BY <1>2, <1>3, <2>3, <2>4, NewLabelsFit
  <2> QED
    BY <1>3, <2>1, <2>2, <2>5
<1>6. engine # "dense" /\ engine # "sparse"
  BY EnginesDiffer
<1> QED
  BY <1>0, <1>3, <1>4, <1>5, <1>6, Zenon DEF HandleFits

LEMMA AddFitsDense ==
  ASSUME engine = "dense", NEW ns, ns \subseteq Node, NEW h, NEW lost,
         DiskFits(engine, disk, ns), HandleFits(engine, h, disk, ns, lost),
         NEW vs \in Seq(Vectors), Len(vs) # 0,
         NEW label \in Labels, label # <<>> => label \in ToSet(h.names),
         AddDense(h, vs, label)
  PROVE  /\ DiskFits(engine, disk', ns \cup NewNodes(h, vs, label))
         /\ HandleFits(engine, handle', disk', ns \cup NewNodes(h, vs, label), lost)
<1> DEFINE new == NewNodes(h, vs, label)
<1>0. PICK d, a : d = disk' /\ a = handle'
  OBVIOUS
<1>1. /\ IsIndex(h) /\ IsIndex(disk)
      /\ ~lost => /\ LabelsFit(ns, disk.lids, h.names)
                  /\ h.ready => LabelsFit(ns, h.lids, h.names)
      /\ disk.total = Len(disk.vecs) /\ Len(disk.lids) = disk.total
      /\ NodeIds(ns, disk.total) /\ VecsFit(ns, disk.vecs)
  BY Zenon DEF HandleFits, DiskFits
<1>2. /\ h.lids \in Seq(Int) /\ h.names \in Seq(Seq(Nat)) /\ h.total \in Nat /\ h.ready \in BOOLEAN
      /\ disk.vecs \in Seq(Vectors) /\ disk.lids \in Seq(Int) /\ disk.total \in Nat
  BY <1>1 DEF IsIndex
<1>3. /\ IsIndex(d) /\ d.vecs = Cat(disk.vecs, vs) /\ d.total = h.total + Len(vs)
      /\ Grows(disk.lids, d.lids) /\ Len(d.lids) = Len(disk.lids) + Len(vs)
      /\ label # <<>> => d.lids[Len(disk.lids) + 1] = LabelId(h.names, label)
      /\ h.ready => a = AddInMemory(h, vs, label)
      /\ ~h.ready => /\ IsIndex(a) /\ a.total = h.total + Len(vs)
                     /\ a.names = h.names /\ ~a.ready
  BY <1>0, <1>1, AddDenseFacts
<1>4. h.total = disk.total /\ (h.ready => Len(h.lids) <= h.total)
  BY <1>1, Zenon DEF HandleFits
<1>5. NodeIds(ns \cup new, h.total + Len(vs))
  BY <1>1, <1>2, <1>4, NewNodesFacts
<1>6. VecsFit(ns \cup new, Cat(disk.vecs, vs))
  BY <1>1, <1>2, <1>4, NewVecsFit
<1>7. d.total = Len(d.vecs) /\ Len(d.lids) = d.total /\ d.lids \in Seq(Int)
  <2>1. Len(Cat(disk.vecs, vs)) = Len(disk.vecs) + Len(vs)
    BY <1>2, CatFacts
  <2> QED
    BY <1>1, <1>3, <1>4, <2>1 DEF IsIndex
<1>8. DiskFits(engine, d, ns \cup new)
  <2>1. engine \notin InMemory
    BY EnginesDiffer
  <2>2. NodeIds(ns \cup new, d.total) /\ VecsFit(ns \cup new, d.vecs)
    BY <1>3, <1>5, <1>6
  <2> QED
    BY <1>3, <1>7, <2>1, <2>2, Zenon DEF DiskFits
<1>9. /\ IsIndex(a) /\ a.names = h.names /\ a.total = h.total + Len(vs)
      /\ a.ready => /\ h.ready /\ Grows(h.lids, a.lids) /\ Len(a.lids) <= a.total
                    /\ label # <<>> => /\ h.total < Len(a.lids)
                                       /\ a.lids[h.total + 1] = LabelId(h.names, label)
  <2>1. CASE h.ready
    BY <1>1, <1>3, <1>4, <2>1, AddInMemoryFacts, SMTT(60)
  <2>2. CASE ~h.ready
    BY <1>3, <2>2, Zenon
  <2> QED
    BY <2>1, <2>2
<1>10. ASSUME ~lost
       PROVE  /\ LabelsFit(ns \cup new, d.lids, h.names)
              /\ a.ready => LabelsFit(ns \cup new, a.lids, h.names)
  <2>0. Grows(h.names, h.names)
    BY <1>2, GrowsSame
  <2>1. label # <<>> => label \in ToSet(h.names) /\ h.total < Len(d.lids)
                         /\ d.lids[h.total + 1] = LabelId(h.names, label)
    <3>1. h.total < Len(d.lids)
      BY <1>1, <1>2, <1>3, <1>4
    <3>2. label # <<>> => d.lids[h.total + 1] = LabelId(h.names, label)
      BY <1>1, <1>3, <1>4
    <3> QED
      BY <3>1, <3>2
  <2>2. LabelsFit(ns, d.lids, h.names)
    BY <1>1, <1>2, <1>3, <1>7, <1>10, <2>0, LabelsGrow
  <2>3. LabelsFit(ns \cup new, d.lids, h.names)
    BY <1>2, <1>7, <2>1, <2>2, NewLabelsFit
  <2>4. ASSUME a.ready
        PROVE  LabelsFit(ns \cup new, a.lids, h.names)
    <3>1. a.lids \in Seq(Int)
      BY <1>9 DEF IsIndex
    <3>2. LabelsFit(ns, h.lids, h.names)
      BY <1>9, <1>10, <2>4, Zenon DEF HandleFits
    <3>3. LabelsFit(ns, a.lids, h.names)
      BY <1>2, <1>9, <2>0, <2>4, <3>1, <3>2, LabelsGrow
    <3> QED
      BY <1>2, <1>9, <2>4, <3>1, <3>3, NewLabelsFit, ZenonT(60)
  <2> QED
    BY <2>3, <2>4
<1>11. HandleFits(engine, a, d, ns \cup new, lost)
  <2>1. engine \notin InMemory /\ engine # "sparse"
    BY EnginesDiffer
  <2>2. a.total = d.total
    BY <1>3, <1>9
  <2> QED
    BY <1>9, <1>10, <2>1, <2>2, Zenon DEF HandleFits
<1> QED
  BY <1>0, <1>8, <1>11

LEMMA AddFitsSparse ==
  ASSUME engine = "sparse", NEW ns, ns \subseteq Node, NEW h, NEW lost,
         DiskFits(engine, disk, ns), HandleFits(engine, h, disk, ns, lost),
         NEW vs \in Seq(Vectors), Len(vs) # 0, NEW label \in Labels, AddSparse(h, vs, label)
  PROVE  /\ DiskFits(engine, disk', ns \cup NewNodes(h, vs, label))
         /\ HandleFits(engine, handle', disk', ns \cup NewNodes(h, vs, label), lost)
<1>1. /\ IsIndex(h) /\ IsIndex(disk) /\ h.total \in Nat /\ Len(vs) \in Nat /\ h.total + Len(vs) \in Nat
      /\ ~lost => NodeIds(ns, h.total)
  BY SMTT(60) DEF HandleFits, DiskFits, IsIndex
<1>2. PICK cells : disk' = [disk EXCEPT !.cells = cells, !.total = h.total]
  BY Zenon DEF AddSparse
<1>3. handle' = [h EXCEPT !.total = @ + Len(vs)]
  BY Zenon DEF AddSparse
<1>4. IsIndex(disk')
  <2>1. disk' = [vecs |-> disk.vecs, lids |-> disk.lids, names |-> disk.names, total |-> h.total,
                 cells |-> cells, ready |-> disk.ready, locked |-> disk.locked]
    BY <1>1, <1>2 DEF IsIndex
  <2> QED
    BY <1>1, <2>1 DEF IsIndex
<1>5. IsIndex(handle') /\ handle'.total = h.total + Len(vs)
  <2>1. handle' = [vecs |-> h.vecs, lids |-> h.lids, names |-> h.names, total |-> h.total + Len(vs),
                   cells |-> h.cells, ready |-> h.ready, locked |-> h.locked]
    BY <1>1, <1>3 DEF IsIndex
  <2> QED
    BY <1>1, <2>1 DEF IsIndex
<1>6. ~lost => NodeIds(ns \cup NewNodes(h, vs, label), handle'.total)
  BY <1>1, <1>5, NewNodesFacts
<1>7. engine \notin InMemory /\ engine # "dense"
  BY EnginesDiffer
<1> QED
  BY <1>4, <1>5, <1>6, <1>7, Zenon DEF DiskFits, HandleFits

-----------------------------------------------------------------------------
(* Every command keeps the invariant.                                       *)

LEMMA DescInitially ==
  DescInit => DescInv
<1>1. Engines \subseteq InMemory \cup {"dense", "sparse"}
  BY DescAssumption DEF InMemory, Faiss
<1> QED
  BY <1>1 DEF DescInit, DescInv, DescTypes, IndexInv

LEMMA UsableFacts ==
  ASSUME DescInv, Usable
  PROVE  /\ disk # Absent /\ DiskFits(engine, disk, AllNodes) /\ IsIndex(disk)
         /\ HandleFits(engine, GetHandle, disk, AllNodes, lossy)
  BY Zenon DEF DescInv, DescTypes, IndexInv, Usable, DiskFits

\* a handle that is there after a step fits
LEMMA WithHandle ==
  ASSUME engine' = engine, engine \in InMemory \cup {"dense", "sparse"}, lossy' \in BOOLEAN,
         nodes' \subseteq Node, adding' \subseteq Node, disk' # Absent,
         DiskFits(engine, disk', AllNodes'), HandleFits(engine, handle', disk', AllNodes', lossy')
  PROVE  DescInv'
<1>1. IsIndex(handle')
  BY Zenon DEF HandleFits
<1>2. handle' # Absent
  BY <1>1, NotAbsent
<1>3. GetHandle' = handle'
  BY <1>2 DEF GetHandle
<1>4. DescTypes'
  BY <1>1, <1>2 DEF DescTypes
<1>5. HandleFits(engine', GetHandle', disk', AllNodes', lossy')
  BY <1>3, Zenon
<1>6. IndexInv'
  BY <1>5, Zenon DEF IndexInv
<1> QED
  BY <1>4, <1>6 DEF DescInv

\* and so does one that the next command opens
LEMMA WithoutHandle ==
  ASSUME engine' = engine, engine \in InMemory \cup {"dense", "sparse"}, lossy' \in BOOLEAN,
         nodes' \subseteq Node, adding' = {}, handle' = Absent, disk' # Absent,
         DiskFits(engine, disk', AllNodes'), Kept(engine, disk', AllNodes', lossy')
  PROVE  DescInv'
<1>0. PICK d, ns, lost : d = disk' /\ ns = AllNodes' /\ lost = lossy'
  OBVIOUS
<1>1. HandleFits(engine, Opened(d), d, ns, lost)
  BY <1>0, OpenedFits
<1>2. GetHandle' = Opened(d)
  <2>1. Opened(d)' = Opened(d)
    BY Zenon DEF Opened
  <2>2. GetHandle' = Opened(disk)'
    BY DEF GetHandle
  <2>3. Opened(disk)' = Opened(d)'
    BY <1>0, Zenon DEF Opened
  <2> QED
    BY <2>1, <2>2, <2>3
<1>3. DescTypes'
  BY DEF DescTypes
<1>4. HandleFits(engine', GetHandle', disk', AllNodes', lossy')
  BY <1>0, <1>1, <1>2, Zenon
<1>5. IndexInv'
  BY <1>4, Zenon DEF IndexInv
<1> QED
  BY <1>3, <1>5 DEF DescInv

\* fewer nodes with everything else as it was
LEMMA WithFewer ==
  ASSUME DescInv, UNCHANGED <<engine, disk, handle, lossy>>, nodes' \subseteq Node,
         adding' \subseteq adding, AllNodes' \subseteq AllNodes
  PROVE  DescInv'
<1>1. CASE disk = Absent
  <2>1. DescTypes'
    BY <1>1 DEF DescInv, DescTypes, AllNodes
  <2>2. IndexInv'
    BY <1>1 DEF IndexInv
  <2> QED
    BY <2>1, <2>2 DEF DescInv
<1>2. CASE disk # Absent
  <2>1. DiskFits(engine, disk, AllNodes) /\ HandleFits(engine, GetHandle, disk, AllNodes, lossy)
    BY <1>2 DEF DescInv, IndexInv
  <2>2. PICK ns : ns = AllNodes'
    OBVIOUS
  <2>3. DiskFits(engine, disk, ns) /\ HandleFits(engine, GetHandle, disk, ns, lossy)
    BY <2>1, <2>2, FewerNodes
  <2>4. GetHandle' = GetHandle
    BY Zenon DEF GetHandle, Opened
  <2>5. IndexInv'
    BY <2>2, <2>3, <2>4, Zenon DEF IndexInv
  <2>6. DescTypes'
    <3>1. adding' \subseteq Node /\ (handle = Absent => adding' = {})
      BY DEF DescInv, DescTypes
    <3>2. handle' # Absent => IsIndex(handle')
      BY Zenon DEF DescInv, DescTypes
    <3> QED
      BY <1>2, <3>1, <3>2 DEF DescInv, DescTypes
  <2> QED
    BY <2>5, <2>6 DEF DescInv
<1> QED
  BY <1>1, <1>2

LEMMA AddSetKeeps ==
  ASSUME DescInv, AddDescriptorSet
  PROVE  DescInv'
<1>1. /\ UNCHANGED <<engine, disk, handle, lossy>> /\ nodes' \subseteq Node
      /\ adding' \subseteq adding /\ AllNodes' \subseteq AllNodes
  BY DEF AddDescriptorSet, DescInv, DescTypes, AllNodes
<1> QED
  BY <1>1, WithFewer

LEMMA CommitKeeps ==
  ASSUME DescInv, DescCommit
  PROVE  DescInv'
<1>1. /\ UNCHANGED <<engine, disk, handle, lossy>> /\ nodes' \subseteq Node
      /\ adding' \subseteq adding /\ AllNodes' \subseteq AllNodes
  BY DEF DescCommit, DescInv, DescTypes, AllNodes
<1> QED
  BY <1>1, WithFewer

LEMMA AbortKeeps ==
  ASSUME DescInv, DescAbort
  PROVE  DescInv'
<1>1. /\ UNCHANGED <<engine, disk, handle, lossy>> /\ nodes' \subseteq Node
      /\ adding' \subseteq adding /\ AllNodes' \subseteq AllNodes
  BY DEF DescAbort, DescInv, DescTypes, AllNodes
<1> QED
  BY <1>1, WithFewer

LEMMA CreateKeeps ==
  ASSUME DescInv, CreateIndex
  PROVE  DescInv'
<1>1. /\ engine' = engine /\ engine \in InMemory \cup {"dense", "sparse"} /\ lossy' \in BOOLEAN
      /\ nodes' \subseteq Node /\ adding' = {} /\ handle' = Absent /\ AllNodes' = {}
  BY DEF CreateIndex, DescInv, DescTypes, AllNodes
<1>2. /\ IsIndex(disk') /\ disk'.vecs = <<>> /\ disk'.lids = <<>> /\ disk'.total = 0
  <2>1. disk' = [vecs |-> <<>>, lids |-> <<>>, names |-> <<>>, total |-> 0,
                 cells |-> {}, ready |-> engine \in InMemory, locked |-> FALSE]
    BY Zenon DEF CreateIndex, EmptySet
  <2>2. (engine \in InMemory) = TRUE \/ (engine \in InMemory) = FALSE
    OBVIOUS
  <2>3. PICK ready \in BOOLEAN :
          disk' = [vecs |-> <<>>, lids |-> <<>>, names |-> <<>>, total |-> 0,
                   cells |-> {}, ready |-> ready, locked |-> FALSE]
    BY <2>1, <2>2, Zenon
  <2>4. <<>> \in Seq(Vectors) /\ <<>> \in Seq(Int) /\ <<>> \in Seq(Seq(Nat))
    OBVIOUS
  <2> QED
    BY <2>3, <2>4 DEF IsIndex
<1>3. disk' # Absent
  BY <1>2, NotAbsent
<1>4. /\ NodeIds({}, disk'.total) /\ VecsFit({}, disk'.vecs)
      /\ LabelsFit({}, disk'.lids, disk'.names)
  BY DEF NodeIds, VecsFit, LabelsFit
<1>5. disk'.total = Len(disk'.vecs) /\ Len(disk'.lids) <= disk'.total /\ Len(disk'.lids) = disk'.total
  BY <1>2
<1>6. DiskFits(engine, disk', AllNodes') /\ Kept(engine, disk', AllNodes', lossy')
  BY <1>1, <1>2, <1>4, <1>5, Zenon DEF DiskFits, Kept
<1> QED
  BY <1>1, <1>3, <1>6, WithoutHandle

LEMMA AddKeeps ==
  ASSUME DescInv, AddDescriptor
  PROVE  DescInv'
<1>0. /\ Usable /\ Idle /\ engine' = engine /\ lossy' = lossy /\ nodes' = nodes
      /\ engine \in InMemory \cup {"dense", "sparse"} /\ lossy \in BOOLEAN /\ nodes \subseteq Node
  BY Zenon DEF AddDescriptor, DescInv, DescTypes
<1>1. PICK vs \in BoundedSeq(Vectors, MaxBatch) \ {<<>>}, label \in Labels :
        LET h == Labelled(GetHandle, label) IN
        /\ \/ engine \in InMemory /\ handle' = AddInMemory(h, vs, label) /\ UNCHANGED disk
           \/ engine = "dense" /\ AddDense(h, vs, label)
           \/ engine = "sparse" /\ AddSparse(h, vs, label)
        /\ adding' = NewNodes(h, vs, label)
  BY Zenon DEF AddDescriptor
<1>2. vs \in Seq(Vectors) /\ Len(vs) # 0
  <2>1. PICK m \in 0..MaxBatch : vs \in [1..m -> Vectors]
    BY DEF BoundedSeq, SeqOf
  <2>2. m \in Nat
    BY DescAssumption
  <2>3. vs \in Seq(Vectors)
    BY <2>1, <2>2
  <2> QED
    BY <2>3, EmptySeq
<1>3. label \in Seq(Nat)
  BY DescAssumption
<1>4. PICK h : h = Labelled(GetHandle, label)
  OBVIOUS
<1>5. PICK new : new = NewNodes(h, vs, label)
  OBVIOUS
<1>6. AllNodes = nodes /\ AllNodes' = nodes \cup new /\ adding' = new
  BY <1>0, <1>1, <1>4, <1>5 DEF AllNodes, Idle
<1>7. /\ disk # Absent /\ DiskFits(engine, disk, nodes) /\ IsIndex(disk)
      /\ HandleFits(engine, GetHandle, disk, nodes, lossy)
  BY <1>0, <1>6, UsableFacts
<1>8. /\ HandleFits(engine, h, disk, nodes, lossy)
      /\ label # <<>> => label \in ToSet(h.names)
  BY <1>0, <1>3, <1>4, <1>7, LabelledFits
<1>9. h.total \in Nat
  BY <1>8 DEF HandleFits, IsIndex
<1>10. new \subseteq Node
  BY <1>0, <1>2, <1>5, <1>9, NewNodesFacts
<1>11. /\ DiskFits(engine, disk', nodes \cup new)
       /\ HandleFits(engine, handle', disk', nodes \cup new, lossy)
  <2>1. CASE engine \in InMemory /\ handle' = AddInMemory(h, vs, label) /\ UNCHANGED disk
    <3>1. HandleFits(engine, AddInMemory(h, vs, label), disk, nodes \cup new, lossy)
      BY <1>0, <1>2, <1>5, <1>8, <2>1, AddFitsInMemory
    <3>2. DiskFits(engine, disk, nodes \cup new)
      BY <1>7, <2>1, EnginesDiffer, Zenon DEF DiskFits
    <3> QED
      BY <2>1, <3>1, <3>2, Zenon
  <2>2. CASE engine = "dense" /\ AddDense(h, vs, label)
    BY <1>0, <1>2, <1>5, <1>7, <1>8, <2>2, AddFitsDense
  <2>3. CASE engine = "sparse" /\ AddSparse(h, vs, label)
    BY <1>0, <1>2, <1>5, <1>7, <1>8, <2>3, AddFitsSparse
  <2> QED
    BY <1>1, <1>4, <2>1, <2>2, <2>3, Zenon
<1>12. disk' # Absent
  BY <1>11, NotAbsent DEF DiskFits
<1>13. DiskFits(engine, disk', AllNodes') /\ HandleFits(engine, handle', disk', AllNodes', lossy')
  BY <1>0, <1>6, <1>11, Zenon
<1> QED
  BY <1>0, <1>6, <1>10, <1>12, <1>13, WithHandle

LEMMA FindSetKeeps ==
  ASSUME DescInv, FindDescriptorSet
  PROVE  DescInv'
<1>0. PICK h : h = GetHandle
  OBVIOUS
<1>1. /\ Usable /\ engine' = engine /\ lossy' = lossy /\ nodes' = nodes /\ adding' = adding
      /\ engine \in InMemory \cup {"dense", "sparse"} /\ lossy \in BOOLEAN
      /\ nodes \subseteq Node /\ adding \subseteq Node
      /\ handle' = h /\ disk' \in {Stored(h), disk}
  BY <1>0, Zenon DEF FindDescriptorSet, DescInv, DescTypes
<1>2. /\ DiskFits(engine, disk, AllNodes) /\ HandleFits(engine, h, disk, AllNodes, lossy)
  BY <1>0, <1>1, UsableFacts
<1>3. DiskFits(engine, Stored(h), AllNodes) /\ HandleFits(engine, h, Stored(h), AllNodes, lossy)
  BY <1>1, <1>2, StoredFits
<1>4. AllNodes' = AllNodes
  BY <1>1 DEF AllNodes
<1>5. DiskFits(engine, disk', AllNodes') /\ HandleFits(engine, handle', disk', AllNodes', lossy')
  BY <1>1, <1>2, <1>3, <1>4, Zenon
<1>6. disk' # Absent
  BY <1>5, NotAbsent DEF DiskFits
<1> QED
  BY <1>1, <1>5, <1>6, WithHandle

LEMMA FindKeeps ==
  ASSUME DescInv, FindDescriptor
  PROVE  DescInv'
<1>0. PICK h : h = GetHandle
  OBVIOUS
<1>1. /\ Usable /\ engine' = engine /\ lossy' = lossy /\ nodes' = nodes /\ adding' = adding
      /\ engine \in InMemory \cup {"dense", "sparse"} /\ lossy \in BOOLEAN
      /\ nodes \subseteq Node /\ adding \subseteq Node
      /\ handle' \in {Buffered(h), h} /\ disk' = disk
  BY <1>0, Zenon DEF FindDescriptor, DescInv, DescTypes
<1>2. /\ DiskFits(engine, disk, AllNodes) /\ HandleFits(engine, h, disk, AllNodes, lossy)
      /\ IsIndex(disk) /\ disk # Absent
  BY <1>0, <1>1, UsableFacts
<1>3. engine = "dense" => Len(disk.lids) <= disk.total
  <2>1. engine = "dense" => Len(disk.lids) = disk.total
    BY <1>2, Zenon DEF DiskFits
  <2> QED
    BY <1>2, <2>1 DEF IsIndex
<1>4. HandleFits(engine, Buffered(h), disk, AllNodes, lossy)
  BY <1>2, <1>3, BufferedFits
<1>5. AllNodes' = AllNodes
  BY <1>1 DEF AllNodes
<1>6. DiskFits(engine, disk', AllNodes') /\ HandleFits(engine, handle', disk', AllNodes', lossy')
  BY <1>1, <1>2, <1>4, <1>5, Zenon
<1> QED
  BY <1>1, <1>2, <1>6, WithHandle

\* what the destructors of the handles leave on disk is what the next command opens
LEMMA FlushFacts ==
  ASSUME DescInv, Flush # Absent
  PROVE  /\ disk # Absent /\ IsIndex(disk) /\ DiskFits(engine, Flush, AllNodes)
         /\ handle # Absent => Kept(engine, Flush, AllNodes, Gone(engine, lossy))
         /\ HandleFits(engine, Opened(Flush), Flush, AllNodes,
                       lossy \/ (engine \in Forgetful /\ handle # Absent))
         /\ engine = "dense" =>
              /\ Flush.vecs = disk.vecs /\ Flush.lids = disk.lids /\ Flush.total = disk.total
              /\ Len(Flush.lids) <= Flush.total
<1>1. engine \in InMemory \cup {"dense", "sparse"} /\ lossy \in BOOLEAN
  BY DEF DescInv, DescTypes
<1>2. disk # Absent
  BY Zenon DEF Flush, DescInv, DescTypes
<1>3. /\ DiskFits(engine, disk, AllNodes) /\ HandleFits(engine, GetHandle, disk, AllNodes, lossy)
      /\ IsIndex(disk)
  BY <1>2, Zenon DEF DescInv, IndexInv, DiskFits
<1>4. CASE handle = Absent
  <2>1. Flush = disk /\ GetHandle = Opened(disk)
    BY <1>4, Zenon DEF Flush, GetHandle
  <2>2. (lossy \/ (engine \in Forgetful /\ handle # Absent)) = lossy
    BY <1>1, <1>4
  <2>3. engine = "dense" => Len(disk.lids) <= disk.total
    <3>1. engine = "dense" => Len(disk.lids) = disk.total
      BY <1>3, Zenon DEF DiskFits
    <3> QED
      BY <1>3, <3>1 DEF IsIndex
  <2> QED
    BY <1>2, <1>3, <1>4, <2>1, <2>2, <2>3, Zenon
<1>5. CASE handle # Absent
  <2>1. Flush = Stored(handle) /\ GetHandle = handle
    BY <1>5, Zenon DEF Flush, GetHandle
  <2>2. /\ DiskFits(engine, Flush, AllNodes)
        /\ Kept(engine, Flush, AllNodes, Gone(engine, lossy))
        /\ engine = "dense" => /\ Flush.vecs = disk.vecs /\ Flush.lids = disk.lids
                               /\ Flush.total = disk.total /\ Len(disk.lids) <= disk.total
    BY <1>1, <1>3, <2>1, StoredFits
  <2>3. HandleFits(engine, Opened(Flush), Flush, AllNodes, Gone(engine, lossy))
    BY <2>2, OpenedFits
  <2>4. (lossy \/ (engine \in Forgetful /\ handle # Absent)) = Gone(engine, lossy)
    BY <1>5 DEF Gone
  <2>5. engine = "dense" => Len(Flush.lids) <= Flush.total
    BY <2>2, Zenon
  <2> QED
    BY <1>2, <1>3, <2>2, <2>3, <2>4, <2>5, Zenon
<1> QED
  BY <1>4, <1>5

LEMMA ClassifyKeeps ==
  ASSUME DescInv, ClassifyDescriptor
  PROVE  DescInv'
<1>0. PICK d, o, lost : /\ d = Flush /\ o = Opened(Flush)
                        /\ lost = (lossy \/ (engine \in Forgetful /\ handle # Absent))
  OBVIOUS
<1>1. /\ engine' = engine /\ nodes' = nodes /\ adding' = adding
      /\ engine \in InMemory \cup {"dense", "sparse"} /\ lossy \in BOOLEAN
      /\ nodes \subseteq Node /\ adding \subseteq Node
      /\ Flush # Absent /\ disk' = d /\ lossy' = lost
  BY <1>0, Zenon DEF ClassifyDescriptor, DescInv, DescTypes
<1>2. PICK b : handle' = [Buffered(o) EXCEPT !.locked = b]
  BY <1>0, Zenon DEF ClassifyDescriptor
<1>3. /\ IsIndex(disk) /\ DiskFits(engine, d, AllNodes) /\ HandleFits(engine, o, d, AllNodes, lost)
      /\ engine = "dense" => /\ d.vecs = disk.vecs /\ d.lids = disk.lids /\ d.total = disk.total
                             /\ Len(d.lids) <= d.total
  BY <1>0, <1>1, FlushFacts
<1>4. HandleFits(engine, Buffered(o), d, AllNodes, lost)
  BY <1>3, BufferedFits
<1>5. HandleFits(engine, handle', d, AllNodes, lost)
  BY <1>2, <1>4, LockedFits
<1>6. AllNodes' = AllNodes
  BY <1>1 DEF AllNodes
<1>7. DiskFits(engine, disk', AllNodes') /\ HandleFits(engine, handle', disk', AllNodes', lossy')
  BY <1>1, <1>3, <1>5, <1>6, Zenon
<1>8. lossy' \in BOOLEAN
  BY <1>0, <1>1
<1> QED
  BY <1>0, <1>1, <1>7, <1>8, WithHandle

LEMMA StopKeeps ==
  ASSUME DescInv, StopServer
  PROVE  DescInv'
<1>1. /\ engine' = engine /\ nodes' = nodes /\ adding' = adding
      /\ engine \in InMemory \cup {"dense", "sparse"} /\ lossy \in BOOLEAN
      /\ nodes \subseteq Node /\ adding = {} /\ handle # Absent
      /\ handle' = Absent /\ disk' = Flush /\ lossy' = Gone(engine, lossy)
  BY Zenon DEF Gone, StopServer, Idle, DescInv, DescTypes
<1>2. /\ Flush # Absent
  <2>1. disk # Absent
    BY <1>1 DEF DescInv, DescTypes
  <2>2. DiskFits(engine, disk, AllNodes) /\ HandleFits(engine, handle, disk, AllNodes, lossy)
    BY <1>1, <2>1, Zenon DEF DescInv, IndexInv, GetHandle
  <2>3. DiskFits(engine, Stored(handle), AllNodes)
    BY <1>1, <2>2, StoredFits
  <2>4. Flush = Stored(handle)
    BY <1>1, Zenon DEF Flush
  <2> QED
    BY <2>3, <2>4, NotAbsent DEF DiskFits
<1>3. DiskFits(engine, Flush, AllNodes) /\ Kept(engine, Flush, AllNodes, Gone(engine, lossy))
  BY <1>1, <1>2, FlushFacts
<1>4. AllNodes' = AllNodes
  BY <1>1 DEF AllNodes
<1>5. DiskFits(engine, disk', AllNodes') /\ Kept(engine, disk', AllNodes', lossy')
  BY <1>1, <1>3, <1>4, Zenon
<1>6. lossy' \in BOOLEAN
  BY <1>1 DEF Gone
<1> QED
  BY <1>1, <1>2, <1>5, <1>6, WithoutHandle

LEMMA CrashKeeps ==
  ASSUME DescInv, DescCrash
  PROVE  DescInv'
<1>1. /\ engine' = engine /\ nodes' = nodes /\ adding' = {} /\ disk' = disk
      /\ engine \in InMemory \cup {"dense", "sparse"}
      /\ nodes \subseteq Node /\ handle' = Absent /\ lossy' = TRUE
  BY Zenon DEF DescCrash, DescInv, DescTypes
<1>2. CASE disk = Absent
  <2>1. DescTypes'
    BY <1>1, <1>2 DEF DescInv, DescTypes
  <2>2. IndexInv'
    BY <1>1, <1>2 DEF IndexInv
  <2> QED
    BY <2>1, <2>2 DEF DescInv
<1>3. CASE disk # Absent
  <2>1. DiskFits(engine, disk, AllNodes) /\ HandleFits(engine, GetHandle, disk, AllNodes, lossy)
    BY <1>3 DEF DescInv, IndexInv
  <2>2. PICK ns : ns = AllNodes'
    OBVIOUS
  <2>3. ns \subseteq AllNodes
    BY <1>1, <2>2 DEF AllNodes
  <2>4. DiskFits(engine, disk, ns)
    BY <2>1, <2>3, FewerNodes
  <2>5. Kept(engine, disk', ns, lossy')
    BY <1>1, Zenon DEF Kept
  <2>6. DiskFits(engine, disk', AllNodes') /\ Kept(engine, disk', AllNodes', lossy')
    BY <1>1, <2>2, <2>4, <2>5, Zenon
  <2> QED
    BY <1>1, <1>3, <2>6, WithoutHandle
<1> QED
  BY <1>2, <1>3

-----------------------------------------------------------------------------
(* The theorems.                                                            *)

\* The ids and labels of the graph agree with the index in memory and the one on disk after
\* every command, for any vectors, labels and sizes of a batch: for Faiss until a crash, for
\* FLINNG and the sparse engine until the index is opened again (FLINNG then counts from 0),
\* for the dense engine across crashes too.
THEOREM DescInductive == DescSpec => []DescInv
<1>1. DescInv /\ [DescNext]_descVars => DescInv'
  <2> SUFFICES ASSUME DescInv, [DescNext]_descVars
               PROVE  DescInv'
    OBVIOUS
  <2>1. CASE UNCHANGED descVars
    <3>1. /\ UNCHANGED <<engine, disk, handle, lossy>> /\ nodes' \subseteq Node
          /\ adding' \subseteq adding /\ AllNodes' \subseteq AllNodes
      BY <2>1 DEF descVars, DescInv, DescTypes, AllNodes
    <3> QED
      BY <3>1, WithFewer
  <2> QED
    BY <2>1, AddSetKeeps, CreateKeeps, AddKeeps, CommitKeeps, AbortKeeps, FindSetKeeps,
       FindKeeps, ClassifyKeeps, StopKeeps, CrashKeeps DEF DescNext
<1> QED
  BY <1>1, DescInitially, PTL DEF DescSpec

\* The id in the node of a descriptor is that of its vector in the index, and no other node
\* has it, although the index changes before the transaction commits and is not undone when
\* it aborts (DescriptorsCommand.cc adds while the query is built); for FLINNG and the sparse
\* engine until the index is opened again, for Faiss until a crash.
THEOREM IdsAgree == DescSpec => []DescriptorIds
<1>1. DescInv => DescriptorIds
  <2> SUFFICES ASSUME DescInv, ~lossy \/ engine = "dense", NEW n \in AllNodes
               PROVE  /\ \A m \in AllNodes : m.id = n.id => m = n
                      /\ engine # "sparse" =>
                           LET vecs == IF engine = "dense" THEN disk.vecs ELSE Held.vecs IN
                           n.id < Len(vecs) /\ vecs[n.id + 1] = n.vec
    BY Zenon DEF DescriptorIds, AllNodes
  <2>1. /\ disk # Absent /\ engine \in InMemory \cup {"dense", "sparse"}
    BY DEF DescInv, DescTypes, AllNodes
  <2>2. /\ DiskFits(engine, disk, AllNodes) /\ IsIndex(disk)
        /\ HandleFits(engine, GetHandle, disk, AllNodes, lossy)
    BY <2>1, Zenon DEF DescInv, IndexInv, DiskFits
  <2>3. CASE engine = "dense"
    <3>1. NodeIds(AllNodes, Len(disk.vecs)) /\ VecsFit(AllNodes, disk.vecs)
      BY <2>2, <2>3, Zenon DEF DiskFits
    <3> QED
      BY <2>3, <3>1, Zenon DEF NodeIds, VecsFit
  <2>4. CASE engine \in InMemory
    <3>1. engine # "dense"
      BY <2>4, EnginesDiffer
    <3>2. Held.vecs = GetHandle.vecs
      <4>1. CASE handle = Absent
        BY <2>2, <2>4, <4>1, OpenedFacts DEF Held, GetHandle
      <4>2. CASE handle # Absent
        BY <4>2, Zenon DEF Held, GetHandle
      <4> QED
        BY <4>1, <4>2
    <3>3. NodeIds(AllNodes, Len(Held.vecs)) /\ VecsFit(AllNodes, Held.vecs)
      BY <2>2, <2>4, <3>1, <3>2, Zenon DEF HandleFits
    <3> QED
      BY <3>1, <3>3, Zenon DEF NodeIds, VecsFit
  <2>5. CASE engine = "sparse"
    BY <2>2, <2>5, Zenon DEF HandleFits, NodeIds
  <2> QED
    BY <2>1, <2>3, <2>4, <2>5
<1> QED
  BY <1>1, DescInductive, PTL

\* The label of a descriptor is the one that the index has for its id, up to the first word
\* (DescriptorSet.cc reads labels.txt word by word), for descriptors that are the first of
\* their batch and as long as nothing was lost: for FLINNG until the index is opened again;
\* not for the sparse engine.
THEOREM LabelsAgree == DescSpec => []LabelKept
<1>1. DescInv => LabelKept
  <2> DEFINE names == IF handle = Absent THEN Reread(disk.names) ELSE handle.names
             lids == IF engine = "dense" /\ (handle = Absent \/ ~handle.ready)
                     THEN disk.lids ELSE Held.lids
  <2> SUFFICES ASSUME DescInv, ~lossy, engine # "sparse", NEW n \in AllNodes,
                      n.first, n.label # <<>>
               PROVE  /\ n.id < Len(lids)
                      /\ FirstWord(LabelOf([names |-> names], lids[n.id + 1])) = FirstWord(n.label)
    BY Zenon DEF LabelKept, AllNodes
  <2>1. /\ disk # Absent /\ engine \in InMemory \cup {"dense", "sparse"}
    BY DEF DescInv, DescTypes, AllNodes
  <2>2. /\ DiskFits(engine, disk, AllNodes) /\ IsIndex(disk)
        /\ HandleFits(engine, GetHandle, disk, AllNodes, lossy)
    BY <2>1, Zenon DEF DescInv, IndexInv, DiskFits
  <2>3. GetHandle.names = names /\ (engine \in InMemory => GetHandle.lids = Held.lids)
    <3>1. CASE handle = Absent
      BY <2>2, <3>1, OpenedFacts DEF Held, GetHandle
    <3>2. CASE handle # Absent
      BY <3>2, Zenon DEF Held, GetHandle
    <3> QED
      BY <3>1, <3>2
  <2>4. LabelsFit(AllNodes, lids, names)
    <3>1. CASE engine \in InMemory
      <4>1. engine # "dense"
        BY <3>1, EnginesDiffer
      <4> QED
        BY <2>2, <2>3, <3>1, <4>1, Zenon DEF HandleFits
    <3>2. CASE engine = "dense" /\ (handle = Absent \/ ~handle.ready)
      BY <2>2, <2>3, <3>2, Zenon DEF HandleFits
    <3>3. CASE engine = "dense" /\ handle # Absent /\ handle.ready
      BY <2>2, <2>3, <3>3, Zenon DEF HandleFits, GetHandle, Held
    <3> QED
      BY <2>1, <3>1, <3>2, <3>3
  <2> HIDE DEF names, lids
  <2>5. PICK k : k = lids[n.id + 1]
    OBVIOUS
  <2>6. n.id < Len(lids) /\ k \in 0..Len(names) - 1 /\ FirstWord(names[k + 1]) = FirstWord(n.label)
    BY <2>4, <2>5, Zenon DEF LabelsFit
  <2>7. LabelOf([names |-> names], k) = names[k + 1]
    BY <2>6 DEF LabelOf
  <2> QED
    BY <2>5, <2>6, <2>7
<1> QED
  BY <1>1, DescInductive, PTL

\* the cells of the sparse array
CellsFit(cells) == IsFiniteSet(cells) /\ \A c \in cells : c.id \in Nat

CellsInv == engine = "sparse" /\ disk # Absent => CellsFit(disk.cells)

CellsOf(vs, total, lids, I) == {[vec |-> vs[i], id |-> total + i - 1, lid |-> lids[i]] : i \in I}

LEMMA NewCells ==
  ASSUME NEW V, NEW vs \in Seq(V), NEW total \in Nat, NEW lids, NEW I \in SUBSET DOMAIN vs
  PROVE  CellsFit(CellsOf(vs, total, lids, I))
<1> DEFINE cell(i) == [vec |-> vs[i], id |-> total + i - 1, lid |-> lids[i]]
           T == {cell(i) : i \in I}
           f == [i \in I |-> cell(i)]
<1>1. PICK n \in Nat : DOMAIN vs = 1..n
  OBVIOUS
<1>2. IsFiniteSet(I)
  BY <1>1, PartOfInterval
<1>3. f \in Surjection(I, T)
  BY DEF Surjection
<1>4. \A i \in I : cell(i).id \in Nat
  BY <1>1
<1>5. \A c \in T : c.id \in Nat
  BY <1>4
<1> HIDE DEF f, T
<1>6. IsFiniteSet(T)
  BY <1>2, <1>3, FS_Surjection
<1> QED
  BY <1>5, <1>6 DEF CellsFit, CellsOf, T

LEMMA CellsTogether ==
  ASSUME NEW C, NEW D, NEW E \in SUBSET C, CellsFit(C), CellsFit(D)
  PROVE  CellsFit(E \cup D)
<1>1. IsFiniteSet(E)
  BY FS_Subset DEF CellsFit
<1>2. IsFiniteSet(E \cup D)
  BY <1>1, FS_Union DEF CellsFit
<1> QED
  BY <1>2 DEF CellsFit

LEMMA StoredCells ==
  ASSUME NEW h, engine = "sparse", IsIndex(disk)
  PROVE  Stored(h).cells = disk.cells
<1>1. engine \notin InMemory
  BY DEF InMemory, Faiss
<1>2. Stored(h) = [disk EXCEPT !.names = h.names]
  BY <1>1, Zenon DEF Stored
<1>3. [disk EXCEPT !.names = h.names].cells = disk.cells
  BY DEF IsIndex
<1> QED
  BY <1>2, <1>3, Zenon

LEMMA CellsStart == DescInit => CellsInv
BY DEF DescInit, CellsInv

LEMMA CellsStep == DescInv /\ CellsInv /\ [DescNext]_descVars => CellsInv'
<1> SUFFICES ASSUME DescInv, CellsInv, [DescNext]_descVars, engine' = "sparse", disk' # Absent
             PROVE  CellsFit(disk'.cells)
  BY DEF CellsInv
<1>0. engine = "sparse" /\ engine' = engine
  BY Zenon DEF DescNext, descVars, AddDescriptorSet, CreateIndex, AddDescriptor, DescCommit, DescAbort,
        FindDescriptorSet, FindDescriptor, ClassifyDescriptor, StopServer, DescCrash
<1>1. disk # Absent => CellsFit(disk.cells) /\ IsIndex(disk)
  BY <1>0 DEF CellsInv, DescInv, IndexInv, DiskFits
<1>2. handle # Absent => disk # Absent
  BY DEF DescInv, DescTypes
<1>3. CASE disk' = disk
  BY <1>1, <1>3
<1>4. ASSUME NEW h, disk' = Stored(h), disk # Absent
      PROVE  CellsFit(disk'.cells)
  BY <1>0, <1>1, <1>4, StoredCells
<1>5. ASSUME disk' = Flush
      PROVE  CellsFit(disk'.cells)
  BY <1>2, <1>3, <1>4, <1>5, Zenon DEF Flush
<1>6. CASE CreateIndex
  <2>1. disk' = EmptySet
    BY <1>6, Zenon DEF CreateIndex
  <2>2. disk'.cells = {}
    BY <2>1 DEF EmptySet
  <2> QED
    BY <2>2, FS_EmptySet DEF CellsFit
<1>7. CASE AddDescriptor
  <2>0. Usable /\ Idle /\ engine \notin InMemory /\ engine # "dense"
    BY <1>0, <1>7 DEF AddDescriptor, InMemory, Faiss
  <2>1. PICK vs \in BoundedSeq(Vectors, MaxBatch) \ {<<>>}, label \in Labels :
          LET h == Labelled(GetHandle, label) IN
          \/ engine \in InMemory
          \/ engine = "dense"
          \/ engine = "sparse" /\ AddSparse(h, vs, label)
    BY <1>7, Zenon DEF AddDescriptor
  <2>2. vs \in Seq(Vectors)
    <3>1. PICK m \in 0..MaxBatch : vs \in [1..m -> Vectors]
      BY DEF BoundedSeq, SeqOf
    <3>2. m \in Nat
      BY DescAssumption
    <3> QED
      BY <3>1, <3>2
  <2>3. PICK h : h = Labelled(GetHandle, label)
    OBVIOUS
  <2>4. AddSparse(h, vs, label)
    BY <2>0, <2>1, <2>3, Zenon
  <2>5. h.total \in Nat /\ disk # Absent
    <3>1. disk # Absent /\ HandleFits(engine, GetHandle, disk, AllNodes, lossy)
      BY <1>0, <2>0, UsableFacts
    <3>2. label \in Seq(Nat)
      BY DescAssumption
    <3>4. AllNodes \subseteq Node /\ IsIndex(disk)
      BY <1>1, <3>1 DEF AllNodes, DescInv, DescTypes
    <3>3. HandleFits(engine, h, disk, AllNodes, lossy)
      BY <2>3, <3>1, <3>2, <3>4, LabelledFits
    <3> QED
      BY <3>1, <3>3 DEF HandleFits, IsIndex
  <2>6. PICK lids, I, new : /\ lids = OnDisk(h, label, Len(vs))
                            /\ I = {i \in DOMAIN vs : \A j \in (i + 1)..Len(vs) : vs[j] # vs[i]}
                            /\ new = {[vec |-> vs[i], id |-> h.total + i - 1, lid |-> lids[i]] : i \in I}
    OBVIOUS
  <2>7. PICK E : E = {c \in disk.cells : c.vec \notin ToSet(vs)}
    OBVIOUS
  <2>8. disk' = [disk EXCEPT !.cells = {c \in disk.cells : c.vec \notin ToSet(vs)} \cup new, !.total = h.total]
    BY <2>4, <2>6, Zenon DEF AddSparse
  <2>9. disk'.cells = E \cup new
    <3>1. disk' = [disk EXCEPT !.cells = E \cup new, !.total = h.total]
      BY <2>7, <2>8, Zenon
    <3> QED
      BY <1>1, <2>5, <3>1 DEF IsIndex
  <2>10. CellsFit(new)
    <3>1. I \in SUBSET DOMAIN vs
      BY <2>6
    <3>2. new = CellsOf(vs, h.total, lids, I)
      BY <2>6, Zenon DEF CellsOf
    <3> QED
      BY <2>2, <2>5, <3>1, <3>2, NewCells
  <2>11. E \in SUBSET disk.cells
    BY <2>7
  <2> QED
    BY <1>1, <2>5, <2>9, <2>10, <2>11, CellsTogether
<1>8. CASE FindDescriptorSet
  <2>1. Usable /\ disk' \in {Stored(GetHandle), disk}
    BY <1>8, Zenon DEF FindDescriptorSet
  <2>2. disk # Absent
    BY <1>2, <2>1 DEF Usable
  <2> QED
    BY <1>3, <1>4, <2>1, <2>2, Zenon
<1>9. CASE ClassifyDescriptor
  BY <1>5, <1>9, Zenon DEF ClassifyDescriptor
<1>10. CASE StopServer
  BY <1>5, <1>10, Zenon DEF StopServer
<1>11. ASSUME \/ AddDescriptorSet \/ DescCommit \/ DescAbort \/ FindDescriptor \/ DescCrash
              \/ UNCHANGED descVars
       PROVE  disk' = disk
  BY <1>11, Zenon DEF AddDescriptorSet, DescCommit, DescAbort, FindDescriptor, DescCrash, descVars
<1> QED
  BY <1>3, <1>6, <1>7, <1>8, <1>9, <1>10, <1>11 DEF DescNext

\* what a search answers with are descriptor numbers, up to the padding
LEMMA FoundIds ==
  ASSUME DescInv, CellsInv, Usable, NEW v, NEW k \in Nat,
         NEW ids \in Search(Buffered(GetHandle), v, k), ids # Undefined
  PROVE  ids \in Seq(Nat \cup {NoId})
<1>1. PICK h : h = Buffered(GetHandle)
  OBVIOUS
<1>2. PICK P : P = Points(h)
  OBVIOUS
<1>3. IsFiniteSet(P) /\ \A p \in P : p[1] \in Nat
  <2>1. disk # Absent /\ IsIndex(disk) /\ IsIndex(h)
    <3>1. /\ disk # Absent /\ DiskFits(engine, disk, AllNodes)
          /\ HandleFits(engine, GetHandle, disk, AllNodes, lossy)
      BY UsableFacts
    <3>2. IsIndex(disk)
      BY <3>1 DEF DiskFits
    <3>3. engine = "dense" => Len(disk.lids) <= disk.total
      <4>1. engine = "dense" => Len(disk.lids) = disk.total
        BY <3>1, Zenon DEF DiskFits
      <4> QED
        BY <3>2, <4>1 DEF IsIndex
    <3>4. HandleFits(engine, h, disk, AllNodes, lossy)
      BY <1>1, <3>1, <3>2, <3>3, BufferedFits
    <3> QED
      BY <3>1, <3>4 DEF DiskFits, HandleFits
  <2>2. CASE engine = "sparse"
    <3> DEFINE T == {<<c.id, c.vec>> : c \in disk.cells}
               f == [c \in disk.cells |-> <<c.id, c.vec>>]
    <3>1. IsFiniteSet(disk.cells) /\ \A c \in disk.cells : c.id \in Nat
      BY <2>1, <2>2 DEF CellsInv, CellsFit
    <3>2. P = T
      BY <1>2, <2>2, Zenon DEF Points
    <3>3. f \in Surjection(disk.cells, T)
      BY DEF Surjection
    <3>4. \A p \in T : p[1] \in Nat
      BY <3>1
    <3> HIDE DEF f, T
    <3>5. IsFiniteSet(T)
      BY <3>1, <3>3, FS_Surjection
    <3> QED
      BY <3>2, <3>4, <3>5
  <2>3. CASE engine # "sparse"
    <3>0. PICK w \in Seq(Vectors) : w = h.vecs
      BY <2>1 DEF IsIndex
    <3>1. PICK n \in Nat : DOMAIN h.vecs = 1..n
      BY <3>0
    <3> DEFINE T == {<<i - 1, h.vecs[i]>> : i \in 1..n}
               f == [i \in 1..n |-> <<i - 1, h.vecs[i]>>]
    <3>2. P = T
      BY <1>2, <2>3, <3>1, Zenon DEF Points
    <3>3. f \in Surjection(1..n, T)
      BY DEF Surjection
    <3>4. \A p \in T : p[1] \in Nat
      OBVIOUS
    <3>5. IsFiniteSet(1..n)
      BY FS_Interval
    <3> HIDE DEF f, T
    <3>6. IsFiniteSet(T)
      BY <3>3, <3>5, FS_Surjection
    <3> QED
      BY <3>2, <3>4, <3>6
  <2> QED
    BY <2>2, <2>3
<1>4. PICK S, s : S \in SUBSET P /\ s \in Sorted(S, v) /\ ids = Padded(s, k)
  <2>1. CASE engine \in {"dense", "sparse"} /\ k > Cardinality(Points(h))
    BY <1>1, <2>1 DEF Search
  <2>2. CASE ~(engine \in {"dense", "sparse"} /\ k > Cardinality(Points(h)))
    <3>0. PICK parts : parts = IF engine \in {"ivf", "hnsw", "flinng"} THEN SUBSET Points(h) ELSE {Points(h)}
      OBVIOUS
    <3>1. ids \in {Padded(s, k) : s \in UNION {Sorted(S, v) : S \in parts}}
      BY <1>1, <2>2, <3>0, Zenon DEF Search
    <3>2. PICK s : s \in UNION {Sorted(S, v) : S \in parts} /\ ids = Padded(s, k)
      BY <3>1, Zenon
    <3>3. PICK S : /\ s \in Sorted(S, v) /\ S \in parts
      BY <3>2, Zenon
    <3>4. S \in SUBSET P
      BY <1>2, <3>0, <3>3
    <3> QED
      BY <3>2, <3>3, <3>4
  <2> QED
    BY <2>1, <2>2
<1>5. PICK n \in Nat : s \in [1..n -> S]
  <2>1. Cardinality(S) \in Nat
    BY <1>3, <1>4, FS_Subset, FS_CardinalityType
  <2>2. s \in SetToSeqs(S)
    BY <1>4, Zenon DEF Sorted
  <2>3. s \in [1..Cardinality(S) -> S]
    BY <2>2, Zenon DEF SetToSeqs
  <2> QED
    BY <2>1, <2>3
<1>6. \A i \in 1..n : s[i][1] \in Nat
  BY <1>3, <1>4, <1>5
<1>7. Len(s) = n
  BY <1>5, SeqDef
<1>8. ids = [i \in 1..k |-> IF i <= Len(s) THEN s[i][1] ELSE NoId]
  BY <1>4, Zenon DEF Padded
<1>9. \A i \in 1..k : (IF i <= Len(s) THEN s[i][1] ELSE NoId) \in Nat \cup {NoId}
  BY <1>6, <1>7
<1>10. ids \in [1..k -> Nat \cup {NoId}]
  BY <1>8, <1>9
<1> QED
  BY <1>10, SeqDef

\* the ids of the nodes that meet the constraints
IdsFor(label) == {n.id : n \in {m \in nodes : label \in {<<>>, m.label}}}

\* a neighbour without a node among the kept ones stands in for descriptor 0
StandsIn(near, kept) ==
  \E i, j \in DOMAIN near : near[i] = 0 /\ near[j] \notin kept /\ ~(0 \in kept /\ i < j)

\* an answer has the listed identifiers in their order, and null only where 0 is stood in for
Lists(answer, near, kept, listed) ==
  /\ DOMAIN answer = DOMAIN listed
  /\ \A i \in DOMAIN listed :
       /\ answer[i].id = listed[i]
       /\ answer[i].null => listed[i] = 0 /\ StandsIn(near, kept)

\* the neighbours that are listed are those with a node that meets the constraints, and 0
LEMMA MergeKeeps ==
  ASSUME NEW label, NEW kept, NEW near, NEW f,
         kept = IdsFor(label), near \in Seq(Nat), f = Filtered(near, kept \cup {0})
  PROVE  Lists(Merge(near, label), near, kept, f)
<1> DEFINE ents == Responses(near, label)
           match(i) == {j \in DOMAIN ents : ents[j].id = near[i]}
           listed == InOrder({i \in DOMAIN near : match(i) # {}})
<1>1. PICK n \in Nat : n = Len(near) /\ DOMAIN near = 1..n
  OBVIOUS
<1>2. DOMAIN ents = 1..n /\ \A j \in 1..n : ents[j] = NodeOf(near[j], label)
  BY <1>1 DEF Responses
<1>3. ASSUME NEW j \in 1..n
      PROVE  /\ near[j] \in kept => ents[j] = [id |-> near[j], null |-> FALSE]
             /\ near[j] \notin kept => ents[j] = [id |-> 0, null |-> TRUE]
  <2>1. (\E m \in nodes : m.id = near[j] /\ label \in {<<>>, m.label}) <=> near[j] \in kept
    BY DEF IdsFor
  <2>2. CASE near[j] \in kept
    BY <1>2, <2>1, <2>2, Zenon DEF NodeOf
  <2>3. CASE near[j] \notin kept
    BY <1>2, <2>1, <2>3, Zenon DEF NodeOf, Null
  <2> QED
    BY <2>2, <2>3
<1> HIDE DEF ents
<1>16. ASSUME NEW j \in 1..n
       PROVE  /\ near[j] \in kept => ents[j].id = near[j] /\ ents[j].null = FALSE
              /\ near[j] \notin kept => ents[j].id = 0
  <2>1. PICK e, x : e = ents[j] /\ x = near[j]
    OBVIOUS
  <2>2. /\ x \in kept => e = [id |-> x, null |-> FALSE]
        /\ x \notin kept => e = [id |-> 0, null |-> TRUE]
    BY <1>3, <2>1, Zenon
  <2>3. /\ x \in kept => e.id = x /\ e.null = FALSE
        /\ x \notin kept => e.id = 0
    BY <2>2
  <2> QED
    BY <2>1, <2>3, Zenon
<1>4. ASSUME NEW i \in 1..n
      PROVE  match(i) # {} <=> near[i] \in kept \cup {0}
  <2>1. ASSUME near[i] \in kept \cup {0}
        PROVE  i \in match(i)
    <3>1. ents[i].id = near[i]
      BY <1>16, <2>1
    <3> QED
      BY <1>2, <3>1
  <2>2. ASSUME NEW j \in match(i), near[i] \notin kept \cup {0}
        PROVE  FALSE
    <3>1. j \in 1..n /\ ents[j].id = near[i]
      BY <1>2, <2>2
    <3>2. CASE near[j] \in kept
      BY <1>16, <2>2, <3>1, <3>2
    <3>3. CASE near[j] \notin kept
      BY <1>16, <2>2, <3>1, <3>3
    <3> QED
      BY <3>2, <3>3
  <2> QED
    BY <2>1, <2>2
<1>5. PICK at : at = InOrder({i \in DOMAIN near : near[i] \in kept \cup {0}})
  OBVIOUS
<1>6. listed = at
  <2>1. {i \in DOMAIN near : match(i) # {}} = {i \in DOMAIN near : near[i] \in kept \cup {0}}
    BY <1>1, <1>4
  <2> QED
    BY <1>5, <2>1
<1>7. PICK P : P = {i \in 1..n : near[i] \in kept \cup {0}}
  OBVIOUS
<1>8. PICK k \in Nat : DOMAIN at = 1..k /\ \A i \in 1..k : at[i] \in P
  <2>1. P \in SUBSET (1..n) /\ at = InOrder(P)
    BY <1>1, <1>5, <1>7
  <2>2. IsFiniteSet(P) /\ P \subseteq Int
    BY <2>1, PartOfInterval
  <2>3. at \in Seq(P)
    BY <2>1, <2>2, InOrderList
  <2> QED
    BY <2>3
<1>9. f = [i \in 1..k |-> near[at[i]]]
  BY <1>5, <1>8, Zenon DEF Filtered
<1>10. Merge(near, label) = [p \in 1..k |-> ents[CHOOSE j \in match(at[p]) : \A l \in match(at[p]) : j <= l]]
  <2>1. Merge(near, label) = [p \in DOMAIN listed |->
          ents[CHOOSE j \in match(listed[p]) : \A l \in match(listed[p]) : j <= l]]
    BY Zenon DEF Merge, ents
  <2> HIDE DEF listed, match
  <2> QED
    BY <1>6, <1>8, <2>1
<1>11. ASSUME NEW i \in P
       PROVE  LET j == CHOOSE j \in match(i) : \A l \in match(i) : j <= l IN
              /\ ents[j].id = near[i]
              /\ ents[j].null => near[i] = 0 /\ StandsIn(near, kept)
  <2>1. i \in 1..n /\ near[i] \in kept \cup {0}
    BY <1>7
  <2>2. i \in match(i)
    <3>1. ents[i].id = near[i]
      BY <1>16, <2>1
    <3> QED
      BY <1>2, <2>1, <3>1
  <2>3. match(i) \subseteq Nat
    BY <1>2
  <2>4. \E j \in match(i) : \A l \in match(i) : j <= l
    <3> HIDE DEF match
    <3> QED
      BY <2>2, <2>3, Least
  <2>5. PICK j \in match(i) : /\ \A l \in match(i) : j <= l
                              /\ j = CHOOSE x \in match(i) : \A l \in match(i) : x <= l
    BY <2>4, Zenon
  <2>6. j \in 1..n /\ ents[j].id = near[i] /\ j <= i
    BY <1>2, <2>2, <2>5
  <2>7. ASSUME ents[j].null
        PROVE  near[i] = 0 /\ StandsIn(near, kept)
    <3>1. near[j] \notin kept
      BY <1>16, <2>6, <2>7
    <3>2. near[i] = 0
      BY <1>16, <2>6, <3>1
    <3>3. ~ (0 \in kept /\ i < j)
      BY <2>1, <2>6
    <3> QED
      BY <1>1, <2>1, <2>6, <3>1, <3>2, <3>3, Zenon DEF StandsIn
  <2> QED
    BY <2>5, <2>6, <2>7
<1> HIDE DEF match
<1>12. ASSUME NEW p \in 1..k
       PROVE  /\ Merge(near, label)[p].id = near[at[p]]
              /\ Merge(near, label)[p].null => near[at[p]] = 0 /\ StandsIn(near, kept)
  <2>1. at[p] \in P
    BY <1>8
  <2>2. PICK e : e = ents[CHOOSE j \in match(at[p]) : \A l \in match(at[p]) : j <= l]
    OBVIOUS
  <2>3. Merge(near, label)[p] = e
    BY <1>10, <2>2
  <2>4. e.id = near[at[p]] /\ (e.null => near[at[p]] = 0 /\ StandsIn(near, kept))
    BY <1>11, <2>1, <2>2, Zenon
  <2> QED
    BY <2>3, <2>4
<1>13. DOMAIN Merge(near, label) = 1..k
  BY <1>10
<1>14. DOMAIN f = 1..k /\ \A p \in 1..k : f[p] = near[at[p]]
  BY <1>9
<1> QED
  BY <1>12, <1>13, <1>14, Zenon DEF Lists

\* For any index and labels, and whatever was aborted, k_neighbors lists in the order of the
\* search the neighbours whose node is committed and meets the constraints, and descriptor 0
\* whenever it was found; no entry is null but that of descriptor 0, and this one only when a
\* neighbour without a node stands in for it (DescriptorsCommand.cc, where the ids found in the
\* graph are matched with those of the search).
THEOREM NeighboursListed == DescSpec => []KnnAnswer
<1>1. ASSUME DescInv, CellsInv PROVE KnnAnswer
  <2> SUFFICES ASSUME Idle, Usable, NEW v \in Vectors, NEW k \in 1..2, NEW label \in Labels,
                      NEW ids \in Search(Buffered(GetHandle), v, k) \ {Undefined}
               PROVE  LET near == Filtered(ids, Int \ {NoId})
                          kept == {n.id : n \in {m \in nodes : label \in {<<>>, m.label}}}
                          listed == Filtered(near, kept \cup {0})
                          answer == Nearest(ids, label, {"_id"})
                      IN  /\ DOMAIN answer = DOMAIN listed
                          /\ \A i \in DOMAIN listed :
                               /\ answer[i].id = listed[i]
                               /\ answer[i].null => listed[i] = 0 /\ StandsIn(near, kept)
    BY Zenon DEF KnnAnswer, StandsIn
  <2> DEFINE near == Filtered(ids, Int \ {NoId})
             kept == IdsFor(label)
  <2>1. ids \in Seq(Nat \cup {NoId})
    BY <1>1, FoundIds
  <2>2. Trimmed(ids) = near
    <3>1. {i \in DOMAIN ids : ids[i] \in Nat} = {i \in DOMAIN ids : ids[i] \in Int \ {NoId}}
      BY <2>1 DEF NoId
    <3>2. Filtered(ids, Nat) = Filtered(ids, Int \ {NoId})
      BY <3>1, Zenon DEF Filtered
    <3> QED
      BY <3>2 DEF Trimmed
  <2>3. near \in Seq(Nat)
    <3>1. PICK N : N = Nat \cup {NoId}
      OBVIOUS
    <3>2. IsFiltered(near, ids, Int \ {NoId}, N)
      BY <2>1, <3>1, FilteredFacts
    <3>3. near \in Seq(N) /\ ToSet(near) \subseteq Nat
      <4>1. ToSet(ids) \subseteq N
        BY <2>1, <3>1, ToSetIsRange
      <4>2. near \in Seq(N) /\ ToSet(near) = ToSet(ids) \cap (Int \ {NoId})
        BY <3>2 DEF IsFiltered
      <4> QED
        BY <3>1, <4>1, <4>2 DEF NoId
    <3>4. PICK n \in Nat : DOMAIN near = 1..n /\ n = Len(near)
      BY <3>3
    <3> HIDE DEF near
    <3>5. \A i \in 1..n : near[i] \in Nat
      <4>1. ToSet(near) = {near[i] : i \in 1..Len(near)}
        BY <3>3, ToSetIsRange
      <4> QED
        BY <3>3, <3>4, <4>1
    <3>6. near = [i \in 1..n |-> near[i]]
      BY <3>3, <3>4
    <3>7. near \in [1..n -> Nat]
      BY <3>5, <3>6
    <3> QED
      BY <3>7, SeqDef
  <2>4. Nearest(ids, label, {"_id"}) = Merge(near, label)
    BY <2>2 DEF Nearest
  <2> HIDE DEF near, kept
  <2>5. PICK nr, kp, f : nr = near /\ kp = kept /\ f = Filtered(nr, kp \cup {0})
    OBVIOUS
  <2>6. Lists(Merge(nr, label), nr, kp, f)
    <3>1. kp = IdsFor(label) /\ nr \in Seq(Nat)
      BY <2>3, <2>5 DEF kept
    <3> QED
      BY <2>5, <3>1, MergeKeeps, Zenon
  <2> QED
    BY <2>4, <2>5, <2>6, Zenon DEF near, kept, IdsFor, Lists
<1> QED
  BY <1>1, CellsStart, CellsStep, DescInductive, PTL DEF DescSpec

(***************************************************************************)
(* Module GraphQuery.                                                      *)
(***************************************************************************)

(* The graph.                                                              *)

GNode == [tag : Tags \cup {1}, val : Vals \cup {0, 1}]
GEdge == [src : Nat, dst : Nat, val : Vals \cup {0, 1}]

IsGraph(g) ==
  /\ g \in [nodes : Seq(GNode), edges : Seq(GEdge)]
  /\ \A e \in DOMAIN g.edges : g.edges[e].src \in DOMAIN g.nodes /\ g.edges[e].dst \in DOMAIN g.nodes

IsIter(g, it) ==
  /\ it = [list |-> it.list, pos |-> 1, todo |-> it.todo]
  /\ it.list \in Seq(1..Len(g.nodes)) /\ it.list # <<>>

\* the iterators of nodes stand at the first of at least one node of the graph
ItersOk(g, ns) == NoRef \notin DOMAIN ns /\ \A r \in DOMAIN ns : IsIter(g, ns[r])

St(g, ns, edges) == [graph |-> g, cached |-> [nodes |-> ns, edges |-> edges]]

Ok(s) ==
  /\ s = St(s.graph, s.cached.nodes, s.cached.edges)
  /\ IsGraph(s.graph)
  /\ ItersOk(s.graph, s.cached.nodes)
  /\ NoRef \notin DOMAIN s.cached.edges

\* between two commands, in the transaction and in what is committed
GraphInv == Ok(State) /\ IsGraph(saved)

LEMMA GraphTypes ==
  ASSUME NEW g, IsGraph(g)
  PROVE  /\ Len(g.nodes) \in Nat /\ DOMAIN g.nodes = 1..Len(g.nodes)
         /\ Len(g.edges) \in Nat /\ DOMAIN g.edges = 1..Len(g.edges)
         /\ g.nodes \in Seq(GNode) /\ g.edges \in Seq(GEdge)
BY DEF IsGraph

MatchesOf(g, q) == {n \in DOMAIN g.nodes : g.nodes[n].tag = q.tag /\ Passes(g.nodes[n].val, q.preds)}

LEMMA NodeAndFacts ==
  ASSUME NEW g, IsGraph(g), NEW q
  PROVE  NodeAnd(g, q) \in Seq(1..Len(g.nodes)) /\ ToSet(NodeAnd(g, q)) = MatchesOf(g, q)
<1>1. MatchesOf(g, q) \in SUBSET (1..Len(g.nodes)) /\ Len(g.nodes) \in Nat
  BY GraphTypes DEF MatchesOf
<1>2. NodeAnd(g, q) = InOrder(MatchesOf(g, q))
  BY DEF NodeAnd, MatchesOf
<1> QED
  BY <1>1, <1>2, PartInOrder

LEMMA JoinedSeqs ==
  ASSUME NEW X, NEW s \in Seq(X), NEW t \in Seq(X), s # <<>>
  PROVE  s \o t \in Seq(X) /\ s \o t # <<>> /\ Len(s \o t) >= 1
<1>1. s \o t \in Seq(X) /\ Len(s \o t) = Len(s) + Len(t)
  OBVIOUS
<1>2. Len(s) \in Nat /\ Len(t) \in Nat /\ Len(s) # 0
  OBVIOUS
<1>3. Len(s \o t) >= 1
  BY <1>1, <1>2
<1>4. s \o t # <<>>
  BY <1>3
<1> QED
  BY <1>1, <1>3, <1>4

\* what an iterator still finds is a list of nodes, and not empty
LEMMA TraversedFacts ==
  ASSUME NEW g, IsGraph(g), NEW it, IsIter(g, it)
  PROVE  /\ TraverseAll(g, it) \in Seq(1..Len(g.nodes)) /\ TraverseAll(g, it) # <<>>
         /\ Ahead(g, it) = TraverseAll(g, it) /\ IsIter(g, Reset(g, it))
<1> DEFINE more == UNION {ToSet(NodeAnd(g, q)) : q \in it.todo}
           late == {n \in more : n > Last(it.list)}
<1>0. Len(g.nodes) \in Nat
  BY GraphTypes
<1>1. late \in SUBSET (1..Len(g.nodes))
  <2>1. \A q : ToSet(NodeAnd(g, q)) \subseteq 1..Len(g.nodes)
    BY NodeAndFacts, GraphTypes, SMTT(60) DEF MatchesOf
  <2> QED
    BY <2>1, Zenon
<1>2. InOrder(late) \in Seq(1..Len(g.nodes))
  BY <1>0, <1>1, PartInOrder
<1>3. TraverseAll(g, it) = it.list \o InOrder(late)
  BY DEF TraverseAll
<1>4. it.list \in Seq(1..Len(g.nodes)) /\ it.list # <<>> /\ it.pos = 1
  BY DEF IsIter
<1>5. PICK s : s = TraverseAll(g, it)
  OBVIOUS
<1>6. s \in Seq(1..Len(g.nodes)) /\ s # <<>>
  <2> HIDE DEF late
  <2> QED
    BY <1>2, <1>3, <1>4, <1>5, JoinedSeqs
<1>7. Ahead(g, it) = SubSeq(s, 1, Len(s))
  BY <1>4, <1>5 DEF Ahead
<1>8. SubSeq(s, 1, Len(s)) = s
  BY <1>6
<1>9. IsIter(g, Reset(g, it))
  <2>1. Reset(g, it) = [list |-> s, pos |-> 1, todo |-> {}]
    BY <1>5 DEF Reset, Whole
  <2> QED
    BY <2>1, <1>6 DEF IsIter
<1> QED
  BY <1>5, <1>6, <1>7, <1>8, <1>9

LEMMA WholeIsIter ==
  ASSUME NEW g, NEW ids \in Seq(1..Len(g.nodes)), ids # <<>>
  PROVE  IsIter(g, Whole(ids))
BY DEF IsIter, Whole

LEMMA NotEmpty ==
  ASSUME NEW X, NEW s \in Seq(X), Len(s) >= 1
  PROVE  s # <<>>
OBVIOUS

LEMMA LazyIsIter ==
  ASSUME NEW g, NEW ids \in Seq(1..Len(g.nodes)), ids # <<>>, NEW q
  PROVE  IsIter(g, Lazy(ids, q))
<1>1. CASE Len(ids) < 2
  BY <1>1, WholeIsIter DEF Lazy
<1>2. CASE ~(Len(ids) < 2)
  <2>1. PICK l : l = SubSeq(ids, 1, 2)
    OBVIOUS
  <2>2. l \in Seq(1..Len(g.nodes)) /\ l # <<>>
    <3>1. Len(ids) \in Nat /\ Len(ids) >= 2
      BY <1>2
    <3>2. l \in Seq(1..Len(g.nodes)) /\ Len(l) = 2
      BY <2>1, <3>1
    <3>3. Len(l) >= 1
      BY <3>2
    <3> QED
      BY <3>2, <3>3, NotEmpty, Zenon
  <2>3. Lazy(ids, q) = [list |-> l, pos |-> 1, todo |-> {q}]
    BY <1>2, <2>1 DEF Lazy
  <2> QED
    BY <2>2, <2>3 DEF IsIter
<1> QED
  BY <1>1, <1>2

-----------------------------------------------------------------------------
(* The state of the handler.                                               *)

With(ns, ref, it) == [r \in DOMAIN ns \cup {ref} |-> IF r = ref THEN it ELSE ns[r]]

LEMMA StFields ==
  ASSUME NEW g, NEW ns, NEW edges
  PROVE  /\ St(g, ns, edges).graph = g /\ St(g, ns, edges).cached.nodes = ns
         /\ St(g, ns, edges).cached.edges = edges
         /\ St(g, ns, edges).cached = [nodes |-> ns, edges |-> edges]
BY DEF St

LEMMA OkSt ==
  ASSUME NEW g, NEW ns, NEW edges, IsGraph(g), ItersOk(g, ns), NoRef \notin DOMAIN edges
  PROVE  Ok(St(g, ns, edges))
<1>1. PICK s : s = St(g, ns, edges)
  OBVIOUS
<1>2. s.graph = g /\ s.cached.nodes = ns /\ s.cached.edges = edges
  BY <1>1 DEF St
<1>3. s = St(s.graph, s.cached.nodes, s.cached.edges)
  BY <1>1, <1>2, Zenon
<1> QED
  BY <1>1, <1>2, <1>3, Zenon DEF Ok

LEMMA WithOk ==
  ASSUME NEW g, NEW ns, ItersOk(g, ns), NEW ref, ref # NoRef, NEW it, IsIter(g, it)
  PROVE  ItersOk(g, With(ns, ref, it))
BY DEF With, ItersOk

\* the fields of s after a Cache
LEMMA CacheNodes ==
  ASSUME NEW s, Ok(s), NEW ref, NEW it, ref # NoRef => IsIter(s.graph, it)
  PROVE  /\ Ok(Cache(s, "nodes", ref, it)) /\ Cache(s, "nodes", ref, it).graph = s.graph
<1>1. PICK g, ns, edges : g = s.graph /\ ns = s.cached.nodes /\ edges = s.cached.edges
  OBVIOUS
<1>2. s = St(g, ns, edges) /\ IsGraph(g) /\ ItersOk(g, ns) /\ NoRef \notin DOMAIN edges
  BY <1>1 DEF Ok
<1>3. CASE ref = NoRef
  BY <1>3 DEF Cache
<1>4. CASE ref # NoRef
  <2>1. Cache(s, "nodes", ref, it)
          = [s EXCEPT !.cached["nodes"] = [r \in DOMAIN @ \cup {ref} |-> IF r = ref THEN it ELSE @[r]]]
    BY <1>4, Zenon DEF Cache
  <2>2. Cache(s, "nodes", ref, it) = St(g, With(ns, ref, it), edges)
    BY <2>1, <1>2 DEF With, St
  <2>3. ItersOk(g, With(ns, ref, it))
    BY <1>1, <1>2, <1>4, WithOk
  <2> QED
    <3>1. Ok(Cache(s, "nodes", ref, it))
      BY <1>2, <2>2, <2>3, OkSt, Zenon
    <3>2. Cache(s, "nodes", ref, it).graph = g
      BY <2>2 DEF St
    <3> QED
      BY <1>1, <3>1, <3>2
<1> QED
  BY <1>3, <1>4

LEMMA CacheEdges ==
  ASSUME NEW s, Ok(s), NEW ref, NEW it
  PROVE  /\ Ok(Cache(s, "edges", ref, it)) /\ Cache(s, "edges", ref, it).graph = s.graph
<1>1. PICK g, ns, edges : g = s.graph /\ ns = s.cached.nodes /\ edges = s.cached.edges
  OBVIOUS
<1>2. s = St(g, ns, edges) /\ IsGraph(g) /\ ItersOk(g, ns) /\ NoRef \notin DOMAIN edges
  BY <1>1 DEF Ok
<1>3. CASE ref = NoRef
  BY <1>3 DEF Cache
<1>4. CASE ref # NoRef
  <2>1. Cache(s, "edges", ref, it)
          = [s EXCEPT !.cached["edges"] = [r \in DOMAIN @ \cup {ref} |-> IF r = ref THEN it ELSE @[r]]]
    BY <1>4, Zenon DEF Cache
  <2>2. Cache(s, "edges", ref, it) = St(g, ns, With(edges, ref, it))
    BY <2>1, <1>2 DEF With, St
  <2>3. NoRef \notin DOMAIN With(edges, ref, it)
    BY <1>2, <1>4 DEF With
  <2> QED
    <3>1. Ok(Cache(s, "edges", ref, it))
      BY <1>2, <2>2, <2>3, OkSt, Zenon
    <3>2. Cache(s, "edges", ref, it).graph = g
      BY <2>2 DEF St
    <3> QED
      BY <1>1, <3>1, <3>2
<1> QED
  BY <1>3, <1>4

\* a used iterator is back at the start, and nothing else has changed
LEMMA UsedOk ==
  ASSUME NEW s, Ok(s), NEW ref
  PROVE  /\ Ok(Used(s, ref)) /\ Used(s, ref).graph = s.graph
         /\ DOMAIN Used(s, ref).cached.nodes = DOMAIN s.cached.nodes
<1>1. PICK g, ns, edges : g = s.graph /\ ns = s.cached.nodes /\ edges = s.cached.edges
  OBVIOUS
<1>2. s = St(g, ns, edges) /\ IsGraph(g) /\ ItersOk(g, ns) /\ NoRef \notin DOMAIN edges
  BY <1>1 DEF Ok
<1>3. CASE ref \notin DOMAIN ns
  BY <1>1, <1>3 DEF Used
<1>4. CASE ref \in DOMAIN ns
  <2> DEFINE after == [ns EXCEPT ![ref] = Reset(g, @)]
  <2>1. Used(s, ref) = [s EXCEPT !.cached.nodes[ref] = Reset(g, @)]
    BY <1>1, <1>4, Zenon DEF Used
  <2>2. Used(s, ref) = St(g, after, edges)
    BY <2>1, <1>2 DEF St
  <2>3. ItersOk(g, after)
    <3>1. IsIter(g, Reset(g, ns[ref]))
      BY <1>2, <1>4, TraversedFacts DEF ItersOk
    <3>2. DOMAIN after = DOMAIN ns
      OBVIOUS
    <3>3. \A r \in DOMAIN ns : after[r] = IF r = ref THEN Reset(g, ns[ref]) ELSE ns[r]
      BY Zenon
    <3> HIDE DEF after
    <3> QED
      BY <1>2, <3>1, <3>2, <3>3 DEF ItersOk
  <2>4. DOMAIN after = DOMAIN ns
    OBVIOUS
  <2> HIDE DEF after
  <2> QED
    <3>1. Ok(Used(s, ref))
      BY <1>2, <2>2, <2>3, OkSt, Zenon
    <3>2. Used(s, ref).graph = g /\ Used(s, ref).cached.nodes = after
      BY <2>2 DEF St
    <3> QED
      BY <1>1, <2>4, <3>1, <3>2
<1> QED
  BY <1>1, <1>3, <1>4

-----------------------------------------------------------------------------
(* The searches.                                                           *)

\* the nodes that a link leads to from node n
LinkedFrom(g, n, q) ==
  {m \in Neighbors(g, n, q.link) : g.nodes[m].tag = q.tag /\ Passes(g.nodes[m].val, q.preds)}

LEMMA NeighborsFacts ==
  ASSUME NEW g, IsGraph(g), NEW n, NEW link
  PROVE  Neighbors(g, n, link) \subseteq 1..Len(g.nodes)
<1>1. \A e \in ToSet(g.edges) : e.src \in 1..Len(g.nodes) /\ e.dst \in 1..Len(g.nodes)
  BY GraphTypes, ToSetIsRange DEF IsGraph
<1> QED
  BY <1>1 DEF Neighbors

LEMMA NeighborAndFacts ==
  ASSUME NEW g, IsGraph(g), NEW n, NEW q
  PROVE  /\ NeighborAnd(g, n, q) \in Seq(1..Len(g.nodes))
         /\ ToSet(NeighborAnd(g, n, q)) = LinkedFrom(g, n, q)
<1>1. LinkedFrom(g, n, q) \in SUBSET (1..Len(g.nodes)) /\ Len(g.nodes) \in Nat
  BY NeighborsFacts, GraphTypes DEF LinkedFrom
<1>2. NeighborAnd(g, n, q) = InOrder(LinkedFrom(g, n, q))
  BY DEF NeighborAnd, LinkedFrom
<1> QED
  BY <1>1, <1>2, PartInOrder

LEMMA MultiNeighborFacts ==
  ASSUME NEW g, IsGraph(g), NEW starts \in Seq(1..Len(g.nodes)), NEW q
  PROVE  /\ MultiNeighbor(g, starts, q) \in Seq(1..Len(g.nodes))
         /\ \A m : m \in ToSet(MultiNeighbor(g, starts, q))
                     <=> \E n \in ToSet(starts) : m \in LinkedFrom(g, n, q)
<1> DEFINE rows == [i \in DOMAIN starts |-> NeighborAnd(g, starts[i], q)]
<1>1. PICK k \in Nat : k = Len(starts) /\ DOMAIN starts = 1..k
  OBVIOUS
<1>2. PICK X : X = 1..Len(g.nodes)
  OBVIOUS
<1>3. rows \in [1..k -> Seq(X)]
  <2>1. \A i \in 1..k : NeighborAnd(g, starts[i], q) \in Seq(X)
    BY <1>2, NeighborAndFacts, Zenon
  <2> QED
    BY <1>1, <2>1
<1>4. \A i \in 1..k : ToSet(rows[i]) = LinkedFrom(g, starts[i], q)
  BY <1>1, NeighborAndFacts
<1>5. ToSet(starts) = {starts[i] : i \in 1..k}
  BY <1>1, ToSetIsRange, Zenon
<1>6. MultiNeighbor(g, starts, q) = FlattenSeq(rows)
  BY DEF MultiNeighbor
<1> HIDE DEF rows
<1>7. FlattenSeq(rows) \in Seq(X) /\ \A m : m \in ToSet(FlattenSeq(rows)) <=> \E i \in 1..k : m \in ToSet(rows[i])
  BY <1>3, FlattenFacts
<1>8. ASSUME NEW m
      PROVE  m \in ToSet(FlattenSeq(rows)) <=> \E n \in ToSet(starts) : m \in LinkedFrom(g, n, q)
  <2>1. m \in ToSet(FlattenSeq(rows)) <=> \E i \in 1..k : m \in LinkedFrom(g, starts[i], q)
    BY <1>4, <1>7
  <2> QED
    BY <1>5, <2>1
<1> QED
  BY <1>2, <1>6, <1>7, <1>8

LEMMA WalkFacts ==
  ASSUME NEW g, IsGraph(g), NEW Y, NEW starts \in Seq(Y), NEW end,
         NEW kept \in SUBSET (1..Len(g.edges))
  PROVE  /\ Walk(g, starts, end, kept) \in Seq(1..Len(g.edges))
         /\ \A e : e \in ToSet(Walk(g, starts, end, kept))
                     <=> e \in kept /\ g.edges[e][end] \in ToSet(starts)
<1> DEFINE part(n) == EdgesAt(g, n, end) \cap kept
           rows == [i \in DOMAIN starts |-> InOrder(part(starts[i]))]
<1>0. Len(g.edges) \in Nat /\ DOMAIN g.edges = 1..Len(g.edges)
  BY GraphTypes
<1>1. PICK k \in Nat : k = Len(starts) /\ DOMAIN starts = 1..k
  OBVIOUS
<1>2. PICK X : X = 1..Len(g.edges)
  OBVIOUS
<1>3. ASSUME NEW n
      PROVE  InOrder(part(n)) \in Seq(X) /\ ToSet(InOrder(part(n))) = part(n)
  <2>1. part(n) \in SUBSET (1..Len(g.edges))
    OBVIOUS
  <2> QED
    BY <1>0, <1>2, <2>1, PartInOrder
<1>4. rows \in [1..k -> Seq(X)]
  BY <1>1, <1>3
<1>5. \A i \in 1..k : ToSet(rows[i]) = part(starts[i])
  BY <1>1, <1>3
<1>6. ToSet(starts) = {starts[i] : i \in 1..k}
  BY <1>1, ToSetIsRange, Zenon
<1>7. Walk(g, starts, end, kept) = FlattenSeq(rows)
  BY DEF Walk
<1>8. \A n, e : e \in part(n) <=> e \in kept /\ g.edges[e][end] = n
  BY <1>0 DEF EdgesAt
<1> HIDE DEF rows, part
<1>9. FlattenSeq(rows) \in Seq(X) /\ \A e : e \in ToSet(FlattenSeq(rows)) <=> \E i \in 1..k : e \in ToSet(rows[i])
  BY <1>4, FlattenFacts
<1> QED
  <2>1. ASSUME NEW e
        PROVE  e \in ToSet(FlattenSeq(rows)) <=> e \in kept /\ g.edges[e][end] \in ToSet(starts)
    <3>1. e \in ToSet(FlattenSeq(rows)) <=> \E i \in 1..k : e \in part(starts[i])
      BY <1>5, <1>9
    <3>2. (\E i \in 1..k : e \in part(starts[i])) <=> \E i \in 1..k : e \in kept /\ g.edges[e][end] = starts[i]
      BY <1>8
    <3> QED
      BY <3>1, <3>2, <1>6
  <2> QED
    BY <1>2, <1>7, <1>9, <2>1

\* a search from the nodes of a reference does not ask for one that is not there
LEMMA ResolveFacts ==
  ASSUME NEW s, Ok(s), NEW r \in DOMAIN s.cached.nodes
  PROVE  /\ Resolve(s, r) \in Seq(1..Len(s.graph.nodes)) /\ Resolve(s, r) # <<>>
         /\ Resolve(s, r) = TraverseAll(s.graph, s.cached.nodes[r])
<1>1. IsGraph(s.graph) /\ IsIter(s.graph, s.cached.nodes[r])
  BY DEF Ok, ItersOk
<1> QED
  BY <1>1, TraversedFacts DEF Resolve

IdsOf(s, q) == IF q.link = None THEN NodeAnd(s.graph, q)
                                ELSE MultiNeighbor(s.graph, Resolve(s, q.link.ref), q)

IsAnswer(y) == y = Answer(y.s, y.code, y.ids)

LEMMA QueryNodeOk ==
  ASSUME NEW s, Ok(s), NEW ref, NEW q, NEW unique \in BOOLEAN, NEW results \in BOOLEAN
  PROVE  /\ Ok(QueryNode(s, ref, q, unique, results).s)
         /\ QueryNode(s, ref, q, unique, results).s.graph = s.graph
         /\ IsAnswer(QueryNode(s, ref, q, unique, results))
<1> DEFINE ids == IdsOf(s, q)
           t == IF q.link = None THEN s ELSE Used(s, q.link.ref)
           it == IF q.link = None /\ ~results THEN Lazy(ids, q) ELSE Whole(ids)
<1>1. Ok(t) /\ t.graph = s.graph
  BY UsedOk
<1>2. CASE ref \in DOMAIN s.cached.nodes \/ (q.link # None /\ q.link.ref \notin DOMAIN s.cached.nodes)
  BY <1>2 DEF QueryNode, Answer, IsAnswer
<1>3. CASE ~(ref \in DOMAIN s.cached.nodes \/ (q.link # None /\ q.link.ref \notin DOMAIN s.cached.nodes))
  <2>1. QueryNode(s, ref, q, unique, results)
          = CASE ids = <<>> /\ ref # NoRef -> Answer(t, "Empty", <<>>)
             [] unique /\ Len(ids) > 1 -> Answer(t, "NotUnique", <<>>)
             [] OTHER -> Answer(Cache(t, "nodes", ref, it), "Success", ids)
    BY <1>3, Zenon DEF QueryNode, IdsOf
  <2>2. ids \in Seq(1..Len(s.graph.nodes))
    <3>1. IsGraph(s.graph)
      BY DEF Ok
    <3>2. CASE q.link = None
      BY <3>1, <3>2, NodeAndFacts DEF IdsOf
    <3>3. CASE q.link # None
      <4>1. q.link.ref \in DOMAIN s.cached.nodes
        BY <1>3, <3>3
      <4>2. Resolve(s, q.link.ref) \in Seq(1..Len(s.graph.nodes))
        BY <4>1, ResolveFacts
      <4> QED
        BY <3>1, <3>3, <4>2, MultiNeighborFacts DEF IdsOf
    <3> QED
      BY <3>2, <3>3
  <2>3. ids # <<>> => IsIter(t.graph, it)
    BY <1>1, <2>2, WholeIsIter, LazyIsIter
  <2> HIDE DEF ids, t, it
  <2>4. CASE ids = <<>> /\ ref # NoRef
    BY <1>1, <2>1, <2>4 DEF Answer, IsAnswer
  <2>5. CASE ~(ids = <<>> /\ ref # NoRef) /\ unique /\ Len(ids) > 1
    BY <1>1, <2>1, <2>5 DEF Answer, IsAnswer
  <2>6. CASE ~(ids = <<>> /\ ref # NoRef) /\ ~(unique /\ Len(ids) > 1)
    <3>1. QueryNode(s, ref, q, unique, results) = Answer(Cache(t, "nodes", ref, it), "Success", ids)
      BY <2>1, <2>6
    <3>2. Ok(Cache(t, "nodes", ref, it)) /\ Cache(t, "nodes", ref, it).graph = t.graph
      BY <1>1, <2>3, <2>6, CacheNodes
    <3> QED
      BY <1>1, <3>1, <3>2 DEF Answer, IsAnswer
  <2> QED
    BY <2>4, <2>5, <2>6
<1> QED
  BY <1>2, <1>3

EndsOf(s, r) == IF r \in DOMAIN s.cached.nodes THEN Resolve(s, r) ELSE None

EdgesOf(s, src, dst, preds) == NodeEdge(s.graph, EndsOf(s, src), EndsOf(s, dst), src = dst, preds)

LEMMA QueryEdgeOk ==
  ASSUME NEW s, Ok(s), NEW ref, NEW src, NEW dst, NEW preds, NEW unique \in BOOLEAN
  PROVE  /\ Ok(QueryEdge(s, ref, src, dst, preds, unique).s)
         /\ QueryEdge(s, ref, src, dst, preds, unique).s.graph = s.graph
<1> DEFINE ids == EdgesOf(s, src, dst, preds)
           t == Used(Used(s, src), dst)
<1>1. Ok(t) /\ t.graph = s.graph
  BY UsedOk
<1>2. Ok(Cache(t, "edges", ref, Whole(ids))) /\ Cache(t, "edges", ref, Whole(ids)).graph = t.graph
  BY <1>1, CacheEdges
<1>3. QueryEdge(s, ref, src, dst, preds, unique)
        = IF ref \in DOMAIN s.cached.edges THEN Answer(s, "Error", <<>>)
          ELSE CASE ids = <<>> /\ ref # NoRef -> Answer(t, "Empty", <<>>)
                 [] unique /\ Len(ids) > 1 -> Answer(t, "NotUnique", <<>>)
                 [] OTHER -> Answer(Cache(t, "edges", ref, Whole(ids)), "Success", ids)
  BY Zenon DEF QueryEdge, EdgesOf, EndsOf
<1> HIDE DEF ids, t
<1>4. CASE ref \in DOMAIN s.cached.edges
  BY <1>3, <1>4 DEF Answer
<1>5. CASE ref \notin DOMAIN s.cached.edges /\ ids = <<>> /\ ref # NoRef
  BY <1>1, <1>3, <1>5 DEF Answer
<1>6. CASE ref \notin DOMAIN s.cached.edges /\ ~(ids = <<>> /\ ref # NoRef) /\ unique /\ Len(ids) > 1
  BY <1>1, <1>3, <1>6 DEF Answer
<1>7. CASE ref \notin DOMAIN s.cached.edges /\ ~(ids = <<>> /\ ref # NoRef) /\ ~(unique /\ Len(ids) > 1)
  BY <1>1, <1>2, <1>3, <1>7 DEF Answer
<1> QED
  BY <1>4, <1>5, <1>6, <1>7

-----------------------------------------------------------------------------
(* The commands that change the graph.                                     *)

\* a graph to which nodes and edges have been added keeps its iterators
LEMMA GrownOk ==
  ASSUME NEW s, Ok(s), NEW h, IsGraph(h), Len(h.nodes) >= Len(s.graph.nodes)
  PROVE  Ok([s EXCEPT !.graph = h])
<1>1. PICK g, ns, edges : g = s.graph /\ ns = s.cached.nodes /\ edges = s.cached.edges
  OBVIOUS
<1>2. s = St(g, ns, edges) /\ IsGraph(g) /\ ItersOk(g, ns) /\ NoRef \notin DOMAIN edges
  BY <1>1 DEF Ok
<1>3. [s EXCEPT !.graph = h] = St(h, ns, edges)
  BY <1>2 DEF St
<1>4. 1..Len(g.nodes) \subseteq 1..Len(h.nodes)
  BY <1>1, <1>2, GraphTypes, SMTT(60)
<1>5. \A r \in DOMAIN ns : IsIter(h, ns[r])
  <2>1. ASSUME NEW r \in DOMAIN ns
        PROVE  IsIter(h, ns[r])
    <3>1. IsIter(g, ns[r])
      BY <1>2 DEF ItersOk
    <3>2. ns[r].list \in Seq(1..Len(h.nodes))
      <4>1. PICK X, Y, l : X = 1..Len(g.nodes) /\ Y = 1..Len(h.nodes) /\ l = ns[r].list
        OBVIOUS
      <4>2. l \in Seq(X) /\ X \subseteq Y
        BY <1>4, <3>1, <4>1 DEF IsIter
      <4>3. l \in Seq(Y)
        BY <4>2, SeqOfMore
      <4> QED
        BY <4>1, <4>3
    <3> QED
      BY <3>1, <3>2 DEF IsIter
  <2> QED
    BY <2>1
<1>6. ItersOk(h, ns)
  BY <1>2, <1>5 DEF ItersOk
<1>7. Ok(St(h, ns, edges))
  BY <1>2, <1>6, OkSt
<1> QED
  BY <1>3, <1>7, Zenon

GrownBy(g, tag, val) == [g EXCEPT !.nodes = Append(@, [tag |-> tag, val |-> val])]

Extended(s, x) == Append(s, x)

LEMMA ExtendedFacts ==
  ASSUME NEW X, NEW s \in Seq(X), NEW x \in X
  PROVE  Extended(s, x) \in Seq(X) /\ Len(Extended(s, x)) = Len(s) + 1
BY DEF Extended

LEMMA GrownByOk ==
  ASSUME NEW g, IsGraph(g), NEW tag \in Tags, NEW val \in Vals
  PROVE  IsGraph(GrownBy(g, tag, val)) /\ Len(GrownBy(g, tag, val).nodes) = Len(g.nodes) + 1
<1>1. PICK ns, edges : ns = g.nodes /\ edges = g.edges
  OBVIOUS
<1>2. g = [nodes |-> ns, edges |-> edges] /\ ns \in Seq(GNode) /\ edges \in Seq(GEdge)
  BY <1>1 DEF IsGraph
<1>3. PICK n, more : n = [tag |-> tag, val |-> val] /\ more = Extended(ns, n)
  OBVIOUS
<1>4. n \in GNode
  BY <1>3 DEF GNode
<1>5. more \in Seq(GNode) /\ Len(more) = Len(ns) + 1
  <2>1. ns \in Seq(GNode) /\ more = Extended(ns, n)
    BY <1>2, <1>3
  <2> QED
    BY <1>4, <2>1, ExtendedFacts
<1>6. GrownBy(g, tag, val) = [nodes |-> more, edges |-> edges]
  <2>1. GrownBy(g, tag, val) = [g EXCEPT !.nodes = more]
    BY <1>1, <1>3, Zenon DEF GrownBy, Extended
  <2> QED
    BY <1>2, <2>1
<1>7. DOMAIN ns \subseteq DOMAIN more
  BY <1>2, <1>5
<1>8. \A e \in DOMAIN edges : edges[e].src \in DOMAIN ns /\ edges[e].dst \in DOMAIN ns
  BY <1>1 DEF IsGraph
<1> QED
  BY <1>1, <1>2, <1>5, <1>6, <1>7, <1>8 DEF IsGraph

LEMMA AddNodeOk ==
  ASSUME NEW s, Ok(s), NEW ref, NEW tag \in Tags, NEW val \in Vals, NEW preds
  PROVE  Ok(AddNode(s, ref, tag, val, preds).s)
<1> DEFINE q == [tag |-> tag, preds |-> preds, link |-> None]
           grown == [s EXCEPT !.graph.nodes = Append(@, [tag |-> tag, val |-> val])]
           it == Whole(<<Len(grown.graph.nodes)>>)
           seen == QueryNode(s, ref, q, TRUE, TRUE)
           added == Answer(Cache(grown, "nodes", ref, it), "Success", <<Len(grown.graph.nodes)>>)
<1>1. AddNode(s, ref, tag, val, preds)
        = IF ref \in DOMAIN s.cached.nodes THEN Answer(s, "Error", <<>>)
          ELSE IF preds = None THEN added
          ELSE CASE seen.code = "Success" -> [seen EXCEPT !.code = "Exists"]
                 [] seen.code = "Empty" -> added
                 [] OTHER -> seen
  BY Zenon DEF AddNode
<1>2. PICK h : h = GrownBy(s.graph, tag, val)
  OBVIOUS
<1>3. IsGraph(s.graph)
  BY DEF Ok
<1>4. IsGraph(h) /\ Len(h.nodes) = Len(s.graph.nodes) + 1
  BY <1>2, <1>3, GrownByOk
<1>5. Len(s.graph.nodes) \in Nat
  BY <1>3, GraphTypes
<1>6. grown = [s EXCEPT !.graph = h]
  <2>1. s = St(s.graph, s.cached.nodes, s.cached.edges)
    BY DEF Ok
  <2> QED
    BY <1>2, <2>1 DEF GrownBy, St
<1>7. Ok(grown)
  BY <1>4, <1>5, <1>6, GrownOk
<1>8. grown.graph = h
  <2>1. s = St(s.graph, s.cached.nodes, s.cached.edges)
    BY DEF Ok
  <2> QED
    BY <1>6, <2>1 DEF St
<1>9. IsIter(grown.graph, it)
  <2>1. PICK n : n = Len(h.nodes)
    OBVIOUS
  <2>2. <<n>> \in Seq(1..n)
    BY <1>4, <1>5, <2>1
  <2>3. <<n>> # <<>>
    OBVIOUS
  <2> QED
    BY <1>8, <2>1, <2>2, <2>3, WholeIsIter
<1>10. Ok(Cache(grown, "nodes", ref, it))
  <2> HIDE DEF grown, it
  <2> QED
    BY <1>7, <1>9, CacheNodes
<1>11. Ok(seen.s)
  BY QueryNodeOk
<1>12. Ok(added.s)
  <2> HIDE DEF grown, it
  <2> QED
    BY <1>10 DEF Answer
<1>13. seen.code = "Success" => Ok([seen EXCEPT !.code = "Exists"].s)
  <2>1. [seen EXCEPT !.code = "Exists"].s = seen.s
    <3>1. IsAnswer(seen)
      BY QueryNodeOk
    <3> HIDE DEF seen
    <3> QED
      BY <3>1 DEF Answer, IsAnswer
  <2> QED
    BY <1>11, <2>1
<1> HIDE DEF added, seen
<1>14. CASE ref \in DOMAIN s.cached.nodes
  BY <1>1, <1>14 DEF Answer
<1>15. CASE ref \notin DOMAIN s.cached.nodes /\ preds = None
  BY <1>1, <1>12, <1>15
<1>16. CASE ref \notin DOMAIN s.cached.nodes /\ preds # None
  BY <1>1, <1>11, <1>12, <1>13, <1>16
<1> QED
  BY <1>14, <1>15, <1>16

\* the edges that AddEdge makes for the two lists of nodes
RowOf(from, to, val) == [j \in DOMAIN to |-> [src |-> from, dst |-> to[j], val |-> val]]
NewEdges(ends, dsts, val) == FlattenSeq([i \in DOMAIN ends |-> RowOf(ends[i], dsts, val)])

PairOf(e) == <<e.src, e.dst>>

NewOver(X) == [src : X, dst : X, val : Vals \cup {0}]

IsRow(row, X, from, to, val) ==
  /\ row \in Seq(NewOver(X)) /\ Len(row) = Len(to)
  /\ \A e : e \in ToSet(row) <=> \E d \in ToSet(to) : e = [src |-> from, dst |-> d, val |-> val]

LEMMA RowFacts ==
  ASSUME NEW X, NEW from \in X, NEW to \in Seq(X), NEW val \in Vals \cup {0}
  PROVE  IsRow(RowOf(from, to, val), X, from, to, val)
<1>1. PICK row : row = RowOf(from, to, val)
  OBVIOUS
<1>2. PICK m \in Nat : m = Len(to) /\ DOMAIN to = 1..m
  OBVIOUS
<1>3. \A j \in 1..m : to[j] \in X
  BY <1>2
<1>4. row = [j \in 1..m |-> [src |-> from, dst |-> to[j], val |-> val]]
  BY <1>1, <1>2, Zenon DEF RowOf
<1>5. row \in [1..m -> NewOver(X)]
  BY <1>3, <1>4 DEF NewOver
<1>6. row \in Seq(NewOver(X)) /\ Len(row) = m /\ ToSet(row) = {row[j] : j \in 1..m}
  <2>1. m \in Nat
    BY <1>2
  <2> QED
    BY <1>5, <2>1, ToSetOf
<1>7. ToSet(to) = {to[j] : j \in 1..m}
  BY <1>2, ToSetIsRange, Zenon
<1>8. ASSUME NEW e
      PROVE  e \in ToSet(row) <=> \E d \in ToSet(to) : e = [src |-> from, dst |-> d, val |-> val]
  <2>1. e \in ToSet(row) <=> \E j \in 1..m : e = [src |-> from, dst |-> to[j], val |-> val]
    BY <1>4, <1>6
  <2> QED
    BY <1>7, <2>1
<1> QED
  BY <1>1, <1>2, <1>6, <1>8 DEF IsRow

IsProduct(new, X, ends, dsts, val) ==
  /\ new \in Seq(NewOver(X)) /\ Len(new) = Len(ends) * Len(dsts)
  /\ \A e : e \in ToSet(new) <=> \E n \in ToSet(ends), d \in ToSet(dsts) :
                                    e = [src |-> n, dst |-> d, val |-> val]

LEMMA NewEdgesFacts ==
  ASSUME NEW X, NEW ends \in Seq(X), NEW dsts \in Seq(X), NEW val \in Vals \cup {0}
  PROVE  IsProduct(NewEdges(ends, dsts, val), X, ends, dsts, val)
<1> DEFINE rows == [i \in DOMAIN ends |-> RowOf(ends[i], dsts, val)]
<1>1. PICK k \in Nat : k = Len(ends) /\ DOMAIN ends = 1..k
  OBVIOUS
<1>2. PICK m \in Nat : m = Len(dsts)
  OBVIOUS
<1>3. PICK E : E = NewOver(X)
  OBVIOUS
<1>4. ASSUME NEW i \in 1..k
      PROVE  IsRow(RowOf(ends[i], dsts, val), X, ends[i], dsts, val)
  <2>1. ends[i] \in X
    BY <1>1
  <2> QED
    BY <2>1, RowFacts
<1>5. rows \in [1..k -> Seq(E)]
  BY <1>1, <1>3, <1>4 DEF IsRow
<1>6. \A i \in 1..k : rows[i] = RowOf(ends[i], dsts, val)
  BY <1>1
<1>7. \A i \in 1..k : Len(rows[i]) = m
  BY <1>2, <1>4, <1>6 DEF IsRow
<1>8. ToSet(ends) = {ends[i] : i \in 1..k}
  BY <1>1, ToSetIsRange, Zenon
<1>9. NewEdges(ends, dsts, val) = FlattenSeq(rows)
  BY DEF NewEdges
<1> HIDE DEF rows
<1>10. Len(FlattenSeq(rows)) = k * m
  BY <1>5, <1>7, FlattenLen, ZenonT(60)
<1>11. FlattenSeq(rows) \in Seq(E) /\ \A e : e \in ToSet(FlattenSeq(rows)) <=> \E i \in 1..k : e \in ToSet(rows[i])
  BY <1>5, FlattenFacts
<1>12. ASSUME NEW e
       PROVE  e \in ToSet(FlattenSeq(rows))
                <=> \E n \in ToSet(ends), d \in ToSet(dsts) : e = [src |-> n, dst |-> d, val |-> val]
  <2>1. e \in ToSet(FlattenSeq(rows))
          <=> \E i \in 1..k : \E d \in ToSet(dsts) : e = [src |-> ends[i], dst |-> d, val |-> val]
    <3>1. e \in ToSet(FlattenSeq(rows)) <=> \E i \in 1..k : e \in ToSet(rows[i])
      BY <1>11
    <3>2. ASSUME NEW i \in 1..k
          PROVE  e \in ToSet(rows[i]) <=> \E d \in ToSet(dsts) : e = [src |-> ends[i], dst |-> d, val |-> val]
      BY <1>4, <1>6 DEF IsRow
    <3> QED
      BY <3>1, <3>2
  <2> QED
    BY <1>8, <2>1
<1> QED
  BY <1>1, <1>2, <1>3, <1>9, <1>10, <1>11, <1>12 DEF IsProduct

GraphPlus(g, new) == [g EXCEPT !.edges = @ \o new]

LEMMA GraphPlusOk ==
  ASSUME NEW g, IsGraph(g),
         NEW new \in Seq(NewOver(1..Len(g.nodes)))
  PROVE  /\ IsGraph(GraphPlus(g, new)) /\ GraphPlus(g, new).nodes = g.nodes
         /\ GraphPlus(g, new).edges = g.edges \o new
<1>1. PICK ns, edges : ns = g.nodes /\ edges = g.edges
  OBVIOUS
<1>2. /\ g = [nodes |-> ns, edges |-> edges]
      /\ ns \in Seq(GNode) /\ edges \in Seq(GEdge) /\ DOMAIN ns = 1..Len(ns)
  BY <1>1, GraphTypes DEF IsGraph
<1>3. new \in Seq(GEdge)
  <2>1. PICK E : E = NewOver(1..Len(g.nodes))
    OBVIOUS
  <2>2. Len(g.nodes) \in Nat
    BY GraphTypes
  <2>3. E \subseteq GEdge
    BY <2>1, <2>2 DEF GEdge, NewOver
  <2> QED
    BY <2>1, <2>3, SeqOfMore
<1>4. PICK all : all = Chained(edges, new)
  OBVIOUS
<1>5. /\ all \in Seq(GEdge) /\ Len(all) = Len(edges) + Len(new)
      /\ \A i \in 1..Len(edges) : all[i] = edges[i]
      /\ \A i \in 1..Len(new) : all[Len(edges) + i] = new[i]
  <2>1. edges \in Seq(GEdge)
    BY <1>2
  <2> QED
    <3>1. IsChain(all, edges, new, GEdge)
      BY <1>3, <1>4, <2>1, ChainedFacts
    <3> QED
      BY <3>1 DEF IsChain
<1>6. GraphPlus(g, new) = [nodes |-> ns, edges |-> all]
  <2>1. GraphPlus(g, new) = [g EXCEPT !.edges = all]
    BY <1>1, <1>4, Zenon DEF GraphPlus, Chained
  <2> QED
    BY <1>2, <2>1
<1>7. \A i \in 1..Len(edges) : edges[i].src \in DOMAIN ns /\ edges[i].dst \in DOMAIN ns
  <2>1. edges \in Seq(GEdge)
    BY <1>2
  <2>2. DOMAIN edges = 1..Len(edges)
    BY <2>1
  <2> QED
    BY <1>1, <2>2 DEF IsGraph
<1>8. \A i \in 1..Len(new) : new[i].src \in DOMAIN ns /\ new[i].dst \in DOMAIN ns
  <2>1. PICK E : E = NewOver(1..Len(g.nodes))
    OBVIOUS
  <2>2. new \in Seq(E)
    BY <2>1
  <2>3. \A i \in 1..Len(new) : new[i] \in E
    BY <2>2
  <2>4. \A e \in E : e.src \in DOMAIN ns /\ e.dst \in DOMAIN ns
    BY <1>1, <1>2, <2>1 DEF NewOver
  <2> QED
    BY <2>3, <2>4
<1>9. ASSUME NEW i \in 1..Len(all)
      PROVE  all[i].src \in DOMAIN ns /\ all[i].dst \in DOMAIN ns
  <2>1. Len(edges) \in Nat /\ Len(new) \in Nat
    BY <1>2, <1>3
  <2>2. CASE i <= Len(edges)
    BY <1>5, <1>7, <2>1, <2>2
  <2>3. CASE ~(i <= Len(edges))
    <3>1. PICK k : k = i - Len(edges)
      OBVIOUS
    <3>2. k \in 1..Len(new) /\ i = Len(edges) + k
      <4>1. Len(all) = Len(edges) + Len(new)
        BY <1>5
      <4> QED
        BY <2>1, <2>3, <3>1, <4>1
    <3> QED
      BY <1>5, <1>8, <3>2
  <2> QED
    BY <2>2, <2>3
<1>10. DOMAIN all = 1..Len(all)
  BY <1>5
<1>11. all = edges \o new
  BY <1>4 DEF Chained
<1> QED
  <2>1. PICK h : h = GraphPlus(g, new)
    OBVIOUS
  <2>2. h.nodes = ns /\ h.edges = all /\ h \in [nodes : Seq(GNode), edges : Seq(GEdge)]
    BY <1>2, <1>5, <1>6, <2>1
  <2>3. IsGraph(h)
    BY <1>9, <1>10, <2>2 DEF IsGraph
  <2> QED
    BY <1>1, <1>11, <2>1, <2>2, <2>3

\* the ids of the new edges, and what the command leaves behind
NewIds(s, new) == [i \in DOMAIN new |-> Len(s.graph.edges) + i]
Joined2(s, src, dst, new) == [Used(Used(s, src), dst) EXCEPT !.graph.edges = @ \o new]

LEMMA AddEdgeIs ==
  ASSUME NEW s, NEW ref, NEW src, NEW dst, NEW val
  PROVE  AddEdge(s, ref, src, dst, val)
           = LET ends == Resolve(s, src)
                 dsts == Resolve(s, dst)
                 new == NewEdges(ends, dsts, val)
             IN  IF ref \in DOMAIN s.cached.edges \/ ~({src, dst} \subseteq DOMAIN s.cached.nodes)
                   THEN Answer(s, "Error", <<>>)
                 ELSE IF ends = <<>> \/ dsts = <<>> THEN Answer(s, "Empty", <<>>)
                 ELSE IF src = dst /\ Len(ends) > 1 THEN Answer(s, "Spins", <<>>)
                 ELSE Answer(Cache(Joined2(s, src, dst, new), "edges", ref, Whole(NewIds(s, new))),
                             "Success", NewIds(s, new))
BY Zenon DEF AddEdge, Joined2, NewIds, NewEdges, RowOf

LEMMA JoinedOk ==
  ASSUME NEW s, Ok(s), NEW src, NEW dst,
         NEW new \in Seq(NewOver(1..Len(s.graph.nodes)))
  PROVE  /\ Ok(Joined2(s, src, dst, new))
         /\ Joined2(s, src, dst, new).graph = GraphPlus(s.graph, new)
<1>1. PICK u : u = Used(Used(s, src), dst)
  OBVIOUS
<1>2. Ok(u) /\ u.graph = s.graph
  BY <1>1, UsedOk
<1>3. u = St(u.graph, u.cached.nodes, u.cached.edges)
  BY <1>2 DEF Ok
<1>4. PICK h : h = GraphPlus(s.graph, new)
  OBVIOUS
<1>5. IsGraph(h) /\ h.nodes = s.graph.nodes
  <2>1. IsGraph(s.graph)
    BY DEF Ok
  <2> QED
    BY <1>4, <2>1, GraphPlusOk
<1>6. Joined2(s, src, dst, new) = [u EXCEPT !.graph = h]
  <2>1. Joined2(s, src, dst, new) = [u EXCEPT !.graph.edges = @ \o new]
    BY <1>1, Zenon DEF Joined2
  <2>2. h = [u.graph EXCEPT !.edges = @ \o new]
    BY <1>2, <1>4, Zenon DEF GraphPlus
  <2> QED
    BY <1>3, <2>1, <2>2 DEF St
<1>7. Len(s.graph.nodes) \in Nat
  BY GraphTypes DEF Ok
<1>8. Ok([u EXCEPT !.graph = h])
  BY <1>2, <1>5, <1>7, GrownOk
<1>9. [u EXCEPT !.graph = h].graph = h
  BY <1>3 DEF St
<1> QED
  BY <1>4, <1>6, <1>8, <1>9

LEMMA AddEdgeOk ==
  ASSUME NEW s, Ok(s), NEW ref, NEW src, NEW dst, NEW val \in Vals \cup {0}
  PROVE  Ok(AddEdge(s, ref, src, dst, val).s)
<1> DEFINE ends == Resolve(s, src)
           dsts == Resolve(s, dst)
           new == NewEdges(ends, dsts, val)
           to == Cache(Joined2(s, src, dst, new), "edges", ref, Whole(NewIds(s, new)))
<1>1. AddEdge(s, ref, src, dst, val)
        = IF ref \in DOMAIN s.cached.edges \/ ~({src, dst} \subseteq DOMAIN s.cached.nodes)
            THEN Answer(s, "Error", <<>>)
          ELSE IF ends = <<>> \/ dsts = <<>> THEN Answer(s, "Empty", <<>>)
          ELSE IF src = dst /\ Len(ends) > 1 THEN Answer(s, "Spins", <<>>)
          ELSE Answer(to, "Success", NewIds(s, new))
  BY AddEdgeIs, Zenon
<1>2. ASSUME {src, dst} \subseteq DOMAIN s.cached.nodes
      PROVE  Ok(to)
  <2>1. PICK X : X = 1..Len(s.graph.nodes)
    OBVIOUS
  <2>2. ends \in Seq(X) /\ dsts \in Seq(X)
    BY <1>2, <2>1, ResolveFacts
  <2>3. X \subseteq Nat
    BY <2>1
  <2>4. new \in Seq(NewOver(X))
    <3> HIDE DEF ends, dsts
    <3> QED
      BY <2>2, <2>3, NewEdgesFacts DEF IsProduct
  <2>5. Ok(Joined2(s, src, dst, new))
    <3> HIDE DEF new
    <3> QED
      BY <2>1, <2>4, JoinedOk
  <2> HIDE DEF new
  <2> QED
    BY <2>5, CacheEdges
<1> HIDE DEF to, new, ends, dsts
<1> QED
  BY <1>1, <1>2 DEF Answer

LEMMA SetNodesOk ==
  ASSUME NEW s, Ok(s), NEW ids, NEW val \in Vals
  PROVE  Ok([s EXCEPT !.graph.nodes = SetVal(@, ids, val)])
<1>1. PICK g, ns, edges : g = s.graph /\ ns = g.nodes /\ edges = g.edges
  OBVIOUS
<1>2. s = St(g, s.cached.nodes, s.cached.edges) /\ IsGraph(g)
  BY <1>1 DEF Ok
<1>3. /\ g = [nodes |-> ns, edges |-> edges]
      /\ ns \in Seq(GNode) /\ edges \in Seq(GEdge) /\ DOMAIN ns = 1..Len(ns) /\ Len(ns) \in Nat
  BY <1>1, <1>2, GraphTypes DEF IsGraph
<1>4. PICK n \in Nat : n = Len(ns) /\ DOMAIN ns = 1..n
  BY <1>3, Zenon
<1>5. PICK after : after = SetVal(ns, ids, val)
  OBVIOUS
<1>6. after \in [1..n -> GNode]
  <2>1. \A i \in 1..n : ns[i] \in GNode
    BY <1>3, <1>4
  <2>2. \A m \in GNode : [m EXCEPT !.val = val] \in GNode
    BY DEF GNode
  <2>3. after = [i \in 1..n |-> IF i \in ToSet(ids) THEN [ns[i] EXCEPT !.val = val] ELSE ns[i]]
    BY <1>4, <1>5, Zenon DEF SetVal
  <2> QED
    BY <2>1, <2>2, <2>3
<1>7. after \in Seq(GNode) /\ Len(after) = n /\ DOMAIN after = 1..n
  BY <1>6, ToSetOf
<1>8. PICK h : h = [nodes |-> after, edges |-> edges]
  OBVIOUS
<1>9. IsGraph(h) /\ Len(h.nodes) = Len(g.nodes)
  <2>1. h.nodes = after /\ h.edges = edges /\ h \in [nodes : Seq(GNode), edges : Seq(GEdge)]
    BY <1>3, <1>7, <1>8
  <2>2. \A e \in DOMAIN edges : edges[e].src \in 1..n /\ edges[e].dst \in 1..n
    BY <1>1, <1>2, <1>4 DEF IsGraph
  <2> QED
    BY <1>1, <1>4, <1>7, <2>1, <2>2 DEF IsGraph
<1>10. [s EXCEPT !.graph.nodes = SetVal(@, ids, val)] = [s EXCEPT !.graph = h]
  <2>1. [g EXCEPT !.nodes = after] = h
    BY <1>3, <1>8
  <2>2. [s EXCEPT !.graph.nodes = SetVal(@, ids, val)] = [s EXCEPT !.graph = [g EXCEPT !.nodes = after]]
    BY <1>1, <1>2, <1>5 DEF St
  <2> QED
    BY <2>1, <2>2
<1>11. Len(h.nodes) >= Len(s.graph.nodes)
  BY <1>1, <1>4, <1>9
<1> QED
  BY <1>9, <1>10, <1>11, GrownOk

LEMMA SetEdgesOk ==
  ASSUME NEW s, Ok(s), NEW ids, NEW val \in Vals
  PROVE  Ok([s EXCEPT !.graph.edges = SetVal(@, ids, val)])
<1>1. PICK g, ns, edges : g = s.graph /\ ns = g.nodes /\ edges = g.edges
  OBVIOUS
<1>2. s = St(g, s.cached.nodes, s.cached.edges) /\ IsGraph(g)
  BY <1>1 DEF Ok
<1>3. /\ g = [nodes |-> ns, edges |-> edges] /\ Len(ns) \in Nat
      /\ ns \in Seq(GNode) /\ edges \in Seq(GEdge) /\ DOMAIN edges = 1..Len(edges) /\ Len(edges) \in Nat
  BY <1>1, <1>2, GraphTypes DEF IsGraph
<1>4. PICK n \in Nat : n = Len(edges) /\ DOMAIN edges = 1..n
  BY <1>3, Zenon
<1>5. PICK after : after = SetVal(edges, ids, val)
  OBVIOUS
<1>6. /\ after \in [1..n -> GEdge]
      /\ \A i \in 1..n : after[i].src = edges[i].src /\ after[i].dst = edges[i].dst
  <2>1. \A i \in 1..n : edges[i] \in GEdge
    BY <1>3, <1>4
  <2>2. \A e \in GEdge : /\ [e EXCEPT !.val = val] \in GEdge
                         /\ [e EXCEPT !.val = val].src = e.src /\ [e EXCEPT !.val = val].dst = e.dst
    BY DEF GEdge
  <2>3. after = [i \in 1..n |-> IF i \in ToSet(ids) THEN [edges[i] EXCEPT !.val = val] ELSE edges[i]]
    BY <1>4, <1>5, Zenon DEF SetVal
  <2> QED
    BY <2>1, <2>2, <2>3
<1>7. after \in Seq(GEdge) /\ Len(after) = n /\ DOMAIN after = 1..n
  BY <1>6, ToSetOf
<1>8. PICK h : h = [nodes |-> ns, edges |-> after]
  OBVIOUS
<1>9. IsGraph(h) /\ Len(h.nodes) = Len(g.nodes)
  <2>1. h.nodes = ns /\ h.edges = after /\ h \in [nodes : Seq(GNode), edges : Seq(GEdge)]
    BY <1>3, <1>7, <1>8
  <2>2. \A e \in 1..n : edges[e].src \in DOMAIN ns /\ edges[e].dst \in DOMAIN ns
    BY <1>1, <1>2, <1>4 DEF IsGraph
  <2> QED
    BY <1>1, <1>6, <1>7, <2>1, <2>2 DEF IsGraph
<1>10. [s EXCEPT !.graph.edges = SetVal(@, ids, val)] = [s EXCEPT !.graph = h]
  <2>1. [g EXCEPT !.edges = after] = h
    BY <1>3, <1>8
  <2>2. [s EXCEPT !.graph.edges = SetVal(@, ids, val)] = [s EXCEPT !.graph = [g EXCEPT !.edges = after]]
    BY <1>1, <1>2, <1>5 DEF St
  <2> QED
    BY <2>1, <2>2
<1>11. Len(h.nodes) >= Len(s.graph.nodes)
  BY <1>1, <1>3, <1>9
<1> QED
  BY <1>9, <1>10, <1>11, GrownOk

LEMMA UpdateNodeOk ==
  ASSUME NEW s, Ok(s), NEW ref, NEW val \in Vals, NEW seen, Ok(seen.s), NEW foundRef
  PROVE  Ok(UpdateNode(s, ref, val, seen, foundRef).s)
<1> DEFINE t == IF ref \in DOMAIN s.cached.nodes THEN s ELSE seen.s
           r == IF ref \in DOMAIN s.cached.nodes THEN ref ELSE foundRef
           after == [Used(t, r) EXCEPT !.graph.nodes = SetVal(@, Resolve(t, r), val)]
<1>1. UpdateNode(s, ref, val, seen, foundRef)
        = IF ref \notin DOMAIN s.cached.nodes /\ seen.code # "Success" THEN seen
          ELSE Answer(after, "Success", Resolve(t, r))
  BY Zenon DEF UpdateNode
<1>2. Ok(t)
  OBVIOUS
<1> HIDE DEF t, r
<1>3. Ok(Used(t, r))
  BY <1>2, UsedOk
<1>4. Ok(after)
  BY <1>3, SetNodesOk
<1> HIDE DEF after
<1> QED
  BY <1>1, <1>4 DEF Answer

LEMMA UpdateEdgeOk ==
  ASSUME NEW s, Ok(s), NEW ref, NEW val \in Vals, NEW seen, Ok(seen.s), NEW foundRef
  PROVE  Ok(UpdateEdge(s, ref, val, seen, foundRef).s)
<1> DEFINE t == IF ref \in DOMAIN s.cached.edges THEN s ELSE seen.s
           r == IF ref \in DOMAIN s.cached.edges THEN ref ELSE foundRef
           ids == t.cached.edges[r].list
           after == [t EXCEPT !.graph.edges = SetVal(@, ids, val)]
<1>1. UpdateEdge(s, ref, val, seen, foundRef)
        = IF ref \notin DOMAIN s.cached.edges /\ seen.code # "Success" THEN seen
          ELSE Answer(after, "Success", ids)
  BY Zenon DEF UpdateEdge
<1>2. Ok(t)
  OBVIOUS
<1> HIDE DEF t, r, ids
<1>3. Ok(after)
  BY <1>2, SetEdgesOk
<1> HIDE DEF after
<1> QED
  BY <1>1, <1>3 DEF Answer

-----------------------------------------------------------------------------
(* The invariant.                                                          *)

LEMMA StateIs == State.graph = graph /\ State.cached = cached
BY DEF State

LEMMA GraphInit == Init => GraphInv
<1> SUFFICES ASSUME Init
             PROVE  GraphInv
  OBVIOUS
<1>1. PICK a, b, c : /\ a = [tag |-> 1, val |-> 0] /\ b = [tag |-> 1, val |-> 1]
                     /\ c = [src |-> 2, dst |-> 1, val |-> 1]
  OBVIOUS
<1>2. graph.nodes = <<a, b>> /\ (graph.edges = <<>> \/ graph.edges = <<c>>)
      /\ graph = [nodes |-> graph.nodes, edges |-> graph.edges]
  BY <1>1 DEF Init
<1>3. a \in GNode /\ b \in GNode /\ c \in GEdge
  BY <1>1 DEF GNode, GEdge
<1>4. <<a, b>> \in Seq(GNode) /\ DOMAIN <<a, b>> = 1..2 /\ <<>> \in Seq(GEdge) /\ <<c>> \in Seq(GEdge)
      /\ DOMAIN <<c>> = 1..1
  BY <1>3
<1>5. graph \in [nodes : Seq(GNode), edges : Seq(GEdge)]
  BY <1>2, <1>4
<1>6. \A e \in DOMAIN graph.edges : graph.edges[e].src \in 1..2 /\ graph.edges[e].dst \in 1..2
  <2>1. CASE graph.edges = <<>>
    BY <2>1
  <2>2. CASE graph.edges = <<c>>
    BY <1>1, <2>2
  <2> QED
    BY <1>2, <2>1, <2>2
<1>7. IsGraph(graph)
  BY <1>2, <1>4, <1>5, <1>6 DEF IsGraph
<1>8. ItersOk(graph, <<>>) /\ NoRef \notin DOMAIN <<>>
  BY DEF ItersOk
<1>9. State = St(graph, <<>>, <<>>)
  BY DEF State, St, Init, NoRefs
<1>10. Ok(State)
  <2>1. PICK none : none = <<>>
    OBVIOUS
  <2> QED
    BY <1>7, <1>8, <1>9, <2>1, OkSt
<1>11. saved = graph
  BY DEF Init
<1> QED
  BY <1>7, <1>10, <1>11 DEF GraphInv

LEMMA EndOk ==
  ASSUME NEW s, Ok(s), NEW g, IsGraph(g), graph' = g,
         cached' = [nodes |-> <<>>, edges |-> s.cached.edges]
  PROVE  Ok(State')
<1>1. State' = St(g, <<>>, s.cached.edges)
  BY DEF State, St
<1>2. ItersOk(g, <<>>)
  BY DEF ItersOk
<1>3. NoRef \notin DOMAIN s.cached.edges
  BY DEF Ok
<1> QED
  BY <1>1, <1>2, <1>3, OkSt, Zenon

LEMMA RespondOk ==
  ASSUME GraphInv, NEW cmd, NEW r, Ok(r.s), Respond(cmd, r)
  PROVE  GraphInv'
<1>1. CASE r.code = "Spins"
  <2>1. UNCHANGED <<graph, cached, saved>>
    BY <1>1 DEF Respond
  <2> QED
    BY <2>1 DEF GraphInv, State
<1>2. CASE r.code # "Spins" /\ (r.code \in {"Success", "Exists"} \/ cmd \in Dropped)
  <2>1. graph' = r.s.graph /\ cached' = r.s.cached /\ saved' = saved
    BY <1>2, Zenon DEF Respond
  <2>2. State' = r.s
    <3>1. r.s = St(r.s.graph, r.s.cached.nodes, r.s.cached.edges)
      BY DEF Ok
    <3> QED
      BY <2>1, <3>1 DEF State, St
  <2>3. Ok(State')
    BY <2>2
  <2> QED
    BY <2>1, <2>3 DEF GraphInv
<1>3. CASE r.code # "Spins" /\ ~(r.code \in {"Success", "Exists"} \/ cmd \in Dropped)
  <2>1. Abort(r.s)
    BY <1>3, Zenon DEF Respond
  <2>2. graph' = saved /\ saved' = saved /\ cached' = [nodes |-> <<>>, edges |-> r.s.cached.edges]
    BY <2>1 DEF Abort, EndTx
  <2>3. IsGraph(saved)
    BY DEF GraphInv
  <2>4. Ok(State')
    BY <2>2, <2>3, EndOk
  <2> QED
    BY <2>2, <2>3, <2>4 DEF GraphInv
<1> QED
  BY <1>1, <1>2, <1>3

LEMMA GraphStep == GraphInv /\ [Next]_vars => GraphInv'
<1> SUFFICES ASSUME GraphInv, [Next]_vars
             PROVE  GraphInv'
  OBVIOUS
<1> USE DEF GraphInv
<1>0. Ok(State) /\ Ok(NoSearch.s)
  BY DEF NoSearch, Answer
<1>1. CASE UNCHANGED vars
  BY <1>1 DEF vars, State
<1>2. CASE BeginTx
  <2>1. UNCHANGED <<graph, cached>> /\ saved' = graph
    BY <1>2 DEF BeginTx
  <2>2. IsGraph(graph)
    BY StateIs DEF Ok
  <2> QED
    BY <2>1, <2>2 DEF State
<1>3. CASE TxCommit
  <2>1. graph' = graph /\ saved' = saved /\ cached' = [nodes |-> <<>>, edges |-> State.cached.edges]
    BY <1>3, StateIs DEF TxCommit, EndTx
  <2>2. IsGraph(graph)
    BY StateIs DEF Ok
  <2>3. Ok(State')
    BY <2>1, <2>2, EndOk
  <2> QED
    BY <2>1, <2>3
<1>4. CASE AddEntity
  <2>1. PICK ref \in AnyRef, tag \in Tags, val \in Vals, preds \in Constraints :
          Respond("AddEntity", AddNode(State, ref, tag, val, preds))
    BY <1>4, Zenon DEF AddEntity
  <2> QED
    BY <2>1, AddNodeOk, RespondOk
<1>5. CASE AddLinked
  <2>1. PICK ref \in AnyRef, tag \in Tags, val \in Vals, preds \in Constraints, other \in Refs, out \in BOOLEAN :
          LET own == IF ref = NoRef THEN auto ELSE ref
              added == AddNode(State, own, tag, val, preds)
              ends == IF out THEN <<own, other>> ELSE <<other, own>>
          IN  Respond("AddEntity", IF added.code \in {"Success", "Exists"}
                                     THEN AddEdge(added.s, NoRef, ends[1], ends[2], 0) ELSE added)
    BY <1>5 DEF AddLinked
  <2>2. PICK own, added, ends : /\ added = AddNode(State, own, tag, val, preds)
          /\ Respond("AddEntity", IF added.code \in {"Success", "Exists"}
                                    THEN AddEdge(added.s, NoRef, ends[1], ends[2], 0) ELSE added)
    BY <2>1, Zenon
  <2>3. Ok(added.s)
    BY <2>2, AddNodeOk
  <2>4. Ok(AddEdge(added.s, NoRef, ends[1], ends[2], 0).s)
    BY <2>3, AddEdgeOk
  <2> QED
    <3>1. CASE added.code \in {"Success", "Exists"}
      BY <2>2, <2>4, <3>1, RespondOk
    <3>2. CASE added.code \notin {"Success", "Exists"}
      BY <2>2, <2>3, <3>2, RespondOk
    <3> QED
      BY <3>1, <3>2
<1>6. CASE UpdateEntity
  <2>1. PICK ref \in AnyRef, tag \in Tags, val \in Vals, preds \in PredSets, unique \in BOOLEAN :
          LET own == IF ref = NoRef THEN auto ELSE ref
              q == [tag |-> tag, preds |-> preds, link |-> None]
          IN  Respond("UpdateEntity",
                      UpdateNode(State, ref, val, QueryNode(State, own, q, unique, TRUE), own))
    BY <1>6, ZenonT(60) DEF UpdateEntity
  <2>2. PICK own, seen : /\ \E q : seen = QueryNode(State, own, q, unique, TRUE)
                          /\ Respond("UpdateEntity", UpdateNode(State, ref, val, seen, own))
    BY <2>1, Zenon
  <2>3. Ok(seen.s)
    BY <2>2, QueryNodeOk, ZenonT(60)
  <2>4. Ok(UpdateNode(State, ref, val, seen, own).s)
    BY <2>3, UpdateNodeOk
  <2> QED
    BY <2>2, <2>4, RespondOk
<1>7. CASE UpdateByRef
  <2>1. PICK ref \in AnyRef, val \in Vals :
          \/ Respond("UpdateEntity", UpdateNode(State, ref, val, NoSearch, ref))
          \/ Respond("UpdateConnection", UpdateEdge(State, ref, val, NoSearch, ref))
    BY <1>7, Zenon DEF UpdateByRef
  <2>2. Ok(UpdateNode(State, ref, val, NoSearch, ref).s) /\ Ok(UpdateEdge(State, ref, val, NoSearch, ref).s)
    BY <1>0, UpdateNodeOk, UpdateEdgeOk
  <2> QED
    BY <2>1, <2>2, RespondOk
<1>8. CASE AddConnection
  <2>1. PICK ref \in AnyRef, src \in AnyRef, dst \in AnyRef, val \in Vals :
          Respond("AddConnection", AddEdge(State, ref, src, dst, val))
    BY <1>8, Zenon DEF AddConnection
  <2>2. Ok(AddEdge(State, ref, src, dst, val).s)
    BY AddEdgeOk
  <2> QED
    BY <2>1, <2>2, RespondOk
<1>9. CASE UpdateConnection
  <2>1. PICK ref \in AnyRef, src \in AnyRef, dst \in AnyRef, val \in Vals, preds \in PredSets, unique \in BOOLEAN :
          LET own == IF ref = NoRef THEN auto ELSE ref
              seen == QueryEdge(State, own, src, dst, preds, unique)
          IN  Respond("UpdateConnection", UpdateEdge(State, ref, val, seen, own))
    BY <1>9, Zenon DEF UpdateConnection
  <2>2. PICK own, seen : /\ seen = QueryEdge(State, own, src, dst, preds, unique)
                          /\ Respond("UpdateConnection", UpdateEdge(State, ref, val, seen, own))
    BY <2>1, Zenon
  <2>3. Ok(seen.s)
    BY <2>2, QueryEdgeOk
  <2>4. Ok(UpdateEdge(State, ref, val, seen, own).s)
    BY <2>3, UpdateEdgeOk
  <2> QED
    BY <2>2, <2>4, RespondOk
<1>10. CASE FindEntity
  <2>1. PICK ref \in AnyRef, tag \in Tags, preds \in PredSets, link \in Links \cup {None},
             unique \in BOOLEAN, results \in BOOLEAN :
          Respond("FindEntity", QueryNode(State, ref, [tag |-> tag, preds |-> preds, link |-> link],
                                          unique, results))
    BY <1>10, Zenon DEF FindEntity
  <2>2. Ok(QueryNode(State, ref, [tag |-> tag, preds |-> preds, link |-> link], unique, results).s)
    BY QueryNodeOk
  <2> QED
    BY <2>1, <2>2, RespondOk
<1>11. CASE FindEntityOr
  <2>1. PICK link, code, ids :
          Respond("FindEntity", Answer(IF link = None THEN State ELSE Used(State, link.ref), code, ids))
    BY <1>11, ZenonT(60) DEF FindEntityOr
  <2>2. Ok(Answer(IF link = None THEN State ELSE Used(State, link.ref), code, ids).s)
    BY UsedOk DEF Answer
  <2> QED
    BY <2>1, <2>2, RespondOk
<1>12. CASE FindConnection
  <2>1. PICK ref \in AnyRef, src \in AnyRef, dst \in AnyRef, preds \in PredSets, unique \in BOOLEAN :
          Respond("FindConnection", QueryEdge(State, ref, src, dst, preds, unique))
    BY <1>12, Zenon DEF FindConnection
  <2>2. Ok(QueryEdge(State, ref, src, dst, preds, unique).s)
    BY QueryEdgeOk
  <2> QED
    BY <2>1, <2>2, RespondOk
<1>13. CASE FindConnectionOr
  BY <1>0, <1>13, RespondOk DEF FindConnectionOr
<1> QED
  BY <1>1, <1>2, <1>3, <1>4, <1>5, <1>6, <1>7, <1>8, <1>9, <1>10, <1>11, <1>12, <1>13, Zenon DEF Next

\* Between two commands the iterator behind every reference is back at the first of its nodes,
\* of which there is at least one, and every edge runs between nodes (PMGDQueryHandler.cc:
\* add_edge, query_node and query_edge reset the iterators they walked).
THEOREM GraphInvariant == Spec => []GraphInv
<1> QED
  BY GraphInit, GraphStep, PTL DEF Spec

-----------------------------------------------------------------------------
(* What the commands find.                                                 *)

LEMMA MeantIs ==
  ASSUME Ok(State), NEW ref \in DOMAIN cached.nodes
  PROVE  /\ Meant(ref) = ToSet(Resolve(State, ref)) /\ Resolve(State, ref) # <<>>
         /\ Resolve(State, ref) \in Seq(1..Len(graph.nodes))
<1>1. ref \in DOMAIN State.cached.nodes
  BY StateIs
<1>2. /\ Resolve(State, ref) \in Seq(1..Len(State.graph.nodes)) /\ Resolve(State, ref) # <<>>
      /\ Resolve(State, ref) = TraverseAll(State.graph, State.cached.nodes[ref])
  BY <1>1, ResolveFacts
<1> QED
  BY <1>2, StateIs DEF Meant

\* For any graph, and whatever commands walked the reference before, a FindEntity finds exactly
\* the nodes that match, and with a link exactly those linked to some node of the reference
\* (PMGDIterators.h, the neighbour iterator over several start nodes).
THEOREM FindsExactly == Spec => []FindExact
<1>1. ASSUME GraphInv PROVE FindExact
  <2>0. Ok(State) /\ IsGraph(graph) /\ NoRef \notin DOMAIN State.cached.nodes
    BY <1>1, StateIs DEF GraphInv, Ok, ItersOk
  <2> SUFFICES ASSUME NEW tag \in Tags, NEW preds \in PredSets,
                      NEW link \in {None} \cup {l \in Links : l.ref \in DOMAIN cached.nodes},
                      NEW q, q = [tag |-> tag, preds |-> preds, link |-> link]
               PROVE  ToSet(QueryNode(State, NoRef, q, FALSE, TRUE).ids)
                        = IF link = None THEN Wanted(q) ELSE Linked(q)
    BY Zenon DEF FindExact
  <2>1. q.tag = tag /\ q.preds = preds /\ q.link = link
    OBVIOUS
  <2>2. ~(q.link # None /\ q.link.ref \notin DOMAIN State.cached.nodes)
    BY <2>1, StateIs
  <2>3. QueryNode(State, NoRef, q, FALSE, TRUE).ids = IdsOf(State, q)
    BY <2>0, <2>2 DEF QueryNode, IdsOf, Answer
  <2>4. MatchesOf(graph, q) = Wanted(q)
    BY DEF MatchesOf, Wanted
  <2>5. CASE link = None
    <3>1. IdsOf(State, q) = NodeAnd(graph, q)
      BY <2>1, <2>5, StateIs DEF IdsOf
    <3> QED
      BY <2>0, <2>3, <2>4, <2>5, <3>1, NodeAndFacts
  <2>6. CASE link # None
    <3>1. PICK starts : starts = Resolve(State, link.ref)
      OBVIOUS
    <3>2. starts \in Seq(1..Len(graph.nodes)) /\ ToSet(starts) = Meant(link.ref)
      <4>1. link.ref \in DOMAIN cached.nodes
        BY <2>6
      <4> QED
        BY <2>0, <3>1, <4>1, MeantIs
    <3>3. IdsOf(State, q) = MultiNeighbor(graph, starts, q)
      BY <2>1, <2>6, <3>1, StateIs DEF IdsOf
    <3>4. \A m : m \in ToSet(MultiNeighbor(graph, starts, q))
                   <=> \E n \in Meant(link.ref) : m \in LinkedFrom(graph, n, q)
      BY <2>0, <3>2, MultiNeighborFacts
    <3>5. \A m : m \in Linked(q) <=> \E n \in Meant(link.ref) : m \in LinkedFrom(graph, n, q)
      <4>1. \A n : Neighbors(graph, n, link) \subseteq DOMAIN graph.nodes
        BY <2>0, NeighborsFacts, GraphTypes
      <4>2. ASSUME NEW m
            PROVE  m \in Linked(q) <=> \E n \in Meant(link.ref) : m \in LinkedFrom(graph, n, q)
        <5>1. \A n : m \in Neighbors(graph, n, link)
                       <=> \E e \in ToSet(graph.edges) :
                              /\ Passes(e.val, link.preds)
                              /\ \/ link.dir # "in" /\ e.src = n /\ e.dst = m
                                 \/ link.dir # "out" /\ e.dst = n /\ e.src = m
          BY Zenon DEF Neighbors
        <5>2. m \in Linked(q) <=> m \in Wanted(q) /\ \E n \in Meant(link.ref) : m \in Neighbors(graph, n, link)
          BY <2>1, <5>1 DEF Linked
        <5>3. \A n : m \in LinkedFrom(graph, n, q) <=> m \in Wanted(q) /\ m \in Neighbors(graph, n, link)
          BY <2>1, <4>1 DEF LinkedFrom, Wanted
        <5> QED
          BY <5>2, <5>3
      <4> QED
        BY <4>2
    <3>6. ToSet(IdsOf(State, q)) = Linked(q)
      BY <3>3, <3>4, <3>5
    <3> QED
      BY <2>3, <2>6, <3>6
  <2> QED
    BY <2>5, <2>6
<1> QED
  BY <1>1, GraphInvariant, PTL

EdgesFound(g, srcs, dsts, shared, all, seen) ==
  /\ srcs = None /\ dsts = None => seen = all
  /\ srcs = None /\ dsts # None =>
       /\ seen \subseteq {e \in all : g.edges[e].dst \in ToSet(dsts)}
       /\ EdgesAt(g, Head(dsts), "dst") # {} => seen = {e \in all : g.edges[e].dst \in ToSet(dsts)}
  /\ srcs # None =>
       LET both == {e \in all : /\ g.edges[e].src \in ToSet(srcs)
                                /\ dsts # None => g.edges[e].dst \in ToSet(dsts)}
       IN  /\ seen \subseteq both
           /\ ~shared /\ EdgesAt(g, Head(srcs), "src") # {} => seen = both

LEMMA NodeEdgeCases ==
  ASSUME NEW g, IsGraph(g), NEW srcs, NEW dsts, NEW preds, NEW shared \in BOOLEAN,
         srcs = None \/ (srcs \in Seq(1..Len(g.nodes)) /\ srcs # <<>> /\ srcs # None),
         dsts = None \/ (dsts \in Seq(1..Len(g.nodes)) /\ dsts # <<>> /\ dsts # None),
         NEW all, all = {e \in DOMAIN g.edges : Passes(g.edges[e].val, preds)},
         NEW seen, seen = ToSet(NodeEdge(g, srcs, dsts, shared, preds))
  PROVE  EdgesFound(g, srcs, dsts, shared, all, seen)
<1>0. all \in SUBSET (1..Len(g.edges)) /\ Len(g.edges) \in Nat /\ Len(g.nodes) \in Nat
  BY GraphTypes
<1>1. PICK starts : starts = IF srcs = None THEN dsts ELSE IF shared THEN <<Head(srcs)>> ELSE srcs
  OBVIOUS
<1>2. PICK end : end = IF srcs = None THEN "dst" ELSE "src"
  OBVIOUS
<1>3. PICK kept : kept = {e \in all : srcs = None \/ dsts = None \/ g.edges[e].dst \in ToSet(dsts)}
  OBVIOUS
<1>4. NodeEdge(g, srcs, dsts, shared, preds)
        = IF starts = None THEN InOrder(all)
          ELSE IF EdgesAt(g, Head(starts), end) = {} THEN <<>>
          ELSE Walk(g, starts, end, kept)
  BY <1>1, <1>2, <1>3, Zenon DEF NodeEdge
<1>5. ToSet(InOrder(all)) = all
  BY <1>0, PartInOrder
<1>6. ToSet(<<>>) = {}
  BY DEF ToSet
<1>7. kept \in SUBSET (1..Len(g.edges))
  BY <1>0, <1>3
<1>8. ASSUME NEW l \in Seq(1..Len(g.nodes))
      PROVE  ToSet(Walk(g, l, end, kept)) = {e \in kept : g.edges[e][end] \in ToSet(l)}
  <2>1. PICK Y : Y = 1..Len(g.nodes)
    OBVIOUS
  <2>2. \A e : e \in ToSet(Walk(g, l, end, kept)) <=> e \in kept /\ g.edges[e][end] \in ToSet(l)
    BY <1>7, <2>1, WalkFacts
  <2> QED
    BY <2>2
<1>9. CASE srcs = None /\ dsts = None
  BY <1>1, <1>4, <1>5, <1>9 DEF EdgesFound
<1>10. CASE srcs = None /\ dsts # None
  <2>1. starts = dsts /\ end = "dst" /\ kept = all /\ starts # None
    BY <1>1, <1>2, <1>3, <1>10
  <2>2. ToSet(Walk(g, dsts, end, kept)) = {e \in all : g.edges[e].dst \in ToSet(dsts)}
    BY <1>8, <1>10, <2>1
  <2> QED
    BY <1>4, <1>6, <1>10, <2>1, <2>2 DEF EdgesFound
<1>11. CASE srcs # None /\ ~shared
  <2>1. starts = srcs /\ end = "src" /\ starts # None
    BY <1>1, <1>2, <1>11
  <2>2. ToSet(Walk(g, srcs, end, kept)) = {e \in kept : g.edges[e].src \in ToSet(srcs)}
    BY <1>8, <1>11, <2>1
  <2>3. {e \in kept : g.edges[e].src \in ToSet(srcs)}
          = {e \in all : /\ g.edges[e].src \in ToSet(srcs)
                         /\ dsts # None => g.edges[e].dst \in ToSet(dsts)}
    BY <1>3, <1>11
  <2> QED
    BY <1>4, <1>6, <1>11, <2>1, <2>2, <2>3 DEF EdgesFound
<1>12. CASE srcs # None /\ shared
  <2>1. starts = <<Head(srcs)>> /\ end = "src"
    BY <1>1, <1>2, <1>12
  <2>2. Head(srcs) \in ToSet(srcs) /\ Head(srcs) \in 1..Len(g.nodes)
    <3>1. Len(srcs) \in Nat /\ Len(srcs) # 0 /\ DOMAIN srcs = 1..Len(srcs) /\ Head(srcs) = srcs[1]
      BY <1>12
    <3>2. 1 \in DOMAIN srcs
      BY <3>1
    <3>3. srcs[1] \in 1..Len(g.nodes)
      BY <1>12, <3>2
    <3> QED
      BY <3>1, <3>2, <3>3 DEF ToSet
  <2>3. PICK h : h = Head(srcs)
    OBVIOUS
  <2>4. <<h>> \in Seq(1..Len(g.nodes)) /\ ToSet(<<h>>) = {h}
    BY <2>2, <2>3 DEF ToSet
  <2>5. starts # None
    <3>1. <<h>> \in Seq(Nat)
      BY <2>2, <2>3
    <3> QED
      BY <2>1, <2>3, <3>1, NoneApart
  <2>6. ToSet(Walk(g, starts, end, kept)) = {e \in kept : g.edges[e].src = h}
    BY <1>8, <2>1, <2>3, <2>4
  <2>7. {e \in kept : g.edges[e].src = h}
          \subseteq {e \in all : /\ g.edges[e].src \in ToSet(srcs)
                                 /\ dsts # None => g.edges[e].dst \in ToSet(dsts)}
    BY <1>3, <1>12, <2>2, <2>3
  <2> QED
    BY <1>4, <1>6, <1>12, <2>5, <2>6, <2>7 DEF EdgesFound
<1> QED
  BY <1>9, <1>10, <1>11, <1>12

\* For any graph, a FindConnection returns only edges that match and run between the two
\* references, and all of them unless the references are one or the first start node has no edge
\* (PMGDIterators.h:238, where the search gives up).
THEOREM FindsEdges == Spec => []EdgesExact
<1>1. ASSUME GraphInv PROVE EdgesExact
  <2>0. Ok(State) /\ IsGraph(graph) /\ NoRef \notin DOMAIN cached.nodes /\ NoRef \notin DOMAIN State.cached.edges
    BY <1>1, StateIs DEF GraphInv, Ok, ItersOk
  <2> DEFINE seen(src, dst, preds) == ToSet(QueryEdge(State, NoRef, src, dst, preds, FALSE).ids)
             wanted(src, dst, preds) == {e \in DOMAIN graph.edges :
                     /\ Passes(graph.edges[e].val, preds)
                     /\ src # NoRef => graph.edges[e].src \in Meant(src)
                     /\ dst # NoRef => graph.edges[e].dst \in Meant(dst)}
             start(src, dst) ==
                 CASE src # NoRef -> EdgesAt(graph, Head(Resolve(State, src)), "src")
                   [] src = NoRef /\ dst # NoRef -> EdgesAt(graph, Head(Resolve(State, dst)), "dst")
                   [] OTHER -> DOMAIN graph.edges
  <2> SUFFICES ASSUME NEW src \in {NoRef} \cup DOMAIN cached.nodes,
                      NEW dst \in {NoRef} \cup DOMAIN cached.nodes, NEW preds \in PredSets
               PROVE  /\ seen(src, dst, preds) \subseteq wanted(src, dst, preds)
                      /\ (src # dst \/ src = NoRef) /\ start(src, dst) # {}
                           => seen(src, dst, preds) = wanted(src, dst, preds)
    BY Zenon DEF EdgesExact
  <2>1. PICK srcs, dsts : srcs = EndsOf(State, src) /\ dsts = EndsOf(State, dst)
    OBVIOUS
  <2>2. QueryEdge(State, NoRef, src, dst, preds, FALSE).ids = NodeEdge(graph, srcs, dsts, src = dst, preds)
    BY <2>0, <2>1, StateIs DEF QueryEdge, EndsOf, Answer
  <2>3. ASSUME NEW r \in DOMAIN cached.nodes
        PROVE  /\ EndsOf(State, r) \in Seq(1..Len(graph.nodes)) /\ EndsOf(State, r) # <<>>
               /\ EndsOf(State, r) # None /\ ToSet(EndsOf(State, r)) = Meant(r)
               /\ EndsOf(State, r) = Resolve(State, r)
    <3>1. EndsOf(State, r) = Resolve(State, r)
      BY StateIs DEF EndsOf
    <3>2. PICK l : l = Resolve(State, r)
      OBVIOUS
    <3>3. l \in Seq(1..Len(graph.nodes)) /\ l # <<>> /\ ToSet(l) = Meant(r)
      BY <2>0, <3>2, MeantIs
    <3>4. l \in Seq(Nat)
      <4>1. Len(graph.nodes) \in Nat
        BY <2>0, GraphTypes
      <4>2. PICK X : X = 1..Len(graph.nodes)
        OBVIOUS
      <4>3. X \subseteq Nat
        BY <4>1, <4>2
      <4> QED
        BY <3>3, <4>2, <4>3, SeqOfMore
    <3> QED
      BY <3>1, <3>2, <3>3, <3>4, NoneApart
  <2>4. EndsOf(State, NoRef) = None
    BY <2>0, StateIs DEF EndsOf
  <2>5. /\ srcs = None \/ (srcs \in Seq(1..Len(graph.nodes)) /\ srcs # <<>> /\ srcs # None)
        /\ dsts = None \/ (dsts \in Seq(1..Len(graph.nodes)) /\ dsts # <<>> /\ dsts # None)
    BY <2>1, <2>3, <2>4
  <2>6. /\ srcs = None <=> src = NoRef
        /\ dsts = None <=> dst = NoRef
        /\ src # NoRef => ToSet(srcs) = Meant(src) /\ srcs = Resolve(State, src)
        /\ dst # NoRef => ToSet(dsts) = Meant(dst) /\ dsts = Resolve(State, dst)
    BY <2>0, <2>1, <2>3, <2>4
  <2>7. PICK all : all = {e \in DOMAIN graph.edges : Passes(graph.edges[e].val, preds)}
    OBVIOUS
  <2>8. PICK same \in BOOLEAN : same = (src = dst)
    OBVIOUS
  <2>9. PICK hits : hits = ToSet(NodeEdge(graph, srcs, dsts, same, preds))
    OBVIOUS
  <2>10. seen(src, dst, preds) = hits
    BY <2>2, <2>8, <2>9
  <2> HIDE DEF seen
  <2>11. EdgesFound(graph, srcs, dsts, same, all, hits)
    BY <2>0, <2>5, <2>7, <2>9, NodeEdgeCases
  <2>12. CASE src = NoRef /\ dst = NoRef
    <3>1. wanted(src, dst, preds) = all
      BY <2>7, <2>12
    <3> QED
      BY <2>6, <2>10, <2>11, <2>12, <3>1 DEF EdgesFound
  <2>13. CASE src = NoRef /\ dst # NoRef
    <3>1. wanted(src, dst, preds) = {e \in all : graph.edges[e].dst \in ToSet(dsts)}
      BY <2>6, <2>7, <2>13
    <3>2. start(src, dst) = EdgesAt(graph, Head(dsts), "dst")
      BY <2>6, <2>13
    <3> QED
      BY <2>6, <2>10, <2>11, <2>13, <3>1, <3>2 DEF EdgesFound
  <2>14. CASE src # NoRef
    <3>1. wanted(src, dst, preds) = {e \in all : /\ graph.edges[e].src \in ToSet(srcs)
                                                 /\ dsts # None => graph.edges[e].dst \in ToSet(dsts)}
      BY <2>6, <2>7, <2>14
    <3>2. start(src, dst) = EdgesAt(graph, Head(srcs), "src")
      BY <2>6, <2>14
    <3> QED
      BY <2>6, <2>8, <2>10, <2>11, <2>14, <3>1, <3>2 DEF EdgesFound
  <2> QED
    BY <2>12, <2>13, <2>14
<1> QED
  BY <1>1, GraphInvariant, PTL

\* the new edges from u to v
EdgeOf(u, v, val) == {[src |-> u, dst |-> v, val |-> val]}

LEMMA RowCount ==
  ASSUME NEW X, NEW from \in X, NEW to \in Seq(X), NEW val, NEW u, NEW v
  PROVE  /\ from = u => CountIn(RowOf(from, to, val), EdgeOf(u, v, val)) = Cardinality(PlacesOf(to, v))
         /\ from # u => CountIn(RowOf(from, to, val), EdgeOf(u, v, val)) = 0
<1>1. PICK row : row = RowOf(from, to, val)
  OBVIOUS
<1>2. DOMAIN row = DOMAIN to /\ \A j \in DOMAIN to : row[j] = [src |-> from, dst |-> to[j], val |-> val]
  BY <1>1 DEF RowOf
<1>3. ASSUME NEW j \in DOMAIN to
      PROVE  row[j] \in EdgeOf(u, v, val) <=> from = u /\ to[j] = v
  BY <1>2 DEF EdgeOf
<1>4. {j \in DOMAIN row : row[j] \in EdgeOf(u, v, val)} = IF from = u THEN PlacesOf(to, v) ELSE {}
  BY <1>2, <1>3 DEF PlacesOf
<1> QED
  BY <1>1, <1>4, FS_EmptySet DEF CountIn

LEMMA ProductCount ==
  ASSUME NEW X, NEW ends \in Seq(X), NEW dsts \in Seq(X), NEW val \in Vals \cup {0}, NEW u, NEW v
  PROVE  CountIn(NewEdges(ends, dsts, val), EdgeOf(u, v, val))
           = Cardinality(PlacesOf(ends, u)) * Cardinality(PlacesOf(dsts, v))
<1> DEFINE rows == [i \in DOMAIN ends |-> RowOf(ends[i], dsts, val)]
<1>1. PICK k \in Nat : k = Len(ends) /\ DOMAIN ends = 1..k
  OBVIOUS
<1>2. PICK m \in Nat : m = Len(dsts) /\ DOMAIN dsts = 1..m
  OBVIOUS
<1>3. PICK E, W : E = NewOver(X) /\ W = EdgeOf(u, v, val)
  OBVIOUS
<1>4. PICK A, B : A = PlacesOf(ends, u) /\ B = PlacesOf(dsts, v)
  OBVIOUS
<1>5. A \in SUBSET (1..k) /\ B \in SUBSET (1..m)
  BY <1>1, <1>2, <1>4 DEF PlacesOf
<1>6. PICK c \in Nat : c = Cardinality(B)
  <2>1. IsFiniteSet(B)
    BY <1>5, ShiftCount
  <2> QED
    BY <2>1, FS_CardinalityType
<1>7. ASSUME NEW i \in 1..k
      PROVE  /\ rows[i] = RowOf(ends[i], dsts, val) /\ rows[i] \in Seq(E)
             /\ i \in A => CountIn(rows[i], W) = c
             /\ i \notin A => CountIn(rows[i], W) = 0
  <2>1. PICK e : e = ends[i] /\ e \in X
    BY <1>1
  <2>2. rows[i] = RowOf(e, dsts, val)
    BY <1>1, <2>1
  <2>3. IsRow(RowOf(e, dsts, val), X, e, dsts, val)
    BY <2>1, RowFacts
  <2>4. /\ e = u => CountIn(RowOf(e, dsts, val), EdgeOf(u, v, val)) = Cardinality(PlacesOf(dsts, v))
        /\ e # u => CountIn(RowOf(e, dsts, val), EdgeOf(u, v, val)) = 0
    BY <2>1, RowCount
  <2>5. i \in A <=> e = u
    BY <1>1, <1>4, <2>1 DEF PlacesOf
  <2> HIDE DEF rows
  <2> QED
    BY <1>3, <1>4, <1>6, <2>1, <2>2, <2>3, <2>4, <2>5 DEF IsRow
<1>8. PICK s : s = rows /\ s \in [1..k -> Seq(E)]
  BY <1>1, <1>7
<1>9. NewEdges(ends, dsts, val) = FlattenSeq(s)
  BY <1>8 DEF NewEdges
<1>10. EachCounts(s, k, E, W, A, c)
  <2> HIDE DEF rows
  <2> QED
    BY <1>5, <1>7, <1>8 DEF EachCounts
<1>11. CountIn(FlattenSeq(s), W) = Cardinality(A) * c
  BY <1>10, FlattenCount
<1> QED
  BY <1>3, <1>4, <1>6, <1>9, <1>11

\* For any graph and any two references, AddConnection joins each two nodes as often as the
\* references stand for them and no others, also when it resolves them in the middle of a
\* transaction and other commands walked them before (PMGDQueryHandler.cc:370, where the inner
\* iterator is reset for each node), and also with the same reference of one node.
THEOREM ConnectsPairs == Spec => []ConnectsEveryPair
<1>1. ASSUME GraphInv PROVE ConnectsEveryPair
  <2>0. Ok(State) /\ IsGraph(graph) /\ NoRef \notin DOMAIN State.cached.edges
    BY <1>1, StateIs DEF GraphInv, Ok
  <2> SUFFICES ASSUME NEW src \in DOMAIN cached.nodes, NEW dst \in DOMAIN cached.nodes,
                      NEW val \in Vals, src # dst \/ Len(Found(src)) = 1,
                      NEW u \in DOMAIN graph.nodes, NEW v \in DOMAIN graph.nodes
               PROVE  LET edges == AddEdge(State, NoRef, src, dst, val).s.graph.edges
                          new == DOMAIN edges \ DOMAIN graph.edges
                      IN  Cardinality({e \in new : edges[e].src = u /\ edges[e].dst = v})
                            = Times(src, u) * Times(dst, v)
    BY Zenon DEF ConnectsEveryPair
  <2>n. PICK new, after : new = AddEdge(State, NoRef, src, dst, val) /\ after = new.s.graph.edges
    OBVIOUS
  <2>1. PICK ends, dsts : ends = Resolve(State, src) /\ dsts = Resolve(State, dst)
    OBVIOUS
  <2>2. PICK X : X = 1..Len(graph.nodes)
    OBVIOUS
  <2>3. /\ ends \in Seq(X) /\ ends # <<>> /\ ends = Found(src)
        /\ dsts \in Seq(X) /\ dsts # <<>> /\ dsts = Found(dst)
    BY <2>0, <2>1, <2>2, MeantIs, ResolveFacts, StateIs DEF Found
  <2>4. PICK edges : edges = NewEdges(ends, dsts, val)
    OBVIOUS
  <2>5. edges \in Seq(NewOver(X))
    BY <2>3, <2>4, NewEdgesFacts DEF IsProduct
  <2>6. PICK k \in Nat : k = Len(edges) /\ DOMAIN edges = 1..k
    BY <2>5
  <2>7. PICK to : to = Joined2(State, src, dst, edges)
    OBVIOUS
  <2>8. new = Answer(to, "Success", NewIds(State, edges))
    <3>1. {src, dst} \subseteq DOMAIN State.cached.nodes
      BY StateIs
    <3>2. new = Answer(Cache(to, "edges", NoRef, Whole(NewIds(State, edges))), "Success", NewIds(State, edges))
      <4>1. new = IF NoRef \in DOMAIN State.cached.edges \/ ~({src, dst} \subseteq DOMAIN State.cached.nodes)
                   THEN Answer(State, "Error", <<>>)
                 ELSE IF ends = <<>> \/ dsts = <<>> THEN Answer(State, "Empty", <<>>)
                 ELSE IF src = dst /\ Len(ends) > 1 THEN Answer(State, "Spins", <<>>)
                 ELSE Answer(Cache(to, "edges", NoRef, Whole(NewIds(State, edges))),
                             "Success", NewIds(State, edges))
        BY <2>1, <2>4, <2>7, <2>n, AddEdgeIs, Zenon
      <4> QED
        <5>1. ~(src = dst /\ Len(ends) > 1)
          <6>1. CASE src # dst
            BY <6>1
          <6>2. CASE Len(Found(src)) = 1
            <7>1. Len(ends) = 1
              BY <2>3, <6>2, Zenon
            <7> QED
              BY <7>1
          <6> QED
            BY <6>1, <6>2
        <5> QED
          BY <2>0, <2>3, <3>1, <4>1, <5>1, Zenon
    <3>3. Cache(to, "edges", NoRef, Whole(NewIds(State, edges))) = to
      BY DEF Cache
    <3> QED
      BY <3>2, <3>3
  <2>9. to.graph.edges = Chained(graph.edges, edges)
    <3>1. to.graph = GraphPlus(State.graph, edges)
      BY <2>0, <2>2, <2>5, <2>7, StateIs, JoinedOk
    <3> QED
      BY <2>0, <2>2, <2>5, <3>1, StateIs, GraphPlusOk DEF Chained
  <2>10. \A i \in 1..k : to.graph.edges[Len(graph.edges) + i] = edges[i]
    <3>1. PICK old : old = graph.edges
      OBVIOUS
    <3>2. old \in Seq(GEdge)
      BY <2>0, <3>1, GraphTypes
    <3>3. edges \in Seq(NewOver(X) \cup GEdge) /\ old \in Seq(NewOver(X) \cup GEdge)
      BY <2>5, <3>2, SeqOfMore
    <3>4. IsChain(Chained(old, edges), old, edges, NewOver(X) \cup GEdge)
      BY <3>3, ChainedFacts
    <3> QED
      BY <2>6, <2>9, <3>1, <3>4 DEF IsChain
  <2>11. after = to.graph.edges
    BY <2>8, <2>n DEF Answer
  <2>12. PICK n \in Nat : n = Len(graph.edges) /\ DOMAIN graph.edges = 1..n
    BY <2>0, GraphTypes
  <2>13. DOMAIN after = 1..(n + k)
    <3>1. PICK old : old = graph.edges
      OBVIOUS
    <3>2. old \in Seq(GEdge)
      BY <2>0, <3>1, GraphTypes
    <3>3. edges \in Seq(NewOver(X) \cup GEdge) /\ old \in Seq(NewOver(X) \cup GEdge)
      BY <2>5, <3>2, SeqOfMore
    <3>4. IsChain(Chained(old, edges), old, edges, NewOver(X) \cup GEdge)
      BY <3>3, ChainedFacts
    <3> QED
      BY <2>6, <2>9, <2>11, <2>12, <3>1, <3>4 DEF IsChain
  <2>14. PICK B : B = {i \in 1..k : edges[i].src = u /\ edges[i].dst = v}
    OBVIOUS
  <2>15. PICK C : C = {e \in DOMAIN after \ DOMAIN graph.edges : after[e].src = u /\ after[e].dst = v}
    OBVIOUS
  <2>16. C = {n + i : i \in B}
    <3>1. \A e \in 1..(n + k) : e \notin 1..n => e - n \in 1..k /\ n + (e - n) = e
      OBVIOUS
    <3>2. \A i \in 1..k : n + i \in 1..(n + k) /\ n + i \notin 1..n
      OBVIOUS
    <3>3. \A i \in 1..k : after[n + i] = edges[i]
      BY <2>10, <2>11, <2>12
    <3>4. ASSUME NEW e \in C PROVE \E i \in B : n + i = e
      <4>1. e \in 1..(n + k) /\ e \notin 1..n /\ after[e].src = u /\ after[e].dst = v
        BY <2>12, <2>13, <2>15, <3>4
      <4>2. PICK i : i = e - n
        OBVIOUS
      <4>3. i \in 1..k /\ n + i = e
        BY <3>1, <4>1, <4>2
      <4> QED
        BY <2>14, <3>3, <4>1, <4>3
    <3>5. ASSUME NEW i \in B PROVE n + i \in C
      BY <2>12, <2>13, <2>14, <2>15, <3>2, <3>3
    <3> QED
      BY <3>4, <3>5
  <2>17. Cardinality(C) = Cardinality(B)
    <3>1. B \in SUBSET (1..k)
      BY <2>14
    <3> QED
      BY <2>16, <3>1, ShiftCount
  <2>18. CountIn(edges, EdgeOf(u, v, val)) = Cardinality(B)
    <3>1. ASSUME NEW i \in 1..k
          PROVE  edges[i] \in EdgeOf(u, v, val) <=> edges[i].src = u /\ edges[i].dst = v
      <4>1. edges[i] \in ToSet(edges)
        BY <2>6, ToSetIsRange, <2>5
      <4>2. PICK a, d : edges[i] = [src |-> a, dst |-> d, val |-> val]
        <5>1. IsProduct(edges, X, ends, dsts, val)
          BY <2>3, <2>4, NewEdgesFacts
        <5> QED
          BY <4>1, <5>1 DEF IsProduct
      <4> QED
        BY <4>2 DEF EdgeOf
    <3>2. B = {i \in DOMAIN edges : edges[i] \in EdgeOf(u, v, val)}
      BY <2>6, <2>14, <3>1
    <3> QED
      BY <3>2 DEF CountIn
  <2>19. CountIn(edges, EdgeOf(u, v, val)) = Times(src, u) * Times(dst, v)
    <3>1. /\ Times(src, u) = Cardinality(PlacesOf(ends, u))
          /\ Times(dst, v) = Cardinality(PlacesOf(dsts, v))
      BY <2>3, Zenon DEF Times, PlacesOf
    <3> QED
      BY <2>3, <2>4, <3>1, ProductCount
  <2> QED
    BY <2>15, <2>17, <2>18, <2>19, <2>n
<1> QED
  BY <1>1, GraphInvariant, PTL

(***************************************************************************)
(* Module FindQuery.                                                       *)
(***************************************************************************)

(* The sum of a list, element by element.                                  *)

Total(s) == FoldLeft(+, 0, s)

IsSum(f, s) ==
  f = [t \in SUBSET (DOMAIN s) |-> IF t = {} THEN 0 ELSE f[t \ {Max(t)}] + s[Max(t)]]

LEMMA TotalIs ==
  ASSUME NEW s
  PROVE  Total(s) = (CHOOSE f : IsSum(f, s))[DOMAIN s]
BY DEF Total, FoldLeft, MapThenFoldSet, IsSum

\* r is the sum of the first elements
SumRun(r, s, n) ==
  /\ r \in [0..n -> Int] /\ r[0] = 0 /\ r[n] = Total(s)
  /\ \A k \in 1..n : r[k] = r[k - 1] + s[k]

LEMMA TotalRun ==
  ASSUME NEW n \in Nat, NEW s, DOMAIN s = 1..n, \A i \in 1..n : s[i] \in Int
  PROVE  \E r : SumRun(r, s, n)
<1> DEFINE F == [p \in Int \X (1..n) |-> p[1] + s[p[2]]]
<1>1. F \in [Int \X (1..n) -> Int]
  OBVIOUS
<1>2. PICK g \in [SUBSET (1..n) -> Int] : IsFold(g, F, 0, n)
  <2>1. PICK X : X = Int
    OBVIOUS
  <2>2. F \in [X \X (1..n) -> X] /\ 0 \in X
    BY <1>1, <2>1
  <2>3. \E g \in [SUBSET (1..n) -> X] : IsFold(g, F, 0, n)
    <3> HIDE DEF F
    <3> QED
      BY <2>2, FoldExists DEF Foldable
  <2> QED
    BY <2>1, <2>3
<1>3. IsSum(g, s)
  <2>1. ASSUME NEW t \in SUBSET (1..n)
        PROVE  g[t] = IF t = {} THEN 0 ELSE g[t \ {Max(t)}] + s[Max(t)]
    <3>1. CASE t = {}
      BY <1>2, <3>1 DEF IsFold
    <3>2. CASE t # {}
      <4>1. Max(t) \in 1..n /\ t \ {Max(t)} \in SUBSET (1..n)
        BY <3>2, MaxFacts
      <4>2. F[<<g[t \ {Max(t)}], Max(t)>>] = g[t \ {Max(t)}] + s[Max(t)]
        BY <4>1
      <4> QED
        BY <1>2, <3>2, <4>2 DEF IsFold
    <3> QED
      BY <3>1, <3>2
  <2>2. g = [t \in SUBSET (1..n) |-> g[t]]
    OBVIOUS
  <2> QED
    BY <2>1, <2>2 DEF IsSum
<1>4. PICK f : f = CHOOSE h : IsSum(h, s)
  OBVIOUS
<1>5. IsSum(f, s) /\ Total(s) = f[1..n]
  BY <1>3, <1>4, TotalIs
<1> DEFINE r == [k \in 0..n |-> f[1..k]]
<1>6. \A t \in SUBSET (1..n) :
        f[t] = IF t = {} THEN 0 ELSE f[t \ {Max(t)}] + s[Max(t)]
  BY <1>5 DEF IsSum
<1>7. r[0] = 0 /\ r[n] = Total(s)
  <2>1. 1..0 = {} /\ {} \in SUBSET (1..n) /\ 0 \in 0..n /\ n \in 0..n
    OBVIOUS
  <2>2. f[{}] = 0
    BY <1>6, <2>1
  <2> QED
    BY <1>5, <2>1, <2>2
<1>8. ASSUME NEW k \in 1..n
      PROVE  r[k] = r[k - 1] + s[k]
  <2>0. k \in Nat /\ k # 0
    OBVIOUS
  <2>1. Max(1..k) = k /\ (1..k) \ {k} = 1..(k - 1) /\ 1..k # {}
    BY <2>0, MaxOfInterval
  <2>2. 1..k \in SUBSET (1..n) /\ k \in 0..n /\ k - 1 \in 0..n
    OBVIOUS
  <2> QED
    BY <1>6, <2>1, <2>2
<1>9. \A k \in 0..n : r[k] \in Int
  <2> DEFINE T == {k \in 0..n : r[k] \in Int}
  <2> HIDE DEF r
  <2>1. 0 \in T
    BY <1>7
  <2>2. \A k \in 1..n : k - 1 \in T => k \in T
    BY <1>8
  <2>3. \A k \in 0..n : k \in T
    <3> HIDE DEF T
    <3> QED
      BY <2>1, <2>2, Climb
  <2> QED
    BY <2>3
<1>10. r \in [0..n -> Int]
  <2>1. r = [k \in 0..n |-> r[k]]
    OBVIOUS
  <2> HIDE DEF r
  <2> QED
    BY <1>9, <2>1
<1> HIDE DEF r
<1> QED
  BY <1>7, <1>8, <1>10 DEF SumRun

LEMMA TotalEmpty == Total(<<>>) = 0
<1>1. PICK s : s = <<>>
  OBVIOUS
<1>2. DOMAIN s = 1..0 /\ \A i \in 1..0 : s[i] \in Int
  BY <1>1
<1>3. PICK r : SumRun(r, s, 0)
  BY <1>2, TotalRun
<1> QED
  BY <1>1, <1>3 DEF SumRun

LEMMA TotalAppend ==
  ASSUME NEW s \in Seq(Int), NEW v \in Int
  PROVE  Total(s) \in Int /\ Total(Append(s, v)) = Total(s) + v
<1>1. PICK n \in Nat : n = Len(s) /\ DOMAIN s = 1..n
  OBVIOUS
<1>2. PICK t : t = Append(s, v)
  OBVIOUS
<1>3. /\ DOMAIN t = 1..(n + 1) /\ t[n + 1] = v
      /\ \A i \in 1..n : t[i] = s[i] /\ s[i] \in Int
  BY <1>1, <1>2
<1>4. \A i \in 1..(n + 1) : t[i] \in Int
  BY <1>3
<1>5. PICK r : SumRun(r, s, n)
  BY <1>1, <1>3, TotalRun
<1>6. PICK q : SumRun(q, t, n + 1)
  BY <1>3, <1>4, TotalRun
<1> DEFINE T == {k \in 0..n : q[k] = r[k]}
<1>7. 0 \in T
  BY <1>5, <1>6 DEF SumRun
<1>8. \A k \in 1..n : k - 1 \in T => k \in T
  BY <1>3, <1>5, <1>6 DEF SumRun
<1>9. n \in T
  <2>1. \A k \in 0..n : k \in T
    <3> HIDE DEF T
    <3> QED
      BY <1>7, <1>8, Climb
  <2>2. n \in 0..n
    OBVIOUS
  <2> QED
    BY <2>1, <2>2
<1>10. q[n + 1] = q[n] + v /\ n + 1 \in 1..(n + 1)
  BY <1>3, <1>6 DEF SumRun
<1>11. q[n + 1] = Total(t) /\ r[n] = Total(s) /\ r[n] \in Int
  BY <1>5, <1>6 DEF SumRun
<1> QED
  BY <1>2, <1>9, <1>10, <1>11

-----------------------------------------------------------------------------
(* Numbers that wrap.                                                      *)

LEMMA ModFacts ==
  ASSUME NEW a \in Int, NEW m \in Nat, m > 0
  PROVE  a % m \in 0..(m - 1) /\ a \div m \in Int /\ a = m * (a \div m) + (a % m)
<1>1. a % m \in 0..(m - 1)
  OBVIOUS
<1>2. a \div m \in Int
  OBVIOUS
<1>3. a = m * (a \div m) + (a % m)
  OBVIOUS
<1> QED
  BY <1>1, <1>2, <1>3, Zenon

LEMMA SameMod ==
  ASSUME NEW a \in Int, NEW b \in Int, NEW k \in Int, NEW m \in Nat, m > 0, a = b + m * k
  PROVE  a % m = b % m
<1>1. PICK x \in 0..(m - 1), c \in Int : x = a % m /\ a = m * c + x
  BY ModFacts, ZenonT(60)
<1>2. PICK y \in 0..(m - 1), d \in Int : y = b % m /\ b = m * d + y
  BY ModFacts
<1>3. PICK e \in Int : e = d + k - c
  BY <1>1, <1>2
<1>4. x - y = m * e
  <2>1. m * e = m * d + m * k - m * c
    BY <1>1, <1>2, <1>3
  <2>2. m * c + x = m * d + y + m * k
    BY <1>1, <1>2
  <2>3. m * c \in Int /\ m * d \in Int /\ m * k \in Int /\ m * e \in Int
    BY <1>1, <1>2, <1>3
  <2> QED
    BY <2>1, <2>2, <2>3
<1>5. x - y < m /\ x - y > -m
  BY <1>1, <1>2
<1>6. e >= 1 => m * e >= m
  BY <1>3
<1>7. e <= -1 => m * e <= -m
  BY <1>3
<1>8. e = 0
  <2>1. m * e \in Int
    BY <1>3
  <2> QED
    BY <1>3, <1>4, <1>5, <1>6, <1>7, <2>1
<1>9. m * e = 0
  BY <1>8
<1> QED
  BY <1>1, <1>2, <1>4, <1>9

LEMMA SizeTFacts ==
  ASSUME NEW n \in Int, NEW v \in Int
  PROVE  /\ SizeT(n) \in 0..(2^WordSize - 1) /\ SizeT(SizeT(n) + v) = SizeT(n + v)
         /\ (SizeT(n) - n) % 2^WordSize = 0
         /\ 0 <= n /\ n < 2^WordSize => SizeT(n) = n
<1>1. PICK m : m = 2^WordSize
  OBVIOUS
<1>2. m \in Nat /\ m > 0
  <2>1. MaxVal * MaxFound \in Nat
    BY FindAssumption
  <2> QED
    BY <1>1, <2>1, FindAssumption
<1>3. PICK x \in 0..(m - 1), c \in Int : x = n % m /\ n = m * c + x
  BY <1>2, ModFacts
<1>4. SizeT(n) = x /\ SizeT(SizeT(n) + v) = (x + v) % m /\ SizeT(n + v) = (n + v) % m
  BY <1>1, <1>3 DEF SizeT
<1>5. (n + v) % m = (x + v) % m
  <2>1. n + v = (x + v) + m * c /\ n + v \in Int /\ x + v \in Int
    BY <1>2, <1>3
  <2> QED
    BY <1>2, <1>3, <2>1, SameMod
<1>6. (x - n) % m = 0
  <2>1. x - n = 0 + m * (-c) /\ x - n \in Int /\ -c \in Int
    BY <1>2, <1>3
  <2>2. (x - n) % m = 0 % m
    BY <1>2, <2>1, SameMod
  <2> QED
    BY <1>2, <2>2
<1>7. 0 <= n /\ n < m => n % m = n
  BY <1>2
<1> QED
  BY <1>1, <1>3, <1>4, <1>5, <1>6, <1>7

-----------------------------------------------------------------------------
(* The sum that a Find keeps.                                              *)

Taken(hits, limit) == IF limit \in 1..Len(hits) THEN SubSeq(hits, 1, limit) ELSE hits

AggInv ==
  /\ agg = [avg |-> agg.avg, limit |-> agg.limit, found |-> agg.found, count |-> agg.count, sum |-> agg.sum]
  /\ agg.found \in Seq(Int) /\ Len(agg.found) <= MaxFound
  /\ agg.limit \in Nat
  /\ agg.count = Len(Taken(agg.found, agg.limit))
  /\ agg.sum = SizeT(Total(Taken(agg.found, agg.limit)))
  /\ Total(Taken(agg.found, agg.limit)) <= MaxVal * agg.count

LEMMA TakenFacts ==
  ASSUME NEW s \in Seq(Int), NEW limit \in Nat
  PROVE  /\ Taken(s, limit) \in Seq(Int)
         /\ Len(Taken(s, limit)) = (IF limit \in 1..Len(s) THEN limit ELSE Len(s))
BY DEF Taken

LEMMA TakenMore ==
  ASSUME NEW s \in Seq(Int), NEW limit \in Nat, NEW v \in Int
  PROVE  IF limit = 0 \/ Len(Taken(s, limit)) < limit
           THEN Taken(s, limit) = s /\ Taken(Append(s, v), limit) = Append(s, v)
           ELSE Taken(Append(s, v), limit) = Taken(s, limit)
<1>0. PICK n \in Nat : n = Len(s)
  OBVIOUS
<1>1. PICK t : t = Append(s, v)
  OBVIOUS
<1>2. t \in Seq(Int) /\ Len(t) = n + 1
  BY <1>0, <1>1
<1>3. CASE limit = 0 \/ Len(Taken(s, limit)) < limit
  <2>1. limit = 0 \/ limit > n
    BY <1>0, <1>3, TakenFacts
  <2>2. Taken(s, limit) = s
    BY <1>0, <2>1 DEF Taken
  <2>3. Taken(t, limit) = t
    <3>1. CASE limit = n + 1
      BY <1>2, <3>1 DEF Taken
    <3>2. CASE limit # n + 1
      BY <1>0, <1>2, <2>1, <3>2 DEF Taken
    <3> QED
      BY <3>1, <3>2
  <2> QED
    BY <1>1, <1>3, <2>2, <2>3
<1>4. CASE ~(limit = 0 \/ Len(Taken(s, limit)) < limit)
  <2>1. limit \in 1..n
    BY <1>0, <1>4, TakenFacts
  <2>2. Taken(s, limit) = SubSeq(s, 1, limit) /\ Taken(t, limit) = SubSeq(t, 1, limit)
    BY <1>0, <1>2, <2>1 DEF Taken
  <2>3. \A i \in 1..limit : t[i] = s[i]
    BY <1>0, <1>1, <2>1
  <2>4. SubSeq(t, 1, limit) = SubSeq(s, 1, limit)
    BY <1>0, <1>2, <2>1, <2>3
  <2> QED
    BY <1>1, <1>4, <2>2, <2>4
<1> QED
  BY <1>3, <1>4

LEMMA AggInit == FindInit => AggInv
<1> SUFFICES ASSUME FindInit
             PROVE  AggInv
  OBVIOUS
<1>1. PICK avg \in BOOLEAN, limit \in 0..2 :
        agg = [avg |-> avg, limit |-> limit, found |-> <<>>, count |-> 0, sum |-> 0]
  BY DEF FindInit
<1>2. PICK none : none = <<>>
  OBVIOUS
<1>3. none \in Seq(Int) /\ Len(none) = 0 /\ Total(none) = 0
  BY <1>2, TotalEmpty
<1>4. Taken(none, limit) = none
  BY <1>3 DEF Taken
<1>5. SizeT(0) = 0
  <2>1. 0 < 2^WordSize
    <3>1. MaxVal * MaxFound \in Nat
      BY FindAssumption
    <3> QED
      BY <3>1, FindAssumption
  <2> QED
    BY <2>1, SizeTFacts
<1>6. MaxVal * 0 = 0 /\ 0 <= MaxFound
  BY FindAssumption
<1> QED
  BY <1>1, <1>2, <1>3, <1>4, <1>5, <1>6 DEF AggInv

LEMMA AggStep == AggInv /\ [FindNext]_findVars => AggInv'
<1> SUFFICES ASSUME AggInv, [FindNext]_findVars
             PROVE  AggInv'
  OBVIOUS
<1>1. CASE UNCHANGED findVars \/ AddConstraint
  <2>1. agg' = agg
    BY <1>1 DEF findVars, AddConstraint
  <2> QED
    BY <2>1 DEF AggInv
<1>2. CASE AddFound
  <2>1. PICK v \in -MaxVal..MaxVal :
          /\ Len(agg.found) < MaxFound
          /\ agg' = IF agg.limit = 0 \/ agg.count < agg.limit
              THEN [agg EXCEPT !.found = Append(@, v), !.count = @ + 1, !.sum = SizeT(@ + v)]
              ELSE [agg EXCEPT !.found = Append(@, v)]
    BY <1>2 DEF AddFound
  <2>2. v \in Int /\ v <= MaxVal /\ MaxVal \in Nat /\ MaxFound \in Nat
    BY FindAssumption
  <2>3. PICK a, l, s, c, t : a = agg.avg /\ l = agg.limit /\ s = agg.found /\ c = agg.count /\ t = agg.sum
    OBVIOUS
  <2>4. /\ agg = [avg |-> a, limit |-> l, found |-> s, count |-> c, sum |-> t]
        /\ s \in Seq(Int) /\ Len(s) <= MaxFound /\ l \in Nat
        /\ c = Len(Taken(s, l)) /\ t = SizeT(Total(Taken(s, l))) /\ Total(Taken(s, l)) <= MaxVal * c
    BY <2>3, Zenon DEF AggInv
  <2>5. PICK u : u = Append(s, v)
    OBVIOUS
  <2>6. u \in Seq(Int) /\ Len(u) = Len(s) + 1 /\ Len(s) \in Nat
    BY <2>2, <2>4, <2>5
  <2>7. Len(u) <= MaxFound
    BY <2>1, <2>2, <2>3, <2>6
  <2>8. CASE l = 0 \/ c < l
    <3>1. agg' = [avg |-> a, limit |-> l, found |-> u, count |-> c + 1, sum |-> SizeT(t + v)]
      BY <2>1, <2>3, <2>4, <2>5, <2>8, ZenonT(60)
    <3>2. Taken(s, l) = s /\ Taken(u, l) = u
      BY <2>2, <2>4, <2>5, <2>8, TakenMore
    <3>3. Total(s) \in Int /\ Total(u) = Total(s) + v
      BY <2>2, <2>4, <2>5, TotalAppend
    <3>4. SizeT(t + v) = SizeT(Total(u))
      BY <2>2, <2>4, <3>2, <3>3, SizeTFacts
    <3>5. c + 1 = Len(u) /\ c \in Nat
      BY <2>4, <2>6, <3>2
    <3>6. Total(u) <= MaxVal * (c + 1)
      <4>1. MaxVal * (c + 1) = MaxVal * c + MaxVal
        BY <2>2, <3>5
      <4>2. MaxVal * c \in Int /\ Total(s) <= MaxVal * c
        BY <2>2, <2>4, <3>2, <3>5
      <4> QED
        BY <2>2, <3>3, <4>1, <4>2
    <3> QED
      BY <2>4, <2>6, <2>7, <3>1, <3>2, <3>4, <3>5, <3>6 DEF AggInv
  <2>9. CASE ~(l = 0 \/ c < l)
    <3>1. agg' = [avg |-> a, limit |-> l, found |-> u, count |-> c, sum |-> t]
      BY <2>1, <2>3, <2>4, <2>5, <2>9
    <3>2. Taken(u, l) = Taken(s, l)
      BY <2>2, <2>4, <2>5, <2>9, TakenMore
    <3> QED
      BY <2>4, <2>6, <2>7, <3>1, <3>2 DEF AggInv
  <2> QED
    BY <2>3, <2>8, <2>9
<1> QED
  BY <1>1, <1>2 DEF FindNext

\* For any values and any limit, the sum is that of the values up to the limit modulo its width,
\* and the average is right unless the total is negative (PMGDQueryHandler.cc:859, where the sum
\* is unsigned and the average is computed from it).
THEOREM SumsExactly == FindSpec => []AggregateExact
<1>1. ASSUME AggInv PROVE AggregateExact
  <2>1. PICK s, l, taken, total : s = agg.found /\ l = agg.limit /\ taken = Taken(s, l) /\ total = Total(taken)
    OBVIOUS
  <2> SUFFICES /\ ~agg.avg => (Aggregate - total) % 2^WordSize = 0
               /\ agg.avg /\ taken # <<>> => (Aggregate = total \div Len(taken)) = (total >= 0)
    BY <2>1, Zenon DEF AggregateExact, Taken, Total
  <2>2. /\ s \in Seq(Int) /\ l \in Nat /\ Len(s) <= MaxFound /\ taken \in Seq(Int)
        /\ agg.count = Len(taken) /\ agg.sum = SizeT(total) /\ total <= MaxVal * Len(taken)
    BY <1>1, <2>1, TakenFacts, Zenon DEF AggInv
  <2>3. total \in Int
    BY <2>1, <2>2, TotalAppend
  <2>4. PICK n \in Nat : n = Len(taken)
    BY <2>2
  <2>5. n <= MaxFound /\ (n = 0 <=> s = <<>>) /\ (taken = <<>> <=> n = 0)
    BY <2>1, <2>2, <2>4, TakenFacts, FindAssumption
  <2>6. PICK m \in Nat : m = 2^WordSize /\ MaxVal * MaxFound < m /\ m > 0
    <3>1. MaxVal * MaxFound \in Nat
      BY FindAssumption
    <3> QED
      BY <3>1, FindAssumption
  <2>7. total < m
    <3>1. MaxVal * n <= MaxVal * MaxFound
      BY <2>5, FindAssumption
    <3>2. MaxVal * n \in Int /\ MaxVal * MaxFound \in Int
      BY FindAssumption
    <3> QED
      BY <2>2, <2>3, <2>4, <2>6, <3>1, <3>2
  <2>8. PICK x \in 0..(m - 1) : x = SizeT(total)
    BY <2>3, <2>6, SizeTFacts
  <2>9. (x - total) % m = 0 /\ (0 <= total => x = total)
    BY <2>3, <2>6, <2>7, <2>8, SizeTFacts
  <2>10. CASE n = 0
    <3>1. Aggregate = 0 /\ total = 0
      BY <2>1, <2>2, <2>4, <2>5, <2>10, TotalEmpty DEF Aggregate
    <3>2. (0 - 0) % m = 0
      BY <2>6
    <3> QED
      BY <2>5, <2>6, <2>10, <3>1, <3>2
  <2>11. CASE n # 0
    <3>1. Aggregate = IF agg.avg THEN x \div n ELSE x
      BY <2>1, <2>2, <2>4, <2>5, <2>8, <2>11 DEF Aggregate
    <3>2. (x \div n = total \div n) <=> total >= 0
      <4>1. CASE total >= 0
        BY <2>9, <2>3, <4>1
      <4>2. CASE total < 0
        <5>1. x \div n >= 0
          BY <2>11
        <5>2. total \div n < 0
          BY <2>3, <2>11, <4>2
        <5>3. ~(total >= 0)
          BY <2>3, <4>2
        <5>4. x \div n # total \div n
          <6>1. PICK y, z : y = x \div n /\ z = total \div n
            OBVIOUS
          <6>2. y \in Int /\ z \in Int
            BY <2>3, <2>11, <6>1
          <6> QED
            BY <5>1, <5>2, <6>1, <6>2
        <5> QED
          BY <5>3, <5>4, Zenon
      <4> QED
        BY <2>3, <4>1, <4>2
    <3> QED
      BY <2>4, <2>6, <2>9, <3>1, <3>2
  <2> QED
    BY <2>10, <2>11
<1> QED
  BY <1>1, AggInit, AggStep, PTL DEF FindSpec

(***************************************************************************)
(* Module Regions.                                                         *)
(***************************************************************************)

(* Bounding boxes.                                                         *)

Ids == DOMAIN regions

\* what FindBoundingBox answers, from the state it is asked in
ImagesIn(shown, ids) ==
  FlattenSeq([i \in DOMAIN ids |-> InOrder({m \in RegionImages : <<ids[i], m>> \in shown})])

AnswerIn(good, rects, shown, ids, limit) ==
  LET images == ImagesIn(shown, ids)
      listed == Listed(ids, limit)
      kept == IF Len(images) < Len(listed) THEN SubSeq(listed, 1, Len(images)) ELSE listed
      read == InOrder({i \in DOMAIN kept : images[i] \in good})
  IN  [entities |-> kept,
       blobs |-> [n \in DOMAIN read |-> Cropped(images[read[n]], rects[kept[read[n]]])]]

LEMMA AnswerIs ==
  ASSUME NEW ids, NEW limit
  PROVE  BoxResponse(Listed(ids, limit), ImagesOf(ids), TRUE) = AnswerIn(readable, regions, shownIn, ids, limit)
BY Zenon DEF BoxResponse, AnswerIn, ImagesOf, ImagesIn

FoundIn(f, good, rects, shown) ==
  f.status = "success" /\ f.blob =>
    /\ f.ids \in Seq(DOMAIN rects) /\ f.limit \in 0..1
    /\ f.entities = AnswerIn(good, rects, shown, f.ids, f.limit).entities
    /\ f.blobs = AnswerIn(good, rects, shown, f.ids, f.limit).blobs

RegionInv ==
  /\ regions \in Seq(Rectangles)
  /\ FoundIn(found, readable, regions, shownIn)

LEMMA RegionPart ==
  ASSUME regions \in Seq(Rectangles), NEW S \in SUBSET Ids
  PROVE  InOrder(S) \in Seq(Ids)
<1>1. PICK n \in Nat : n = Len(regions) /\ Ids = 1..n
  BY DEF Ids
<1>2. S \in SUBSET (1..n)
  BY <1>1
<1> QED
  BY <1>1, <1>2, PartInOrder

LEMMA MatchingSeq ==
  ASSUME regions \in Seq(Rectangles), NEW near \in SUBSET RegionImages, NEW edges, NEW rects
  PROVE  Matching(near, edges, rects) \in Seq(Ids)
<1> DEFINE ids == {id \in DOMAIN regions : \A r \in rects : InRectangle(regions[id], r)}
           of(image) == InOrder({id \in ids : <<id, image>> \in edges})
           images == InOrder(near)
           rows == [i \in DOMAIN images |-> of(images[i])]
<1>1. Matching(near, edges, rects) = IF near = {} THEN InOrder(ids) ELSE FlattenSeq(rows)
  BY Zenon DEF Matching
<1>2. InOrder(ids) \in Seq(Ids)
  <2>1. ids \in SUBSET Ids
    BY DEF Ids
  <2> HIDE DEF ids
  <2> QED
    BY <2>1, RegionPart
<1>3. \A m : of(m) \in Seq(Ids)
  <2>1. \A m : {id \in ids : <<id, m>> \in edges} \in SUBSET Ids
    BY DEF Ids
  <2> HIDE DEF ids
  <2> QED
    BY <2>1, RegionPart
<1>4. PICK k \in Nat : DOMAIN images = 1..k
  <2>1. IsFiniteSet(near) /\ near \subseteq Int
    <3>1. IsFiniteSet(near)
      BY RegionAssumption, FS_Subset
    <3>2. near \subseteq Int
      <4>1. PICK c \in Nat : RegionImages = 1..c
        BY RegionAssumption, FS_CardinalityType
      <4> QED
        BY <4>1
    <3> QED
      BY <3>1, <3>2
  <2>2. DOMAIN images = 1..Cardinality(near) /\ Cardinality(near) \in Nat
    BY <2>1, InOrderList, FS_CardinalityType
  <2> QED
    BY <2>2
<1>5. PICK X : X = Ids
  OBVIOUS
<1> HIDE DEF of
<1>6. rows \in [1..k -> Seq(X)]
  BY <1>3, <1>4, <1>5
<1> HIDE DEF rows
<1>7. FlattenSeq(rows) \in Seq(X)
  BY <1>6, FlattenFacts
<1> QED
  BY <1>1, <1>2, <1>5, <1>7

LEMMA ByCornerSeq ==
  ASSUME regions \in Seq(Rectangles), NEW ids \in Seq(Ids)
  PROVE  ByCorner(ids) \in Seq(Ids)
<1> DEFINE at == {regions[ids[i]].x : i \in DOMAIN ids}
           corners == InOrder(at)
           row(k) == Filtered(ids, {id \in DOMAIN regions : regions[id].x = corners[k]})
           rows == [k \in DOMAIN corners |-> row(k)]
<1>1. ByCorner(ids) = FlattenSeq(rows)
  BY Zenon DEF ByCorner
<1>2. PICK X : X = Ids
  OBVIOUS
<1>3. PICK n \in Nat : n = Len(ids) /\ DOMAIN ids = 1..n
  OBVIOUS
<1>4. IsFiniteSet(at) /\ at \subseteq Int
  <2>1. IsFiniteSet(1..n)
    BY FS_Interval
  <2>2. at = {regions[ids[i]].x : i \in 1..n}
    BY <1>3
  <2>3. IsFiniteSet({regions[ids[i]].x : i \in 1..n})
    <3> DEFINE f == [i \in 1..n |-> regions[ids[i]].x]
               T == {regions[ids[i]].x : i \in 1..n}
    <3>1. f \in Surjection(1..n, T)
      BY DEF Surjection
    <3> HIDE DEF f, T
    <3>2. IsFiniteSet(T)
      BY <2>1, <3>1, FS_Surjection
    <3> QED
      BY <3>2 DEF T
  <2>4. \A i \in 1..n : regions[ids[i]].x \in Corners
    <3>1. \A i \in 1..n : ids[i] \in Ids
      BY <1>3
    <3>2. \A id \in Ids : regions[id] \in Rectangles
      BY DEF Ids
    <3>3. \A r \in Rectangles : r.x \in Corners
      BY DEF Rectangles
    <3> QED
      BY <3>1, <3>2, <3>3
  <2>5. Corners \subseteq Int
    BY RegionAssumption
  <2> QED
    BY <2>2, <2>3, <2>4, <2>5
<1>5. PICK k \in Nat : DOMAIN corners = 1..k
  <2>1. DOMAIN corners = 1..Cardinality(at) /\ Cardinality(at) \in Nat
    <3> HIDE DEF at
    <3> QED
      BY <1>4, InOrderList, FS_CardinalityType
  <2> QED
    BY <2>1
<1>6. \A j : row(j) \in Seq(X)
  <2>1. \A S : IsFiltered(Filtered(ids, S), ids, S, X)
    BY <1>2, FilteredFacts
  <2> QED
    BY <2>1 DEF IsFiltered
<1> HIDE DEF row, corners
<1>7. rows \in [1..k -> Seq(X)]
  BY <1>5, <1>6
<1> HIDE DEF rows
<1>8. FlattenSeq(rows) \in Seq(X)
  BY <1>7, FlattenFacts
<1> QED
  BY <1>1, <1>2, <1>8

LEMMA RegionStart == RegionInit => RegionInv
<1> SUFFICES ASSUME RegionInit
             PROVE  RegionInv
  OBVIOUS
<1>1. regions \in Seq(Rectangles)
  BY DEF RegionInit
<1>2. found.status = "none"
  BY DEF RegionInit, NotFound
<1> QED
  BY <1>1, <1>2 DEF RegionInv, FoundIn

LEMMA RegionStep == RegionInv /\ [RegionNext]_regionVars => RegionInv'
<1> SUFFICES ASSUME RegionInv, [RegionNext]_regionVars
             PROVE  RegionInv'
  OBVIOUS
<1>0. regions \in Seq(Rectangles)
  BY DEF RegionInv
<1>1. CASE UNCHANGED regionVars
  BY <1>1 DEF RegionInv, regionVars
<1>2. ASSUME found' = NotFound, regions' \in Seq(Rectangles)
      PROVE  RegionInv'
  <2>1. found'.status = "none"
    BY <1>2 DEF NotFound
  <2> QED
    BY <1>2, <2>1 DEF RegionInv, FoundIn
<1>3. CASE AddBoundingBox
  <2>1. PICK rect \in Rectangles : regions' = Append(regions, rect) /\ found' = NotFound
    BY <1>3 DEF AddBoundingBox
  <2>2. regions' \in Seq(Rectangles)
    BY <1>0, <2>1
  <2> QED
    BY <1>2, <2>1, <2>2
<1>4. CASE ConnectRegion
  BY <1>0, <1>2, <1>4 DEF ConnectRegion
<1>5. CASE UpdateBoundingBox
  <2>1. PICK ids \in SUBSET DOMAIN regions, rect \in Rectangles :
          /\ regions' = [id \in DOMAIN regions |-> IF id \in ids THEN rect ELSE regions[id]]
          /\ found' = NotFound
    BY <1>5, Zenon DEF UpdateBoundingBox
  <2>2. PICK n \in Nat : n = Len(regions)
    BY <1>0
  <2>3. DOMAIN regions = 1..n /\ \A i \in 1..n : regions[i] \in Rectangles
    BY <1>0, <2>2
  <2>4. regions' \in [1..n -> Rectangles]
    BY <2>1, <2>3
  <2>5. regions' \in Seq(Rectangles)
    BY <2>4, SeqDef
  <2> QED
    BY <1>2, <2>1, <2>5
<1>6. CASE FindBoundingBox
  <2>1. PICK near \in SUBSET RegionImages, edges \in {shownIn, imageEdges},
             rects \in {{}} \cup {{r} : r \in Rectangles}, sort \in BOOLEAN, blob \in BOOLEAN, unique \in BOOLEAN,
             limit \in 0..1 :
          LET matching == Matching(near, edges, rects)
              ids == IF sort THEN ByCorner(matching) ELSE matching
              images == IF blob THEN ImagesOf(ids) ELSE <<>>
              failed == ids = <<>> \/ (unique /\ (Len(ids) > 1 \/ Len(images) > 1))
              answer == BoxResponse(Listed(ids, limit), images, blob)
          IN  /\ found' = [NotFound EXCEPT !.ids = ids, !.limit = limit, !.blob = blob,
                             !.status = IF failed THEN "error" ELSE "success",
                             !.entities = IF failed THEN @ ELSE answer.entities,
                             !.blobs = IF failed THEN @ ELSE answer.blobs]
              /\ UNCHANGED <<readable, regions, shownIn, imageEdges>>
    BY <1>6, Zenon DEF FindBoundingBox
  <2>2. PICK ids, images, answer, failed :
          /\ ids = IF sort THEN ByCorner(Matching(near, edges, rects)) ELSE Matching(near, edges, rects)
          /\ images = IF blob THEN ImagesOf(ids) ELSE <<>>
          /\ answer = BoxResponse(Listed(ids, limit), images, blob)
          /\ found' = [NotFound EXCEPT !.ids = ids, !.limit = limit, !.blob = blob,
                             !.status = IF failed THEN "error" ELSE "success",
                             !.entities = IF failed THEN @ ELSE answer.entities,
                             !.blobs = IF failed THEN @ ELSE answer.blobs]
          /\ UNCHANGED <<readable, regions, shownIn, imageEdges>>
    BY <2>1, Zenon
  <2>3. ids \in Seq(Ids)
    BY <1>0, <2>2, MatchingSeq, ByCornerSeq
  <2>4. found' = [ids |-> ids, limit |-> limit, blob |-> blob,
                  status |-> IF failed THEN "error" ELSE "success",
                  entities |-> IF failed THEN <<>> ELSE answer.entities,
                  blobs |-> IF failed THEN <<>> ELSE answer.blobs]
    BY <2>2 DEF NotFound
  <2>5. /\ found'.ids = ids /\ found'.limit = limit /\ found'.blob = blob
        /\ found'.status = "success" => found'.entities = answer.entities /\ found'.blobs = answer.blobs
    BY <2>4
  <2>6. regions' = regions /\ shownIn' = shownIn /\ readable' = readable
    BY <2>2
  <2>7. blob => answer = AnswerIn(readable, regions, shownIn, ids, limit)
    BY <2>2, AnswerIs
  <2>8. FoundIn(found', readable, regions, shownIn)
    BY <2>3, <2>5, <2>7 DEF FoundIn, Ids
  <2> QED
    BY <1>0, <2>6, <2>8 DEF RegionInv
<1> QED
  BY <1>1, <1>3, <1>4, <1>5, <1>6 DEF RegionNext

LEMMA ListedFacts ==
  ASSUME NEW X, NEW ids \in Seq(X), NEW limit \in 0..1
  PROVE  /\ Listed(ids, limit) \in Seq(X) /\ Len(Listed(ids, limit)) <= Len(ids)
         /\ \A i \in 1..Len(Listed(ids, limit)) : Listed(ids, limit)[i] = ids[i]
<1>1. CASE limit = 0 \/ limit > Len(ids)
  BY <1>1 DEF Listed
<1>2. CASE ~(limit = 0 \/ limit > Len(ids))
  BY <1>2 DEF Listed
<1> QED
  BY <1>1, <1>2

LEMMA ImagesFinite ==
  \A S \in SUBSET RegionImages : IsFiniteSet(S) /\ S \subseteq Int
<1> SUFFICES ASSUME NEW S \in SUBSET RegionImages PROVE IsFiniteSet(S) /\ S \subseteq Int
  OBVIOUS
<1>1. PICK c \in Nat : RegionImages = 1..c
  BY RegionAssumption, FS_CardinalityType
<1>2. S \subseteq Int
  BY <1>1
<1>3. IsFiniteSet(S)
  BY RegionAssumption, FS_Subset
<1> QED
  BY <1>2, <1>3

LEMMA OnlyElement ==
  ASSUME NEW m, NEW row \in Seq({m}), Len(row) = 1
  PROVE  row[1] = m
OBVIOUS

LEMMA ImagesInSeq ==
  ASSUME NEW shown, NEW X, NEW ids \in Seq(X)
  PROVE  ImagesIn(shown, ids) \in Seq(RegionImages)
<1> DEFINE near(id) == {m \in RegionImages : <<id, m>> \in shown}
           rows == [i \in DOMAIN ids |-> InOrder(near(ids[i]))]
<1>1. PICK n \in Nat : DOMAIN ids = 1..n
  OBVIOUS
<1>2. \A S \in SUBSET RegionImages : IsFiniteSet(S) /\ S \subseteq Int
  BY ImagesFinite
<1>3. ASSUME NEW i \in 1..n
      PROVE  rows[i] \in Seq(RegionImages)
  <2>1. PICK S : S = near(ids[i])
    OBVIOUS
  <2>2. S \in SUBSET RegionImages
    BY <2>1
  <2>3. InOrder(S) \in Seq(S)
    BY <1>2, <2>2, InOrderList
  <2>4. InOrder(S) \in Seq(RegionImages)
    BY <2>2, <2>3, SeqOfMore
  <2> QED
    BY <1>1, <2>1, <2>4
<1>4. ImagesIn(shown, ids) = FlattenSeq(rows)
  BY DEF ImagesIn
<1>5. PICK Y : Y = RegionImages
  OBVIOUS
<1>6. rows \in [1..n -> Seq(Y)]
  <2>1. rows = [i \in 1..n |-> rows[i]]
    BY <1>1
  <2> HIDE DEF rows
  <2> QED
    BY <1>3, <1>5, <2>1
<1> HIDE DEF rows
<1>7. FlattenSeq(rows) \in Seq(Y)
  BY <1>6, FlattenFacts
<1> QED
  BY <1>4, <1>5, <1>7

\* the first j images are those of the first j regions
ArePaired(images, ids, shown, j) ==
  /\ j <= Len(images)
  /\ \A i \in 1..j : /\ <<ids[i], images[i]>> \in shown
                     /\ {n \in RegionImages : <<ids[i], n>> \in shown} = {images[i]}

\* the images of regions that lie in one image each, up to one that does not
LEMMA ImagesPaired ==
  ASSUME NEW shown, NEW X, NEW ids \in Seq(X), NEW j \in 0..Len(ids),
         \A k \in 1..j : \E m : {n \in RegionImages : <<ids[k], n>> \in shown} = {m}
  PROVE  ArePaired(ImagesIn(shown, ids), ids, shown, j)
<1> DEFINE near(id) == {m \in RegionImages : <<id, m>> \in shown}
           rows == [i \in DOMAIN ids |-> InOrder(near(ids[i]))]
<1>1. PICK n \in Nat : n = Len(ids) /\ DOMAIN ids = 1..n
  OBVIOUS
<1>0. \A S \in SUBSET RegionImages : IsFiniteSet(S) /\ S \subseteq Int
  BY ImagesFinite
<1>2. ASSUME NEW i \in 1..n
      PROVE  rows[i] \in Seq(RegionImages)
  <2>1. PICK S : S = near(ids[i])
    OBVIOUS
  <2>2. S \in SUBSET RegionImages
    BY <2>1
  <2>3. InOrder(S) \in Seq(S)
    BY <1>0, <2>2, InOrderList
  <2>4. InOrder(S) \in Seq(RegionImages)
    BY <2>2, <2>3, SeqOfMore
  <2> QED
    BY <1>1, <2>1, <2>4
<1>3. ASSUME NEW i \in 1..j
      PROVE  /\ i \in 1..n /\ Len(rows[i]) = 1
             /\ near(ids[i]) = {rows[i][1]} /\ <<ids[i], rows[i][1]>> \in shown
  <2>0. i \in 1..n
    BY <1>1
  <2>2. PICK m : near(ids[i]) = {m}
    OBVIOUS
  <2>3. m \in RegionImages /\ <<ids[i], m>> \in shown
    BY <2>2
  <2>4. PICK S : S = {m}
    OBVIOUS
  <2>5. IsFiniteSet(S) /\ Cardinality(S) = 1 /\ S \subseteq Int /\ S \subseteq RegionImages
    <3>1. S \in SUBSET RegionImages
      BY <2>3, <2>4
    <3> QED
      BY <1>0, <2>4, <3>1, FS_Singleton
  <2>6. PICK row : row = InOrder(S)
    OBVIOUS
  <2>7. row \in Seq(S) /\ Len(row) = 1
    BY <2>5, <2>6, InOrderList
  <2>8. row[1] = m
    BY <2>4, <2>7, OnlyElement
  <2>9. rows[i] = row
    BY <1>1, <2>0, <2>2, <2>4, <2>6
  <2> QED
    BY <2>0, <2>2, <2>3, <2>7, <2>8, <2>9
<1>4. ImagesIn(shown, ids) = FlattenSeq(rows)
  BY DEF ImagesIn
<1>5. rows \in [1..n -> Seq(RegionImages)]
  <2>1. rows = [i \in 1..n |-> rows[i]]
    BY <1>1
  <2> HIDE DEF rows
  <2> QED
    BY <1>2, <2>1
<1> HIDE DEF rows
<1>6. j <= Len(FlattenSeq(rows)) /\ \A i \in 1..j : FlattenSeq(rows)[i] = rows[i][1]
  <2>1. PICK Y : Y = RegionImages
    OBVIOUS
  <2>2. OnesFirst(rows, n, Y, j)
    BY <1>1, <1>3, <1>5, <2>1 DEF OnesFirst
  <2> QED
    BY <2>2, FlattenOnes
<1> QED
  BY <1>3, <1>4, <1>6 DEF ArePaired

\* However many regions match, in whatever order, under whatever limit and however they share
\* images, each blob is cut out of the image its own region lies in, up to the first region that
\* does not lie in exactly one image that can be read, whatever follows it
\* (BoundingBoxCommand.cc:265-270 pairs them by position).
THEOREM PairsRegions == RegionSpec => []RegionsPaired
<1>1. ASSUME RegionInv PROVE RegionsPaired
  <2> SUFFICES ASSUME found.status = "success", found.blob,
                      NEW j \in DOMAIN Listed(found.ids, found.limit),
                      \A k \in 1..j : HasOneImage(found.ids[k])
               PROVE  /\ j \in DOMAIN found.entities /\ j \in DOMAIN found.blobs
                      /\ found.entities[j] = found.ids[j]
                      /\ <<found.ids[j], found.blobs[j].image>> \in shownIn
                      /\ regions[found.ids[j]].x + regions[found.ids[j]].w <= Width
                           => found.blobs[j].rect = regions[found.ids[j]]
    BY Zenon DEF RegionsPaired
  <2>1. PICK ids, limit, listed, images : /\ ids = found.ids /\ limit = found.limit
          /\ listed = Listed(ids, limit) /\ images = ImagesIn(shownIn, ids)
    OBVIOUS
  <2>2. /\ ids \in Seq(Ids) /\ limit \in 0..1
        /\ found.entities = AnswerIn(readable, regions, shownIn, ids, limit).entities
        /\ found.blobs = AnswerIn(readable, regions, shownIn, ids, limit).blobs
    BY <1>1, <2>1 DEF RegionInv, FoundIn, Ids
  <2>3. PICK n \in Nat, q \in Nat : n = Len(ids) /\ DOMAIN ids = 1..n /\ q = Len(listed)
    BY <2>1, <2>2, ListedFacts
  <2>4. q <= n /\ DOMAIN listed = 1..q /\ \A i \in 1..q : listed[i] = ids[i]
    BY <2>1, <2>2, <2>3, ListedFacts, SMTT(60)
  <2>5. j \in 1..q /\ j \in 0..n /\ j \in Nat
    BY <2>1, <2>3, <2>4
  <2>6. \A k \in 1..j : \E m \in readable : {p \in RegionImages : <<ids[k], p>> \in shownIn} = {m}
    BY <2>1 DEF HasOneImage
  <2>7. /\ j <= Len(images)
        /\ \A i \in 1..j : <<ids[i], images[i]>> \in shownIn
                           /\ {p \in RegionImages : <<ids[i], p>> \in shownIn} = {images[i]}
    <3>1. \A k \in 1..j : \E m : {p \in RegionImages : <<ids[k], p>> \in shownIn} = {m}
      BY <2>6
    <3>2. ArePaired(images, ids, shownIn, j)
      BY <2>1, <2>2, <2>3, <2>5, <3>1, ImagesPaired
    <3> QED
      BY <3>2 DEF ArePaired
  <2>8. \A i \in 1..j : images[i] \in readable
    BY <2>6, <2>7
  <2>9. PICK kept, good, read :
          /\ kept = IF Len(images) < Len(listed) THEN SubSeq(listed, 1, Len(images)) ELSE listed
          /\ good = {i \in DOMAIN kept : images[i] \in readable} /\ read = InOrder(good)
    OBVIOUS
  <2>10. PICK l \in Nat : l = Len(images)
    <3>1. images \in Seq(RegionImages)
      BY <2>1, <2>2, ImagesInSeq
    <3> QED
      BY <3>1
  <2>11. PICK d \in Nat : /\ DOMAIN kept = 1..d /\ j <= d
                          /\ \A i \in 1..d : kept[i] = listed[i]
    <3>0. listed \in Seq(Ids)
      BY <2>1, <2>2, ListedFacts
    <3>1. CASE l < q
      <4>1. kept = SubSeq(listed, 1, l)
        BY <2>3, <2>9, <2>10, <3>1
      <4>2. DOMAIN kept = 1..l /\ \A i \in 1..l : kept[i] = listed[i]
        BY <2>3, <3>0, <3>1, <4>1
      <4> QED
        BY <2>7, <2>10, <4>2
    <3>2. CASE ~(l < q)
      <4>1. kept = listed
        BY <2>3, <2>9, <2>10, <3>2
      <4> QED
        BY <2>3, <2>4, <2>5, <4>1
    <3> QED
      BY <3>1, <3>2
  <2>12. good \in SUBSET (1..d) /\ 1..j \subseteq good
    BY <2>5, <2>8, <2>9, <2>11
  <2>13. j <= Cardinality(good) /\ \A i \in 1..j : read[i] = i
    BY <2>5, <2>9, <2>12, InOrderFirst
  <2>14. j \in DOMAIN read /\ read[j] = j
    <3>1. IsFiniteSet(good) /\ good \subseteq Int
      BY <2>12, PartOfInterval
    <3>2. DOMAIN read = 1..Cardinality(good) /\ Cardinality(good) \in Nat
      BY <2>9, <3>1, InOrderList, FS_CardinalityType
    <3>3. j \in 1..j
      BY <2>5
    <3> QED
      BY <2>5, <2>13, <3>2, <3>3
  <2>15. /\ found.entities = kept
         /\ found.blobs = [p \in DOMAIN read |-> Cropped(images[read[p]], regions[kept[read[p]]])]
    <3>1. AnswerIn(readable, regions, shownIn, ids, limit)
            = [entities |-> kept,
               blobs |-> [p \in DOMAIN read |-> Cropped(images[read[p]], regions[kept[read[p]]])]]
      BY <2>1, <2>9, ZenonT(60) DEF AnswerIn
    <3> QED
      BY <2>2, <3>1
  <2>16. kept[j] = ids[j] /\ j \in DOMAIN kept
    BY <2>4, <2>5, <2>11
  <2>17. found.blobs[j] = Cropped(images[j], regions[ids[j]]) /\ j \in DOMAIN found.blobs
    BY <2>14, <2>15, <2>16
  <2>18. PICK b, m, r : b = found.blobs[j] /\ m = images[j] /\ r = regions[ids[j]]
    OBVIOUS
  <2>19. b.image = m /\ (r.x + r.w <= Width => b.rect = r)
    BY <2>17, <2>18 DEF Cropped
  <2>20. <<ids[j], m>> \in shownIn
    <3>1. j \in 1..j
      BY <2>5
    <3> QED
      BY <2>7, <2>18, <3>1
  <2> QED
    BY <2>1, <2>15, <2>16, <2>17, <2>18, <2>19, <2>20, Zenon
<1> QED
  BY <1>1, RegionStart, RegionStep, PTL DEF RegionSpec
=============================================================================
