---------------------------- MODULE Image_proofs ----------------------------
(***************************************************************************)
(* Proofs about modules ImageLoop and TdbImage: however the two threads of *)
(* an ImageLoop pass images around, each operation is applied once and in  *)
(* order, and no image is lost; and an array of TileDB reads back as its   *)
(* image.                                                                  *)
(***************************************************************************)
EXTENDS ImageLoop, TdbImage, Lists_proofs

(***************************************************************************)
(* Module ImageLoop.                                                       *)
(***************************************************************************)

(* The operations of an image, one after the other.                        *)

ExecStep(m, op) == IF m.error \/ (m.ops[m.done + 1] = "remote" /\ m.cv # <<>>) THEN m
                   ELSE Apply(m, op)

Rest(img) == SubSeq(img.ops, img.done + 1, Len(img.ops))

IsExec(f, img, s) ==
  f = [t \in SUBSET (DOMAIN s) |->
         IF t = {} THEN img ELSE ExecStep(f[t \ {Max(t)}], s[Max(t)])]

LEMMA ExecutedIs ==
  ASSUME NEW img
  PROVE  Executed(img) = (CHOOSE f : IsExec(f, img, Rest(img)))[DOMAIN Rest(img)]
BY SMTT(60) DEF Executed, FoldLeft, MapThenFoldSet, IsExec, ExecStep, Rest

ExecSteps(X, s, n) == DOMAIN s = 1..n /\ \A m \in X, i \in 1..n : ExecStep(m, s[i]) \in X

\* r is the image after each operation
ExecRun(r, img, s, n) ==
  /\ r[0] = img /\ r[n] = Executed(img)
  /\ \A k \in 1..n : r[k] = ExecStep(r[k - 1], s[k])

LEMMA ExecutedRun ==
  ASSUME NEW X, NEW img \in X, NEW n \in Nat, NEW s, s = Rest(img), ExecSteps(X, s, n)
  PROVE  \E r : ExecRun(r, img, s, n)
<1>0. DOMAIN s = 1..n /\ \A m \in X, i \in 1..n : ExecStep(m, s[i]) \in X
  BY DEF ExecSteps
<1> DEFINE F == [p \in X \X (1..n) |-> ExecStep(p[1], s[p[2]])]
<1>1. F \in [X \X (1..n) -> X]
  BY <1>0
<1>2. PICK g \in [SUBSET (1..n) -> X] : IsFold(g, F, img, n)
  BY <1>1, FoldExists DEF Foldable
<1>3. IsExec(g, img, s)
  <2>1. ASSUME NEW t \in SUBSET (1..n)
        PROVE  g[t] = IF t = {} THEN img ELSE ExecStep(g[t \ {Max(t)}], s[Max(t)])
    <3>1. CASE t = {}
      BY <1>2, <3>1 DEF IsFold
    <3>2. CASE t # {}
      <4>1. Max(t) \in 1..n /\ t \ {Max(t)} \in SUBSET (1..n)
        BY <3>2, MaxFacts
      <4>2. g[t \ {Max(t)}] \in X
        BY <4>1
      <4>3. F[<<g[t \ {Max(t)}], Max(t)>>] = ExecStep(g[t \ {Max(t)}], s[Max(t)])
        BY <4>1, <4>2
      <4> QED
        BY <1>2, <3>2, <4>3 DEF IsFold
    <3> QED
      BY <3>1, <3>2
  <2>2. g = [t \in SUBSET (1..n) |-> g[t]]
    OBVIOUS
  <2> QED
    BY <1>0, <2>1, <2>2 DEF IsExec
<1>4. PICK f : f = CHOOSE h : IsExec(h, img, s)
  OBVIOUS
<1>5. IsExec(f, img, s) /\ Executed(img) = f[1..n]
  BY <1>0, <1>3, <1>4, ExecutedIs
<1> DEFINE r == [k \in 0..n |-> f[1..k]]
<1>6. \A t \in SUBSET (1..n) :
        f[t] = IF t = {} THEN img ELSE ExecStep(f[t \ {Max(t)}], s[Max(t)])
  BY <1>0, <1>5 DEF IsExec
<1>7. r[0] = img /\ r[n] = Executed(img)
  <2>1. 1..0 = {} /\ {} \in SUBSET (1..n) /\ 0 \in 0..n /\ n \in 0..n
    OBVIOUS
  <2>2. f[{}] = img
    BY <1>6, <2>1
  <2>3. r[0] = f[{}]
    BY <2>1
  <2> QED
    BY <1>5, <2>1, <2>2, <2>3
<1>8. ASSUME NEW k \in 1..n
      PROVE  r[k] = ExecStep(r[k - 1], s[k])
  <2>0. k \in Nat /\ k # 0
    OBVIOUS
  <2>1. Max(1..k) = k /\ (1..k) \ {k} = 1..(k - 1) /\ 1..k # {}
    BY <2>0, MaxOfInterval
  <2>2. 1..k \in SUBSET (1..n) /\ k \in 0..n /\ k - 1 \in 0..n
    OBVIOUS
  <2> QED
    BY <1>6, <2>1, <2>2
<1> HIDE DEF r
<1> QED
  BY <1>7, <1>8 DEF ExecRun
\* sequences of whatever
IsSeq(s) == Len(s) \in Nat /\ s = [n \in 1..Len(s) |-> s[n]]

ItemsOf(s) == {s[n] : n \in 1..Len(s)}

LEMMA ItemsSeq ==
  ASSUME NEW s, IsSeq(s)
  PROVE  s \in Seq(ItemsOf(s))
<1>1. PICK n : n = Len(s)
  OBVIOUS
<1>2. n \in Nat /\ s = [i \in 1..n |-> s[i]]
  BY <1>1 DEF IsSeq
<1>3. s \in [1..n -> ItemsOf(s)]
  BY <1>1, <1>2 DEF ItemsOf
<1> QED
  BY <1>2, <1>3, SeqDef

LEMMA IsSeqOf ==
  ASSUME NEW S, NEW s \in Seq(S)
  PROVE  IsSeq(s)
<1>1. Len(s) \in Nat /\ s \in [1..Len(s) -> S]
  BY LenProperties
<1> QED
  BY <1>1 DEF IsSeq

LEMMA NoneIsSeq == IsSeq(<<>>) /\ Len(<<>>) = 0
<1>1. <<>> \in Seq({}) /\ Len(<<>>) = 0
  BY EmptySeq
<1> QED
  BY <1>1, IsSeqOf

Put(s, x) == Append(s, x)

LEMMA PutFacts ==
  ASSUME NEW s, IsSeq(s), NEW x
  PROVE  /\ IsSeq(Put(s, x)) /\ Len(Put(s, x)) = Len(s) + 1
         /\ \A n \in 1..Len(s) : Put(s, x)[n] = s[n]
         /\ Put(s, x)[Len(s) + 1] = x
<1> DEFINE S == ItemsOf(s) \cup {x}
<1>1. s \in Seq(S) /\ x \in S
  BY ItemsSeq, SeqMonotonic
<1>2. /\ Append(s, x) \in Seq(S)
      /\ Len(Append(s, x)) = Len(s) + 1
      /\ \A n \in 1..Len(s) : Append(s, x)[n] = s[n]
      /\ Append(s, x)[Len(s) + 1] = x
  BY <1>1, AppendProperties
<1> QED
  BY <1>2, IsSeqOf DEF Put

Rem(s) == Tail(s)
First(s) == Head(s)

LEMMA RemFacts ==
  ASSUME NEW s, IsSeq(s), s # <<>>
  PROVE  /\ IsSeq(Rem(s)) /\ Len(s) \in Nat /\ Len(s) >= 1 /\ Len(Rem(s)) = Len(s) - 1
         /\ \A n \in 1..Len(s) - 1 : Rem(s)[n] = s[n + 1]
         /\ First(s) = s[1]
<1>1. s \in Seq(ItemsOf(s))
  BY ItemsSeq
<1>2. /\ Tail(s) \in Seq(ItemsOf(s)) /\ Len(Tail(s)) = Len(s) - 1
      /\ \A n \in 1..Len(Tail(s)) : Tail(s)[n] = s[n + 1]
  BY <1>1, HeadTailProperties
<1>3. Len(s) \in Nat \ {0}
  BY <1>1, EmptySeq
<1>4. Head(s) = s[1]
  BY <1>1
<1> QED
  <2>1. IsSeq(Tail(s))
    BY <1>2, IsSeqOf
  <2> QED
    BY <1>2, <1>3, <1>4, <2>1 DEF Rem, First
-----------------------------------------------------------------------------
Img(id, cv, ops, d, e) == [id |-> id, cv |-> cv, ops |-> ops, done |-> d, error |-> e]

ImageSet(id, ops, C) ==
  [id : {id}, cv : Seq(C), ops : {ops}, done : Nat, error : BOOLEAN]

\* y is the image m after the operation op
Applied(m, op, y) ==
  /\ y.error = FALSE => m.error = FALSE /\ m.cv # <<>>
  /\ y.error = FALSE =>
       /\ y.done = m.done + 1
       /\ y.cv = <<>> \/ y.cv = Put(m.cv, op)
  /\ y.error = TRUE => y.done = m.done \/ y.done = m.done + 1
  /\ m.cv = <<>> => y.cv = <<>> /\ y.done = m.done

LEMMA ImgIn ==
  ASSUME NEW id, NEW ops, NEW C, NEW c \in Seq(C), NEW n \in Nat, NEW b, b \in BOOLEAN,
         NEW y, y = Img(id, c, ops, n, b)
  PROVE  y \in ImageSet(id, ops, C)
BY DEF Img, ImageSet

LEMMA ApplyTo ==
  ASSUME NEW id, NEW ops, NEW C, NEW op \in ImageOps, ImageOps \subseteq C,
         NEW cv \in Seq(C), NEW d \in Nat, NEW e, e \in BOOLEAN,
         NEW m, m = Img(id, cv, ops, d, e), NEW y, y = Apply(m, op)
  PROVE  /\ y \in ImageSet(id, ops, C)
         /\ (op = "remote" => cv = <<>>) => Applied(m, op, y)
<1>1. Put(cv, op) \in Seq(C) /\ <<>> \in Seq(C) /\ d + 1 \in Nat
  BY AppendProperties, EmptySeq DEF Put
<1>2. CASE cv = <<>> \/ op = "far"
  <2>1. y = Img(id, cv, ops, d, TRUE)
    BY <1>2 DEF Apply, Img, ImageOps
  <2>2. y.id = id /\ y.cv = cv /\ y.ops = ops /\ y.done = d /\ y.error = TRUE
    BY <2>1 DEF Img
  <2>3. m.cv = cv /\ m.done = d /\ m.error = e
    BY DEF Img
  <2>4. y \in ImageSet(id, ops, C)
    BY <1>2, <2>1, ImgIn
  <2> QED
    BY <1>2, <2>2, <2>3, <2>4 DEF Applied
<1>3. CASE cv # <<>> /\ op \in {"crop", "user"}
  <2>1. y = Img(id, Put(cv, op), ops, d + 1, e)
    BY <1>3 DEF Apply, Img, Transformed, UserOp, Put
  <2> QED
    BY <1>1, <1>3, <2>1 DEF Img, ImageSet, Applied
<1>4. CASE cv # <<>> /\ op = "undecodable"
  <2>1. y = Img(id, <<>>, ops, d + 1, e)
    BY <1>4 DEF Apply, Img, SyncRemote
  <2>2. y.id = id /\ y.cv = <<>> /\ y.ops = ops /\ y.done = d + 1 /\ y.error = e
    BY <2>1 DEF Img
  <2>3. m.cv = cv /\ m.done = d /\ m.error = e
    BY DEF Img
  <2>4. y \in ImageSet(id, ops, C)
    BY <1>1, <1>4, <2>1, ImgIn
  <2> QED
    BY <1>1, <1>4, <2>2, <2>3, <2>4 DEF Applied
<1>5. CASE cv # <<>> /\ op = "unremoved"
  <2>1. y = Img(id, Put(cv, op), ops, d, TRUE)
    BY <1>5 DEF Apply, Img, UserOp, Put
  <2>2. y.id = id /\ y.cv = Put(cv, op) /\ y.ops = ops /\ y.done = d /\ y.error = TRUE
    BY <2>1 DEF Img
  <2>3. m.cv = cv /\ m.done = d /\ m.error = e
    BY DEF Img
  <2>4. y \in ImageSet(id, ops, C)
    BY <1>1, <1>5, <2>1, ImgIn
  <2> QED
    BY <1>1, <1>5, <2>2, <2>3, <2>4 DEF Applied
<1>6. CASE cv # <<>> /\ op = "remote"
  <2>1. y = Img(id, cv, ops, d, e)
    BY <1>6 DEF Apply, Img
  <2> QED
    BY <1>6, <2>1 DEF Img, ImageSet
<1> QED
  BY <1>2, <1>3, <1>4, <1>5, <1>6 DEF ImageOps

LEMMA ApplyFacts ==
  ASSUME NEW id, NEW ops, NEW C, ImageOps \subseteq C,
         NEW m \in ImageSet(id, ops, C), NEW op \in ImageOps
  PROVE  /\ Apply(m, op) \in ImageSet(id, ops, C)
         /\ (op = "remote" => m.cv = <<>>) => Applied(m, op, Apply(m, op))
<1>1. /\ m = Img(id, m.cv, ops, m.done, m.error)
      /\ m.cv \in Seq(C) /\ m.done \in Nat /\ m.error \in BOOLEAN
  BY DEF ImageSet, Img
<1> QED
  BY <1>1, ApplyTo
\* what was stored, and the first d operations
Ordered(f, ops, d) == f \o SubSeq(ops, 1, d)

LEMMA OrderedFacts ==
  ASSUME NEW f, IsSeq(f), NEW S, NEW ops \in Seq(S)
  PROVE  /\ Ordered(f, ops, 0) = f
         /\ \A d \in 0..Len(ops) : IsSeq(Ordered(f, ops, d))
         /\ \A d \in 1..Len(ops) : Ordered(f, ops, d) = Put(Ordered(f, ops, d - 1), ops[d])
<1> DEFINE C == ItemsOf(f) \cup S
<1>1. f \in Seq(C) /\ ops \in Seq(C) /\ Len(ops) \in Nat
  BY ItemsSeq, SeqMonotonic, LenProperties
<1>2. ASSUME NEW d \in 0..Len(ops)
      PROVE  SubSeq(ops, 1, d) \in Seq(C)
  <2>1. \A i \in 1..d : ops[i] \in C
    BY <1>1, ElementOfSeq
  <2>2. 1 \in Int /\ d \in Int
    OBVIOUS
  <2> HIDE DEF C
  <2> QED
    BY <2>1, <2>2, SubSeqProperties
<1>3. Ordered(f, ops, 0) = f
  <2>1. SubSeq(ops, 1, 0) = <<>>
    BY SubSeqEmpty
  <2> QED
    BY <1>1, <2>1, ConcatEmptySeq DEF Ordered
<1>4. ASSUME NEW d \in 0..Len(ops)
      PROVE  IsSeq(Ordered(f, ops, d))
  BY <1>1, <1>2, ConcatProperties, IsSeqOf DEF Ordered
<1>5. ASSUME NEW d \in 1..Len(ops)
      PROVE  Ordered(f, ops, d) = Put(Ordered(f, ops, d - 1), ops[d])
  <2>1. PICK p : p = SubSeq(ops, 1, d - 1)
    OBVIOUS
  <2>2. d - 1 \in 0..Len(ops) /\ 1 \in 1..Len(ops) /\ ops[d] \in C
    BY <1>1, ElementOfSeq
  <2>3. p \in Seq(C) /\ <<ops[d]>> \in Seq(C)
    BY <1>2, <2>1, <2>2
  <2>4. SubSeq(ops, 1, d) = p \o <<ops[d]>>
    BY <1>1, <2>1, <2>2, SubSeqRecursiveSecond
  <2>5. Ordered(f, ops, d) = (f \o p) \o <<ops[d]>>
    <3>1. Ordered(f, ops, d) = f \o (p \o <<ops[d]>>)
      BY <2>4 DEF Ordered
    <3>2. (f \o p) \o <<ops[d]>> = f \o (p \o <<ops[d]>>)
      <4>1. PICK q : q = <<ops[d]>> /\ q \in Seq(C)
        BY <2>3
      <4>2. f \in Seq(C) /\ p \in Seq(C)
        BY <1>1, <2>3
      <4> HIDE DEF C
      <4>3. (f \o p) \o q = f \o (p \o q)
        BY <4>1, <4>2, ConcatAssociative, SMTT(60)
      <4> QED
        BY <4>1, <4>3
    <3> QED
      BY <3>1, <3>2
  <2>6. f \o p \in Seq(C)
    BY <1>1, <2>3, ConcatProperties
  <2>7. Append(f \o p, ops[d]) = (f \o p) \o <<ops[d]>>
    BY <2>2, <2>6, AppendIsConcat
  <2> QED
    BY <2>1, <2>5, <2>7 DEF Ordered, Put
<1> QED
  BY <1>3, <1>4, <1>5
IsImage(img) ==
  /\ img = Img(img.id, img.cv, findOps, img.done, img.error)
  /\ img.id \in ImageIds /\ IsSeq(img.cv) /\ img.done \in 0..Len(findOps)
  /\ img.error \in BOOLEAN

ImageInOrder(img) == img.cv # <<>> => img.cv = Ordered(file[img.id], findOps, img.done)

AtNext(img, op) == img.done < Len(findOps) /\ findOps[img.done + 1] = op

\* an image that the remote thread is to work on
ForRemote(img) == AtNext(img, "remote") /\ img.cv # <<>>

\* what has become of img after all operations up to the next remote one
Finished(img, res) ==
  /\ IsImage(res) /\ res.id = img.id /\ img.done <= res.done
  /\ img.cv = <<>> => res.cv = <<>> /\ res.done = img.done
  /\ res.error = FALSE => ImageInOrder(res) /\ (res.done = Len(findOps) \/ ForRemote(res))

\* img after k operations
RunOk(img, m, k) ==
  /\ img.done <= m.done /\ m.done <= img.done + k
  /\ img.cv = <<>> => m.cv = <<>> /\ m.done = img.done
  /\ m.error = FALSE => ImageInOrder(m) /\ (m.done = img.done + k \/ ForRemote(m))

\* the operation after k, the l-th
StepAt(img, k, l, op) ==
  l = k + 1 /\ img.done + k < Len(findOps) /\ op = findOps[img.done + k + 1]

LEMMA ExecStepFacts ==
  ASSUME findOps \in Seq(ImageOps), NEW id \in ImageIds, IsSeq(file[id]),
         NEW C, ImageOps \subseteq C,
         NEW img \in ImageSet(id, findOps, C), NEW m \in ImageSet(id, findOps, C),
         NEW k \in Nat, NEW l, NEW o, StepAt(img, k, l, o), RunOk(img, m, k)
  PROVE  RunOk(img, ExecStep(m, o), l)
<1>0. PICK y : y = ExecStep(m, o)
  OBVIOUS
<1>9. l = k + 1 /\ img.done + k < Len(findOps) /\ o = findOps[img.done + k + 1]
  BY DEF StepAt
<1>1. /\ img.done \in Nat /\ m.done \in Nat /\ m.error \in BOOLEAN /\ m.id = id
      /\ m.ops = findOps /\ Len(findOps) \in Nat
      /\ m.cv \in Seq(C)
  BY DEF ImageSet
<1>2. CASE m.error = TRUE \/ ForRemote(m)
  <2>1. y = m
    BY <1>0, <1>1, <1>9, <1>2 DEF ExecStep, AtNext, ForRemote
  <2> QED
    BY <1>0, <1>1, <1>9, <1>2, <2>1 DEF RunOk
<1>3. CASE m.error = FALSE /\ ~ForRemote(m)
  <2>1. m.done = img.done + k /\ ImageInOrder(m)
    BY <1>3 DEF RunOk
  <2>2. PICK op : op = findOps[m.done + 1]
    OBVIOUS
  <2>3. op \in ImageOps /\ (op = "remote" => m.cv = <<>>) /\ m.done + 1 \in 1..Len(findOps)
    BY <1>1, <1>9, <1>3, <2>1, <2>2 DEF AtNext, ForRemote
  <2>4. y = Apply(m, op)
    BY <1>0, <1>1, <1>9, <1>3, <2>1, <2>2, <2>3 DEF ExecStep
  <2>5. Applied(m, op, y) /\ y \in ImageSet(id, findOps, C)
    BY <2>3, <2>4, ApplyFacts
  <2>6. y.done \in Nat /\ y.error \in BOOLEAN /\ y.id = id
    BY <2>5 DEF ImageSet
  <2>7. ASSUME y.error = FALSE
        PROVE  ImageInOrder(y) /\ y.done = img.done + (k + 1)
    <3>1. y.done = m.done + 1 /\ m.cv # <<>> /\ (y.cv = <<>> \/ y.cv = Put(m.cv, op))
      BY <2>5, <2>7 DEF Applied
    <3>2. m.cv = Ordered(file[id], findOps, m.done)
      BY <1>1, <2>1, <3>1 DEF ImageInOrder
    <3>3. Ordered(file[id], findOps, m.done + 1) =
            Put(Ordered(file[id], findOps, m.done), findOps[m.done + 1])
      <4>1. PICK d : d = m.done + 1
        OBVIOUS
      <4>2. d \in 1..Len(findOps) /\ d - 1 = m.done
        BY <1>1, <2>3, <4>1
      <4> QED
        BY <4>1, <4>2, OrderedFacts
    <3>4. y.done = img.done + (k + 1)
      BY <1>1, <2>1, <3>1, SMTT(60)
    <3>5. PICK e, g : e = y.done /\ g = file[id]
      OBVIOUS
    <3>6. Ordered(g, findOps, e) = Put(m.cv, op)
      BY <2>2, <3>1, <3>2, <3>3, <3>5
    <3>7. ImageInOrder(y)
      BY <2>6, <3>1, <3>5, <3>6 DEF ImageInOrder
    <3> QED
      BY <3>4, <3>7
  <2>8. y.error = TRUE => y.done = m.done \/ y.done = m.done + 1
    BY <2>5 DEF Applied
  <2>9. img.cv = <<>> => y.cv = <<>> /\ y.done = img.done
    BY <2>5 DEF Applied, RunOk
  <2>10. img.done <= y.done /\ y.done <= img.done + (k + 1)
    <3>1. y.done = m.done \/ y.done = m.done + 1
      <4>1. y.error = FALSE => y.done = m.done + 1
        BY <2>5 DEF Applied
      <4> QED
        BY <2>6, <2>8, <4>1, Zenon
    <3> QED
      BY <1>1, <2>1, <3>1
  <2> QED
    BY <1>0, <1>9, <2>7, <2>9, <2>10 DEF RunOk
<1> QED
  BY <1>1, <1>2, <1>3

LEMMA ExecutedFacts ==
  ASSUME findOps \in Seq(ImageOps),
         NEW img, IsImage(img), img.error = FALSE, ImageInOrder(img), IsSeq(file[img.id])
  PROVE  Finished(img, Executed(img))
<1>0. PICK C, X : C = ItemsOf(img.cv) \cup ImageOps /\ X = ImageSet(img.id, findOps, C)
  OBVIOUS
<1>1. /\ img.id \in ImageIds /\ img.done \in Nat /\ img.done <= Len(findOps)
      /\ img.ops = findOps /\ Len(findOps) \in Nat /\ IsSeq(img.cv)
  BY DEF IsImage, Img
<1>2. img \in X
  <2>1. img.cv \in Seq(C)
    BY <1>0, <1>1, ItemsSeq, SeqMonotonic
  <2>2. img = Img(img.id, img.cv, findOps, img.done, img.error) /\ img.error \in BOOLEAN
    BY DEF IsImage
  <2> QED
    BY <1>0, <1>1, <2>1, <2>2, ImgIn
<1>3. PICK n : n = Len(findOps) - img.done
  OBVIOUS
<1>4. PICK s : s = Rest(img)
  OBVIOUS
<1>5. /\ n \in Nat /\ img.done + n = Len(findOps) /\ DOMAIN s = 1..n
      /\ \A i \in 1..n : s[i] = findOps[img.done + i] /\ s[i] \in ImageOps
  <2>1. n \in Nat /\ img.done + n = Len(findOps)
    BY <1>1, <1>3
  <2>2. PICK a : a = img.done + 1
    OBVIOUS
  <2>3. PICK b : b = Len(findOps)
    OBVIOUS
  <2>4. a \in Int /\ b \in Int /\ b - a + 1 = n /\ \A i \in a..b : findOps[i] \in ImageOps
    <3>1. \A i \in 1..Len(findOps) : findOps[i] \in ImageOps
      BY ElementOfSeq
    <3>2. \A i \in a..b : i \in 1..Len(findOps)
      BY <1>1, <2>2, <2>3
    <3>3. \A i \in a..b : findOps[i] \in ImageOps
      BY <3>1, <3>2, Zenon
    <3>4. a \in Int /\ b \in Int /\ b - a + 1 = n
      BY <1>1, <2>1, <2>2, <2>3
    <3> QED
      BY <3>3, <3>4
  <2>5. s = SubSeq(findOps, a, b)
    BY <1>1, <1>4, <2>2, <2>3 DEF Rest
  <2>6. /\ s \in Seq(ImageOps)
        /\ Len(s) = IF a <= b THEN b - a + 1 ELSE 0
        /\ \A i \in 1..b - a + 1 : s[i] = findOps[a + i - 1]
    BY <2>4, <2>5, SubSeqProperties, SMTT(60)
  <2>7. Len(s) = n
    BY <1>1, <2>1, <2>2, <2>3, <2>4, <2>6
  <2>8. DOMAIN s = 1..n
    BY <2>6, <2>7, LenProperties
  <2>9. \A i \in 1..n : a + i - 1 = img.done + i /\ a + i - 1 \in a..b
    BY <1>1, <2>1, <2>2, <2>3, SMTT(60)
  <2> QED
    BY <2>1, <2>4, <2>6, <2>8, <2>9
<1>6. \A m \in X, i \in 1..n : ExecStep(m, s[i]) \in X
  <2>1. ImageOps \subseteq C
    BY <1>0
  <2> QED
    BY <1>0, <1>5, <2>1, ApplyFacts DEF ExecStep
<1>7. PICK r : /\ r[0] = img /\ r[n] = Executed(img)
               /\ \A k \in 1..n : r[k] = ExecStep(r[k - 1], s[k])
  <2>1. s = Rest(img) /\ ExecSteps(X, s, n)
    BY <1>4, <1>5, <1>6 DEF ExecSteps
  <2>2. \E r : ExecRun(r, img, s, n)
    BY <1>2, <1>5, <2>1, ExecutedRun
  <2> QED
    BY <2>2 DEF ExecRun
<1> DEFINE T == {k \in 0..n : r[k] \in X /\ RunOk(img, r[k], k)}
<1>8. 0 \in T
  BY <1>1, <1>2, <1>5, <1>7 DEF RunOk
<1>9. ASSUME NEW k \in 1..n, k - 1 \in T
      PROVE  k \in T
  <2>1. r[k - 1] \in X /\ RunOk(img, r[k - 1], k - 1)
    BY <1>9
  <2>2. r[k] = ExecStep(r[k - 1], findOps[img.done + k])
    BY <1>5, <1>7
  <2>3. r[k] \in X
    BY <1>5, <1>6, <1>7, <2>1
  <2>4. PICK j \in Nat : k = j + 1
    BY <1>5
  <2>5. StepAt(img, j, k, findOps[img.done + k]) /\ k - 1 = j
    <3>0. n \in Nat /\ img.done + n = Len(findOps)
      BY <1>5
    <3>1. img.done + j < Len(findOps) /\ img.done + k = img.done + j + 1
      BY <1>1, <2>4, <3>0, SMTT(60)
    <3> QED
      BY <2>4, <3>1 DEF StepAt
  <2>6. ImageOps \subseteq C /\ img \in ImageSet(img.id, findOps, C)
    BY <1>0, <1>2
  <2>7. PICK m, o, i : m = r[k - 1] /\ o = findOps[img.done + k] /\ i = img.id
    OBVIOUS
  <2>8. /\ m \in ImageSet(i, findOps, C) /\ RunOk(img, m, j) /\ StepAt(img, j, k, o)
        /\ img \in ImageSet(i, findOps, C) /\ i \in ImageIds /\ IsSeq(file[i])
    BY <1>0, <1>1, <2>1, <2>5, <2>6, <2>7
  <2>9. RunOk(img, ExecStep(m, o), k)
    BY <2>6, <2>8, ExecStepFacts
  <2> QED
    BY <1>5, <2>2, <2>3, <2>7, <2>9
<1>10. n \in T
  <2> HIDE DEF T
  <2>1. \A k \in 0..n : k \in T
    BY <1>5, <1>8, <1>9, Climb
  <2> QED
    BY <1>5, <2>1
<1>11. PICK res : res = Executed(img)
  OBVIOUS
<1>12. res \in X /\ RunOk(img, res, n)
  BY <1>7, <1>10, <1>11
<1>13. IsImage(res) /\ res.id = img.id
  <2>1. /\ res = Img(res.id, res.cv, findOps, res.done, res.error)
        /\ res.id = img.id /\ res.cv \in Seq(C) /\ res.done \in Nat /\ res.error \in BOOLEAN
    BY <1>0, <1>12 DEF ImageSet, Img
  <2>2. IsSeq(res.cv)
    BY <2>1, IsSeqOf
  <2>3. res.done <= Len(findOps)
    BY <1>5, <1>12 DEF RunOk
  <2> QED
    BY <1>1, <2>1, <2>2, <2>3 DEF IsImage
<1> QED
  BY <1>5, <1>11, <1>12, <1>13 DEF RunOk, Finished
-----------------------------------------------------------------------------
(* What AddImage stores.                                                   *)

AddOps == {"far", "crop", "unremoved", "user"}

PerfStep(m, op) == Apply(m, IF op = "remote" THEN "crop" ELSE op)

AddStep(cv, op) == IF op = "far" THEN cv ELSE Append(cv, op)

IsPerf(f, img, s) ==
  f = [t \in SUBSET (DOMAIN s) |->
         IF t = {} THEN img ELSE PerfStep(f[t \ {Max(t)}], s[Max(t)])]

IsAdd(f, b, s) ==
  f = [t \in SUBSET (DOMAIN s) |->
         IF t = {} THEN b ELSE AddStep(f[t \ {Max(t)}], s[Max(t)])]

Cleared(img) == [img EXCEPT !.ops = <<>>]

LEMMA PerformedIs ==
  ASSUME NEW img
  PROVE  Performed(img) =
           Cleared((CHOOSE f : IsPerf(f, img, img.ops))[DOMAIN img.ops])
BY DEF Cleared, Performed, FoldLeft, MapThenFoldSet, IsPerf, PerfStep

LEMMA SucceededIs ==
  ASSUME NEW i, NEW s
  PROVE  Succeeded(i, s) = (CHOOSE f : IsAdd(f, <<i>>, s))[DOMAIN s]
BY DEF Succeeded, FoldLeft, MapThenFoldSet, IsAdd, AddStep

OpsOf(img) == img.ops

PerfSteps(X, s, n) == DOMAIN s = 1..n /\ \A m \in X, i \in 1..n : PerfStep(m, s[i]) \in X

PerfRun(r, img, s, n) ==
  /\ r[0] = img /\ Cleared(r[n]) = Performed(img)
  /\ \A k \in 1..n : r[k] = PerfStep(r[k - 1], s[k])

LEMMA PerformedRun ==
  ASSUME NEW X, NEW img \in X, NEW n \in Nat, NEW s, s = OpsOf(img), PerfSteps(X, s, n)
  PROVE  \E r : PerfRun(r, img, s, n)
<1>0. /\ s = img.ops /\ DOMAIN s = 1..n
      /\ \A m \in X, i \in 1..n : PerfStep(m, s[i]) \in X
  BY DEF OpsOf, PerfSteps
<1> DEFINE F == [p \in X \X (1..n) |-> PerfStep(p[1], s[p[2]])]
<1>1. F \in [X \X (1..n) -> X]
  BY <1>0
<1>2. PICK g \in [SUBSET (1..n) -> X] : IsFold(g, F, img, n)
  BY <1>1, FoldExists DEF Foldable
<1>3. IsPerf(g, img, s)
  <2>1. ASSUME NEW t \in SUBSET (1..n)
        PROVE  g[t] = IF t = {} THEN img ELSE PerfStep(g[t \ {Max(t)}], s[Max(t)])
    <3>1. CASE t = {}
      BY <1>2, <3>1 DEF IsFold
    <3>2. CASE t # {}
      <4>1. Max(t) \in 1..n /\ t \ {Max(t)} \in SUBSET (1..n)
        BY <3>2, MaxFacts
      <4>2. F[<<g[t \ {Max(t)}], Max(t)>>] = PerfStep(g[t \ {Max(t)}], s[Max(t)])
        BY <4>1
      <4> QED
        BY <1>2, <3>2, <4>2 DEF IsFold
    <3> QED
      BY <3>1, <3>2
  <2>2. g = [t \in SUBSET (1..n) |-> g[t]]
    OBVIOUS
  <2> QED
    BY <1>0, <2>1, <2>2 DEF IsPerf
<1>4. PICK f : f = CHOOSE h : IsPerf(h, img, s)
  OBVIOUS
<1>5. IsPerf(f, img, s) /\ Performed(img) = Cleared(f[1..n])
  BY <1>0, <1>3, <1>4, PerformedIs
<1> DEFINE r == [k \in 0..n |-> f[1..k]]
<1>6. \A t \in SUBSET (1..n) :
        f[t] = IF t = {} THEN img ELSE PerfStep(f[t \ {Max(t)}], s[Max(t)])
  BY <1>0, <1>5 DEF IsPerf
<1>7. r[0] = img /\ r[n] = f[1..n]
  <2>1. 1..0 = {} /\ {} \in SUBSET (1..n) /\ 0 \in 0..n /\ n \in 0..n
    OBVIOUS
  <2>2. f[{}] = img
    BY <1>6, <2>1
  <2> QED
    BY <2>1, <2>2
<1>8. ASSUME NEW k \in 1..n
      PROVE  r[k] = PerfStep(r[k - 1], s[k])
  <2>0. k \in Nat /\ k # 0
    OBVIOUS
  <2>1. Max(1..k) = k /\ (1..k) \ {k} = 1..(k - 1) /\ 1..k # {}
    BY <2>0, MaxOfInterval
  <2>2. 1..k \in SUBSET (1..n) /\ k \in 0..n /\ k - 1 \in 0..n
    OBVIOUS
  <2> QED
    BY <1>6, <2>1, <2>2
<1> HIDE DEF r
<1> QED
  BY <1>5, <1>7, <1>8 DEF PerfRun

Only(i) == <<i>>

Items(C, s, n) == DOMAIN s = 1..n /\ \A j \in 1..n : s[j] \in C

AddRun(r, i, s, n) ==
  /\ r[0] = Only(i) /\ r[n] = Succeeded(i, s)
  /\ \A k \in 1..n : r[k] = AddStep(r[k - 1], s[k])

LEMMA SucceededRun ==
  ASSUME NEW C, NEW b \in Seq(C), NEW i, b = Only(i), NEW n \in Nat, NEW s, Items(C, s, n)
  PROVE  \E r : AddRun(r, i, s, n)
<1>0a. b = <<i>> /\ DOMAIN s = 1..n /\ \A j \in 1..n : s[j] \in C
  BY DEF Only, Items
<1>0. PICK X : X = Seq(C)
  OBVIOUS
<1> DEFINE F == [p \in X \X (1..n) |-> AddStep(p[1], s[p[2]])]
<1>1. F \in [X \X (1..n) -> X] /\ b \in X
  <2>1. \A x \in X, j \in 1..n : AddStep(x, s[j]) \in X
    BY <1>0, <1>0a DEF AddStep
  <2> QED
    BY <1>0, <2>1
<1>2. PICK g \in [SUBSET (1..n) -> X] : IsFold(g, F, b, n)
  BY <1>1, FoldExists DEF Foldable
<1>3. IsAdd(g, b, s)
  <2>1. ASSUME NEW t \in SUBSET (1..n)
        PROVE  g[t] = IF t = {} THEN b ELSE AddStep(g[t \ {Max(t)}], s[Max(t)])
    <3>1. CASE t = {}
      BY <1>2, <3>1 DEF IsFold
    <3>2. CASE t # {}
      <4>1. Max(t) \in 1..n /\ t \ {Max(t)} \in SUBSET (1..n)
        BY <3>2, MaxFacts
      <4>2. F[<<g[t \ {Max(t)}], Max(t)>>] = AddStep(g[t \ {Max(t)}], s[Max(t)])
        BY <4>1
      <4> QED
        BY <1>2, <3>2, <4>2 DEF IsFold
    <3> QED
      BY <3>1, <3>2
  <2>2. g = [t \in SUBSET (1..n) |-> g[t]]
    OBVIOUS
  <2> QED
    BY <1>0a, <2>1, <2>2 DEF IsAdd
<1>4. PICK f : f = CHOOSE h : IsAdd(h, b, s)
  OBVIOUS
<1>5. IsAdd(f, b, s) /\ Succeeded(i, s) = f[1..n]
  BY <1>0a, <1>3, <1>4, SucceededIs
<1> DEFINE r == [k \in 0..n |-> f[1..k]]
<1>6. \A t \in SUBSET (1..n) :
        f[t] = IF t = {} THEN b ELSE AddStep(f[t \ {Max(t)}], s[Max(t)])
  BY <1>0a, <1>5 DEF IsAdd
<1>7. r[0] = b /\ r[n] = f[1..n]
  <2>1. 1..0 = {} /\ {} \in SUBSET (1..n) /\ 0 \in 0..n /\ n \in 0..n
    OBVIOUS
  <2>2. f[{}] = b
    BY <1>6, <2>1
  <2> QED
    BY <2>1, <2>2
<1>8. ASSUME NEW k \in 1..n
      PROVE  r[k] = AddStep(r[k - 1], s[k])
  <2>0. k \in Nat /\ k # 0
    OBVIOUS
  <2>1. Max(1..k) = k /\ (1..k) \ {k} = 1..(k - 1) /\ 1..k # {}
    BY <2>0, MaxOfInterval
  <2>2. 1..k \in SUBSET (1..n) /\ k \in 0..n /\ k - 1 \in 0..n
    OBVIOUS
  <2> QED
    BY <1>6, <2>1, <2>2
<1> HIDE DEF r
<1> QED
  BY <1>0a, <1>5, <1>7, <1>8 DEF AddRun, Only

LEMMA AddOpTo ==
  ASSUME NEW id, NEW ops, NEW op \in AddOps, NEW cv, cv # <<>>, NEW d, NEW e,
         NEW m, m = Img(id, cv, ops, d, e), NEW y, y = Apply(m, op)
  PROVE  y.cv = AddStep(cv, op)
<1>1. CASE op = "far"
  <2>1. y = Img(id, cv, ops, d, TRUE)
    BY <1>1 DEF Apply, Img
  <2> QED
    BY <1>1, <2>1 DEF Img, AddStep
<1>2. CASE op \in {"crop", "user"}
  <2>1. y = Img(id, Append(cv, op), ops, d + 1, e)
    BY <1>2 DEF Apply, Img, Transformed, UserOp
  <2>2. y.cv = Append(cv, op) /\ op # "far"
    BY <1>2, <2>1 DEF Img
  <2> QED
    BY <2>2 DEF AddStep
<1>3. CASE op = "unremoved"
  <2>1. y = Img(id, Append(cv, op), ops, d, TRUE)
    BY <1>3 DEF Apply, Img, UserOp
  <2> QED
    BY <1>3, <2>1 DEF Img, AddStep
<1> QED
  BY <1>1, <1>2, <1>3 DEF AddOps

\* an operation of AddImage on an image that is not empty
LEMMA AddOpFacts ==
  ASSUME NEW id, NEW ops, NEW C, NEW op \in AddOps, ImageOps \subseteq C,
         NEW m \in ImageSet(id, ops, C), m.cv # <<>>
  PROVE  /\ PerfStep(m, op) \in ImageSet(id, ops, C)
         /\ PerfStep(m, op).cv = AddStep(m.cv, op) /\ AddStep(m.cv, op) # <<>>
<1>1. op \in ImageOps /\ op \in C /\ PerfStep(m, op) = Apply(m, op)
  BY DEF AddOps, ImageOps, PerfStep
<1>2. m = Img(id, m.cv, ops, m.done, m.error) /\ m.cv \in Seq(C)
  BY DEF ImageSet, Img
<1>3. Apply(m, op).cv = AddStep(m.cv, op)
  BY <1>2, AddOpTo
<1>4. Append(m.cv, op) # <<>>
  BY <1>1, <1>2, AppendProperties
<1> QED
  BY <1>1, <1>3, <1>4, ApplyFacts DEF AddStep

Added(i, s) == Img(i, <<i>>, s, 0, FALSE)

LEMMA PerformedAdded ==
  ASSUME NEW i, NEW s, NEW n \in Nat, DOMAIN s = 1..n, \A k \in 1..n : s[k] \in AddOps,
         NEW img, img = Added(i, s)
  PROVE  Performed(img).cv = Succeeded(i, s) /\ IsSeq(Succeeded(i, s))
<1>0. PICK C, X : C = ImageOps \cup {i} /\ X = ImageSet(i, s, C)
  OBVIOUS
<1>2. PICK b : b = <<i>>
  OBVIOUS
<1>3. b \in Seq(C) /\ b # <<>> /\ ImageOps \subseteq C /\ AddOps \subseteq C
  BY <1>0, <1>2 DEF AddOps, ImageOps
<1>4. img \in X
  BY <1>0, <1>2, <1>3, ImgIn DEF Added
<1>7. \A m \in X, k \in 1..n : PerfStep(m, s[k]) \in X
  <2>1. ASSUME NEW m \in X, NEW k \in 1..n
        PROVE  PerfStep(m, s[k]) \in X
    <3>1. s[k] \in ImageOps /\ s[k] # "remote"
      BY DEF AddOps, ImageOps
    <3>2. PerfStep(m, s[k]) = Apply(m, s[k])
      BY <3>1 DEF PerfStep
    <3> QED
      BY <1>0, <1>3, <3>1, <3>2, ApplyFacts
  <2> QED
    BY <2>1
<1>8. s = img.ops /\ img.cv = b
  BY <1>2 DEF Added, Img
<1>9. PICK r : PerfRun(r, img, s, n)
  <2>1. PerfSteps(X, s, n) /\ s = OpsOf(img)
    BY <1>7, <1>8 DEF PerfSteps, OpsOf
  <2> QED
    BY <1>4, <2>1, PerformedRun
<1>10. PICK q : AddRun(q, i, s, n)
  <2>1. Items(C, s, n) /\ b = Only(i)
    BY <1>2, <1>3 DEF Items, Only
  <2> QED
    BY <1>3, <2>1, SucceededRun
<1> DEFINE T == {k \in 0..n : r[k] \in X /\ r[k].cv = q[k] /\ q[k] # <<>>}
<1>11. 0 \in T
  <2>1. r[0] = img /\ q[0] = b
    BY <1>2, <1>9, <1>10 DEF PerfRun, AddRun, Only
  <2> QED
    BY <1>3, <1>4, <1>8, <2>1
<1>12. ASSUME NEW k \in 1..n, k - 1 \in T
       PROVE  k \in T
  <2>1. r[k - 1] \in X /\ r[k - 1].cv = q[k - 1] /\ q[k - 1] # <<>> /\ s[k] \in AddOps
    BY <1>12
  <2>2. /\ PerfStep(r[k - 1], s[k]) \in X
        /\ PerfStep(r[k - 1], s[k]).cv = AddStep(q[k - 1], s[k])
        /\ AddStep(q[k - 1], s[k]) # <<>>
    BY <1>0, <1>3, <2>1, AddOpFacts
  <2> QED
    BY <1>9, <1>10, <2>2 DEF PerfRun, AddRun
<1>13. n \in T
  <2> HIDE DEF T
  <2>1. \A k \in 0..n : k \in T
    BY <1>11, <1>12, Climb
  <2> QED
    BY <2>1
<1>14. r[n] \in X /\ r[n].cv = Succeeded(i, s)
  BY <1>10, <1>13 DEF AddRun
<1>15. r[n].cv \in Seq(C) /\ Cleared(r[n]).cv = r[n].cv
  BY <1>0, <1>14 DEF ImageSet, Cleared
<1> QED
  BY <1>9, <1>14, <1>15, IsSeqOf DEF PerfRun

LEMMA FromBufferImg ==
  ASSUME NEW id, NEW e, NEW m, m = Img(id, <<>>, <<"read">>, 0, e), NEW cv, NEW y,
         y = [m EXCEPT !.cv = cv, !.ops = <<>>]
  PROVE  y = Img(id, cv, <<>>, 0, e)
BY DEF Img

LEMMA EnqueuedImg ==
  ASSUME NEW id, NEW cv, NEW ops, NEW e, NEW m, m = Img(id, cv, <<>>, 0, e), NEW y,
         y = Enqueued(m, ops), <<>> \o ops = ops
  PROVE  y = Img(id, cv, ops, 0, e)
<1>1. y = [m EXCEPT !.ops = <<>> \o ops]
  BY DEF Enqueued, Img
<1> QED
  BY <1>1 DEF Img

LEMMA AddedImage ==
  ASSUME NEW i \in ImageIds, NEW s \in Seq(AddOps)
  PROVE  /\ Performed(Enqueued(FromBuffer(i), s)).cv = Succeeded(i, s)
         /\ IsSeq(Succeeded(i, s))
<1>1. PICK b, m, y : b = <<i>> /\ m = FromBuffer(i) /\ y = Enqueued(m, s)
  OBVIOUS
<1>2. Image(i) = Img(i, <<>>, <<"read">>, 0, FALSE)
  BY DEF Image, Img
<1>3. m = [Image(i) EXCEPT !.cv = b, !.ops = <<>>]
  BY <1>1 DEF FromBuffer
<1>4. m = Img(i, b, <<>>, 0, FALSE)
  BY <1>2, <1>3, FromBufferImg
<1>5. y = Img(i, b, s, 0, FALSE)
  <2>1. <<>> \o s = s
    BY ConcatEmptySeq
  <2> QED
    BY <1>1, <1>4, <2>1, EnqueuedImg, ZenonT(60)
<1>6. PICK n : n = Len(s)
  OBVIOUS
<1>7. n \in Nat /\ DOMAIN s = 1..n /\ \A k \in 1..n : s[k] \in AddOps
  BY <1>6, LenProperties, ElementOfSeq
<1> QED
  BY <1>1, <1>5, <1>7, PerformedAdded DEF Added

-----------------------------------------------------------------------------
(* The inductive invariant: copies that are not empty are alone.           *)

Flies(x) == IsImage(x) /\ x.error = FALSE /\ ImageInOrder(x) /\ x.id <= sentImages

AllFly(q) == IsSeq(q) /\ \A x \in ItemsOf(q) : Flies(x)

\* the thread behind this queue has the next operation of its images
Waits(q) == \A x \in ItemsOf(q) : x.cv # <<>> => AtNext(x, "remote")
AllFull(q) == \A x \in ItemsOf(q) : x.cv # <<>>

Ids(q) == {x.id : x \in ItemsOf(q)}
Fulls(q) == {x.id : x \in {x \in ItemsOf(q) : x.cv # <<>>}}

Lone(q) == \A i, j \in 1..Len(q) : q[i].id = q[j].id /\ q[i].cv # <<>> => i = j

Apart(q, p) == Fulls(q) \cap Ids(p) = {} /\ Ids(q) \cap Fulls(p) = {}

\* local queue and batch, remote queue and batch, pending images
Copies(m, b, r, q, p) ==
  /\ Lone(m) /\ Lone(b) /\ Lone(r) /\ Lone(q) /\ Fulls(p) = {}
  /\ Apart(m, b) /\ Apart(m, r) /\ Apart(m, q) /\ Apart(m, p)
  /\ Apart(b, r) /\ Apart(b, q) /\ Apart(b, p)
  /\ Apart(r, q) /\ Apart(r, p) /\ Apart(q, p)

Failed(f, i) == f[i] # NoImage /\ f[i].error = TRUE
Complete(f, i) == f[i] # NoImage /\ f[i].done = Len(findOps)

\* a copy with nothing left to do is in the map
Settled(f, q) ==
  \A x \in ItemsOf(q) : x.done = Len(findOps) => Failed(f, x.id) \/ Complete(f, x.id)

NoneFailed(f, q) == \A i \in Fulls(q) : ~Failed(f, i)

MapOk(f) == \A i \in ImageIds : f[i] # NoImage =>
  IsImage(f[i]) /\ f[i].id = i /\ i <= sentImages /\ (f[i].error = FALSE => ImageInOrder(f[i]))

FileInv ==
  /\ findOps # <<>> /\ findOps \in Seq(ImageOps)
  /\ sentImages \in 0..NImages
  /\ handler = "adding" => sentImages = 0
  /\ DOMAIN imageMap = ImageIds /\ DOMAIN file = ImageIds /\ DOMAIN added = ImageIds
  /\ \A i \in ImageIds : IsSeq(file[i]) /\ (file[i] # <<>> => file[i] = Succeeded(i, added[i]))

\* where the remote thread is with its batch
BatchOk(q, at) ==
  /\ at = "wait" => q = <<>>
  /\ at \in {"taken", "post"} => q # <<>>
  /\ at # "handing" => Waits(q)
  /\ at = "collect" => AllFull(q)
  /\ at = "handing" => q # <<>> /\ Waits(Rem(q)) /\ AllFull(Rem(q))

QueuesInv ==
  /\ AllFly(mQueue) /\ AllFly(mBatch) /\ AllFly(rQueue) /\ AllFly(rBatch) /\ AllFly(pending)
  /\ Waits(rQueue) /\ AllFull(rQueue)
  /\ BatchOk(rBatch, rAt)

CopiesInv == Copies(mQueue, mBatch, rQueue, rBatch, pending)

MapInv ==
  /\ MapOk(imageMap)
  /\ Settled(imageMap, mQueue) /\ Settled(imageMap, mBatch) /\ Settled(imageMap, rQueue)
  /\ Settled(imageMap, rBatch) /\ Settled(imageMap, pending)
  /\ NoneFailed(imageMap, mQueue) /\ NoneFailed(imageMap, mBatch)
  /\ NoneFailed(imageMap, rQueue) /\ NoneFailed(imageMap, rBatch)

KeptInv ==
  (\A i \in ImageIds : ~Failed(imageMap, i)) => \A i \in 1..sentImages :
    i \in Ids(mQueue) \cup Ids(mBatch) \cup Ids(rQueue) \cup Ids(rBatch) \/ Complete(imageMap, i)

LoopInv == FileInv /\ QueuesInv /\ CopiesInv /\ MapInv /\ KeptInv

-----------------------------------------------------------------------------
(* Queues.                                                                 *)

LEMMA PutItems ==
  ASSUME NEW q, IsSeq(q), NEW x
  PROVE  /\ IsSeq(Put(q, x)) /\ ItemsOf(Put(q, x)) = ItemsOf(q) \cup {x}
         /\ Ids(Put(q, x)) = Ids(q) \cup {x.id}
         /\ Fulls(Put(q, x)) = Fulls(q) \cup {i \in {x.id} : x.cv # <<>>}
         /\ Lone(q) /\ x.id \notin Fulls(q) /\ (x.cv # <<>> => x.id \notin Ids(q))
              => Lone(Put(q, x))
<1>1. PICK p, n : p = Put(q, x) /\ n = Len(q)
  OBVIOUS
<1>2. /\ IsSeq(p) /\ Len(p) = n + 1 /\ n \in Nat
      /\ \A k \in 1..n : p[k] = q[k]
      /\ p[n + 1] = x
  BY <1>1, PutFacts DEF IsSeq
<1>3. ItemsOf(p) = ItemsOf(q) \cup {x}
  <2>1. \A k \in 1..n + 1 : k \in 1..n \/ k = n + 1
    BY <1>2
  <2>2. n + 1 \in 1..n + 1 /\ \A k \in 1..n : k \in 1..n + 1
    BY <1>2
  <2> QED
    BY <1>1, <1>2, <2>1, <2>2 DEF ItemsOf
<1>4. Ids(p) = Ids(q) \cup {x.id} /\ Fulls(p) = Fulls(q) \cup {i \in {x.id} : x.cv # <<>>}
  BY <1>3 DEF Ids, Fulls
<1>5. ASSUME Lone(q), x.id \notin Fulls(q), x.cv # <<>> => x.id \notin Ids(q)
      PROVE  Lone(p)
  <2>1. \A k \in 1..n : q[k] \in ItemsOf(q)
    BY <1>1 DEF ItemsOf
  <2>2. \A k \in 1..n : q[k].id = x.id => q[k].cv = <<>> /\ x.cv = <<>>
    BY <1>5, <2>1 DEF Ids, Fulls
  <2>3. \A k \in 1..n + 1 : k \in 1..n \/ k = n + 1
    BY <1>2
  <2> QED
    BY <1>1, <1>2, <1>5, <2>2, <2>3 DEF Lone
<1> QED
  BY <1>1, <1>2, <1>3, <1>4, <1>5

LEMMA RemItems ==
  ASSUME NEW q, IsSeq(q), q # <<>>, NEW x, x = First(q)
  PROVE  /\ IsSeq(Rem(q)) /\ ItemsOf(q) = ItemsOf(Rem(q)) \cup {x}
         /\ Ids(q) = Ids(Rem(q)) \cup {x.id}
         /\ Fulls(q) = Fulls(Rem(q)) \cup {i \in {x.id} : x.cv # <<>>}
         /\ Lone(q) => /\ Lone(Rem(q)) /\ x.id \notin Fulls(Rem(q))
                       /\ x.cv # <<>> => x.id \notin Ids(Rem(q))
<1>1. PICK p, n : p = Rem(q) /\ n = Len(q)
  OBVIOUS
<1>2. /\ IsSeq(p) /\ n \in Nat /\ n >= 1 /\ Len(p) = n - 1
      /\ \A k \in 1..n - 1 : p[k] = q[k + 1]
      /\ x = q[1]
  BY <1>1, RemFacts
<1>3. /\ 1 \in 1..n /\ \A k \in 1..n - 1 : k + 1 \in 1..n /\ k + 1 # 1
      /\ \A k \in 1..n : k = 1 \/ (k - 1 \in 1..n - 1 /\ (k - 1) + 1 = k)
  BY <1>2
<1>4. ItemsOf(q) = ItemsOf(p) \cup {x}
  <2>1. ASSUME NEW k \in 1..n, k # 1
        PROVE  q[k] \in ItemsOf(p)
    <3>1. PICK j \in 1..n - 1 : j + 1 = k
      BY <1>3, <2>1
    <3>2. p[j] = q[k] /\ p[j] \in ItemsOf(p)
      BY <1>2, <3>1 DEF ItemsOf
    <3> QED
      BY <3>2
  <2>2. \A k \in 1..n - 1 : p[k] \in ItemsOf(q)
    BY <1>1, <1>2, <1>3 DEF ItemsOf
  <2>3. x \in ItemsOf(q)
    BY <1>1, <1>2, <1>3 DEF ItemsOf
  <2>4. \A k \in 1..n : q[k] \in ItemsOf(p) \cup {x}
    BY <1>2, <2>1
  <2>5. ItemsOf(q) = {q[k] : k \in 1..n} /\ ItemsOf(p) = {p[k] : k \in 1..n - 1}
    BY <1>1, <1>2 DEF ItemsOf
  <2>6. ItemsOf(q) \subseteq ItemsOf(p) \cup {x}
    BY <2>4, <2>5
  <2>7. ItemsOf(p) \subseteq ItemsOf(q)
    BY <2>2, <2>5
  <2> QED
    BY <2>3, <2>6, <2>7
<1>5. /\ Ids(q) = Ids(p) \cup {x.id}
      /\ Fulls(q) = Fulls(p) \cup {i \in {x.id} : x.cv # <<>>}
  BY <1>4 DEF Ids, Fulls
<1>6. ASSUME Lone(q)
      PROVE  Lone(p) /\ x.id \notin Fulls(p) /\ (x.cv # <<>> => x.id \notin Ids(p))
  <2>1. \A i, j \in 1..n : q[i].id = q[j].id /\ q[i].cv # <<>> => i = j
    BY <1>1, <1>6 DEF Lone
  <2>2. ASSUME NEW i \in 1..n - 1, NEW j \in 1..n - 1, p[i].id = p[j].id, p[i].cv # <<>>
        PROVE  i = j
    <3>1. PICK a, b : a = i + 1 /\ b = j + 1
      OBVIOUS
    <3>2. a \in 1..n /\ b \in 1..n /\ p[i] = q[a] /\ p[j] = q[b]
      BY <1>2, <1>3, <3>1
    <3>3. a = b
      BY <2>1, <2>2, <3>2
    <3> QED
      BY <1>2, <3>1, <3>3
  <2>3. \A k \in 1..n - 1 : p[k].id = x.id => p[k].cv = <<>> /\ x.cv = <<>>
    BY <1>2, <1>3, <2>1
  <2>4. \A y \in ItemsOf(p) : y.id = x.id => y.cv = <<>> /\ x.cv = <<>>
    BY <1>1, <1>2, <2>3 DEF ItemsOf
  <2> QED
    BY <1>1, <1>2, <2>2, <2>4 DEF Lone, Ids, Fulls
<1> QED
  BY <1>1, <1>2, <1>4, <1>5, <1>6

LEMMA NoItems ==
  /\ IsSeq(<<>>) /\ ItemsOf(<<>>) = {} /\ Ids(<<>>) = {} /\ Fulls(<<>>) = {} /\ Lone(<<>>)
<1>1. IsSeq(<<>>) /\ Len(<<>>) = 0
  BY NoneIsSeq
<1>2. ItemsOf(<<>>) = {}
  BY <1>1 DEF ItemsOf
<1>3. Lone(<<>>)
  BY <1>1 DEF Lone
<1> QED
  BY <1>1, <1>2, <1>3 DEF Ids, Fulls

LEMMA EmptyAreLone ==
  ASSUME NEW q, IsSeq(q), Fulls(q) = {}
  PROVE  Lone(q)
BY ZenonT(60) DEF Lone, Fulls, ItemsOf

LEMMA FirstIn ==
  ASSUME NEW q, IsSeq(q), q # <<>>
  PROVE  First(q) \in ItemsOf(q)
BY RemItems

LEMMA FullIn ==
  ASSUME NEW q
  PROVE  Fulls(q) \subseteq Ids(q) /\ \A x \in ItemsOf(q) : x.id \in Ids(q)
BY DEF Fulls, Ids

-----------------------------------------------------------------------------
(* How copies move.                                                        *)

LEMMA CopySent ==
  ASSUME NEW m, NEW b, NEW r, NEW q, NEW p, Copies(m, b, r, q, p), IsSeq(m),
         NEW x, x.id \notin Ids(m) \cup Ids(b) \cup Ids(r) \cup Ids(q) \cup Ids(p)
  PROVE  Copies(Put(m, x), b, r, q, p)
<1>1. PICK n : n = Put(m, x)
  OBVIOUS
<1>2. /\ Ids(n) = Ids(m) \cup {x.id} /\ Fulls(n) \subseteq Fulls(m) \cup {x.id} /\ Lone(n)
  BY <1>1, PutItems, FullIn DEF Copies
<1>3. Apart(n, b) /\ Apart(n, r) /\ Apart(n, q) /\ Apart(n, p)
  BY <1>2, FullIn DEF Copies, Apart
<1> QED
  BY <1>1, <1>2, <1>3 DEF Copies

LEMMA BatchTaken ==
  ASSUME NEW m, NEW b, NEW r, NEW q, NEW p, Copies(m, b, r, q, p)
  PROVE  Copies(<<>>, m, r, q, p) /\ Copies(m, b, <<>>, r, p)
BY NoItems DEF Copies, Apart

LEMMA CopiesDropped ==
  ASSUME NEW m, NEW b, NEW r, NEW q, NEW p, Copies(m, b, r, q, p)
  PROVE  Copies(<<>>, b, <<>>, q, p) /\ Copies(<<>>, b, <<>>, <<>>, p)
BY NoItems DEF Copies, Apart

LEMMA PendingTaken ==
  ASSUME NEW m, NEW b, NEW r, NEW q, NEW p, Copies(m, b, r, q, p), IsSeq(p)
  PROVE  Copies(m, b, r, p, <<>>)
BY NoItems, EmptyAreLone DEF Copies, Apart

LEMMA CopyWorked ==
  ASSUME NEW m, NEW b, NEW r, NEW q, NEW p, Copies(m, b, r, q, p), IsSeq(b), b # <<>>, IsSeq(r),
         NEW y, y.id = First(b).id, First(b).cv = <<>> => y.cv = <<>>
  PROVE  Copies(m, Rem(b), r, q, p) /\ Copies(m, Rem(b), Put(r, y), q, p)
<1>1. PICK x, t, n : x = First(b) /\ t = Rem(b) /\ n = Put(r, y)
  OBVIOUS
<1>2. /\ Ids(b) = Ids(t) \cup {x.id} /\ Fulls(b) = Fulls(t) \cup {i \in {x.id} : x.cv # <<>>}
      /\ Lone(t) /\ x.id \notin Fulls(t) /\ (x.cv # <<>> => x.id \notin Ids(t))
  BY <1>1, RemItems DEF Copies
<1>3. Copies(m, t, r, q, p)
  BY <1>2 DEF Copies, Apart
<1>4. x.id \notin Fulls(r) /\ (x.cv # <<>> => x.id \notin Ids(r))
  BY <1>2 DEF Copies, Apart
<1>5. /\ Ids(n) = Ids(r) \cup {x.id} /\ Fulls(n) \subseteq Fulls(r) \cup {i \in {x.id} : x.cv # <<>>}
      /\ Lone(n)
  BY <1>1, <1>4, PutItems DEF Copies
<1>6. Apart(m, n) /\ Apart(t, n) /\ Apart(n, q) /\ Apart(n, p)
  BY <1>2, <1>5 DEF Copies, Apart
<1> QED
  BY <1>1, <1>3, <1>5, <1>6 DEF Copies

\* an answer takes the place of its image
Answered(q, y) == <<y>> \o Rem(q)

LEMMA AnsweredItems ==
  ASSUME NEW q, IsSeq(q), q # <<>>, NEW y
  PROVE  /\ IsSeq(Answered(q, y)) /\ Len(Answered(q, y)) = Len(q)
         /\ First(Answered(q, y)) = y /\ Rem(Answered(q, y)) = Rem(q) /\ Answered(q, y) # <<>>
<1>1. PICK t, a, C : t = Rem(q) /\ a = Answered(q, y) /\ C = ItemsOf(t) \cup {y}
  OBVIOUS
<1>2. IsSeq(t) /\ Len(t) = Len(q) - 1 /\ Len(q) \in Nat
  BY <1>1, RemFacts
<1>3. t \in Seq(C) /\ <<y>> \in Seq(C) /\ y \in C
  BY <1>1, <1>2, ItemsSeq, SeqMonotonic
<1>4. a = <<y>> \o t
  BY <1>1 DEF Answered
<1>5. /\ a \in Seq(C) /\ Len(a) = Len(t) + 1 /\ a[1] = y /\ \A i \in 1..Len(t) : a[i + 1] = t[i]
  BY <1>3, <1>4
<1>6. a # <<>> /\ Head(a) = y /\ Tail(a) = t
  <2>1. a # <<>>
    BY <1>2, <1>5, EmptySeq
  <2>2. Tail(a) \in Seq(C) /\ Len(Tail(a)) = Len(t) /\ \A i \in 1..Len(t) : Tail(a)[i] = t[i]
    BY <1>2, <1>5, <2>1, HeadTailProperties
  <2>3. Tail(a) = t
    BY <1>3, <2>2, SeqEqual
  <2> QED
    BY <1>5, <2>1, <2>3
<1> QED
  BY <1>1, <1>2, <1>5, <1>6, IsSeqOf DEF First, Rem

LEMMA CopyAnswered ==
  ASSUME NEW m, NEW b, NEW r, NEW q, NEW p, Copies(m, b, r, q, p), IsSeq(q), q # <<>>, IsSeq(p),
         NEW y, y.id = First(q).id, First(q).cv # <<>>
  PROVE  /\ Copies(m, b, r, Answered(q, y), p)
         /\ y.cv = <<>> => Copies(m, b, r, Answered(q, y), Put(p, y))
<1>1. PICK x, t, n, w : x = First(q) /\ t = Rem(q) /\ n = Answered(q, y) /\ w = Put(p, y)
  OBVIOUS
<1>2. /\ Ids(q) = Ids(t) \cup {x.id} /\ Fulls(q) = Fulls(t) \cup {x.id}
      /\ Lone(t) /\ x.id \notin Ids(t) /\ x.id \notin Fulls(t)
  BY <1>1, RemItems DEF Copies
<1>3. IsSeq(n) /\ n # <<>> /\ First(n) = y /\ Rem(n) = t
  BY <1>1, AnsweredItems
<1>4. /\ Ids(n) = Ids(t) \cup {x.id} /\ Fulls(n) = Fulls(t) \cup {i \in {x.id} : y.cv # <<>>}
  BY <1>1, <1>3, RemItems
<1>5. Lone(n)
  <2>1. /\ Len(n) \in Nat /\ Len(n) >= 1 /\ Len(t) = Len(n) - 1 /\ n[1] = y
        /\ \A k \in 1..Len(t) : n[k + 1] = t[k] /\ t[k].id # x.id
    <3>1. \A k \in 1..Len(t) : t[k] \in ItemsOf(t)
      BY DEF ItemsOf
    <3> QED
      BY <1>2, <1>3, <3>1, RemFacts DEF Ids
  <2>2. ASSUME NEW i \in 1..Len(n), NEW j \in 1..Len(n), n[i].id = n[j].id, n[i].cv # <<>>
        PROVE  i = j
    <3>1. \A k \in 1..Len(n) : k = 1 \/ (k - 1 \in 1..Len(t) /\ (k - 1) + 1 = k)
      BY <2>1
    <3>2. \A k \in 1..Len(n) : k = 1 \/ (n[k] = t[k - 1] /\ n[k].id # x.id)
      BY <2>1, <3>1
    <3>3. y.id = x.id
      BY <1>1
    <3>4. CASE i = 1 \/ j = 1
      BY <2>1, <2>2, <3>2, <3>3, <3>4
    <3>5. CASE i # 1 /\ j # 1
      <4>1. PICK k \in 1..Len(t), l \in 1..Len(t) : k = i - 1 /\ l = j - 1
        BY <3>1, <3>5
      <4>2. t[k].id = t[l].id /\ t[k].cv # <<>>
        BY <2>2, <3>2, <3>5, <4>1
      <4>3. k = l
        BY <1>2, <4>2 DEF Lone
      <4> QED
        BY <4>1, <4>3
    <3> QED
      BY <3>4, <3>5
  <2> QED
    BY <2>2 DEF Lone
<1>6. Copies(m, b, r, n, p)
  BY <1>2, <1>4, <1>5 DEF Copies, Apart
<1>7. ASSUME y.cv = <<>>
      PROVE  Copies(m, b, r, n, w)
  <2>1. Fulls(w) = {} /\ Ids(w) = Ids(p) \cup {x.id}
    BY <1>1, <1>7, PutItems DEF Copies
  <2>2. x.id \notin Fulls(m) \cup Fulls(b) \cup Fulls(r) \cup Fulls(n)
    BY <1>2, <1>4, <1>7, FullIn DEF Copies, Apart
  <2> QED
    BY <1>6, <2>1, <2>2 DEF Copies, Apart
<1> QED
  BY <1>1, <1>6, <1>7

LEMMA CopyHanded ==
  ASSUME NEW m, NEW b, NEW r, NEW q, NEW p, Copies(m, b, r, q, p), IsSeq(q), q # <<>>, IsSeq(m)
  PROVE  Copies(Put(m, First(q)), b, r, Rem(q), p)
<1>1. PICK x, t, n : x = First(q) /\ t = Rem(q) /\ n = Put(m, x)
  OBVIOUS
<1>2. /\ Ids(q) = Ids(t) \cup {x.id} /\ Fulls(q) = Fulls(t) \cup {i \in {x.id} : x.cv # <<>>}
      /\ Lone(t) /\ x.id \notin Fulls(t) /\ (x.cv # <<>> => x.id \notin Ids(t))
  BY <1>1, RemItems DEF Copies
<1>3. Copies(m, b, r, t, p)
  BY <1>2 DEF Copies, Apart
<1>4. x.id \notin Fulls(m) /\ (x.cv # <<>> => x.id \notin Ids(m))
  BY <1>2 DEF Copies, Apart
<1>5. /\ Ids(n) = Ids(m) \cup {x.id} /\ Fulls(n) = Fulls(m) \cup {i \in {x.id} : x.cv # <<>>}
      /\ Lone(n)
  BY <1>1, <1>4, PutItems DEF Copies
<1>6. Apart(n, b) /\ Apart(n, r) /\ Apart(n, t) /\ Apart(n, p)
  BY <1>2, <1>3, <1>5 DEF Copies, Apart
<1> QED
  BY <1>1, <1>3, <1>5, <1>6 DEF Copies

-----------------------------------------------------------------------------
(* The images the actions make.                                            *)

LEMMA CopyIs ==
  ASSUME findOps \in Seq(ImageOps), findOps # <<>>, NEW x, IsImage(x), x.error = FALSE
  PROVE  Copy(x) = x
<1>1. x.ops = findOps /\ x = Img(x.id, x.cv, findOps, x.done, FALSE)
  BY DEF IsImage, Img
<1>2. Head(findOps) \in ImageOps
  BY HeadTailProperties
<1>3. Head(x.ops) # "read"
  BY <1>1, <1>2 DEF ImageOps
<1>4. Copy(x) = [x EXCEPT !.error = FALSE]
  BY <1>3 DEF Copy
<1> QED
  BY <1>1, <1>4 DEF Img

\* the copy that FindImage enqueues
LEMMA SentCopy ==
  ASSUME findOps \in Seq(ImageOps), findOps # <<>>, NEW i \in ImageIds, IsSeq(file[i]),
         NEW x, x = Copy(Enqueued(Image(i), findOps))
  PROVE  /\ IsImage(x) /\ ImageInOrder(x) /\ x.id = i /\ x.error = FALSE
         /\ x.done = 0 /\ 0 # Len(findOps)
<1>1. PICK ops : ops = <<"read">> \o findOps
  OBVIOUS
<1>2. ops # <<>> /\ Head(ops) = "read" /\ Tail(ops) = findOps
  BY <1>1
<1>3. Enqueued(Image(i), findOps) = Img(i, <<>>, ops, 0, FALSE)
  <2>1. Image(i) = Img(i, <<>>, <<"read">>, 0, FALSE)
    BY DEF Image, Img
  <2>2. Enqueued(Image(i), findOps) = [Image(i) EXCEPT !.ops = <<"read">> \o findOps]
    BY DEF Enqueued, Image
  <2>3. Enqueued(Image(i), findOps) = [Img(i, <<>>, <<"read">>, 0, FALSE) EXCEPT !.ops = ops]
    BY <1>1, <2>1, <2>2
  <2> QED
    BY <2>3 DEF Img
<1>4. x = [Img(i, <<>>, ops, 0, FALSE) EXCEPT !.ops = Tail(@), !.cv = LocalFile(i), !.error = FALSE]
  BY <1>2, <1>3 DEF Copy, Img
<1>5. x = Img(i, LocalFile(i), findOps, 0, FALSE)
  BY <1>2, <1>4 DEF Img
<1>6. /\ x.id = i /\ x.cv = LocalFile(i) /\ x.ops = findOps /\ x.done = 0 /\ x.error = FALSE
  BY <1>5 DEF Img
<1>7. Len(findOps) \in Nat /\ 0 # Len(findOps)
  BY EmptySeq, LenProperties
<1>8. IsSeq(LocalFile(i)) /\ (LocalFile(i) # <<>> => LocalFile(i) = file[i])
  BY NoneIsSeq DEF LocalFile
<1>9. Ordered(file[i], findOps, 0) = file[i]
  BY OrderedFacts
<1>10. IsImage(x)
  <2>1. x = Img(x.id, x.cv, findOps, x.done, x.error)
    BY <1>5, <1>6
  <2>2. x.done \in 0..Len(findOps) /\ IsSeq(x.cv) /\ x.id \in ImageIds
    BY <1>6, <1>7, <1>8
  <2>3. x.error \in BOOLEAN
    BY <1>6, Zenon
  <2> QED
    BY <2>1, <2>2, <2>3 DEF IsImage
<1>11. ImageInOrder(x)
  BY <1>6, <1>8, <1>9 DEF ImageInOrder
<1> QED
  BY <1>6, <1>7, <1>10, <1>11

\* the answer of the remote service
LEMMA AnswerFacts ==
  ASSUME findOps \in Seq(ImageOps), NEW x, IsImage(x), x.error = FALSE, ImageInOrder(x),
         IsSeq(file[x.id]), x.cv # <<>>, AtNext(x, "remote"), NEW good \in BOOLEAN,
         NEW y, y = RemoteImage(x, good)
  PROVE  /\ IsImage(y) /\ ImageInOrder(y) /\ y.id = x.id /\ y.error = FALSE
         /\ good = FALSE => y.cv = <<>>
<1>1. PICK c : c = IF good THEN Append(x.cv, "remote") ELSE <<>>
  OBVIOUS
<1>2. /\ x = Img(x.id, x.cv, findOps, x.done, x.error)
      /\ x.id \in ImageIds /\ x.done \in Nat /\ x.done < Len(findOps) /\ Len(findOps) \in Nat
      /\ findOps[x.done + 1] = "remote" /\ IsSeq(x.cv)
  BY DEF IsImage, AtNext
<1>3. y = [x EXCEPT !.cv = c, !.done = @ + 1]
  BY <1>1 DEF RemoteImage
<1>4. y = Img(x.id, c, findOps, x.done + 1, x.error)
  <2>1. y = [Img(x.id, x.cv, findOps, x.done, x.error) EXCEPT !.cv = c, !.done = @ + 1]
    BY <1>2, <1>3
  <2> QED
    BY <2>1 DEF Img
<1>5. y.id = x.id /\ y.cv = c /\ y.done = x.done + 1 /\ y.error = FALSE
  BY <1>4 DEF Img
<1>6. IsSeq(c) /\ (good = FALSE => c = <<>>) /\ (c # <<>> => c = Put(x.cv, "remote"))
  BY <1>1, <1>2, PutFacts, NoneIsSeq DEF Put
<1>7. IsImage(y)
  <2>1. y = Img(y.id, y.cv, findOps, y.done, y.error)
    BY <1>4, <1>5
  <2>2. y.done \in 0..Len(findOps)
    BY <1>2, <1>5
  <2>3. y.error \in BOOLEAN
    BY <1>5, Zenon
  <2> QED
    BY <1>2, <1>5, <1>6, <2>1, <2>2, <2>3 DEF IsImage
<1>8. PICK d : d = x.done + 1
  OBVIOUS
<1>9. d \in 1..Len(findOps) /\ d - 1 = x.done
  BY <1>2, <1>8
<1>10. Ordered(file[x.id], findOps, d) = Put(Ordered(file[x.id], findOps, d - 1), findOps[d])
  BY <1>9, OrderedFacts
<1>11. x.cv = Ordered(file[x.id], findOps, x.done)
  BY DEF ImageInOrder
<1>12. ImageInOrder(y)
  BY <1>2, <1>5, <1>6, <1>8, <1>9, <1>10, <1>11 DEF ImageInOrder
<1> QED
  BY <1>5, <1>6, <1>7, <1>12

LEMMA ErrorImage ==
  ASSUME NEW x, IsImage(x), NEW y, y = [x EXCEPT !.error = TRUE]
  PROVE  IsImage(y) /\ y.id = x.id /\ y.error = TRUE
<1>1. y = Img(x.id, x.cv, findOps, x.done, TRUE)
  <2>1. x = Img(x.id, x.cv, findOps, x.done, x.error)
    BY DEF IsImage
  <2>2. y = [Img(x.id, x.cv, findOps, x.done, x.error) EXCEPT !.error = TRUE]
    BY <2>1
  <2> QED
    BY <2>2 DEF Img
<1>2. /\ y.id = x.id /\ y.cv = x.cv /\ y.done = x.done /\ y.error = TRUE
  BY <1>1 DEF Img
<1> QED
  BY <1>1, <1>2 DEF IsImage

-----------------------------------------------------------------------------
(* Steps that leave the files and the operations alone.                    *)

Calm ==
  /\ findOps' = findOps /\ file' = file
  /\ sentImages \in Nat /\ sentImages' \in Nat /\ sentImages <= sentImages'

LEMMA CalmImages ==
  ASSUME Calm
  PROVE  \A x : /\ IsImage(x) => IsImage(x)'
                /\ ImageInOrder(x) => ImageInOrder(x)'
                /\ AtNext(x, "remote") => AtNext(x, "remote")'
                /\ Flies(x) => Flies(x)'
<1>1. \A x : IsImage(x) => IsImage(x)'
  BY DEF Calm, IsImage
<1>2. \A x : ImageInOrder(x) => ImageInOrder(x)'
  BY DEF Calm, ImageInOrder
<1>3. \A x : AtNext(x, "remote") => AtNext(x, "remote")'
  BY DEF Calm, AtNext
<1>4. ASSUME NEW x, Flies(x)
      PROVE  Flies(x)'
  <2>1. x.id \in Nat
    BY <1>4, ImageAssumption DEF Flies, IsImage, ImageIds
  <2>2. x.id <= sentImages'
    BY <1>4, <2>1 DEF Flies, Calm
  <2> QED
    BY <1>1, <1>2, <1>4, <2>2 DEF Flies
<1> QED
  BY <1>1, <1>2, <1>3, <1>4

LEMMA CalmQueues ==
  ASSUME Calm
  PROVE  /\ \A q : (AllFly(q) => AllFly(q)') /\ (Waits(q) => Waits(q)')
         /\ \A q : AllFull(q) => AllFull(q)'
BY CalmImages DEF AllFly, Waits, AllFull

LEMMA CalmBatch ==
  ASSUME Calm, BatchOk(rBatch', rAt')
  PROVE  BatchOk(rBatch, rAt)'
BY DEF BatchOk, Waits, AllFull, AtNext, Calm

LEMMA PutFlies ==
  ASSUME NEW q, NEW x
  PROVE  /\ AllFly(q) /\ Flies(x) => AllFly(Put(q, x))
         /\ AllFly(q) /\ Waits(q) /\ AtNext(x, "remote") => Waits(Put(q, x))
         /\ AllFly(q) /\ AllFull(q) /\ x.cv # <<>> => AllFull(Put(q, x))
BY PutItems DEF AllFly, Waits, AllFull

LEMMA RemFlies ==
  ASSUME NEW q, q # <<>>, AllFly(q)
  PROVE  /\ AllFly(Rem(q)) /\ Flies(First(q)) /\ First(q) \in ItemsOf(q)
         /\ \A x \in ItemsOf(Rem(q)) : x \in ItemsOf(q)
         /\ Waits(q) => Waits(Rem(q))
         /\ AllFull(q) => AllFull(Rem(q))
BY RemItems DEF AllFly, Waits, AllFull

LEMMA NoneFly == AllFly(<<>>) /\ Waits(<<>>) /\ AllFull(<<>>)
BY NoItems DEF AllFly, Waits, AllFull

LEMMA CalmMap ==
  ASSUME Calm
  PROVE  \A f : /\ MapOk(f) => MapOk(f)'
                /\ \A q : Settled(f, q) => Settled(f, q)'
                /\ \A i : Complete(f, i) => Complete(f, i)'
<1>1. ASSUME NEW f, MapOk(f)
      PROVE  MapOk(f)'
  <2>1. ASSUME NEW i \in ImageIds, f[i] # NoImage
        PROVE  /\ IsImage(f[i])' /\ f[i].id = i /\ i <= sentImages'
               /\ f[i].error = FALSE => ImageInOrder(f[i])'
    <3>1. /\ IsImage(f[i]) /\ f[i].id = i /\ i <= sentImages
          /\ f[i].error = FALSE => ImageInOrder(f[i])
      BY <1>1, <2>1 DEF MapOk
    <3>2. i <= sentImages'
      BY <3>1, ImageAssumption DEF Calm, ImageIds
    <3> QED
      BY <3>1, <3>2, CalmImages
  <2> QED
    BY <2>1 DEF MapOk
<1>2. \A f, i : Complete(f, i) => Complete(f, i)'
  BY DEF Complete, Calm
<1>3. \A f, q : Settled(f, q) => Settled(f, q)'
  BY <1>2 DEF Settled, Calm
<1> QED
  BY <1>1, <1>2, <1>3

\* what the steps that move no image keep
LEMMA StillStep ==
  ASSUME LoopInv, Calm, sentImages' = sentImages, imageMap' = imageMap,
         UNCHANGED <<mQueue, mBatch, rQueue, rBatch, pending>>,
         BatchOk(rBatch, rAt')
  PROVE  QueuesInv' /\ CopiesInv' /\ MapInv' /\ KeptInv'
<1>1. QueuesInv'
  BY CalmQueues, CalmBatch DEF LoopInv, QueuesInv
<1>2. CopiesInv'
  BY DEF LoopInv, CopiesInv
<1>3. MapInv'
  BY CalmMap DEF LoopInv, MapInv
<1>4. KeptInv'
  BY CalmMap DEF LoopInv, KeptInv
<1> QED
  BY <1>1, <1>2, <1>3, <1>4

\* the steps that move images: where an image is does not change
LEMMA MovedStep ==
  ASSUME LoopInv, Calm, sentImages' = sentImages, imageMap' = imageMap,
         CopiesInv', QueuesInv',
         Ids(mQueue) \cup Ids(mBatch) \cup Ids(rQueue) \cup Ids(rBatch)
           \subseteq Ids(mQueue') \cup Ids(mBatch') \cup Ids(rQueue') \cup Ids(rBatch'),
         ItemsOf(mQueue') \cup ItemsOf(mBatch') \cup ItemsOf(rQueue') \cup ItemsOf(rBatch')
             \cup ItemsOf(pending')
           \subseteq ItemsOf(mQueue) \cup ItemsOf(mBatch) \cup ItemsOf(rQueue)
             \cup ItemsOf(rBatch) \cup ItemsOf(pending)
  PROVE  MapInv' /\ KeptInv'
<1> DEFINE Old == ItemsOf(mQueue) \cup ItemsOf(mBatch) \cup ItemsOf(rQueue) \cup ItemsOf(rBatch)
                    \cup ItemsOf(pending)
<1>1. MapOk(imageMap)'
  BY CalmMap DEF LoopInv, MapInv
<1>2. \A q : ItemsOf(q) \subseteq Old => Settled(imageMap, q)' /\ NoneFailed(imageMap, q)
  <2>1. \A x \in Old : x.done = Len(findOps) =>
          Failed(imageMap, x.id) \/ Complete(imageMap, x.id)
    BY DEF LoopInv, MapInv, Settled
  <2>2. \A x \in Old : x.cv # <<>> => ~Failed(imageMap, x.id)
    BY DEF LoopInv, MapInv, NoneFailed, CopiesInv, Copies, Fulls
  <2> HIDE DEF Old
  <2>3. \A q : ItemsOf(q) \subseteq Old => Settled(imageMap, q) /\ NoneFailed(imageMap, q)
    BY <2>1, <2>2 DEF Settled, NoneFailed, Fulls
  <2> QED
    BY <2>3, CalmMap
<1>3. /\ Settled(imageMap, mQueue)' /\ Settled(imageMap, mBatch)' /\ Settled(imageMap, rQueue)'
      /\ Settled(imageMap, rBatch)' /\ Settled(imageMap, pending)'
      /\ NoneFailed(imageMap, mQueue)' /\ NoneFailed(imageMap, mBatch)'
      /\ NoneFailed(imageMap, rQueue)' /\ NoneFailed(imageMap, rBatch)'
  BY <1>2 DEF Settled, Complete, Failed, NoneFailed
<1>4. KeptInv'
  BY CalmMap DEF LoopInv, KeptInv
<1> QED
  BY <1>1, <1>3, <1>4 DEF MapInv

LEMMA LocalTakeStep ==
  ASSUME LoopInv, LocalTake
  PROVE  Calm /\ QueuesInv' /\ CopiesInv' /\ MapInv' /\ KeptInv'
<1>0. Calm /\ sentImages' = sentImages /\ imageMap' = imageMap
  BY ImageAssumption DEF Calm, LoopInv, FileInv, LocalTake, handlerVars
<1>1. /\ mBatch = <<>> /\ mBatch' = mQueue /\ mQueue' = <<>>
      /\ UNCHANGED <<rQueue, rBatch, pending, rAt>>
  BY DEF LocalTake, remoteVars
<1>2. QueuesInv'
  BY <1>0, <1>1, CalmQueues, CalmBatch, NoneFly DEF LoopInv, QueuesInv
<1>3. CopiesInv'
  BY <1>1, BatchTaken DEF LoopInv, CopiesInv
<1> QED
  BY <1>0, <1>1, <1>2, <1>3, NoItems, MovedStep

LEMMA RemoteTakeStep ==
  ASSUME LoopInv, RemoteTake
  PROVE  Calm /\ QueuesInv' /\ CopiesInv' /\ MapInv' /\ KeptInv'
<1>0. Calm /\ sentImages' = sentImages /\ imageMap' = imageMap
  BY ImageAssumption DEF Calm, LoopInv, FileInv, RemoteTake, handlerVars
<1>1. /\ rBatch = <<>> /\ rBatch' = rQueue /\ rQueue' = <<>> /\ rAt' = "taken"
      /\ rQueue # <<>>
      /\ UNCHANGED <<mQueue, mBatch, pending>>
  <2>1. Len(rQueue) # 0
    BY ImageAssumption DEF RemoteTake
  <2>2. rQueue # <<>>
    BY <2>1, NoneIsSeq
  <2>3. BatchOk(rBatch, rAt)
    BY DEF LoopInv, QueuesInv
  <2> QED
    BY <2>2, <2>3 DEF RemoteTake, localVars, BatchOk
<1>2. QueuesInv'
  <2>1. BatchOk(rQueue, "taken")
    BY <1>1 DEF BatchOk, LoopInv, QueuesInv
  <2>2. BatchOk(rBatch, rAt)'
    BY <1>0, <1>1, <2>1, CalmBatch
  <2> QED
    BY <1>0, <1>1, <2>2, CalmQueues, NoneFly DEF LoopInv, QueuesInv
<1>3. CopiesInv'
  BY <1>1, BatchTaken DEF LoopInv, CopiesInv
<1> QED
  BY <1>0, <1>1, <1>2, <1>3, NoItems, MovedStep

LEMMA RemoteEndStep ==
  ASSUME LoopInv, RemoteEnd
  PROVE  Calm /\ QueuesInv' /\ CopiesInv' /\ MapInv' /\ KeptInv'
<1>0. Calm /\ sentImages' = sentImages /\ imageMap' = imageMap
  BY ImageAssumption DEF Calm, LoopInv, FileInv, RemoteEnd, handlerVars
<1>1. /\ rBatch = <<>> /\ rBatch' = pending /\ pending' = <<>>
      /\ rAt' = IF pending = <<>> THEN "wait" ELSE "post"
      /\ UNCHANGED <<mQueue, mBatch, rQueue>>
  BY DEF RemoteEnd, localVars
<1>2. Waits(pending) /\ Fulls(pending) = {}
  BY DEF LoopInv, CopiesInv, Copies, Waits, Fulls
<1>3. QueuesInv'
  <2>1. BatchOk(pending, rAt')
    BY <1>1, <1>2 DEF BatchOk
  <2>2. BatchOk(rBatch, rAt)'
    BY <1>0, <1>1, <2>1, CalmBatch
  <2> QED
    BY <1>0, <1>1, <2>2, CalmQueues, NoneFly DEF LoopInv, QueuesInv
<1>4. CopiesInv'
  BY <1>1, PendingTaken DEF LoopInv, QueuesInv, CopiesInv, AllFly
<1> QED
  BY <1>0, <1>1, <1>2, <1>3, <1>4, NoItems, MovedStep

LEMMA QuietStep ==
  ASSUME LoopInv, Collect \/ RemoteMark \/ RemotePost \/ RemoteHang
  PROVE  Calm /\ QueuesInv' /\ CopiesInv' /\ MapInv' /\ KeptInv'
<1>0. Calm /\ sentImages' = sentImages /\ imageMap' = imageMap
  <2>1. sentImages' = sentImages /\ findOps' = findOps /\ file' = file /\ imageMap' = imageMap
    BY DEF Collect, RemoteMark, RemotePost, RemoteHang, handlerVars
  <2> QED
    BY <2>1, ImageAssumption DEF Calm, LoopInv, FileInv
<1>1. UNCHANGED <<mQueue, mBatch, rQueue, rBatch, pending>>
  BY DEF Collect, RemoteMark, RemotePost, RemoteHang, localVars, remoteVars
<1>2. BatchOk(rBatch, rAt')
  <2>1. QueuesInv /\ BatchOk(rBatch, rAt)
    BY DEF LoopInv, QueuesInv
  <2>2. CASE Collect
    BY <2>1, <2>2 DEF Collect, remoteVars
  <2>3. CASE RemoteMark
    BY <2>1, <2>3 DEF BatchOk, RemoteMark
  <2>4. CASE RemotePost
    <3>1. CASE rAt' = "crashed"
      BY <2>1, <2>4, <3>1 DEF BatchOk, RemotePost
    <3>2. CASE ~ \E n \in DOMAIN rBatch : rBatch[n].cv = <<>>
      <4>1. IsSeq(rBatch)
        BY <2>1 DEF QueuesInv, AllFly
      <4>2. DOMAIN rBatch = 1..Len(rBatch)
        BY <4>1 DEF IsSeq
      <4>3. rAt' = "collect" /\ \A x \in ItemsOf(rBatch) : x.cv # <<>>
        BY <2>4, <3>2, <4>2 DEF RemotePost, ItemsOf
      <4> QED
        BY <2>1, <2>4, <4>3 DEF BatchOk, AllFull, RemotePost
    <3> QED
      BY <2>4, <3>1, <3>2 DEF RemotePost
  <2>5. CASE RemoteHang
    BY <2>1, <2>5 DEF BatchOk, RemoteHang
  <2> QED
    BY <2>2, <2>3, <2>4, <2>5
<1> QED
  BY <1>0, <1>1, <1>2, StillStep

LEMMA SendImageStep ==
  ASSUME LoopInv, SendImage
  PROVE  Calm /\ QueuesInv' /\ CopiesInv' /\ MapInv' /\ KeptInv'
<1>1. PICK i, x : i = sentImages + 1 /\ x = Copy(Enqueued(Image(i), findOps))
  OBVIOUS
<1>2. /\ i \in ImageIds /\ sentImages \in Nat /\ sentImages' = i /\ i = sentImages + 1
      /\ mQueue' = Put(mQueue, x)
      /\ UNCHANGED <<mBatch, rQueue, rBatch, pending, rAt, imageMap, file, findOps>>
  BY <1>1, ImageAssumption
     DEF SendImage, Put, LoopInv, FileInv, ImageIds, remoteVars
<1>3. Calm
  BY <1>2 DEF Calm
<1>4. /\ IsImage(x) /\ ImageInOrder(x) /\ x.id = i /\ x.error = FALSE
      /\ x.done = 0 /\ 0 # Len(findOps)
  BY <1>1, <1>2, SentCopy DEF LoopInv, FileInv
<1>5. \A q : AllFly(q) => i \notin Ids(q)
  <2>1. \A y : Flies(y) => y.id # i
    BY <1>2, ImageAssumption DEF Flies, IsImage, ImageIds
  <2> QED
    BY <2>1 DEF AllFly, Ids
<1>6. imageMap[i] = NoImage
  BY <1>2 DEF LoopInv, MapInv, MapOk, ImageIds
<1>7. Flies(x)'
  <2>1. x.id <= sentImages'
    BY <1>2, <1>4
  <2>2. IsImage(x)' /\ ImageInOrder(x)'
    BY <1>3, <1>4, CalmImages
  <2> QED
    BY <1>4, <2>1, <2>2 DEF Flies
<1>8. PICK q, r : q = mQueue /\ r = mQueue'
  OBVIOUS
<1>9. /\ ItemsOf(r) = ItemsOf(q) \cup {x} /\ Ids(r) = Ids(q) \cup {i}
      /\ Fulls(r) \subseteq Fulls(q) \cup {i} /\ IsSeq(r)
  BY <1>2, <1>4, <1>8, PutItems DEF LoopInv, QueuesInv, AllFly
<1>10. AllFly(mQueue)'
  <2>1. \A y \in ItemsOf(q) : Flies(y)'
    BY <1>3, <1>8, CalmImages DEF LoopInv, QueuesInv, AllFly
  <2> QED
    BY <1>7, <1>8, <1>9, <2>1 DEF AllFly
<1>11. QueuesInv'
  BY <1>2, <1>3, <1>10, CalmQueues, CalmBatch DEF LoopInv, QueuesInv
<1>12. CopiesInv'
  BY <1>2, <1>4, <1>5, CopySent DEF LoopInv, CopiesInv, QueuesInv, AllFly
<1>13. MapInv'
  <2>1. Settled(imageMap, mQueue)
    BY DEF LoopInv, MapInv
  <2>2. Settled(imageMap, r)
    BY <1>4, <1>8, <1>9, <2>1 DEF Settled
  <2>3. NoneFailed(imageMap, r)
    BY <1>6, <1>8, <1>9 DEF LoopInv, MapInv, NoneFailed, Failed
  <2> QED
    BY <1>2, <1>3, <1>8, <2>2, <2>3, CalmMap DEF LoopInv, MapInv
<1>14. KeptInv'
  <2>1. \A j \in 1..sentImages' : j = i \/ j \in 1..sentImages
    BY <1>2
  <2>2. \A j : Complete(imageMap, j) => Complete(imageMap, j)'
    BY <1>2, <1>3, CalmMap
  <2> QED
    BY <1>2, <1>8, <1>9, <2>1, <2>2 DEF LoopInv, KeptInv
<1> QED
  BY <1>3, <1>11, <1>12, <1>13, <1>14

\* nothing has been enqueued when images are added
LEMMA AddImageStep ==
  ASSUME LoopInv, AddImage
  PROVE  QueuesInv' /\ CopiesInv' /\ MapInv' /\ KeptInv'
<1>1. /\ sentImages = 0 /\ sentImages' = 0
      /\ UNCHANGED <<mQueue, mBatch, rQueue, rBatch, pending, rAt, imageMap, findOps>>
  BY DEF AddImage, LoopInv, FileInv, localVars, remoteVars
<1>2. \A q : AllFly(q) => ItemsOf(q) = {} /\ IsSeq(q)
  <2>1. \A x : ~Flies(x)
    BY <1>1, ImageAssumption DEF Flies, IsImage, ImageIds
  <2> QED
    BY <2>1 DEF AllFly
<1>3. /\ \A q : ItemsOf(q) = {} /\ IsSeq(q) => AllFly(q)' /\ Waits(q)' /\ AllFull(q)'
      /\ \A f, q : ItemsOf(q) = {} => Settled(f, q)'
  BY DEF AllFly, Waits, AllFull, Settled
<1>4. \A i \in ImageIds : imageMap[i] = NoImage
  BY <1>1, ImageAssumption DEF LoopInv, MapInv, MapOk, ImageIds
<1>5. QueuesInv'
  <2>1. BatchOk(rBatch, rAt)'
    BY <1>1 DEF LoopInv, QueuesInv, BatchOk, Waits, AllFull, AtNext
  <2> QED
    BY <1>1, <1>2, <1>3, <2>1 DEF LoopInv, QueuesInv
<1>6. CopiesInv'
  BY <1>1 DEF LoopInv, CopiesInv
<1>7. MapInv'
  <2>1. MapOk(imageMap)'
    BY <1>1, <1>4 DEF MapOk
  <2> QED
    BY <1>1, <1>2, <1>3, <2>1 DEF LoopInv, QueuesInv, MapInv
<1>8. KeptInv'
  BY <1>1 DEF KeptInv
<1> QED
  BY <1>5, <1>6, <1>7, <1>8

LEMMA RemoteErrorStep ==
  ASSUME LoopInv, RemoteError
  PROVE  /\ Calm /\ QueuesInv' /\ CopiesInv' /\ MapInv' /\ KeptInv'
         /\ \E i \in ImageIds : Failed(imageMap', i)
<1>1. PICK x, y, f : x = First(rBatch) /\ y = [x EXCEPT !.error = TRUE] /\ f = imageMap
  OBVIOUS
<1>2. rBatch # <<>> /\ AllFly(rBatch) /\ IsSeq(rBatch)
  BY DEF LoopInv, QueuesInv, RemoteError, AllFly, BatchOk
<1>3. rBatch[1] = x
  BY <1>1, <1>2, RemFacts
<1>4. /\ imageMap' = [f EXCEPT ![x.id] = y]
      /\ mQueue' = <<>> /\ rQueue' = <<>> /\ rBatch' = <<>> /\ rAt' = "wait"
      /\ UNCHANGED <<mBatch, pending, sentImages, file, findOps>>
  BY <1>1, <1>3 DEF RemoteError, handlerVars
<1>5. Calm
  BY <1>4, ImageAssumption DEF Calm, LoopInv, FileInv
<1>6. IsImage(x) /\ x.id \in ImageIds /\ x.id <= sentImages /\ x.id \in Ids(rBatch)
  BY <1>1, <1>2, RemFlies, FullIn DEF Flies, IsImage
<1>7. IsImage(y) /\ y.id = x.id /\ y.error = TRUE
  BY <1>1, <1>6, ErrorImage
<1>8. /\ DOMAIN f = ImageIds /\ imageMap'[x.id] = y /\ y # NoImage
      /\ \A i \in ImageIds : i # x.id => imageMap'[i] = f[i]
  <2>1. DOMAIN f = ImageIds
    BY <1>1 DEF LoopInv, FileInv
  <2>2. y # NoImage
    BY <1>7 DEF NoImage, IsImage, Img
  <2> QED
    BY <1>4, <1>6, <2>1, <2>2
<1>9. Failed(imageMap', x.id)
  BY <1>7, <1>8 DEF Failed
<1>10. QueuesInv'
  <2>1. BatchOk(rBatch, rAt)'
    BY <1>4, <1>5, CalmBatch, NoneFly DEF BatchOk
  <2> QED
    BY <1>4, <1>5, <2>1, CalmQueues, NoneFly DEF LoopInv, QueuesInv
<1>11. CopiesInv'
  BY <1>4, CopiesDropped DEF LoopInv, CopiesInv
<1>12. MapInv'
  <2>1. MapOk(imageMap')
    <3>1. ~(y.error = FALSE)
      BY <1>7
    <3>2. \A i \in ImageIds : i # x.id /\ f[i] # NoImage =>
            IsImage(f[i]) /\ f[i].id = i /\ i <= sentImages /\ (f[i].error = FALSE => ImageInOrder(f[i]))
      BY <1>1 DEF LoopInv, MapInv, MapOk
    <3> QED
      BY <1>6, <1>7, <1>8, <3>1, <3>2 DEF MapOk
  <2>2. Settled(imageMap', mBatch) /\ Settled(imageMap', pending)
    <3>1. \A i : i \in ImageIds => (Failed(f, i) \/ Complete(f, i) =>
                                      Failed(imageMap', i) \/ Complete(imageMap', i))
      BY <1>8, <1>9 DEF Failed, Complete
    <3>2. \A z \in ItemsOf(mBatch) \cup ItemsOf(pending) : z.id \in ImageIds
      BY DEF LoopInv, QueuesInv, AllFly, Flies, IsImage
    <3> QED
      BY <1>1, <3>1, <3>2 DEF LoopInv, MapInv, Settled
  <2>3. NoneFailed(imageMap', mBatch)
    <3>1. x.id \notin Fulls(mBatch)
      BY <1>6 DEF LoopInv, CopiesInv, Copies, Apart
    <3>2. Fulls(mBatch) \subseteq ImageIds
      BY DEF LoopInv, QueuesInv, AllFly, Flies, IsImage, Fulls
    <3> QED
      BY <1>1, <1>8, <3>1, <3>2 DEF LoopInv, MapInv, NoneFailed, Failed
  <2>4. Settled(imageMap', <<>>) /\ NoneFailed(imageMap', <<>>)
    BY NoItems DEF Settled, NoneFailed
  <2> QED
    BY <1>4, <1>5, <2>1, <2>2, <2>3, <2>4, CalmMap DEF MapInv
<1>13. KeptInv'
  BY <1>6, <1>9 DEF KeptInv
<1> QED
  BY <1>5, <1>6, <1>9, <1>10, <1>11, <1>12, <1>13

LEMMA RemoteCollectStep ==
  ASSUME LoopInv, RemoteCollect
  PROVE  /\ Calm /\ QueuesInv' /\ CopiesInv' /\ MapInv' /\ KeptInv'
         /\ \A i \in ImageIds : Failed(imageMap', i) <=> Failed(imageMap, i)
<1>1. PICK good \in BOOLEAN :
        LET img == RemoteImage(Head(rBatch), good)
            wait == IF good THEN pending ELSE Append(pending, img)
        IN  /\ imageMap' = [imageMap EXCEPT ![img.id] = img]
            /\ pending' = wait
            /\ rBatch' = <<img>> \o Tail(rBatch)
  BY DEF RemoteCollect
<1>2. PICK x, y, f : x = First(rBatch) /\ y = RemoteImage(x, good) /\ f = imageMap
  OBVIOUS
<1>3. /\ rBatch # <<>> /\ rAt = "collect" /\ rAt' = "handing"
      /\ UNCHANGED <<mQueue, mBatch, rQueue, sentImages, file, findOps>>
  BY DEF RemoteCollect, handlerVars, localVars
<1>4. /\ imageMap' = [f EXCEPT ![y.id] = y]
      /\ pending' = IF good THEN pending ELSE Put(pending, y)
      /\ rBatch' = Answered(rBatch, y)
  BY <1>1, <1>2 DEF Put, First, Rem, Answered
<1>5. /\ AllFly(mQueue) /\ AllFly(mBatch) /\ AllFly(rQueue) /\ AllFly(rBatch) /\ AllFly(pending)
      /\ Waits(rQueue) /\ Waits(rBatch) /\ AllFull(rQueue) /\ AllFull(rBatch)
  BY <1>3 DEF LoopInv, QueuesInv, BatchOk
<1>6. Calm /\ findOps \in Seq(ImageOps) /\ findOps # <<>>
  BY <1>3, ImageAssumption DEF Calm, LoopInv, FileInv
<1>7. /\ Flies(x) /\ x \in ItemsOf(rBatch) /\ x.cv # <<>> /\ AtNext(x, "remote")
      /\ x.id \in ImageIds /\ IsSeq(file[x.id])
  <2>1. Flies(x) /\ x \in ItemsOf(rBatch)
    BY <1>2, <1>3, <1>5, RemFlies
  <2>2. x.cv # <<>>
    BY <1>5, <2>1 DEF AllFull
  <2>3. x.id \in ImageIds
    BY <2>1 DEF Flies, IsImage
  <2> QED
    BY <1>5, <2>1, <2>2, <2>3 DEF Waits, LoopInv, FileInv
<1>8. /\ IsImage(y) /\ ImageInOrder(y) /\ y.id = x.id /\ y.error = FALSE
      /\ good = FALSE => y.cv = <<>>
  BY <1>2, <1>6, <1>7, AnswerFacts, ZenonT(60) DEF Flies
<1>9. Flies(y)
  BY <1>6, <1>7, <1>8 DEF Flies
<1>10. PICK p, n, m : p = pending' /\ n = rBatch' /\ m = Rem(rBatch)
  OBVIOUS
<1>11. n = Answered(rBatch, y) /\ (p = pending \/ (p = Put(pending, y) /\ y.cv = <<>>))
  <2>1. CASE good = TRUE
    <3>1. pending' = pending
      BY <1>4, <2>1, Zenon
    <3> QED
      BY <1>4, <1>10, <3>1
  <2>2. CASE good = FALSE
    BY <1>4, <1>8, <1>10, <2>2
  <2> QED
    BY <2>1, <2>2
<1>22. /\ IsSeq(n) /\ n # <<>> /\ First(n) = y /\ Rem(n) = m
       /\ AllFly(m) /\ Waits(m) /\ AllFull(m) /\ IsSeq(m)
  BY <1>3, <1>5, <1>10, <1>11, AnsweredItems, RemFlies DEF AllFly
<1>23. ItemsOf(n) = ItemsOf(m) \cup {y}
  BY <1>22, RemItems
<1>12. QueuesInv'
  <2>1. AllFly(n) /\ AllFly(p)
    BY <1>5, <1>9, <1>11, <1>22, <1>23, PutFlies DEF AllFly
  <2>2. BatchOk(rBatch', rAt')
    BY <1>3, <1>10, <1>22 DEF BatchOk
  <2> QED
    BY <1>3, <1>5, <1>6, <1>10, <2>1, <2>2, CalmQueues, CalmBatch DEF QueuesInv
<1>13. IsSeq(mQueue) /\ IsSeq(pending) /\ IsSeq(rBatch)
  BY <1>5 DEF AllFly
<1>14. CopiesInv'
  BY <1>2, <1>3, <1>7, <1>8, <1>10, <1>11, <1>13, CopyAnswered DEF LoopInv, CopiesInv
<1>15. /\ x.id \notin Ids(mQueue) \cup Ids(mBatch) \cup Ids(rQueue) \cup Ids(pending)
       /\ x.id \in Fulls(rBatch) /\ x.id \notin Ids(m)
  <2>1. x.id \in Fulls(rBatch)
    BY <1>7 DEF Fulls
  <2>2. x.id \notin Ids(m)
    BY <1>2, <1>3, <1>7, <1>10, <1>13, RemItems DEF LoopInv, CopiesInv, Copies
  <2> QED
    BY <2>1, <2>2 DEF LoopInv, CopiesInv, Copies, Apart
<1>16. /\ DOMAIN f = ImageIds /\ imageMap'[x.id] = y /\ y # NoImage
       /\ \A i \in ImageIds : i # x.id => imageMap'[i] = f[i]
  <2>1. DOMAIN f = ImageIds
    BY <1>2 DEF LoopInv, FileInv
  <2>2. y # NoImage
    BY <1>8 DEF NoImage, IsImage, Img
  <2> QED
    BY <1>4, <1>7, <1>8, <2>1, <2>2
<1>17. ~Failed(f, x.id) /\ ~Failed(imageMap', x.id)
  BY <1>2, <1>8, <1>15, <1>16 DEF LoopInv, MapInv, NoneFailed, Failed
<1>18. \A i \in ImageIds : /\ Failed(imageMap', i) <=> Failed(f, i)
                           /\ i # x.id => (Complete(imageMap', i) <=> Complete(f, i))
  BY <1>16, <1>17 DEF Failed, Complete
<1>19. /\ Ids(rBatch) = Ids(n) /\ Fulls(n) \subseteq Fulls(rBatch)
  <2>1. /\ Ids(n) = Ids(m) \cup {y.id} /\ Fulls(n) = Fulls(m) \cup {i \in {y.id} : y.cv # <<>>}
    BY <1>22, RemItems
  <2>2. /\ Ids(rBatch) = Ids(m) \cup {x.id}
        /\ Fulls(rBatch) = Fulls(m) \cup {i \in {x.id} : x.cv # <<>>}
    BY <1>2, <1>3, <1>10, <1>13, RemItems
  <2>3. Fulls(rBatch) = Fulls(m) \cup {x.id}
    BY <1>7, <2>2
  <2> QED
    BY <1>8, <2>1, <2>2, <2>3
<1>20. MapInv'
  <2>1. MapOk(imageMap')
    BY <1>2, <1>7, <1>8, <1>9, <1>16 DEF LoopInv, MapInv, MapOk, Flies
  <2>2. \A q : AllFly(q) /\ x.id \notin Ids(q) /\ Settled(f, q) => Settled(imageMap', q)
    BY <1>18 DEF AllFly, Flies, IsImage, Ids, Settled
  <2>3. /\ Settled(imageMap', mBatch) /\ Settled(imageMap', mQueue) /\ Settled(imageMap', rQueue)
        /\ Settled(imageMap', m) /\ Settled(imageMap', pending)
    <3>1. Settled(f, m)
      BY <1>2, <1>3, <1>5, <1>10, RemFlies DEF LoopInv, MapInv, Settled
    <3> QED
      BY <1>2, <1>5, <1>15, <1>22, <2>2, <3>1 DEF LoopInv, MapInv
  <2>4. Settled(imageMap', n) /\ Settled(imageMap', p)
    <3>1. y.done = Len(findOps) => Complete(imageMap', y.id)
      BY <1>8, <1>16 DEF Complete
    <3>2. ItemsOf(p) \subseteq ItemsOf(pending) \cup {y}
      BY <1>11, <1>13, PutItems
    <3> QED
      BY <1>23, <2>3, <3>1, <3>2 DEF Settled
  <2>5. \A q : AllFly(q) /\ NoneFailed(f, q) => NoneFailed(imageMap', q)
    <3>1. \A q : AllFly(q) => Fulls(q) \subseteq ImageIds
      BY DEF AllFly, Flies, IsImage, Fulls
    <3> QED
      BY <1>18, <3>1 DEF NoneFailed
  <2>6. /\ NoneFailed(imageMap', mQueue) /\ NoneFailed(imageMap', mBatch)
        /\ NoneFailed(imageMap', rQueue) /\ NoneFailed(imageMap', rBatch)
    BY <1>2, <1>5, <2>5 DEF LoopInv, MapInv
  <2>7. NoneFailed(imageMap', n)
    BY <1>19, <2>6 DEF NoneFailed
  <2> QED
    BY <1>3, <1>6, <1>10, <2>1, <2>3, <2>4, <2>6, <2>7, CalmMap DEF MapInv
<1>21. KeptInv'
  <2>1. ASSUME \A i \in ImageIds : ~Failed(imageMap', i), NEW i \in 1..sentImages
        PROVE  i \in Ids(mQueue) \cup Ids(mBatch) \cup Ids(rQueue) \cup Ids(n)
                 \/ Complete(imageMap', i)
    <3>1. i \in ImageIds
      BY ImageAssumption DEF ImageIds, LoopInv, FileInv
    <3>2. \/ i \in Ids(mQueue) \cup Ids(mBatch) \cup Ids(rQueue) \cup Ids(rBatch)
          \/ Complete(f, i)
      BY <1>2, <1>18, <2>1 DEF LoopInv, KeptInv
    <3>3. x.id \in Ids(rBatch)
      BY <1>15, FullIn
    <3> QED
      BY <1>18, <1>19, <3>1, <3>2, <3>3
  <2> QED
    BY <1>3, <1>6, <1>10, <2>1, CalmMap DEF KeptInv
<1> QED
  BY <1>2, <1>6, <1>12, <1>14, <1>18, <1>20, <1>21

LEMMA RemoteHandStep ==
  ASSUME LoopInv, RemoteHand
  PROVE  Calm /\ QueuesInv' /\ CopiesInv' /\ MapInv' /\ KeptInv'
<1>0. Calm /\ sentImages' = sentImages /\ imageMap' = imageMap
  BY ImageAssumption DEF Calm, LoopInv, FileInv, RemoteHand, handlerVars
<1>1. PICK x : x = First(rBatch)
  OBVIOUS
<1>2. /\ rAt = "handing" /\ rAt' = "collect"
      /\ mQueue' = Put(mQueue, Copy(x)) /\ rBatch' = Rem(rBatch)
      /\ UNCHANGED <<mBatch, rQueue, pending>>
  BY <1>1 DEF RemoteHand, Put, First, Rem
<1>3. /\ AllFly(mQueue) /\ AllFly(rBatch) /\ rBatch # <<>>
      /\ Waits(Rem(rBatch)) /\ AllFull(Rem(rBatch)) /\ IsSeq(mQueue) /\ IsSeq(rBatch)
      /\ findOps \in Seq(ImageOps) /\ findOps # <<>>
  BY <1>2 DEF LoopInv, QueuesInv, BatchOk, AllFly, FileInv
<1>4. Flies(x) /\ x \in ItemsOf(rBatch) /\ AllFly(Rem(rBatch))
  BY <1>1, <1>3, RemFlies
<1>5. mQueue' = Put(mQueue, x)
  BY <1>2, <1>3, <1>4, CopyIs DEF Flies
<1>6. QueuesInv'
  <2>1. AllFly(mQueue') /\ AllFly(rBatch')
    BY <1>2, <1>3, <1>4, <1>5, PutFlies
  <2>2. BatchOk(rBatch', rAt')
    BY <1>2, <1>3 DEF BatchOk
  <2>3. AllFly(mQueue)' /\ AllFly(rBatch)'
    <3>1. PICK m, q : m = mQueue' /\ q = rBatch'
      OBVIOUS
    <3>2. AllFly(m)' /\ AllFly(q)'
      BY <1>0, <2>1, <3>1, CalmQueues
    <3> QED
      BY <3>1, <3>2
  <2> QED
    BY <1>0, <1>2, <2>2, <2>3, CalmQueues, CalmBatch DEF LoopInv, QueuesInv
<1>7. CopiesInv'
  BY <1>1, <1>2, <1>3, <1>5, CopyHanded DEF LoopInv, CopiesInv
<1>8. /\ ItemsOf(rBatch) = ItemsOf(rBatch') \cup {x} /\ Ids(rBatch) = Ids(rBatch') \cup {x.id}
      /\ ItemsOf(mQueue') = ItemsOf(mQueue) \cup {x} /\ Ids(mQueue') = Ids(mQueue) \cup {x.id}
  BY <1>1, <1>2, <1>3, <1>5, RemItems, PutItems
<1> QED
  BY <1>0, <1>2, <1>6, <1>7, <1>8, MovedStep

\* f becomes g: only the image behind i may change, and not to the better
Updated(f, g, i) ==
  /\ \A j \in ImageIds : j # i => g[j] = f[j]
  /\ Failed(f, i) => Failed(g, i)

Worked(x, y, f, g, m, r) ==
  /\ x.done < Len(findOps)
  /\ \/ g[x.id] = y /\ (y.error = TRUE \/ x.done < y.done)
     \/ g[x.id] = f[x.id] /\ y.error = FALSE /\ y.done = x.done
  /\ y.error = TRUE => m = <<>> /\ r = <<>>
  /\ y.error = FALSE =>
       /\ m = mQueue
       /\ y.done < Len(findOps) => r = Put(rQueue, y)
       /\ y.done = Len(findOps) => r = rQueue

WorkOf(img, res) ==
  LET worked == img.done < Len(img.ops)
      failed == worked /\ res.error
      remote == worked /\ AtRemote(res)
  IN  /\ rQueue' = IF failed THEN <<>> ELSE IF remote THEN Append(rQueue, Copy(res)) ELSE rQueue
      /\ mQueue' = IF failed THEN <<>> ELSE mQueue
      /\ imageMap' = IF worked /\ (res.done > img.done \/ res.error)
                     THEN [imageMap EXCEPT ![img.id] = res] ELSE imageMap

LEMMA LocalWorkIs == LocalWork => WorkOf(Head(mBatch), Executed(Head(mBatch)))
BY DEF LocalWork, WorkOf

\* LocalWork, on image x of the batch, which comes out as y
LEMMA WorkFacts ==
  ASSUME LoopInv, LocalWork,
         NEW x, x = First(mBatch), NEW y, y = Executed(x),
         NEW f, f = imageMap, NEW g, g = imageMap', NEW m, m = mQueue', NEW r, r = rQueue'
  PROVE  /\ Flies(x) /\ x \in ItemsOf(mBatch) /\ x.id \in ImageIds /\ Finished(x, y)
         /\ mBatch' = Rem(mBatch) /\ mBatch # <<>>
         /\ UNCHANGED <<rBatch, pending, rAt, sentImages, file, findOps>>
         /\ DOMAIN f = ImageIds /\ \A j \in ImageIds : j # x.id => g[j] = f[j]
         /\ \/ x.done = Len(findOps) /\ m = mQueue /\ r = rQueue /\ g = f
            \/ Worked(x, y, f, g, m, r)
<1>1. /\ mBatch' = Rem(mBatch) /\ mBatch # <<>>
      /\ UNCHANGED <<rBatch, pending, rAt, sentImages, file, findOps>>
  BY DEF LocalWork, Rem, handlerVars
<1>2. Flies(x) /\ x \in ItemsOf(mBatch)
  BY <1>1, RemFlies DEF LoopInv, QueuesInv
<1>3. /\ findOps \in Seq(ImageOps) /\ findOps # <<>> /\ IsSeq(file[x.id]) /\ DOMAIN f = ImageIds
      /\ Len(findOps) \in Nat /\ x.id \in ImageIds
  BY <1>2, LenProperties DEF LoopInv, FileInv, Flies, IsImage
<1>4. Finished(x, y)
  BY <1>2, <1>3, ExecutedFacts DEF Flies
<1>5. /\ x.ops = findOps /\ y.ops = findOps /\ y.id = x.id
      /\ x.done \in Nat /\ x.done <= Len(findOps)
      /\ y.done \in Nat /\ y.done <= Len(findOps) /\ x.done <= y.done
      /\ y.error \in BOOLEAN
  BY <1>2, <1>3, <1>4 DEF Finished, Flies, IsImage, Img
<1>6. WorkOf(x, y)
  BY LocalWorkIs DEF First
<1>7. /\ rQueue' = IF x.done < Len(x.ops) /\ y.error THEN <<>>
                    ELSE IF x.done < Len(x.ops) /\ AtRemote(y) THEN Append(rQueue, Copy(y))
                    ELSE rQueue
      /\ mQueue' = IF x.done < Len(x.ops) /\ y.error THEN <<>> ELSE mQueue
      /\ imageMap' = IF x.done < Len(x.ops) /\ (y.done > x.done \/ y.error)
                     THEN [imageMap EXCEPT ![x.id] = y] ELSE imageMap
  BY <1>6 DEF WorkOf
<1>8. CASE ~(x.done < Len(findOps))
  <2>1. x.done = Len(findOps) /\ m = mQueue /\ r = rQueue /\ g = f
    BY <1>5, <1>7, <1>8
  <2> QED
    BY <1>1, <1>2, <1>3, <1>4, <2>1
<1>9. CASE x.done < Len(findOps) /\ y.error = TRUE
  <2>1. r = <<>> /\ m = <<>> /\ g = [f EXCEPT ![x.id] = y]
    BY <1>5, <1>7, <1>9
  <2>2. g[x.id] = y /\ \A j \in ImageIds : j # x.id => g[j] = f[j]
    BY <1>3, <2>1
  <2>3. ~(y.error = FALSE)
    BY <1>9
  <2> QED
    BY <1>1, <1>2, <1>3, <1>4, <1>9, <2>1, <2>2, <2>3 DEF Worked
<1>10. CASE x.done < Len(findOps) /\ y.error = FALSE
  <2>1. /\ m = mQueue /\ r = IF y.done < Len(findOps) THEN Append(rQueue, Copy(y)) ELSE rQueue
        /\ g = IF y.done > x.done THEN [f EXCEPT ![x.id] = y] ELSE f
    <3>1. ~y.error
      BY <1>10
    <3>2. AtRemote(y) <=> y.done < Len(findOps)
      BY <1>5, <3>1 DEF AtRemote
    <3> QED
      BY <1>5, <1>7, <1>10, <3>1, <3>2
  <2>2. Copy(y) = y
    BY <1>3, <1>4, <1>10, CopyIs DEF Finished
  <2>3. /\ y.done < Len(findOps) => r = Put(rQueue, y)
        /\ y.done = Len(findOps) => r = rQueue
    BY <1>3, <1>5, <2>1, <2>2 DEF Put
  <2>4. /\ \A j \in ImageIds : j # x.id => g[j] = f[j]
        /\ \/ g[x.id] = y /\ x.done < y.done
           \/ g[x.id] = f[x.id] /\ y.done = x.done
    BY <1>3, <1>5, <2>1
  <2>5. ~(y.error = TRUE)
    BY <1>10
  <2> QED
    BY <1>1, <1>2, <1>3, <1>4, <1>10, <2>1, <2>3, <2>4, <2>5 DEF Worked
<1> QED
  BY <1>5, <1>8, <1>9, <1>10

LEMMA LocalWorkStep ==
  ASSUME LoopInv, LocalWork
  PROVE  /\ Calm /\ QueuesInv' /\ CopiesInv' /\ MapInv' /\ KeptInv'
         /\ \A i \in ImageIds : Failed(imageMap, i) => Failed(imageMap', i)
<1>1. PICK x, y, f, g, m, r : /\ x = First(mBatch) /\ y = Executed(x)
                              /\ f = imageMap /\ g = imageMap' /\ m = mQueue' /\ r = rQueue'
  OBVIOUS
<1>2. /\ Flies(x) /\ x \in ItemsOf(mBatch) /\ x.id \in ImageIds /\ Finished(x, y)
      /\ mBatch' = Rem(mBatch) /\ mBatch # <<>>
      /\ UNCHANGED <<rBatch, pending, rAt, sentImages, file, findOps>>
      /\ DOMAIN f = ImageIds /\ \A j \in ImageIds : j # x.id => g[j] = f[j]
      /\ \/ x.done = Len(findOps) /\ m = mQueue /\ r = rQueue /\ g = f
         \/ Worked(x, y, f, g, m, r)
  BY <1>1, WorkFacts
<1>3. /\ AllFly(mQueue) /\ AllFly(mBatch) /\ AllFly(rQueue) /\ AllFly(rBatch) /\ AllFly(pending)
      /\ Waits(rQueue) /\ AllFull(rQueue) /\ BatchOk(rBatch, rAt)
      /\ IsSeq(mQueue) /\ IsSeq(mBatch) /\ IsSeq(rQueue)
  BY DEF LoopInv, QueuesInv, AllFly
<1>4. Calm
  BY <1>2, ImageAssumption DEF Calm, LoopInv, FileInv
<1>5. PICK b : b = mBatch'
  OBVIOUS
<1>6. b = Rem(mBatch)
  BY <1>2, <1>5
<1>7. /\ IsImage(y) /\ y.id = x.id /\ (x.cv = <<>> => y.cv = <<>> /\ y.done = x.done)
      /\ y.error = FALSE => ImageInOrder(y) /\ (y.done = Len(findOps) \/ ForRemote(y))
      /\ y.error = TRUE \/ y.error = FALSE
  BY <1>2 DEF Finished, IsImage
<1>8. \/ m = mQueue /\ r = rQueue
      \/ m = mQueue /\ r = Put(rQueue, y) /\ Flies(y) /\ ForRemote(y)
      \/ m = <<>> /\ r = <<>>
  <2>1. CASE y.error = FALSE
    <3>1. Flies(y)
      BY <1>2, <1>7, <2>1 DEF Flies
    <3> QED
      BY <1>2, <1>7, <2>1, <3>1 DEF Worked, AtNext, ForRemote
  <2>2. CASE y.error = TRUE
    BY <1>2, <2>2 DEF Worked
  <2> QED
    BY <1>7, <2>1, <2>2
<1>9. QueuesInv'
  <2>1. AllFly(m) /\ AllFly(b) /\ AllFly(r) /\ Waits(r) /\ AllFull(r)
    BY <1>2, <1>3, <1>6, <1>8, PutFlies, RemFlies, NoneFly DEF ForRemote
  <2>2. BatchOk(rBatch, rAt)'
    BY <1>2, <1>3, <1>4, CalmBatch
  <2> QED
    BY <1>1, <1>2, <1>3, <1>4, <1>5, <2>1, <2>2, CalmQueues DEF QueuesInv
<1>10. CopiesInv'
  <2>1. Copies(mQueue, b, rQueue, rBatch, pending) /\ Copies(mQueue, b, Put(rQueue, y), rBatch, pending)
    BY <1>1, <1>2, <1>3, <1>6, <1>7, CopyWorked DEF LoopInv, CopiesInv
  <2>2. Copies(m, b, r, rBatch, pending)
    BY <1>8, <2>1, CopiesDropped
  <2> QED
    BY <1>1, <1>2, <1>5, <2>2 DEF CopiesInv
<1>11. /\ ItemsOf(mBatch) = ItemsOf(b) \cup {x} /\ Ids(mBatch) = Ids(b) \cup {x.id}
       /\ Fulls(mBatch) = Fulls(b) \cup {i \in {x.id} : x.cv # <<>>}
       /\ x.id \notin Fulls(b) /\ (x.cv # <<>> => x.id \notin Ids(b))
  BY <1>1, <1>2, <1>3, <1>6, RemItems DEF LoopInv, CopiesInv, Copies
<1>12. /\ x.id \notin Fulls(mQueue) \cup Fulls(b) \cup Fulls(rQueue) \cup Fulls(rBatch)
       /\ x.cv # <<>> =>
            x.id \notin Ids(mQueue) \cup Ids(rQueue) \cup Ids(rBatch) \cup Ids(pending)
  BY <1>11 DEF LoopInv, CopiesInv, Copies, Apart
<1>13. x.cv # <<>> => ~Failed(f, x.id)
  BY <1>1, <1>11 DEF LoopInv, MapInv, NoneFailed
<1>14. y # NoImage
  BY <1>7 DEF NoImage, IsImage, Img
\* what failed before has failed still, and an empty image gets nowhere
<1>15. /\ Failed(f, x.id) => Failed(g, x.id)
       /\ x.cv = <<>> => \/ Failed(g, x.id)
                         \/ Complete(f, x.id) => Complete(g, x.id)
  <2>1. ASSUME x.cv = <<>>
        PROVE  g[x.id] = f[x.id] \/ Failed(g, x.id)
    <3>1. y.done = x.done /\ ~(x.done < y.done)
      BY <1>2, <1>7, <2>1 DEF Flies, IsImage
    <3> QED
      BY <1>2, <1>14, <3>1 DEF Worked, Failed
  <2>2. g[x.id] = f[x.id] => /\ Failed(f, x.id) => Failed(g, x.id)
                             /\ Complete(f, x.id) => Complete(g, x.id)
    BY DEF Failed, Complete
  <2> QED
    BY <1>13, <2>1, <2>2
<1>16. MapInv'
  <2>1. MapOk(g)
    <3>1. ASSUME NEW i \in ImageIds, g[i] # NoImage
          PROVE  /\ IsImage(g[i]) /\ g[i].id = i /\ i <= sentImages
                 /\ g[i].error = FALSE => ImageInOrder(g[i])
      <4>1. g[i] = f[i] \/ (i = x.id /\ g[i] = y)
        BY <1>2 DEF Worked
      <4>2. CASE g[i] = f[i]
        BY <1>1, <3>1, <4>2 DEF LoopInv, MapInv, MapOk
      <4>3. CASE i = x.id /\ g[i] = y
        BY <1>2, <1>7, <4>3 DEF Flies
      <4> QED
        BY <4>1, <4>2, <4>3
    <3> QED
      BY <3>1 DEF MapOk
  <2>2. ASSUME NEW q, AllFly(q), Settled(f, q), x.cv # <<>> => x.id \notin Ids(q)
        PROVE  Settled(g, q)
    <3>1. ASSUME NEW z \in ItemsOf(q), z.done = Len(findOps)
          PROVE  Failed(g, z.id) \/ Complete(g, z.id)
      <4>1. /\ Failed(f, z.id) \/ Complete(f, z.id)
            /\ z.id \in ImageIds /\ z.id \in Ids(q)
        BY <2>2, <3>1, FullIn DEF Settled, AllFly, Flies, IsImage
      <4>2. CASE z.id = x.id
        BY <1>15, <2>2, <4>1, <4>2
      <4>3. CASE z.id # x.id
        BY <1>2, <4>1, <4>3 DEF Failed, Complete
      <4> QED
        BY <4>2, <4>3
    <3> QED
      BY <3>1 DEF Settled
  <2>3. Settled(g, m) /\ Settled(g, b)
    <3>1. Settled(f, mQueue) /\ Settled(f, b)
      BY <1>1, <1>11 DEF LoopInv, MapInv, Settled
    <3>2. AllFly(b)
      BY <1>2, <1>3, <1>6, RemFlies
    <3>3. Settled(g, mQueue) /\ Settled(g, b) /\ Settled(g, <<>>)
      BY <1>3, <1>11, <1>12, <2>2, <3>1, <3>2, NoItems DEF Settled
    <3> QED
      BY <1>8, <3>3
  <2>8. Settled(g, r) /\ Settled(g, rBatch) /\ Settled(g, pending)
    <3>1. Settled(f, rQueue) /\ Settled(f, rBatch) /\ Settled(f, pending)
      BY <1>1 DEF LoopInv, MapInv
    <3>2. Settled(g, rQueue) /\ Settled(g, rBatch) /\ Settled(g, pending)
      BY <1>3, <1>12, <2>2, <3>1
    <3>3. CASE r = Put(rQueue, y) /\ ForRemote(y) /\ Flies(y)
      <4>1. ItemsOf(r) = ItemsOf(rQueue) \cup {y}
        BY <1>3, <3>3, PutItems
      <4>2. y.done # Len(findOps)
        BY <3>3 DEF ForRemote, AtNext, Flies, IsImage
      <4> QED
        BY <3>2, <4>1, <4>2 DEF Settled
    <3>4. Settled(g, <<>>)
      BY NoItems DEF Settled
    <3> QED
      BY <1>8, <3>2, <3>3, <3>4
  <2>4. ASSUME NEW q, AllFly(q), NoneFailed(f, q), x.id \notin Fulls(q)
        PROVE  NoneFailed(g, q)
    <3>1. Fulls(q) \subseteq ImageIds
      BY <2>4 DEF AllFly, Flies, IsImage, Fulls
    <3> QED
      BY <1>2, <2>4, <3>1 DEF NoneFailed, Failed
  <2>5. NoneFailed(g, mQueue) /\ NoneFailed(g, b) /\ NoneFailed(g, rQueue) /\ NoneFailed(g, rBatch)
    <3>1. /\ NoneFailed(f, mQueue) /\ NoneFailed(f, mBatch)
          /\ NoneFailed(f, rQueue) /\ NoneFailed(f, rBatch)
      BY <1>1 DEF LoopInv, MapInv
    <3>2. NoneFailed(f, b) /\ AllFly(b)
      BY <1>2, <1>3, <1>6, <1>11, <3>1, RemFlies DEF NoneFailed
    <3> QED
      BY <1>3, <1>12, <2>4, <3>1, <3>2
  <2>6. NoneFailed(g, m) /\ NoneFailed(g, <<>>)
    BY <1>8, <2>5, NoItems DEF NoneFailed
  <2>7. NoneFailed(g, r)
    <3>1. CASE r = Put(rQueue, y) /\ ForRemote(y) /\ Flies(y)
      <4>1. Fulls(r) \subseteq Fulls(rQueue) \cup {i \in {x.id} : y.cv # <<>>}
        BY <1>3, <1>7, <3>1, PutItems
      <4>2. y.cv # <<>> => ~Failed(g, x.id)
        <5>1. ~(y.error = TRUE)
          BY <3>1 DEF Flies
        <5> QED
          BY <1>2, <1>7, <1>13, <5>1 DEF Worked, Failed
      <4> QED
        BY <2>5, <4>1, <4>2 DEF NoneFailed
    <3> QED
      BY <1>8, <2>5, <2>6, <3>1
  <2> QED
    BY <1>1, <1>2, <1>4, <1>5, <2>1, <2>3, <2>5, <2>6, <2>7, <2>8, CalmMap DEF MapInv
<1>17. KeptInv'
  <2>1. ASSUME \A i \in ImageIds : ~Failed(g, i), NEW i \in 1..sentImages
        PROVE  i \in Ids(m) \cup Ids(b) \cup Ids(r) \cup Ids(rBatch) \/ Complete(g, i)
    <3>1. i \in ImageIds /\ \A j \in ImageIds : ~Failed(f, j)
      BY <1>2, <1>15, <2>1, ImageAssumption DEF ImageIds, LoopInv, FileInv, Failed
    <3>2. \/ i \in Ids(mQueue) \cup Ids(mBatch) \cup Ids(rQueue) \cup Ids(rBatch)
          \/ Complete(f, i)
      BY <1>1, <3>1 DEF LoopInv, KeptInv
    <3>3. CASE x.done = Len(findOps) /\ m = mQueue /\ r = rQueue /\ g = f
      <4>1. Complete(f, x.id)
        BY <1>1, <1>2, <3>1, <3>3 DEF LoopInv, MapInv, Settled
      <4> QED
        BY <1>11, <3>2, <3>3, <4>1
    <3>4. CASE Worked(x, y, f, g, m, r)
      <4>1. y.error = FALSE
        <5>1. CASE y.error = TRUE
          <6>1. g[x.id] = y
            BY <3>4, <5>1 DEF Worked
          <6>2. Failed(g, x.id)
            BY <1>14, <5>1, <6>1 DEF Failed
          <6> QED
            BY <1>2, <2>1, <6>2
        <5> QED
          BY <1>7, <5>1
      <4>2. m = mQueue /\ (y.done < Len(findOps) => r = Put(rQueue, y))
            /\ (y.done = Len(findOps) => r = rQueue)
        BY <3>4, <4>1 DEF Worked
      <4>3. x.id \in Ids(r) \/ Complete(g, x.id)
        <5>1. CASE y.done < Len(findOps)
          BY <1>3, <1>7, <4>2, <5>1, PutItems
        <5>2. CASE y.done = Len(findOps)
          <6>1. g[x.id] = y
            BY <3>4, <5>2, <1>2 DEF Worked, Flies, IsImage
          <6> QED
            BY <1>14, <5>2, <6>1 DEF Complete
        <5> QED
          BY <1>7, <4>1, <5>1, <5>2 DEF AtNext, ForRemote
      <4>4. Ids(rQueue) \subseteq Ids(r)
        BY <1>3, <1>7, <4>1, <4>2, PutItems DEF AtNext, ForRemote
      <4>5. i # x.id => (Complete(g, i) <=> Complete(f, i))
        BY <1>2, <3>1 DEF Complete
      <4> QED
        BY <1>11, <3>2, <4>2, <4>3, <4>4, <4>5
    <3> QED
      BY <1>2, <3>3, <3>4
  <2> QED
    BY <1>1, <1>2, <1>4, <1>5, <2>1, CalmMap DEF KeptInv
<1>18. \A i \in ImageIds : Failed(f, i) => Failed(g, i)
  BY <1>2, <1>15 DEF Failed
<1> QED
  BY <1>1, <1>4, <1>9, <1>10, <1>16, <1>17, <1>18

-----------------------------------------------------------------------------
(* FileInv, and the theorems.                                              *)

LEMMA AddImageFiles ==
  ASSUME LoopInv, AddImage
  PROVE  FileInv'
<1>1. FileInv
  BY DEF LoopInv
<1>2. PICK i \in ImageIds, ops \in {<<>>, <<"far", "crop">>, <<"unremoved", "user">>} :
        /\ file' = [file EXCEPT ![i] = Performed(Enqueued(FromBuffer(i), ops)).cv]
        /\ added' = [added EXCEPT ![i] = ops]
  BY DEF AddImage
<1>3. /\ handler = "adding"
      /\ UNCHANGED <<findOps, sentImages, imageMap>>
  BY DEF AddImage
<1>4. ops \in Seq(AddOps)
  <2>1. <<>> \in Seq(AddOps)
    BY EmptySeq
  <2>2. <<"far", "crop">> \in Seq(AddOps)
    BY DEF AddOps
  <2>3. <<"unremoved", "user">> \in Seq(AddOps)
    BY DEF AddOps
  <2> QED
    BY <1>2, <2>1, <2>2, <2>3
<1>5. PICK c : c = Performed(Enqueued(FromBuffer(i), ops)).cv
  OBVIOUS
<1>6. c = Succeeded(i, ops) /\ IsSeq(c)
  BY <1>4, <1>5, AddedImage
<1>7. /\ DOMAIN file' = ImageIds /\ DOMAIN added' = ImageIds
      /\ file'[i] = c /\ added'[i] = ops
      /\ \A j \in ImageIds : j # i => file'[j] = file[j] /\ added'[j] = added[j]
  BY <1>1, <1>2, <1>5 DEF FileInv
<1>8. \A j \in ImageIds :
        IsSeq(file'[j]) /\ (file'[j] # <<>> => file'[j] = Succeeded(j, added'[j]))
  BY <1>1, <1>6, <1>7 DEF FileInv
<1> QED
  BY <1>1, <1>3, <1>7, <1>8 DEF FileInv

LEMMA FileStep ==
  ASSUME LoopInv, ImageNext
  PROVE  FileInv'
<1>1. FileInv
  BY DEF LoopInv
<1>2. CASE AddImage
  BY <1>2, AddImageFiles
<1>3. CASE SendImage
  <2>1. /\ sentImages' \in 0..NImages /\ handler' # "adding"
        /\ UNCHANGED <<file, added, findOps, imageMap>>
    BY <1>1, <1>3, ImageAssumption DEF FileInv, SendImage
  <2> QED
    BY <1>1, <2>1 DEF FileInv
<1>4. CASE Collect
  BY <1>1, <1>4 DEF FileInv, Collect
<1>5. CASE RemoteError
  <2>1. DOMAIN imageMap' = ImageIds
    BY <1>1, <1>5 DEF FileInv, RemoteError
  <2> QED
    BY <1>1, <1>5, <2>1 DEF FileInv, RemoteError, handlerVars
<1>6. CASE RemoteCollect
  <2>1. DOMAIN imageMap' = ImageIds
    BY <1>1, <1>6 DEF FileInv, RemoteCollect
  <2> QED
    BY <1>1, <1>6, <2>1 DEF FileInv, RemoteCollect, handlerVars
<1>7. CASE LocalWork
  <2>1. DOMAIN imageMap' = ImageIds
    <3>1. WorkOf(Head(mBatch), Executed(Head(mBatch)))
      BY <1>7, LocalWorkIs
    <3> QED
      BY <1>1, <3>1 DEF FileInv, WorkOf
  <2> QED
    BY <1>1, <1>7, <2>1 DEF FileInv, LocalWork, handlerVars
<1>8. CASE LocalTake \/ RemoteTake \/ RemoteMark \/ RemotePost \/ RemoteHang \/ RemoteEnd
             \/ RemoteHand
  <2>1. UNCHANGED <<file, added, findOps, handler, sentImages, imageMap>>
    BY <1>8 DEF LocalTake, RemoteTake, RemoteMark, RemotePost, RemoteHang, RemoteEnd, RemoteHand,
         handlerVars
  <2> QED
    BY <1>1, <2>1 DEF FileInv
<1> QED
  BY <1>2, <1>3, <1>4, <1>5, <1>6, <1>7, <1>8 DEF ImageNext

LEMMA LoopInit == ImageInit => LoopInv
<1> SUFFICES ASSUME ImageInit
             PROVE  LoopInv
  OBVIOUS
<1>1. FileInv
  <2>1. findOps # <<>> /\ findOps \in Seq(ImageOps)
    <3>1. PICK k \in 0..MaxOps : findOps \in [1..k -> ImageOps]
      BY DEF ImageInit, BoundedSeq, SeqOf
    <3>2. k \in Nat
      BY ImageAssumption
    <3> QED
      BY <3>1, <3>2, SeqDef DEF ImageInit
  <2> QED
    BY <2>1, ImageAssumption, NoneIsSeq DEF ImageInit, FileInv
<1>2. /\ mQueue = <<>> /\ mBatch = <<>> /\ rQueue = <<>> /\ rBatch = <<>> /\ pending = <<>>
      /\ rAt = "wait" /\ sentImages = 0 /\ \A i \in ImageIds : imageMap[i] = NoImage
  BY DEF ImageInit
<1>3. QueuesInv
  BY <1>2, NoneFly DEF QueuesInv, BatchOk
<1>4. CopiesInv
  BY <1>2, NoItems DEF CopiesInv, Copies, Apart
<1>5. MapInv
  BY <1>2, NoItems DEF MapInv, MapOk, Settled, NoneFailed
<1>6. KeptInv
  BY <1>2 DEF KeptInv
<1> QED
  BY <1>1, <1>3, <1>4, <1>5, <1>6 DEF LoopInv

LEMMA LoopStep == LoopInv /\ [ImageNext]_imageVars => LoopInv'
<1> SUFFICES ASSUME LoopInv, [ImageNext]_imageVars
             PROVE  LoopInv'
  OBVIOUS
<1>1. CASE ImageNext
  <2>1. QueuesInv' /\ CopiesInv' /\ MapInv' /\ KeptInv'
    <3>1. CASE AddImage
      BY <3>1, AddImageStep
    <3>2. CASE SendImage
      BY <3>2, SendImageStep
    <3>3. CASE Collect \/ RemoteMark \/ RemotePost \/ RemoteHang
      BY <3>3, QuietStep
    <3>4. CASE LocalTake
      BY <3>4, LocalTakeStep
    <3>5. CASE LocalWork
      BY <3>5, LocalWorkStep
    <3>6. CASE RemoteTake
      BY <3>6, RemoteTakeStep
    <3>7. CASE RemoteError
      BY <3>7, RemoteErrorStep
    <3>8. CASE RemoteCollect
      BY <3>8, RemoteCollectStep
    <3>9. CASE RemoteEnd
      BY <3>9, RemoteEndStep
    <3>10. CASE RemoteHand
      BY <3>10, RemoteHandStep
    <3> QED
      BY <1>1, <3>1, <3>2, <3>3, <3>4, <3>5, <3>6, <3>7, <3>8, <3>9, <3>10 DEF ImageNext
  <2> QED
    BY <1>1, <2>1, FileStep DEF LoopInv
<1>2. CASE UNCHANGED imageVars
  <2>1. /\ UNCHANGED <<file, added, findOps, handler, sentImages, rAt, imageMap>>
        /\ UNCHANGED <<mQueue, mBatch, rQueue, rBatch, pending>>
    BY <1>2 DEF imageVars, handlerVars, localVars, remoteVars
  <2>2. Calm
    BY <2>1, ImageAssumption DEF Calm, LoopInv, FileInv
  <2>3. QueuesInv' /\ CopiesInv' /\ MapInv' /\ KeptInv'
    BY <2>1, <2>2, StillStep DEF LoopInv, QueuesInv
  <2>4. FileInv'
    BY <2>1 DEF LoopInv, FileInv
  <2> QED
    BY <2>3, <2>4 DEF LoopInv
<1> QED
  BY <1>1, <1>2

-----------------------------------------------------------------------------
(* When the loop stops.                                                    *)

NoneFails == \A i \in ImageIds : ~Failed(imageMap, i)

\* without _remote_running the remote thread has no answer to wait for
Unbusy ==
  /\ pending = <<>>
  /\ \/ rAt \in {"wait", "taken"}
     \/ rAt = "collect" /\ rBatch = <<>>
     \/ rAt = "handing" /\ Len(rBatch) = 1

LastLook ==
  /\ mBatch = <<>> /\ rQueue = <<>> /\ remoteBusy = FALSE
  /\ rBatch = <<>> \/ (rAt = "handing" /\ Len(rBatch) = 1)

\* all the images are in the batch that the remote thread has just taken
AllTaken == rAt = "taken" => mQueue = <<>> /\ mBatch = <<>> /\ sentImages = NImages

StopInv ==
  /\ remoteBusy \in BOOLEAN /\ running \in BOOLEAN
  /\ AllTaken
  /\ NoneFails => (remoteBusy = FALSE => Unbusy) /\ (running = FALSE => LastLook)

\* a queue as long as the images are many has them all
LEMMA AllImages ==
  ASSUME NEW q, AllFly(q), AllFull(q), Lone(q), Len(q) = NImages, sentImages \in 0..NImages
  PROVE  Fulls(q) = ImageIds /\ sentImages = NImages
<1>1. PICK n : n = NImages
  OBVIOUS
<1>2. /\ n \in Nat /\ n # 0 /\ Len(q) = n /\ ImageIds = 1..n
  BY <1>1, ImageAssumption DEF ImageIds
<1>3. \A k \in 1..n : q[k] \in ItemsOf(q)
  BY <1>2 DEF ItemsOf
<1>4. \A k \in 1..n : q[k].id \in 1..n /\ q[k].cv # <<>> /\ q[k].id <= sentImages
  BY <1>2, <1>3 DEF AllFly, AllFull, Flies, IsImage
<1>5. PICK h : h = [k \in 1..n |-> q[k].id]
  OBVIOUS
<1>6. h \in Injection(1..n, 1..n)
  <2>1. h \in [1..n -> 1..n]
    BY <1>4, <1>5
  <2>2. \A i, j \in 1..n : h[i] = h[j] => i = j
    BY <1>2, <1>4, <1>5 DEF Lone
  <2> QED
    BY <2>1, <2>2 DEF Injection, IsInjective
<1>7. h \in Surjection(1..n, 1..n)
  BY <1>2, <1>6, FS_Interval, FS_Injection
<1>8. \A i \in 1..n : \E k \in 1..n : q[k].id = i
  BY <1>5, <1>7 DEF Surjection
<1>9. Fulls(q) = 1..n
  <2>1. \A i \in 1..n : i \in Fulls(q)
    BY <1>3, <1>4, <1>8 DEF Fulls
  <2>2. \A i \in Fulls(q) : i \in 1..n
    BY <1>2 DEF Fulls, AllFly, Flies, IsImage
  <2> QED
    BY <2>1, <2>2
<1>10. sentImages = n
  <2>1. PICK k \in 1..n : q[k].id = n
    BY <1>2, <1>8
  <2> QED
    BY <1>1, <1>2, <1>4, <2>1
<1> QED
  BY <1>1, <1>2, <1>9, <1>10

LEMMA NoIds ==
  ASSUME NEW q, AllFly(q), ImageIds \cap Ids(q) = {}
  PROVE  q = <<>>
<1>1. ASSUME q # <<>>
      PROVE  FALSE
  <2>1. First(q) \in ItemsOf(q) /\ Flies(First(q))
    BY <1>1, RemFlies
  <2> QED
    BY <2>1, FullIn DEF Flies, IsImage
<1> QED
  BY <1>1

LEMMA TakenAll ==
  ASSUME LoopInv, StopInv, RemoteTake
  PROVE  AllTaken'
<1>1. Len(rQueue) = NImages /\ UNCHANGED <<mQueue, mBatch, sentImages>>
  BY DEF RemoteTake, localVars, handlerVars
<1>2. Fulls(rQueue) = ImageIds /\ sentImages = NImages
  BY <1>1, AllImages DEF LoopInv, FileInv, QueuesInv, CopiesInv, Copies
<1>3. ImageIds \cap Ids(mQueue) = {} /\ ImageIds \cap Ids(mBatch) = {}
  BY <1>2 DEF LoopInv, CopiesInv, Copies, Apart
<1>4. mQueue = <<>> /\ mBatch = <<>>
  BY <1>3, NoIds DEF LoopInv, QueuesInv
<1> QED
  BY <1>1, <1>2, <1>4 DEF AllTaken

\* the test of the local thread sees all that the threads have but the image being handed back
LEMMA LocalStops ==
  ASSUME LoopInv, StopInv, LocalWork, \A i \in ImageIds : ~Failed(imageMap', i)
  PROVE  /\ remoteBusy' = remoteBusy /\ running' \in BOOLEAN
         /\ running' = FALSE => LastLook'
<1>1. PICK x, y, f, g, m, r : /\ x = First(mBatch) /\ y = Executed(x)
                              /\ f = imageMap /\ g = imageMap' /\ m = mQueue' /\ r = rQueue'
  OBVIOUS
<1>2. /\ Flies(x) /\ x \in ItemsOf(mBatch) /\ x.id \in ImageIds /\ Finished(x, y)
      /\ mBatch' = Rem(mBatch) /\ mBatch # <<>>
      /\ UNCHANGED <<rBatch, pending, rAt, sentImages, file, findOps>>
      /\ \/ x.done = Len(findOps) /\ m = mQueue /\ r = rQueue /\ g = f
         \/ Worked(x, y, f, g, m, r)
  BY <1>1, WorkFacts
<1>3. ~(x.done < Len(findOps) /\ y.error = TRUE)
  <2>1. ASSUME x.done < Len(findOps), y.error = TRUE
        PROVE  FALSE
    <3>1. Worked(x, y, f, g, m, r)
      BY <1>2, <2>1, LenProperties DEF LoopInv, FileInv
    <3>2. g[x.id] = y /\ y # NoImage
      BY <1>2, <2>1, <3>1 DEF Worked, Finished, IsImage, Img, NoImage
    <3> QED
      BY <1>1, <1>2, <2>1, <3>2 DEF Failed
  <2> QED
    BY <2>1
<1>4. /\ x.ops = findOps /\ y.error \in BOOLEAN /\ Len(findOps) \in Nat
      /\ remoteBusy \in BOOLEAN /\ running \in BOOLEAN
  <2>1. y.error \in BOOLEAN
    BY <1>2 DEF Finished, IsImage
  <2> QED
    BY <1>2, <2>1, LenProperties DEF LoopInv, FileInv, StopInv, Flies, IsImage, Img
<1>5. ~(x.done < Len(x.ops) /\ y.error)
  BY <1>3, <1>4
<1>6. PICK flag \in BOOLEAN :
        /\ remoteBusy' = (remoteBusy /\ ~(x.done < Len(x.ops) /\ y.error))
        /\ running' = (running /\ ~(x.done < Len(x.ops) /\ y.error)
                       /\ ~(Len(mBatch) = 1 /\ Stops(flag, remoteBusy', mQueue', rQueue')))
  <2>1. x = Head(mBatch) /\ y = Executed(Head(mBatch))
    BY <1>1 DEF First
  <2> QED
    BY <2>1, Zenon DEF LocalWork
<1>7. /\ remoteBusy' = remoteBusy
      /\ running' = (running /\ ~(Len(mBatch) = 1 /\ Stops(flag, remoteBusy', mQueue', rQueue')))
  BY <1>4, <1>5, <1>6
<1>8. NoneFails
  <2>1. \A i \in ImageIds : Failed(imageMap, i) => Failed(imageMap', i)
    BY LocalWorkStep
  <2> QED
    BY <2>1 DEF NoneFails
<1>9. ASSUME running' = FALSE
      PROVE  LastLook'
  <2>1. running = TRUE
    BY <1>2, <1>4, <1>8 DEF StopInv, LastLook
  <2>2. Len(mBatch) = 1 /\ Stops(flag, remoteBusy', mQueue', rQueue')
    BY <1>7, <1>9, <2>1
  <2>3. remoteBusy' = FALSE /\ remoteBusy = FALSE /\ rQueue' = <<>>
    BY <1>4, <1>7, <2>2 DEF Stops
  <2>4. mBatch' = <<>>
    <3>1. IsSeq(mBatch)
      BY DEF LoopInv, QueuesInv, AllFly
    <3>2. IsSeq(Rem(mBatch)) /\ Len(Rem(mBatch)) = 0
      BY <1>2, <2>2, <3>1, RemFacts
    <3> QED
      BY <1>2, <3>2, EmptySeq, ItemsSeq
  <2>5. rBatch = <<>> \/ (rAt = "handing" /\ Len(rBatch) = 1)
    <3>1. Unbusy /\ AllTaken /\ BatchOk(rBatch, rAt)
      BY <1>8, <2>3 DEF StopInv, LoopInv, QueuesInv
    <3>2. rAt # "taken"
      BY <1>2, <3>1 DEF AllTaken
    <3> QED
      BY <3>1, <3>2 DEF Unbusy, BatchOk
  <2> QED
    BY <1>2, <2>3, <2>4, <2>5 DEF LastLook
<1> QED
  BY <1>4, <1>7, <1>9

LEMMA StopStep ==
  ASSUME LoopInv, StopInv, [ImageNext]_imageVars
  PROVE  StopInv'
<1>1. CASE UNCHANGED imageVars
  BY <1>1 DEF imageVars, handlerVars, localVars, remoteVars, StopInv, AllTaken, NoneFails, Failed,
     Unbusy, LastLook
<1>2. CASE AddImage \/ SendImage \/ Collect
  <2>1. /\ UNCHANGED <<mBatch, remoteBusy, running, rAt, rQueue, rBatch, pending, imageMap>>
        /\ rAt = "taken" => mQueue' = mQueue /\ sentImages' = sentImages
    <3>1. rAt = "taken" => ~SendImage
      BY ImageAssumption DEF StopInv, AllTaken, SendImage
    <3> QED
      BY <1>2, <3>1 DEF AddImage, SendImage, Collect, handlerVars, localVars, remoteVars
  <2> QED
    BY <2>1 DEF StopInv, AllTaken, NoneFails, Failed, Unbusy, LastLook
<1>3. CASE LocalTake
  <2>1. /\ UNCHANGED <<remoteBusy, running, rAt, rQueue, rBatch, pending, imageMap>>
        /\ running /\ mQueue # <<>>
    BY <1>3 DEF LocalTake, remoteVars
  <2> QED
    BY <2>1 DEF StopInv, AllTaken, NoneFails, Failed, Unbusy, LastLook
<1>4. CASE LocalWork
  <2>1. /\ UNCHANGED <<rAt, rBatch, pending>> /\ mBatch # <<>>
        /\ remoteBusy' \in BOOLEAN /\ running' \in BOOLEAN
    BY <1>4 DEF LocalWork, StopInv
  <2>2. AllTaken'
    BY <2>1 DEF StopInv, AllTaken
  <2>3. ASSUME NoneFails'
        PROVE  (remoteBusy = FALSE => Unbusy)' /\ (running = FALSE => LastLook)'
    <3>1. \A i \in ImageIds : ~Failed(imageMap', i)
      BY <2>3 DEF NoneFails, Failed
    <3>2. NoneFails
      BY <1>4, <3>1, LocalWorkStep DEF NoneFails
    <3>3. remoteBusy' = remoteBusy /\ (running' = FALSE => LastLook')
      BY <1>4, <3>1, LocalStops
    <3> QED
      BY <2>1, <3>2, <3>3 DEF StopInv, Unbusy
  <2> QED
    BY <2>1, <2>2, <2>3 DEF StopInv
<1>5. CASE RemoteTake
  <2>1. /\ UNCHANGED <<remoteBusy, running, pending, imageMap>> /\ rAt = "wait" /\ rAt' = "taken"
        /\ running
    BY <1>5 DEF RemoteTake
  <2>2. AllTaken'
    BY <1>5, TakenAll
  <2> QED
    BY <2>1, <2>2 DEF StopInv, NoneFails, Failed, Unbusy
<1>6. CASE RemoteError
  <2>1. ~NoneFails'
    <3>1. \E i \in ImageIds : Failed(imageMap', i)
      BY <1>6, RemoteErrorStep
    <3> QED
      BY <3>1 DEF NoneFails, Failed
  <2>2. remoteBusy' \in BOOLEAN /\ running' \in BOOLEAN /\ AllTaken'
    BY <1>6 DEF RemoteError, AllTaken
  <2> QED
    BY <2>1, <2>2 DEF StopInv
<1>7. CASE RemoteMark \/ RemotePost \/ RemoteHang
  <2>1. /\ UNCHANGED <<running, pending, imageMap, mBatch, rQueue, rBatch>>
        /\ rBatch # <<>> /\ rAt' \in {"post", "collect", "crashed", "hung"}
        /\ RemoteMark => remoteBusy' = TRUE
        /\ ~RemoteMark => remoteBusy' = remoteBusy /\ rAt \in {"post", "collect"}
        /\ rAt \in {"taken", "post", "collect"}
    BY <1>7 DEF RemoteMark, RemotePost, RemoteHang, localVars, LoopInv, QueuesInv, BatchOk
  <2>2. NoneFails => running = TRUE
    BY <2>1 DEF StopInv, LastLook
  <2>3. NoneFails /\ ~RemoteMark => remoteBusy = TRUE
    BY <2>1 DEF StopInv, Unbusy
  <2>4. NoneFails' => NoneFails
    BY <2>1 DEF NoneFails, Failed
  <2>5. NoneFails' => remoteBusy' = TRUE /\ running' = TRUE
    BY <2>1, <2>2, <2>3, <2>4
  <2>6. remoteBusy' \in BOOLEAN /\ running' \in BOOLEAN /\ AllTaken'
    BY <2>1 DEF StopInv, AllTaken
  <2> QED
    BY <2>5, <2>6 DEF StopInv
<1>8. CASE RemoteCollect
  <2>1. /\ rAt = "collect" /\ rBatch # <<>> /\ rAt' = "handing"
        /\ UNCHANGED <<running, mBatch, rQueue>>
    BY <1>8 DEF RemoteCollect, localVars
  <2>2. /\ remoteBusy' = (remoteBusy /\ ~(Len(rBatch) = 1 /\ pending' = <<>>))
        /\ \E y : rBatch' = Answered(rBatch, y)
    BY <1>8 DEF RemoteCollect, Answered, Rem
  <2>3. Len(rBatch') = Len(rBatch)
    BY <2>1, <2>2, AnsweredItems DEF LoopInv, QueuesInv, AllFly
  <2>4. NoneFails' => NoneFails
    BY <1>8, RemoteCollectStep DEF NoneFails, Failed
  <2>5. NoneFails => remoteBusy = TRUE /\ running = TRUE
    BY <2>1 DEF StopInv, Unbusy, LastLook
  <2>6. remoteBusy' \in BOOLEAN /\ running' \in BOOLEAN /\ AllTaken'
    BY <2>1, <2>2 DEF StopInv, AllTaken
  <2>7. NoneFails' => (remoteBusy' = FALSE => Unbusy') /\ running' = TRUE
    BY <2>1, <2>2, <2>3, <2>4, <2>5 DEF Unbusy
  <2> QED
    BY <2>6, <2>7 DEF StopInv
<1>9. CASE RemoteHand
  <2>1. /\ rAt = "handing" /\ rAt' = "collect" /\ rBatch' = Rem(rBatch)
        /\ UNCHANGED <<running, remoteBusy, pending, mBatch, rQueue, imageMap>>
    BY <1>9 DEF RemoteHand, Rem
  <2>2. Len(rBatch) = 1 => rBatch' = <<>>
    <3>1. IsSeq(rBatch) /\ rBatch # <<>>
      BY <2>1 DEF LoopInv, QueuesInv, AllFly, BatchOk
    <3>2. IsSeq(Rem(rBatch)) /\ (Len(rBatch) = 1 => Len(Rem(rBatch)) = 0)
      BY <3>1, RemFacts
    <3> QED
      BY <2>1, <3>2, EmptySeq, ItemsSeq
  <2>3. rBatch # <<>>
    BY <2>1 DEF LoopInv, QueuesInv, BatchOk
  <2>4. NoneFails' => NoneFails
    BY <2>1 DEF NoneFails, Failed
  <2> QED
    BY <2>1, <2>2, <2>3, <2>4 DEF StopInv, AllTaken, Unbusy, LastLook
<1>10. CASE RemoteEnd
  <2>1. /\ rAt = "collect" /\ rBatch = <<>> /\ rBatch' = pending /\ pending' = <<>>
        /\ rAt' = IF pending = <<>> THEN "wait" ELSE "post"
        /\ remoteBusy' = (remoteBusy /\ pending # <<>>)
        /\ UNCHANGED <<running, mBatch, rQueue, imageMap>>
    BY <1>10 DEF RemoteEnd, localVars
  <2>2. NoneFails' => NoneFails
    BY <2>1 DEF NoneFails, Failed
  <2>3. NoneFails /\ remoteBusy = FALSE => pending = <<>>
    BY DEF StopInv, Unbusy
  <2>4. NoneFails /\ running = FALSE => mBatch = <<>> /\ rQueue = <<>> /\ remoteBusy = FALSE
    BY DEF StopInv, LastLook
  <2>5. remoteBusy \in BOOLEAN /\ running \in BOOLEAN
    BY DEF StopInv
  <2>6. NoneFails' => (remoteBusy' = FALSE => Unbusy')
    <3>1. NoneFails' /\ remoteBusy' = FALSE => pending = <<>>
      BY <2>1, <2>2, <2>3, <2>5
    <3> QED
      BY <2>1, <3>1 DEF Unbusy
  <2>7. NoneFails' => (running' = FALSE => LastLook')
    BY <2>1, <2>2, <2>3, <2>4 DEF LastLook
  <2>8. remoteBusy' \in BOOLEAN /\ running' \in BOOLEAN /\ AllTaken'
    BY <2>1, <2>5 DEF AllTaken
  <2> QED
    BY <2>6, <2>7, <2>8 DEF StopInv
<1> QED
  BY <1>1, <1>2, <1>3, <1>4, <1>5, <1>6, <1>7, <1>8, <1>9, <1>10 DEF ImageNext

\* the images that FindImage enqueued and the two threads of its loop pass around
THEOREM ImageInductive == ImageSpec => [](LoopInv /\ StopInv)
<1>1. ImageInit => LoopInv /\ StopInv
  BY LoopInit DEF ImageInit, StopInv, AllTaken, Unbusy
<1>2. LoopInv /\ StopInv /\ [ImageNext]_imageVars => (LoopInv /\ StopInv)'
  BY LoopStep, StopStep
<1> QED
  BY <1>1, <1>2, PTL DEF ImageSpec

LEMMA ToSetIs ==
  ASSUME NEW q, IsSeq(q)
  PROVE  ToSet(q) = ItemsOf(q)
BY DEF ToSet, IsSeq, ItemsOf

\* whichever thread has an image, and in whichever round: what was done to it is what its
\* count says, each operation once and in order
THEOREM OperationsInOrder == ImageSpec => []OpsInOrder
<1>1. LoopInv => OpsInOrder
  <2> SUFFICES ASSUME LoopInv
               PROVE  OpsInOrder
    OBVIOUS
  <2>1. \A x \in InFlight : Flies(x)
    BY ToSetIs DEF LoopInv, QueuesInv, AllFly, InFlight
  <2>2. \A x \in Mapped : x.error = FALSE => ImageInOrder(x)
    BY DEF LoopInv, MapInv, MapOk, Mapped
  <2>3. ASSUME NEW img \in InFlight \cup Mapped, img.cv # <<>>, ~img.error
        PROVE  img.cv = file[img.id] \o SubSeq(findOps, 1, img.done)
    <3>1. img.error \in BOOLEAN
      BY <2>1 DEF Flies, IsImage, LoopInv, MapInv, MapOk, Mapped
    <3>2. img.error = FALSE
      BY <2>3, <3>1
    <3>3. ImageInOrder(img)
      BY <2>1, <2>2, <3>2 DEF Flies
    <3> QED
      BY <2>3, <3>3 DEF ImageInOrder, Ordered
  <2>4. \A i \in ImageIds : file[i] # <<>> => file[i] = Succeeded(i, added[i])
    BY DEF LoopInv, FileInv
  <2> QED
    BY <2>3, <2>4 DEF OpsInOrder
<1> QED
  BY <1>1, ImageInductive, PTL

\* until an operation or a remote call fails, an image that was enqueued does not get lost
\* between the threads, and when the loop stops none is left but the last one of a batch that
\* the remote thread is handing back (ImageLoop.cc:346-349)
THEOREM NoImageLost == ImageSpec => []ImageNotLost
<1>1. LoopInv /\ StopInv => ImageNotLost
  <2> SUFFICES ASSUME LoopInv, StopInv, \A img \in Mapped : ~img.error
               PROVE  /\ \A i \in 1..sentImages :
                           \/ \E img \in InFlight : img.id = i
                           \/ imageMap[i] # NoImage /\ imageMap[i].done = Len(findOps)
                      /\ ~running => /\ mBatch = <<>> /\ rQueue = <<>>
                                     /\ rBatch = <<>> \/ (rAt = "handing" /\ Len(rBatch) = 1)
    BY DEF ImageNotLost
  <2>1. \A j \in ImageIds : ~Failed(imageMap, j)
    BY DEF Mapped, Failed
  <2>2. ASSUME NEW i \in 1..sentImages
        PROVE  \/ \E img \in InFlight : img.id = i
               \/ imageMap[i] # NoImage /\ imageMap[i].done = Len(findOps)
    <3>1. i \in Ids(mQueue) \cup Ids(mBatch) \cup Ids(rQueue) \cup Ids(rBatch) \/ Complete(imageMap, i)
      BY <2>1 DEF LoopInv, KeptInv
    <3>2. InFlight = ItemsOf(mQueue) \cup ItemsOf(mBatch) \cup ItemsOf(rQueue) \cup ItemsOf(rBatch)
      BY ToSetIs DEF LoopInv, QueuesInv, AllFly, InFlight
    <3> QED
      BY <3>1, <3>2 DEF Ids, Complete
  <2>3. ~running => LastLook
    BY <2>1 DEF StopInv, NoneFails
  <2> QED
    BY <2>2, <2>3 DEF LastLook
<1> QED
  BY <1>1, ImageInductive, PTL

(***************************************************************************)
(* Module TdbImage.                                                        *)
(***************************************************************************)

(* Division.                                                               *)

LEMMA DivFacts ==
  ASSUME NEW a \in Nat, NEW m \in Nat \ {0}
  PROVE  a \div m \in Nat /\ a % m \in 0..(m - 1) /\ a = m * (a \div m) + (a % m)
<1>1. a % m \in 0..(m - 1)
  OBVIOUS
<1>2. a \div m \in Nat
  OBVIOUS
<1>3. a = m * (a \div m) + (a % m)
  OBVIOUS
<1> QED
  BY <1>1, <1>2, <1>3, Zenon

LEMMA TimesMonotone ==
  ASSUME NEW a \in Nat, NEW b \in Nat, NEW c \in Nat, a <= b
  PROVE  a * c \in Nat /\ b * c \in Nat /\ a * c <= b * c /\ c * a <= c * b
OBVIOUS

\* a number below h * w has a row below h
LEMMA RowFacts ==
  ASSUME NEW h \in Nat \ {0}, NEW w \in Nat \ {0}, NEW a \in Nat, a < h * w
  PROVE  /\ a \div w \in 0..(h - 1) /\ a % w \in 0..(w - 1)
         /\ (a \div w) * w + (a % w) = a
<1>1. PICK q \in Nat, r \in 0..(w - 1) : q = a \div w /\ r = a % w /\ a = w * q + r
  BY DivFacts
<1>2. q <= h - 1
  <2> SUFFICES ASSUME h <= q
               PROVE  FALSE
    BY <1>1
  <2>1. h * w <= q * w /\ q * w \in Nat /\ h * w \in Nat
    BY TimesMonotone
  <2>2. q * w = w * q
    BY <1>1
  <2> QED
    BY <1>1, <2>1, <2>2
<1>3. q * w + r = a
  BY <1>1
<1> QED
  BY <1>1, <1>2, <1>3

-----------------------------------------------------------------------------
(* Tiles.                                                                  *)

LEMMA GreatestFactorFacts ==
  ASSUME NEW a \in Nat \ {0}
  PROVE  /\ GreatestFactor(a) \in 1..a
         /\ \A c \in 1..a : a % c = 0 /\ a \div c >= MinTile => c <= GreatestFactor(a)
<1> DEFINE S == {b \in 1..a : b = 1 \/ (a % b = 0 /\ a \div b >= MinTile)}
<1>1. 1 \in S /\ S \subseteq Nat /\ \A y \in S : y <= a
  OBVIOUS
<1>2. PICK b : b \in S /\ \A y \in S : y <= b
  <2> HIDE DEF S
  <2>1. Max(S) \in S /\ \A y \in S : y <= Max(S)
    BY <1>1, Greatest
  <2> QED
    BY <2>1
<1>3. /\ b \in 1..a
      /\ b = 1 \/ (a % b = 0 /\ a \div b >= MinTile)
      /\ \A c \in (b + 1)..a : a % c # 0 \/ a \div c < MinTile
  <2>1. b \in 1..a /\ (b = 1 \/ (a % b = 0 /\ a \div b >= MinTile))
    BY <1>2
  <2>2. ASSUME NEW c \in (b + 1)..a, a % c = 0, ~(a \div c < MinTile)
        PROVE  FALSE
    <3>1. c \in 1..a /\ c > b /\ a \div c \in Int /\ MinTile \in Int
      BY <2>1, TdbAssumption
    <3>2. c \in S
      BY <2>2, <3>1
    <3>3. c <= b
      BY <1>2, <3>2
    <3> QED
      BY <2>1, <3>1, <3>3
  <2> QED
    BY <2>1, <2>2
<1>4. PICK g : g = GreatestFactor(a)
  OBVIOUS
<1>5. /\ g \in 1..a
      /\ \A c \in (g + 1)..a : a % c # 0 \/ a \div c < MinTile
  <2>1. \E x \in 1..a : /\ x = 1 \/ (a % x = 0 /\ a \div x >= MinTile)
                        /\ \A c \in (x + 1)..a : a % c # 0 \/ a \div c < MinTile
    BY <1>3, Zenon
  <2>2. g = CHOOSE x \in 1..a :
              /\ x = 1 \/ (a % x = 0 /\ a \div x >= MinTile)
              /\ \A c \in (x + 1)..a : a % c # 0 \/ a \div c < MinTile
    BY <1>4, Zenon DEF GreatestFactor
  <2> QED
    BY <2>1, <2>2, Zenon
<1>6. ASSUME NEW c \in 1..a, a % c = 0, a \div c >= MinTile
      PROVE  c <= g
  <2>1. a \div c \in Int /\ MinTile \in Int
    BY TdbAssumption
  <2> QED
    BY <1>5, <1>6, <2>1
<1> QED
  BY <1>4, <1>5, <1>6

LEMMA GrownFacts ==
  ASSUME NEW d \in Nat \ {0}
  PROVE  Grown(d) \in Nat /\ Grown(d) >= d
<1>0. MinTile \in Nat \ {0}
  BY TdbAssumption
<1>1. PICK e \in d..(d + 2 * MinTile) : e % 2 = 0 /\ e \div 2 >= MinTile /\ e >= 2
  <2>1. CASE d < 2 * MinTile
    <3>1. 2 * MinTile \in d..(d + 2 * MinTile) /\ 2 * MinTile >= 2
      BY <1>0, <2>1
    <3>2. (2 * MinTile) % 2 = 0 /\ (2 * MinTile) \div 2 = MinTile
      BY <1>0
    <3>3. MinTile >= MinTile
      BY <1>0
    <3> QED
      BY <3>1, <3>2, <3>3
  <2>2. CASE d >= 2 * MinTile /\ d % 2 = 0
    <3>1. d \in d..(d + 2 * MinTile) /\ d >= 2 /\ d \div 2 >= MinTile
      BY <1>0, <2>2
    <3> QED
      BY <2>2, <3>1
  <2>3. CASE d >= 2 * MinTile /\ d % 2 # 0
    <3>1. d + 1 \in d..(d + 2 * MinTile) /\ d + 1 >= 2 /\ (d + 1) \div 2 >= MinTile
      BY <1>0, <2>3
    <3>2. (d + 1) % 2 = 0
      BY <2>3
    <3> QED
      BY <3>1, <3>2
  <2> QED
    BY <1>0, <2>1, <2>2, <2>3
<1> DEFINE S == {x \in d..(d + 2 * MinTile) : GreatestFactor(x) # 1}
<1>2. e \in S
  <2>1. e \in Nat \ {0} /\ 2 \in 1..e
    BY <1>0, <1>1
  <2>2. GreatestFactor(e) \in 1..e /\ 2 <= GreatestFactor(e)
    BY <1>1, <2>1, GreatestFactorFacts
  <2> QED
    BY <2>2
<1>3. S \subseteq Nat
  BY <1>0
<1>4. PICK x \in S : \A y \in S : x <= y
  <2> HIDE DEF S
  <2> QED
    BY <1>2, <1>3, Least
<1>5. /\ x \in d..(d + 2 * MinTile)
      /\ GreatestFactor(x) # 1
      /\ \A f \in d..(x - 1) : GreatestFactor(f) = 1
  <2>1. x \in d..(d + 2 * MinTile) /\ GreatestFactor(x) # 1
    BY <1>4
  <2>2. ASSUME NEW f \in d..(x - 1), GreatestFactor(f) # 1
        PROVE  FALSE
    <3>1. f \in d..(d + 2 * MinTile) /\ f < x
      BY <1>0, <2>1
    <3>2. f \in S
      BY <2>2, <3>1
    <3> QED
      BY <1>0, <1>4, <2>1, <3>1, <3>2
  <2> QED
    BY <2>1, <2>2
<1>6. Grown(d) \in d..(d + 2 * MinTile)
  <2>1. \E z \in d..(d + 2 * MinTile) : /\ GreatestFactor(z) # 1
                                        /\ \A f \in d..(z - 1) : GreatestFactor(f) = 1
    BY <1>5, Zenon
  <2> QED
    BY <2>1, Zenon DEF Grown
<1> QED
  BY <1>0, <1>6

\* tiles that fit the sizes they are made for
AreTiles(tile) == tile \in [1..2 -> Nat \ {0}]

IsUpper(upper) == upper \in [1..2 -> Nat \ {0}]

LEMMA TileFacts ==
  ASSUME NEW upper, IsUpper(upper)
  PROVE  AreTiles(TileExtents(upper))
<1>1. ASSUME NEW x \in 1..2
      PROVE  GreatestFactor(Grown(upper[x])) \in Nat \ {0}
  <2>1. upper[x] \in Nat \ {0}
    BY DEF IsUpper
  <2>2. PICK g : g = Grown(upper[x])
    OBVIOUS
  <2>3. g \in Nat \ {0}
    BY <2>1, <2>2, GrownFacts
  <2>4. GreatestFactor(g) \in 1..g
    BY <2>3, GreatestFactorFacts
  <2> QED
    BY <2>2, <2>3, <2>4
<1> QED
  BY <1>1 DEF TileExtents, AreTiles

-----------------------------------------------------------------------------
(* Images in memory and in arrays.                                         *)

\* an area of h rows and w columns with its pixels
IsTdbImage(h, w, data) ==
  /\ h \in Nat \ {0} /\ w \in Nat \ {0}
  /\ data \in Seq(Int) /\ Len(data) = h * w

Covers(upper, h, w) == upper[1] >= h /\ upper[2] >= w

\* the array a holds the image i
Holds(a, i) ==
  /\ i = [h |-> i.h, w |-> i.w, data |-> i.data] /\ IsTdbImage(i.h, i.w, i.data)
  /\ IsUpper(a.upper) /\ Covers(a.upper, i.h, i.w)
  /\ a = Stored2D(i.h, i.w, a.upper, i.data)

\* an object, whose size is known or not, with its pixels in memory or not
IsObject(o) ==
  /\ o = [name |-> o.name, data |-> o.data, h |-> o.h, w |-> o.w, upper |-> o.upper, tile |-> o.tile]
  /\ o.h \in Nat /\ o.w \in Nat
  /\ o.h # 0 => o.upper \in [1..2 -> Nat] /\ Covers(o.upper, o.h, o.w)
  /\ o.data # NoData => IsTdbImage(o.h, o.w, o.data) /\ AreTiles(o.tile)

TdbInv ==
  /\ DOMAIN arrays = TdbNames /\ DOMAIN written = TdbNames
  /\ \A n \in TdbNames : arrays[n] # NoArray => Holds(arrays[n], written[n])
  /\ object # NoObject => IsObject(object)

LEMMA SizeFacts ==
  ASSUME NEW h \in Nat, NEW w \in Nat
  PROVE  h * w \in Nat /\ (h # 0 /\ w # 0 => h * w >= 1)
OBVIOUS

\* an image is not empty
LEMMA ImageIsData ==
  ASSUME NEW h, NEW w, NEW data, IsTdbImage(h, w, data)
  PROVE  data # NoData
<1>1. h * w >= 1
  BY SizeFacts DEF IsTdbImage
<1> QED
  BY <1>1 DEF IsTdbImage, NoData

LEMMA LowByteFacts ==
  ASSUME NEW d \in Nat
  PROVE  LowByte(d) \in Nat /\ (d < MaxUchar * MaxUchar => LowByte(d) = d)
<1>1. PICK m \in Nat \ {0} : m = MaxUchar * MaxUchar
  BY TdbAssumption, SizeFacts
<1>2. d % m \in 0..(m - 1) /\ d = m * (d \div m) + (d % m) /\ d \div m \in Nat
  BY DivFacts
<1>3. d < m => d % m = d
  OBVIOUS
<1>4. LowByte(d) = d % m
  BY <1>1 DEF LowByte
<1> QED
  BY <1>1, <1>2, <1>3, <1>4

LEMMA PixelsSeq ==
  ASSUME NEW n \in TdbNames, Holds(arrays[n], written[n]), NEW h \in Nat \ {0}, NEW w \in Nat \ {0}
  PROVE  IsTdbImage(h, w, Pixels(arrays[n], h, w))
<1>1. PICK a, i : a = arrays[n] /\ i = written[n]
  OBVIOUS
<1>2. /\ IsTdbImage(i.h, i.w, i.data) /\ a = Stored2D(i.h, i.w, a.upper, i.data)
  BY <1>1 DEF Holds
<1>3. PICK k \in Nat \ {0}, j \in Nat \ {0}, s \in Seq(Int) : k = i.h /\ j = i.w /\ s = i.data /\ Len(s) = k * j
  BY <1>2 DEF IsTdbImage
<1>4. a.cells = [p \in (1..k) \X (0..(j - 1)) |-> s[(p[1] - 1) * j + p[2] + 1]]
  BY <1>2, <1>3 DEF Stored2D
<1>5. ASSUME NEW p \in (1..k) \X (0..(j - 1))
      PROVE  s[(p[1] - 1) * j + p[2] + 1] \in Int
  <2>1. PICK x \in 0..(k - 1), y \in 0..(j - 1) : x = p[1] - 1 /\ y = p[2]
    BY <1>5
  <2>2. x * j \in Nat /\ x * j <= (k - 1) * j
    BY TimesMonotone
  <2>3. (k - 1) * j = k * j - j
    OBVIOUS
  <2>4. x * j + y + 1 \in 1..(k * j)
    <3>1. PICK u \in Nat, t \in Nat : u = x * j /\ t = k * j
      BY <2>2, SizeFacts
    <3>2. u <= t - j
      BY <2>2, <2>3, <3>1
    <3>3. u + y + 1 \in 1..t
      BY <3>2
    <3> QED
      BY <3>1, <3>3
  <2> QED
    BY <1>3, <2>1, <2>4
<1>6. PICK cells : cells = a.cells
  OBVIOUS
<1>7. \A p \in DOMAIN cells : cells[p] \in Int
  BY <1>4, <1>5, <1>6
<1>8. PICK t \in Nat : t = h * w
  BY SizeFacts
<1>9. Pixels(a, h, w) = [q \in 1..t |-> IF <<(q - 1) \div w + 1, (q - 1) % w>> \in DOMAIN cells
                                       THEN cells[<<(q - 1) \div w + 1, (q - 1) % w>>] ELSE Blend]
  BY <1>6, <1>8, Zenon DEF Pixels
<1>10. Pixels(a, h, w) \in [1..t -> Int]
  BY <1>7, <1>9 DEF Blend
<1>11. Pixels(a, h, w) \in Seq(Int) /\ Len(Pixels(a, h, w)) = t
  BY <1>10, SeqDef
<1> QED
  BY <1>1, <1>8, <1>11 DEF IsTdbImage

LEMMA SizedFacts ==
  ASSUME NEW o, IsObject(o), o.data = NoData, Exists(o), Holds(arrays[o.name], written[o.name])
  PROVE  IsObject(Sized(o)) /\ Sized(o).data = NoData /\ (Sized(o).h > 0 => Covers(Sized(o).upper, Sized(o).h, Sized(o).w))
<1>1. PICK a : a = arrays[o.name]
  OBVIOUS
<1>2. CASE o.h # 0
  BY <1>2 DEF Sized, IsObject
<1>3. CASE o.h = 0
  <2>1. Sized(o) = [o EXCEPT !.h = a.h, !.w = a.w, !.upper = Upper(a.h, a.w)]
    BY <1>1, <1>3, Zenon DEF Sized
  <2>2. a.h \in Nat /\ a.w \in Nat
    <3>1. PICK i : i = written[o.name]
      OBVIOUS
    <3>2. i.h \in Nat /\ i.w \in Nat /\ a = Stored2D(i.h, i.w, a.upper, i.data)
      BY <1>1, <3>1 DEF Holds, IsTdbImage
    <3>3. a.h = LowByte(i.h) /\ a.w = LowByte(i.w)
      BY <3>2 DEF Stored2D
    <3> QED
      BY <3>2, <3>3, LowByteFacts
  <2>3. PICK s : s = Sized(o)
    OBVIOUS
  <2>4. PICK u : u = Upper(a.h, a.w)
    OBVIOUS
  <2>5. s = [o EXCEPT !.h = a.h, !.w = a.w, !.upper = u]
    BY <2>1, <2>3, <2>4, Zenon
  <2>6. s = [name |-> o.name, data |-> NoData, h |-> a.h, w |-> a.w, upper |-> u, tile |-> o.tile]
    <3>1. /\ o = [name |-> o.name, data |-> o.data, h |-> o.h, w |-> o.w, upper |-> o.upper, tile |-> o.tile]
      BY DEF IsObject
    <3> QED
      BY <2>5, <3>1
  <2>7. u \in [1..2 -> Nat] /\ u[1] = a.h + 1 /\ u[2] = a.w
    BY <2>2, <2>4 DEF Upper
  <2>8. Covers(u, a.h, a.w)
    BY <2>2, <2>7 DEF Covers
  <2> QED
    BY <2>2, <2>3, <2>6, <2>7, <2>8 DEF IsObject
<1> QED
  BY <1>2, <1>3

LEMMA ReadAllFacts ==
  ASSUME TdbInv, NEW o, IsObject(o)
  PROVE  IsObject(ReadAll(o))
<1>1. CASE o.data # NoData \/ ~Exists(o)
  BY <1>1, Zenon DEF ReadAll
<1>2. CASE ~(o.data # NoData \/ ~Exists(o))
  <2>1. Holds(arrays[o.name], written[o.name]) /\ o.name \in TdbNames
    BY <1>2 DEF TdbInv, Exists
  <2>2. PICK s, a : s = Sized(o) /\ a = arrays[o.name]
    OBVIOUS
  <2>3. IsObject(s)
    BY <1>2, <2>1, <2>2, SizedFacts
  <2>4. ReadAll(o) = IF s.h > 0 /\ s.w > 0 /\ InDomain(a, <<1, s.h>>, <<0, s.w - 1>>)
                     THEN [s EXCEPT !.data = Pixels(a, s.h, s.w), !.tile = a.tile] ELSE s
    BY <1>2, <2>2, Zenon DEF ReadAll
  <2>5. CASE ReadAll(o) = s
    BY <2>3, <2>5
  <2>6. CASE s.h > 0 /\ s.w > 0 /\ ReadAll(o) = [s EXCEPT !.data = Pixels(a, s.h, s.w), !.tile = a.tile]
    <3>1. s.h \in Nat \ {0} /\ s.w \in Nat \ {0}
      BY <2>3, <2>6 DEF IsObject
    <3>2. PICK d, t : d = Pixels(a, s.h, s.w) /\ t = a.tile
      OBVIOUS
    <3>3. IsTdbImage(s.h, s.w, d)
      BY <2>1, <2>2, <3>1, <3>2, PixelsSeq
    <3>4. AreTiles(t)
      <4>1. IsUpper(a.upper) /\ a = Stored2D(written[o.name].h, written[o.name].w, a.upper, written[o.name].data)
        BY <2>1, <2>2 DEF Holds
      <4>2. a.tile = TileExtents(a.upper)
        BY <4>1 DEF Stored2D
      <4> QED
        BY <3>2, <4>1, <4>2, TileFacts
    <3>5. PICK r : r = ReadAll(o)
      OBVIOUS
    <3>6. r = [s EXCEPT !.data = d, !.tile = t]
      BY <2>6, <3>2, <3>5, Zenon
    <3>7. r = [name |-> s.name, data |-> d, h |-> s.h, w |-> s.w, upper |-> s.upper, tile |-> t]
      <4>1. s = [name |-> s.name, data |-> s.data, h |-> s.h, w |-> s.w, upper |-> s.upper, tile |-> s.tile]
        BY <2>3 DEF IsObject
      <4> QED
        BY <3>6, <4>1
    <3> QED
      BY <2>3, <3>3, <3>4, <3>5, <3>7 DEF IsObject
  <2> QED
    BY <2>4, <2>5, <2>6
<1> QED
  BY <1>1, <1>2

LEMMA ReadAreaFacts ==
  ASSUME TdbInv, NEW o, IsObject(o), NEW x \in Nat, NEW y \in Nat, NEW h \in Nat \ {0}, NEW w \in Nat \ {0}
  PROVE  IsObject(ReadArea(o, [x |-> x, y |-> y, height |-> h, width |-> w]))
<1> DEFINE r == [x |-> x, y |-> y, height |-> h, width |-> w]
<1>0. r.x = x /\ r.y = y /\ r.height = h /\ r.width = w
  OBVIOUS
<1> HIDE DEF r
<1>1. CASE o.data # NoData \/ ~Exists(o)
  <2>1. ReadArea(o, r) = o
    BY <1>1, Zenon DEF ReadArea
  <2> QED
    BY <2>1 DEF r
<1>2. CASE ~(o.data # NoData \/ ~Exists(o))
  <2>1. Holds(arrays[o.name], written[o.name]) /\ o.name \in TdbNames
    BY <1>2 DEF TdbInv, Exists
  <2>2. PICK s, a : s = Sized(o) /\ a = arrays[o.name]
    OBVIOUS
  <2>3. IsObject(s) /\ s.data = NoData
    BY <1>2, <2>1, <2>2, SizedFacts
  <2>4. PICK cut, d, t : /\ cut = [s EXCEPT !.h = h, !.w = w]
                         /\ d = [i \in 1..(h * w) |-> Blend] /\ t = a.tile
    OBVIOUS
  <2>5. ReadArea(o, r) = IF s.h < h + y \/ s.w < w + x THEN s
                         ELSE IF InDomain(a, <<x, x + h>>, <<y, y + w>>)
                         THEN [cut EXCEPT !.data = d, !.tile = t] ELSE cut
    BY <1>0, <1>2, <2>2, <2>4, Zenon DEF ReadArea
  <2>6. CASE ReadArea(o, r) = s
    BY <2>3, <2>6 DEF r
  <2>7. CASE ~(s.h < h + y \/ s.w < w + x)
    <3>1. s.h \in Nat /\ s.w \in Nat /\ s.h >= h /\ s.w >= w /\ s.h # 0
      BY <2>3, <2>7 DEF IsObject
    <3>2. s.upper \in [1..2 -> Nat] /\ Covers(s.upper, h, w)
      <4>1. s.upper \in [1..2 -> Nat] /\ Covers(s.upper, s.h, s.w)
        BY <2>3, <3>1 DEF IsObject
      <4> QED
        BY <3>1, <4>1 DEF Covers
    <3>3. cut = [name |-> s.name, data |-> NoData, h |-> h, w |-> w, upper |-> s.upper, tile |-> s.tile]
      <4>1. s = [name |-> s.name, data |-> NoData, h |-> s.h, w |-> s.w, upper |-> s.upper, tile |-> s.tile]
        BY <2>3 DEF IsObject
      <4>2. PICK name, sh, sw, upper, tile :
              s = [name |-> name, data |-> NoData, h |-> sh, w |-> sw, upper |-> upper, tile |-> tile]
        BY <4>1
      <4>3. cut = [name |-> name, data |-> NoData, h |-> h, w |-> w, upper |-> upper, tile |-> tile]
        BY <2>4, <4>2
      <4>4. s.name = name /\ s.upper = upper /\ s.tile = tile
        BY <4>2
      <4> QED
        BY <4>3, <4>4
    <3>4. IsObject(cut)
      BY <3>2, <3>3 DEF IsObject
    <3>5. AreTiles(t)
      <4>1. IsUpper(a.upper) /\ a = Stored2D(written[o.name].h, written[o.name].w, a.upper, written[o.name].data)
        BY <2>1, <2>2 DEF Holds
      <4>2. a.tile = TileExtents(a.upper)
        BY <4>1 DEF Stored2D
      <4> QED
        BY <2>4, <4>1, <4>2, TileFacts
    <3>6. IsTdbImage(h, w, d)
      <4>1. PICK k \in Nat : k = h * w
        BY SizeFacts
      <4>3. d \in [1..k -> Int]
        BY <2>4, <4>1 DEF Blend
      <4>2. d \in Seq(Int) /\ Len(d) = h * w
        BY <4>1, <4>3, SeqDef
      <4> QED
        BY <4>2 DEF IsTdbImage
    <3>7. IsObject([cut EXCEPT !.data = d, !.tile = t])
      <4>1. PICK c : c = [cut EXCEPT !.data = d, !.tile = t]
        OBVIOUS
      <4>2. c = [name |-> s.name, data |-> d, h |-> h, w |-> w, upper |-> s.upper, tile |-> t]
        BY <3>3, <4>1
      <4>3. IsObject(c)
        BY <3>2, <3>5, <3>6, <4>2 DEF IsObject
      <4> QED
        BY <4>1, <4>3
    <3> QED
      BY <2>5, <2>7, <3>4, <3>7, Zenon DEF r
  <2> QED
    BY <2>5, <2>6, <2>7
<1> QED
  BY <1>1, <1>2 DEF r

\* an object with an image in memory
LEMMA ObjectUpper ==
  ASSUME NEW o, IsObject(o), o.data # NoData
  PROVE  IsTdbImage(o.h, o.w, o.data) /\ IsUpper(o.upper) /\ Covers(o.upper, o.h, o.w) /\ AreTiles(o.tile)
<1>1. IsTdbImage(o.h, o.w, o.data) /\ AreTiles(o.tile) /\ o.upper \in [1..2 -> Nat] /\ Covers(o.upper, o.h, o.w)
  BY DEF IsObject, IsTdbImage
<1>2. \A x \in 1..2 : o.upper[x] \in Nat \ {0}
  BY <1>1 DEF Covers, IsTdbImage
<1>3. IsUpper(o.upper)
  BY <1>1, <1>2 DEF IsUpper
<1> QED
  BY <1>1, <1>3

LEMMA HoldsStored ==
  ASSUME NEW h, NEW w, NEW data, IsTdbImage(h, w, data), NEW upper, IsUpper(upper), Covers(upper, h, w)
  PROVE  Holds(Stored2D(h, w, upper, data), [h |-> h, w |-> w, data |-> data])
<1>1. PICK a, i : a = Stored2D(h, w, upper, data) /\ i = [h |-> h, w |-> w, data |-> data]
  OBVIOUS
<1>2. a.upper = upper
  BY <1>1 DEF Stored2D
<1>3. i.h = h /\ i.w = w /\ i.data = data
  BY <1>1
<1>4. Holds(a, i)
  BY <1>1, <1>2, <1>3, Zenon DEF Holds
<1> QED
  BY <1>1, <1>4

LEMMA UpperFacts ==
  ASSUME NEW h \in Nat \ {0}, NEW w \in Nat \ {0}
  PROVE  IsUpper(Upper(h, w)) /\ Covers(Upper(h, w), h, w) /\ Upper(h, w) \in [1..2 -> Nat]
BY DEF IsUpper, Covers, Upper

LEMMA ResizedFacts ==
  ASSUME NEW o, IsObject(o), o.data # NoData, NEW h \in Nat \ {0}, NEW w \in Nat \ {0}
  PROVE  IsObject(ResizedData(o, h, w))
<1>1. PICK u, d, r : u = Upper(h, w) /\ d = [i \in 1..(h * w) |-> Blend] /\ r = ResizedData(o, h, w)
  OBVIOUS
<1>2. r = [o EXCEPT !.h = h, !.w = w, !.upper = u, !.data = d]
  BY <1>1, Zenon DEF ResizedData
<1>3. r = [name |-> o.name, data |-> d, h |-> h, w |-> w, upper |-> u, tile |-> o.tile]
  <2>1. o = [name |-> o.name, data |-> o.data, h |-> o.h, w |-> o.w, upper |-> o.upper, tile |-> o.tile]
    BY DEF IsObject
  <2> QED
    BY <1>2, <2>1
<1>4. IsTdbImage(h, w, d)
  <2>1. h * w \in Nat
    BY SizeFacts
  <2>2. d \in Seq(Int) /\ Len(d) = h * w
    BY <1>1, <2>1 DEF Blend
  <2> QED
    BY <2>2 DEF IsTdbImage
<1>5. u \in [1..2 -> Nat] /\ Covers(u, h, w)
  BY <1>1, UpperFacts
<1>6. AreTiles(o.tile)
  BY DEF IsObject
<1>7. IsObject(r)
  BY <1>3, <1>4, <1>5, <1>6 DEF IsObject
<1> QED
  BY <1>1, <1>7

\* the name, and with it the tiles, of an object may change
LEMMA RenamedFacts ==
  ASSUME NEW o, IsObject(o), NEW name
  PROVE  /\ IsObject([o EXCEPT !.name = name])
         /\ \A tile : AreTiles(tile) => IsObject([o EXCEPT !.name = name, !.tile = tile])
         /\ IsObject([o EXCEPT !.data = NoData])
<1>0. o = [name |-> o.name, data |-> o.data, h |-> o.h, w |-> o.w, upper |-> o.upper, tile |-> o.tile]
  BY DEF IsObject
<1>1. IsObject([o EXCEPT !.name = name])
  <2>1. PICK r : r = [o EXCEPT !.name = name]
    OBVIOUS
  <2>2. r = [name |-> name, data |-> o.data, h |-> o.h, w |-> o.w, upper |-> o.upper, tile |-> o.tile]
    BY <1>0, <2>1
  <2>3. IsObject(r)
    BY <2>2 DEF IsObject
  <2> QED
    BY <2>1, <2>3
<1>2. ASSUME NEW tile, AreTiles(tile)
      PROVE  IsObject([o EXCEPT !.name = name, !.tile = tile])
  <2>1. PICK r : r = [o EXCEPT !.name = name, !.tile = tile]
    OBVIOUS
  <2>2. r = [name |-> name, data |-> o.data, h |-> o.h, w |-> o.w, upper |-> o.upper, tile |-> tile]
    BY <1>0, <2>1
  <2>3. IsObject(r)
    BY <1>2, <2>2 DEF IsObject
  <2> QED
    BY <2>1, <2>3
<1>3. IsObject([o EXCEPT !.data = NoData])
  <2>1. PICK r : r = [o EXCEPT !.data = NoData]
    OBVIOUS
  <2>2. r = [name |-> o.name, data |-> NoData, h |-> o.h, w |-> o.w, upper |-> o.upper, tile |-> o.tile]
    BY <1>0, <2>1
  <2>3. IsObject(r)
    BY <2>2 DEF IsObject
  <2> QED
    BY <2>1, <2>3
<1> QED
  BY <1>1, <1>2, <1>3

\* pixels that are overwritten
LEMMA MaskedFacts ==
  ASSUME NEW o, IsObject(o), o.data # NoData, NEW value
  PROVE  IsObject([o EXCEPT !.data = [i \in DOMAIN @ |-> IF @[i] \in 1..value THEN 0 ELSE @[i]]])
<1>1. PICK d, r : /\ d = [i \in DOMAIN o.data |-> IF o.data[i] \in 1..value THEN 0 ELSE o.data[i]]
                  /\ r = [o EXCEPT !.data = [i \in DOMAIN @ |-> IF @[i] \in 1..value THEN 0 ELSE @[i]]]
  OBVIOUS
<1>2. r = [o EXCEPT !.data = d]
  BY <1>1, Zenon
<1>3. r = [name |-> o.name, data |-> d, h |-> o.h, w |-> o.w, upper |-> o.upper, tile |-> o.tile]
  <2>1. o = [name |-> o.name, data |-> o.data, h |-> o.h, w |-> o.w, upper |-> o.upper, tile |-> o.tile]
    BY DEF IsObject
  <2> QED
    BY <1>2, <2>1
<1>4. IsTdbImage(o.h, o.w, d)
  <2>1. PICK k \in Nat, s \in Seq(Int) : k = o.h * o.w /\ s = o.data /\ Len(s) = k
    BY SizeFacts DEF IsObject, IsTdbImage
  <2>2. d = [i \in 1..k |-> IF s[i] \in 1..value THEN 0 ELSE s[i]]
    BY <1>1, <2>1
  <2>3. \A i \in 1..k : (IF s[i] \in 1..value THEN 0 ELSE s[i]) \in Int
    BY <2>1
  <2>4. d \in [1..k -> Int]
    BY <2>2, <2>3
  <2>5. d \in Seq(Int) /\ Len(d) = k
    BY <2>4, SeqDef
  <2> QED
    BY <2>1, <2>5 DEF IsObject, IsTdbImage
<1>5. AreTiles(o.tile)
  BY DEF IsObject
<1>6. IsObject(r)
  BY <1>3, <1>4, <1>5 DEF IsObject
<1> QED
  BY <1>1, <1>6

LEMMA TdbStart == TdbInit => TdbInv
BY DEF TdbInit, TdbInv

\* a step that leaves the arrays alone
LEMMA SameArrays ==
  ASSUME TdbInv, arrays' = arrays, written' = written, object' # NoObject => IsObject(object')
  PROVE  TdbInv'
BY DEF TdbInv, Holds, IsTdbImage, IsUpper, Covers, IsObject, AreTiles

\* a step that stores an image under the name n
LEMMA NewArray ==
  ASSUME TdbInv, NEW n \in TdbNames, NEW h, NEW w, NEW data, NEW upper,
         IsTdbImage(h, w, data), IsUpper(upper), Covers(upper, h, w),
         arrays' = [arrays EXCEPT ![n] = Stored2D(h, w, upper, data)],
         written' = [written EXCEPT ![n] = [h |-> h, w |-> w, data |-> data]],
         IsObject(object')
  PROVE  TdbInv'
<1>1. PICK a, i : a = Stored2D(h, w, upper, data) /\ i = [h |-> h, w |-> w, data |-> data]
  OBVIOUS
<1>2. Holds(a, i)
  BY <1>1, HoldsStored
<1>3. arrays' = [arrays EXCEPT ![n] = a] /\ written' = [written EXCEPT ![n] = i]
  BY <1>1
<1>4. DOMAIN arrays' = TdbNames /\ DOMAIN written' = TdbNames
  BY <1>3 DEF TdbInv
<1>5. ASSUME NEW m \in TdbNames, arrays'[m] # NoArray
      PROVE  Holds(arrays'[m], written'[m])
  <2>1. CASE m = n
    BY <1>2, <1>3, <2>1 DEF TdbInv
  <2>2. CASE m # n
    BY <1>3, <1>5, <2>2 DEF TdbInv
  <2> QED
    BY <2>1, <2>2
<1> QED
  BY <1>4, <1>5 DEF TdbInv

LEMMA TdbStep == TdbInv /\ [TdbNext]_tdbVars => TdbInv'
<1> SUFFICES ASSUME TdbInv, [TdbNext]_tdbVars
             PROVE  TdbInv'
  OBVIOUS
<1>0. object # NoObject => IsObject(object)
  BY DEF TdbInv
<1>1. CASE UNCHANGED tdbVars
  BY <1>0, <1>1, SameArrays DEF tdbVars
<1>2. CASE WriteMat
  <2>1. PICK n \in TdbNames, h \in Dims, w \in Dims :
          LET pixels == [i \in 1..(h * w) |-> i] IN
          /\ arrays' = [arrays EXCEPT ![n] = Stored2D(h, w, Upper(h, w), pixels)]
          /\ object' = [name |-> n, data |-> pixels, h |-> h, w |-> w, upper |-> Upper(h, w),
                        tile |-> TileExtents(Upper(h, w))]
          /\ written' = [written EXCEPT ![n] = [h |-> h, w |-> w, data |-> pixels]]
    BY <1>2, Zenon DEF WriteMat
  <2>2. h \in Nat \ {0} /\ w \in Nat \ {0}
    BY TdbAssumption DEF Dims
  <2>3. PICK pixels, upper, tile : /\ pixels = [i \in 1..(h * w) |-> i]
                                   /\ upper = Upper(h, w) /\ tile = TileExtents(upper)
    OBVIOUS
  <2>4. IsTdbImage(h, w, pixels)
    <3>1. PICK k \in Nat : k = h * w
      BY <2>2, SizeFacts
    <3>2. pixels \in [1..k -> Int]
      BY <2>3, <3>1
    <3>3. pixels \in Seq(Int) /\ Len(pixels) = k
      BY <3>2, SeqDef
    <3> QED
      BY <2>2, <3>1, <3>3 DEF IsTdbImage
  <2>5. IsUpper(upper) /\ Covers(upper, h, w) /\ upper \in [1..2 -> Nat]
    BY <2>2, <2>3, UpperFacts
  <2>6. AreTiles(tile)
    BY <2>3, <2>5, TileFacts
  <2>7. /\ arrays' = [arrays EXCEPT ![n] = Stored2D(h, w, upper, pixels)]
        /\ object' = [name |-> n, data |-> pixels, h |-> h, w |-> w, upper |-> upper, tile |-> tile]
        /\ written' = [written EXCEPT ![n] = [h |-> h, w |-> w, data |-> pixels]]
    BY <2>1, <2>3, Zenon
  <2>8. IsObject(object')
    <3>1. PICK r : r = [name |-> n, data |-> pixels, h |-> h, w |-> w, upper |-> upper, tile |-> tile]
      OBVIOUS
    <3>2. IsObject(r)
      BY <2>2, <2>4, <2>5, <2>6, <3>1 DEF IsObject
    <3> QED
      BY <2>7, <3>1, <3>2
  <2> QED
    BY <2>4, <2>5, <2>7, <2>8, NewArray
<1>3. CASE OpenImage
  <2>1. PICK n \in TdbNames : object' = NewImage(n) /\ UNCHANGED <<arrays, written>>
    BY <1>3 DEF OpenImage
  <2>2. IsObject(NewImage(n))
    BY DEF IsObject, NewImage, NoData
  <2> QED
    BY <2>1, <2>2, SameArrays
<1>4. CASE ReadImage
  <2>1. object # NoObject /\ object' = ReadAll(object) /\ UNCHANGED <<arrays, written>>
    BY <1>4 DEF ReadImage
  <2>2. IsObject(object')
    BY <1>0, <2>1, ReadAllFacts
  <2> QED
    BY <2>1, <2>2, SameArrays
<1>5. CASE CropImage
  <2>1. PICK x \in 0..1, y \in 0..1, h \in 1..2, w \in 1..2 :
          /\ object # NoObject /\ UNCHANGED <<arrays, written>>
          /\ object' = ReadArea(object, [x |-> x, y |-> y, height |-> h, width |-> w])
    BY <1>5 DEF CropImage
  <2>2. x \in Nat /\ y \in Nat /\ h \in Nat \ {0} /\ w \in Nat \ {0}
    OBVIOUS
  <2>3. IsObject(ReadArea(object, [x |-> x, y |-> y, height |-> h, width |-> w]))
    BY <1>0, <2>1, <2>2, ReadAreaFacts
  <2> QED
    BY <2>1, <2>3, SameArrays
<1>6. CASE ResizeImage
  <2>1. PICK h \in 1..2, w \in 1..2 :
          /\ object # NoObject /\ ReadAll(object).data # NoData
          /\ object' = ResizedData(ReadAll(object), h, w) /\ UNCHANGED <<arrays, written>>
    BY <1>6 DEF ResizeImage
  <2>2. PICK o : o = ReadAll(object)
    OBVIOUS
  <2>3. IsObject(o) /\ o.data # NoData
    BY <1>0, <2>1, <2>2, ReadAllFacts
  <2>4. h \in Nat \ {0} /\ w \in Nat \ {0}
    OBVIOUS
  <2>5. IsObject(ResizedData(o, h, w))
    BY <2>3, <2>4, ResizedFacts
  <2> QED
    BY <2>1, <2>2, <2>5, SameArrays
<1>7. CASE ThresholdImage
  <2>1. PICK value : /\ object # NoObject /\ UNCHANGED <<arrays, written>>
                     /\ object' = IF object.data = NoData THEN ReadAll(object)
                                  ELSE [object EXCEPT !.data =
                                          [i \in DOMAIN @ |-> IF @[i] \in 1..value THEN 0 ELSE @[i]]]
    BY <1>7, Zenon DEF ThresholdImage
  <2>2. CASE object.data = NoData
    <3>1. object' = ReadAll(object)
      BY <2>1, <2>2, Zenon
    <3>2. IsObject(ReadAll(object))
      BY <1>0, <2>1, ReadAllFacts
    <3> QED
      BY <2>1, <3>1, <3>2, SameArrays
  <2>3. CASE object.data # NoData
    <3>1. object' = [object EXCEPT !.data = [i \in DOMAIN @ |-> IF @[i] \in 1..value THEN 0 ELSE @[i]]]
      BY <2>1, <2>3, Zenon
    <3>2. IsObject([object EXCEPT !.data = [i \in DOMAIN @ |-> IF @[i] \in 1..value THEN 0 ELSE @[i]]])
      BY <1>0, <2>1, <2>3, MaskedFacts
    <3>3. IsObject(object')
      BY <3>1, <3>2, Zenon
    <3> QED
      BY <2>1, <3>3, SameArrays
  <2> QED
    BY <2>2, <2>3
<1>8. CASE WriteImage
  <2>1. PICK n \in TdbNames : /\ object # NoObject /\ object.data # NoData
          /\ LET tile == TileExtents(object.upper) IN
             IF arrays[n] = NoArray
             THEN /\ arrays' = [arrays EXCEPT ![n] = Stored2D(object.h, object.w, object.upper, object.data)]
                  /\ written' = [written EXCEPT ![n] =
                                   [h |-> object.h, w |-> object.w, data |-> object.data]]
                  /\ object' = [object EXCEPT !.name = n, !.tile = tile]
             ELSE /\ object' = [object EXCEPT !.name = n, !.tile = tile]
                  /\ UNCHANGED <<arrays, written>>
    BY <1>8, Zenon DEF WriteImage
  <2>2. /\ IsTdbImage(object.h, object.w, object.data) /\ IsUpper(object.upper)
        /\ Covers(object.upper, object.h, object.w)
    BY <1>0, <2>1, ObjectUpper
  <2>3. PICK tile : tile = TileExtents(object.upper) /\ AreTiles(tile)
    BY <2>2, TileFacts
  <2>4. object' = [object EXCEPT !.name = n, !.tile = tile]
    BY <2>1, <2>3, Zenon
  <2>5. IsObject(object')
    BY <1>0, <2>1, <2>3, <2>4, RenamedFacts
  <2>6. CASE arrays[n] = NoArray
    <3>1. /\ arrays' = [arrays EXCEPT ![n] = Stored2D(object.h, object.w, object.upper, object.data)]
          /\ written' = [written EXCEPT ![n] = [h |-> object.h, w |-> object.w, data |-> object.data]]
      BY <2>1, <2>6, Zenon
    <3> QED
      BY <2>2, <2>5, <3>1, NewArray
  <2>7. CASE arrays[n] # NoArray
    <3>1. arrays' = arrays /\ written' = written
      BY <2>1, <2>7, Zenon
    <3> QED
      BY <2>5, <3>1, SameArrays
  <2> QED
    BY <2>6, <2>7
<1>9. CASE CopyImage
  <2>1. /\ object # NoObject /\ object' = [ReadAll(object) EXCEPT !.name = NoName]
        /\ UNCHANGED <<arrays, written>>
    BY <1>9 DEF CopyImage
  <2>2. PICK o : o = ReadAll(object)
    OBVIOUS
  <2>3. IsObject(o)
    BY <1>0, <2>1, <2>2, ReadAllFacts
  <2>4. IsObject([o EXCEPT !.name = NoName])
    BY <2>3, RenamedFacts
  <2> QED
    BY <2>1, <2>2, <2>4, SameArrays
<1>10. CASE DeleteImage
  <2>1. /\ object # NoObject /\ object' = [object EXCEPT !.data = NoData]
        /\ arrays' = [n \in TdbNames |-> IF object.name \in {n, NoName} THEN NoArray ELSE arrays[n]]
        /\ written' = [n \in TdbNames |-> IF arrays'[n] = NoArray THEN NoArray ELSE written[n]]
    BY <1>10 DEF DeleteImage
  <2>2. IsObject(object')
    BY <1>0, <2>1, RenamedFacts
  <2>3. DOMAIN arrays' = TdbNames /\ DOMAIN written' = TdbNames
    BY <2>1
  <2>4. ASSUME NEW m \in TdbNames, arrays'[m] # NoArray
        PROVE  Holds(arrays'[m], written'[m])
    <3>1. arrays'[m] = arrays[m] /\ written'[m] = written[m]
      BY <2>1, <2>4
    <3>2. Holds(arrays[m], written[m])
      BY <2>4, <3>1 DEF TdbInv
    <3> QED
      BY <3>1, <3>2
  <2> QED
    BY <2>2, <2>3, <2>4 DEF TdbInv
<1> QED
  BY <1>1, <1>2, <1>3, <1>4, <1>5, <1>6, <1>7, <1>8, <1>9, <1>10 DEF TdbNext

\* the pixels of an array, read at the size it was written with
LEMMA ReadsBack ==
  ASSUME NEW n \in TdbNames, Holds(arrays[n], written[n])
  PROVE  Pixels(arrays[n], written[n].h, written[n].w) = written[n].data
<1>1. PICK a, i : a = arrays[n] /\ i = written[n]
  OBVIOUS
<1>2. IsTdbImage(i.h, i.w, i.data) /\ a = Stored2D(i.h, i.w, a.upper, i.data)
  BY <1>1 DEF Holds
<1>3. PICK h \in Nat \ {0}, w \in Nat \ {0}, s \in Seq(Int) : h = i.h /\ w = i.w /\ s = i.data /\ Len(s) = h * w
  BY <1>2 DEF IsTdbImage
<1>4. PICK cells : cells = a.cells
  OBVIOUS
<1>5. cells = [p \in (1..h) \X (0..(w - 1)) |-> s[(p[1] - 1) * w + p[2] + 1]]
  BY <1>2, <1>3, <1>4 DEF Stored2D
<1>6. PICK t \in Nat : t = h * w
  BY SizeFacts
<1>7. Pixels(a, h, w) = [q \in 1..t |-> IF <<(q - 1) \div w + 1, (q - 1) % w>> \in DOMAIN cells
                                       THEN cells[<<(q - 1) \div w + 1, (q - 1) % w>>] ELSE Blend]
  BY <1>4, <1>6, Zenon DEF Pixels
<1>8. ASSUME NEW q \in 1..t
      PROVE  /\ <<(q - 1) \div w + 1, (q - 1) % w>> \in DOMAIN cells
             /\ cells[<<(q - 1) \div w + 1, (q - 1) % w>>] = s[q]
  <2>1. PICK b \in Nat : b = q - 1 /\ b < h * w
    BY <1>6
  <2>2. PICK x \in 0..(h - 1), y \in 0..(w - 1) : x = b \div w /\ y = b % w /\ x * w + y = b
    <3>1. /\ b \div w \in 0..(h - 1) /\ b % w \in 0..(w - 1)
          /\ (b \div w) * w + (b % w) = b
      BY <2>1, RowFacts, ZenonT(60)
    <3>2. PICK x, y : x = b \div w /\ y = b % w
      OBVIOUS
    <3>3. x \in 0..(h - 1) /\ y \in 0..(w - 1) /\ x * w + y = b
      BY <3>1, <3>2
    <3> QED
      BY <3>2, <3>3, Zenon
  <2>3. <<x + 1, y>> \in (1..h) \X (0..(w - 1))
    BY <2>2
  <2>4. cells[<<x + 1, y>>] = s[x * w + y + 1]
    BY <1>5, <2>3
  <2>5. x * w + y + 1 = q
    BY <2>1, <2>2
  <2> QED
    BY <1>5, <2>1, <2>2, <2>3, <2>4, <2>5
<1>9. Pixels(a, h, w) = [q \in 1..t |-> s[q]]
  BY <1>7, <1>8
<1>10. s = [q \in 1..t |-> s[q]]
  BY <1>3, <1>6
<1> QED
  BY <1>1, <1>3, <1>9, <1>10

\* For images and tiles of any size, whatever is cropped, resized, thresholded or copied in
\* between, an array reads back as the image it was given, if its sides fit two bytes
\* (TDBImage.cc, where pixels are written tile by tile and the sizes are metadata).
THEOREM TdbReadsBack == TdbSpec => []TdbRoundTrip
<1>1. ASSUME TdbInv PROVE TdbRoundTrip
  <2> SUFFICES ASSUME NEW n \in TdbNames, arrays[n] # NoArray,
                      written[n].h < MaxUchar * MaxUchar, written[n].w < MaxUchar * MaxUchar
               PROVE  [h |-> ReadAll(NewImage(n)).h, w |-> ReadAll(NewImage(n)).w,
                       data |-> ReadAll(NewImage(n)).data] = written[n]
    BY Zenon DEF TdbRoundTrip
  <2>1. Holds(arrays[n], written[n])
    BY <1>1 DEF TdbInv
  <2>2. PICK a, i, o, s : a = arrays[n] /\ i = written[n] /\ o = NewImage(n) /\ s = written[n].data
    OBVIOUS
  <2>3. PICK h \in Nat \ {0}, w \in Nat \ {0} : h = i.h /\ w = i.w /\ s = i.data
    BY <2>1, <2>2 DEF Holds, IsTdbImage
  <2>4. i = [h |-> h, w |-> w, data |-> s] /\ IsUpper(a.upper) /\ Covers(a.upper, h, w)
        /\ a = Stored2D(h, w, a.upper, s)
    BY <2>1, <2>2, <2>3, Zenon DEF Holds
  <2>5. a.h = h /\ a.w = w
    <3>1. LowByte(h) = h /\ LowByte(w) = w
      BY <2>2, <2>3, LowByteFacts
    <3>2. a.h = LowByte(h) /\ a.w = LowByte(w)
      BY <2>4 DEF Stored2D
    <3> QED
      BY <3>1, <3>2
  <2>6. o.name = n /\ o.data = NoData /\ o.h = 0 /\ Exists(o)
        /\ o = [name |-> n, data |-> NoData, h |-> 0, w |-> 0, upper |-> <<>>, tile |-> <<>>]
    BY <2>2 DEF NewImage, Exists
  <2>7. PICK u : u = Upper(a.h, a.w)
    OBVIOUS
  <2>8. Sized(o) = [o EXCEPT !.h = h, !.w = w, !.upper = u]
    BY <2>2, <2>5, <2>6, <2>7, Zenon DEF Sized
  <2>9. PICK z : z = Sized(o)
    OBVIOUS
  <2>10. z = [name |-> n, data |-> NoData, h |-> h, w |-> w, upper |-> u, tile |-> <<>>]
    <3>1. PICK e, d : e = <<>> /\ d = NoData
      OBVIOUS
    <3>2. o = [name |-> n, data |-> d, h |-> 0, w |-> 0, upper |-> e, tile |-> e]
      BY <2>6, <3>1, Zenon
    <3>3. z = [o EXCEPT !.h = h, !.w = w, !.upper = u]
      BY <2>8, <2>9, Zenon
    <3>4. z = [name |-> n, data |-> d, h |-> h, w |-> w, upper |-> u, tile |-> e]
      BY <3>2, <3>3
    <3> QED
      BY <3>1, <3>4, Zenon
  <2>11. InDomain(a, <<1, h>>, <<0, w - 1>>)
    <3>1. a.upper[1] \in Nat \ {0} /\ a.upper[2] \in Nat \ {0} /\ a.upper[1] >= h /\ a.upper[2] >= w
      BY <2>4 DEF IsUpper, Covers
    <3>2. PICK x \in Nat, y \in Nat : x = Grown(a.upper[1]) /\ y = Grown(a.upper[2])
                                      /\ x >= a.upper[1] /\ y >= a.upper[2]
      BY <3>1, GrownFacts
    <3>3. h <= x /\ w - 1 <= y
      BY <3>1, <3>2
    <3> QED
      BY <3>2, <3>3 DEF InDomain
  <2>12. ReadAll(o) = [z EXCEPT !.data = Pixels(a, z.h, z.w), !.tile = a.tile]
    <3>1. z.h = h /\ z.w = w /\ h > 0 /\ w > 0
      BY <2>10
    <3>2. InDomain(a, <<1, z.h>>, <<0, z.w - 1>>)
      BY <2>11, <3>1
    <3> QED
      BY <2>2, <2>6, <2>9, <3>1, <3>2, Zenon DEF ReadAll
  <2>13. Pixels(a, z.h, z.w) = s
    <3>1. z.h = h /\ z.w = w
      BY <2>10
    <3> QED
      BY <2>1, <2>2, <2>3, <3>1, ReadsBack
  <2>14. PICK r : r = ReadAll(o)
    OBVIOUS
  <2>15. r = [z EXCEPT !.data = s, !.tile = a.tile]
    BY <2>12, <2>13, <2>14, Zenon
  <2>16. r.h = h /\ r.w = w /\ r.data = s
    BY <2>10, <2>15
  <2> QED
    BY <2>2, <2>4, <2>14, <2>16, Zenon
<1> QED
  BY <1>1, TdbStart, TdbStep, PTL DEF TdbSpec

\* a part of what a side is divided into: which tile, and where in it
InTile(i, size, tile) ==
  /\ TileSide(i, size, tile) \in 1..tile
  /\ i \div tile \in Nat /\ i % tile \in 0..(TileSide(i, size, tile) - 1)
  /\ (i \div tile) * tile + TileSide(i, size, tile) <= size
  /\ ((i \div tile) + 1) * TileSide(i, size, tile) <= size

LEMMA TileSideFacts ==
  ASSUME NEW size \in Nat \ {0}, NEW tile \in Nat \ {0}, NEW i \in 0..(size - 1)
  PROVE  InTile(i, size, tile)
<1>1. PICK q \in Nat, r \in 0..(tile - 1) : q = i \div tile /\ r = i % tile /\ i = tile * q + r
  <2>1. /\ i \div tile \in Nat /\ i % tile \in 0..(tile - 1)
        /\ i = tile * (i \div tile) + (i % tile)
    BY DivFacts
  <2> QED
    BY <2>1, Zenon
<1>2. PICK p \in Nat, s \in 0..(tile - 1) : p = size \div tile /\ s = size % tile /\ size = tile * p + s
  <2>1. /\ size \div tile \in Nat /\ size % tile \in 0..(tile - 1)
        /\ size = tile * (size \div tile) + (size % tile)
    BY DivFacts
  <2> QED
    BY <2>1, Zenon
<1>3. q <= p
  <2> SUFFICES ASSUME p + 1 <= q
               PROVE  FALSE
    BY <1>1, <1>2
  <2>1. (p + 1) * tile <= q * tile
    BY <1>1, <1>2, TimesMonotone
  <2>2. (p + 1) * tile = tile * p + tile /\ q * tile = tile * q
    BY <1>1, <1>2
  <2> QED
    BY <1>1, <1>2, <2>1, <2>2
<1>4. PICK d : d = TileSide(i, size, tile)
  OBVIOUS
<1>5. d = IF q = p THEN size - p * tile ELSE tile
  BY <1>1, <1>2, <1>4, Zenon DEF TileSide
<1>6. CASE q = p
  <2>1. d = s /\ r < s /\ p * tile = tile * p
    BY <1>1, <1>2, <1>5, <1>6
  <2>2. d \in 1..tile /\ r \in 0..(d - 1)
    BY <1>1, <1>2, <2>1
  <2>3. q * tile + d <= size
    BY <1>2, <1>6, <2>1
  <2>4. (q + 1) * d <= size
    <3>1. (q + 1) * d = q * d + d
      BY <1>1, <2>2
    <3>2. q * d <= q * tile /\ q * d \in Nat /\ q * tile \in Nat
      BY <1>1, <2>2, TimesMonotone
    <3> QED
      BY <2>2, <2>3, <3>1, <3>2
  <2> QED
    BY <1>1, <1>4, <2>2, <2>3, <2>4 DEF InTile
<1>7. CASE q < p
  <2>1. d = tile
    BY <1>1, <1>2, <1>5, <1>7
  <2>2. d \in 1..tile /\ r \in 0..(d - 1)
    BY <1>1, <2>1
  <2>3. (q + 1) * tile <= p * tile /\ p * tile = tile * p /\ p * tile \in Nat /\ (q + 1) * tile \in Nat
    BY <1>1, <1>2, <1>7, TimesMonotone
  <2>4. (q + 1) * tile <= size
    BY <1>2, <2>3
  <2>5. q * tile + tile = (q + 1) * tile
    BY <1>1
  <2> QED
    BY <1>1, <1>4, <2>1, <2>2, <2>4, <2>5 DEF InTile
<1> QED
  BY <1>1, <1>2, <1>3, <1>6, <1>7

LEMMA OneMore ==
  ASSUME NEW a \in Nat, NEW b \in Nat
  PROVE  (a + 1) * b = a * b + b
OBVIOUS

LEMMA TileParts ==
  ASSUME NEW size \in Nat \ {0}, NEW tile \in Nat \ {0}, NEW i \in 0..(size - 1)
  PROVE  \E d \in Nat, q \in Nat, x \in Nat :
           /\ d = TileSide(i, size, tile) /\ q = i \div tile /\ x = i % tile
           /\ d \in 1..tile /\ x <= d - 1 /\ q * tile + d <= size /\ (q + 1) * d <= size
<1>1. PICK d, q, x : d = TileSide(i, size, tile) /\ q = i \div tile /\ x = i % tile
  OBVIOUS
<1>2. InTile(i, size, tile)
  BY TileSideFacts
<1>3. d \in 1..tile /\ q \in Nat /\ x \in 0..(d - 1) /\ q * tile + d <= size /\ (q + 1) * d <= size
  BY <1>1, <1>2, Zenon DEF InTile
<1>4. d \in Nat /\ x \in Nat /\ x <= d - 1
  BY <1>3
<1> QED
  BY <1>1, <1>3, <1>4, Zenon

\* the position of a pixel in the buffer of tiles
LEMMA IndexFacts ==
  ASSUME NEW o, NEW h \in Nat \ {0}, NEW w \in Nat \ {0}, o.h = h, o.w = w, AreTiles(o.tile),
         NEW row \in 0..(h - 1), NEW column \in 0..(w - 1)
  PROVE  Index(o, row, column) \in 0..(h * w - 1)
<1>1. PICK t \in Nat \ {0}, u \in Nat \ {0} : t = o.tile[1] /\ u = o.tile[2]
  BY DEF AreTiles
<1>2. PICK height \in Nat, r \in Nat, x \in Nat :
        /\ height = TileSide(row, h, t) /\ height \in 1..t
        /\ r = row \div t /\ x = row % t /\ x <= height - 1 /\ r * t + height <= h
  BY TileParts
<1>3. PICK width \in Nat, c \in Nat, y \in Nat :
        /\ width = TileSide(column, w, u) /\ width \in 1..u
        /\ c = column \div u /\ y = column % u /\ y <= width - 1 /\ (c + 1) * width <= w
  BY TileParts, ZenonT(60)
<1>4. Index(o, row, column) = r * w * t + x * width + c * width * height + y
  BY <1>1, <1>2, <1>3, Zenon DEF Index
<1>5. PICK a \in Nat, b \in Nat, d \in Nat : a = r * w * t /\ b = x * width /\ d = c * width * height
  BY <1>2, <1>3, SizeFacts
<1>6. b <= height * width - width /\ height * width \in Nat
  <2>1. x * width <= (height - 1) * width
    <3>1. height - 1 \in Nat
      BY <1>2
    <3> QED
      BY <1>2, <1>3, <3>1, TimesMonotone
  <2>2. (height - 1) * width = height * width - width
    BY <1>2, <1>3
  <2> QED
    BY <1>2, <1>3, <1>5, <2>1, <2>2
<1>7. d + height * width <= height * w
  <2>1. d + height * width = ((c + 1) * width) * height
    <3>1. PICK v \in Nat : v = c * width
      BY <1>3, SizeFacts
    <3>2. (c + 1) * width = v + width
      <4>1. (c + 1) * width = c * width + width
        BY <1>3, OneMore
      <4> QED
        BY <3>1, <4>1
    <3>3. (v + width) * height = v * height + width * height
      BY <1>2, <1>3, <3>1
    <3>4. d = v * height
      BY <1>5, <3>1
    <3>5. width * height = height * width
      BY <1>2, <1>3
    <3> QED
      BY <3>2, <3>3, <3>4, <3>5
  <2>2. PICK k \in Nat : k = (c + 1) * width
    BY <1>3
  <2>3. k * height <= w * height
    BY <1>2, <1>3, <2>2, TimesMonotone
  <2>4. w * height = height * w
    BY <1>2
  <2> QED
    BY <2>1, <2>2, <2>3, <2>4
<1>8. a + height * w <= h * w
  <2>1. a + height * w = (r * t + height) * w
    BY <1>2, <1>5
  <2>2. PICK k \in Nat : k = r * t + height
    BY <1>2
  <2>3. k * w <= h * w
    BY <1>2, <2>2, TimesMonotone
  <2> QED
    BY <2>1, <2>2, <2>3
<1>9. PICK p \in Nat, q \in Nat, m \in Nat : p = height * width /\ q = height * w /\ m = h * w
  BY <1>2, <1>3, SizeFacts
<1>10. a + b + d + y \in 0..(m - 1)
  BY <1>3, <1>6, <1>7, <1>8, <1>9
<1> QED
  BY <1>4, <1>5, <1>9, <1>10

LEMMA AroundFacts ==
  ASSUME NEW i \in Nat, NEW old \in Nat \ {0}, NEW new \in Nat \ {0}
  PROVE  Around(i, old, new) \subseteq 0..(old - 1)
<1>1. \A x \in Int : Clamped(x, old) \in 0..(old - 1)
  BY DEF Clamped
<1>2. PICK a \in Int, b \in Nat \ {0} : a = (2 * i + 1) * old - new /\ b = 2 * new
  <2>1. (2 * i + 1) * old \in Int
    OBVIOUS
  <2>2. (2 * i + 1) * old - new \in Int /\ 2 * new \in Nat \ {0}
    BY <2>1
  <2> QED
    BY <2>2
<1>3. PICK low \in Int : low = a \div b
  OBVIOUS
<1>4. Around(i, old, new) = {Clamped(low, old), Clamped(low + 1, old)}
  BY <1>2, <1>3, Zenon DEF Around
<1>5. Clamped(low, old) \in 0..(old - 1) /\ Clamped(low + 1, old) \in 0..(old - 1)
  BY <1>1
<1> QED
  BY <1>4, <1>5

\* For images and tiles of any size, an image in memory has the pixels its size says, and a
\* resize to any size reads only these (TDBImage.cc, where the neighbours of a pixel are found
\* by tile, although the tiles need not fit an image that was cropped).
THEOREM ResizeReadsItsImage == TdbSpec => []ResizeInBounds
<1>1. ASSUME TdbInv PROVE ResizeInBounds
  <2> SUFFICES ASSUME object # NoObject, object.data # NoData
               PROVE  /\ Len(object.data) = object.h * object.w
                      /\ \A h, w \in Dims : \A i \in Accessed(object, h, w) : i \in 0..(object.h * object.w - 1)
    BY Zenon DEF ResizeInBounds
  <2>1. IsObject(object)
    BY <1>1 DEF TdbInv
  <2>2. IsTdbImage(object.h, object.w, object.data) /\ AreTiles(object.tile)
    BY <2>1, ObjectUpper
  <2>3. PICK H \in Nat \ {0}, W \in Nat \ {0} : H = object.h /\ W = object.w
    BY <2>2 DEF IsTdbImage
  <2>4. ASSUME NEW h \in Dims, NEW w \in Dims, NEW i \in Accessed(object, h, w)
        PROVE  i \in 0..(H * W - 1)
    <3>1. h \in Nat \ {0} /\ w \in Nat \ {0}
      BY TdbAssumption DEF Dims
    <3>2. PICK x \in 0..(h - 1), y \in 0..(w - 1) :
            i \in {Index(object, r, c) : r \in Around(x, object.h, h), c \in Around(y, object.w, w)}
      BY DEF Accessed
    <3>3. PICK r \in Around(x, H, h), c \in Around(y, W, w) : i = Index(object, r, c)
      BY <2>3, <3>2
    <3>4. r \in 0..(H - 1) /\ c \in 0..(W - 1)
      <4>1. x \in Nat /\ y \in Nat
        BY <3>1
      <4>2. Around(x, H, h) \subseteq 0..(H - 1) /\ Around(y, W, w) \subseteq 0..(W - 1)
        BY <3>1, <4>1, AroundFacts
      <4> QED
        BY <4>2
    <3>5. Index(object, r, c) \in 0..(H * W - 1)
      BY <2>2, <2>3, <3>4, IndexFacts
    <3> QED
      BY <3>3, <3>5
  <2> QED
    BY <2>2, <2>3, <2>4 DEF IsTdbImage
<1> QED
  BY <1>1, TdbStart, TdbStep, PTL DEF TdbSpec
=============================================================================
