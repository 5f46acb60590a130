--------------------------- MODULE QueryTx_proofs ---------------------------
(***************************************************************************)
(* Proofs about module QueryTx: for any number of workers, files, commands *)
(* and queries, an acknowledged node keeps its file, and an expiring one   *)
(* its entry in the expiration queue.                                      *)
(***************************************************************************)
EXTENDS QueryTx, TLAPS

USE FilesAssumption, BoundsAssumption DEF FilesAssumption, BoundsAssumption

-----------------------------------------------------------------------------
(* The files of a sequence of commands.                                    *)

LEMMA FilesOfEmpty == FilesOf(<<>>) = {}
  BY DEF FilesOf, Adds

(* Constructing one more command owns at most the file it names.           *)
LEMMA FilesOfAppend ==
  ASSUME NEW s \in Seq(Cmd), NEW c \in Cmd
  PROVE  FilesOf(Append(s, c)) =
           FilesOf(s) \cup (IF c.op = "add" THEN {c.file} ELSE {})
<1> DEFINE a == Append(s, c)
<1>1. /\ Len(s) \in Nat
      /\ DOMAIN s = 1..Len(s)
      /\ DOMAIN a = 1..(Len(s) + 1)
      /\ \A i \in 1..Len(s) : a[i] = s[i]
      /\ a[Len(s) + 1] = c
  OBVIOUS
<1>2. c.op = "add" => c.file \in Files
  BY DEF Cmd
<1>3. Adds(a, Files) = Adds(s, Files) \cup (IF c.op = "add" THEN {Len(s) + 1} ELSE {})
  BY <1>1, <1>2 DEF Adds
<1>4. \A i \in Adds(s, Files) : a[i] = s[i]
  BY <1>1 DEF Adds
<1>5. CASE c.op = "add"
  <2>1. FilesOf(a) = {a[i].file : i \in Adds(a, Files)}
    BY DEF FilesOf
  <2>2. Adds(a, Files) = Adds(s, Files) \cup {Len(s) + 1}
    BY <1>3, <1>5
  <2>3. FilesOf(a) = {a[i].file : i \in Adds(s, Files)} \cup {a[Len(s) + 1].file}
    BY <2>1, <2>2
  <2>4. {a[i].file : i \in Adds(s, Files)} = {s[i].file : i \in Adds(s, Files)}
    BY <1>4
  <2> QED
    BY <1>1, <1>5, <2>3, <2>4 DEF FilesOf
<1>6. CASE c.op # "add"
  BY <1>3, <1>4, <1>6 DEF FilesOf
<1> QED
  BY <1>5, <1>6

(* cleanup_query deletes no file but those its own query wrote.            *)
LEMMA CleanedOwn ==
  ASSUME NEW s
  PROVE  Cleaned(s) \subseteq FilesOf(s)
<1>1. ASSUME NEW j PROVE Pushed(s, AllImages, j) \subseteq FilesOf(s)
  BY DEF Pushed, Adds, FilesOf, AllImages, Files, Media
<1> QED
  BY <1>1 DEF Cleaned

-----------------------------------------------------------------------------
(* Types.                                                                  *)

LEMMA EndTypes ==
  ASSUME TypeOK, NEW w \in Workers, EndQuery(w)
  PROVE  /\ pc' \in [Workers -> WorkerPC]
         /\ cmds' \in [Workers -> Seq(Cmd)]
         /\ ip' \in [Workers -> Nat]
         /\ added' \in [Workers -> SUBSET Files]
         /\ removed' \in [Workers -> SUBSET Files]
<1>1. <<>> \in Seq(Cmd)
  OBVIOUS
<1> QED
  BY <1>1 DEF TypeOK, EndQuery, WorkerPC

LEMMA RestartTypes ==
  ASSUME TypeOK, Restart
  PROVE  /\ queue' \in SUBSET Files
         /\ cleanup' \in SUBSET Files
         /\ pc' \in [Workers -> WorkerPC]
         /\ cmds' \in [Workers -> Seq(Cmd)]
         /\ ip' \in [Workers -> Nat]
         /\ added' \in [Workers -> SUBSET Files]
         /\ removed' \in [Workers -> SUBSET Files]
         /\ crashes' \in Nat
<1>1. <<>> \in Seq(Cmd)
  OBVIOUS
<1> QED
  BY <1>1 DEF TypeOK, Restart, Requeued, WorkerPC

LEMMA UpdateTypes ==
  ASSUME TypeOK, NEW w, NEW new \in SUBSET Files, UpdateQueue(w, new)
  PROVE  queue' \in SUBSET Files /\ raced' \in SUBSET Files
  BY DEF TypeOK, UpdateQueue

LEMMA AddOwned ==
  ASSUME TypeOK, NEW w \in Workers, Running(w, "add")
  PROVE  cmds[w][ip[w]].file \in Owned(w) /\ Owned(w) \subseteq Files
<1>1. cmds[w] \in Seq(Cmd)
  BY DEF TypeOK
<1>2. \A i \in DOMAIN cmds[w] : cmds[w][i] \in Cmd
  BY <1>1
<1>3. ip[w] \in Adds(cmds[w], Files)
  BY <1>2 DEF Running, Adds, Cmd
<1> QED
  BY <1>3 DEF Owned, FilesOf, Adds

LEMMA InitTypes == Init => TypeOK
<1> SUFFICES ASSUME Init PROVE TypeOK
  OBVIOUS
<1>1. <<>> \in Seq(Cmd)
  OBVIOUS
<1> QED
  BY <1>1 DEF Init, TypeOK, WorkerPC

LEMMA CmdsTyped ==
  /\ \A f \in Files : AddCmd(f) \in Cmd /\ AddCmd(f).op = "add" /\ AddCmd(f).file = f
  /\ \A b \in BOOLEAN : FindCmd(b) \in Cmd /\ FindCmd(b).op # "add"
  /\ ExpireCmd \in Cmd /\ ExpireCmd.op # "add"
  BY DEF AddCmd, FindCmd, ExpireCmd, Cmd

LEMMA TypeStep == TypeOK /\ [Next]_vars => TypeOK'
<1> SUFFICES ASSUME TypeOK, [Next]_vars PROVE TypeOK'
  OBVIOUS
<1> USE DEF shared, bounds, history
<1>1. ASSUME NEW w \in Workers, StartQuery(w) PROVE TypeOK'
  BY <1>1 DEF TypeOK, WorkerPC, StartQuery
<1>2. ASSUME NEW w \in Workers, ConstructAdd(w) PROVE TypeOK'
  BY <1>2, CmdsTyped DEF TypeOK, WorkerPC, ConstructAdd
<1>3. ASSUME NEW w \in Workers, ConstructOther(w) PROVE TypeOK'
  <2>1. PICK c \in Cmd : cmds' = [cmds EXCEPT ![w] = Append(@, c)]
    BY <1>3, CmdsTyped DEF ConstructOther
  <2>2. cmds' \in [Workers -> Seq(Cmd)]
    BY <2>1 DEF TypeOK
  <2> QED
    BY <1>3, <2>2 DEF TypeOK, ConstructOther
<1>4. ASSUME NEW w \in Workers, ConstructError(w) PROVE TypeOK'
  BY <1>4, EndTypes DEF TypeOK, WorkerPC, ConstructError
<1>5. ASSUME NEW w \in Workers, StoreVCLException(w) PROVE TypeOK'
  BY <1>5, EndTypes DEF TypeOK, WorkerPC, StoreThrows, StoreVCLException
<1>6. ASSUME NEW w \in Workers, StoreVCLTerminates(w) PROVE TypeOK'
  BY <1>6, RestartTypes DEF TypeOK, WorkerPC, StoreThrows, Restart, StoreVCLTerminates
<1>7. ASSUME NEW w \in Workers, ConstructException(w) PROVE TypeOK'
  BY <1>7, EndTypes DEF TypeOK, WorkerPC, ConstructException
<1>8. ASSUME NEW w \in Workers, RunTx(w) PROVE TypeOK'
  BY <1>8 DEF TypeOK, WorkerPC, RunTx
<1>9. ASSUME NEW w \in Workers, ExecAdd(w) PROVE TypeOK'
  <2> DEFINE f == cmds[w][ip[w]].file
             new == IF f \in Expiring THEN queue \cup {f} ELSE queue
  <2>1. f \in Files
    BY <1>9, AddOwned DEF ExecAdd
  <2>2. new \in SUBSET Files /\ UpdateQueue(w, new)
    BY <1>9, <2>1 DEF ExecAdd, TypeOK
  <2>3. queue' \in SUBSET Files /\ raced' \in SUBSET Files
    BY <2>2, UpdateTypes
  <2> QED
    BY <1>9, <2>1, <2>3 DEF ExecAdd, TypeOK
<1>10. ASSUME NEW w \in Workers, ExecAddExists(w) PROVE TypeOK'
  BY <1>10 DEF TypeOK, WorkerPC, ExecAddExists
<1>11. ASSUME NEW w \in Workers, ExecFind(w) PROVE TypeOK'
  <2>1. queue' \in SUBSET Files /\ raced' \in SUBSET Files
    <3>1. \A new \in SUBSET queue : UpdateQueue(w, new) => queue' \in SUBSET Files /\ raced' \in SUBSET Files
      BY UpdateTypes DEF TypeOK
    <3> QED
      BY <1>11, <3>1 DEF ExecFind
  <2> QED
    BY <1>11, <2>1 DEF ExecFind, TypeOK, Visible, Unlinked
<1>12. ASSUME NEW w \in Workers, ExpireOne(w) PROVE TypeOK'
  <2>1. queue' \in SUBSET Files /\ raced' \in SUBSET Files
    <3>1. \A new \in SUBSET queue : UpdateQueue(w, new) => queue' \in SUBSET Files /\ raced' \in SUBSET Files
      BY UpdateTypes DEF TypeOK
    <3> QED
      BY <1>12, <3>1 DEF ExpireOne
  <2> QED
    BY <1>12, <2>1 DEF ExpireOne, TypeOK, Visible, Unlinked
<1>13. ASSUME NEW w \in Workers, ExpireThrows(w) PROVE TypeOK'
  BY <1>13 DEF TypeOK, WorkerPC, Unlinked, ExpireThrows
<1>14. ASSUME NEW w \in Workers, ExpireStray(w) PROVE TypeOK'
  <2>1. queue' \in SUBSET Files /\ raced' \in SUBSET Files
    <3>1. \A new \in SUBSET queue : UpdateQueue(w, new) => queue' \in SUBSET Files /\ raced' \in SUBSET Files
      BY UpdateTypes DEF TypeOK
    <3> QED
      BY <1>14, <3>1 DEF ExpireStray
  <2> QED
    BY <1>14, <2>1 DEF ExpireStray, TypeOK, Visible, Unlinked
<1>15. ASSUME NEW w \in Workers, ExpireDone(w) PROVE TypeOK'
  BY <1>15 DEF TypeOK, WorkerPC, ExpireDone
<1>16. ASSUME NEW w \in Workers, TxFail(w) PROVE TypeOK'
  BY <1>16 DEF TypeOK, WorkerPC, TxFail
<1>17. ASSUME NEW w \in Workers, Abort(w) PROVE TypeOK'
  BY <1>17, EndTypes DEF TypeOK, WorkerPC, Abort
<1>18. ASSUME NEW w \in Workers, TxCommit(w) PROVE TypeOK'
  BY <1>18 DEF TypeOK, WorkerPC, TxCommit
<1>19. ASSUME NEW w \in Workers, RespondSuccess(w) PROVE TypeOK'
  BY <1>19, EndTypes DEF TypeOK, WorkerPC, RespondSuccess
<1>20. ASSUME NEW w \in Workers, RespondVCLException(w) PROVE TypeOK'
  BY <1>20, EndTypes DEF TypeOK, WorkerPC, RespondThrows, RespondVCLException
<1>21. ASSUME NEW w \in Workers, RespondVCLTerminates(w) PROVE TypeOK'
  BY <1>21, RestartTypes DEF TypeOK, WorkerPC, RespondThrows, Restart, RespondVCLTerminates
<1>22. ASSUME NEW w \in Workers, RespondException(w) PROVE TypeOK'
  BY <1>22, EndTypes DEF TypeOK, WorkerPC, RespondThrows, RespondException
<1>23. CASE Crash
  BY <1>23, RestartTypes DEF TypeOK, Crash
<1>24. CASE UNCHANGED vars
  BY <1>24 DEF TypeOK, vars
<1> QED
  BY <1>1, <1>2, <1>3, <1>4, <1>5, <1>6, <1>7, <1>8, <1>9, <1>10, <1>11, <1>12, <1>13, <1>14, <1>15, <1>16, <1>17, <1>18, <1>19, <1>20, <1>21, <1>22, <1>23, <1>24 DEF Next, Construct, Transact, Respond

-----------------------------------------------------------------------------
(* Durability of acknowledged nodes.                                       *)

(***************************************************************************)
(* The inductive invariant.  A file belongs to the query that wrote it,    *)
(* from its creation to the answer, and to no other (OwnInv); whatever is  *)
(* removed or named for cleanup was doomed before (DoomInv); and until its *)
(* answer a query's files stay, and from its commit its nodes (KeepInv).   *)
(***************************************************************************)
Doomed == requested \cup strayed

OwnInv ==
  /\ acked \subseteq created
  /\ \A w \in Workers :
       /\ Owned(w) \subseteq created
       /\ Owned(w) \cap acked = {}
       /\ added[w] \subseteq Owned(w)
       /\ \A v \in Workers \ {w} : Owned(w) \cap Owned(v) = {}

DoomInv ==
  /\ cleanup \subseteq Doomed
  /\ \A w \in Workers : removed[w] \subseteq Doomed

KeepInv ==
  \A w \in Workers :
    /\ Owned(w) \subseteq disk \cup Doomed
    /\ pc[w] = "respond" => added[w] \subseteq graph \cup Doomed

Kept == OwnInv /\ DoomInv /\ KeepInv /\ AckedDurable

IInv == TypeOK /\ Kept

LEMMA EndOwned ==
  ASSUME TypeOK, NEW w \in Workers, EndQuery(w)
  PROVE  \A v \in Workers :
           /\ Owned(v)' = IF v = w THEN {} ELSE Owned(v)
           /\ added'[v] = IF v = w THEN {} ELSE added[v]
           /\ removed'[v] = IF v = w THEN {} ELSE removed[v]
           /\ pc'[v] = IF v = w THEN "idle" ELSE pc[v]
  BY FilesOfEmpty DEF TypeOK, EndQuery, Owned

LEMMA RestartOwned ==
  ASSUME TypeOK, Restart
  PROVE  \A v \in Workers :
           Owned(v)' = {} /\ added'[v] = {} /\ removed'[v] = {} /\ pc'[v] = "idle"
  BY FilesOfEmpty DEF TypeOK, Restart, Owned

LEMMA ConstructOwned ==
  ASSUME TypeOK, NEW w \in Workers, NEW c \in Cmd,
         cmds' = [cmds EXCEPT ![w] = Append(@, c)]
  PROVE  \A v \in Workers :
           Owned(v)' = IF v = w
                       THEN Owned(w) \cup (IF c.op = "add" THEN {c.file} ELSE {})
                       ELSE Owned(v)
  BY FilesOfAppend DEF TypeOK, Owned

LEMMA SameOwned ==
  ASSUME UNCHANGED cmds
  PROVE  \A v : Owned(v)' = Owned(v)
  BY DEF Owned

LEMMA InitIInv == Init => IInv
<1> SUFFICES ASSUME Init PROVE IInv
  OBVIOUS
<1>1. TypeOK
  BY InitTypes
<1>2. \A w \in Workers : Owned(w) = {} /\ added[w] = {} /\ removed[w] = {}
  BY FilesOfEmpty DEF Init, Owned
<1> QED
  BY <1>1, <1>2 DEF Init, IInv, Kept, OwnInv, DoomInv, KeepInv, AckedDurable, Doomed

-----------------------------------------------------------------------------
(* Three kinds of steps preserve the invariant: those that stay inside the *)
(* query's commands, those that end one query, and those that end them all.*)

LEMMA StayKeeps ==
  ASSUME IInv, UNCHANGED <<cmds, acked, created>>,
         Doomed \subseteq Doomed',
         disk \subseteq disk' \cup Doomed',
         graph \subseteq graph' \cup Doomed',
         cleanup' \subseteq Doomed',
         \A v \in Workers :
           /\ added'[v] \subseteq Owned(v)
           /\ removed'[v] \subseteq Doomed'
           /\ pc'[v] = "respond" => added'[v] \subseteq graph' \cup Doomed'
  PROVE  Kept'
<1>1. OwnInv'
  BY SameOwned DEF IInv, Kept, OwnInv
<1>2. DoomInv'
  BY DEF DoomInv
<1>3. KeepInv'
  BY SameOwned DEF IInv, Kept, KeepInv
<1>4. AckedDurable'
  BY DEF IInv, Kept, AckedDurable, Doomed
<1> QED
  BY <1>1, <1>2, <1>3, <1>4 DEF Kept

LEMMA EndKeeps ==
  ASSUME IInv, NEW w \in Workers, EndQuery(w),
         UNCHANGED <<acked, requested, strayed, cleanup, graph>>,
         created \subseteq created',
         disk \ Owned(w) \subseteq disk'
  PROVE  Kept'
<1>1. OwnInv'
  BY EndOwned DEF IInv, Kept, OwnInv
<1>2. DoomInv'
  BY EndOwned DEF IInv, Kept, DoomInv, Doomed
<1>3. KeepInv'
  BY EndOwned DEF IInv, Kept, OwnInv, KeepInv, Doomed
<1>4. AckedDurable'
  BY DEF IInv, Kept, OwnInv, AckedDurable
<1> QED
  BY <1>1, <1>2, <1>3, <1>4 DEF Kept

LEMMA RestartKeeps ==
  ASSUME IInv, Restart,
         UNCHANGED <<acked, requested, strayed, graph>>,
         created \subseteq created',
         disk \cap acked \subseteq disk'
  PROVE  Kept'
<1>1. OwnInv'
  BY RestartOwned DEF IInv, Kept, OwnInv
<1>2. DoomInv'
  BY RestartOwned DEF IInv, DoomInv, Restart
<1>3. KeepInv'
  BY RestartOwned DEF IInv, KeepInv
<1>4. AckedDurable'
  BY DEF IInv, Kept, AckedDurable
<1> QED
  BY <1>1, <1>2, <1>3, <1>4 DEF Kept

(* What the invariant gives a step that stays.                             *)
LEMMA Before ==
  ASSUME IInv
  PROVE  /\ cleanup \subseteq Doomed
         /\ Doomed = requested \cup strayed
         /\ \A v \in Workers :
              /\ added[v] \subseteq Owned(v)
              /\ removed[v] \subseteq Doomed
              /\ pc[v] = "respond" => added[v] \subseteq graph \cup Doomed
  BY DEF IInv, Kept, OwnInv, DoomInv, KeepInv, Doomed

LEMMA CleanedOwned ==
  ASSUME NEW w \in Workers
  PROVE  Cleaned(cmds[w]) \subseteq Owned(w)
  BY CleanedOwn DEF Owned

LEMMA IInvStep == IInv /\ [Next]_vars => IInv'
<1> SUFFICES ASSUME IInv, [Next]_vars PROVE IInv'
  OBVIOUS
<1>0. TypeOK /\ TypeOK'
  BY TypeStep DEF IInv
<1> USE <1>0 DEF shared, bounds, history
<1>1. ASSUME NEW w \in Workers, StartQuery(w) PROVE Kept'
  <2>1. /\ UNCHANGED <<cmds, acked, created>>
        /\ Doomed \subseteq Doomed'
        /\ disk \subseteq disk' \cup Doomed'
        /\ cleanup' \subseteq Doomed'
    BY <1>1, Before DEF StartQuery, Doomed
  <2>2. graph \subseteq graph' \cup Doomed'
    BY <1>1, Before DEF StartQuery, Doomed
  <2>3. \A v \in Workers :
          /\ added'[v] \subseteq Owned(v)
          /\ removed'[v] \subseteq Doomed'
          /\ pc'[v] = "respond" => added'[v] \subseteq graph' \cup Doomed'
    BY <1>1, Before DEF StartQuery, TypeOK, Doomed
  <2> QED
    BY <2>1, <2>2, <2>3, StayKeeps
<1>2. ASSUME NEW w \in Workers, ConstructAdd(w) PROVE Kept'
  <2>1. PICK f \in Files \ created :
          /\ created' = created \cup {f}
          /\ disk' = disk \cup {f}
          /\ cmds' = [cmds EXCEPT ![w] = Append(@, AddCmd(f))]
    BY <1>2 DEF ConstructAdd
  <2>2. AddCmd(f) \in Cmd /\ AddCmd(f).op = "add" /\ AddCmd(f).file = f
    BY CmdsTyped
  <2>3. \A v \in Workers : Owned(v)' = IF v = w THEN Owned(w) \cup {f} ELSE Owned(v)
    BY <2>1, <2>2, ConstructOwned
  <2>4. UNCHANGED <<acked, requested, strayed, graph, cleanup, added, removed, pc>>
    BY <1>2 DEF ConstructAdd
  <2>5. OwnInv'
    BY <2>1, <2>3, <2>4 DEF IInv, Kept, OwnInv
  <2>6. DoomInv' /\ AckedDurable'
    BY <2>1, <2>4 DEF IInv, Kept, DoomInv, Doomed, AckedDurable
  <2>7. KeepInv'
    BY <2>1, <2>3, <2>4 DEF IInv, Kept, KeepInv, Doomed
  <2> QED
    BY <2>5, <2>6, <2>7 DEF Kept
<1>3. ASSUME NEW w \in Workers, ConstructOther(w) PROVE Kept'
  <2>1. PICK c \in Cmd : c.op # "add" /\ cmds' = [cmds EXCEPT ![w] = Append(@, c)]
    BY <1>3, CmdsTyped DEF ConstructOther
  <2>2. \A v \in Workers : Owned(v)' = Owned(v)
    BY <2>1, ConstructOwned, ZenonT(60)
  <2>3. UNCHANGED <<acked, requested, strayed, graph, disk, created, cleanup, added, removed, pc>>
    BY <1>3 DEF ConstructOther
  <2> QED
    BY <2>2, <2>3 DEF IInv, Kept, OwnInv, DoomInv, KeepInv, AckedDurable, Doomed
<1>4. ASSUME NEW w \in Workers, ConstructError(w) PROVE Kept'
  BY <1>4, EndKeeps, CleanedOwned DEF ConstructError
<1>5. ASSUME NEW w \in Workers, StoreVCLException(w) PROVE Kept'
  BY <1>5, EndKeeps, CleanedOwned DEF StoreVCLException, StoreThrows
<1>6. ASSUME NEW w \in Workers, StoreVCLTerminates(w) PROVE Kept'
  <2>1. disk \cap acked \subseteq disk'
    BY <1>6, CleanedOwned DEF StoreVCLTerminates, StoreThrows, IInv, Kept, OwnInv
  <2> QED
    BY <1>6, <2>1, RestartKeeps DEF StoreVCLTerminates, StoreThrows
<1>7. ASSUME NEW w \in Workers, ConstructException(w) PROVE Kept'
  BY <1>7, EndKeeps, CleanedOwned DEF ConstructException
<1>8. ASSUME NEW w \in Workers, RunTx(w) PROVE Kept'
  <2>1. /\ UNCHANGED <<cmds, acked, created>>
        /\ Doomed \subseteq Doomed'
        /\ disk \subseteq disk' \cup Doomed'
        /\ cleanup' \subseteq Doomed'
    BY <1>8, Before DEF RunTx, Doomed
  <2>2. graph \subseteq graph' \cup Doomed'
    BY <1>8, Before DEF RunTx, Doomed
  <2>3. \A v \in Workers :
          /\ added'[v] \subseteq Owned(v)
          /\ removed'[v] \subseteq Doomed'
          /\ pc'[v] = "respond" => added'[v] \subseteq graph' \cup Doomed'
    BY <1>8, Before DEF RunTx, TypeOK, Doomed
  <2> QED
    BY <2>1, <2>2, <2>3, StayKeeps
<1>9. ASSUME NEW w \in Workers, ExecAdd(w) PROVE Kept'
  <2>0. cmds[w][ip[w]].file \in Owned(w)
    BY <1>9, AddOwned DEF ExecAdd
  <2>1. /\ UNCHANGED <<cmds, acked, created>>
        /\ Doomed \subseteq Doomed'
        /\ disk \subseteq disk' \cup Doomed'
        /\ cleanup' \subseteq Doomed'
    BY <1>9, Before DEF ExecAdd, Doomed
  <2>2. graph \subseteq graph' \cup Doomed'
    BY <1>9, Before DEF ExecAdd, Doomed
  <2>3. \A v \in Workers :
          /\ added'[v] \subseteq Owned(v)
          /\ removed'[v] \subseteq Doomed'
          /\ pc'[v] = "respond" => added'[v] \subseteq graph' \cup Doomed'
    BY <1>9, <2>0, Before DEF ExecAdd, TypeOK, Doomed
  <2> QED
    BY <2>1, <2>2, <2>3, StayKeeps
<1>10. ASSUME NEW w \in Workers, ExecAddExists(w) PROVE Kept'
  <2>1. /\ UNCHANGED <<cmds, acked, created>>
        /\ Doomed \subseteq Doomed'
        /\ disk \subseteq disk' \cup Doomed'
        /\ cleanup' \subseteq Doomed'
    BY <1>10, Before DEF ExecAddExists, Doomed
  <2>2. graph \subseteq graph' \cup Doomed'
    BY <1>10, Before DEF ExecAddExists, Doomed
  <2>3. \A v \in Workers :
          /\ added'[v] \subseteq Owned(v)
          /\ removed'[v] \subseteq Doomed'
          /\ pc'[v] = "respond" => added'[v] \subseteq graph' \cup Doomed'
    BY <1>10, Before DEF ExecAddExists, TypeOK, Doomed
  <2> QED
    BY <2>1, <2>2, <2>3, StayKeeps
<1>11. ASSUME NEW w \in Workers, ExecFind(w) PROVE Kept'
  <2>1. /\ UNCHANGED <<cmds, acked, created>>
        /\ Doomed \subseteq Doomed'
        /\ disk \subseteq disk' \cup Doomed'
        /\ cleanup' \subseteq Doomed'
    BY <1>11, Before DEF ExecFind, Doomed
  <2>2. graph \subseteq graph' \cup Doomed'
    BY <1>11, Before DEF ExecFind, Doomed
  <2>3. \A v \in Workers :
          /\ added'[v] \subseteq Owned(v)
          /\ removed'[v] \subseteq Doomed'
          /\ pc'[v] = "respond" => added'[v] \subseteq graph' \cup Doomed'
    BY <1>11, Before DEF ExecFind, TypeOK, Doomed
  <2> QED
    BY <2>1, <2>2, <2>3, StayKeeps
<1>12. ASSUME NEW w \in Workers, ExpireOne(w) PROVE Kept'
  <2>1. /\ UNCHANGED <<cmds, acked, created>>
        /\ Doomed \subseteq Doomed'
        /\ disk \subseteq disk' \cup Doomed'
        /\ cleanup' \subseteq Doomed'
    BY <1>12, Before DEF ExpireOne, Unlinked, Doomed
  <2>2. graph \subseteq graph' \cup Doomed'
    BY <1>12, Before DEF ExpireOne, Doomed
  <2>3. \A v \in Workers :
          /\ added'[v] \subseteq Owned(v)
          /\ removed'[v] \subseteq Doomed'
          /\ pc'[v] = "respond" => added'[v] \subseteq graph' \cup Doomed'
    BY <1>12, Before DEF ExpireOne, TypeOK, Doomed
  <2> QED
    BY <2>1, <2>2, <2>3, StayKeeps
<1>13. ASSUME NEW w \in Workers, ExpireThrows(w) PROVE Kept'
  <2>1. /\ UNCHANGED <<cmds, acked, created>>
        /\ Doomed \subseteq Doomed'
        /\ disk \subseteq disk' \cup Doomed'
        /\ cleanup' \subseteq Doomed'
    BY <1>13, Before DEF ExpireThrows, Unlinked, Doomed
  <2>2. graph \subseteq graph' \cup Doomed'
    BY <1>13, Before DEF ExpireThrows, Doomed
  <2>3. \A v \in Workers :
          /\ added'[v] \subseteq Owned(v)
          /\ removed'[v] \subseteq Doomed'
          /\ pc'[v] = "respond" => added'[v] \subseteq graph' \cup Doomed'
    BY <1>13, Before DEF ExpireThrows, TypeOK, Doomed
  <2> QED
    BY <2>1, <2>2, <2>3, StayKeeps
<1>14. ASSUME NEW w \in Workers, ExpireStray(w) PROVE Kept'
  <2>1. /\ UNCHANGED <<cmds, acked, created>>
        /\ Doomed \subseteq Doomed'
        /\ disk \subseteq disk' \cup Doomed'
        /\ cleanup' \subseteq Doomed'
    BY <1>14, Before DEF ExpireStray, Unlinked, Doomed
  <2>2. graph \subseteq graph' \cup Doomed'
    BY <1>14, Before DEF ExpireStray, Doomed
  <2>3. \A v \in Workers :
          /\ added'[v] \subseteq Owned(v)
          /\ removed'[v] \subseteq Doomed'
          /\ pc'[v] = "respond" => added'[v] \subseteq graph' \cup Doomed'
    BY <1>14, Before DEF ExpireStray, TypeOK, Doomed
  <2> QED
    BY <2>1, <2>2, <2>3, StayKeeps
<1>15. ASSUME NEW w \in Workers, ExpireDone(w) PROVE Kept'
  <2>1. /\ UNCHANGED <<cmds, acked, created>>
        /\ Doomed \subseteq Doomed'
        /\ disk \subseteq disk' \cup Doomed'
        /\ cleanup' \subseteq Doomed'
    BY <1>15, Before DEF ExpireDone, Doomed
  <2>2. graph \subseteq graph' \cup Doomed'
    BY <1>15, Before DEF ExpireDone, Doomed
  <2>3. \A v \in Workers :
          /\ added'[v] \subseteq Owned(v)
          /\ removed'[v] \subseteq Doomed'
          /\ pc'[v] = "respond" => added'[v] \subseteq graph' \cup Doomed'
    BY <1>15, Before DEF ExpireDone, TypeOK, Doomed
  <2> QED
    BY <2>1, <2>2, <2>3, StayKeeps
<1>16. ASSUME NEW w \in Workers, TxFail(w) PROVE Kept'
  <2>1. /\ UNCHANGED <<cmds, acked, created>>
        /\ Doomed \subseteq Doomed'
        /\ disk \subseteq disk' \cup Doomed'
        /\ cleanup' \subseteq Doomed'
    BY <1>16, Before DEF TxFail, Doomed
  <2>2. graph \subseteq graph' \cup Doomed'
    BY <1>16, Before DEF TxFail, Doomed
  <2>3. \A v \in Workers :
          /\ added'[v] \subseteq Owned(v)
          /\ removed'[v] \subseteq Doomed'
          /\ pc'[v] = "respond" => added'[v] \subseteq graph' \cup Doomed'
    BY <1>16, Before DEF TxFail, TypeOK, Doomed
  <2> QED
    BY <2>1, <2>2, <2>3, StayKeeps
<1>17. ASSUME NEW w \in Workers, Abort(w) PROVE Kept'
  BY <1>17, EndKeeps, CleanedOwned DEF Abort
<1>18. ASSUME NEW w \in Workers, TxCommit(w) PROVE Kept'
  <2>1. /\ UNCHANGED <<cmds, acked, created>>
        /\ Doomed \subseteq Doomed'
        /\ disk \subseteq disk' \cup Doomed'
        /\ cleanup' \subseteq Doomed'
    BY <1>18, Before DEF TxCommit, Doomed
  <2>2. graph \subseteq graph' \cup Doomed'
    BY <1>18, Before DEF TxCommit, Doomed
  <2>3. \A v \in Workers :
          /\ added'[v] \subseteq Owned(v)
          /\ removed'[v] \subseteq Doomed'
          /\ pc'[v] = "respond" => added'[v] \subseteq graph' \cup Doomed'
    BY <1>18, Before DEF TxCommit, TypeOK, Doomed
  <2> QED
    BY <2>1, <2>2, <2>3, StayKeeps
<1>19. ASSUME NEW w \in Workers, RespondSuccess(w) PROVE Kept'
  <2>1. /\ EndQuery(w)
        /\ pc[w] = "respond"
        /\ disk \subseteq disk' \cup Doomed
        /\ acked' = acked \cup added[w]
        /\ UNCHANGED <<requested, strayed, cleanup, graph, created>>
    BY <1>19, Before DEF RespondSuccess
  <2>2. OwnInv'
    BY <2>1, EndOwned DEF IInv, Kept, OwnInv
  <2>3. DoomInv'
    BY <2>1, EndOwned DEF IInv, Kept, DoomInv, Doomed
  <2>4. KeepInv'
    BY <2>1, EndOwned DEF IInv, Kept, KeepInv, Doomed
  <2>5. AckedDurable'
    BY <2>1 DEF IInv, Kept, OwnInv, KeepInv, AckedDurable, Doomed
  <2> QED
    BY <2>2, <2>3, <2>4, <2>5 DEF Kept
<1>20. ASSUME NEW w \in Workers, RespondVCLException(w) PROVE Kept'
  BY <1>20, EndKeeps, CleanedOwned DEF RespondVCLException, RespondThrows
<1>21. ASSUME NEW w \in Workers, RespondVCLTerminates(w) PROVE Kept'
  <2>1. disk \cap acked \subseteq disk'
    BY <1>21, CleanedOwned DEF RespondVCLTerminates, RespondThrows, IInv, Kept, OwnInv
  <2> QED
    BY <1>21, <2>1, RestartKeeps DEF RespondVCLTerminates, RespondThrows
<1>22. ASSUME NEW w \in Workers, RespondException(w) PROVE Kept'
  BY <1>22, EndKeeps, CleanedOwned DEF RespondException, RespondThrows
<1>23. ASSUME Crash PROVE Kept'
  BY <1>23, RestartKeeps DEF Crash, IInv
<1>24. ASSUME UNCHANGED vars PROVE Kept'
  BY <1>24, StayKeeps, Before DEF vars, Doomed
<1> QED
  BY <1>1, <1>2, <1>3, <1>4, <1>5, <1>6, <1>7, <1>8, <1>9, <1>10, <1>11, <1>12, <1>13, <1>14, <1>15, <1>16, <1>17, <1>18, <1>19, <1>20, <1>21, <1>22, <1>23, <1>24 DEF IInv, Next, Construct, Transact, Respond

-----------------------------------------------------------------------------
(* The expiration queue.                                                   *)

(***************************************************************************)
(* Where an expiring node must be, and the inductive invariant: a node is  *)
(* there from the moment its transaction adds it, and only an open         *)
(* transaction or one that is answering has added nodes.                   *)
(***************************************************************************)
Excused == queue \cup requested \cup strayed \cup raced

QueuedInv ==
  /\ graph \cap Expiring \cap Media \subseteq Excused
  /\ \A w \in Workers :
       /\ Open(w) => added[w] \cap Expiring \subseteq Excused
       /\ pc[w] \in {"idle", "construct"} => added[w] = {}

EInv == TypeOK /\ QueuedInv

(* What an update of the queue leaves out, a race dropped.                 *)
LEMMA UpdateExcused ==
  ASSUME NEW w, NEW new, UpdateQueue(w, new),
         requested \subseteq requested', strayed \subseteq strayed'
  PROVE  new \cup requested \cup strayed \cup raced \subseteq Excused'
  BY DEF UpdateQueue, Excused

LEMMA EndQueued ==
  ASSUME EInv, NEW w \in Workers, EndQuery(w), graph' = graph, Excused' = Excused
  PROVE  QueuedInv'
  BY EndOwned DEF EInv, QueuedInv, Open

LEMMA RestartQueued ==
  ASSUME EInv, Restart, graph' = graph
  PROVE  QueuedInv'
<1>1. graph' \cap Expiring \cap Media \subseteq Excused'
  BY DEF Restart, Requeued, Excused
<1> QED
  BY <1>1, RestartOwned DEF EInv, QueuedInv, Open

(* A step that adds no node, but may open a transaction or end one.        *)
LEMMA StayQueued ==
  ASSUME EInv, UNCHANGED <<graph, added>>, Excused \subseteq Excused',
         \A v \in Workers :
           \/ pc'[v] = pc[v]
           \/ pc[v] \in {"idle", "construct"} /\ pc'[v] \in {"construct", "commands"}
           \/ pc[v] = "commands" /\ pc'[v] = "failed"
  PROVE  QueuedInv'
  BY DEF EInv, QueuedInv, Open, TypeOK, WorkerPC

LEMMA EInvStep == EInv /\ [Next]_vars => EInv'
<1> SUFFICES ASSUME EInv, [Next]_vars PROVE EInv'
  OBVIOUS
<1>0. TypeOK /\ TypeOK'
  BY TypeStep DEF EInv
<1> USE <1>0 DEF shared, bounds, history
<1>1. ASSUME NEW w \in Workers, StartQuery(w) PROVE QueuedInv'
  <2>1. UNCHANGED <<graph, added>> /\ Excused \subseteq Excused'
    BY <1>1 DEF StartQuery, Excused
  <2>2. \A v \in Workers :
          \/ pc'[v] = pc[v]
          \/ pc[v] \in {"idle", "construct"} /\ pc'[v] \in {"construct", "commands"}
          \/ pc[v] = "commands" /\ pc'[v] = "failed"
    BY <1>1 DEF StartQuery, TypeOK
  <2> QED
    BY <2>1, <2>2, StayQueued
<1>2. ASSUME NEW w \in Workers, ConstructAdd(w) PROVE QueuedInv'
  <2>1. UNCHANGED <<graph, added>> /\ Excused \subseteq Excused'
    BY <1>2 DEF ConstructAdd, Excused
  <2>2. \A v \in Workers :
          \/ pc'[v] = pc[v]
          \/ pc[v] \in {"idle", "construct"} /\ pc'[v] \in {"construct", "commands"}
          \/ pc[v] = "commands" /\ pc'[v] = "failed"
    BY <1>2 DEF ConstructAdd, TypeOK
  <2> QED
    BY <2>1, <2>2, StayQueued
<1>3. ASSUME NEW w \in Workers, ConstructOther(w) PROVE QueuedInv'
  <2>1. UNCHANGED <<graph, added>> /\ Excused \subseteq Excused'
    BY <1>3 DEF ConstructOther, Excused
  <2>2. \A v \in Workers :
          \/ pc'[v] = pc[v]
          \/ pc[v] \in {"idle", "construct"} /\ pc'[v] \in {"construct", "commands"}
          \/ pc[v] = "commands" /\ pc'[v] = "failed"
    BY <1>3 DEF ConstructOther, TypeOK
  <2> QED
    BY <2>1, <2>2, StayQueued
<1>4. ASSUME NEW w \in Workers, ConstructError(w) PROVE QueuedInv'
  BY <1>4, EndQueued DEF ConstructError, Excused
<1>5. ASSUME NEW w \in Workers, StoreVCLException(w) PROVE QueuedInv'
  BY <1>5, EndQueued DEF StoreVCLException, Excused
<1>6. ASSUME NEW w \in Workers, StoreVCLTerminates(w) PROVE QueuedInv'
  BY <1>6, RestartQueued DEF StoreVCLTerminates
<1>7. ASSUME NEW w \in Workers, ConstructException(w) PROVE QueuedInv'
  BY <1>7, EndQueued DEF ConstructException, Excused
<1>8. ASSUME NEW w \in Workers, RunTx(w) PROVE QueuedInv'
  <2>1. UNCHANGED <<graph, added>> /\ Excused \subseteq Excused'
    BY <1>8 DEF RunTx, Excused
  <2>2. \A v \in Workers :
          \/ pc'[v] = pc[v]
          \/ pc[v] \in {"idle", "construct"} /\ pc'[v] \in {"construct", "commands"}
          \/ pc[v] = "commands" /\ pc'[v] = "failed"
    BY <1>8 DEF RunTx, TypeOK
  <2> QED
    BY <2>1, <2>2, StayQueued
<1>9. ASSUME NEW w \in Workers, ExecAdd(w) PROVE QueuedInv'
  <2> DEFINE f == cmds[w][ip[w]].file
             new == IF f \in Expiring THEN queue \cup {f} ELSE queue
  <2>1. UpdateQueue(w, new) /\ UNCHANGED <<graph, pc, requested, strayed>>
    BY <1>9 DEF ExecAdd
  <2>2. Excused \subseteq Excused' /\ new \subseteq Excused'
    <3> HIDE DEF new
    <3>1. new \cup requested \cup strayed \cup raced \subseteq Excused'
      BY <2>1, UpdateExcused
    <3>2. queue \subseteq new
      BY DEF new
    <3> QED
      BY <3>1, <3>2 DEF Excused
  <2>3. pc[w] = "commands" /\ added' = [added EXCEPT ![w] = @ \cup {f}]
    BY <1>9 DEF ExecAdd
  <2> QED
    BY <2>1, <2>2, <2>3, SMTT(60) DEF EInv, QueuedInv, Open, TypeOK
<1>10. ASSUME NEW w \in Workers, ExecAddExists(w) PROVE QueuedInv'
  <2>1. UNCHANGED <<graph, added>> /\ Excused \subseteq Excused'
    BY <1>10 DEF ExecAddExists, Excused
  <2>2. \A v \in Workers :
          \/ pc'[v] = pc[v]
          \/ pc[v] \in {"idle", "construct"} /\ pc'[v] \in {"construct", "commands"}
          \/ pc[v] = "commands" /\ pc'[v] = "failed"
    BY <1>10 DEF ExecAddExists, TypeOK
  <2> QED
    BY <2>1, <2>2, StayQueued
<1>11. ASSUME NEW w \in Workers, ExecFind(w) PROVE QueuedInv'
  <2>1. PICK gone \in SUBSET Files :
          UpdateQueue(w, queue \ gone) /\ requested' = requested \cup gone
    BY <1>11 DEF ExecFind, TypeOK, Visible
  <2>2. UNCHANGED <<graph, added, pc, strayed>>
    BY <1>11 DEF ExecFind
  <2>3. (queue \ gone) \cup requested \cup strayed \cup raced \subseteq Excused'
    BY <2>1, <2>2, UpdateExcused
  <2>4. Excused \subseteq Excused'
    BY <2>1, <2>3 DEF Excused
  <2> QED
    BY <2>2, <2>4, StayQueued
<1>12. ASSUME NEW w \in Workers, ExpireOne(w) PROVE QueuedInv'
  <2>1. PICK gone \in SUBSET Files :
          UpdateQueue(w, queue \ gone) /\ requested' = requested \cup gone
    BY <1>12 DEF ExpireOne, TypeOK, Visible
  <2>2. UNCHANGED <<graph, added, pc, strayed>>
    BY <1>12 DEF ExpireOne
  <2>3. (queue \ gone) \cup requested \cup strayed \cup raced \subseteq Excused'
    BY <2>1, <2>2, UpdateExcused
  <2>4. Excused \subseteq Excused'
    BY <2>1, <2>3 DEF Excused
  <2> QED
    BY <2>2, <2>4, StayQueued
<1>13. ASSUME NEW w \in Workers, ExpireThrows(w) PROVE QueuedInv'
  <2>1. UNCHANGED <<graph, added>> /\ Excused \subseteq Excused'
    BY <1>13 DEF ExpireThrows, Excused
  <2>2. \A v \in Workers :
          \/ pc'[v] = pc[v]
          \/ pc[v] \in {"idle", "construct"} /\ pc'[v] \in {"construct", "commands"}
          \/ pc[v] = "commands" /\ pc'[v] = "failed"
    BY <1>13 DEF ExpireThrows, TypeOK
  <2> QED
    BY <2>1, <2>2, StayQueued
<1>14. ASSUME NEW w \in Workers, ExpireStray(w) PROVE QueuedInv'
  <2>1. PICK f \in queue \ Alive :
          UpdateQueue(w, queue \ {f}) /\ requested' = requested /\ strayed \subseteq strayed'
    BY <1>14 DEF ExpireStray
  <2>2. UNCHANGED <<graph, added, pc>>
    BY <1>14 DEF ExpireStray
  <2>3. (queue \ {f}) \cup requested \cup strayed \cup raced \subseteq Excused'
    BY <2>1, UpdateExcused
  <2>4. Excused \ {f} \subseteq Excused'
    BY <2>3 DEF Excused
  <2>5. f \notin graph /\ \A v \in Workers : Open(v) => f \notin added[v]
    BY <2>1 DEF Alive
  <2> QED
    BY <2>2, <2>4, <2>5 DEF EInv, QueuedInv, Open
<1>15. ASSUME NEW w \in Workers, ExpireDone(w) PROVE QueuedInv'
  <2>1. UNCHANGED <<graph, added>> /\ Excused \subseteq Excused'
    BY <1>15 DEF ExpireDone, Excused
  <2>2. \A v \in Workers :
          \/ pc'[v] = pc[v]
          \/ pc[v] \in {"idle", "construct"} /\ pc'[v] \in {"construct", "commands"}
          \/ pc[v] = "commands" /\ pc'[v] = "failed"
    BY <1>15 DEF ExpireDone, TypeOK
  <2> QED
    BY <2>1, <2>2, StayQueued
<1>16. ASSUME NEW w \in Workers, TxFail(w) PROVE QueuedInv'
  <2>1. UNCHANGED <<graph, added>> /\ Excused \subseteq Excused'
    BY <1>16 DEF TxFail, Excused
  <2>2. \A v \in Workers :
          \/ pc'[v] = pc[v]
          \/ pc[v] \in {"idle", "construct"} /\ pc'[v] \in {"construct", "commands"}
          \/ pc[v] = "commands" /\ pc'[v] = "failed"
    BY <1>16 DEF TxFail, TypeOK
  <2> QED
    BY <2>1, <2>2, StayQueued
<1>17. ASSUME NEW w \in Workers, Abort(w) PROVE QueuedInv'
  BY <1>17, EndQueued DEF Abort, Excused
<1>18. ASSUME NEW w \in Workers, TxCommit(w) PROVE QueuedInv'
  <2>1. Excused' = Excused
    BY <1>18 DEF TxCommit, Excused
  <2>2. /\ Open(w)
        /\ graph' \subseteq graph \cup added[w]
        /\ added' = added
        /\ pc' = [pc EXCEPT ![w] = "respond"]
    BY <1>18 DEF TxCommit, Open
  <2> QED
    BY <2>1, <2>2 DEF EInv, QueuedInv, Open, TypeOK
<1>19. ASSUME NEW w \in Workers, RespondSuccess(w) PROVE QueuedInv'
  BY <1>19, EndQueued DEF RespondSuccess, Excused
<1>20. ASSUME NEW w \in Workers, RespondVCLException(w) PROVE QueuedInv'
  BY <1>20, EndQueued DEF RespondVCLException, Excused
<1>21. ASSUME NEW w \in Workers, RespondVCLTerminates(w) PROVE QueuedInv'
  BY <1>21, RestartQueued DEF RespondVCLTerminates
<1>22. ASSUME NEW w \in Workers, RespondException(w) PROVE QueuedInv'
  BY <1>22, EndQueued DEF RespondException, Excused
<1>23. ASSUME Crash PROVE QueuedInv'
  BY <1>23, RestartQueued DEF Crash
<1>24. ASSUME UNCHANGED vars PROVE QueuedInv'
  BY <1>24, StayQueued DEF vars, Excused
<1> QED
  BY <1>1, <1>2, <1>3, <1>4, <1>5, <1>6, <1>7, <1>8, <1>9, <1>10, <1>11, <1>12, <1>13, <1>14, <1>15, <1>16, <1>17, <1>18, <1>19, <1>20, <1>21, <1>22, <1>23, <1>24 DEF EInv, Next, Construct, Transact, Respond

LEMMA InitEInv == Init => EInv
  BY InitTypes DEF Init, EInv, QueuedInv, Open

-----------------------------------------------------------------------------
(* What the expiration queue points to.                                    *)

(***************************************************************************)
(* The nodes that the rest of a query is going to add, and the nodes that  *)
(* are or were in the database.  Names of files are fresh, so they do not  *)
(* meet (FreshInv): an entry queued for a new node cannot be taken for one *)
(* of a node that a transaction has removed.  What an open transaction has *)
(* removed is not in the queue any more (GoneInv), so that its commit      *)
(* leaves no entry behind.                                                 *)
(***************************************************************************)
Fresh(w) == {cmds[w][i].file : i \in {j \in Adds(cmds[w], Files) : j >= ip[w]}}
Touched == graph \cup UNION {added[w] \cup removed[w] : w \in Workers}

OnceInv ==
  \A w \in Workers : \A i, j \in Adds(cmds[w], Files) :
    cmds[w][i].file = cmds[w][j].file => i = j

StartInv ==
  \A w \in Workers : pc[w] \in {"idle", "construct"} =>
    added[w] = {} /\ removed[w] = {} /\ ip[w] = 0

TouchInv == Touched \subseteq created
FreshInv == \A w \in Workers : Fresh(w) \cap Touched = {}
GoneInv == \A w \in Workers : Open(w) => removed[w] \cap queue \subseteq strayed \cup raced

AliveInv == OnceInv /\ StartInv /\ TouchInv /\ FreshInv /\ GoneInv /\ QueueAlive

AInv == IInv /\ AliveInv

LEMMA AInvFacts ==
  ASSUME AInv
  PROVE  /\ TypeOK
         /\ OwnInv
         /\ AliveInv
  BY DEF AInv, IInv, Kept

(* A query that advances has less left to add.                             *)
LEMMA FreshShrinks ==
  ASSUME TypeOK, UNCHANGED cmds, NEW v \in Workers, ip'[v] \in Nat, ip'[v] >= ip[v]
  PROVE  Fresh(v)' \subseteq Fresh(v)
<1>1. cmds'[v] = cmds[v] /\ ip[v] \in Nat
  BY DEF TypeOK
<1>2. \A j \in Adds(cmds[v], Files) : j \in Nat
  BY DEF Adds, TypeOK
<1>3. {j \in Adds(cmds[v], Files) : j >= ip'[v]} \subseteq {j \in Adds(cmds[v], Files) : j >= ip[v]}
  BY <1>1, <1>2
<1> QED
  BY <1>1, <1>3 DEF Fresh

LEMMA FreshOwned ==
  ASSUME NEW v
  PROVE  Fresh(v) \subseteq Owned(v)
  BY DEF Fresh, Owned, FilesOf

LEMMA FreshNone ==
  ASSUME NEW v, cmds[v] = <<>>
  PROVE  Fresh(v) = {} /\ Adds(cmds[v], Files) = {}
  BY DEF Fresh, Adds

(* What has been constructed stays, with its place; a new file is the last.*)
LEMMA AddsAppend ==
  ASSUME NEW s \in Seq(Cmd), NEW c \in Cmd
  PROVE  /\ \A i \in Adds(s, Files) : Append(s, c)[i] = s[i]
         /\ \A i \in Adds(s, Files) : s[i].file \in FilesOf(s)
         /\ c.op = "add" => /\ Adds(Append(s, c), Files) = Adds(s, Files) \cup {Len(s) + 1}
                            /\ Append(s, c)[Len(s) + 1] = c
         /\ c.op # "add" => Adds(Append(s, c), Files) = Adds(s, Files)
<1> DEFINE a == Append(s, c)
<1>1. /\ Len(s) \in Nat
      /\ DOMAIN s = 1..Len(s)
      /\ DOMAIN a = 1..(Len(s) + 1)
      /\ \A i \in 1..Len(s) : a[i] = s[i]
      /\ a[Len(s) + 1] = c
  OBVIOUS
<1>2. c.op = "add" => c.file \in Files
  BY DEF Cmd
<1>3. Adds(a, Files) = Adds(s, Files) \cup (IF c.op = "add" THEN {Len(s) + 1} ELSE {})
  BY <1>1, <1>2 DEF Adds
<1>4. \A i \in Adds(s, Files) : a[i] = s[i] /\ s[i].file \in FilesOf(s)
  BY <1>1 DEF Adds, FilesOf
<1> QED
  BY <1>1, <1>3, <1>4

(* An update of the queue leaves nothing but the intended entries, and     *)
(* those that a race damaged.                                              *)
LEMMA UpdateBounds ==
  ASSUME NEW w, NEW new, UpdateQueue(w, new)
  PROVE  raced \subseteq raced' /\ queue' \subseteq new \cup raced'
  BY DEF UpdateQueue

LEMMA EndAlive ==
  ASSUME AInv, NEW w \in Workers, EndQuery(w), UNCHANGED <<graph, queue, strayed, raced>>,
         created \subseteq created', aborted \subseteq aborted',
         Open(w) => added[w] \subseteq aborted'
  PROVE  AliveInv'
<1> USE AInvFacts
<1>1. \A v \in Workers :
        /\ added'[v] = IF v = w THEN {} ELSE added[v]
        /\ removed'[v] = IF v = w THEN {} ELSE removed[v]
        /\ pc'[v] = IF v = w THEN "idle" ELSE pc[v]
        /\ cmds'[v] = IF v = w THEN <<>> ELSE cmds[v]
        /\ ip'[v] = IF v = w THEN 0 ELSE ip[v]
  BY DEF TypeOK, EndQuery
<1>2. \A v \in Workers : Fresh(v)' \subseteq Fresh(v)
  BY <1>1 DEF Fresh, Adds
<1>3. Touched' \subseteq Touched
  BY <1>1 DEF Touched
<1>4. OnceInv'
  BY <1>1 DEF AliveInv, OnceInv, Adds
<1>5. StartInv'
  BY <1>1 DEF AliveInv, StartInv
<1>6. TouchInv' /\ FreshInv'
  BY <1>2, <1>3 DEF AliveInv, TouchInv, FreshInv
<1>7. GoneInv'
  BY <1>1 DEF AliveInv, GoneInv, Open
<1>8. QueueAlive'
  <2>1. Alive \subseteq Alive' \cup aborted'
    BY <1>1 DEF Alive, Open
  <2> QED
    BY <2>1 DEF AliveInv, QueueAlive
<1> QED
  BY <1>4, <1>5, <1>6, <1>7, <1>8 DEF AliveInv

LEMMA RestartAlive ==
  ASSUME AInv, Restart, graph' = graph, created \subseteq created'
  PROVE  AliveInv'
<1> USE AInvFacts
<1>1. \A v \in Workers :
        /\ added'[v] = {}
        /\ removed'[v] = {}
        /\ pc'[v] = "idle"
        /\ cmds'[v] = <<>>
        /\ ip'[v] = 0
  BY DEF TypeOK, Restart
<1>2. \A v \in Workers : Fresh(v)' = {} /\ Adds(cmds'[v], Files) = {}
  BY <1>1 DEF Fresh, Adds
<1>3. Touched' \subseteq Touched
  BY <1>1 DEF Touched
<1>4. OnceInv' /\ StartInv' /\ FreshInv'
  BY <1>1, <1>2 DEF OnceInv, StartInv, FreshInv
<1>5. TouchInv'
  BY <1>3 DEF AliveInv, TouchInv
<1>6. GoneInv'
  BY <1>1 DEF GoneInv
<1>7. QueueAlive'
  BY DEF Restart, Requeued, QueueAlive, Alive
<1> QED
  BY <1>4, <1>5, <1>6, <1>7 DEF AliveInv

(* A step that leaves nodes and queue alone, and may advance a query.      *)
LEMMA QuietAlive ==
  ASSUME AInv, UNCHANGED <<graph, created, queue, cmds, added, removed, strayed, raced, aborted>>,
         \A v \in Workers :
           \/ pc'[v] = pc[v] /\ ip'[v] = ip[v]
           \/ pc[v] = "commands" /\ pc'[v] = "commands" /\ ip'[v] = ip[v] + 1
           \/ pc[v] = "idle" /\ pc'[v] = "construct" /\ ip'[v] = ip[v]
           \/ pc[v] = "construct" /\ pc'[v] = "commands" /\ ip'[v] = 1
           \/ pc[v] = "commands" /\ pc'[v] = "failed" /\ ip'[v] = ip[v]
  PROVE  AliveInv'
<1> USE AInvFacts
<1>1. \A v \in Workers : ip'[v] \in Nat /\ ip'[v] >= ip[v]
  <2>1. \A v \in Workers : ip[v] \in Nat /\ (pc[v] = "construct" => ip[v] = 0)
    BY DEF AliveInv, StartInv, TypeOK
  <2> QED
    BY <2>1
<1>2. \A v \in Workers : Fresh(v)' \subseteq Fresh(v)
  BY <1>1, FreshShrinks
<1>3. \A v \in Workers : Open(v) => Open(v)'
  BY DEF Open
<1>4. OnceInv'
  BY DEF AliveInv, OnceInv
<1>5. StartInv'
  BY DEF AliveInv, StartInv
<1>6. TouchInv' /\ FreshInv'
  BY <1>2 DEF AliveInv, TouchInv, FreshInv, Touched
<1>7. GoneInv'
  BY DEF AliveInv, GoneInv, StartInv, Open
<1>8. QueueAlive'
  BY <1>3 DEF AliveInv, QueueAlive, Alive
<1> QED
  BY <1>4, <1>5, <1>6, <1>7, <1>8 DEF AliveInv

(* A step that removes nodes it can see, and takes their entries out of    *)
(* the queue -- all but those of nodes hit by a stray entry.               *)
LEMMA TakeAlive ==
  ASSUME AInv, NEW w \in Workers, NEW gone, NEW new, pc[w] = "commands",
         gone \subseteq Visible(w), removed' = [removed EXCEPT ![w] = @ \cup gone],
         new \subseteq queue, UpdateQueue(w, new),
         strayed \subseteq strayed', gone \cap new \subseteq strayed',
         UNCHANGED <<graph, created, pc, cmds, added, aborted>>,
         \A v \in Workers : ip'[v] \in Nat /\ ip'[v] >= ip[v],
         \A v \in Workers \ {w} : ip'[v] = ip[v]
  PROVE  AliveInv'
<1> USE AInvFacts
<1>1. raced \subseteq raced' /\ queue' \subseteq new \cup raced'
  BY UpdateBounds
<1>2. \A v \in Workers : Fresh(v)' \subseteq Fresh(v)
  BY FreshShrinks
<1>3. gone \subseteq Touched
  BY DEF Visible, Touched
<1>4. \A v \in Workers : removed'[v] = IF v = w THEN removed[w] \cup gone ELSE removed[v]
  BY DEF TypeOK
<1>5. Touched' \subseteq Touched
  BY <1>3, <1>4 DEF Touched
<1>6. OnceInv'
  BY DEF AliveInv, OnceInv
<1>7. StartInv'
  BY <1>4 DEF AliveInv, StartInv
<1>8. TouchInv' /\ FreshInv'
  BY <1>2, <1>5 DEF AliveInv, TouchInv, FreshInv
<1>9. GoneInv'
  BY <1>1, <1>4 DEF AliveInv, GoneInv, Open
<1>10. QueueAlive'
  <2>1. Alive' = Alive
    BY DEF Alive, Open
  <2> QED
    BY <1>1, <2>1 DEF AliveInv, QueueAlive
<1> QED
  BY <1>6, <1>7, <1>8, <1>9, <1>10 DEF AliveInv

LEMMA AInvStep == AInv /\ [Next]_vars => AInv'
<1> SUFFICES ASSUME AInv, [Next]_vars PROVE AInv'
  OBVIOUS
<1>0. TypeOK /\ OwnInv /\ AliveInv /\ IInv'
  BY AInvFacts, IInvStep DEF AInv
<1> USE <1>0 DEF shared, bounds, history
<1>1. ASSUME NEW w \in Workers, StartQuery(w) PROVE AliveInv'
  BY <1>1, QuietAlive DEF StartQuery, TypeOK
<1>2. ASSUME NEW w \in Workers, ConstructAdd(w) PROVE AliveInv'
  <2>1. PICK f \in Files \ created :
          /\ created' = created \cup {f}
          /\ cmds' = [cmds EXCEPT ![w] = Append(@, AddCmd(f))]
    BY <1>2 DEF ConstructAdd
  <2>2. AddCmd(f) \in Cmd /\ AddCmd(f).op = "add" /\ AddCmd(f).file = f
    BY CmdsTyped
  <2>3. UNCHANGED <<graph, queue, pc, ip, added, removed, strayed, raced, aborted>>
    BY <1>2 DEF ConstructAdd
  <2>4. f \notin Touched /\ f \notin Owned(w)
    BY <2>1 DEF AliveInv, TouchInv, OwnInv
  <2> DEFINE s == cmds[w]
             n == Len(s) + 1
  <2>5. s \in Seq(Cmd) /\ cmds'[w] = Append(s, AddCmd(f)) /\ n \in Nat
    BY <2>1 DEF TypeOK
  <2>6. /\ Adds(cmds'[w], Files) = Adds(s, Files) \cup {n}
        /\ cmds'[w][n].file = f
        /\ \A i \in Adds(s, Files) : cmds'[w][i] = s[i] /\ s[i].file # f
    <3> DEFINE c == AddCmd(f)
    <3>1. FilesOf(s) = Owned(w)
      BY DEF Owned
    <3>2. /\ s \in Seq(Cmd)
          /\ cmds'[w] = Append(s, c)
          /\ c \in Cmd /\ c.op = "add" /\ c.file = f
      BY <2>2, <2>5
    <3>3. n = Len(s) + 1
      OBVIOUS
    <3> HIDE DEF s, n, c
    <3>4. /\ \A i \in Adds(s, Files) : Append(s, c)[i] = s[i]
          /\ \A i \in Adds(s, Files) : s[i].file \in FilesOf(s)
          /\ Adds(Append(s, c), Files) = Adds(s, Files) \cup {Len(s) + 1}
          /\ Append(s, c)[Len(s) + 1] = c
      BY <3>2, AddsAppend, ZenonT(60)
    <3>5. /\ \A i \in Adds(s, Files) : Append(s, c)[i] = s[i] /\ s[i].file \in FilesOf(s)
          /\ Adds(Append(s, c), Files) = Adds(s, Files) \cup {n}
          /\ Append(s, c)[n] = c
      BY <3>3, <3>4, Zenon
    <3> QED
      BY <2>4, <3>1, <3>2, <3>5
  <2>7. \A v \in Workers \ {w} : cmds'[v] = cmds[v]
    BY <2>1 DEF TypeOK
  <2>8. OnceInv'
    <3>1. \A i, j \in Adds(cmds'[w], Files) : cmds'[w][i].file = cmds'[w][j].file => i = j
      BY <2>6 DEF AliveInv, OnceInv
    <3> QED
      BY <2>7, <3>1 DEF AliveInv, OnceInv
  <2>9. FreshInv'
    <3>1. Fresh(w)' \subseteq Fresh(w) \cup {f}
      BY <2>3, <2>6 DEF Fresh
    <3>2. \A v \in Workers \ {w} : Fresh(v)' = Fresh(v)
      BY <2>3, <2>7 DEF Fresh
    <3>3. Touched' = Touched
      BY <2>3 DEF Touched
    <3> QED
      BY <2>4, <3>1, <3>2, <3>3 DEF AliveInv, FreshInv
  <2>10. StartInv' /\ TouchInv' /\ GoneInv' /\ QueueAlive'
    BY <2>1, <2>3 DEF AliveInv, StartInv, TouchInv, Touched, GoneInv, Open, QueueAlive, Alive
  <2> QED
    BY <2>8, <2>9, <2>10 DEF AliveInv
<1>3. ASSUME NEW w \in Workers, ConstructOther(w) PROVE AliveInv'
  <2>1. PICK c \in Cmd : c.op # "add" /\ cmds' = [cmds EXCEPT ![w] = Append(@, c)]
    BY <1>3, CmdsTyped DEF ConstructOther
  <2>2. UNCHANGED <<graph, created, queue, pc, ip, added, removed, strayed, raced, aborted>>
    BY <1>3 DEF ConstructOther
  <2>3. cmds[w] \in Seq(Cmd) /\ cmds'[w] = Append(cmds[w], c)
    BY <2>1 DEF TypeOK
  <2>4. /\ Adds(cmds'[w], Files) = Adds(cmds[w], Files)
        /\ \A i \in Adds(cmds[w], Files) : cmds'[w][i] = cmds[w][i]
    <3> DEFINE s == cmds[w]
    <3>1. s \in Seq(Cmd) /\ c \in Cmd /\ c.op # "add" /\ cmds'[w] = Append(s, c)
      BY <2>1, <2>3
    <3> HIDE DEF s
    <3>2. /\ \A i \in Adds(s, Files) : Append(s, c)[i] = s[i]
          /\ Adds(Append(s, c), Files) = Adds(s, Files)
      BY <3>1, AddsAppend, ZenonT(60)
    <3> QED
      BY <3>1, <3>2 DEF s
  <2>5. \A v \in Workers : /\ Adds(cmds'[v], Files) = Adds(cmds[v], Files)
                           /\ \A i \in Adds(cmds[v], Files) : cmds'[v][i] = cmds[v][i]
    BY <2>1, <2>4 DEF TypeOK
  <2>6. \A v \in Workers : Fresh(v)' = Fresh(v)
    BY <2>2, <2>5 DEF Fresh
  <2>7. OnceInv'
    BY <2>5 DEF AliveInv, OnceInv
  <2>8. FreshInv' /\ StartInv' /\ TouchInv' /\ GoneInv' /\ QueueAlive'
    BY <2>2, <2>6 DEF AliveInv, FreshInv, StartInv, TouchInv, Touched, GoneInv, Open, QueueAlive, Alive
  <2> QED
    BY <2>7, <2>8 DEF AliveInv
<1>4. ASSUME NEW w \in Workers, ConstructError(w) PROVE AliveInv'
  BY <1>4, EndAlive DEF ConstructError, Open
<1>5. ASSUME NEW w \in Workers, StoreVCLException(w) PROVE AliveInv'
  BY <1>5, EndAlive DEF StoreVCLException, StoreThrows, Open
<1>6. ASSUME NEW w \in Workers, StoreVCLTerminates(w) PROVE AliveInv'
  BY <1>6, RestartAlive DEF StoreVCLTerminates, StoreThrows
<1>7. ASSUME NEW w \in Workers, ConstructException(w) PROVE AliveInv'
  BY <1>7, EndAlive DEF ConstructException, Open
<1>8. ASSUME NEW w \in Workers, RunTx(w) PROVE AliveInv'
  BY <1>8, QuietAlive DEF RunTx, TypeOK
<1>9. ASSUME NEW w \in Workers, ExecAdd(w) PROVE AliveInv'
  <2> DEFINE f == cmds[w][ip[w]].file
             new == IF f \in Expiring THEN queue \cup {f} ELSE queue
  <2>1. /\ UpdateQueue(w, new)
        /\ pc[w] = "commands"
        /\ added' = [added EXCEPT ![w] = @ \cup {f}]
        /\ ip' = [ip EXCEPT ![w] = @ + 1]
        /\ UNCHANGED <<graph, created, pc, cmds, removed, strayed, aborted>>
    BY <1>9 DEF ExecAdd
  <2>2. ip[w] \in Adds(cmds[w], Files) /\ ip[w] \in Nat
    <3>1. cmds[w] \in Seq(Cmd) /\ ip[w] \in Nat
      BY DEF TypeOK
    <3>2. \A i \in DOMAIN cmds[w] : cmds[w][i] \in Cmd
      BY <3>1
    <3> QED
      BY <1>9, <3>1, <3>2 DEF ExecAdd, Running, Adds, Cmd
  <2>3. f \in Fresh(w) /\ f \in Owned(w)
    BY <2>2, FreshOwned DEF Fresh
  <2>4. f \notin Touched /\ f \in created
    BY <2>3 DEF AliveInv, FreshInv, OwnInv
  <2>5. \A v \in Workers : /\ added'[v] = IF v = w THEN added[w] \cup {f} ELSE added[v]
                           /\ ip'[v] = IF v = w THEN ip[w] + 1 ELSE ip[v]
    BY <2>1 DEF TypeOK
  <2>6. queue' \subseteq queue \cup {f} \cup raced' /\ raced \subseteq raced'
    <3>1. raced \subseteq raced' /\ queue' \subseteq new \cup raced'
      <4> HIDE DEF new
      <4> QED BY <2>1, UpdateBounds
    <3> QED
      BY <3>1
  <2> HIDE DEF f, new
  <2>7. Touched' = Touched \cup {f}
    BY <2>1, <2>5 DEF Touched
  <2>8. \A v \in Workers : Fresh(v)' \subseteq Fresh(v)
    <3>1. \A v \in Workers : ip'[v] \in Nat /\ ip'[v] >= ip[v]
      BY <2>1 DEF TypeOK
    <3> QED
      BY <2>1, <3>1, FreshShrinks
  <2>9. f \notin Fresh(w)'
    <3>1. cmds'[w] = cmds[w] /\ ip'[w] = ip[w] + 1
      BY <2>1, <2>5
    <3>2. \A i \in Adds(cmds[w], Files) : i \in Nat /\ (i >= ip[w] + 1 => i # ip[w])
      BY <2>2 DEF Adds, TypeOK
    <3>3. \A i \in Adds(cmds[w], Files) : i >= ip[w] + 1 => cmds[w][i].file # f
      BY <2>2, <3>2 DEF AliveInv, OnceInv, f
    <3> QED
      BY <3>1, <3>3 DEF Fresh
  <2>10. \A v \in Workers \ {w} : f \notin Fresh(v)'
    BY <2>3, <2>8, FreshOwned DEF OwnInv
  <2>11. FreshInv'
    BY <2>7, <2>8, <2>9, <2>10 DEF AliveInv, FreshInv
  <2>12. OnceInv' /\ TouchInv'
    BY <2>1, <2>4, <2>7 DEF AliveInv, OnceInv, TouchInv
  <2>13. StartInv'
    BY <2>1, <2>5 DEF AliveInv, StartInv
  <2>14. GoneInv'
    <3>1. \A v \in Workers : f \notin removed[v]
      BY <2>4 DEF Touched
    <3> QED
      BY <2>1, <2>6, <3>1 DEF AliveInv, GoneInv, Open
  <2>15. QueueAlive'
    <3>1. Alive \cup {f} \subseteq Alive'
      BY <2>1, <2>5 DEF Alive, Open
    <3> QED
      BY <2>1, <2>6, <3>1 DEF AliveInv, QueueAlive
  <2> QED
    BY <2>11, <2>12, <2>13, <2>14, <2>15 DEF AliveInv
<1>10. ASSUME NEW w \in Workers, ExecAddExists(w) PROVE AliveInv'
  BY <1>10, QuietAlive DEF ExecAddExists, TypeOK
<1>11. ASSUME NEW w \in Workers, ExecFind(w) PROVE AliveInv'
  <2>1. PICK gone \in SUBSET Visible(w) :
          /\ removed' = [removed EXCEPT ![w] = @ \cup gone]
          /\ UpdateQueue(w, queue \ gone)
    BY <1>11 DEF ExecFind
  <2>2. /\ pc[w] = "commands"
        /\ ip' = [ip EXCEPT ![w] = @ + 1]
        /\ UNCHANGED <<graph, created, pc, cmds, added, aborted, strayed>>
    BY <1>11 DEF ExecFind
  <2>3. /\ \A v \in Workers : ip'[v] \in Nat /\ ip'[v] >= ip[v]
        /\ \A v \in Workers \ {w} : ip'[v] = ip[v]
    BY <2>2 DEF TypeOK
  <2> QED
    BY <2>1, <2>2, <2>3, TakeAlive
<1>12. ASSUME NEW w \in Workers, ExpireOne(w) PROVE AliveInv'
  <2>1. PICK f \in queue \cap Visible(w) :
          /\ removed' = [removed EXCEPT ![w] = @ \cup {f}]
          /\ UpdateQueue(w, queue \ {f})
    BY <1>12 DEF ExpireOne
  <2>2. pc[w] = "commands" /\ UNCHANGED <<graph, created, pc, cmds, ip, added, aborted, strayed>>
    BY <1>12 DEF ExpireOne
  <2>3. \A v \in Workers : ip'[v] \in Nat /\ ip'[v] >= ip[v] /\ ip'[v] = ip[v]
    BY <2>2 DEF TypeOK
  <2> DEFINE gone == {f}
             new == queue \ {f}
  <2>4. gone \subseteq Visible(w) /\ new \subseteq queue /\ gone \cap new = {}
    OBVIOUS
  <2>5. removed' = [removed EXCEPT ![w] = @ \cup gone] /\ UpdateQueue(w, new)
    BY <2>1
  <2> HIDE DEF gone, new
  <2> QED
    BY <2>2, <2>3, <2>4, <2>5, TakeAlive
<1>13. ASSUME NEW w \in Workers, ExpireThrows(w) PROVE AliveInv'
  BY <1>13, QuietAlive DEF ExpireThrows, TypeOK
<1>14. ASSUME NEW w \in Workers, ExpireStray(w) PROVE AliveInv'
  <2>1. PICK f \in queue, hit \in SUBSET Visible(w) :
          /\ removed' = [removed EXCEPT ![w] = @ \cup hit]
          /\ UpdateQueue(w, queue \ {f})
          /\ strayed' = strayed \cup hit
    BY <1>14 DEF ExpireStray
  <2>2. pc[w] = "commands" /\ UNCHANGED <<graph, created, pc, cmds, ip, added, aborted>>
    BY <1>14 DEF ExpireStray
  <2>3. \A v \in Workers : ip'[v] \in Nat /\ ip'[v] >= ip[v] /\ ip'[v] = ip[v]
    BY <2>2 DEF TypeOK
  <2> QED
    BY <2>1, <2>2, <2>3, TakeAlive
<1>15. ASSUME NEW w \in Workers, ExpireDone(w) PROVE AliveInv'
  BY <1>15, QuietAlive DEF ExpireDone, TypeOK
<1>16. ASSUME NEW w \in Workers, TxFail(w) PROVE AliveInv'
  BY <1>16, QuietAlive DEF TxFail, TypeOK
<1>17. ASSUME NEW w \in Workers, Abort(w) PROVE AliveInv'
  BY <1>17, EndAlive DEF Abort
<1>18. ASSUME NEW w \in Workers, TxCommit(w) PROVE AliveInv'
  <2>1. /\ pc[w] = "commands"
        /\ graph' = (graph \cup added[w]) \ removed[w]
        /\ UNCHANGED <<created, queue, cmds, ip, added, removed, strayed, raced, aborted>>
    BY <1>18 DEF TxCommit
  <2>2. \A v \in Workers : pc'[v] = IF v = w THEN "respond" ELSE pc[v]
    BY <1>18 DEF TxCommit, TypeOK
  <2>3. Touched' \subseteq Touched
    BY <2>1 DEF Touched
  <2>4. OnceInv' /\ TouchInv' /\ FreshInv'
    BY <2>1, <2>3 DEF AliveInv, OnceInv, TouchInv, FreshInv, Fresh
  <2>5. StartInv' /\ GoneInv'
    BY <2>1, <2>2 DEF AliveInv, StartInv, GoneInv, Open
  <2>6. QueueAlive'
    <3>1. removed[w] \cap queue \subseteq strayed \cup raced
      BY <2>1 DEF AliveInv, GoneInv, Open
    <3>2. Alive \subseteq Alive' \cup removed[w]
      BY <2>1, <2>2 DEF Alive, Open
    <3> QED
      BY <2>1, <3>1, <3>2 DEF AliveInv, QueueAlive
  <2> QED
    BY <2>4, <2>5, <2>6 DEF AliveInv
<1>19. ASSUME NEW w \in Workers, RespondSuccess(w) PROVE AliveInv'
  BY <1>19, EndAlive DEF RespondSuccess, Open
<1>20. ASSUME NEW w \in Workers, RespondVCLException(w) PROVE AliveInv'
  BY <1>20, EndAlive DEF RespondVCLException, RespondThrows, Open
<1>21. ASSUME NEW w \in Workers, RespondVCLTerminates(w) PROVE AliveInv'
  BY <1>21, RestartAlive DEF RespondVCLTerminates
<1>22. ASSUME NEW w \in Workers, RespondException(w) PROVE AliveInv'
  BY <1>22, EndAlive DEF RespondException, RespondThrows, Open
<1>23. ASSUME Crash PROVE AliveInv'
  BY <1>23, RestartAlive DEF Crash
<1>24. ASSUME UNCHANGED vars PROVE AliveInv'
  BY <1>24, QuietAlive DEF vars
<1> QED
  BY <1>0, <1>1, <1>2, <1>3, <1>4, <1>5, <1>6, <1>7, <1>8, <1>9, <1>10, <1>11, <1>12, <1>13, <1>14, <1>15, <1>16, <1>17, <1>18, <1>19, <1>20, <1>21, <1>22, <1>23, <1>24 DEF AInv, Next, Construct, Transact, Respond

LEMMA InitAInv == Init => AInv
<1> SUFFICES ASSUME Init PROVE AInv
  OBVIOUS
<1>1. \A w \in Workers : Fresh(w) = {} /\ Adds(cmds[w], Files) = {}
  BY FreshNone DEF Init
<1> QED
  BY <1>1, InitIInv DEF Init, AInv, AliveInv, OnceInv, StartInv, TouchInv, Touched, FreshInv, GoneInv, Open, QueueAlive

-----------------------------------------------------------------------------
(* The theorems.                                                           *)

(* The variables keep their types.                                         *)
THEOREM TypeCorrect == Spec => []TypeOK
<1>1. Init => TypeOK
  BY InitTypes
<1>2. TypeOK /\ [Next]_vars => TypeOK'
  BY TypeStep
<1> QED
  BY <1>1, <1>2, PTL DEF Spec

(* Files have one owner, and an owner's file and committed node stay until *)
(* the answer unless their deletion is asked for.                          *)
THEOREM InductiveInvariant == Spec => []IInv
<1>1. Init => IInv
  BY InitIInv
<1>2. IInv /\ [Next]_vars => IInv'
  BY IInvStep
<1> QED
  BY <1>1, <1>2, PTL DEF Spec

(* A node whose query was answered with success, and its file, survive     *)
(* every abort, cleanup, crash and restart of any other query, until its   *)
(* deletion is asked for, it expires, or a stray queue entry hits it.      *)
THEOREM Durability == Spec => []AckedDurable
<1>1. IInv => AckedDurable
  BY DEF IInv, Kept
<1> QED
  BY <1>1, InductiveInvariant, PTL

(* Every committed image or video that expires has its queue entry, also   *)
(* after restarts, unless deleting it was tried or a data race dropped it. *)
THEOREM ExpirationTracked == Spec => []ExpiringQueued
<1>1. Init => EInv
  BY InitEInv
<1>2. EInv /\ [Next]_vars => EInv'
  BY EInvStep
<1>3. EInv => ExpiringQueued
  BY DEF EInv, QueuedInv, ExpiringQueued, Excused
<1> QED
  BY <1>1, <1>2, <1>3, PTL DEF Spec

(* Every entry of the expiration queue points to a node that exists,       *)
(* committed or not, through commits, failures, crashes and restarts --    *)
(* except for the nodes whose own transaction aborted after queueing them, *)
(* and what stray entries and data races hit.                              *)
THEOREM QueuePointsToLive == Spec => []QueueAlive
<1>1. Init => AInv
  BY InitAInv
<1>2. AInv /\ [Next]_vars => AInv'
  BY AInvStep
<1>3. AInv => QueueAlive
  BY DEF AInv, AliveInv
<1> QED
  BY <1>1, <1>2, <1>3, PTL DEF Spec

=============================================================================
