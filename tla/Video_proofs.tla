---------------------------- MODULE Video_proofs ----------------------------
(***************************************************************************)
(* Proofs about modules VideoFile and KeyFrames: whatever operations a     *)
(* video is given and whatever fails, the file it was read from stays, and *)
(* a video that is stored or returned had every operation in order; and a  *)
(* decoder yields the frames it was asked for.                             *)
(***************************************************************************)
EXTENDS VideoFile, KeyFrames, Lists_proofs

(***************************************************************************)
(* Module VideoFile.                                                       *)
(***************************************************************************)

(* The inductive invariant.                                                *)

\* file names are numbers, and there are finitely many
FilesFit(fs) == DOMAIN fs \subseteq Nat /\ \E b \in Nat : \A f \in DOMAIN fs : f <= b

IsVideo(v) ==
  /\ v = [id |-> v.id, noBlob |-> v.noBlob, operated |-> v.operated, ops |-> v.ops,
          error |-> v.error]
  /\ v.noBlob \in BOOLEAN /\ v.error \in BOOLEAN

IsPerform(p) == p = [at |-> p.at, count |-> p.count, id |-> p.id, fname |-> p.fname]

\* what is written or removed next is a temporary file
Careful(p, v, name) ==
  /\ p.at \in {"idle", "store", "respond", "frames", "whole", "end", "encode", "remote", "sent"}
  /\ p.at \in {"whole", "end"} => p.fname \in Nat /\ p.fname > Store
  /\ p.at = "encode" => v.operated # Store
  /\ p.at \in {"encode", "remote", "sent"} => name = "FindVideo"
  /\ p.at = "store" => name = "AddVideo"
  /\ p.at # "idle" => name \in {"AddVideo", "FindVideo"}

\* the file that was read is there: the one in the data store, or the user's
Source(fs, v, name, frames) ==
  /\ name \in {"none", "AddVideo", "FindVideo", "FindFrames"}
  /\ name = "none" => DOMAIN fs = {}
  /\ name \in {"FindVideo", "FindFrames"} =>
       Store \in DOMAIN fs /\ fs[Store] = frames /\ UserFile \notin DOMAIN fs
  /\ name = "AddVideo" =>
       /\ v.noBlob => v.id = UserFile
       /\ v.id = UserFile => UserFile \in DOMAIN fs
       /\ UserFile \in DOMAIN fs /\ ~v.noBlob => fs[UserFile] = frames

VideoInv ==
  /\ FilesFit(files) /\ IsVideo(video) /\ IsPerform(perform)
  /\ Careful(perform, video, command.name)
  /\ Source(files, video, command.name, command.frames)

-----------------------------------------------------------------------------
(* Least and greatest numbers, and a new file name.                        *)

\* a temporary file is none of those there are, nor one of the three kept names
LEMMA FreshFacts ==
  ASSUME FilesFit(files)
  PROVE  Fresh \in Nat /\ Fresh > Store /\ Fresh \notin DOMAIN files
<1> DEFINE S == DOMAIN files \cup {Store}
<1>1. PICK b \in Nat : \A f \in DOMAIN files : f <= b
  BY DEF FilesFit
<1>2. S \subseteq Nat /\ S # {}
  BY DEF FilesFit, Store
<1>3. \E c \in Nat : \A y \in S : y <= c
  <2>1. CASE b >= 3
    BY <1>1, <2>1 DEF Store
  <2>2. CASE b < 3
    <3>1. \A y \in S : y <= 3
      BY <1>1, <1>2, <2>2 DEF Store
    <3> QED
      BY <3>1
  <2> QED
    BY <2>1, <2>2
<1>4. Max(S) \in S /\ \A y \in S : y <= Max(S)
  BY <1>2, <1>3, Greatest
<1>5. PICK m : m = Max(S)
  OBVIOUS
<1>6. m \in Nat /\ 3 <= m /\ \A f \in DOMAIN files : f <= m
  BY <1>2, <1>4, <1>5 DEF Store
<1>7. Fresh = m + 1
  BY <1>5 DEF Fresh
<1>8. m + 1 \notin DOMAIN files
  BY <1>6
<1> QED
  BY <1>6, <1>7, <1>8, SMTT(60) DEF Store

-----------------------------------------------------------------------------
(* Files that are written and removed.                                     *)

\* ws is fs with frames in file f
Replaces(ws, fs, f, frames) ==
  /\ DOMAIN ws = DOMAIN fs \cup {f} /\ ws[f] = frames
  /\ \A g \in DOMAIN fs : g # f => ws[g] = fs[g]

LEMMA WrittenFacts ==
  ASSUME NEW fs, NEW f, NEW frames
  PROVE  Replaces(Written(fs, f, frames), fs, f, frames)
  BY DEF Written, Replaces

LEMMA UnlinkedFacts ==
  ASSUME NEW fs, NEW f
  PROVE  /\ DOMAIN Unlinked(fs, f) = DOMAIN fs \ {f}
         /\ \A g \in DOMAIN fs : g # f => Unlinked(fs, f)[g] = fs[g]
  BY DEF Unlinked, Restrict

LEMMA WrittenFit ==
  ASSUME NEW fs, FilesFit(fs), NEW f \in Nat, NEW frames
  PROVE  FilesFit(Written(fs, f, frames))
<1>1. DOMAIN Written(fs, f, frames) = DOMAIN fs \cup {f}
  BY WrittenFacts DEF Replaces
<1>2. PICK b \in Nat : \A g \in DOMAIN fs : g <= b
  BY DEF FilesFit
<1>3. \A g \in DOMAIN fs \cup {f} : g \in Nat
  BY DEF FilesFit
<1>4. b + f \in Nat /\ \A g \in DOMAIN fs \cup {f} : g <= b + f
  BY <1>2, <1>3
<1> QED
  BY <1>1, <1>3, <1>4 DEF FilesFit

LEMMA UnlinkedFit ==
  ASSUME NEW fs, FilesFit(fs), NEW f
  PROVE  FilesFit(Unlinked(fs, f))
<1>1. DOMAIN Unlinked(fs, f) = DOMAIN fs \ {f}
  BY UnlinkedFacts
<1> QED
  BY <1>1, Zenon DEF FilesFit

\* neither touches the source when it is done to another file
LEMMA WrittenSource ==
  ASSUME NEW fs, NEW f \in Nat, NEW data, f > Store, NEW v, NEW name, NEW frames, name # "none",
         Source(fs, v, name, frames)
  PROVE  Source(Written(fs, f, data), v, name, frames)
<1>1. PICK ws : ws = Written(fs, f, data)
  OBVIOUS
<1>2. /\ DOMAIN ws = DOMAIN fs \cup {f}
      /\ \A g \in DOMAIN fs : g # f => ws[g] = fs[g]
  <2>1. Replaces(ws, fs, f, data)
    BY <1>1, WrittenFacts
  <2> QED
    BY <2>1 DEF Replaces
<1>3. f # Store /\ f # UserFile
  BY DEF Store, UserFile
<1>4. Source(ws, v, name, frames)
  BY <1>2, <1>3 DEF Source
<1> QED
  BY <1>1, <1>4

LEMMA UnlinkedSource ==
  ASSUME NEW fs, NEW f, NEW v, NEW name, NEW frames, name = "AddVideo" \/ f # Store,
         f # UserFile, Source(fs, v, name, frames)
  PROVE  Source(Unlinked(fs, f), v, name, frames)
<1>1. PICK us : us = Unlinked(fs, f)
  OBVIOUS
<1>2. /\ DOMAIN us = DOMAIN fs \ {f}
      /\ \A g \in DOMAIN fs : g # f => us[g] = fs[g]
  BY <1>1, UnlinkedFacts, Zenon
<1>3. Source(us, v, name, frames)
  BY <1>2 DEF Source
<1> QED
  BY <1>1, <1>3

-----------------------------------------------------------------------------
(* Where perform_operations goes.                                          *)

LEMMA ExecutingFacts ==
  ASSUME NEW v, IsVideo(v)
  PROVE  /\ IsPerform(Executing(v))
         /\ Executing(v).at \in {"respond", "encode", "remote", "frames"}
         /\ v.error => Executing(v).at = "respond"
         /\ v.ops # <<>> /\ Head(v.ops).type # "remote" => Executing(v).at \in {"respond", "frames"}
<1>1. v.error \in BOOLEAN
  BY DEF IsVideo
<1>2. CASE v.error
  BY <1>2 DEF Executing, NotPerforming, IsPerform
<1>3. CASE ~v.error /\ v.ops = <<>>
  BY <1>3 DEF Executing, NotPerforming, IsPerform
<1>4. CASE ~v.error /\ v.ops # <<>> /\ Head(v.ops).type = "remote"
  BY <1>4 DEF Executing, NotPerforming, IsPerform
<1>5. CASE ~v.error /\ v.ops # <<>> /\ Head(v.ops).type # "remote"
  <2> DEFINE id == IF v.operated = 0 THEN v.id ELSE v.operated
  <2>1. Executing(v) = [NotPerforming EXCEPT !.at = "frames", !.count = 1, !.id = id]
    BY <1>5 DEF Executing
  <2> HIDE DEF id
  <2>2. Executing(v) = [at |-> "frames", count |-> 1, id |-> id, fname |-> 0]
    BY <2>1 DEF NotPerforming
  <2> QED
    BY <1>5, <2>2 DEF IsPerform
<1> QED
  BY <1>1, <1>2, <1>3, <1>4, <1>5

\* the operations of an AddVideo are not given to the loop of threads
LEMMA AddedFacts ==
  ASSUME NEW ops \in OpLists, ops # <<>>
  PROVE  AddedOps(ops) # <<>> /\ Head(AddedOps(ops)).type # "remote"
<1>1. PICK n \in 0..MaxVideoOps : ops \in [1..n -> OperationType]
  BY DEF OpLists
<1>2. n \in Nat
  OBVIOUS
<1>3. ops \in Seq(OperationType) /\ Len(ops) = n
  BY <1>1, <1>2
<1>4. n # 0
  BY <1>2, <1>3
<1>5. 1 \in DOMAIN ops
  BY <1>1, <1>2, <1>4
<1> DEFINE queued == AddedOps(ops)
<1>6. queued = [i \in 1..n |-> IF ops[i].type = "remote" THEN Simple("syncremote") ELSE ops[i]]
  BY <1>1 DEF AddedOps
<1>7. Head(queued) = queued[1]
  OBVIOUS
<1>8. queued[1].type # "remote"
  BY <1>2, <1>4, <1>6 DEF Simple
<1>9. DOMAIN queued # {}
  <2>1. DOMAIN queued = 1..n
    BY <1>6
  <2> QED
    BY <1>2, <1>4, <2>1
<1>10. queued # <<>>
  BY <1>9
<1> QED
  BY <1>7, <1>8, <1>10

LEMMA AfterWholeFacts ==
  ASSUME IsPerform(perform)
  PROVE  /\ IsPerform(AfterWhole) /\ AfterWhole.at \in {"frames", "end"}
         /\ AfterWhole.fname = perform.fname
<1>1. PICK at : at = IF perform.count < Len(LocalOps(video.ops)) THEN "frames" ELSE "end"
  OBVIOUS
<1>2. AfterWhole = [perform EXCEPT !.count = @ + 1, !.id = perform.fname, !.at = at]
  BY <1>1, Zenon DEF AfterWhole
<1>3. AfterWhole = [at |-> at, count |-> perform.count + 1, id |-> perform.fname,
                    fname |-> perform.fname]
  BY <1>2 DEF IsPerform
<1> QED
  BY <1>1, <1>3 DEF IsPerform

-----------------------------------------------------------------------------
(* Each step.                                                              *)

LEMMA VideoInitially ==
  VideoInit => VideoInv
<1> SUFFICES ASSUME VideoInit
             PROVE  VideoInv
  OBVIOUS
<1>1. DOMAIN files = {}
  BY DEF VideoInit
<1>2. FilesFit(files)
  BY <1>1 DEF FilesFit
<1>3. IsVideo(video) /\ IsPerform(perform)
  BY DEF VideoInit, IsVideo, IsPerform, NoVideo, NotPerforming
<1>4. Careful(perform, video, command.name)
  BY DEF VideoInit, Careful, NotPerforming
<1>5. Source(files, video, command.name, command.frames)
  BY <1>1 DEF VideoInit, Source
<1> QED
  BY <1>2, <1>3, <1>4, <1>5 DEF VideoInv

\* a step that works on temporary files, and goes on in its own way
LEMMA StepKeeps ==
  ASSUME VideoInv, command' = command, FilesFit(files'), IsVideo(video'), IsPerform(perform'),
         Careful(perform', video', command.name),
         Source(files', video', command.name, command.frames)
  PROVE  VideoInv'
  BY DEF VideoInv

\* what no longer concerns the video that is worked on
LEMMA SourceOf ==
  ASSUME NEW fs, NEW v, NEW w, NEW name, NEW frames, Source(fs, v, name, frames),
         w.id = v.id, w.noBlob = v.noBlob
  PROVE  Source(fs, w, name, frames)
  BY DEF Source

LEMMA AddVideoKeeps ==
  ASSUME VideoInv, AddVideo
  PROVE  VideoInv'
<1>1. PICK n \in Lengths, ops \in OpLists, where \in {"blob", "local", "path"}, id \in {Upload, UserFile} :
        /\ command.name = "none" /\ id = IF where = "blob" THEN Upload ELSE UserFile
        /\ command' = [name |-> "AddVideo", frames |-> Original(n), ops |-> AddedOps(ops)]
        /\ files' = Written(files, id, Original(n))
        /\ video' = [NoVideo EXCEPT !.id = id, !.noBlob = where = "path", !.ops = AddedOps(ops)]
        /\ perform' = IF ops = <<>> THEN [NotPerforming EXCEPT !.at = "store"] ELSE Executing(video')
  BY Zenon DEF AddVideo
<1>2. PICK frames : frames = Original(n)
  OBVIOUS
<1>3. id \in Nat /\ (where = "path" => id = UserFile) /\ (id = UserFile \/ id # UserFile)
  BY <1>1 DEF Upload, UserFile
<1>4. FilesFit(files) /\ DOMAIN files = {}
  BY <1>1 DEF VideoInv, Source
<1>5. FilesFit(files')
  BY <1>1, <1>3, <1>4, WrittenFit
<1>6. DOMAIN files' = {id} /\ files'[id] = frames
  <2>1. Replaces(files', files, id, frames)
    BY <1>1, <1>2, WrittenFacts
  <2> QED
    BY <1>4, <2>1 DEF Replaces
<1>7. command'.name = "AddVideo" /\ command'.frames = frames
  BY <1>1, <1>2
<1>8. PICK noBlob \in BOOLEAN : noBlob = (where = "path")
  OBVIOUS
<1>9. video' = [id |-> id, noBlob |-> noBlob, operated |-> 0, ops |-> AddedOps(ops), error |-> FALSE]
  BY <1>1, <1>8 DEF NoVideo
<1>10. IsVideo(video') /\ video'.id = id /\ video'.noBlob = noBlob /\ video'.ops = AddedOps(ops)
  BY <1>9 DEF IsVideo
<1>11. /\ IsPerform(perform') /\ perform'.at \in {"store", "respond", "frames"}
  <2>1. CASE ops = <<>>
    BY <1>1, <2>1 DEF NotPerforming, IsPerform
  <2>2. CASE ops # <<>>
    <3>1. AddedOps(ops) # <<>> /\ Head(AddedOps(ops)).type # "remote"
      BY <2>2, AddedFacts
    <3>2. perform' = Executing(video')
      BY <1>1, <2>2
    <3> QED
      BY <1>10, <3>1, <3>2, ExecutingFacts
  <2> QED
    BY <2>1, <2>2
<1>12. Careful(perform', video', "AddVideo")
  BY <1>11 DEF Careful
<1>13. Source(files', video', "AddVideo", frames)
  BY <1>3, <1>6, <1>8, <1>10 DEF Source
<1> QED
  BY <1>5, <1>7, <1>10, <1>11, <1>12, <1>13 DEF VideoInv

\* a file in the data store that is read
LEMMA StoredSource ==
  ASSUME NEW fs, NEW frames, NEW v, NEW name \in {"FindVideo", "FindFrames"}, DOMAIN fs = {}
  PROVE  /\ Source(Written(fs, Store, frames), v, name, frames)
         /\ FilesFit(fs) => FilesFit(Written(fs, Store, frames))
<1>1. PICK ws : ws = Written(fs, Store, frames)
  OBVIOUS
<1>2. Replaces(ws, fs, Store, frames)
  BY <1>1, WrittenFacts
<1>3. Source(ws, v, name, frames)
  BY <1>2 DEF Replaces, Source, Store, UserFile
<1>4. Store \in Nat
  BY DEF Store
<1> QED
  BY <1>1, <1>3, <1>4, WrittenFit

LEMMA FindVideoKeeps ==
  ASSUME VideoInv, FindVideo
  PROVE  VideoInv'
<1>1. PICK n, ops :
        /\ command.name = "none"
        /\ command' = [name |-> "FindVideo", frames |-> Original(n), ops |-> ops]
        /\ files' = Written(files, Store, Original(n))
        /\ video' = [NoVideo EXCEPT !.id = Store, !.ops = ops]
        /\ perform' = Executing(video')
  BY Zenon DEF FindVideo
<1>2. PICK frames : frames = Original(n)
  OBVIOUS
<1>3. FilesFit(files) /\ DOMAIN files = {}
  BY <1>1 DEF VideoInv, Source
<1>4. FilesFit(files') /\ Source(files', video', "FindVideo", frames)
  BY <1>1, <1>2, <1>3, StoredSource
<1>5. command'.name = "FindVideo" /\ command'.frames = frames
  BY <1>1, <1>2
<1>6. video' = [id |-> Store, noBlob |-> FALSE, operated |-> 0, ops |-> ops, error |-> FALSE]
  BY <1>1 DEF NoVideo
<1>7. IsVideo(video') /\ video'.operated # Store
  BY <1>6 DEF IsVideo, Store
<1>8. IsPerform(perform') /\ perform'.at \in {"respond", "encode", "remote", "frames"}
  BY <1>1, <1>7, ExecutingFacts
<1>9. Careful(perform', video', "FindVideo")
  BY <1>7, <1>8 DEF Careful
<1> QED
  BY <1>4, <1>5, <1>7, <1>8, <1>9 DEF VideoInv

LEMMA FindFramesKeeps ==
  ASSUME VideoInv, FindFrames
  PROVE  VideoInv'
<1>1. PICK n, op :
        /\ command.name = "none"
        /\ command' = [name |-> "FindFrames", frames |-> Original(n), ops |-> <<op>>]
        /\ files' = Written(files, Store, Original(n))
        /\ video' = [NoVideo EXCEPT !.id = Store, !.operated = IF op.start < op.stop THEN Store ELSE 0]
        /\ perform' = perform
  BY Zenon DEF FindFrames
<1>2. PICK frames : frames = Original(n)
  OBVIOUS
<1>3. FilesFit(files) /\ DOMAIN files = {}
  BY <1>1 DEF VideoInv, Source
<1>4. FilesFit(files') /\ Source(files', video', "FindFrames", frames)
  BY <1>1, <1>2, <1>3, StoredSource
<1>5. command'.name = "FindFrames" /\ command'.frames = frames
  BY <1>1, <1>2
<1>6. IsVideo(video')
  <2>1. PICK operated : operated = IF op.start < op.stop THEN Store ELSE 0
    OBVIOUS
  <2>2. video' = [id |-> Store, noBlob |-> FALSE, operated |-> operated, ops |-> <<>>, error |-> FALSE]
    BY <1>1, <2>1 DEF NoVideo
  <2> QED
    BY <2>2 DEF IsVideo
<1>7. IsPerform(perform) /\ perform.at = "idle"
  BY <1>1 DEF VideoInv, Careful
<1>8. Careful(perform', video', "FindFrames")
  BY <1>1, <1>7 DEF Careful
<1> QED
  BY <1>1, <1>4, <1>5, <1>6, <1>7, <1>8 DEF VideoInv

LEMMA Unpacked ==
  ASSUME VideoInv
  PROVE  /\ FilesFit(files) /\ IsVideo(video) /\ IsPerform(perform)
         /\ Careful(perform, video, command.name)
         /\ Source(files, video, command.name, command.frames)
         /\ video.error \in BOOLEAN /\ video.noBlob \in BOOLEAN
         /\ video = [id |-> video.id, noBlob |-> video.noBlob, operated |-> video.operated,
                     ops |-> video.ops, error |-> video.error]
         /\ perform = [at |-> perform.at, count |-> perform.count, id |-> perform.id,
                       fname |-> perform.fname]
  BY DEF VideoInv, IsVideo, IsPerform

LEMMA StorePlainKeeps ==
  ASSUME VideoInv, StorePlain
  PROVE  VideoInv'
<1>1. /\ perform.at = "store" /\ command.name = "AddVideo"
      /\ perform' = [perform EXCEPT !.at = "respond"] /\ command' = command
  BY DEF StorePlain, VideoInv, Careful
<1>2. IsPerform(perform') /\ perform'.at = "respond"
  <2>1. perform' = [at |-> "respond", count |-> perform.count, id |-> perform.id,
                    fname |-> perform.fname]
    BY <1>1, Unpacked
  <2> QED
    BY <2>1 DEF IsPerform
<1>3. ASSUME NEW v
      PROVE  Careful(perform', v, command.name)
  BY <1>1, <1>2 DEF Careful
<1>4. CASE video.noBlob
  <2>1. files' = files /\ video' = video
    BY <1>4 DEF StorePlain
  <2>2. IsVideo(video') /\ FilesFit(files') /\ Source(files', video', command.name, command.frames)
    BY <2>1, Unpacked
  <2> QED
    BY <1>1, <1>2, <1>3, <2>2, StepKeeps
<1>5. CASE ~video.noBlob
  <2>1. PICK rest : rest = Unlinked(files, Upload)
    OBVIOUS
  <2>2. PICK failed \in BOOLEAN : failed = (FramesOf(video.id) = <<>>)
    OBVIOUS
  <2>3. PICK frames : frames = files[video.id]
    OBVIOUS
  <2>4. /\ files' = IF failed THEN rest ELSE Written(rest, Store, frames)
        /\ video' = [video EXCEPT !.id = Store, !.error = failed]
    BY <1>5, <2>1, <2>2, <2>3 DEF StorePlain
  <2>5. video' = [id |-> Store, noBlob |-> video.noBlob, operated |-> video.operated,
                  ops |-> video.ops, error |-> failed]
    BY <2>4, Unpacked
  <2>6. IsVideo(video') /\ video'.id = Store /\ video'.noBlob = video.noBlob
    BY <2>5, Unpacked DEF IsVideo
  <2>7. FilesFit(rest) /\ Source(rest, video, command.name, command.frames)
    <3>1. Upload # UserFile
      BY DEF Upload, UserFile
    <3> QED
      BY <1>1, <2>1, <3>1, Unpacked, UnlinkedFit, UnlinkedSource
  <2>8. Store \in Nat /\ Store # UserFile
    BY DEF Store, UserFile
  <2>9. FilesFit(files')
    BY <2>4, <2>7, <2>8, WrittenFit
  <2>10. /\ UserFile \in DOMAIN files' => UserFile \in DOMAIN rest
         /\ UserFile \in DOMAIN rest => files'[UserFile] = rest[UserFile]
    <3>1. PICK ws : ws = Written(rest, Store, frames)
      OBVIOUS
    <3>2. Replaces(ws, rest, Store, frames)
      BY <3>1, WrittenFacts
    <3> QED
      BY <2>4, <2>8, <3>1, <3>2 DEF Replaces
  <2>11. Source(files', video', command.name, command.frames)
    BY <1>1, <1>5, <2>6, <2>7, <2>8, <2>10 DEF Source
  <2> QED
    BY <1>1, <1>2, <1>3, <2>6, <2>9, <2>11, StepKeeps
<1> QED
  BY <1>4, <1>5, Unpacked

LEMMA FrameOperationsKeeps ==
  ASSUME VideoInv, FrameOperations
  PROVE  VideoInv'
<1>1. PICK f : f = Fresh
  OBVIOUS
<1>2. f \in Nat /\ f > Store
  BY <1>1, FreshFacts, Unpacked
<1>3. /\ perform.at = "frames" /\ command' = command /\ video' = video
      /\ command.name \in {"AddVideo", "FindVideo"}
  BY DEF FrameOperations, VideoInv, Careful
<1>4. PICK frames : files' \in {files, Written(files, f, frames)}
  BY <1>1, Zenon DEF FrameOperations
<1>5. PICK count, at : /\ perform' = [perform EXCEPT !.count = count, !.fname = f, !.at = at]
                       /\ at \in {"whole", "end"}
  BY <1>1, Zenon DEF FrameOperations
<1>6. perform' = [at |-> at, count |-> count, id |-> perform.id, fname |-> f]
  BY <1>5, Unpacked
<1>7. IsPerform(perform') /\ perform'.at \in {"whole", "end"} /\ perform'.fname = f
  BY <1>5, <1>6 DEF IsPerform
<1>8. Careful(perform', video', command.name)
  BY <1>2, <1>3, <1>7 DEF Careful
<1>9. FilesFit(files') /\ Source(files', video', command.name, command.frames)
  <2>1. FilesFit(Written(files, f, frames))
    BY <1>2, Unpacked, WrittenFit
  <2>2. Source(Written(files, f, frames), video, command.name, command.frames)
    BY <1>2, <1>3, Unpacked, WrittenSource
  <2> QED
    BY <1>3, <1>4, <2>1, <2>2, Unpacked
<1> QED
  BY <1>3, <1>7, <1>8, <1>9, Unpacked, StepKeeps

LEMMA FrameOperationsFailKeeps ==
  ASSUME VideoInv, FrameOperationsFail
  PROVE  VideoInv'
<1>1. PICK f : f = Fresh
  OBVIOUS
<1>2. f \in Nat /\ f > Store
  BY <1>1, FreshFacts, Unpacked
<1>3. /\ perform.at = "frames" /\ command' = command
      /\ command.name \in {"AddVideo", "FindVideo"}
  BY DEF FrameOperationsFail, VideoInv, Careful
<1>4. files' \in {files, Written(files, f, <<>>)}
  BY <1>1, Zenon DEF FrameOperationsFail
<1>5. perform' = [perform EXCEPT !.at = "respond"] /\ video' = [video EXCEPT !.error = TRUE]
  BY Zenon DEF FrameOperationsFail
<1>6. perform' = [at |-> "respond", count |-> perform.count, id |-> perform.id,
                  fname |-> perform.fname]
  BY <1>5, Unpacked
<1>7. IsPerform(perform') /\ perform'.at = "respond"
  BY <1>6 DEF IsPerform
<1>8. video' = [id |-> video.id, noBlob |-> video.noBlob, operated |-> video.operated,
                ops |-> video.ops, error |-> TRUE]
  BY <1>5, Unpacked
<1>9. IsVideo(video') /\ video'.id = video.id /\ video'.noBlob = video.noBlob
  BY <1>8, Unpacked DEF IsVideo
<1>10. Careful(perform', video', command.name)
  BY <1>3, <1>7 DEF Careful
<1>11. FilesFit(files') /\ Source(files', video, command.name, command.frames)
  <2>1. FilesFit(Written(files, f, <<>>))
    BY <1>2, Unpacked, WrittenFit
  <2>2. Source(Written(files, f, <<>>), video, command.name, command.frames)
    BY <1>2, <1>3, Unpacked, WrittenSource
  <2> QED
    BY <1>4, <2>1, <2>2, Unpacked
<1>12. Source(files', video', command.name, command.frames)
  BY <1>9, <1>11, SourceOf
<1> QED
  BY <1>3, <1>7, <1>9, <1>10, <1>11, <1>12, StepKeeps

\* an operation on a whole video writes or removes the file it was given
LEMMA WholeKeeps ==
  ASSUME VideoInv, perform.at = "whole", command' = command,
         perform' = AfterWhole, NEW frames,
         files' \in {files, Written(files, perform.fname, frames), Unlinked(files, perform.fname)},
         NEW error \in BOOLEAN, video' = [video EXCEPT !.error = error]
  PROVE  VideoInv'
<1>1. PICK f : f = perform.fname
  OBVIOUS
<1>2. f \in Nat /\ f > Store /\ command.name \in {"AddVideo", "FindVideo"}
  BY <1>1 DEF VideoInv, Careful
<1>3. f # Store /\ f # UserFile
  BY <1>2 DEF Store, UserFile
<1>4. video' = [id |-> video.id, noBlob |-> video.noBlob, operated |-> video.operated,
                ops |-> video.ops, error |-> error]
  BY Unpacked
<1>5. IsVideo(video') /\ video'.id = video.id /\ video'.noBlob = video.noBlob
  BY <1>4, Unpacked DEF IsVideo
<1>6. /\ IsPerform(perform') /\ perform'.at \in {"frames", "end"} /\ perform'.fname = f
  BY <1>1, AfterWholeFacts, Unpacked
<1>7. Careful(perform', video', command.name)
  BY <1>2, <1>6 DEF Careful
<1>8. FilesFit(files') /\ Source(files', video, command.name, command.frames)
  <2>1. FilesFit(Written(files, f, frames)) /\ FilesFit(Unlinked(files, f))
    BY <1>2, Unpacked, WrittenFit, UnlinkedFit
  <2>2. Source(Written(files, f, frames), video, command.name, command.frames)
    BY <1>2, Unpacked, WrittenSource
  <2>3. Source(Unlinked(files, f), video, command.name, command.frames)
    BY <1>3, Unpacked, UnlinkedSource
  <2> QED
    BY <1>1, <2>1, <2>2, <2>3, Unpacked
<1>9. Source(files', video', command.name, command.frames)
  BY <1>5, <1>8, SourceOf
<1> QED
  BY <1>5, <1>6, <1>7, <1>8, <1>9, StepKeeps

LEMMA IntervalKeeps ==
  ASSUME VideoInv, IntervalOperation
  PROVE  VideoInv'
<1>1. /\ perform.at = "whole" /\ command' = command /\ perform' = AfterWhole
  BY Zenon DEF IntervalOperation
<1>2. PICK frames : files' \in {files, Written(files, perform.fname, frames)}
  BY Zenon DEF IntervalOperation
<1>3. \E error \in BOOLEAN : video' = [video EXCEPT !.error = error]
  <2>1. video' = video \/ video' = [video EXCEPT !.error = TRUE]
    BY Zenon DEF IntervalOperation
  <2>2. video = [video EXCEPT !.error = video.error]
    BY Unpacked
  <2> QED
    BY <2>1, <2>2, Unpacked
<1> QED
  BY <1>1, <1>2, <1>3, WholeKeeps

LEMMA SyncRemoteKeeps ==
  ASSUME VideoInv, SyncRemoteOperation
  PROVE  VideoInv'
<1>1. /\ perform.at = "whole" /\ command' = command /\ perform' = AfterWhole
  BY Zenon DEF SyncRemoteOperation
<1>2. PICK frames :
        files' \in {files, Written(files, perform.fname, frames), Unlinked(files, perform.fname)}
  BY Zenon DEF SyncRemoteOperation
<1>3. \E error \in BOOLEAN : video' = [video EXCEPT !.error = error]
  <2>1. \E outcome : video' = [video EXCEPT !.error =
                       @ \/ ~(outcome = "video" /\ FramesOf(perform.id) # <<>>)]
    BY Zenon DEF SyncRemoteOperation
  <2>2. PICK outcome : video' = [video EXCEPT !.error =
                         @ \/ ~(outcome = "video" /\ FramesOf(perform.id) # <<>>)]
    BY <2>1
  <2>3. PICK error \in BOOLEAN :
          error = (video.error \/ ~(outcome = "video" /\ FramesOf(perform.id) # <<>>))
    OBVIOUS
  <2>4. video' = [video EXCEPT !.error = error]
    BY <2>2, <2>3
  <2> QED
    BY <2>4
<1> QED
  BY <1>1, <1>2, <1>3, WholeKeeps

LEMMA OnNothingKeeps ==
  ASSUME VideoInv, FrameOperationOnNothing
  PROVE  VideoInv'
<1>1. /\ perform.at = "whole" /\ command' = command /\ files' = files
      /\ command.name \in {"AddVideo", "FindVideo"}
  BY DEF FrameOperationOnNothing, VideoInv, Careful
<1>2. CASE perform' = AfterWhole /\ video' = video
  <2>1. video' = [video EXCEPT !.error = video.error]
    BY <1>2, Unpacked
  <2> QED
    BY <1>1, <1>2, <2>1, Unpacked, WholeKeeps
<1>3. CASE /\ video' = [video EXCEPT !.error = TRUE]
           /\ perform' = [perform EXCEPT !.at = "respond"]
  <2>1. video' = [id |-> video.id, noBlob |-> video.noBlob, operated |-> video.operated,
                  ops |-> video.ops, error |-> TRUE]
    BY <1>3, Unpacked
  <2>2. IsVideo(video') /\ video'.id = video.id /\ video'.noBlob = video.noBlob
    BY <2>1, Unpacked DEF IsVideo
  <2>3. perform' = [at |-> "respond", count |-> perform.count, id |-> perform.id,
                    fname |-> perform.fname]
    BY <1>3, Unpacked
  <2>4. IsPerform(perform') /\ perform'.at = "respond"
    BY <2>3 DEF IsPerform
  <2>5. Careful(perform', video', command.name)
    BY <1>1, <2>4 DEF Careful
  <2>6. FilesFit(files') /\ Source(files', video', command.name, command.frames)
    BY <1>1, <2>2, Unpacked, SourceOf
  <2> QED
    BY <1>1, <2>2, <2>4, <2>5, <2>6, StepKeeps
<1> QED
  BY <1>2, <1>3, Zenon DEF FrameOperationOnNothing

LEMMA EndKeeps ==
  ASSUME VideoInv, EndPerform
  PROVE  VideoInv'
<1>1. PICK f : f = perform.fname
  OBVIOUS
<1>2. /\ perform.at = "end" /\ command' = command /\ command.name \in {"AddVideo", "FindVideo"}
      /\ f \in Nat /\ f > Store
  BY <1>1 DEF EndPerform, VideoInv, Careful
<1>3. f # Store /\ f # UserFile /\ f # Upload /\ Upload # UserFile /\ Store # UserFile
  BY <1>2 DEF Store, UserFile, Upload
<1>4. CASE command.name = "AddVideo"
  <2>1. PICK rest : rest = Unlinked(files, Upload)
    OBVIOUS
  <2>2. PICK target : target = IF video.noBlob THEN video.id ELSE Store
    OBVIOUS
  <2>3. PICK exists \in BOOLEAN : exists = (f \in DOMAIN files)
    <3>1. CASE f \in DOMAIN files
      <4>1. (f \in DOMAIN files) = TRUE
        BY <3>1
      <4> QED
        BY <4>1, Zenon
    <3>2. CASE f \notin DOMAIN files
      <4>1. (f \in DOMAIN files) = FALSE
        BY <3>2
      <4> QED
        BY <4>1, Zenon
    <3> QED
      BY <3>1, <3>2
  <2>4. PICK ws : ws = Written(rest, target, rest[f])
    OBVIOUS
  <2>5. /\ files' = IF exists THEN Unlinked(ws, f) ELSE rest
        /\ video' = [video EXCEPT !.ops = <<>>, !.error = @ \/ ~exists]
        /\ perform' = [perform EXCEPT !.at = "respond"]
    BY <1>1, <1>4, <2>1, <2>2, <2>3, <2>4, Zenon DEF EndPerform, Renamed, Adding
  <2>6. PICK error \in BOOLEAN : error = (video.error \/ ~exists)
    OBVIOUS
  <2>7. video' = [id |-> video.id, noBlob |-> video.noBlob, operated |-> video.operated,
                  ops |-> <<>>, error |-> error]
    BY <2>5, <2>6, Unpacked
  <2>8. IsVideo(video') /\ video'.id = video.id /\ video'.noBlob = video.noBlob
    BY <2>7, Unpacked DEF IsVideo
  <2>9. perform' = [at |-> "respond", count |-> perform.count, id |-> perform.id,
                    fname |-> perform.fname]
    BY <2>5, Unpacked
  <2>10. IsPerform(perform') /\ perform'.at = "respond"
    BY <2>9 DEF IsPerform
  <2>11. Careful(perform', video', command.name)
    BY <1>2, <2>10 DEF Careful
  <2>12. FilesFit(rest) /\ Source(rest, video, command.name, command.frames)
    BY <1>3, <1>4, <2>1, Unpacked, UnlinkedFit, UnlinkedSource
  <2>13. target \in Nat /\ (target = UserFile => video.noBlob) /\ target \in {Store, UserFile}
    <3>1. video.noBlob => video.id = UserFile
      BY <1>4, <2>12 DEF Source
    <3> QED
      BY <1>3, <2>2, <3>1, Unpacked DEF Store, UserFile
  <2>14. FilesFit(ws)
    BY <2>4, <2>12, <2>13, WrittenFit
  <2>15. Source(ws, video, command.name, command.frames)
    <3>1. Replaces(ws, rest, target, rest[f])
      BY <2>4, WrittenFacts
    <3> QED
      BY <1>3, <1>4, <2>12, <2>13, <3>1, Unpacked DEF Replaces, Source
  <2>16. FilesFit(Unlinked(ws, f)) /\ Source(Unlinked(ws, f), video, command.name, command.frames)
    BY <1>3, <1>4, <2>14, <2>15, UnlinkedFit, UnlinkedSource
  <2>17. FilesFit(files') /\ Source(files', video, command.name, command.frames)
    BY <2>5, <2>12, <2>16
  <2>18. Source(files', video', command.name, command.frames)
    BY <2>8, <2>17, SourceOf
  <2> QED
    BY <1>2, <2>8, <2>10, <2>11, <2>17, <2>18, StepKeeps
<1>5. CASE command.name # "AddVideo"
  <2>1. /\ files' = files /\ video' = [video EXCEPT !.ops = RemainingOps(@), !.operated = f]
        /\ perform' = Executing(video')
    BY <1>1, <1>5, Zenon DEF EndPerform, Adding
  <2>2. PICK ops : ops = RemainingOps(video.ops)
    OBVIOUS
  <2>3. video' = [id |-> video.id, noBlob |-> video.noBlob, operated |-> f,
                  ops |-> ops, error |-> video.error]
    BY <2>1, <2>2, Unpacked
  <2>4. /\ IsVideo(video') /\ video'.id = video.id /\ video'.noBlob = video.noBlob
        /\ video'.operated = f
    BY <2>3, Unpacked DEF IsVideo
  <2>5. IsPerform(perform') /\ perform'.at \in {"respond", "encode", "remote", "frames"}
    BY <2>1, <2>4, ExecutingFacts
  <2>6. Careful(perform', video', command.name)
    BY <1>2, <1>3, <1>5, <2>4, <2>5 DEF Careful
  <2>7. FilesFit(files') /\ Source(files', video', command.name, command.frames)
    BY <2>1, <2>4, Unpacked, SourceOf, ZenonT(60)
  <2> QED
    BY <1>2, <2>4, <2>5, <2>6, <2>7, StepKeeps
<1> QED
  BY <1>4, <1>5

LEMMA RemoteOperationKeeps ==
  ASSUME VideoInv, RemoteOperation
  PROVE  VideoInv'
<1>1. PICK operated : operated = IF video.operated = 0 THEN video.id ELSE video.operated
  OBVIOUS
<1>2. PICK ops : ops = Tail(video.ops)
  OBVIOUS
<1>3. /\ perform.at = "remote" /\ command' = command /\ files' = files
      /\ command.name = "FindVideo"
      /\ video' = [video EXCEPT !.operated = operated, !.ops = ops]
      /\ perform' = [perform EXCEPT !.at = "sent"]
  BY <1>1, <1>2, Unpacked DEF RemoteOperation, VideoInv, Careful
<1>4. video' = [id |-> video.id, noBlob |-> video.noBlob, operated |-> operated,
                ops |-> ops, error |-> video.error]
  BY <1>3, Unpacked
<1>5. IsVideo(video') /\ video'.id = video.id /\ video'.noBlob = video.noBlob
  BY <1>4, Unpacked DEF IsVideo
<1>6. perform' = [at |-> "sent", count |-> perform.count, id |-> perform.id,
                  fname |-> perform.fname]
  BY <1>3, Unpacked
<1>7. IsPerform(perform') /\ perform'.at = "sent"
  BY <1>6 DEF IsPerform
<1>8. Careful(perform', video', command.name)
  BY <1>3, <1>7 DEF Careful
<1>9. FilesFit(files') /\ Source(files', video', command.name, command.frames)
  BY <1>3, <1>5, Unpacked, SourceOf
<1> QED
  BY <1>3, <1>5, <1>7, <1>8, <1>9, StepKeeps

\* without an answer the video has an error, so that what was sent is not taken for the
\* result, and removed
LEMMA RemoteResponseKeeps ==
  ASSUME VideoInv, RemoteResponse
  PROVE  VideoInv'
<1>1. PICK f : f = Fresh
  OBVIOUS
<1>2. f \in Nat /\ f > Store
  BY <1>1, FreshFacts, Unpacked
<1>3. /\ perform.at = "sent" /\ command' = command /\ perform' = Executing(video')
      /\ command.name = "FindVideo" /\ f # Store
  BY <1>2 DEF RemoteResponse, VideoInv, Careful, Store
<1>4. PICK frames : \/ /\ files' = Written(files, f, frames)
                       /\ video' = [video EXCEPT !.operated = f]
                    \/ files' = files /\ video' = RemoteFailed(video)
  BY <1>1, Zenon DEF RemoteResponse
<1>5. CASE files' = Written(files, f, frames) /\ video' = [video EXCEPT !.operated = f]
  <2>1. video' = [id |-> video.id, noBlob |-> video.noBlob, operated |-> f,
                  ops |-> video.ops, error |-> video.error]
    BY <1>5, Unpacked
  <2>2. /\ IsVideo(video') /\ video'.id = video.id /\ video'.noBlob = video.noBlob
        /\ video'.operated = f
    BY <2>1, Unpacked DEF IsVideo
  <2>3. IsPerform(perform') /\ perform'.at \in {"respond", "encode", "remote", "frames"}
    BY <1>3, <2>2, ExecutingFacts
  <2>4. Careful(perform', video', command.name)
    BY <1>3, <2>2, <2>3 DEF Careful
  <2>5. FilesFit(files') /\ Source(files', video, command.name, command.frames)
    BY <1>2, <1>3, <1>5, Unpacked, WrittenFit, WrittenSource
  <2>6. Source(files', video', command.name, command.frames)
    BY <2>2, <2>5, SourceOf
  <2> QED
    BY <1>3, <2>2, <2>3, <2>4, <2>5, <2>6, StepKeeps
<1>6. CASE files' = files /\ video' = RemoteFailed(video)
  <2>1. video' = [id |-> video.id, noBlob |-> video.noBlob, operated |-> video.operated,
                  ops |-> video.ops, error |-> TRUE]
    BY <1>6, Unpacked DEF RemoteFailed
  <2>2. /\ IsVideo(video') /\ video'.id = video.id /\ video'.noBlob = video.noBlob
        /\ video'.error
    BY <2>1, Unpacked DEF IsVideo
  <2>3. IsPerform(perform') /\ perform'.at = "respond"
    BY <1>3, <2>2, ExecutingFacts
  <2>4. Careful(perform', video', command.name)
    BY <1>3, <2>3 DEF Careful
  <2>5. FilesFit(files') /\ Source(files', video', command.name, command.frames)
    BY <1>6, <2>2, Unpacked, SourceOf
  <2> QED
    BY <1>3, <2>2, <2>3, <2>4, <2>5, StepKeeps
<1> QED
  BY <1>4, <1>5, <1>6

LEMMA GetEncodedKeeps ==
  ASSUME VideoInv, GetEncoded
  PROVE  VideoInv'
<1>1. PICK f : f = video.operated
  OBVIOUS
<1>2. /\ perform.at = "encode" /\ command' = command /\ command.name = "FindVideo" /\ f # Store
      /\ files' = Unlinked(files, f) /\ video' = video /\ perform' = NotPerforming
  BY <1>1 DEF GetEncoded, VideoInv, Careful
<1>3. IsPerform(perform') /\ perform'.at = "idle"
  BY <1>2 DEF NotPerforming, IsPerform
<1>4. Careful(perform', video', command.name)
  BY <1>3 DEF Careful
<1>5. FilesFit(files')
  BY <1>2, Unpacked, UnlinkedFit
<1>6. Source(files', video', command.name, command.frames)
  <2>1. PICK us : us = Unlinked(files, f)
    OBVIOUS
  <2>2. /\ DOMAIN us = DOMAIN files \ {f}
        /\ \A g \in DOMAIN files : g # f => us[g] = files[g]
    BY <2>1, UnlinkedFacts, Zenon
  <2> QED
    BY <1>2, <2>1, <2>2, Unpacked DEF Source
<1> QED
  BY <1>2, <1>3, <1>4, <1>5, <1>6, Unpacked, StepKeeps

LEMMA RespondKeeps ==
  ASSUME VideoInv, RespondVideo
  PROVE  VideoInv'
<1>1. command' = command /\ files' = files /\ video' = video /\ perform' = NotPerforming
  BY DEF RespondVideo
<1>2. IsPerform(perform') /\ perform'.at = "idle"
  BY <1>1 DEF NotPerforming, IsPerform
<1>3. Careful(perform', video', command.name)
  BY <1>2 DEF Careful
<1> QED
  BY <1>1, <1>2, <1>3, Unpacked, StepKeeps

-----------------------------------------------------------------------------
(* The theorems.                                                           *)

\* What is written, renamed or removed while a video is worked on is a temporary file, the
\* upload, or the destination of the command, for any operations on videos of any length.
THEOREM VideoInductive == VideoSpec => []VideoInv
<1>1. VideoInv /\ [VideoNext]_videoVars => VideoInv'
  <2> SUFFICES ASSUME VideoInv, [VideoNext]_videoVars
               PROVE  VideoInv'
    OBVIOUS
  <2>1. CASE UNCHANGED videoVars
    BY <2>1, Unpacked, StepKeeps DEF videoVars
  <2> QED
    BY <2>1, AddVideoKeeps, FindVideoKeeps, FindFramesKeeps, StorePlainKeeps,
       FrameOperationsKeeps, FrameOperationsFailKeeps, IntervalKeeps, SyncRemoteKeeps,
       OnNothingKeeps, EndKeeps, RemoteOperationKeeps, RemoteResponseKeeps,
       GetEncodedKeeps, RespondKeeps DEF VideoNext
<1> QED
  BY <1>1, VideoInitially, PTL DEF VideoSpec

\* Returning a video or its frames neither removes nor changes the file in the data store,
\* although the file that is returned is removed (Video.cc, get_encoded) and may be the one
\* that was sent to a remote server; adding a copy of a local file leaves that file.
THEOREM SourceStays == VideoSpec => []SourceKept
<1>1. VideoInv => SourceKept
  <2> SUFFICES ASSUME VideoInv
               PROVE  SourceKept
    OBVIOUS
  <2>1. Source(files, video, command.name, command.frames)
    BY DEF VideoInv
  <2>2. UserFile \in DOMAIN files => command.name = "AddVideo"
    BY <2>1 DEF Source
  <2> QED
    BY <2>1, <2>2 DEF Source, SourceKept, FramesOf, Adding
<1> QED
  BY <1>1, VideoInductive, PTL

-----------------------------------------------------------------------------

-----------------------------------------------------------------------------
(* The operations of a video, one after the other: the invariant.          *)

Types == {"resize", "threshold", "syncremote", "remote", "interval"}
Frame == [number : Nat, did : Seq(Types), size : {0, 1}]

\* one operation on the whole video
Step(frames, op) == IF op.type = "interval" THEN Reduced(frames, op)
                    ELSE [i \in DOMAIN frames |-> Does(frames[i], op)]

\* r is the video after each operation
IsRun(r, frames, ops) ==
  /\ r[0] = frames /\ r[Len(ops)] = OneByOne(frames, ops)
  /\ \A k \in 0..Len(ops) : r[k] \in Seq(Frame)
  /\ \A k \in 1..Len(ops) : r[k] = Step(r[k - 1], ops[k])

\* s is what is left of ops after the first k
Ends(s, ops, k) ==
  /\ s \in Seq(OperationType) /\ k \in 0..Len(ops) /\ Len(s) = Len(ops) - k
  /\ \A i \in 1..Len(s) : s[i] = ops[k + i]

IsCommand(c) ==
  /\ c.name \in {"AddVideo", "FindVideo"}
  /\ c.frames \in Seq(Frame) /\ c.ops \in Seq(OperationType)
  /\ c.name = "AddVideo" => \A i \in 1..Len(c.ops) : c.ops[i].type # "remote"

\* file f, if it exists, is the video x
May(fs, f, x) == f \in DOMAIN fs => fs[f] = x
Has(fs, f, x) == f \in DOMAIN fs /\ fs[f] = x
\* no frames can be read from file f
Void(fs, f) == f \in DOMAIN fs => fs[f] = <<>>

Source0(v) == IF v.operated = 0 THEN v.id ELSE v.operated

\* where a video stands to which nothing happened yet, k of its operations made
Stands(fs, v, p, c, r, k) ==
  /\ p.at \in {"frames", "whole", "end"} =>
       Ends(v.ops, c.ops, k) /\ (c.name = "AddVideo" => k = 0)
  /\ p.at = "frames" =>
       /\ p.count \in 1..Len(LocalOps(v.ops))
       /\ May(fs, p.id, r[k + p.count - 1])
  /\ p.at = "whole" =>
       /\ p.count \in 1..Len(LocalOps(v.ops))
       /\ \/ WholeVideo(LocalOps(v.ops)[p.count]) /\ Has(fs, p.fname, r[k + p.count - 1])
          \/ p.fname \notin DOMAIN fs /\ Void(fs, p.id)
  /\ p.at = "end" => May(fs, p.fname, r[k + Len(LocalOps(v.ops))])
  /\ p.at = "encode" => v.operated = 0 \/ May(fs, v.operated, r[Len(c.ops)])
  /\ p.at = "remote" => /\ Ends(v.ops, c.ops, k) /\ v.ops # <<>> /\ v.ops[1].type = "remote"
                        /\ May(fs, Source0(v), r[k])
  /\ p.at = "sent" => /\ Ends(v.ops, c.ops, k) /\ k >= 1 /\ c.ops[k].type = "remote"
                      /\ May(fs, v.operated, r[k - 1])
  /\ p.at = "store" => c.ops = <<>> /\ Has(fs, v.id, c.frames)
  /\ p.at = "respond" => /\ c.name = "AddVideo"
                         /\ Has(fs, IF v.noBlob THEN v.id ELSE Store, r[Len(c.ops)])

Answered(fs, v, c, resp) ==
  OneByOne(c.frames, c.ops) =
    IF c.name = "AddVideo" THEN (LET f == IF v.noBlob THEN v.id ELSE Store
                                 IN  IF f \in DOMAIN fs THEN fs[f] ELSE <<>>)
    ELSE resp.frames

OpsFit(fs, v, p, c, resp) ==
  /\ 0 \notin DOMAIN fs
  /\ resp.status = "success" => p.at = "idle" /\ c.name # "none"
  /\ resp.status = "success" /\ c.name # "FindFrames" => Answered(fs, v, c, resp)
  /\ p.at # "idle" =>
       /\ IsCommand(c)
       /\ p.at \in {"store", "encode"} => ~v.error
       /\ ~v.error => \E r, k : IsRun(r, c.frames, c.ops) /\ Stands(fs, v, p, c, r, k)

OpsInv == OpsFit(files, video, perform, command, response)

-----------------------------------------------------------------------------
(* Operations on frames.                                                   *)

LEMMA OpFacts ==
  ASSUME NEW op \in OperationType
  PROVE  op.type \in Types /\ (op.type = "interval" => op.start \in Nat)
<1>1. CASE op \in {Simple("resize"), Simple("threshold"), Simple("syncremote"), Simple("remote")}
  BY <1>1 DEF Simple, Types
<1>2. CASE op \in {Interval(1, 4, 2), Interval(2, 2, 1)}
  BY <1>2 DEF Interval, Types
<1> QED
  BY <1>1, <1>2, Zenon DEF OperationType

LEMMA DoesFacts ==
  ASSUME NEW f \in Frame, NEW op \in OperationType
  PROVE  Does(f, op) \in Frame /\ Does(f, op).size = IF op.type = "resize" THEN 1 ELSE f.size
<1>1. PICK type : type = op.type
  OBVIOUS
<1>2. type \in Types
  BY <1>1, OpFacts
<1>3. PICK n, d, s : n = f.number /\ d = f.did /\ s = f.size
  OBVIOUS
<1>4. f = [number |-> n, did |-> d, size |-> s] /\ n \in Nat /\ d \in Seq(Types) /\ s \in {0, 1}
  BY <1>3 DEF Frame
<1>5. PICK e : e = Append(d, type)
  OBVIOUS
<1>6. PICK z : z = IF type = "resize" THEN 1 ELSE s
  OBVIOUS
<1>7. Does(f, op) = [f EXCEPT !.did = e, !.size = z]
  BY <1>1, <1>3, <1>5, <1>6, Zenon DEF Does
<1>8. Does(f, op) = [number |-> n, did |-> e, size |-> z]
  BY <1>4, <1>7
<1>9. e \in Seq(Types)
  BY <1>2, <1>4, <1>5
<1>10. z \in {0, 1}
  BY <1>4, <1>6
<1>11. Does(f, op) \in Frame
  BY <1>4, <1>8, <1>9, <1>10 DEF Frame
<1>12. Does(f, op).size = z
  BY <1>8
<1> QED
  BY <1>1, <1>3, <1>6, <1>11, <1>12

\* the frames that are written are those Video.h describes, counted from 1
LEMMA ReducedIs ==
  ASSUME NEW fs \in Seq(Frame), NEW op \in OperationType, op.type = "interval"
  PROVE  Reduced(fs, op) = Sampled(fs, op)
<1>1. PICK n \in Nat : n = Len(fs) /\ DOMAIN fs = 1..n /\ \A i \in 1..n : fs[i] \in Frame
  OBVIOUS
<1>2. PICK S : S = {m \in 1..n : Chosen(m, op)}
  OBVIOUS
<1>3. IsFiniteSet(S) /\ S \subseteq Int
  BY <1>2, PartOfInterval
<1>4. PICK start, stop, step : start = op.start /\ stop = op.stop /\ step = op.step
  OBVIOUS
<1>5. \/ start = 1 /\ stop = 4 /\ step = 2
      \/ start = 2 /\ stop = 2 /\ step = 1
  <2>1. op \in {Interval(1, 4, 2), Interval(2, 2, 1)}
    BY DEF OperationType, Simple
  <2>2. CASE op = Interval(1, 4, 2)
    BY <1>4, <2>2 DEF Interval
  <2>3. CASE op = Interval(2, 2, 1)
    BY <1>4, <2>3 DEF Interval
  <2> QED
    BY <2>1, <2>2, <2>3
<1>6. S = {m \in 1..n : m >= start /\ m < stop /\ (m - start) % step = 0}
  <2>1. start # 0
    BY <1>5
  <2> QED
    BY <1>2, <1>4, <2>1, Zenon DEF Chosen, Within
<1> DEFINE last == IF stop - 1 < n THEN stop - 1 ELSE n
           rest == SubSeq(fs, start, last)
           k == (Len(rest) + step - 1) \div step
           t == [i \in 1..k |-> start + (i - 1) * step]
<1>7. Reduced(fs, op) = [i \in 1..k |-> Does(rest[(i - 1) * step + 1], op)]
  <2>1. ~(start < 1) /\ start - 1 + 1 = start
    BY <1>5
  <2> QED
    BY <1>1, <1>4, <2>1, Zenon DEF Reduced
<1>8. /\ k \in Nat /\ t \in [1..k -> S] /\ \A i, j \in 1..k : i < j => t[i] < t[j]
      /\ \A x \in S : \E i \in 1..k : t[i] = x
      /\ \A i \in 1..k : t[i] \in 1..n /\ rest[(i - 1) * step + 1] = fs[t[i]]
  <2>1. CASE start = 2
    <3>1. S = {} /\ step = 1 /\ last \in Nat /\ last < 2
      BY <1>1, <1>5, <1>6, <2>1
    <3>2. Len(rest) = 0
      <4> HIDE DEF last
      <4> QED
        BY <1>1, <2>1, <3>1
    <3>3. k = 0
      <4> HIDE DEF rest
      <4> QED
        BY <3>1, <3>2
    <3> HIDE DEF k, rest, last
    <3>4. 1..k = {} /\ k \in Nat
      BY <3>3
    <3>5. DOMAIN t = {} /\ t = [i \in 1..k |-> t[i]]
      BY <3>4
    <3> HIDE DEF t
    <3> QED
      BY <3>1, <3>4, <3>5
  <2>2. CASE start = 1
    <3>1. stop = 4 /\ step = 2 /\ last \in 0..3 /\ last <= n /\ (n > 3 => last = 3) /\ (n <= 3 => last = n)
      BY <1>1, <1>5, <2>2
    <3>2. Len(rest) = last /\ \A i \in 1..last : rest[i] = fs[i]
      <4> HIDE DEF last
      <4> QED
        BY <1>1, <2>2, <3>1
    <3>3. k = (last + 1) \div 2
      <4> HIDE DEF last, rest
      <4>1. Len(rest) + step - 1 = last + 1
        BY <3>1, <3>2
      <4> QED
        BY <3>1, <4>1
    <3>4. S = {m \in {1, 3} : m <= n}
      BY <1>6, <2>2, <3>1
    <3>5. /\ last = 0 => k = 0
          /\ last \in {1, 2} => k = 1
          /\ last = 3 => k = 2
      <4> HIDE DEF last, k
      <4> QED
        BY <3>3
    <3>6. \A i \in 1..k : i \in {1, 2}
      <4> HIDE DEF last, k
      <4> QED
        BY <3>1, <3>5
    <3>7. t = [i \in 1..k |-> 1 + (i - 1) * 2]
      BY <2>2, <3>1
    <3> HIDE DEF k, last, rest, t
    <3>8. /\ k \in {0, 1, 2} /\ (k >= 1 => t[1] = 1) /\ (k >= 2 => t[2] = 3)
          /\ (k >= 1 <=> last >= 1) /\ (k >= 2 <=> last >= 3)
      BY <3>1, <3>5, <3>7
    <3>9. t \in [1..k -> S]
      <4>1. \A i \in 1..k : t[i] \in S
        BY <3>1, <3>4, <3>6, <3>8
      <4> QED
        BY <3>7, <4>1
    <3>10. \A i, j \in 1..k : i < j => t[i] < t[j]
      BY <3>6, <3>8
    <3>11. \A x \in S : \E i \in 1..k : t[i] = x
      BY <3>1, <3>4, <3>8
    <3>12. \A i \in 1..k : t[i] \in 1..n /\ rest[(i - 1) * step + 1] = fs[t[i]]
      <4>1. ASSUME NEW i \in 1..k
            PROVE  t[i] \in 1..n /\ rest[(i - 1) * 2 + 1] = fs[t[i]]
        <5>1. CASE i = 1
          BY <3>1, <3>2, <3>8, <5>1
        <5>2. CASE i = 2
          BY <3>1, <3>2, <3>8, <5>2
        <5> QED
          BY <3>6, <5>1, <5>2
      <4> QED
        BY <3>1, <4>1
    <3> QED
      BY <3>8, <3>9, <3>10, <3>11, <3>12
  <2> QED
    BY <1>5, <2>1, <2>2
<1> HIDE DEF k, t, rest
<1>9. t = InOrder(S) /\ DOMAIN t = 1..k
  <2>1. PICK l \in Nat, u \in [1..k -> S] : l = k /\ u = t
    BY <1>8
  <2>2. u \in [1..l -> S] /\ \A i, j \in 1..l : i < j => u[i] < u[j]
    BY <1>8, <2>1
  <2>3. \A x \in S : \E i \in 1..l : u[i] = x
    BY <1>8, <2>1
  <2>4. u = InOrder(S)
    BY <1>3, <2>2, <2>3, InOrderUnique
  <2> QED
    BY <2>1, <2>4
<1>10. Sampled(fs, op) = [i \in 1..k |-> [fs[t[i]] EXCEPT !.did = Append(@, op.type)]]
  <2>1. {m \in DOMAIN fs : Chosen(m, op)} = S
    BY <1>1, <1>2
  <2> QED
    BY <1>9, <2>1, Zenon DEF Sampled
<1>11. ASSUME NEW i \in 1..k
       PROVE  Does(rest[(i - 1) * step + 1], op) = [fs[t[i]] EXCEPT !.did = Append(@, op.type)]
  <2>1. PICK f \in Frame : f = fs[t[i]] /\ f = rest[(i - 1) * step + 1]
    BY <1>1, <1>8
  <2>2. Does(f, op) = [f EXCEPT !.did = Append(@, op.type)]
    <3>1. Does(f, op) = [f EXCEPT !.did = Append(@, op.type), !.size = f.size]
      BY DEF Does
    <3>2. f = [number |-> f.number, did |-> f.did, size |-> f.size]
      BY DEF Frame
    <3> QED
      BY <3>1, <3>2
  <2> QED
    BY <2>1, <2>2
<1> QED
  BY <1>7, <1>10, <1>11

\* an interval of a video, or each frame with the operation done to it
LEMMA StepFacts ==
  ASSUME NEW fs \in Seq(Frame), NEW op \in OperationType
  PROVE  Step(fs, op) \in Seq(Frame)
<1>1. PICK n \in Nat : n = Len(fs) /\ DOMAIN fs = 1..n /\ \A i \in 1..n : fs[i] \in Frame
  OBVIOUS
<1>2. CASE op.type # "interval"
  <2>1. PICK t : t = [i \in 1..n |-> Does(fs[i], op)]
    OBVIOUS
  <2>2. t \in [1..n -> Frame]
    BY <1>1, <2>1, DoesFacts
  <2>3. t \in Seq(Frame)
    BY <2>2, SeqDef
  <2>4. Step(fs, op) = t
    BY <1>1, <1>2, <2>1 DEF Step
  <2> QED
    BY <2>3, <2>4
<1>3. CASE op.type = "interval"
  <2>1. PICK S : S = {m \in DOMAIN fs : Chosen(m, op)}
    OBVIOUS
  <2>2. S \in SUBSET (1..n)
    BY <1>1, <2>1
  <2>3. PICK ns : ns = InOrder(S)
    OBVIOUS
  <2>4. IsFiniteSet(S) /\ S \subseteq Int
    BY <2>2, PartOfInterval
  <2>5. ns \in Seq(S)
    <3>1. InOrder(S) \in Seq(S)
      BY <2>4, InOrderList
    <3> QED
      BY <2>3, <3>1
  <2>6. PICK k \in Nat : k = Len(ns) /\ DOMAIN ns = 1..k /\ \A i \in 1..k : ns[i] \in 1..n
    <3>1. Len(ns) \in Nat /\ DOMAIN ns = 1..Len(ns) /\ \A i \in 1..Len(ns) : ns[i] \in S
      BY <2>5
    <3> QED
      BY <2>2, <3>1
  <2>7. PICK t : t = [i \in 1..k |-> [fs[ns[i]] EXCEPT !.did = Append(@, op.type)]]
    OBVIOUS
  <2>8. ASSUME NEW i \in 1..k
        PROVE  t[i] \in Frame
    <3>1. PICK f : f = fs[ns[i]]
      OBVIOUS
    <3>2. f \in Frame
      BY <1>1, <2>6, <3>1
    <3>3. PICK a, d, s : a = f.number /\ d = f.did /\ s = f.size
      OBVIOUS
    <3>4. f = [number |-> a, did |-> d, size |-> s] /\ a \in Nat /\ d \in Seq(Types) /\ s \in {0, 1}
      BY <3>2, <3>3 DEF Frame
    <3>5. PICK e : e = Append(d, op.type)
      OBVIOUS
    <3>6. t[i] = [f EXCEPT !.did = Append(@, op.type)]
      BY <2>7, <3>1
    <3>7. t[i] = [f EXCEPT !.did = e]
      BY <3>3, <3>5, <3>6, Zenon
    <3>8. t[i] = [number |-> a, did |-> e, size |-> s]
      BY <3>4, <3>7
    <3>9. e \in Seq(Types)
      BY <3>4, <3>5, OpFacts
    <3> QED
      BY <3>4, <3>8, <3>9 DEF Frame
  <2>9. DOMAIN t = 1..k /\ t = [i \in 1..k |-> t[i]]
    BY <2>7
  <2>10. t \in [1..k -> Frame]
    BY <2>8, <2>9
  <2>11. t \in Seq(Frame)
    BY <2>10, SeqDef
  <2>12. Step(fs, op) = t
    <3>1. Sampled(fs, op) = t
      BY <2>1, <2>3, <2>6, <2>7, Zenon DEF Sampled
    <3> QED
      BY <1>3, <3>1, ReducedIs, Zenon DEF Step
  <2> QED
    BY <2>11, <2>12
<1> QED
  BY <1>2, <1>3

-----------------------------------------------------------------------------
(* The videos after each operation of a list, and a frame after each.      *)

IsSteps(f, b, s) ==
  f = [t \in SUBSET (DOMAIN s) |-> IF t = {} THEN b ELSE Step(f[t \ {Max(t)}], s[Max(t)])]

LEMMA OneByOneIs ==
  ASSUME NEW b, NEW s
  PROVE  OneByOne(b, s) = (CHOOSE f : IsSteps(f, b, s))[DOMAIN s]
BY DEF OneByOne, FoldLeft, MapThenFoldSet, IsSteps, Step

LEMMA OneByOneRun ==
  ASSUME NEW b \in Seq(Frame), NEW s \in Seq(OperationType)
  PROVE  \E r : IsRun(r, b, s)
<1>0. PICK n \in Nat : n = Len(s) /\ DOMAIN s = 1..n /\ \A i \in 1..n : s[i] \in OperationType
  OBVIOUS
<1>00. PICK X : X = Seq(Frame)
  OBVIOUS
<1> DEFINE F == [p \in X \X (1..n) |-> Step(p[1], s[p[2]])]
<1>1. F \in [X \X (1..n) -> X] /\ b \in X
  <2>1. \A x \in X, j \in 1..n : Step(x, s[j]) \in X
    BY <1>0, <1>00, StepFacts
  <2> QED
    BY <1>00, <2>1
<1>2. PICK g \in [SUBSET (1..n) -> X] : IsFold(g, F, b, n)
  BY <1>1, FoldExists DEF Foldable
<1>3. IsSteps(g, b, s)
  <2>1. ASSUME NEW t \in SUBSET (1..n)
        PROVE  g[t] = IF t = {} THEN b ELSE Step(g[t \ {Max(t)}], s[Max(t)])
    <3>1. CASE t = {}
      BY <1>2, <3>1 DEF IsFold
    <3>2. CASE t # {}
      <4>1. Max(t) \in 1..n /\ t \ {Max(t)} \in SUBSET (1..n)
        BY <3>2, MaxFacts
      <4>2. F[<<g[t \ {Max(t)}], Max(t)>>] = Step(g[t \ {Max(t)}], s[Max(t)])
        BY <4>1
      <4> QED
        BY <1>2, <3>2, <4>2 DEF IsFold
    <3> QED
      BY <3>1, <3>2
  <2>2. g = [t \in SUBSET (1..n) |-> g[t]]
    OBVIOUS
  <2> QED
    BY <1>0, <2>1, <2>2 DEF IsSteps
<1>4. PICK f : f = CHOOSE h : IsSteps(h, b, s)
  OBVIOUS
<1>5. IsSteps(f, b, s) /\ OneByOne(b, s) = f[1..n]
  BY <1>0, <1>3, <1>4, OneByOneIs
<1> DEFINE r == [k \in 0..n |-> f[1..k]]
<1>6. \A t \in SUBSET (1..n) :
        f[t] = IF t = {} THEN b ELSE Step(f[t \ {Max(t)}], s[Max(t)])
  BY <1>0, <1>5 DEF IsSteps
<1>7. r[0] = b /\ r[n] = f[1..n]
  <2>1. 1..0 = {} /\ {} \in SUBSET (1..n) /\ 0 \in 0..n /\ n \in 0..n
    OBVIOUS
  <2>2. f[{}] = b
    BY <1>6, <2>1
  <2> QED
    BY <2>1, <2>2
<1>8. ASSUME NEW k \in 1..n
      PROVE  r[k] = Step(r[k - 1], s[k])
  <2>0. k \in Nat /\ k # 0
    OBVIOUS
  <2>1. Max(1..k) = k /\ (1..k) \ {k} = 1..(k - 1) /\ 1..k # {}
    BY <2>0, MaxOfInterval
  <2>2. 1..k \in SUBSET (1..n) /\ k \in 0..n /\ k - 1 \in 0..n
    OBVIOUS
  <2> QED
    BY <1>6, <2>1, <2>2
<1> HIDE DEF r
<1>9. \A k \in 0..n : r[k] \in X
  <2> DEFINE T == {k \in 0..n : r[k] \in X}
  <2>1. 0 \in T
    BY <1>1, <1>7
  <2>2. ASSUME NEW k \in 1..n, k - 1 \in T
        PROVE  k \in T
    <3>1. r[k - 1] \in Seq(Frame) /\ s[k] \in OperationType
      BY <1>0, <1>00, <2>2
    <3>2. Step(r[k - 1], s[k]) \in Seq(Frame)
      BY <3>1, StepFacts
    <3> QED
      BY <1>00, <1>8, <3>2
  <2>3. \A k \in 0..n : k \in T
    <3> HIDE DEF T
    <3> QED
      BY <2>1, <2>2, Climb
  <2> QED
    BY <2>3
<1>10. IsRun(r, b, s)
  BY <1>0, <1>00, <1>5, <1>7, <1>8, <1>9 DEF IsRun
<1> QED
  BY <1>10

IsDone(f, b, s) ==
  f = [t \in SUBSET (DOMAIN s) |-> IF t = {} THEN b ELSE Does(f[t \ {Max(t)}], s[Max(t)])]

LEMMA DoesAllIs ==
  ASSUME NEW b, NEW s
  PROVE  DoesAll(b, s) = (CHOOSE f : IsDone(f, b, s))[DOMAIN s]
BY DEF DoesAll, FoldLeft, MapThenFoldSet, IsDone

\* q is a frame after each operation
DoneRun(q, b, s, n) ==
  /\ q[0] = b /\ q[n] = DoesAll(b, s)
  /\ \A k \in 1..n : q[k] = Does(q[k - 1], s[k])

LEMMA DoesAllRun ==
  ASSUME NEW b \in Frame, NEW s \in Seq(OperationType)
  PROVE  \E q : DoneRun(q, b, s, Len(s))
<1>0. PICK n \in Nat : n = Len(s) /\ DOMAIN s = 1..n /\ \A i \in 1..n : s[i] \in OperationType
  OBVIOUS
<1>00. PICK X : X = Frame
  OBVIOUS
<1> DEFINE F == [p \in X \X (1..n) |-> Does(p[1], s[p[2]])]
<1>1. F \in [X \X (1..n) -> X] /\ b \in X
  <2>1. \A x \in X, j \in 1..n : Does(x, s[j]) \in X
    BY <1>0, <1>00, DoesFacts
  <2> QED
    BY <1>00, <2>1
<1>2. PICK g \in [SUBSET (1..n) -> X] : IsFold(g, F, b, n)
  BY <1>1, FoldExists DEF Foldable
<1>3. IsDone(g, b, s)
  <2>1. ASSUME NEW t \in SUBSET (1..n)
        PROVE  g[t] = IF t = {} THEN b ELSE Does(g[t \ {Max(t)}], s[Max(t)])
    <3>1. CASE t = {}
      BY <1>2, <3>1 DEF IsFold
    <3>2. CASE t # {}
      <4>1. Max(t) \in 1..n /\ t \ {Max(t)} \in SUBSET (1..n)
        BY <3>2, MaxFacts
      <4>2. F[<<g[t \ {Max(t)}], Max(t)>>] = Does(g[t \ {Max(t)}], s[Max(t)])
        BY <4>1
      <4> QED
        BY <1>2, <3>2, <4>2 DEF IsFold
    <3> QED
      BY <3>1, <3>2
  <2>2. g = [t \in SUBSET (1..n) |-> g[t]]
    OBVIOUS
  <2> QED
    BY <1>0, <2>1, <2>2 DEF IsDone
<1>4. PICK f : f = CHOOSE h : IsDone(h, b, s)
  OBVIOUS
<1>5. IsDone(f, b, s) /\ DoesAll(b, s) = f[1..n]
  BY <1>0, <1>3, <1>4, DoesAllIs
<1> DEFINE r == [k \in 0..n |-> f[1..k]]
<1>6. \A t \in SUBSET (1..n) :
        f[t] = IF t = {} THEN b ELSE Does(f[t \ {Max(t)}], s[Max(t)])
  BY <1>0, <1>5 DEF IsDone
<1>7. r[0] = b /\ r[n] = f[1..n]
  <2>1. 1..0 = {} /\ {} \in SUBSET (1..n) /\ 0 \in 0..n /\ n \in 0..n
    OBVIOUS
  <2>2. f[{}] = b
    BY <1>6, <2>1
  <2> QED
    BY <2>1, <2>2
<1>8. ASSUME NEW k \in 1..n
      PROVE  r[k] = Does(r[k - 1], s[k])
  <2>0. k \in Nat /\ k # 0
    OBVIOUS
  <2>1. Max(1..k) = k /\ (1..k) \ {k} = 1..(k - 1) /\ 1..k # {}
    BY <2>0, MaxOfInterval
  <2>2. 1..k \in SUBSET (1..n) /\ k \in 0..n /\ k - 1 \in 0..n
    OBVIOUS
  <2> QED
    BY <1>6, <2>1, <2>2
<1> HIDE DEF r
<1>9. DoneRun(r, b, s, n)
  BY <1>5, <1>7, <1>8 DEF DoneRun
<1> QED
  BY <1>0, <1>9

-----------------------------------------------------------------------------
(* Lists of operations, cut where they change hands.                       *)

LEMMA MinFacts ==
  ASSUME NEW T, T \subseteq Nat, T # {}
  PROVE  Min(T) \in T /\ \A y \in T : Min(T) <= y
<1>1. \E x \in T : \A y \in T : x <= y
  BY Least
<1> QED
  BY <1>1, Zenon DEF Min

\* p is a part of s, from operation a up to before operation z
Piece(p, s, a, z) ==
  /\ p \in Seq(OperationType) /\ Len(p) = z - a
  /\ \A i \in 1..(z - a) : p[i] = s[(a - 1) + i]

LEMMA PieceFacts ==
  ASSUME NEW s \in Seq(OperationType), NEW a \in Nat, NEW z \in Nat, 1 <= a, a <= z, z - 1 <= Len(s)
  PROVE  Piece(SubSeq(s, a, z - 1), s, a, z)
<1>1. PICK X : X = OperationType
  OBVIOUS
<1>2. PICK y \in Int : y = z - 1
  OBVIOUS
<1>3. s \in Seq(X) /\ a \in Int /\ \A i \in a..y : s[i] \in X
  BY <1>1, <1>2
<1>4. /\ SubSeq(s, a, y) \in Seq(X)
      /\ Len(SubSeq(s, a, y)) = IF a <= y THEN y - a + 1 ELSE 0
      /\ \A k \in 1..(y - a + 1) : SubSeq(s, a, y)[k] = s[a + k - 1]
  BY <1>2, <1>3, SubSeqProperties
<1>5. PICK p : p = SubSeq(s, a, y)
  OBVIOUS
<1>6. p \in Seq(X) /\ Len(p) = z - a
  <2>1. p \in Seq(X) /\ Len(p) = IF a <= y THEN y - a + 1 ELSE 0
    BY <1>4, <1>5, Zenon
  <2> QED
    BY <1>2, <2>1
<1>7. ASSUME NEW i \in 1..(z - a)
      PROVE  p[i] = s[(a - 1) + i]
  <2>1. i \in 1..(y - a + 1) /\ a + i - 1 = (a - 1) + i
    BY <1>2
  <2>2. p[i] = s[a + i - 1]
    BY <1>4, <1>5, <2>1, Zenon
  <2> QED
    BY <2>1, <2>2, Zenon
<1>8. Piece(p, s, a, z)
  BY <1>1, <1>6, <1>7 DEF Piece
<1> QED
  BY <1>2, <1>5, <1>8, Zenon

\* the stage from operation a on ends before operation z, the next one on whole videos
StageEnds(s, a, z) ==
  /\ z \in a..(Len(s) + 1) /\ Piece(Stage(s, a), s, a, z)
  /\ \A i \in a..(z - 1) : ~WholeVideo(s[i])
  /\ z <= Len(s) => WholeVideo(s[z])

LEMMA StageFacts ==
  ASSUME NEW s \in Seq(OperationType), NEW a \in 1..Len(s)
  PROVE  \E z \in Nat : StageEnds(s, a, z)
<1>1. PICK n \in Nat : n = Len(s)
  OBVIOUS
<1>2. PICK until : until = {i \in a..n : WholeVideo(s[i])}
  OBVIOUS
<1>3. Stage(s, a) = SubSeq(s, a, IF until = {} THEN n ELSE Min(until) - 1)
  BY <1>1, <1>2, Zenon DEF Stage
<1>4. a \in Nat /\ 1 <= a /\ a <= n
  BY <1>1
<1>5. CASE until = {}
  <2>1. PICK z \in Nat : z = n + 1
    OBVIOUS
  <2>2. z - 1 = n
    BY <2>1
  <2>3. Stage(s, a) = SubSeq(s, a, z - 1)
    BY <1>3, <1>5, <2>2, Zenon
  <2>4. Piece(Stage(s, a), s, a, z)
    BY <1>1, <1>4, <2>1, <2>2, <2>3, PieceFacts
  <2>5. z \in a..(Len(s) + 1) /\ ~(z <= Len(s))
    BY <1>1, <1>4, <2>1
  <2>6. \A i \in a..(z - 1) : ~WholeVideo(s[i])
    BY <1>2, <1>5, <2>2
  <2> QED
    BY <2>4, <2>5, <2>6 DEF StageEnds
<1>6. CASE until # {}
  <2>1. until \subseteq Nat
    BY <1>2, <1>4
  <2>2. PICK z : z = Min(until)
    OBVIOUS
  <2>3. z \in until /\ \A y \in until : z <= y
    BY <1>6, <2>1, <2>2, MinFacts
  <2>4. z \in Nat /\ z \in a..n /\ WholeVideo(s[z])
    BY <1>2, <2>1, <2>3
  <2>5. Stage(s, a) = SubSeq(s, a, z - 1)
    BY <1>3, <1>6, <2>2, Zenon
  <2>6. a <= z /\ z - 1 <= Len(s)
    BY <1>1, <1>4, <2>4
  <2>7. Piece(Stage(s, a), s, a, z)
    BY <1>4, <2>4, <2>5, <2>6, PieceFacts
  <2>8. \A i \in a..(z - 1) : ~WholeVideo(s[i])
    <3> SUFFICES ASSUME NEW i \in a..(z - 1), WholeVideo(s[i])
                 PROVE  FALSE
      OBVIOUS
    <3>1. i \in a..n /\ i < z
      BY <1>4, <2>4
    <3>2. i \in until
      BY <1>2, <3>1
    <3> QED
      BY <2>3, <2>4, <3>1, <3>2
  <2>9. z \in a..(Len(s) + 1)
    BY <1>1, <1>4, <2>4
  <2> QED
    BY <2>4, <2>7, <2>8, <2>9 DEF StageEnds
<1> QED
  BY <1>5, <1>6

\* the operations up to the first remote one, operation z
LocalEnds(s, z) ==
  /\ z \in 1..(Len(s) + 1) /\ Piece(LocalOps(s), s, 1, z)
  /\ \A i \in 1..(z - 1) : s[i].type # "remote"
  /\ z <= Len(s) => s[z].type = "remote"

LEMMA LocalFacts ==
  ASSUME NEW s \in Seq(OperationType)
  PROVE  \E z \in Nat : LocalEnds(s, z)
<1>1. PICK n \in Nat : n = Len(s) /\ DOMAIN s = 1..n
  OBVIOUS
<1>2. PICK until : until = {i \in DOMAIN s : s[i].type = "remote"}
  OBVIOUS
<1>3. LocalOps(s) = IF until = {} THEN s ELSE SubSeq(s, 1, Min(until) - 1)
  BY <1>2, Zenon DEF LocalOps
<1>4. CASE until = {}
  <2>1. PICK z \in Nat : z = n + 1
    OBVIOUS
  <2>2. z - 1 = n
    BY <2>1
  <2>3. LocalOps(s) = s
    BY <1>3, <1>4, Zenon
  <2>4. Piece(s, s, 1, z)
    BY <1>1, <2>1 DEF Piece
  <2>5. z \in 1..(Len(s) + 1) /\ ~(z <= Len(s))
    BY <1>1, <2>1
  <2>6. \A i \in 1..(z - 1) : s[i].type # "remote"
    BY <1>1, <1>2, <1>4, <2>2
  <2> QED
    BY <2>3, <2>4, <2>5, <2>6 DEF LocalEnds
<1>5. CASE until # {}
  <2>1. until \subseteq Nat
    BY <1>1, <1>2
  <2>2. PICK z : z = Min(until)
    OBVIOUS
  <2>3. z \in until /\ \A y \in until : z <= y
    BY <1>5, <2>1, <2>2, MinFacts
  <2>4. z \in Nat /\ z \in 1..n /\ s[z].type = "remote"
    BY <1>1, <1>2, <2>1, <2>3
  <2>5. LocalOps(s) = SubSeq(s, 1, z - 1)
    BY <1>3, <1>5, <2>2, Zenon
  <2>6. 1 <= z /\ z - 1 <= Len(s) /\ 1 \in Nat /\ 1 <= 1
    BY <1>1, <2>4
  <2>7. Piece(LocalOps(s), s, 1, z)
    BY <2>4, <2>5, <2>6, PieceFacts
  <2>8. \A i \in 1..(z - 1) : s[i].type # "remote"
    <3> SUFFICES ASSUME NEW i \in 1..(z - 1), s[i].type = "remote"
                 PROVE  FALSE
      OBVIOUS
    <3>1. i \in 1..n /\ i < z
      BY <2>4
    <3>2. i \in until
      BY <1>1, <1>2, <3>1
    <3> QED
      BY <2>3, <2>4, <3>1, <3>2
  <2>9. z \in 1..(Len(s) + 1)
    BY <1>1, <2>4
  <2> QED
    BY <2>4, <2>7, <2>8, <2>9 DEF LocalEnds
<1> QED
  BY <1>4, <1>5

-----------------------------------------------------------------------------
(* A stage does to every frame what its operations do one by one.          *)

\* ops holds the operations that follow the first k of all
Follows(ops, all, k) == k + Len(ops) <= Len(all) /\ \A i \in 1..Len(ops) : ops[i] = all[k + i]

\* y is frame x with the first m operations of s done to it
Goes(x, y, s, m) ==
  /\ y = DoesAll(x, s)
  /\ DoesAll(x, s).size = IF \E i \in 1..m : s[i].type = "resize" THEN 1 ELSE x.size

\* the frame j of the videos from k on has the operations of the stage done to it
LEMMA FrameGoes ==
  ASSUME NEW r, NEW frames, NEW all \in Seq(OperationType), IsRun(r, frames, all),
         NEW k \in Nat, NEW s \in Seq(OperationType), NEW m \in Nat, m = Len(s), k + m <= Len(all),
         \A i \in 1..m : s[i] = all[k + i] /\ s[i].type # "interval",
         NEW n \in Nat, n = Len(r[k]), NEW j \in 1..n, NEW q, DoneRun(q, r[k][j], s, m)
  PROVE  Goes(r[k][j], r[k + m][j], s, m)
<1> DEFINE Size(i) == IF \E l \in 1..i : s[l].type = "resize" THEN 1 ELSE r[k][j].size
           T == {i \in 0..m : /\ r[k + i][j] = q[i] /\ Len(r[k + i]) = n /\ q[i] \in Frame
                              /\ q[i].size = Size(i)}
<1>1. \A i \in 0..m : r[k + i] \in Seq(Frame)
  BY SMTT(60) DEF IsRun
<1>2. 0 \in T
  <2>1. k + 0 = k /\ q[0] = r[k][j] /\ 0 \in 0..m
    BY DEF DoneRun
  <2>2. q[0] \in Frame
    BY <1>1, <2>1
  <2>3. Size(0) = r[k][j].size
    OBVIOUS
  <2> QED
    BY <2>1, <2>2, <2>3
<1>3. ASSUME NEW i \in 1..m, i - 1 \in T
      PROVE  i \in T
  <2>1. PICK v, w : v = r[k + (i - 1)] /\ w = r[k + i]
    OBVIOUS
  <2>2. v[j] = q[i - 1] /\ Len(v) = n /\ q[i - 1] \in Frame /\ q[i - 1].size = Size(i - 1)
    BY <1>3, <2>1
  <2>3. v \in Seq(Frame) /\ w \in Seq(Frame) /\ DOMAIN v = 1..n
    <3>1. i - 1 \in 0..m /\ i \in 0..m
      OBVIOUS
    <3>2. v \in Seq(Frame) /\ w \in Seq(Frame)
      BY <1>1, <2>1, <3>1
    <3> QED
      BY <2>2, <3>2
  <2>4. k + i \in 1..Len(all) /\ (k + i) - 1 = k + (i - 1)
    OBVIOUS
  <2>5. w = Step(v, all[k + i])
    BY <2>1, <2>4 DEF IsRun
  <2>6. PICK op \in OperationType : op = s[i] /\ op = all[k + i] /\ op.type # "interval"
    OBVIOUS
  <2>7. w = [l \in 1..n |-> Does(v[l], op)]
    BY <2>3, <2>5, <2>6, Zenon DEF Step
  <2>8. w[j] = Does(q[i - 1], op) /\ q[i] = Does(q[i - 1], op)
    <3>1. q[i] = Does(q[i - 1], s[i])
      BY DEF DoneRun
    <3> QED
      BY <2>2, <2>6, <2>7, <3>1
  <2>9. Len(w) = n
    BY <2>3, <2>7
  <2>10. q[i] \in Frame /\ q[i].size = IF op.type = "resize" THEN 1 ELSE q[i - 1].size
    BY <2>2, <2>8, DoesFacts, ZenonT(60)
  <2>11. q[i].size = Size(i)
    <3>1. CASE op.type = "resize"
      <4>1. i \in 1..i
        OBVIOUS
      <4>2. Size(i) = 1
        BY <2>6, <3>1, <4>1
      <4> QED
        BY <2>10, <3>1, <4>2
    <3>2. CASE op.type # "resize"
      <4>1. (\E l \in 1..i : s[l].type = "resize") <=> (\E l \in 1..(i - 1) : s[l].type = "resize")
        <5>1. \A l \in 1..i : l # i => l \in 1..(i - 1)
          OBVIOUS
        <5>2. \A l \in 1..(i - 1) : l \in 1..i
          OBVIOUS
        <5>3. s[i].type # "resize"
          BY <2>6, <3>2
        <5> QED
          BY <5>1, <5>2, <5>3
      <4>2. Size(i) = Size(i - 1)
        BY <4>1
      <4> QED
        BY <2>2, <2>10, <3>2, <4>2
    <3> QED
      BY <3>1, <3>2
  <2> HIDE DEF Size
  <2> QED
    BY <2>1, <2>8, <2>9, <2>10, <2>11
<1>4. m \in T
  <2>1. \A i \in 0..m : i \in T
    <3> HIDE DEF T
    <3> QED
      BY <1>2, <1>3, Climb
  <2> QED
    BY <2>1
<1>5. r[k + m][j] = q[m] /\ q[m].size = Size(m)
  BY <1>4
<1>6. q[m] = DoesAll(r[k][j], s)
  BY DEF DoneRun
<1> QED
  BY <1>5, <1>6 DEF Goes


\* an operation on frames leaves their number
LEMMA LengthGoes ==
  ASSUME NEW r, NEW frames, NEW all \in Seq(OperationType), IsRun(r, frames, all),
         NEW k \in Nat, NEW m \in Nat, k + m <= Len(all),
         \A i \in 1..m : all[k + i].type # "interval"
  PROVE  Len(r[k + m]) = Len(r[k])
<1> DEFINE T == {i \in 0..m : Len(r[k + i]) = Len(r[k])}
<1>1. \A i \in 0..m : r[k + i] \in Seq(Frame)
  BY DEF IsRun
<1>2. 0 \in T
  <2>1. k + 0 = k /\ 0 \in 0..m
    OBVIOUS
  <2> QED
    BY <2>1
<1>3. ASSUME NEW i \in 1..m, i - 1 \in T
      PROVE  i \in T
  <2>1. PICK v, w : v = r[k + (i - 1)] /\ w = r[k + i]
    OBVIOUS
  <2>2. v \in Seq(Frame) /\ w \in Seq(Frame) /\ Len(v) = Len(r[k])
    <3>1. i - 1 \in 0..m /\ i \in 0..m
      OBVIOUS
    <3> QED
      BY <1>1, <1>3, <2>1, <3>1
  <2>3. k + i \in 1..Len(all) /\ (k + i) - 1 = k + (i - 1) /\ all[k + i].type # "interval"
    <3>1. all[k + i].type # "interval"
      BY Zenon
    <3>2. Len(all) \in Nat
      OBVIOUS
    <3>3. k + i \in 1..Len(all) /\ (k + i) - 1 = k + (i - 1)
      BY <3>2
    <3> QED
      BY <3>1, <3>3
  <2>4. w = Step(v, all[k + i])
    BY <2>1, <2>3 DEF IsRun
  <2>5. w = [l \in DOMAIN v |-> Does(v[l], all[k + i])]
    BY <2>3, <2>4, Zenon DEF Step
  <2>6. DOMAIN w = DOMAIN v
    BY <2>5
  <2>7. Len(w) = Len(v)
    BY <2>2, <2>6
  <2> QED
    BY <2>1, <2>2, <2>7
<1>4. \A i \in 0..m : i \in T
  <2> HIDE DEF T
  <2> QED
    BY <1>2, <1>3, Climb
<1>5. m \in 0..m
  OBVIOUS
<1> QED
  BY <1>4, <1>5

\* what is copied is the video after the stage: none of its frames is dropped
LEMMA CopiedIs ==
  ASSUME NEW r, NEW frames, NEW all \in Seq(OperationType), IsRun(r, frames, all),
         NEW k \in Nat, NEW L \in Seq(OperationType), Follows(L, all, k),
         NEW c \in 1..Len(L), NEW z \in Nat, StageEnds(L, c, z)
  PROVE  Copied(r[k + c - 1], L, c) = r[k + z - 1]
<1>1. PICK b \in Nat : b = k + c - 1
  OBVIOUS
<1>2. PICK m \in Nat : m = z - c /\ b + m = k + z - 1 /\ b + m <= Len(all) /\ c + m = z
  <2>1. PICK l \in Nat, n \in Nat : l = Len(L) /\ n = Len(all)
    OBVIOUS
  <2>2. c \in 1..l /\ z \in c..(l + 1)
    BY <2>1 DEF StageEnds
  <2>3. k + l <= n
    BY <2>1 DEF Follows
  <2> QED
    BY <1>1, <2>1, <2>2, <2>3
<1>3. PICK s : s = Stage(L, c)
  OBVIOUS
<1>4. /\ s \in Seq(OperationType) /\ Len(s) = m
      /\ \A i \in 1..m : s[i] = L[(c - 1) + i]
  BY <1>2, <1>3 DEF StageEnds, Piece
<1>5. ASSUME NEW i \in 1..m
      PROVE  s[i] = all[b + i] /\ s[i].type # "interval"
  <2>1. PICK j \in 1..Len(L) : j = (c - 1) + i /\ j \in c..(z - 1) /\ k + j = b + i
    <3>1. (c - 1) + i \in 1..Len(L)
      BY <1>2 DEF StageEnds
    <3> QED
      BY <1>1, <1>2, <3>1
  <2>2. s[i] = L[j] /\ L[j] = all[k + j]
    BY <1>4, <2>1 DEF Follows
  <2>3. ~WholeVideo(L[j])
    BY <2>1 DEF StageEnds
  <2> QED
    BY <2>1, <2>2, <2>3 DEF WholeVideo
<1>6. PICK x, y : x = r[b] /\ y = r[b + m]
  OBVIOUS
<1>7. x \in Seq(Frame) /\ y \in Seq(Frame)
  <2>1. b \in 0..Len(all) /\ b + m \in 0..Len(all)
    BY <1>2
  <2> QED
    BY <1>6, <2>1 DEF IsRun
<1>8. PICK n \in Nat : n = Len(x) /\ DOMAIN x = 1..n /\ Len(y) = n /\ DOMAIN y = 1..n
  <2>1. \A i \in 1..m : all[b + i].type # "interval"
    BY <1>5, Zenon
  <2>2. b + m <= Len(all)
    BY <1>2
  <2>3. Len(r[b + m]) = Len(r[b])
    BY <2>1, <2>2, LengthGoes
  <2>4. Len(y) = Len(x)
    BY <1>6, <2>3
  <2> QED
    BY <1>7, <2>4
<1>9. ASSUME NEW j \in 1..n
      PROVE  /\ y[j] = DoesAll(x[j], s)
             /\ DoesAll(x[j], s).size = WriterSize(x[j], L, c)
  <2>1. x[j] \in Frame
    BY <1>7, <1>8
  <2>2. PICK q : DoneRun(q, x[j], s, m)
    BY <1>4, <2>1, DoesAllRun
  <2>3. Goes(r[b][j], r[b + m][j], s, m)
    <3>1. n = Len(r[b]) /\ m = Len(s) /\ b + m <= Len(all) /\ s \in Seq(OperationType)
      BY <1>2, <1>4, <1>6, <1>8
    <3>2. \A i \in 1..m : s[i] = all[b + i] /\ s[i].type # "interval"
      BY <1>5
    <3>3. DoneRun(q, r[b][j], s, m)
      BY <1>6, <2>2
    <3> QED
      BY <3>1, <3>2, <3>3, FrameGoes
  <2>4. DOMAIN s = 1..m
    BY <1>4
  <2>5. WriterSize(x[j], L, c) = IF \E i \in 1..m : s[i].type = "resize" THEN 1 ELSE x[j].size
    BY <1>3, <2>4, Zenon DEF WriterSize
  <2> QED
    BY <1>6, <2>3, <2>5 DEF Goes
<1>10. PICK S : S = {j \in DOMAIN x : DoesAll(x[j], s).size = WriterSize(x[j], L, c)}
  OBVIOUS
<1>11. S = 1..n
  BY <1>8, <1>9, <1>10
<1>12. InOrder(S) = [i \in 1..n |-> i]
  BY <1>11, InOrderInterval, Zenon
<1>13. PICK kept : kept = InOrder(S)
  OBVIOUS
<1>14. Copied(x, L, c) = [i \in DOMAIN kept |-> DoesAll(x[kept[i]], s)]
  BY <1>3, <1>10, <1>13, Zenon DEF Copied
<1>15. DOMAIN kept = 1..n /\ \A i \in 1..n : kept[i] = i
  BY <1>12, <1>13
<1>16. Copied(x, L, c) = [i \in 1..n |-> DoesAll(x[kept[i]], s)]
  BY <1>14, <1>15, Zenon
<1>17. PICK w : w = Copied(x, L, c)
  OBVIOUS
<1>18. DOMAIN w = 1..n /\ \A i \in 1..n : w[i] = y[i]
  BY <1>9, <1>15, <1>16, <1>17
<1>19. w = [i \in 1..n |-> w[i]]
  BY <1>16, <1>17
<1>20. y = [i \in 1..n |-> y[i]]
  BY <1>7, <1>8
<1>21. w = y
  BY <1>18, <1>19, <1>20
<1> QED
  BY <1>1, <1>2, <1>6, <1>17, <1>21, Zenon


-----------------------------------------------------------------------------
(* What is left of the operations of a command.                            *)

\* L are the first operations of v, up to a remote one
LocalFit(L, v, all, k) ==
  /\ L \in Seq(OperationType) /\ Len(L) <= Len(v) /\ Follows(L, all, k)
  /\ \A i \in 1..Len(L) : L[i].type # "remote"
  /\ Len(L) < Len(v) => v[Len(L) + 1].type = "remote"

LEMMA EndsLocal ==
  ASSUME NEW all \in Seq(OperationType), NEW v, NEW k, Ends(v, all, k)
  PROVE  LocalFit(LocalOps(v), v, all, k)
<1>1. /\ v \in Seq(OperationType) /\ k \in 0..Len(all) /\ Len(v) = Len(all) - k
      /\ \A i \in 1..Len(v) : v[i] = all[k + i]
  BY DEF Ends
<1>2. PICK z \in Nat : LocalEnds(v, z)
  BY <1>1, LocalFacts
<1>3. PICK L : L = LocalOps(v)
  OBVIOUS
<1>4. /\ L \in Seq(OperationType) /\ Len(L) = z - 1
      /\ \A i \in 1..(z - 1) : L[i] = v[(1 - 1) + i]
  BY <1>2, <1>3 DEF LocalEnds, Piece
<1>5. /\ z \in 1..(Len(v) + 1) /\ \A i \in 1..(z - 1) : v[i].type # "remote"
      /\ z <= Len(v) => v[z].type = "remote"
  BY <1>2 DEF LocalEnds
<1>6. PICK l \in Nat : l = Len(L) /\ l + 1 = z /\ l <= Len(v)
  BY <1>4, <1>5
<1>7. ASSUME NEW i \in 1..l
      PROVE  L[i] = v[i] /\ L[i] = all[k + i] /\ L[i].type # "remote"
  <2>1. i \in 1..(z - 1) /\ i \in 1..Len(v) /\ (1 - 1) + i = i
    BY <1>6
  <2>2. L[i] = v[i]
    BY <1>4, <2>1
  <2> QED
    BY <1>1, <1>5, <2>1, <2>2
<1>8. k + l <= Len(all)
  BY <1>1, <1>6
<1>9. Follows(L, all, k)
  BY <1>6, <1>7, <1>8 DEF Follows
<1>10. l < Len(v) => v[l + 1].type = "remote"
  BY <1>5, <1>6
<1> QED
  BY <1>3, <1>4, <1>6, <1>7, <1>9, <1>10 DEF LocalFit

LEMMA EndsRest ==
  ASSUME NEW all \in Seq(OperationType), NEW v, NEW k, Ends(v, all, k)
  PROVE  /\ Ends(RemainingOps(v), all, k + Len(LocalOps(v)))
         /\ RemainingOps(v) # <<>> => RemainingOps(v)[1].type = "remote"
<1>1. /\ v \in Seq(OperationType) /\ k \in 0..Len(all) /\ Len(v) = Len(all) - k
      /\ \A i \in 1..Len(v) : v[i] = all[k + i]
  BY DEF Ends
<1>2. PICK L : L = LocalOps(v)
  OBVIOUS
<1>3. LocalFit(L, v, all, k)
  BY <1>2, EndsLocal
<1>4. PICK l \in Nat, n \in Nat : l = Len(L) /\ n = Len(v) /\ l <= n
  <2>1. L \in Seq(OperationType) /\ Len(L) <= Len(v)
    BY <1>3 DEF LocalFit
  <2>2. Len(L) \in Nat /\ Len(v) \in Nat
    BY <1>1, <2>1
  <2> QED
    BY <2>1, <2>2
<1>5. PICK a \in Nat, z \in Nat : a = l + 1 /\ z = n + 1 /\ z - 1 = n
  OBVIOUS
<1>6. 1 <= a /\ a <= z /\ z - 1 <= Len(v)
  BY <1>4, <1>5
<1>7. Piece(SubSeq(v, a, z - 1), v, a, z)
  BY <1>1, <1>6, PieceFacts
<1>8. PICK q : q = RemainingOps(v)
  OBVIOUS
<1>9. q = SubSeq(v, a, z - 1)
  BY <1>2, <1>4, <1>5, <1>8, Zenon DEF RemainingOps
<1>10. /\ q \in Seq(OperationType) /\ Len(q) = z - a
       /\ \A i \in 1..(z - a) : q[i] = v[(a - 1) + i]
  BY <1>7, <1>9 DEF Piece
<1>11. Len(q) = n - l /\ k + l \in 0..Len(all) /\ Len(q) = Len(all) - (k + l)
  BY <1>1, <1>4, <1>5, <1>10
<1>12. ASSUME NEW i \in 1..Len(q)
       PROVE  q[i] = all[(k + l) + i]
  <2>1. i \in 1..(z - a) /\ (a - 1) + i = l + i /\ l + i \in 1..Len(v) /\ k + (l + i) = (k + l) + i
    BY <1>1, <1>4, <1>5, <1>11, SMTT(60)
  <2>2. q[i] = v[l + i] /\ v[l + i] = all[k + (l + i)]
    BY <1>1, <1>10, <2>1
  <2> QED
    BY <2>1, <2>2
<1>13. Ends(q, all, k + l)
  BY <1>10, <1>11, <1>12 DEF Ends
<1>14. ASSUME q # <<>>
       PROVE  q[1].type = "remote"
  <2>1. Len(q) # 0
    BY <1>10, <1>14
  <2>2. l < n /\ 1 \in 1..(z - a) /\ (a - 1) + 1 = l + 1
    BY <1>4, <1>5, <1>11, <2>1
  <2>3. v[l + 1].type = "remote"
    BY <1>3, <1>4, <2>2 DEF LocalFit
  <2>4. q[1] = v[l + 1]
    BY <1>10, <2>2
  <2> QED
    BY <2>3, <2>4
<1> QED
  BY <1>2, <1>4, <1>8, <1>13, <1>14, Zenon

LEMMA EndsTail ==
  ASSUME NEW all \in Seq(OperationType), NEW v, NEW k, Ends(v, all, k), v # <<>>
  PROVE  Ends(Tail(v), all, k + 1) /\ v[1] = all[k + 1] /\ k + 1 \in 1..Len(all)
<1>1. /\ v \in Seq(OperationType) /\ k \in 0..Len(all) /\ Len(v) = Len(all) - k
      /\ \A i \in 1..Len(v) : v[i] = all[k + i]
  BY DEF Ends
<1>2. Len(v) # 0
  BY <1>1
<1>3. k + 1 \in 1..Len(all) /\ 1 \in 1..Len(v)
  BY <1>1, <1>2
<1>4. PICK q : q = Tail(v)
  OBVIOUS
<1>5. q \in Seq(OperationType) /\ Len(q) = Len(v) - 1 /\ \A i \in 1..Len(q) : q[i] = v[i + 1]
  BY <1>1, <1>4, HeadTailProperties
<1>6. ASSUME NEW i \in 1..Len(q)
      PROVE  q[i] = all[(k + 1) + i]
  <2>1. i + 1 \in 1..Len(v) /\ k + (i + 1) = (k + 1) + i
    BY <1>1, <1>5
  <2>2. v[i + 1] = all[k + (i + 1)]
    BY <1>1, <2>1
  <2> QED
    BY <1>5, <2>1, <2>2
<1>7. Ends(q, all, k + 1)
  BY <1>1, <1>3, <1>5, <1>6 DEF Ends
<1> QED
  BY <1>1, <1>3, <1>4, <1>7

LEMMA LocalSome ==
  ASSUME NEW all \in Seq(OperationType), NEW v, NEW k, Ends(v, all, k), v # <<>>,
         v[1].type # "remote"
  PROVE  1 \in 1..Len(LocalOps(v))
<1>1. v \in Seq(OperationType)
  BY DEF Ends
<1>2. PICK L : L = LocalOps(v)
  OBVIOUS
<1>3. LocalFit(L, v, all, k)
  BY <1>2, EndsLocal
<1>4. Len(L) \in Nat /\ Len(v) \in Nat /\ Len(v) # 0
  BY <1>1, <1>3 DEF LocalFit
<1>5. ASSUME Len(L) = 0
      PROVE  FALSE
  <2>1. Len(L) < Len(v) /\ Len(L) + 1 = 1
    BY <1>4, <1>5
  <2>2. v[Len(L) + 1].type = "remote"
    BY <1>3, <2>1 DEF LocalFit
  <2> QED
    BY <2>1, <2>2
<1> QED
  BY <1>2, <1>4, <1>5

LEMMA LocalAll ==
  ASSUME NEW all \in Seq(OperationType), NEW v, NEW k, Ends(v, all, k),
         \A i \in 1..Len(all) : all[i].type # "remote"
  PROVE  k + Len(LocalOps(v)) = Len(all)
<1>1. /\ v \in Seq(OperationType) /\ k \in 0..Len(all) /\ Len(v) = Len(all) - k
      /\ \A i \in 1..Len(v) : v[i] = all[k + i]
  BY DEF Ends
<1>2. PICK L : L = LocalOps(v)
  OBVIOUS
<1>3. LocalFit(L, v, all, k)
  BY <1>2, EndsLocal
<1>4. PICK l \in Nat, n \in Nat : l = Len(L) /\ n = Len(v) /\ l <= n
  <2>1. L \in Seq(OperationType) /\ Len(L) <= Len(v)
    BY <1>3 DEF LocalFit
  <2>2. Len(L) \in Nat /\ Len(v) \in Nat
    BY <1>1, <2>1
  <2> QED
    BY <2>1, <2>2
<1>5. ASSUME l < n
      PROVE  FALSE
  <2>1. v[l + 1].type = "remote"
    BY <1>3, <1>4, <1>5 DEF LocalFit
  <2>2. l + 1 \in 1..n /\ k + (l + 1) \in 1..Len(all)
    BY <1>1, <1>4, <1>5
  <2>3. v[l + 1] = all[k + (l + 1)]
    BY <1>1, <1>4, <2>2
  <2> QED
    BY <2>1, <2>2, <2>3
<1> QED
  BY <1>1, <1>2, <1>4, <1>5

LEMMA AllEnds ==
  ASSUME NEW all \in Seq(OperationType)
  PROVE  Ends(all, all, 0)
BY DEF Ends

\* where the loop over the operations starts, or goes on after a remote one
LEMMA ExecutingStands ==
  ASSUME NEW fs, NEW v, IsVideo(v), ~v.error, NEW c, IsCommand(c), NEW r, NEW k,
         Ends(v.ops, c.ops, k), May(fs, Source0(v), r[k]), c.name = "AddVideo" => k = 0
  PROVE  Stands(fs, v, Executing(v), c, r, k)
<1>1. c.ops \in Seq(OperationType) /\ v.ops \in Seq(OperationType) /\ k \in 0..Len(c.ops)
  BY DEF IsCommand, Ends
<1>2. CASE v.ops = <<>>
  <2>1. Executing(v) = [NotPerforming EXCEPT !.at = "encode"]
    BY <1>2, Zenon DEF Executing
  <2>2. Executing(v).at = "encode"
    BY <2>1 DEF NotPerforming
  <2>3. k = Len(c.ops)
    BY <1>1, <1>2 DEF Ends
  <2>4. v.operated = 0 \/ May(fs, v.operated, r[Len(c.ops)])
    <3>1. CASE v.operated # 0
      <4>1. Source0(v) = v.operated
        BY <3>1 DEF Source0
      <4> QED
        BY <2>3, <4>1
    <3> QED
      BY <3>1
  <2> QED
    BY <2>2, <2>4 DEF Stands
<1>3. CASE v.ops # <<>> /\ v.ops[1].type = "remote"
  <2>1. Head(v.ops) = v.ops[1]
    BY <1>1, <1>3
  <2>2. Executing(v) = [NotPerforming EXCEPT !.at = "remote"]
    BY <1>3, <2>1, Zenon DEF Executing
  <2>3. Executing(v).at = "remote"
    BY <2>2 DEF NotPerforming
  <2> QED
    BY <1>3, <2>3 DEF Stands
<1>4. CASE v.ops # <<>> /\ v.ops[1].type # "remote"
  <2>1. Head(v.ops) = v.ops[1]
    BY <1>1, <1>4
  <2>2. PICK s : s = Source0(v)
    OBVIOUS
  <2>3. Executing(v) = [NotPerforming EXCEPT !.at = "frames", !.count = 1, !.id = s]
    BY <1>4, <2>1, <2>2, Zenon DEF Executing, Source0
  <2>4. PICK p : p = Executing(v)
    OBVIOUS
  <2>5. p.at = "frames" /\ p.count = 1 /\ p.id = s
    BY <2>3, <2>4 DEF NotPerforming
  <2>6. 1 \in 1..Len(LocalOps(v.ops))
    BY <1>1, <1>4, LocalSome
  <2>7. k + p.count - 1 = k
    BY <1>1, <2>5
  <2>8. May(fs, p.id, r[k + p.count - 1])
    BY <2>2, <2>5, <2>7
  <2>9. Stands(fs, v, p, c, r, k)
    BY <2>5, <2>6, <2>8 DEF Stands
  <2> QED
    BY <2>4, <2>9
<1> QED
  BY <1>2, <1>3, <1>4


-----------------------------------------------------------------------------
(* Each action keeps the files in step with the operations.                *)

LEMMA OpsHas ==
  ASSUME OpsInv, perform.at # "idle"
  PROVE  /\ IsCommand(command) /\ 0 \notin DOMAIN files /\ response.status # "success"
         /\ command.ops \in Seq(OperationType)
         /\ perform.at \in {"store", "encode"} => ~video.error
         /\ ~video.error => \E r, k : /\ IsRun(r, command.frames, command.ops)
                                      /\ Stands(files, video, perform, command, r, k)
BY DEF OpsInv, OpsFit, IsCommand

LEMMA OpsKeep ==
  ASSUME OpsInv, perform.at # "idle", command' = command, response' = response,
         0 \notin DOMAIN files', perform'.at \in {"store", "encode"} => ~video'.error,
         ~video'.error => \E r, k : /\ IsRun(r, command.frames, command.ops)
                                    /\ Stands(files', video', perform', command, r, k)
  PROVE  OpsInv'
<1>1. IsCommand(command) /\ response.status # "success"
  BY OpsHas
<1>2. OpsFit(files', video', perform', command, response)
  BY <1>1 DEF OpsFit
<1> QED
  BY <1>2 DEF OpsInv

LEMMA OpsInitially ==
  VideoInit => OpsInv
<1> SUFFICES ASSUME VideoInit
             PROVE  OpsInv
  OBVIOUS
<1>1. DOMAIN files = {}
  BY DEF VideoInit
<1>2. perform.at = "idle" /\ response.status = "none"
  BY DEF VideoInit, NotPerforming, NotAnswered
<1>3. OpsFit(files, video, perform, command, response)
  BY <1>1, <1>2 DEF OpsFit
<1> QED
  BY <1>3 DEF OpsInv

LEMMA OriginalFrames ==
  ASSUME NEW n \in Nat
  PROVE  Original(n) \in Seq(Frame)
<1>1. PICK t : t = Original(n)
  OBVIOUS
<1>2. PICK e : e = <<>> /\ e \in Seq(Types)
  BY EmptySeq
<1>3. t = [i \in 1..n |-> [number |-> i, did |-> e, size |-> 0]]
  BY <1>1, <1>2, Zenon DEF Original
<1>4. t \in [1..n -> Frame]
  BY <1>2, <1>3 DEF Frame
<1>5. t \in Seq(Frame)
  BY <1>4, SeqDef
<1> QED
  BY <1>1, <1>5

LEMMA ListFacts ==
  ASSUME VideoAssumption, NEW ops \in OpLists
  PROVE  ops \in Seq(OperationType)
<1>1. PICK n \in 0..MaxVideoOps : ops \in [1..n -> OperationType]
  BY DEF OpLists
<1>2. n \in Nat
  BY DEF VideoAssumption
<1> QED
  BY <1>1, <1>2, SeqDef

LEMMA AddedAre ==
  ASSUME NEW ops \in Seq(OperationType)
  PROVE  /\ AddedOps(ops) \in Seq(OperationType) /\ (ops = <<>> => AddedOps(ops) = <<>>)
         /\ \A i \in 1..Len(AddedOps(ops)) : AddedOps(ops)[i].type # "remote"
<1>1. PICK n \in Nat : n = Len(ops) /\ DOMAIN ops = 1..n /\ \A i \in 1..n : ops[i] \in OperationType
  OBVIOUS
<1>2. PICK t : t = AddedOps(ops)
  OBVIOUS
<1>3. t = [i \in 1..n |-> IF ops[i].type = "remote" THEN Simple("syncremote") ELSE ops[i]]
  BY <1>1, <1>2, Zenon DEF AddedOps
<1>4. Simple("syncremote") \in OperationType /\ Simple("syncremote").type # "remote"
  BY DEF OperationType, Simple
<1>5. ASSUME NEW i \in 1..n
      PROVE  t[i] \in OperationType /\ t[i].type # "remote"
  <2>1. t[i] = IF ops[i].type = "remote" THEN Simple("syncremote") ELSE ops[i]
    BY <1>3
  <2>2. CASE ops[i].type = "remote"
    <3>1. t[i] = Simple("syncremote")
      BY <2>1, <2>2, Zenon
    <3> QED
      BY <1>4, <3>1, Zenon
  <2>3. CASE ops[i].type # "remote"
    <3>1. t[i] = ops[i]
      BY <2>1, <2>3, Zenon
    <3> QED
      BY <1>1, <2>3, <3>1, Zenon
  <2> QED
    BY <2>2, <2>3
<1>6. DOMAIN t = 1..n /\ t = [i \in 1..n |-> t[i]]
  BY <1>3
<1>7. t \in [1..n -> OperationType]
  BY <1>5, <1>6
<1>8. t \in Seq(OperationType) /\ Len(t) = n
  BY <1>6, <1>7, SeqDef
<1>9. ops = <<>> => t = <<>>
  BY <1>1, <1>8
<1> QED
  BY <1>2, <1>5, <1>8, <1>9

\* a command starts
LEMMA OpsStart ==
  ASSUME OpsInv, command.name = "none", response' = response, 0 \notin DOMAIN files',
         IsCommand(command'), ~video'.error,
         \E r, k : /\ IsRun(r, command'.frames, command'.ops)
                   /\ Stands(files', video', perform', command', r, k)
  PROVE  OpsInv'
<1>1. response.status # "success"
  BY DEF OpsInv, OpsFit
<1>2. PICK c : c = command'
  OBVIOUS
<1>3. PICK r, k : IsRun(r, c.frames, c.ops) /\ Stands(files', video', perform', c, r, k)
  BY <1>2
<1>4. OpsFit(files', video', perform', c, response)
  BY <1>1, <1>2, <1>3 DEF OpsFit
<1> QED
  BY <1>2, <1>4 DEF OpsInv


\* a video to which nothing happened yet, with the file it is in
IsNew(w, id, b, ops) ==
  w = [id |-> id, noBlob |-> b, operated |-> 0, ops |-> ops, error |-> FALSE]

LEMMA NewFacts ==
  ASSUME NEW w, NEW id, NEW b \in BOOLEAN, NEW ops, IsNew(w, id, b, ops)
  PROVE  /\ IsVideo(w) /\ ~w.error /\ w.ops = ops /\ w.noBlob = b /\ w.id = id
         /\ Source0(w) = id
BY DEF IsNew, IsVideo, Source0

LEMMA AddVideoApplies ==
  ASSUME VideoAssumption, VideoInv, OpsInv, AddVideo
  PROVE  OpsInv'
<1>1. PICK n \in Lengths, ops \in OpLists, where \in {"blob", "local", "path"}, id \in {Upload, UserFile} :
        /\ command.name = "none"
        /\ command' = [name |-> "AddVideo", frames |-> Original(n), ops |-> AddedOps(ops)]
        /\ files' = Written(files, id, Original(n))
        /\ video' = [NoVideo EXCEPT !.id = id, !.noBlob = where = "path", !.ops = AddedOps(ops)]
        /\ perform' = IF ops = <<>> THEN [NotPerforming EXCEPT !.at = "store"] ELSE Executing(video')
        /\ response' = response
  BY Zenon DEF AddVideo
<1>2. PICK x \in Seq(Frame) : x = Original(n)
  BY OriginalFrames DEF VideoAssumption
<1>3. PICK all \in Seq(OperationType) : /\ all = AddedOps(ops) /\ (ops = <<>> => all = <<>>)
                                        /\ \A i \in 1..Len(all) : all[i].type # "remote"
  BY ListFacts, AddedAre
<1>4. PICK c : c = command'
  OBVIOUS
<1>5. c = [name |-> "AddVideo", frames |-> x, ops |-> all]
  BY <1>1, <1>2, <1>3, <1>4, Zenon
<1>6. c.name = "AddVideo" /\ c.frames = x /\ c.ops = all
  BY <1>5
<1>7. IsCommand(c)
  BY <1>3, <1>6 DEF IsCommand
<1>8. PICK ws : ws = files' /\ Replaces(ws, files, id, x)
  BY <1>1, <1>2, WrittenFacts
<1>9. Has(ws, id, x) /\ May(ws, id, x) /\ 0 \notin DOMAIN ws
  <2>1. 0 \notin DOMAIN files /\ id # 0
    BY DEF OpsInv, OpsFit, Upload, UserFile
  <2> QED
    BY <1>8, <2>1 DEF Replaces, Has, May
<1>10. PICK b \in BOOLEAN : b = (where = "path")
  OBVIOUS
<1>11. PICK w : w = video'
  OBVIOUS
<1>12. w = [NoVideo EXCEPT !.id = id, !.noBlob = b, !.ops = all]
  BY <1>1, <1>3, <1>10, <1>11, Zenon
<1>13. IsNew(w, id, b, all)
  BY <1>12 DEF NoVideo, IsNew
<1>14. PICK r : IsRun(r, x, all)
  BY OneByOneRun
<1>15. r[0] = x
  BY <1>14 DEF IsRun
<1>16. PICK p : p = perform'
  OBVIOUS
<1>17. Stands(ws, w, p, c, r, 0)
  <2>1. CASE ops = <<>>
    <3>1. p = [NotPerforming EXCEPT !.at = "store"]
      BY <1>1, <1>16, <2>1, Zenon
    <3>2. p.at = "store"
      BY <3>1 DEF NotPerforming
    <3>3. c.ops = <<>> /\ Has(ws, w.id, c.frames)
      BY <1>3, <1>6, <1>9, <1>13, <2>1, NewFacts
    <3> QED
      BY <3>2, <3>3 DEF Stands
  <2>2. CASE ops # <<>>
    <3>1. p = Executing(w)
      BY <1>1, <1>11, <1>16, <2>2, Zenon
    <3>2. Ends(w.ops, c.ops, 0) /\ May(ws, Source0(w), r[0]) /\ IsVideo(w) /\ ~w.error
      BY <1>6, <1>9, <1>13, <1>15, NewFacts, AllEnds
    <3>3. Stands(ws, w, Executing(w), c, r, 0)
      BY <1>7, <3>2, ExecutingStands
    <3> QED
      BY <3>1, <3>3
  <2> QED
    BY <2>1, <2>2
<1>18. ~w.error
  BY <1>13, NewFacts
<1>19. \E q, k : IsRun(q, c.frames, c.ops) /\ Stands(ws, w, p, c, q, k)
  BY <1>6, <1>14, <1>17
<1> QED
  BY <1>1, <1>4, <1>7, <1>8, <1>9, <1>11, <1>16, <1>18, <1>19, OpsStart

LEMMA FindVideoApplies ==
  ASSUME VideoAssumption, VideoInv, OpsInv, FindVideo
  PROVE  OpsInv'
<1>1. PICK n \in Lengths, all \in OpLists :
        /\ command.name = "none"
        /\ command' = [name |-> "FindVideo", frames |-> Original(n), ops |-> all]
        /\ files' = Written(files, Store, Original(n))
        /\ video' = [NoVideo EXCEPT !.id = Store, !.ops = all]
        /\ perform' = Executing(video')
        /\ response' = response
  BY Zenon DEF FindVideo
<1>2. PICK x \in Seq(Frame) : x = Original(n)
  BY OriginalFrames DEF VideoAssumption
<1>3. all \in Seq(OperationType)
  BY ListFacts
<1>4. PICK c : c = command'
  OBVIOUS
<1>5. c = [name |-> "FindVideo", frames |-> x, ops |-> all]
  BY <1>1, <1>2, <1>4, Zenon
<1>6. c.name = "FindVideo" /\ c.frames = x /\ c.ops = all
  BY <1>5
<1>7. IsCommand(c)
  BY <1>3, <1>6 DEF IsCommand
<1>8. PICK ws : ws = files' /\ Replaces(ws, files, Store, x)
  BY <1>1, <1>2, WrittenFacts
<1>9. May(ws, Store, x) /\ 0 \notin DOMAIN ws
  <2>1. 0 \notin DOMAIN files /\ Store # 0
    BY DEF OpsInv, OpsFit, Store
  <2> QED
    BY <1>8, <2>1 DEF Replaces, May
<1>10. PICK w : w = video'
  OBVIOUS
<1>11. w = [NoVideo EXCEPT !.id = Store, !.ops = all]
  BY <1>1, <1>10, Zenon
<1>12. IsNew(w, Store, FALSE, all)
  BY <1>11 DEF NoVideo, IsNew
<1>13. PICK r : IsRun(r, x, all)
  BY <1>3, OneByOneRun
<1>14. r[0] = x
  BY <1>13 DEF IsRun
<1>15. PICK p : p = perform' /\ p = Executing(w)
  BY <1>1, <1>10
<1>16. Ends(w.ops, c.ops, 0) /\ May(ws, Source0(w), r[0]) /\ IsVideo(w) /\ ~w.error
  BY <1>3, <1>6, <1>9, <1>12, <1>14, NewFacts, AllEnds, ZenonT(60)
<1>17. Stands(ws, w, Executing(w), c, r, 0)
  BY <1>7, <1>16, ExecutingStands
<1>18. \E q, k : IsRun(q, c.frames, c.ops) /\ Stands(ws, w, p, c, q, k)
  BY <1>6, <1>13, <1>15, <1>17
<1> QED
  BY <1>1, <1>4, <1>7, <1>8, <1>9, <1>10, <1>15, <1>16, <1>18, OpsStart

LEMMA FindFramesApplies ==
  ASSUME VideoInv, OpsInv, FindFrames
  PROVE  OpsInv'
<1>1. PICK n, op : /\ command.name = "none"
                   /\ command' = [name |-> "FindFrames", frames |-> Original(n), ops |-> <<op>>]
                   /\ files' = Written(files, Store, Original(n)) /\ perform' = perform
  BY Zenon DEF FindFrames
<1>2. perform.at = "idle"
  BY <1>1 DEF VideoInv, Careful
<1>3. PICK c : c = command'
  OBVIOUS
<1>4. c.name = "FindFrames"
  BY <1>1, <1>3
<1>5. 0 \notin DOMAIN files'
  <2>1. PICK ws : ws = files' /\ Replaces(ws, files, Store, Original(n))
    BY <1>1, WrittenFacts
  <2>2. 0 \notin DOMAIN files /\ Store # 0
    BY DEF OpsInv, OpsFit, Store
  <2> QED
    BY <2>1, <2>2 DEF Replaces
<1>6. OpsFit(files', video', perform', c, response')
  BY <1>1, <1>2, <1>4, <1>5 DEF OpsFit
<1> QED
  BY <1>3, <1>6 DEF OpsInv

LEMMA StorePlainApplies ==
  ASSUME VideoInv, OpsInv, StorePlain
  PROVE  OpsInv'
<1>1. /\ perform.at = "store" /\ command' = command /\ response' = response
      /\ perform' = [perform EXCEPT !.at = "respond"]
  BY Zenon DEF StorePlain
<1>2. IsCommand(command) /\ 0 \notin DOMAIN files /\ ~video.error /\ command.name = "AddVideo"
  <2>1. command.name = "AddVideo"
    BY <1>1 DEF VideoInv, Careful
  <2> QED
    BY <1>1, <2>1, OpsHas
<1>3. PICK r, k : IsRun(r, command.frames, command.ops) /\ Stands(files, video, perform, command, r, k)
  BY <1>1, <1>2, OpsHas
<1>4. command.ops = <<>> /\ Has(files, video.id, command.frames)
  BY <1>1, <1>3 DEF Stands
<1>5. r[Len(command.ops)] = command.frames
  <2>1. Len(command.ops) = 0
    BY <1>4
  <2> QED
    BY <1>3, <2>1 DEF IsRun
<1>6. PICK p : p = perform' /\ p.at = "respond"
  <2>1. perform'.at = "respond"
    BY <1>1 DEF VideoInv, IsPerform
  <2> QED
    BY <2>1
<1>7. CASE video.noBlob
  <2>1. files' = files /\ video' = video
    BY <1>7, Zenon DEF StorePlain
  <2>2. Stands(files, video, p, command, r, k)
    BY <1>2, <1>4, <1>5, <1>6, <1>7 DEF Stands
  <2> QED
    BY <1>1, <1>2, <1>3, <1>6, <2>1, <2>2, OpsKeep
<1>8. CASE ~video.noBlob
  <2>1. /\ files' = IF FramesOf(video.id) = <<>> THEN Unlinked(files, Upload)
                    ELSE Written(Unlinked(files, Upload), Store, files[video.id])
        /\ video' = [video EXCEPT !.id = Store, !.error = FramesOf(video.id) = <<>>]
    BY <1>8, Zenon DEF StorePlain
  <2>2. PICK us : us = Unlinked(files, Upload)
    OBVIOUS
  <2>3. DOMAIN us \subseteq DOMAIN files
    BY <2>2, UnlinkedFacts, ZenonT(60)
  <2>4. PICK ws : ws = Written(us, Store, files[video.id]) /\ Replaces(ws, us, Store, files[video.id])
    BY WrittenFacts
  <2>5. files' \in {us, ws}
    BY <2>1, <2>2, <2>4, Zenon
  <2>6. 0 \notin DOMAIN files'
    <3>1. Store # 0
      BY DEF Store
    <3> QED
      BY <1>2, <2>3, <2>4, <2>5, <3>1 DEF Replaces
  <2>7. PICK e \in BOOLEAN : e = (FramesOf(video.id) = <<>>)
    OBVIOUS
  <2>8. PICK w : w = video' /\ w = [video EXCEPT !.id = Store, !.error = e]
    BY <2>1, <2>7
  <2>9. w = [id |-> Store, noBlob |-> video.noBlob, operated |-> video.operated, ops |-> video.ops,
             error |-> e]
    BY <2>8, Unpacked
  <2>10. w.error = e /\ w.noBlob = video.noBlob
    BY <2>9
  <2>11. ASSUME ~w.error
         PROVE  Stands(files', w, p, command, r, k)
    <3>1. FramesOf(video.id) # <<>>
      BY <2>7, <2>10, <2>11
    <3>2. files' = ws
      BY <2>1, <2>2, <2>4, <3>1, Zenon
    <3>3. Has(files', Store, command.frames)
      BY <1>4, <2>4, <3>2 DEF Has, Replaces
    <3>4. Has(files', IF w.noBlob THEN w.id ELSE Store, r[Len(command.ops)])
      BY <1>5, <1>8, <2>10, <3>3
    <3> QED
      BY <1>2, <1>6, <3>4 DEF Stands
  <2> QED
    BY <1>1, <1>3, <1>6, <2>6, <2>8, <2>11, OpsKeep
<1> QED
  BY <1>7, <1>8


LEMMA FrameOperationsApplies ==
  ASSUME VideoInv, OpsInv, FrameOperations
  PROVE  OpsInv'
<1>1. PICK F : F = Fresh /\ F \notin DOMAIN files /\ F # 0
  BY FreshFacts, Unpacked DEF Store
<1>2. PICK L : L = LocalOps(video.ops)
  OBVIOUS
<1>3. PICK x : x = FramesOf(perform.id)
  OBVIOUS
<1>4. PICK n : n = IF x = <<>> THEN 1 ELSE perform.count + Len(Stage(L, perform.count))
  OBVIOUS
<1>5. PICK at : at = IF n <= Len(L) THEN "whole" ELSE "end"
  OBVIOUS
<1>6. /\ perform.at = "frames" /\ command' = command /\ video' = video /\ response' = response
      /\ files' = IF x = <<>> THEN files ELSE Written(files, F, Copied(x, L, perform.count))
      /\ perform' = [perform EXCEPT !.count = n, !.fname = F, !.at = at]
  BY <1>1, <1>2, <1>3, <1>4, <1>5, Zenon DEF FrameOperations
<1>7. PICK p : p = perform' /\ p.at = at /\ p.count = n /\ p.id = perform.id /\ p.fname = F
  <2>1. perform' = [at |-> at, count |-> n, id |-> perform.id, fname |-> F]
    BY <1>6, Unpacked
  <2> QED
    BY <2>1
<1>8. IsCommand(command) /\ 0 \notin DOMAIN files /\ command.ops \in Seq(OperationType)
  BY <1>6, OpsHas
<1>9. 0 \notin DOMAIN files'
  <2>1. CASE x = <<>>
    BY <1>6, <1>8, <2>1
  <2>2. CASE x # <<>>
    <3>1. files' = Written(files, F, Copied(x, L, perform.count))
      BY <1>6, <2>2
    <3>2. DOMAIN files' = DOMAIN files \cup {F}
      BY <3>1, WrittenFacts DEF Replaces
    <3> QED
      BY <1>1, <1>8, <3>2
  <2> QED
    BY <2>1, <2>2
<1>10. at \notin {"store", "encode"}
  BY <1>5
<1>11. ASSUME ~video.error
       PROVE  \E r, k : /\ IsRun(r, command.frames, command.ops)
                        /\ Stands(files', video, p, command, r, k)
  <2>1. PICK r, k : IsRun(r, command.frames, command.ops) /\ Stands(files, video, perform, command, r, k)
    BY <1>6, <1>11, OpsHas
  <2>2. /\ Ends(video.ops, command.ops, k) /\ (command.name = "AddVideo" => k = 0)
        /\ perform.count \in 1..Len(L) /\ May(files, perform.id, r[k + perform.count - 1])
    BY <1>2, <1>6, <2>1 DEF Stands
  <2>3. LocalFit(L, video.ops, command.ops, k)
    BY <1>2, <1>8, <2>2, EndsLocal
  <2>4. L \in Seq(OperationType) /\ Follows(L, command.ops, k) /\ k \in Nat
    BY <1>8, <2>2, <2>3 DEF LocalFit, Ends
  <2>5. CASE x = <<>>
    <3>1. n = 1 /\ 1 \in 1..Len(L) /\ at = "whole"
      BY <1>4, <1>5, <2>2, <2>4, <2>5
    <3>2. files' = files
      BY <1>6, <2>5
    <3>3. Void(files, p.id)
      BY <1>3, <1>7, <2>5 DEF FramesOf, Void
    <3>4. Stands(files, video, p, command, r, k)
      BY <1>1, <1>2, <1>7, <2>2, <3>1, <3>3 DEF Stands
    <3> QED
      BY <2>1, <3>2, <3>4
  <2>6. CASE x # <<>>
    <3>1. x = r[k + perform.count - 1]
      BY <1>3, <2>2, <2>6 DEF FramesOf, May
    <3>2. PICK c \in 1..Len(L) : c = perform.count
      BY <2>2
    <3>3. PICK z \in Nat : StageEnds(L, c, z)
      BY <2>4, <3>2, StageFacts
    <3>4. Copied(r[k + c - 1], L, c) = r[k + z - 1]
      BY <1>8, <2>1, <2>4, <3>2, <3>3, CopiedIs
    <3>5. Copied(x, L, perform.count) = r[k + z - 1]
      BY <3>1, <3>2, <3>4
    <3>6. n = z
      <4>1. Len(Stage(L, c)) = z - c
        BY <3>3 DEF StageEnds, Piece
      <4>2. n = c + Len(Stage(L, c))
        BY <1>4, <2>6, <3>2
      <4> QED
        BY <3>2, <3>3, <4>1, <4>2
    <3>7. files' = Written(files, F, r[k + z - 1])
      BY <1>6, <2>6, <3>5
    <3>8. Has(files', F, r[k + z - 1])
      <4>1. PICK y : y = r[k + z - 1]
        OBVIOUS
      <4>2. files' = Written(files, F, y)
        BY <3>7, <4>1, Zenon
      <4>3. Replaces(files', files, F, y)
        BY <4>2, WrittenFacts
      <4> QED
        BY <4>1, <4>3 DEF Replaces, Has
    <3>9. z \in c..(Len(L) + 1) /\ (z <= Len(L) => WholeVideo(L[z]))
      BY <3>3 DEF StageEnds
    <3>10. CASE z <= Len(L)
      <4>1. at = "whole" /\ n \in 1..Len(L) /\ p.count = z /\ WholeVideo(L[z])
        BY <1>5, <1>7, <3>2, <3>6, <3>9, <3>10
      <4>2. Stands(files', video, p, command, r, k)
        BY <1>2, <1>7, <2>2, <3>6, <3>8, <4>1 DEF Stands
      <4> QED
        BY <2>1, <4>2
    <3>11. CASE ~(z <= Len(L))
      <4>1. at = "end" /\ z - 1 = Len(L) /\ k + z - 1 = k + Len(L)
        BY <1>5, <2>4, <3>2, <3>6, <3>9, <3>11
      <4>2. May(files', p.fname, r[k + Len(L)])
        BY <1>7, <3>8, <4>1 DEF Has, May
      <4>3. Stands(files', video, p, command, r, k)
        BY <1>2, <1>7, <2>2, <4>1, <4>2 DEF Stands
      <4> QED
        BY <2>1, <4>3
    <3> QED
      BY <3>10, <3>11
  <2> QED
    BY <2>5, <2>6
<1> QED
  BY <1>6, <1>7, <1>9, <1>10, <1>11, OpsKeep

LEMMA FrameOperationsFailApplies ==
  ASSUME VideoInv, OpsInv, FrameOperationsFail
  PROVE  OpsInv'
<1>1. PICK F : F = Fresh /\ F # 0
  BY FreshFacts, Unpacked DEF Store
<1>2. /\ perform.at = "frames" /\ command' = command /\ response' = response
      /\ video' = [video EXCEPT !.error = TRUE] /\ perform' = [perform EXCEPT !.at = "respond"]
  BY Zenon DEF FrameOperationsFail
<1>3. files' \in {files, Written(files, F, <<>>)}
  BY <1>1, Zenon DEF FrameOperationsFail
<1>4. 0 \notin DOMAIN files
  BY <1>2, OpsHas
<1>5. 0 \notin DOMAIN files'
  <2>1. DOMAIN Written(files, F, <<>>) = DOMAIN files \cup {F}
    BY WrittenFacts DEF Replaces
  <2> QED
    BY <1>1, <1>3, <1>4, <2>1
<1>6. video'.error
  BY <1>2 DEF VideoInv, IsVideo
<1>7. perform'.at = "respond"
  BY <1>2 DEF VideoInv, IsPerform
<1> QED
  BY <1>2, <1>5, <1>6, <1>7, OpsKeep

\* the loop goes on with the file in which there is the video after the operation
LEMMA AfterStands ==
  ASSUME IsPerform(perform), NEW c, IsCommand(c), NEW r, NEW k, NEW v, v.ops = video.ops,
         Ends(v.ops, c.ops, k), c.name = "AddVideo" => k = 0,
         perform.count \in 1..Len(LocalOps(v.ops)), NEW fs, May(fs, perform.fname, r[k + perform.count])
  PROVE  Stands(fs, v, AfterWhole, c, r, k)
<1>1. PICK L : L = LocalOps(v.ops)
  OBVIOUS
<1>2. c.ops \in Seq(OperationType)
  BY DEF IsCommand
<1>3. LocalFit(L, v.ops, c.ops, k) /\ k \in Nat
  <2>1. LocalFit(L, v.ops, c.ops, k)
    BY <1>1, <1>2, EndsLocal
  <2>2. k \in Nat
    BY <1>2 DEF Ends
  <2> QED
    BY <2>1, <2>2
<1>4. Len(L) \in Nat
  BY <1>3 DEF LocalFit
<1>5. PICK m \in 1..Len(L) : m = perform.count
  BY <1>1
<1>6. PICK at : at = IF m < Len(L) THEN "frames" ELSE "end"
  OBVIOUS
<1>7. AfterWhole = [perform EXCEPT !.count = @ + 1, !.id = perform.fname, !.at = at]
  BY <1>1, <1>5, <1>6, Zenon DEF AfterWhole
<1>8. PICK p : p = AfterWhole /\ p.at = at /\ p.count = m + 1 /\ p.id = perform.fname /\ p.fname = perform.fname
  <2>1. AfterWhole = [at |-> at, count |-> perform.count + 1, id |-> perform.fname,
                      fname |-> perform.fname]
    BY <1>7 DEF IsPerform
  <2> QED
    BY <1>5, <2>1
<1>9. CASE m < Len(L)
  <2>1. at = "frames" /\ p.count \in 1..Len(L) /\ k + p.count - 1 = k + m
    BY <1>3, <1>4, <1>5, <1>6, <1>8, <1>9
  <2>2. May(fs, p.id, r[k + p.count - 1])
    BY <1>5, <1>8, <2>1
  <2>3. Stands(fs, v, p, c, r, k)
    BY <1>1, <1>8, <2>1, <2>2 DEF Stands
  <2> QED
    BY <1>8, <2>3
<1>10. CASE ~(m < Len(L))
  <2>1. at = "end" /\ m = Len(L)
    BY <1>4, <1>5, <1>6, <1>10
  <2>2. May(fs, p.fname, r[k + Len(L)])
    BY <1>5, <1>8, <2>1
  <2>3. Stands(fs, v, p, c, r, k)
    BY <1>1, <1>8, <2>1, <2>2 DEF Stands
  <2> QED
    BY <1>8, <2>3
<1> QED
  BY <1>9, <1>10

\* what there is when an operation on the whole video is made
WholeFit(L, r, k, m, op) ==
  /\ L \in Seq(OperationType) /\ m \in 1..Len(L) /\ op = L[m] /\ op \in OperationType
  /\ r[k + m] = Step(r[k + m - 1], op) /\ r[k + m - 1] \in Seq(Frame)

LEMMA WholeFacts ==
  ASSUME OpsInv, perform.at = "whole", NEW r, NEW k, IsRun(r, command.frames, command.ops),
         Stands(files, video, perform, command, r, k)
  PROVE  /\ Ends(video.ops, command.ops, k) /\ (command.name = "AddVideo" => k = 0)
         /\ perform.count \in 1..Len(LocalOps(video.ops))
         /\ WholeFit(LocalOps(video.ops), r, k, perform.count, CurrentOp)
<1>1. IsCommand(command) /\ command.ops \in Seq(OperationType)
  BY OpsHas
<1>2. /\ Ends(video.ops, command.ops, k) /\ (command.name = "AddVideo" => k = 0)
      /\ perform.count \in 1..Len(LocalOps(video.ops))
  BY DEF Stands
<1>3. PICK L : L = LocalOps(video.ops)
  OBVIOUS
<1>4. LocalFit(L, video.ops, command.ops, k)
  BY <1>1, <1>2, <1>3, EndsLocal
<1>5. PICK m \in 1..Len(L) : m = perform.count
  BY <1>2, <1>3
<1>6. L \in Seq(OperationType) /\ L[m] = command.ops[k + m] /\ k + Len(L) <= Len(command.ops)
  BY <1>4, <1>5 DEF LocalFit, Follows
<1>7. k \in Nat /\ k + m \in 1..Len(command.ops)
  BY <1>1, <1>2, <1>5, <1>6 DEF Ends
<1>8. r[k + m] = Step(r[(k + m) - 1], L[m])
  BY <1>6, <1>7 DEF IsRun
<1>9. (k + m) - 1 = k + m - 1 /\ L[m] \in OperationType /\ CurrentOp = L[m]
  BY <1>3, <1>5, <1>6, <1>7, SMTT(60) DEF CurrentOp
<1>10. r[(k + m) - 1] \in Seq(Frame)
  <2>1. (k + m) - 1 \in 0..Len(command.ops)
    BY <1>7
  <2> QED
    BY <2>1 DEF IsRun
<1>11. WholeFit(L, r, k, m, CurrentOp)
  BY <1>5, <1>6, <1>8, <1>9, <1>10 DEF WholeFit
<1> QED
  BY <1>2, <1>3, <1>5, <1>11

\* the file that replaces the copy has the operation applied to the whole video
LEMMA WholeKeepsRun ==
  ASSUME VideoInv, OpsInv, perform.at = "whole", command' = command, response' = response,
         perform' = AfterWhole, video'.ops = video.ops, 0 \notin DOMAIN files',
         ~video'.error => ~video.error,
         ASSUME ~video'.error, NEW r, NEW k, IsRun(r, command.frames, command.ops),
                Stands(files, video, perform, command, r, k)
         PROVE  May(files', perform.fname, r[k + perform.count])
  PROVE  OpsInv'
<1>1. IsCommand(command) /\ IsPerform(perform)
  BY OpsHas, Unpacked
<1>2. perform'.at \notin {"store", "encode"}
  BY <1>1, AfterWholeFacts
<1>3. ASSUME ~video'.error
      PROVE  \E r, k : /\ IsRun(r, command.frames, command.ops)
                       /\ Stands(files', video', perform', command, r, k)
  <2>1. PICK r, k : IsRun(r, command.frames, command.ops) /\ Stands(files, video, perform, command, r, k)
    BY <1>3, OpsHas
  <2>2. May(files', perform.fname, r[k + perform.count])
    BY <1>3, <2>1
  <2>3. /\ Ends(video.ops, command.ops, k) /\ (command.name = "AddVideo" => k = 0)
        /\ perform.count \in 1..Len(LocalOps(video.ops))
    BY <2>1, WholeFacts
  <2>4. PICK v, fs : v = video' /\ fs = files'
    OBVIOUS
  <2>5. Stands(fs, v, AfterWhole, command, r, k)
    <3>1. v.ops = video.ops /\ May(fs, perform.fname, r[k + perform.count])
      BY <2>2, <2>4
    <3>2. Ends(v.ops, command.ops, k) /\ perform.count \in 1..Len(LocalOps(v.ops))
      BY <2>3, <3>1
    <3> QED
      BY <1>1, <2>3, <3>1, <3>2, AfterStands
  <2> QED
    BY <2>1, <2>4, <2>5
<1> QED
  BY <1>2, <1>3, OpsKeep


LEMMA IntervalApplies ==
  ASSUME VideoInv, OpsInv, IntervalOperation
  PROVE  OpsInv'
<1>1. PICK op : op = CurrentOp
  OBVIOUS
<1>2. PICK out \in BOOLEAN :
        /\ OutOfBounds(FramesOf(perform.id), op) => out
        /\ out => video' = [video EXCEPT !.error = TRUE] /\ files' = files
        /\ ~out => /\ files' = Written(files, perform.fname, Sampled(files[perform.fname], op))
                   /\ video' = video
  <2>1. CASE video' = [video EXCEPT !.error = TRUE] /\ files' = files
    BY <2>1
  <2>2. CASE /\ ~OutOfBounds(FramesOf(perform.id), op)
             /\ files' = Written(files, perform.fname, Sampled(files[perform.fname], op))
             /\ video' = video
    BY <2>2
  <2> QED
    BY <1>1, <2>1, <2>2, Zenon DEF IntervalOperation
<1>3. /\ perform.at = "whole" /\ op.type = "interval" /\ command' = command /\ response' = response
      /\ perform' = AfterWhole
  BY <1>1, Zenon DEF IntervalOperation
<1>5. PICK f : f = perform.fname /\ f # 0
  BY <1>3 DEF VideoInv, Careful, Store
<1>6. 0 \notin DOMAIN files /\ IsCommand(command)
  BY <1>3, OpsHas
<1>7. CASE out
  <2>1. video' = [id |-> video.id, noBlob |-> video.noBlob, operated |-> video.operated,
                  ops |-> video.ops, error |-> TRUE]
    BY <1>2, <1>7, Unpacked
  <2>2. video'.ops = video.ops /\ video'.error
    BY <2>1
  <2> QED
    BY <1>2, <1>3, <1>6, <1>7, <2>2, WholeKeepsRun
<1>8. CASE ~out
  <2>1. files' = Written(files, f, Sampled(files[f], op)) /\ video' = video
    BY <1>2, <1>5, <1>8
  <2>2. PICK ws, y : ws = files' /\ y = Sampled(files[f], op) /\ Replaces(ws, files, f, y)
    BY <2>1, WrittenFacts
  <2>3. 0 \notin DOMAIN ws
    BY <1>5, <1>6, <2>2 DEF Replaces
  <2>4. ASSUME ~video'.error, NEW r, NEW k, IsRun(r, command.frames, command.ops),
               Stands(files, video, perform, command, r, k)
        PROVE  May(ws, f, r[k + perform.count])
    <3>1. WholeFit(LocalOps(video.ops), r, k, perform.count, op)
      BY <1>1, <1>3, <2>4, WholeFacts
    <3>2. op \in OperationType /\ r[k + perform.count] = Step(r[k + perform.count - 1], op)
      BY <3>1 DEF WholeFit
    <3>3. ~Void(files, perform.id)
      <4> SUFFICES ASSUME Void(files, perform.id)
                   PROVE  FALSE
        OBVIOUS
      <4>1. FramesOf(perform.id) = <<>>
        BY DEF FramesOf, Void
      <4>2. op.start \in Nat /\ Len(FramesOf(perform.id)) = 0
        BY <1>3, <3>2, <4>1, OpFacts
      <4>3. op.start >= Len(FramesOf(perform.id))
        BY <4>2
      <4> QED
        BY <1>2, <1>8, <4>3, Zenon DEF OutOfBounds
    <3>4. Has(files, f, r[k + perform.count - 1])
      BY <1>3, <1>5, <2>4, <3>3 DEF Stands
    <3>5. y = r[k + perform.count]
      <4>1. PICK x : x = r[k + perform.count - 1]
        OBVIOUS
      <4>2. x \in Seq(Frame)
        BY <3>1, <4>1 DEF WholeFit
      <4>3. Reduced(x, op) = Sampled(x, op)
        BY <1>3, <3>2, <4>2, ReducedIs
      <4>4. y = Sampled(x, op) /\ r[k + perform.count] = Step(x, op)
        BY <2>2, <3>2, <3>4, <4>1, Zenon DEF Has
      <4> QED
        BY <1>3, <4>3, <4>4, Zenon DEF Step
    <3> QED
      BY <2>2, <3>5 DEF May, Replaces
  <2> QED
    BY <1>3, <1>5, <2>1, <2>2, <2>3, <2>4, WholeKeepsRun
<1> QED
  BY <1>7, <1>8

LEMMA SyncRemoteApplies ==
  ASSUME VideoInv, OpsInv, SyncRemoteOperation
  PROVE  OpsInv'
<1>1. PICK op : op = CurrentOp
  OBVIOUS
<1>2. PICK outcome, works :
        /\ works \in BOOLEAN /\ works = (outcome = "video" /\ FramesOf(perform.id) # <<>>)
        /\ perform.at = "whole" /\ op.type = "syncremote"
        /\ files' = IF works THEN Written(files, perform.fname, Served(files[perform.fname], op))
                    ELSE IF outcome = "none" THEN Unlinked(files, perform.fname) ELSE files
        /\ video' = [video EXCEPT !.error = @ \/ ~works]
        /\ perform' = AfterWhole /\ command' = command /\ response' = response
  <2>1. PICK outcome :
        /\ perform.at = "whole" /\ op.type = "syncremote"
        /\ files' = IF outcome = "video" /\ FramesOf(perform.id) # <<>>
                    THEN Written(files, perform.fname, Served(files[perform.fname], op))
                    ELSE IF outcome = "none" THEN Unlinked(files, perform.fname) ELSE files
        /\ video' = [video EXCEPT !.error = @ \/ ~(outcome = "video" /\ FramesOf(perform.id) # <<>>)]
        /\ perform' = AfterWhole /\ command' = command /\ response' = response
    BY <1>1, Zenon DEF SyncRemoteOperation
  <2>2. PICK works : works = (outcome = "video" /\ FramesOf(perform.id) # <<>>)
    OBVIOUS
  <2>3. works \in BOOLEAN
    BY <2>2
  <2>4. /\ files' = IF works THEN Written(files, perform.fname, Served(files[perform.fname], op))
                    ELSE IF outcome = "none" THEN Unlinked(files, perform.fname) ELSE files
        /\ video' = [video EXCEPT !.error = @ \/ ~works]
    BY <2>1, <2>2, Zenon
  <2> QED
    BY <2>1, <2>2, <2>3, <2>4, Zenon
<1>3. PICK f : f = perform.fname /\ f # 0
  BY <1>2 DEF VideoInv, Careful, Store
<1>4. 0 \notin DOMAIN files /\ IsCommand(command)
  BY <1>2, OpsHas
<1>5. PICK e \in BOOLEAN : e = (video.error \/ ~works)
  OBVIOUS
<1>6. video'.ops = video.ops /\ video'.error = e
  <2>1. video' = [id |-> video.id, noBlob |-> video.noBlob, operated |-> video.operated,
                  ops |-> video.ops, error |-> video.error \/ ~works]
    BY <1>2, Unpacked
  <2> QED
    BY <1>5, <2>1
<1>7. PICK ws, y : y = Served(files[f], op) /\ ws = Written(files, f, y) /\ Replaces(ws, files, f, y)
  BY WrittenFacts
<1>8. PICK us : us = Unlinked(files, f) /\ DOMAIN us = DOMAIN files \ {f}
  BY UnlinkedFacts
<1>9. files' \in {ws, us, files} /\ (works => files' = ws)
  BY <1>2, <1>3, <1>7, <1>8, Zenon
<1>10. 0 \notin DOMAIN files'
  BY <1>3, <1>4, <1>7, <1>8, <1>9 DEF Replaces
<1>11. ASSUME ~video'.error, NEW r, NEW k, IsRun(r, command.frames, command.ops),
              Stands(files, video, perform, command, r, k)
       PROVE  May(files', f, r[k + perform.count])
  <2>1. works /\ files' = ws /\ FramesOf(perform.id) # <<>>
    BY <1>2, <1>5, <1>6, <1>9, <1>11
  <2>2. WholeFit(LocalOps(video.ops), r, k, perform.count, op)
    BY <1>1, <1>2, <1>11, WholeFacts
  <2>3. op \in OperationType /\ r[k + perform.count] = Step(r[k + perform.count - 1], op)
    BY <2>2 DEF WholeFit
  <2>4. ~Void(files, perform.id)
    BY <2>1 DEF FramesOf, Void
  <2>5. Has(files, f, r[k + perform.count - 1])
    BY <1>2, <1>3, <1>11, <2>4 DEF Stands
  <2>6. y = r[k + perform.count]
    <3>1. op.type # "interval"
      BY <1>2
    <3> QED
      BY <1>7, <2>3, <2>5, <3>1, Zenon DEF Step, Has, Served
  <2> QED
    BY <1>7, <2>1, <2>6 DEF May, Replaces
<1>12. ~video'.error => ~video.error
  BY <1>5, <1>6
<1> QED
  BY <1>2, <1>3, <1>6, <1>10, <1>11, <1>12, WholeKeepsRun

LEMMA OnNothingApplies ==
  ASSUME VideoInv, OpsInv, FrameOperationOnNothing
  PROVE  OpsInv'
<1>1. /\ perform.at = "whole" /\ ~WholeVideo(CurrentOp) /\ files' = files /\ command' = command
      /\ response' = response
  BY Zenon DEF FrameOperationOnNothing
<1>2. 0 \notin DOMAIN files /\ IsCommand(command)
  BY <1>1, OpsHas
<1>3. CASE CurrentOp.type = "resize"
  <2>1. video' = [video EXCEPT !.error = TRUE] /\ perform' = [perform EXCEPT !.at = "respond"]
    BY <1>3, Zenon DEF FrameOperationOnNothing
  <2>2. video'.error
    BY <2>1 DEF VideoInv, IsVideo
  <2>3. perform'.at = "respond"
    BY <2>1 DEF VideoInv, IsPerform
  <2> QED
    BY <1>1, <1>2, <2>2, <2>3, OpsKeep
<1>4. CASE CurrentOp.type # "resize"
  <2>1. perform' = AfterWhole /\ video' = video
    BY <1>4, Zenon DEF FrameOperationOnNothing
  <2>2. ASSUME ~video'.error, NEW r, NEW k, IsRun(r, command.frames, command.ops),
               Stands(files, video, perform, command, r, k)
        PROVE  May(files, perform.fname, r[k + perform.count])
    <3>1. \/ WholeVideo(CurrentOp) /\ Has(files, perform.fname, r[k + perform.count - 1])
          \/ perform.fname \notin DOMAIN files /\ Void(files, perform.id)
      BY <1>1, <2>2 DEF Stands, CurrentOp
    <3>2. perform.fname \notin DOMAIN files
      BY <1>1, <3>1
    <3> QED
      BY <3>2 DEF May
  <2> QED
    BY <1>1, <1>2, <2>1, <2>2, WholeKeepsRun
<1> QED
  BY <1>3, <1>4


\* a file renamed to another one
LEMMA RenamedHas ==
  ASSUME NEW fs, NEW f, NEW t, f # t, 0 \notin DOMAIN fs, t # 0
  PROVE  Has(Renamed(fs, f, t), t, fs[f]) /\ 0 \notin DOMAIN Renamed(fs, f, t)
<1>1. PICK x, ws : x = fs[f] /\ ws = Written(fs, t, x) /\ Replaces(ws, fs, t, x)
  BY WrittenFacts
<1>2. PICK us : us = Unlinked(ws, f)
  OBVIOUS
<1>3. /\ DOMAIN us = DOMAIN ws \ {f}
       /\ \A g \in DOMAIN ws : g # f => us[g] = ws[g]
  BY <1>2, UnlinkedFacts, Zenon
<1>4. us = Renamed(fs, f, t)
  BY <1>1, <1>2, Zenon DEF Renamed
<1>5. Has(us, t, x) /\ 0 \notin DOMAIN us
  BY <1>1, <1>3 DEF Replaces, Has
<1> QED
  BY <1>1, <1>4, <1>5

LEMMA EndPerformApplies ==
  ASSUME VideoInv, OpsInv, EndPerform
  PROVE  OpsInv'
<1>1. /\ perform.at = "end" /\ command' = command /\ response' = response
  BY Zenon DEF EndPerform
<1>2. IsCommand(command) /\ 0 \notin DOMAIN files /\ command.ops \in Seq(OperationType)
  BY <1>1, OpsHas
<1>3. PICK f : f = perform.fname /\ f # 0 /\ f > Store /\ f \in Nat
  BY <1>1 DEF VideoInv, Careful, Store
<1>4. ASSUME ~video.error
      PROVE  \E r, k : /\ IsRun(r, command.frames, command.ops)
                       /\ Ends(video.ops, command.ops, k) /\ (command.name = "AddVideo" => k = 0)
                       /\ May(files, f, r[k + Len(LocalOps(video.ops))])
  <2>1. PICK r, k : IsRun(r, command.frames, command.ops) /\ Stands(files, video, perform, command, r, k)
    BY <1>1, <1>4, OpsHas
  <2>2. /\ Ends(video.ops, command.ops, k) /\ (command.name = "AddVideo" => k = 0)
        /\ May(files, f, r[k + Len(LocalOps(video.ops))])
    BY <1>1, <1>3, <2>1 DEF Stands
  <2> QED
    BY <2>1, <2>2
<1>5. CASE Adding
  <2>0. command.name = "AddVideo"
    BY <1>5 DEF Adding
  <2>1. PICK rest, target, exists :
        /\ rest = Unlinked(files, Upload) /\ target = IF video.noBlob THEN video.id ELSE Store
        /\ exists \in BOOLEAN /\ exists = (f \in DOMAIN files)
    <3>1. PICK exists : exists = (f \in DOMAIN files)
      OBVIOUS
    <3>2. exists \in BOOLEAN
      BY <3>1
    <3> QED
      BY <3>1, <3>2, Zenon
  <2>2. /\ files' = IF exists THEN Renamed(rest, f, target) ELSE rest
        /\ video' = [video EXCEPT !.ops = <<>>, !.error = @ \/ ~exists]
        /\ perform' = [perform EXCEPT !.at = "respond"]
    BY <1>3, <1>5, <2>1, Zenon DEF EndPerform
  <2>3. perform'.at = "respond"
    BY <2>2 DEF VideoInv, IsPerform
  <2>4. PICK w, e : w = video' /\ e = (video.error \/ ~exists)
    OBVIOUS
  <2>5. w = [id |-> video.id, noBlob |-> video.noBlob, operated |-> video.operated, ops |-> <<>>,
             error |-> e]
    BY <2>2, <2>4, Unpacked
  <2>6. w.id = video.id /\ w.noBlob = video.noBlob /\ w.error = e
    BY <2>5
  <2>7. target # f /\ target # 0 /\ f # Upload
    <3>1. Source(files, video, command.name, command.frames)
      BY Unpacked
    <3>2. video.noBlob => video.id = UserFile
      BY <2>0, <3>1 DEF Source
    <3>3. target \in {UserFile, Store}
      BY <2>1, <3>2
    <3> QED
      BY <1>3, <3>3 DEF UserFile, Store, Upload
  <2>8. /\ DOMAIN rest = DOMAIN files \ {Upload}
        /\ \A g \in DOMAIN files : g # Upload => rest[g] = files[g]
    BY <2>1, UnlinkedFacts, Zenon
  <2>9. 0 \notin DOMAIN rest
    BY <1>2, <2>8
  <2>10. PICK ns : ns = Renamed(rest, f, target) /\ Has(ns, target, rest[f]) /\ 0 \notin DOMAIN ns
    BY <2>7, <2>9, RenamedHas
  <2>11. files' \in {rest, ns} /\ (exists => files' = ns)
    BY <2>2, <2>10, Zenon
  <2>12. 0 \notin DOMAIN files'
    BY <2>9, <2>10, <2>11
  <2>13. ASSUME ~w.error
         PROVE  \E r, k : /\ IsRun(r, command.frames, command.ops)
                          /\ Stands(files', w, perform', command, r, k)
    <3>1. ~video.error /\ exists /\ files' = ns /\ f \in DOMAIN files
      BY <2>1, <2>4, <2>6, <2>11, <2>13
    <3>2. PICK r, k : /\ IsRun(r, command.frames, command.ops)
                      /\ Ends(video.ops, command.ops, k) /\ k = 0
                      /\ May(files, f, r[k + Len(LocalOps(video.ops))])
      BY <1>4, <2>0, <3>1
    <3>3. k + Len(LocalOps(video.ops)) = Len(command.ops)
      <4>1. \A i \in 1..Len(command.ops) : command.ops[i].type # "remote"
        BY <1>2, <2>0 DEF IsCommand
      <4> QED
        BY <1>2, <3>2, <4>1, LocalAll
    <3>4. files[f] = r[Len(command.ops)]
      BY <3>1, <3>2, <3>3 DEF May
    <3>5. rest[f] = files[f]
      BY <2>7, <2>8, <3>1
    <3>6. target = IF w.noBlob THEN w.id ELSE Store
      BY <2>1, <2>6
    <3>7. Has(files', IF w.noBlob THEN w.id ELSE Store, r[Len(command.ops)])
      BY <2>10, <3>1, <3>4, <3>5, <3>6
    <3>8. Stands(files', w, perform', command, r, k)
      BY <2>0, <2>3, <3>7 DEF Stands
    <3> QED
      BY <3>2, <3>8
  <2> QED
    BY <1>1, <2>3, <2>4, <2>12, <2>13, OpsKeep
<1>6. CASE ~Adding
  <2>0. command.name = "FindVideo"
    BY <1>2, <1>6 DEF IsCommand, Adding
  <2>1. /\ video' = [video EXCEPT !.ops = RemainingOps(@), !.operated = f]
        /\ perform' = Executing(video') /\ files' = files
    BY <1>3, <1>6, Zenon DEF EndPerform
  <2>2. PICK w : w = video'
    OBVIOUS
  <2>3. w = [id |-> video.id, noBlob |-> video.noBlob, operated |-> f, ops |-> RemainingOps(video.ops),
             error |-> video.error]
    BY <2>1, <2>2, Unpacked
  <2>4. IsVideo(w) /\ w.operated = f /\ w.ops = RemainingOps(video.ops) /\ w.error = video.error
    BY <2>3, Unpacked DEF IsVideo
  <2>5. Executing(w).at \in {"store", "encode"} => ~w.error
    BY <2>4, ExecutingFacts
  <2>6. ASSUME ~w.error
        PROVE  \E r, k : /\ IsRun(r, command.frames, command.ops)
                         /\ Stands(files, w, Executing(w), command, r, k)
    <3>1. PICK r, k : /\ IsRun(r, command.frames, command.ops)
                      /\ Ends(video.ops, command.ops, k)
                      /\ May(files, f, r[k + Len(LocalOps(video.ops))])
      BY <1>4, <2>4, <2>6
    <3>2. PICK n : n = k + Len(LocalOps(video.ops))
      OBVIOUS
    <3>3. Ends(w.ops, command.ops, n)
      <4>1. Ends(RemainingOps(video.ops), command.ops, k + Len(LocalOps(video.ops)))
        BY <1>2, <3>1, EndsRest
      <4> QED
        BY <2>4, <3>2, <4>1
    <3>4. Source0(w) = f /\ May(files, f, r[n])
      BY <1>3, <2>4, <3>1, <3>2 DEF Source0
    <3>5. Stands(files, w, Executing(w), command, r, n)
      BY <1>2, <2>0, <2>4, <2>6, <3>3, <3>4, ExecutingStands
    <3> QED
      BY <3>1, <3>5
  <2> QED
    BY <1>1, <1>2, <2>1, <2>2, <2>5, <2>6, OpsKeep
<1> QED
  BY <1>5, <1>6

LEMMA RemoteOperationApplies ==
  ASSUME VideoInv, OpsInv, RemoteOperation
  PROVE  OpsInv'
<1>1. /\ perform.at = "remote" /\ command' = command /\ response' = response /\ files' = files
      /\ video' = [video EXCEPT !.operated = IF @ = 0 THEN video.id ELSE @, !.ops = Tail(@)]
      /\ perform' = [perform EXCEPT !.at = "sent"]
  BY Zenon DEF RemoteOperation
<1>2. 0 \notin DOMAIN files /\ command.ops \in Seq(OperationType)
  BY <1>1, OpsHas
<1>3. perform'.at = "sent"
  BY <1>1 DEF VideoInv, IsPerform
<1>4. PICK w, s : w = video' /\ s = Source0(video)
  OBVIOUS
<1>5. w = [id |-> video.id, noBlob |-> video.noBlob,
           operated |-> IF video.operated = 0 THEN video.id ELSE video.operated,
           ops |-> Tail(video.ops), error |-> video.error]
  BY <1>1, <1>4, Unpacked
<1>6. w.operated = s /\ w.ops = Tail(video.ops) /\ w.error = video.error
  BY <1>4, <1>5 DEF Source0
<1>7. ASSUME ~w.error
      PROVE  \E r, k : /\ IsRun(r, command.frames, command.ops)
                       /\ Stands(files, w, perform', command, r, k)
  <2>1. PICK r, k : IsRun(r, command.frames, command.ops) /\ Stands(files, video, perform, command, r, k)
    BY <1>1, <1>6, <1>7, OpsHas
  <2>2. /\ Ends(video.ops, command.ops, k) /\ video.ops # <<>> /\ video.ops[1].type = "remote"
        /\ May(files, s, r[k])
    BY <1>1, <1>4, <2>1 DEF Stands
  <2>3. /\ Ends(Tail(video.ops), command.ops, k + 1) /\ video.ops[1] = command.ops[k + 1]
        /\ k + 1 \in 1..Len(command.ops)
    BY <1>2, <2>2, EndsTail
  <2>4. PICK n : n = k + 1
    OBVIOUS
  <2>5. n >= 1 /\ command.ops[n].type = "remote" /\ n - 1 = k
    <3>1. k \in 0..Len(command.ops) /\ Len(command.ops) \in Nat
      BY <1>2, <2>2 DEF Ends
    <3> QED
      BY <2>2, <2>3, <2>4, <3>1
  <2>6. Ends(w.ops, command.ops, n) /\ May(files, w.operated, r[n - 1])
    BY <1>6, <2>2, <2>3, <2>4, <2>5
  <2>7. Stands(files, w, perform', command, r, n)
    BY <1>3, <2>5, <2>6 DEF Stands
  <2> QED
    BY <2>1, <2>7
<1> QED
  BY <1>1, <1>2, <1>3, <1>4, <1>7, OpsKeep

\* what the server returns is the video with the remote operation applied
LEMMA ServedIs ==
  ASSUME NEW x, NEW op \in OperationType, op.type = "remote"
  PROVE  Served(x, Simple("remote")) = Step(x, op)
<1>1. op = Simple("remote")
  BY DEF OperationType, Simple, Interval
<1>2. op.type # "interval"
  OBVIOUS
<1> QED
  BY <1>1, <1>2, Zenon DEF Served, Step

LEMMA RemoteResponseApplies ==
  ASSUME VideoInv, OpsInv, RemoteResponse
  PROVE  OpsInv'
<1>1. PICK F : F = Fresh /\ F # 0
  BY FreshFacts, Unpacked DEF Store
<1>2. PICK good \in BOOLEAN :
        /\ perform.at = "sent" /\ command' = command /\ response' = response
        /\ perform' = Executing(video')
        /\ IF good /\ video.operated \in DOMAIN files
           THEN /\ files' = Written(files, F, Served(files[video.operated], Simple("remote")))
                /\ video' = [video EXCEPT !.operated = F]
           ELSE video' = RemoteFailed(video) /\ files' = files
  BY <1>1, Zenon DEF RemoteResponse
<1>3. 0 \notin DOMAIN files /\ IsCommand(command) /\ command.ops \in Seq(OperationType)
  BY <1>2, OpsHas
<1>4. command.name = "FindVideo"
  BY <1>2 DEF VideoInv, Careful
<1>5. PICK w : w = video'
  OBVIOUS
<1>6. CASE good /\ video.operated \in DOMAIN files
  <2>1. PICK y : y = Served(files[video.operated], Simple("remote"))
    OBVIOUS
  <2>2. files' = Written(files, F, y) /\ w = [video EXCEPT !.operated = F]
    BY <1>2, <1>5, <1>6, <2>1, Zenon
  <2>3. PICK ws : ws = files' /\ Replaces(ws, files, F, y)
    BY <2>2, WrittenFacts
  <2>4. w = [id |-> video.id, noBlob |-> video.noBlob, operated |-> F, ops |-> video.ops,
             error |-> video.error]
    BY <2>2, Unpacked
  <2>5. IsVideo(w) /\ w.operated = F /\ w.ops = video.ops /\ w.error = video.error
    BY <2>4, Unpacked DEF IsVideo
  <2>6. Executing(w).at \in {"store", "encode"} => ~w.error
    BY <2>5, ExecutingFacts
  <2>7. 0 \notin DOMAIN ws
    BY <1>1, <1>3, <2>3 DEF Replaces
  <2>8. ASSUME ~w.error
        PROVE  \E r, k : /\ IsRun(r, command.frames, command.ops)
                         /\ Stands(ws, w, Executing(w), command, r, k)
    <3>1. PICK r, k : IsRun(r, command.frames, command.ops) /\ Stands(files, video, perform, command, r, k)
      BY <1>2, <2>5, <2>8, OpsHas
    <3>2. /\ Ends(video.ops, command.ops, k) /\ k >= 1 /\ command.ops[k].type = "remote"
          /\ May(files, video.operated, r[k - 1])
      BY <1>2, <3>1 DEF Stands
    <3>3. k \in 1..Len(command.ops)
      BY <1>3, <3>2 DEF Ends
    <3>4. r[k] = Step(r[k - 1], command.ops[k]) /\ command.ops[k] \in OperationType
      BY <1>3, <3>1, <3>3 DEF IsRun
    <3>5. files[video.operated] = r[k - 1]
      BY <1>6, <3>2 DEF May
    <3>6. y = r[k]
      BY <2>1, <3>2, <3>4, <3>5, ServedIs
    <3>7. Source0(w) = F /\ May(ws, F, r[k])
      BY <1>1, <2>3, <2>5, <3>6 DEF Source0, May, Replaces
    <3>8. Ends(w.ops, command.ops, k) /\ May(ws, Source0(w), r[k])
      BY <2>5, <3>2, <3>7
    <3>9. Stands(ws, w, Executing(w), command, r, k)
      BY <1>3, <1>4, <2>5, <2>8, <3>8, ExecutingStands
    <3> QED
      BY <3>1, <3>9
  <2> QED
    BY <1>2, <1>5, <2>3, <2>6, <2>7, <2>8, OpsKeep
<1>7. CASE ~(good /\ video.operated \in DOMAIN files)
  <2>1. w = [video EXCEPT !.error = TRUE] /\ files' = files
    BY <1>2, <1>5, <1>7, Zenon DEF RemoteFailed
  <2>2. w = [id |-> video.id, noBlob |-> video.noBlob, operated |-> video.operated,
             ops |-> video.ops, error |-> TRUE]
    BY <2>1, Unpacked
  <2>3. IsVideo(w) /\ w.error
    BY <2>2, Unpacked DEF IsVideo
  <2>4. Executing(w).at \notin {"store", "encode"}
    BY <2>3, ExecutingFacts
  <2> QED
    BY <1>2, <1>3, <1>5, <2>1, <2>3, <2>4, OpsKeep
<1> QED
  BY <1>6, <1>7

LEMMA GetEncodedApplies ==
  ASSUME VideoInv, OpsInv, GetEncoded
  PROVE  OpsInv'
<1>1. /\ perform.at = "encode" /\ command' = command /\ video' = video
      /\ files' = Unlinked(files, video.operated) /\ perform' = NotPerforming
      /\ response' = IF video.operated \in DOMAIN files
                     THEN [status |-> "success", frames |-> files[video.operated]]
                     ELSE [NotAnswered EXCEPT !.status = "error"]
  BY Zenon DEF GetEncoded
<1>2. IsCommand(command) /\ 0 \notin DOMAIN files /\ ~video.error /\ command.name = "FindVideo"
  <2>1. command.name = "FindVideo"
    BY <1>1 DEF VideoInv, Careful
  <2> QED
    BY <1>1, <2>1, OpsHas
<1>3. PICK r, k : IsRun(r, command.frames, command.ops) /\ Stands(files, video, perform, command, r, k)
  BY <1>1, <1>2, OpsHas
<1>4. video.operated = 0 \/ May(files, video.operated, r[Len(command.ops)])
  BY <1>1, <1>3 DEF Stands
<1>5. PICK a : a = response'
  OBVIOUS
<1>6. a.status = "success" => a.frames = OneByOne(command.frames, command.ops)
  <2>1. CASE video.operated \in DOMAIN files
    <3>1. a = [status |-> "success", frames |-> files[video.operated]]
      BY <1>1, <1>5, <2>1, Zenon
    <3>2. files[video.operated] = r[Len(command.ops)]
      BY <1>2, <1>4, <2>1 DEF May
    <3>3. r[Len(command.ops)] = OneByOne(command.frames, command.ops)
      BY <1>3 DEF IsRun
    <3> QED
      BY <3>1, <3>2, <3>3
  <2>2. CASE video.operated \notin DOMAIN files
    <3>1. a = [NotAnswered EXCEPT !.status = "error"]
      BY <1>1, <1>5, <2>2, Zenon
    <3> QED
      BY <3>1 DEF NotAnswered
  <2> QED
    BY <2>1, <2>2
<1>7. PICK us : us = files' /\ 0 \notin DOMAIN us
  <2>1. DOMAIN files' = DOMAIN files \ {video.operated}
    BY <1>1, UnlinkedFacts
  <2> QED
    BY <1>2, <2>1
<1>8. NotPerforming.at = "idle"
  BY DEF NotPerforming
<1>9. a.status = "success" => Answered(us, video, command, a)
  BY <1>2, <1>6, Zenon DEF Answered
<1>10. OpsFit(us, video, NotPerforming, command, a)
  BY <1>2, <1>7, <1>8, <1>9 DEF OpsFit
<1> QED
  BY <1>1, <1>5, <1>7, <1>10 DEF OpsInv

LEMMA RespondVideoApplies ==
  ASSUME VideoInv, OpsInv, RespondVideo
  PROVE  OpsInv'
<1>1. /\ perform.at = "respond" /\ command' = command /\ video' = video /\ files' = files
      /\ perform' = NotPerforming
      /\ response' = [NotAnswered EXCEPT !.status = IF video.error THEN "error" ELSE "success"]
  BY Zenon DEF RespondVideo
<1>2. IsCommand(command) /\ 0 \notin DOMAIN files
  BY <1>1, OpsHas
<1>3. PICK a : a = response'
  OBVIOUS
<1>4. a.status = IF video.error THEN "error" ELSE "success"
  <2>1. PICK s : s = IF video.error THEN "error" ELSE "success"
    OBVIOUS
  <2>2. a = [NotAnswered EXCEPT !.status = s]
    BY <1>1, <1>3, <2>1, Zenon
  <2> QED
    BY <2>1, <2>2 DEF NotAnswered
<1>5. a.status = "success" => Answered(files, video, command, a)
  <2> SUFFICES ASSUME ~video.error
               PROVE  Answered(files, video, command, a)
    BY <1>4
  <2>1. PICK r, k : IsRun(r, command.frames, command.ops) /\ Stands(files, video, perform, command, r, k)
    BY <1>1, OpsHas
  <2>2. PICK t : t = IF video.noBlob THEN video.id ELSE Store
    OBVIOUS
  <2>3. command.name = "AddVideo" /\ Has(files, t, r[Len(command.ops)])
    BY <1>1, <2>1, <2>2 DEF Stands
  <2>4. t \in DOMAIN files /\ files[t] = OneByOne(command.frames, command.ops)
    BY <2>1, <2>3 DEF Has, IsRun
  <2> QED
    BY <2>2, <2>3, <2>4, Zenon DEF Answered
<1>6. NotPerforming.at = "idle" /\ command.name # "none"
  BY <1>2 DEF NotPerforming, IsCommand
<1>7. OpsFit(files, video, NotPerforming, command, a)
  BY <1>2, <1>5, <1>6 DEF OpsFit
<1> QED
  BY <1>1, <1>3, <1>7 DEF OpsInv

LEMMA OpsStutter ==
  ASSUME OpsInv, UNCHANGED videoVars
  PROVE  OpsInv'
BY DEF OpsInv, videoVars

\* For videos of any length and any number of operations, a video that is stored or returned
\* without an error has had every operation applied once and in order to every frame, however
\* they were divided into stages and files, and between the server, the user's process and the
\* remote one (Video.cc, perform_operations).
THEOREM VideoOpsApplied ==
  VideoSpec => []VideoOpsInOrder
<1>1. VideoInit => OpsInv
  BY OpsInitially
<1>2. VideoInv /\ OpsInv /\ [VideoNext]_videoVars => OpsInv'
  <2> SUFFICES ASSUME VideoInv, OpsInv, [VideoNext]_videoVars
               PROVE  OpsInv'
    OBVIOUS
  <2> USE VideoAssumption
  <2>1. CASE AddVideo
    BY <2>1, AddVideoApplies
  <2>2. CASE FindVideo
    BY <2>2, FindVideoApplies
  <2>3. CASE FindFrames
    BY <2>3, FindFramesApplies
  <2>4. CASE StorePlain
    BY <2>4, StorePlainApplies
  <2>5. CASE FrameOperations
    BY <2>5, FrameOperationsApplies
  <2>6. CASE IntervalOperation
    BY <2>6, IntervalApplies
  <2>7. CASE SyncRemoteOperation
    BY <2>7, SyncRemoteApplies
  <2>8. CASE FrameOperationOnNothing
    BY <2>8, OnNothingApplies
  <2>9. CASE EndPerform
    BY <2>9, EndPerformApplies
  <2>10. CASE RemoteOperation
    BY <2>10, RemoteOperationApplies
  <2>11. CASE RemoteResponse
    BY <2>11, RemoteResponseApplies
  <2>12. CASE GetEncoded
    BY <2>12, GetEncodedApplies
  <2>13. CASE RespondVideo
    BY <2>13, RespondVideoApplies
  <2>14. CASE FrameOperationsFail
    BY <2>14, FrameOperationsFailApplies
  <2>15. CASE UNCHANGED videoVars
    BY <2>15, OpsStutter
  <2> QED
    BY <2>1, <2>2, <2>3, <2>4, <2>5, <2>6, <2>7, <2>8, <2>9, <2>10, <2>11, <2>12, <2>13, <2>14,
       <2>15 DEF VideoNext
<1>3. OpsInv => VideoOpsInOrder
  <2> SUFFICES ASSUME OpsInv, response.status = "success", command.name # "FindFrames"
               PROVE  OneByOne(command.frames, command.ops) =
                        Result
    BY DEF VideoOpsInOrder
  <2>1. Answered(files, video, command, response)
    BY DEF OpsInv, OpsFit
  <2> QED
    BY <2>1, Zenon DEF Answered, Result, Adding, FramesOf
<1>4. VideoSpec => []VideoInv
  BY VideoInductive
<1> QED
  BY <1>1, <1>2, <1>3, <1>4, PTL DEF VideoSpec

(***************************************************************************)
(* Module KeyFrames.                                                       *)
(***************************************************************************)

LEMMA SeqIsFunction ==
  ASSUME NEW X, NEW s \in Seq(X), NEW n, Len(s) = n
  PROVE  n \in Nat /\ s \in [1..n -> X] /\ s = [i \in 1..n |-> s[i]]
OBVIOUS

\* s lists the c numbers of S
Sorts(s, S, c) ==
  /\ s \in [1..c -> S]
  /\ \A i, j \in 1..c : i < j => s[i] < s[j]
  /\ \A n \in S : \E i \in 1..c : s[i] = n

LEMMA InOrderSorts ==
  ASSUME NEW S, IsFiniteSet(S), S \subseteq Int
  PROVE  \E c \in Nat : Sorts(InOrder(S), S, c)
<1>1. PICK c : c = Cardinality(S)
  OBVIOUS
<1>2. IsInOrder(InOrder(S), S)
  BY InOrderFacts
<1>3. c \in Nat /\ Sorts(InOrder(S), S, c)
  BY <1>1, <1>2, Zenon DEF IsInOrder, Sorts
<1> QED
  BY <1>3

-----------------------------------------------------------------------------
(* The inductive invariant.                                                *)

\* consecutive frames, from a up to but not including b
Run(a, b) == [j \in 1..(b - a) |-> a + j - 1]

\* the intervals that start at key frames ks, the first at the first frame
IsIntervals(ks, iv) ==
  /\ iv \in Seq([start : 0..(NFrames - 1), end : Nat]) /\ Len(iv) >= 1 /\ iv[1].start = 0
  /\ \A n \in 1..Len(iv) : /\ iv[n].start \in ks /\ iv[n].start < iv[n].end
                           /\ iv[n].end = IF n = Len(iv) THEN MaxUnsigned ELSE iv[n + 1].start

\* the codec holds what was sent since its next frame, which a call under way counts as idx
CodecFits(p, h, last, at, idx) ==
  IF at = "packet"
  THEN idx \in 0..p /\ p \in 0..NFrames /\ h = Run(idx, p) /\ (last + 1 = idx \/ idx < NFrames)
  ELSE last + 1 \in 0..p /\ p \in 0..NFrames /\ h = Run(last + 1, p)

\* how much of a list lies below the end of the first n of the intervals iv
CutIn(iv, list, n) ==
  IF n = 0 THEN 0 ELSE Cardinality({i \in DOMAIN list : \A j \in 1..i : list[j] < iv[n].end})

\* the first m of a list, of which the part before c was looked at
Taken1(list, m) == [i \in 1..m |-> list[i]]

Yields(frames, list, m, c) ==
  /\ m \in 0..c /\ c <= Len(list) /\ frames = Taken1(list, m)
  /\ \A i \in 1..m : list[i] < NFrames
  /\ m < c => list[m + 1] >= NFrames

\* a call that is under way
CallFits(c, iv, list) ==
  /\ c = [at |-> c.at, code |-> c.code, n |-> c.n, frames |-> c.frames, idx |-> c.idx,
          got |-> c.got, sound |-> c.sound]
  /\ c.at \in {"return", "interval", "packet", "encode"} /\ c.sound \in BOOLEAN
  /\ c.code = "frames" => c.at = "return"
  /\ c.at \in {"interval", "packet", "encode"} => iv # <<>>
  /\ c.at = "interval" => c.n \in 1..(Len(iv) + 1)
  /\ c.at = "packet" => /\ c.n \in 1..Len(iv) /\ c.got \in Nat
                        /\ CutIn(iv, list, c.n - 1) + c.got < CutIn(iv, list, c.n)
                        /\ c.idx \in Int /\ c.idx < iv[c.n].end

\* what a call has found of an ascending list
FoundFits(c, iv, list, missed) ==
  /\ c.at = "interval" => \E m \in Nat : Yields(c.frames, list, m, CutIn(iv, list, c.n - 1))
  /\ c.at = "packet" =>
       LET m == CutIn(iv, list, c.n - 1) + c.got
       IN  Yields(c.frames, list, m, m) /\ list[m + 1] >= c.idx /\ ~missed
  /\ c.at = "encode" \/ c.code = "frames" => \E m \in Nat : Yields(c.frames, list, m, Len(list))

KeyFits(ks, spaced, iv, p, h, last, list, c, missed) ==
  /\ last \in Int /\ missed \in BOOLEAN /\ list \in Seq(0..NFrames)
  /\ iv = <<>> \/ IsIntervals(ks, iv)
  /\ CallFits(c, iv, list)
  /\ spaced /\ ~missed => CodecFits(p, h, last, c.at, c.idx)
  /\ spaced /\ c.sound /\ Ascending(list) => FoundFits(c, iv, list, missed)

KeyInv ==
  /\ keyFrames \in Streams /\ duration \in Durations \cup {0}
  /\ KeyFits(keyFrames, Seekable, intervals, packet, held, lastConsumed, wanted, call, lost)

-----------------------------------------------------------------------------
(* Runs of frames.                                                         *)

LEMMA RunFacts ==
  ASSUME NEW a \in Nat, NEW b \in Nat, a <= b
  PROVE  /\ Run(a, b) \in Seq(Nat) /\ Len(Run(a, b)) = b - a
         /\ Append(Run(a, b), b) = Run(a, b + 1)
         /\ Run(a, b) = <<>> <=> a = b
         /\ a < b => Head(Run(a, b)) = a /\ Tail(Run(a, b)) = Run(a + 1, b)
<1>1. PICK s : s = Run(a, b)
  OBVIOUS
<1>2. s = [j \in 1..(b - a) |-> a + j - 1]
  BY <1>1 DEF Run
<1>3. s \in [1..(b - a) -> Nat]
  BY <1>2
<1>4. s \in Seq(Nat) /\ Len(s) = b - a
  BY <1>3, SeqDef
<1>5. Append(s, b) = Run(a, b + 1)
  <2>1. /\ Append(s, b) \in Seq(Nat) /\ Len(Append(s, b)) = (b - a) + 1
        /\ \A i \in 1..(b - a) : Append(s, b)[i] = s[i]
        /\ Append(s, b)[(b - a) + 1] = b
    BY <1>4, AppendProperties
  <2>2. PICK t : t = Append(s, b)
    OBVIOUS
  <2>3. t = [j \in 1..((b - a) + 1) |-> t[j]]
    <3>1. t \in Seq(Nat) /\ Len(t) = (b - a) + 1
      BY <2>1, <2>2
    <3> QED
      BY <3>1, SeqIsFunction
  <2>4. \A j \in 1..((b - a) + 1) : t[j] = a + j - 1
    BY <1>2, <2>1, <2>2
  <2>5. (b - a) + 1 = (b + 1) - a
    OBVIOUS
  <2> QED
    BY <2>2, <2>3, <2>4, <2>5 DEF Run
<1>6. s = <<>> <=> a = b
  BY <1>4, EmptySeq
<1>7. ASSUME a < b
      PROVE  Head(s) = a /\ Tail(s) = Run(a + 1, b)
  <2>1. s # <<>>
    BY <1>6, <1>7
  <2>2. Head(s) = a
    BY <1>2, <1>4, <1>7
  <2>3. /\ Tail(s) \in Seq(Nat) /\ Len(Tail(s)) = (b - a) - 1
        /\ \A i \in 1..Len(Tail(s)) : Tail(s)[i] = s[i + 1]
    BY <1>4, <2>1, HeadTailProperties
  <2>4. PICK t : t = Tail(s)
    OBVIOUS
  <2>5. t = [j \in 1..((b - a) - 1) |-> t[j]]
    <3>1. t \in Seq(Nat) /\ Len(t) = (b - a) - 1
      BY <2>3, <2>4
    <3> QED
      BY <3>1, SeqIsFunction
  <2>6. \A j \in 1..((b - a) - 1) : t[j] = (a + 1) + j - 1
    BY <1>2, <2>3, <2>4
  <2>7. (b - a) - 1 = b - (a + 1)
    OBVIOUS
  <2> QED
    BY <2>2, <2>4, <2>5, <2>6, <2>7 DEF Run
<1> QED
  BY <1>1, <1>4, <1>5, <1>6, <1>7

LEMMA StreamFacts ==
  ASSUME NEW ks \in Streams
  PROVE  /\ NFrames \in Nat \ {0} /\ ks \subseteq 0..(NFrames - 1) /\ 0 \in ks
         /\ IsFiniteSet(ks) /\ \A given \in SUBSET ks : IsFiniteSet(given) /\ given \subseteq Int
<1>1. ks \subseteq 0..(NFrames - 1) /\ 0 \in ks
  BY DEF Streams
<1>2. NFrames \in Nat \ {0}
  BY <1>1, KeyAssumption
<1>3. IsFiniteSet(0..(NFrames - 1))
  BY <1>2, FS_Interval
<1>4. IsFiniteSet(ks)
  BY <1>1, <1>3, FS_Subset
<1>5. ASSUME NEW given \in SUBSET ks
      PROVE  IsFiniteSet(given) /\ given \subseteq Int
  <2>1. IsFiniteSet(given)
    BY <1>4, FS_Subset
  <2>2. \A x \in ks : x \in Int
    BY <1>1, <1>2
  <2> QED
    BY <2>1, <2>2
<1> QED
  BY <1>1, <1>2, <1>4, <1>5

-----------------------------------------------------------------------------
(* Intervals.                                                              *)

LEMMA BoundsFacts ==
  ASSUME NEW ks \in Streams, NEW given \in SUBSET ks, given # {}, InOrder(given)[1] = 0
  PROVE  IsIntervals(ks, Bounds(InOrder(given)))
<1>1. PICK s : s = InOrder(given)
  OBVIOUS
<1>2. IsFiniteSet(given) /\ given \subseteq Int /\ given \subseteq 0..(NFrames - 1) /\ NFrames \in Nat \ {0}
  BY StreamFacts
<1>14. PICK c \in Nat : Sorts(s, given, c)
  BY <1>1, <1>2, InOrderSorts
<1>3. /\ s \in [1..c -> given]
      /\ \A i, j \in 1..c : i < j => s[i] < s[j]
      /\ \A n \in given : \E i \in 1..c : s[i] = n
  BY <1>14 DEF Sorts
<1>4. c >= 1
  BY <1>3
<1>5. s \in Seq(given) /\ Len(s) = c /\ DOMAIN s = 1..c
  BY <1>3, SeqDef
<1>6. PICK iv : iv = Bounds(s)
  OBVIOUS
<1>7. iv = [i \in 1..c |-> [start |-> s[i], end |-> IF i = c THEN MaxUnsigned ELSE s[i + 1]]]
  BY <1>5, <1>6, Zenon DEF Bounds
<1>8. \A i \in 1..c : s[i] \in given /\ s[i] \in 0..(NFrames - 1)
  BY <1>2, <1>3
<1>9. MaxUnsigned \in Nat /\ MaxUnsigned > NFrames
  BY <1>2, KeyAssumption DEF MaxUnsigned
<1>10. ASSUME NEW i \in 1..c
       PROVE  /\ iv[i].start = s[i] /\ iv[i].end = IF i = c THEN MaxUnsigned ELSE s[i + 1]
              /\ iv[i] \in [start : 0..(NFrames - 1), end : Nat] /\ s[i] < iv[i].end
  <2>1. PICK r, e : r = iv[i] /\ e = IF i = c THEN MaxUnsigned ELSE s[i + 1]
    OBVIOUS
  <2>2. r = [start |-> s[i], end |-> e]
    BY <1>7, <2>1
  <2>3. e \in Nat /\ s[i] < e
    <3>1. CASE i = c
      <4>1. s[i] \in Nat /\ s[i] < NFrames /\ e = MaxUnsigned
        BY <1>2, <1>8, <2>1, <3>1
      <4> QED
        BY <1>2, <1>9, <4>1
    <3>2. CASE i # c
      <4>1. i + 1 \in 1..c /\ i < i + 1
        BY <3>2
      <4>2. s[i] < s[i + 1] /\ s[i + 1] \in Nat
        BY <1>3, <1>8, <4>1
      <4> QED
        BY <2>1, <3>2, <4>2
    <3> QED
      BY <3>1, <3>2
  <2>4. r.start = s[i] /\ r.end = e /\ r \in [start : 0..(NFrames - 1), end : Nat]
    BY <1>8, <2>2, <2>3
  <2> QED
    BY <2>1, <2>3, <2>4, Zenon
<1>11. iv \in Seq([start : 0..(NFrames - 1), end : Nat]) /\ Len(iv) = c
  <2>1. DOMAIN iv = 1..c /\ iv = [i \in 1..c |-> iv[i]]
    BY <1>7
  <2>2. PICK R : R = [start : 0..(NFrames - 1), end : Nat]
    OBVIOUS
  <2>3. \A i \in 1..c : iv[i] \in R
    BY <1>10, <2>2
  <2>4. iv \in [1..c -> R]
    BY <2>1, <2>3
  <2>5. iv \in Seq(R) /\ Len(iv) = c
    BY <2>4, SeqDef
  <2> QED
    BY <2>2, <2>5
<1>12. iv[1].start = 0
  BY <1>1, <1>4, <1>10
<1>13. ASSUME NEW n \in 1..Len(iv)
       PROVE  /\ iv[n].start \in ks /\ iv[n].start < iv[n].end
              /\ iv[n].end = IF n = Len(iv) THEN MaxUnsigned ELSE iv[n + 1].start
  <2>1. n \in 1..c
    BY <1>11
  <2>2. iv[n].start = s[n] /\ s[n] \in ks /\ iv[n].start < iv[n].end
    BY <1>8, <1>10, <2>1
  <2>3. n # c => n + 1 \in 1..c /\ iv[n + 1].start = s[n + 1]
    BY <1>10, <2>1
  <2> QED
    BY <1>10, <1>11, <2>1, <2>2, <2>3
<1> QED
  BY <1>1, <1>4, <1>6, <1>11, <1>12, <1>13 DEF IsIntervals

\* the list that the demuxer gives starts with the first frame
LEMMA FirstKeyFrame ==
  ASSUME NEW ks \in Streams
  PROVE  InOrder(ks)[1] = 0
<1>1. PICK s : s = InOrder(ks)
  OBVIOUS
<1>2. IsFiniteSet(ks) /\ ks \subseteq Int /\ ks \subseteq 0..(NFrames - 1) /\ 0 \in ks
  BY StreamFacts
<1>7. PICK c \in Nat : Sorts(s, ks, c)
  BY <1>1, <1>2, InOrderSorts
<1>3. /\ s \in [1..c -> ks]
      /\ \A i, j \in 1..c : i < j => s[i] < s[j]
  BY <1>7 DEF Sorts
<1>4. PICK i \in 1..c : s[i] = 0
  <2>1. 0 \in ks
    BY <1>2
  <2> QED
    BY <1>7, <2>1 DEF Sorts
<1>5. 1 \in 1..c /\ s[1] \in 0..(NFrames - 1)
  <2>1. 1 \in 1..c
    BY <1>4
  <2>2. s[1] \in ks
    BY <1>3, <2>1
  <2> QED
    BY <1>2, <2>1, <2>2
<1>6. s[1] <= s[i]
  <2>1. CASE i = 1
    BY <1>5, <2>1
  <2>2. CASE 1 < i
    <3>1. s[1] < s[i]
      BY <1>3, <1>5, <2>2
    <3> QED
      BY <1>4, <1>5, <3>1
  <2> QED
    BY <2>1, <2>2
<1> QED
  BY <1>1, <1>4, <1>5, <1>6

-----------------------------------------------------------------------------
(* Cuts.                                                                   *)

\* the part of a list before c lies below e, and what follows it does not
IsCut(list, e, c) ==
  /\ c \in 0..Len(list) /\ \A i \in 1..c : list[i] < e
  /\ c < Len(list) => list[c + 1] >= e

LEMMA CutIs ==
  ASSUME NEW list \in Seq(Nat), NEW e \in Nat
  PROVE  IsCut(list, e, Cardinality({i \in DOMAIN list : \A j \in 1..i : list[j] < e}))
<1> DEFINE S == {i \in DOMAIN list : \A j \in 1..i : list[j] < e}
           Z == S \cup {0}
<1>1. PICK n \in Nat : n = Len(list) /\ DOMAIN list = 1..n
  OBVIOUS
<1>2. 0 \in Z /\ Z \subseteq Nat /\ \A y \in Z : y <= n
  BY <1>1
<1>3. PICK c : c \in Z /\ \A y \in Z : y <= c
  <2> HIDE DEF Z
  <2>1. Max(Z) \in Z /\ \A y \in Z : y <= Max(Z)
    BY <1>2, Greatest
  <2> QED
    BY <2>1
<1>4. c \in 0..n /\ \A j \in 1..c : list[j] < e
  BY <1>1, <1>3
<1>5. S = 1..c
  <2>1. ASSUME NEW i \in S
        PROVE  i \in 1..c
    BY <1>1, <1>3, <2>1
  <2>2. ASSUME NEW i \in 1..c
        PROVE  i \in S
    <3>1. i \in DOMAIN list
      BY <1>1, <1>4
    <3>2. \A j \in 1..i : j \in 1..c
      BY <1>4
    <3> QED
      BY <1>4, <3>1, <3>2
  <2> QED
    BY <2>1, <2>2
<1>6. Cardinality(S) = c
  <2>1. c \in Nat /\ 1 \in Int
    BY <1>1, <1>4
  <2>2. PICK z : z = Cardinality(1..c)
    OBVIOUS
  <2>3. z = IF 1 > c THEN 0 ELSE c - 1 + 1
    BY <2>1, <2>2, FS_Interval
  <2>4. z = c
    BY <2>1, <2>3
  <2> HIDE DEF S
  <2> QED
    BY <1>5, <2>2, <2>4, Zenon
<1>7. ASSUME c < n
      PROVE  list[c + 1] >= e
  <2> SUFFICES ASSUME list[c + 1] < e
               PROVE  FALSE
    <3>1. list[c + 1] \in Nat
      BY <1>1, <1>4, <1>7
    <3> QED
      BY <3>1
  <2>1. \A j \in 1..(c + 1) : list[j] < e
    BY <1>4
  <2>2. c + 1 \in S
    BY <1>1, <1>4, <1>7, <2>1
  <2> QED
    BY <1>3, <1>4, <2>2
<1> HIDE DEF S
<1>8. IsCut(list, e, c)
  BY <1>1, <1>4, <1>7 DEF IsCut
<1> QED
  BY <1>6, <1>8 DEF S

LEMMA CutIsCutIn ==
  ASSUME NEW n
  PROVE  Cut(wanted, n) = CutIn(intervals, wanted, n)
BY Zenon DEF Cut, CutIn

\* the part of a list that falls into interval n
Cuts(iv, list, n, c, d) ==
  /\ c \in 0..d /\ d \in 0..Len(list)
  /\ \A i \in 1..d : list[i] < iv[n].end
  /\ \A i \in 1..c : list[i] < NFrames
  /\ c < Len(list) => list[c + 1] >= iv[n].start

LEMMA CutsFacts ==
  ASSUME NEW ks \in Streams, NEW iv, IsIntervals(ks, iv), NEW list \in Seq(0..NFrames),
         NEW n \in 1..Len(iv)
  PROVE  Cuts(iv, list, n, CutIn(iv, list, n - 1), CutIn(iv, list, n))
<1>1. PICK c, d : c = CutIn(iv, list, n - 1) /\ d = CutIn(iv, list, n)
  OBVIOUS
<1>2. NFrames \in Nat \ {0}
  BY StreamFacts
<1>3. list \in Seq(Nat)
  BY <1>2
<1>4. PICK K \in Nat : K = Len(iv) /\ K >= 1
  BY DEF IsIntervals
<1>5. /\ n \in 1..K /\ iv[n].start \in Nat /\ iv[n].start < NFrames /\ iv[n].end \in Nat
      /\ iv[n].start < iv[n].end
  <2>1. PICK R : R = [start : 0..(NFrames - 1), end : Nat]
    OBVIOUS
  <2>2. iv \in Seq(R) /\ iv[n].start < iv[n].end
    BY <2>1 DEF IsIntervals
  <2>3. PICK b : b = iv[n] /\ b \in R
    BY <2>2
  <2>4. b.start \in 0..(NFrames - 1) /\ b.end \in Nat
    BY <2>1, <2>3
  <2>5. b.start \in Nat /\ b.start < NFrames
    BY <1>2, <2>4
  <2>6. iv[n].start \in Nat /\ iv[n].start < NFrames /\ iv[n].end \in Nat
    BY <2>3, <2>4, <2>5, Zenon
  <2> QED
    BY <1>4, <2>2, <2>6
<1>6. IsCut(list, iv[n].end, d)
  <2>1. n # 0
    BY <1>5
  <2>2. d = Cardinality({i \in DOMAIN list : \A j \in 1..i : list[j] < iv[n].end})
    BY <1>1, <2>1, Zenon DEF CutIn
  <2>3. PICK e \in Nat : e = iv[n].end
    BY <1>5
  <2>4. d = Cardinality({i \in DOMAIN list : \A j \in 1..i : list[j] < e})
    BY <2>2, <2>3, Zenon
  <2>5. IsCut(list, e, d)
    BY <1>3, <2>4, CutIs
  <2> QED
    BY <2>3, <2>5
<1>7. IsCut(list, iv[n].start, c)
  <2>1. CASE n = 1
    <3>1. c = 0 /\ iv[n].start = 0
      BY <1>1, <2>1 DEF CutIn, IsIntervals
    <3>2. 0 < Len(list) => list[1] \in Nat
      BY <1>3
    <3> QED
      BY <1>3, <3>1, <3>2 DEF IsCut
  <2>2. CASE n # 1
    <3>1. n - 1 \in 1..K /\ n - 1 # 0 /\ n - 1 # K /\ (n - 1) + 1 = n
      BY <1>5, <2>2
    <3>2. iv[n - 1].end = iv[n].start
      BY <1>4, <3>1 DEF IsIntervals
    <3>3. c = Cardinality({i \in DOMAIN list : \A j \in 1..i : list[j] < iv[n - 1].end})
      BY <1>1, <3>1, Zenon DEF CutIn
    <3>4. PICK e \in Nat : e = iv[n].start
      BY <1>5
    <3>5. c = Cardinality({i \in DOMAIN list : \A j \in 1..i : list[j] < e})
      BY <3>2, <3>3, <3>4, Zenon
    <3>6. IsCut(list, e, c)
      BY <1>3, <3>5, CutIs
    <3> QED
      BY <3>4, <3>6
  <2> QED
    BY <2>1, <2>2
<1>8. PICK l \in Nat : l = Len(list) /\ \A i \in 1..l : list[i] \in Nat
  BY <1>3
<1>9. c \in 0..l /\ d \in 0..l
  BY <1>6, <1>7, <1>8 DEF IsCut
<1>10. c <= d
  <2> SUFFICES ASSUME d < c
               PROVE  FALSE
    BY <1>9
  <2>1. d + 1 \in 1..c /\ d + 1 \in 1..l /\ d < l
    BY <1>9
  <2>2. list[d + 1] < iv[n].start
    BY <1>7, <2>1 DEF IsCut
  <2>3. list[d + 1] >= iv[n].end
    BY <1>6, <1>8, <2>1 DEF IsCut
  <2> QED
    BY <1>5, <1>8, <2>1, <2>2, <2>3
<1>11. ASSUME NEW i \in 1..c
       PROVE  list[i] < NFrames
  <2>1. list[i] < iv[n].start /\ list[i] \in Nat
    BY <1>7, <1>8, <1>9 DEF IsCut
  <2> QED
    BY <1>2, <1>5, <2>1
<1> QED
  BY <1>1, <1>6, <1>7, <1>9, <1>10, <1>11 DEF Cuts, IsCut

\* all of a list lies below the end of the last interval
LEMMA LastCut ==
  ASSUME NEW ks \in Streams, NEW iv, IsIntervals(ks, iv), NEW list \in Seq(0..NFrames)
  PROVE  CutIn(iv, list, Len(iv)) = Len(list)
<1>1. NFrames \in Nat \ {0} /\ MaxUnsigned \in Nat /\ MaxUnsigned > NFrames
  BY StreamFacts, KeyAssumption DEF MaxUnsigned
<1>2. list \in Seq(Nat) /\ \A i \in 1..Len(list) : list[i] \in Nat /\ list[i] <= NFrames
  BY <1>1
<1>3. PICK K \in Nat : K = Len(iv) /\ K >= 1
  BY DEF IsIntervals
<1>4. iv[K].end = MaxUnsigned
  BY <1>3 DEF IsIntervals
<1>5. PICK d : d = CutIn(iv, list, K)
  OBVIOUS
<1>6. IsCut(list, MaxUnsigned, d)
  <2>1. K # 0
    BY <1>3
  <2>2. d = Cardinality({i \in DOMAIN list : \A j \in 1..i : list[j] < MaxUnsigned})
    BY <1>4, <1>5, <2>1, Zenon DEF CutIn
  <2> QED
    BY <1>1, <1>2, <2>2, CutIs
<1>7. d \in 0..Len(list) /\ ~(d < Len(list))
  <2>1. d \in 0..Len(list) /\ (d < Len(list) => list[d + 1] >= MaxUnsigned)
    BY <1>6 DEF IsCut
  <2>2. ASSUME d < Len(list)
        PROVE  FALSE
    <3>1. d + 1 \in 1..Len(list)
      BY <1>2, <2>1, <2>2
    <3>2. list[d + 1] \in Nat /\ list[d + 1] <= NFrames
      BY <1>2, <3>1
    <3> QED
      BY <1>1, <2>1, <2>2, <3>2
  <2> QED
    BY <2>1, <2>2
<1> QED
  BY <1>2, <1>3, <1>5, <1>7

\* the part of the list a call looks at
PartIs(part, c, d) ==
  /\ Len(part) = d - c
  /\ \A k \in 1..(d - c) : part[k] = wanted[c + k]
  /\ part = <<>> <=> c = d
  /\ c < d => Head(part) = wanted[c + 1]

LEMMA PartFacts ==
  ASSUME wanted \in Seq(0..NFrames), NFrames \in Nat, NEW n, NEW c \in Nat, NEW d \in Nat,
         c = CutIn(intervals, wanted, n - 1), d = CutIn(intervals, wanted, n), c <= d, d <= Len(wanted)
  PROVE  PartIs(Part(n), c, d)
<1>1. Part(n) = SubSeq(wanted, c + 1, d)
  <2>1. Cut(wanted, n - 1) = c /\ Cut(wanted, n) = d
    BY CutIsCutIn, Zenon
  <2> QED
    BY <2>1, Zenon DEF Part
<1>2. PICK p : p = SubSeq(wanted, c + 1, d)
  OBVIOUS
<1>3. p \in Seq(0..NFrames) /\ Len(p) = d - c /\ \A k \in 1..(d - c) : p[k] = wanted[c + k]
  <2>1. \A i \in (c + 1)..d : wanted[i] \in 0..NFrames
    OBVIOUS
  <2>2. PICK X : X = 0..NFrames
    OBVIOUS
  <2>3. PICK a \in Int : a = c + 1
    OBVIOUS
  <2>4. d \in Int /\ wanted \in Seq(X) /\ \A i \in a..d : wanted[i] \in X
    BY <2>1, <2>2, <2>3
  <2>5. /\ SubSeq(wanted, a, d) \in Seq(X)
        /\ Len(SubSeq(wanted, a, d)) = IF a <= d THEN d - a + 1 ELSE 0
        /\ \A k \in 1..(d - a + 1) : SubSeq(wanted, a, d)[k] = wanted[a + k - 1]
    BY <2>4, SubSeqProperties
  <2>6. /\ p \in Seq(X)
        /\ Len(p) = IF a <= d THEN d - a + 1 ELSE 0
        /\ \A k \in 1..(d - a + 1) : p[k] = wanted[a + k - 1]
    <3>1. p = SubSeq(wanted, a, d)
      BY <1>2, <2>3, Zenon
    <3>2. p \in Seq(X)
      BY <2>5, <3>1, Zenon
    <3>3. Len(p) = IF a <= d THEN d - a + 1 ELSE 0
      BY <2>5, <3>1, Zenon
    <3>4. ASSUME NEW k \in 1..(d - a + 1)
          PROVE  p[k] = wanted[a + k - 1]
      BY <2>5, <3>1, Zenon
    <3> QED
      BY <3>2, <3>3, <3>4, Zenon
  <2>7. d - a + 1 = d - c /\ \A k \in 1..(d - c) : a + k - 1 = c + k
    <3>1. d - a + 1 = d - c
      BY <2>3
    <3>2. ASSUME NEW k \in 1..(d - c)
          PROVE  a + k - 1 = c + k
      <4>1. k \in Int
        OBVIOUS
      <4> QED
        BY <2>3, <4>1
    <3> QED
      BY <3>1, <3>2
  <2>8. Len(p) = d - c
    BY <2>3, <2>6
  <2> QED
    BY <2>2, <2>6, <2>7, <2>8, ZenonT(60)
<1>4. p = <<>> <=> c = d
  BY <1>3, EmptySeq
<1>5. c < d => Head(p) = wanted[c + 1]
  BY <1>3, SMTT(60)
<1>6. PartIs(p, c, d)
  BY <1>3, <1>4, <1>5 DEF PartIs
<1> QED
  BY <1>1, <1>2, <1>6, Zenon

-----------------------------------------------------------------------------
(* The steps.                                                              *)

\* a call that returned without frames
LEMMA PlainCall ==
  ASSUME NEW x \in {"none", "throws"}, NEW c, c = [NotCalled EXCEPT !.code = x],
         NEW iv, NEW list, NEW missed
  PROVE  c.at = "return" /\ c.code = x /\ CallFits(c, iv, list) /\ FoundFits(c, iv, list, missed)
<1>1. PICK e : e = <<>>
  OBVIOUS
<1>2. c = [at |-> "return", code |-> x, n |-> 0, frames |-> e, idx |-> 0, got |-> 0, sound |-> TRUE]
  BY <1>1 DEF NotCalled
<1>7. c.at = "return" /\ c.code = x /\ c.sound = TRUE
  BY <1>2
<1>8. c = [at |-> c.at, code |-> c.code, n |-> c.n, frames |-> c.frames, idx |-> c.idx,
           got |-> c.got, sound |-> c.sound]
  BY <1>2
<1>3. /\ c.at = "return" /\ c.code = x /\ c.sound = TRUE
      /\ c = [at |-> c.at, code |-> c.code, n |-> c.n, frames |-> c.frames, idx |-> c.idx,
              got |-> c.got, sound |-> c.sound]
  BY <1>7, <1>8
<1>4. x # "frames"
  OBVIOUS
<1>5. CallFits(c, iv, list)
  BY <1>3, <1>4 DEF CallFits
<1>6. FoundFits(c, iv, list, missed)
  BY <1>3, <1>4 DEF FoundFits
<1> QED
  BY <1>3, <1>5, <1>6

\* between packets, where a call is makes no difference to the codec
LEMMA CodecRests ==
  ASSUME NEW p, NEW h, NEW last, NEW at, NEW idx, NEW at2, NEW idx2, CodecFits(p, h, last, at, idx),
         at # "packet", at2 # "packet"
  PROVE  CodecFits(p, h, last, at2, idx2)
BY Zenon DEF CodecFits

LEMMA InvFits ==
  ASSUME KeyInv
  PROVE  /\ keyFrames \in Streams /\ duration \in Durations \cup {0}
         /\ NFrames \in Nat \ {0} /\ lastConsumed \in Int /\ lost \in BOOLEAN
         /\ wanted \in Seq(0..NFrames)
         /\ intervals = <<>> \/ IsIntervals(keyFrames, intervals)
         /\ CallFits(call, intervals, wanted)
         /\ Seekable /\ ~lost => CodecFits(packet, held, lastConsumed, call.at, call.idx)
         /\ Seekable /\ call.sound /\ Ascending(wanted) => FoundFits(call, intervals, wanted, lost)
<1>1. keyFrames \in Streams /\ duration \in Durations \cup {0}
  BY DEF KeyInv
<1>2. NFrames \in Nat \ {0}
  BY <1>1, StreamFacts
<1> QED
  BY <1>1, <1>2, Zenon DEF KeyInv, KeyFits

LEMMA SetKeeps ==
  ASSUME KeyInv, SetKeyFrames
  PROVE  KeyFits(keyFrames, Seekable, intervals', packet, held, lastConsumed, <<>>, call', lost)
<1>1. PICK given \in SUBSET keyFrames :
        /\ intervals' = intervals
           \/ /\ given # {} /\ Head(InOrder(given)) = 0 /\ intervals' = Bounds(InOrder(given))
        /\ \E x \in {"none", "throws"} : call' = [NotCalled EXCEPT !.code = x]
  BY Zenon DEF SetKeyFrames
<1>2. PICK x \in {"none", "throws"} : call' = [NotCalled EXCEPT !.code = x]
  BY <1>1
<1>3. PICK c : c = call'
  OBVIOUS
<1>4. PICK iv : iv = intervals'
  OBVIOUS
<1>5. PICK list : list = <<>> /\ list \in Seq(0..NFrames)
  BY EmptySeq
<1>6. c.at = "return" /\ CallFits(c, iv, list) /\ FoundFits(c, iv, list, lost)
  BY <1>2, <1>3, PlainCall
<1>7. iv = <<>> \/ IsIntervals(keyFrames, iv)
  <2>1. CASE iv = intervals
    BY <2>1, InvFits
  <2>2. CASE given # {} /\ Head(InOrder(given)) = 0 /\ iv = Bounds(InOrder(given))
    <3>1. keyFrames \in Streams
      BY InvFits
    <3>2. IsFiniteSet(given) /\ given \subseteq Int
      BY <3>1, StreamFacts
    <3>3. PICK s : s = InOrder(given) /\ s \in Seq(given) /\ ToSet(s) = given
      BY <3>2, InOrderList
    <3>4. s # <<>>
      BY <2>2, <3>3, ToSetIsRange
    <3>5. s[1] = 0
      BY <2>2, <3>3, <3>4
    <3> QED
      BY <2>2, <3>1, <3>3, <3>5, BoundsFacts
  <2> QED
    BY <1>1, <1>4, <2>1, <2>2
<1>8. Seekable /\ ~lost => CodecFits(packet, held, lastConsumed, c.at, c.idx)
  <2>1. call.at = "return"
    BY DEF SetKeyFrames, Returned
  <2> QED
    BY <1>6, <2>1, InvFits, CodecRests
<1>9. KeyFits(keyFrames, Seekable, iv, packet, held, lastConsumed, list, c, lost)
  BY <1>5, <1>6, <1>7, <1>8, InvFits, Zenon DEF KeyFits
<1> QED
  BY <1>3, <1>4, <1>5, <1>9, Zenon

LEMMA GetKeeps ==
  ASSUME KeyInv, GetKeyFrameList
  PROVE  KeyFits(keyFrames, Seekable, intervals', packet, held, lastConsumed, <<>>, call', lost)
<1>1. /\ intervals' = intervals \/ intervals' = Bounds(FrameList)
      /\ \E x \in {"none", "throws"} : call' = [NotCalled EXCEPT !.code = x]
  BY Zenon DEF GetKeyFrameList
<1>2. PICK x \in {"none", "throws"} : call' = [NotCalled EXCEPT !.code = x]
  BY <1>1
<1>3. PICK c : c = call'
  OBVIOUS
<1>4. PICK iv : iv = intervals'
  OBVIOUS
<1>5. PICK list : list = <<>> /\ list \in Seq(0..NFrames)
  BY EmptySeq
<1>6. c.at = "return" /\ CallFits(c, iv, list) /\ FoundFits(c, iv, list, lost)
  BY <1>2, <1>3, PlainCall
<1>7. iv = <<>> \/ IsIntervals(keyFrames, iv)
  <2>1. CASE iv = intervals
    BY <2>1, InvFits
  <2>2. CASE iv = Bounds(FrameList)
    <3>1. keyFrames \in Streams
      BY InvFits
    <3>2. keyFrames # {} /\ InOrder(keyFrames)[1] = 0
      BY <3>1, FirstKeyFrame, StreamFacts
    <3>3. keyFrames \in SUBSET keyFrames
      OBVIOUS
    <3>4. IsIntervals(keyFrames, Bounds(InOrder(keyFrames)))
      BY <3>1, <3>2, <3>3, BoundsFacts
    <3> QED
      BY <2>2, <3>4, Zenon DEF FrameList
  <2> QED
    BY <1>1, <1>4, <2>1, <2>2
<1>8. Seekable /\ ~lost => CodecFits(packet, held, lastConsumed, c.at, c.idx)
  <2>1. call.at = "return"
    BY DEF GetKeyFrameList, Returned
  <2> QED
    BY <1>6, <2>1, InvFits, CodecRests
<1>9. KeyFits(keyFrames, Seekable, iv, packet, held, lastConsumed, list, c, lost)
  BY <1>5, <1>6, <1>7, <1>8, InvFits, Zenon DEF KeyFits
<1> QED
  BY <1>3, <1>4, <1>5, <1>9, Zenon

LEMMA DecodeKeeps ==
  ASSUME KeyInv, Decode
  PROVE  KeyFits(keyFrames, Seekable, intervals, packet, held, lastConsumed, wanted', call', lost)
<1>1. PICK list \in BoundedSeq(0..NFrames, MaxWanted) :
        /\ wanted' = list
        /\ call' = IF list = <<>> \/ intervals = <<>> THEN [NotCalled EXCEPT !.code = "throws"]
                   ELSE [NotCalled EXCEPT !.at = "interval", !.n = 1]
  BY Zenon DEF Decode
<1>2. list \in Seq(0..NFrames)
  <2>1. PICK m \in 0..MaxWanted : list \in [1..m -> 0..NFrames]
    BY DEF BoundedSeq, SeqOf
  <2>2. m \in Nat
    BY <2>1, KeyAssumption
  <2> QED
    BY <2>1, <2>2, SeqDef
<1>3. PICK c : c = call'
  OBVIOUS
<1>4. call.at = "return"
  BY DEF Decode, Returned
<1>5. CASE list = <<>> \/ intervals = <<>>
  <2>1. c = [NotCalled EXCEPT !.code = "throws"]
    BY <1>1, <1>3, <1>5, Zenon
  <2>2. c.at = "return" /\ CallFits(c, intervals, list) /\ FoundFits(c, intervals, list, lost)
    BY <2>1, PlainCall
  <2>3. Seekable /\ ~lost => CodecFits(packet, held, lastConsumed, c.at, c.idx)
    BY <1>4, <2>2, InvFits, CodecRests
  <2>4. KeyFits(keyFrames, Seekable, intervals, packet, held, lastConsumed, list, c, lost)
    BY <1>2, <2>2, <2>3, InvFits, Zenon DEF KeyFits
  <2> QED
    BY <1>1, <1>3, <2>4, Zenon
<1>6. CASE ~(list = <<>> \/ intervals = <<>>)
  <2>1. c = [NotCalled EXCEPT !.at = "interval", !.n = 1]
    BY <1>1, <1>3, <1>6, Zenon
  <2>2. PICK e : e = <<>>
    OBVIOUS
  <2>3. c = [at |-> "interval", code |-> "none", n |-> 1, frames |-> e, idx |-> 0, got |-> 0,
             sound |-> TRUE]
    BY <2>1, <2>2 DEF NotCalled
  <2>4. /\ c.at = "interval" /\ c.code = "none" /\ c.sound = TRUE /\ c.n = 1 /\ c.frames = e
        /\ c = [at |-> c.at, code |-> c.code, n |-> c.n, frames |-> c.frames, idx |-> c.idx,
                got |-> c.got, sound |-> c.sound]
    BY <2>3
  <2>5. IsIntervals(keyFrames, intervals) /\ intervals # <<>>
    BY <1>6, InvFits
  <2>6. PICK K \in Nat : K = Len(intervals) /\ K >= 1
    BY <2>5 DEF IsIntervals
  <2>7. c.n \in 1..(Len(intervals) + 1)
    BY <2>4, <2>6
  <2>8. CallFits(c, intervals, list)
    BY <2>4, <2>5, <2>7 DEF CallFits
  <2>9. FoundFits(c, intervals, list, lost)
    <3>1. CutIn(intervals, list, c.n - 1) = 0
      BY <2>4 DEF CutIn
    <3>2. e = Taken1(list, 0)
      BY <2>2 DEF Taken1
    <3>3. Yields(e, list, 0, 0)
      BY <1>2, <3>2 DEF Yields
    <3> QED
      BY <2>4, <3>1, <3>3 DEF FoundFits
  <2>10. Seekable /\ ~lost => CodecFits(packet, held, lastConsumed, c.at, c.idx)
    BY <1>4, <2>4, InvFits, CodecRests
  <2>11. KeyFits(keyFrames, Seekable, intervals, packet, held, lastConsumed, list, c, lost)
    BY <1>2, <2>8, <2>9, <2>10, InvFits, Zenon DEF KeyFits
  <2> QED
    BY <1>1, <1>3, <2>11, Zenon
<1> QED
  BY <1>5, <1>6

LEMMA RefuseKeeps ==
  ASSUME KeyInv, RefusePacket
  PROVE  KeyFits(keyFrames, Seekable, intervals, packet', held, lastConsumed, wanted, call', TRUE)
<1>1. PICK c : c = call' /\ c = [NotCalled EXCEPT !.code = "throws"]
  BY Zenon DEF RefusePacket
<1>2. CallFits(c, intervals, wanted) /\ FoundFits(c, intervals, wanted, TRUE)
  BY <1>1, PlainCall
<1>3. PICK p : p = packet'
  OBVIOUS
<1>4. KeyFits(keyFrames, Seekable, intervals, p, held, lastConsumed, wanted, c, TRUE)
  BY <1>2, InvFits DEF KeyFits
<1> QED
  BY <1>1, <1>3, <1>4, Zenon

\* how a call stands when it is at one of its rounds, with another at, n and code
LEMMA CallHas ==
  ASSUME KeyInv
  PROVE  \E f, got, idx, n, code, sound :
           /\ call = [at |-> call.at, code |-> code, n |-> n, frames |-> f, idx |-> idx, got |-> got,
                      sound |-> sound]
           /\ call.frames = f /\ call.got = got /\ call.idx = idx /\ call.n = n /\ call.code = code
           /\ call.sound = sound /\ sound \in BOOLEAN
<1>1. CallFits(call, intervals, wanted)
  BY InvFits
<1> QED
  BY <1>1, Zenon DEF CallFits

LEMMA EncodeKeeps ==
  ASSUME KeyInv, EncodeFrames
  PROVE  KeyFits(keyFrames, Seekable, intervals, packet, held, lastConsumed, wanted, call', lost)
<1>1. PICK c : c = call'
  OBVIOUS
<1>2. call.at = "encode"
  BY DEF EncodeFrames
<1>3. PICK f, got, idx, n, code, sound :
           /\ call = [at |-> "encode", code |-> code, n |-> n, frames |-> f, idx |-> idx, got |-> got,
                      sound |-> sound]
           /\ call.frames = f /\ call.sound = sound /\ sound \in BOOLEAN
  BY <1>2, CallHas, Zenon
<1>4. PICK k : k = IF call.frames = <<>> THEN "throws" ELSE "frames"
  OBVIOUS
<1>5. c = [call EXCEPT !.at = "return", !.code = k]
  BY <1>1, <1>4, Zenon DEF EncodeFrames
<1>6. c = [at |-> "return", code |-> k, n |-> n, frames |-> f, idx |-> idx, got |-> got, sound |-> sound]
  BY <1>3, <1>5
<1>7. /\ c.at = "return" /\ c.code = k /\ c.sound = sound /\ c.frames = f
      /\ c = [at |-> c.at, code |-> c.code, n |-> c.n, frames |-> c.frames, idx |-> c.idx,
              got |-> c.got, sound |-> c.sound]
  BY <1>6
<1>8. CallFits(c, intervals, wanted)
  BY <1>3, <1>7 DEF CallFits
<1>9. ASSUME Seekable, c.sound, Ascending(wanted)
      PROVE  FoundFits(c, intervals, wanted, lost)
  <2>1. FoundFits(call, intervals, wanted, lost)
    BY <1>3, <1>7, <1>9, InvFits, Zenon
  <2>2. \E m \in Nat : Yields(f, wanted, m, Len(wanted))
    BY <1>2, <1>3, <2>1, Zenon DEF FoundFits
  <2> QED
    BY <1>7, <2>2 DEF FoundFits
<1>10. Seekable /\ ~lost => CodecFits(packet, held, lastConsumed, c.at, c.idx)
  BY <1>2, <1>7, InvFits, CodecRests
<1>11. KeyFits(keyFrames, Seekable, intervals, packet, held, lastConsumed, wanted, c, lost)
  BY <1>8, <1>9, <1>10, InvFits, Zenon DEF KeyFits
<1> QED
  BY <1>1, <1>11, Zenon

\* interval n, whose part of the list is what follows the first c up to d
Here(n, c, d) ==
  /\ c = CutIn(intervals, wanted, n - 1) /\ d = CutIn(intervals, wanted, n)
  /\ c <= d /\ d <= Len(wanted)
  /\ intervals[n].start \in keyFrames /\ intervals[n].start \in 0..(NFrames - 1)
  /\ intervals[n].end \in Nat /\ intervals[n].start < intervals[n].end
  /\ Len(Part(n)) = d - c /\ (Part(n) = <<>> <=> c = d)
  /\ \A k \in 1..(d - c) : Part(n)[k] = wanted[c + k]
  /\ c < d => Head(Part(n)) = wanted[c + 1]
  /\ \A i \in 1..d : wanted[i] < intervals[n].end
  /\ \A i \in 1..c : wanted[i] < NFrames
  /\ c < Len(wanted) => wanted[c + 1] >= intervals[n].start

LEMMA CallIsHere ==
  ASSUME KeyInv, IsIntervals(keyFrames, intervals), NEW n \in 1..Len(intervals)
  PROVE  \E c \in Nat, d \in Nat : Here(n, c, d)
<1>1. keyFrames \in Streams /\ NFrames \in Nat \ {0} /\ wanted \in Seq(0..NFrames)
  BY InvFits
<1>2. PICK c, d : c = CutIn(intervals, wanted, n - 1) /\ d = CutIn(intervals, wanted, n)
  OBVIOUS
<1>3. Cuts(intervals, wanted, n, c, d)
  <2>1. Cuts(intervals, wanted, n, CutIn(intervals, wanted, n - 1), CutIn(intervals, wanted, n))
    BY <1>1, CutsFacts
  <2> QED
    BY <1>2, <2>1, Zenon
<1>4. /\ c \in Nat /\ d \in Nat /\ c <= d /\ d <= Len(wanted)
      /\ \A i \in 1..d : wanted[i] < intervals[n].end
      /\ \A i \in 1..c : wanted[i] < NFrames
      /\ c < Len(wanted) => wanted[c + 1] >= intervals[n].start
  BY <1>1, <1>3 DEF Cuts
<1>5. /\ Len(Part(n)) = d - c /\ (Part(n) = <<>> <=> c = d)
      /\ \A k \in 1..(d - c) : Part(n)[k] = wanted[c + k]
      /\ c < d => Head(Part(n)) = wanted[c + 1]
  <2>1. NFrames \in Nat
    BY <1>1
  <2>2. c \in Nat /\ d \in Nat /\ c <= d /\ d <= Len(wanted) /\ wanted \in Seq(0..NFrames)
    BY <1>1, <1>4
  <2>3. PartIs(Part(n), c, d)
    BY <1>2, <2>1, <2>2, PartFacts
  <2> QED
    BY <2>3 DEF PartIs
<1>6. /\ intervals[n].start \in keyFrames /\ intervals[n].start \in 0..(NFrames - 1)
      /\ intervals[n].end \in Nat /\ intervals[n].start < intervals[n].end
  <2>1. PICK R : R = [start : 0..(NFrames - 1), end : Nat]
    OBVIOUS
  <2>2. intervals \in Seq(R) /\ intervals[n].start < intervals[n].end /\ intervals[n].start \in keyFrames
    BY <2>1 DEF IsIntervals
  <2>3. PICK b : b = intervals[n] /\ b \in R
    BY <2>2
  <2>4. b.start \in 0..(NFrames - 1) /\ b.end \in Nat
    BY <2>1, <2>3
  <2> QED
    BY <2>2, <2>3, <2>4, Zenon
<1>7. Here(n, c, d)
  BY <1>2, <1>4, <1>5, <1>6 DEF Here
<1> QED
  BY <1>4, <1>7

\* a call that has all of a list below c has found the first c frames
LEMMA FoundAll ==
  ASSUME NEW f, NEW list, NEW m \in Nat, NEW c \in Nat, Yields(f, list, m, c),
         \A i \in 1..c : list[i] < NFrames, NFrames \in Nat, list \in Seq(0..NFrames)
  PROVE  Yields(f, list, c, c)
<1>1. m \in 0..c /\ c <= Len(list)
  BY DEF Yields
<1>2. m = c
  <2> SUFFICES ASSUME m < c
               PROVE  FALSE
    BY <1>1
  <2>1. m + 1 \in 1..c /\ m + 1 \in 1..Len(list)
    BY <1>1
  <2>2. list[m + 1] < NFrames /\ list[m + 1] \in Int
    BY <2>1
  <2>3. list[m + 1] >= NFrames
    BY DEF Yields
  <2> QED
    BY <2>2, <2>3
<1> QED
  BY <1>2

LEMMA WholeParts ==
  ASSUME NEW d \in Nat, NEW m \in Nat, m # 0
  PROVE  d \div m \in Nat /\ (d \div m) * m <= d
OBVIOUS

LEMMA TimesMore ==
  ASSUME NEW i \in Nat, NEW a \in Nat, NEW b \in Nat, a <= b
  PROVE  i * a <= i * b /\ a * i <= b * i
OBVIOUS

\* where it neither falls short nor goes past the next frame, the seek finds the key frame that the interval starts at
LEMMA SoughtIs ==
  ASSUME keyFrames \in Streams, duration \in Durations \cup {0}, Seekable, NEW start \in keyFrames
  PROVE  Sought(start) = start
<1>1. CASE duration = 0
  BY <1>1, Zenon DEF Sought
<1>2. CASE duration # 0
  <2>1. PICK d, m, base : /\ d \in Nat /\ m \in Nat
                          /\ d = duration /\ m = Micro /\ base = TimeBase /\ d # 0 /\ m # 0
    BY <1>2, KeyAssumption
  <2>2. base \in Nat /\ base <= d
    <3>1. PICK q \in Nat : q = d \div m /\ q * m <= d
      BY <2>1, WholeParts
    <3>2. base = q * m
      BY <2>1, <3>1, Zenon DEF TimeBase
    <3> QED
      BY <2>1, <3>1, <3>2
  <2>3. start \in Nat /\ \A j \in keyFrames : j \in Nat
    BY StreamFacts
  <2>4. start * d <= (start + 1) * base /\ start + 1 \notin keyFrames
    BY <1>2, <2>1 DEF Seekable, Spaced, Early
  <2>5. Target(start) = (start + 1) * base
    BY <2>1, Zenon DEF Target
  <2>6. ASSUME NEW j \in keyFrames, j * d <= (start + 1) * base
        PROVE  j <= start
    <3> SUFFICES ASSUME ~(j <= start)
                 PROVE  FALSE
      OBVIOUS
    <3>1. j \in Nat /\ j # start + 1
      BY <2>3, <2>4
    <3>2. j >= start + 2
      BY <2>3, <3>1
    <3>3. (start + 1) * base <= (start + 1) * d
      BY <2>1, <2>2, <2>3, TimesMore
    <3>4. (start + 2) * d <= j * d
      BY <2>1, <2>3, <3>1, <3>2, TimesMore
    <3>5. (start + 2) * d = (start + 1) * d + d
      BY <2>1, <2>3
    <3> QED
      BY <2>1, <2>2, <2>3, <2>6, <3>1, <3>3, <3>4, <3>5
  <2> DEFINE Finds(k) == k * d <= (start + 1) * base
                         /\ \A j \in keyFrames : j * d <= (start + 1) * base => j <= k
  <2>7. Finds(start)
    BY <2>4, <2>6
  <2>8. ASSUME NEW k \in keyFrames, Finds(k)
        PROVE  k = start
    BY <2>3, <2>4, <2>6, <2>8
  <2>9. PICK t : t = CHOOSE k \in keyFrames : Finds(k)
    OBVIOUS
  <2>10. t \in keyFrames /\ Finds(t)
    BY <2>7, <2>9, Zenon
  <2>11. t = start
    BY <2>8, <2>10
  <2>12. Sought(start) = t
    BY <1>2, <2>1, <2>5, <2>9, Zenon DEF Sought
  <2> QED
    BY <2>11, <2>12
<1> QED
  BY <1>1, <1>2

\* decode has gone past the last interval, or past one without a part of the list
LEMMA PassKeeps ==
  ASSUME KeyInv, NextInterval, packet' = packet, held' = held, lost' = lost,
         \/ call.n > Len(intervals) /\ call' = [call EXCEPT !.at = "encode"]
         \/ /\ call.n <= Len(intervals) /\ Part(call.n) = <<>>
            /\ call' = [call EXCEPT !.n = @ + 1]
  PROVE  KeyFits(keyFrames, Seekable, intervals, packet, held, lastConsumed, wanted, call', lost)
<1>1. PICK c : c = call'
  OBVIOUS
<1>2. call.at = "interval"
  BY DEF NextInterval
<1>3. PICK f, got, idx, n, code, sound :
           /\ call = [at |-> "interval", code |-> code, n |-> n, frames |-> f, idx |-> idx,
                      got |-> got, sound |-> sound]
           /\ call.frames = f /\ call.n = n /\ call.code = code
           /\ call.sound = sound /\ sound \in BOOLEAN
  BY <1>2, CallHas, Zenon
<1>4. CallFits(call, intervals, wanted)
  BY InvFits
<1>5. intervals # <<>> /\ IsIntervals(keyFrames, intervals) /\ code # "frames"
      /\ n \in 1..(Len(intervals) + 1)
  <2>1. intervals # <<>> /\ code # "frames" /\ n \in 1..(Len(intervals) + 1)
    BY <1>2, <1>3, <1>4, Zenon DEF CallFits
  <2> QED
    BY <2>1, InvFits
<1>6. PICK K \in Nat : K = Len(intervals)
  BY <1>5 DEF IsIntervals
<1>7. ASSUME Seekable, sound, Ascending(wanted)
      PROVE  \E m \in Nat : Yields(f, wanted, m, CutIn(intervals, wanted, n - 1))
  <2>1. FoundFits(call, intervals, wanted, lost)
    BY <1>3, <1>7, InvFits, Zenon
  <2> QED
    BY <1>2, <1>3, <2>1, Zenon DEF FoundFits
<1>8. CASE n > K /\ c = [call EXCEPT !.at = "encode"]
  <2>1. c = [at |-> "encode", code |-> code, n |-> n, frames |-> f, idx |-> idx, got |-> got,
             sound |-> sound]
    BY <1>3, <1>8
  <2>2. /\ c.at = "encode" /\ c.code = code /\ c.sound = sound /\ c.frames = f
        /\ c = [at |-> c.at, code |-> c.code, n |-> c.n, frames |-> c.frames, idx |-> c.idx,
                got |-> c.got, sound |-> c.sound]
    BY <2>1
  <2>3. CallFits(c, intervals, wanted)
    BY <1>3, <1>5, <2>2 DEF CallFits
  <2>4. ASSUME Seekable, c.sound, Ascending(wanted)
        PROVE  FoundFits(c, intervals, wanted, lost)
    <3>1. sound
      BY <2>2, <2>4, Zenon
    <3>2. PICK m \in Nat : Yields(f, wanted, m, CutIn(intervals, wanted, n - 1))
      BY <1>7, <2>4, <3>1
    <3>3. n - 1 = K
      BY <1>5, <1>6, <1>8
    <3>4. CutIn(intervals, wanted, K) = Len(wanted)
      BY <1>5, <1>6, InvFits, LastCut
    <3>5. Yields(f, wanted, m, Len(wanted))
      BY <3>2, <3>3, <3>4, Zenon
    <3> QED
      BY <2>2, <3>5 DEF FoundFits
  <2>5. Seekable /\ ~lost => CodecFits(packet, held, lastConsumed, c.at, c.idx)
    BY <1>2, <2>2, InvFits, CodecRests
  <2> QED
    BY <1>1, <2>3, <2>4, <2>5, InvFits, Zenon DEF KeyFits
<1>9. CASE n <= K /\ Part(n) = <<>> /\ c = [call EXCEPT !.n = @ + 1]
  <2>1. c = [at |-> "interval", code |-> code, n |-> n + 1, frames |-> f, idx |-> idx, got |-> got,
             sound |-> sound]
    BY <1>3, <1>9
  <2>2. /\ c.at = "interval" /\ c.code = code /\ c.sound = sound /\ c.frames = f /\ c.n = n + 1
        /\ c = [at |-> c.at, code |-> c.code, n |-> c.n, frames |-> c.frames, idx |-> c.idx,
                got |-> c.got, sound |-> c.sound]
    BY <2>1
  <2>3. n + 1 \in 1..(Len(intervals) + 1) /\ n \in 1..Len(intervals) /\ n + 1 - 1 = n
    BY <1>5, <1>6, <1>9
  <2>4. CallFits(c, intervals, wanted)
    BY <1>3, <1>5, <2>2, <2>3 DEF CallFits
  <2>5. ASSUME Seekable, c.sound, Ascending(wanted)
        PROVE  FoundFits(c, intervals, wanted, lost)
    <3>1. sound
      BY <2>2, <2>5, Zenon
    <3>2. PICK m \in Nat : Yields(f, wanted, m, CutIn(intervals, wanted, n - 1))
      BY <1>7, <2>5, <3>1
    <3>3. CutIn(intervals, wanted, n - 1) = CutIn(intervals, wanted, n)
      <4>1. PICK a \in Nat, b \in Nat : Here(n, a, b)
        BY <1>5, <2>3, CallIsHere
      <4> QED
        BY <1>9, <4>1 DEF Here
    <3>5. c.n - 1 = n
      BY <1>5, <2>2
    <3>4. Yields(f, wanted, m, CutIn(intervals, wanted, c.n - 1))
      BY <3>2, <3>3, <3>5, Zenon
    <3>6. Yields(c.frames, wanted, m, CutIn(intervals, wanted, c.n - 1))
      BY <2>2, <3>4, Zenon
    <3>7. c.at = "interval" /\ c.code # "frames"
      BY <1>5, <2>2, Zenon
    <3> QED
      BY <3>6, <3>7 DEF FoundFits
  <2>6. Seekable /\ ~lost => CodecFits(packet, held, lastConsumed, c.at, c.idx)
    BY <1>2, <2>2, InvFits, CodecRests
  <2> QED
    BY <1>1, <2>4, <2>5, <2>6, InvFits, Zenon DEF KeyFits
<1> QED
  BY <1>1, <1>3, <1>5, <1>6, <1>8, <1>9

\* decode_interval starts, behind what the codec has returned or with a seek
LEMMA StartKeeps ==
  ASSUME KeyInv, NextInterval, call.n <= Len(intervals), Part(call.n) # <<>>
  PROVE  KeyFits(keyFrames, Seekable, intervals, packet', held', lastConsumed, wanted, call', lost')
<1>1. PICK c : c = call'
  OBVIOUS
<1>2. call.at = "interval"
  BY DEF NextInterval
<1>3. PICK f, got0, idx0, n, code, sound :
           /\ call = [at |-> "interval", code |-> code, n |-> n, frames |-> f, idx |-> idx0,
                      got |-> got0, sound |-> sound]
           /\ call.frames = f /\ call.n = n /\ call.code = code
           /\ call.sound = sound /\ sound \in BOOLEAN
  BY <1>2, CallHas, Zenon
<1>4. CallFits(call, intervals, wanted)
  BY InvFits
<1>5. intervals # <<>> /\ IsIntervals(keyFrames, intervals) /\ code # "frames"
      /\ n \in 1..(Len(intervals) + 1)
  <2>1. intervals # <<>> /\ code # "frames" /\ n \in 1..(Len(intervals) + 1)
    BY <1>2, <1>3, <1>4, Zenon DEF CallFits
  <2> QED
    BY <2>1, InvFits
<1>6. n \in 1..Len(intervals)
  <2>1. PICK K \in Nat : K = Len(intervals)
    BY <1>5 DEF IsIntervals
  <2> QED
    BY <1>3, <1>5, <2>1
<1>7. PICK a \in Nat, d \in Nat : Here(n, a, d)
  BY <1>5, <1>6, CallIsHere
<1>8. NFrames \in Nat \ {0} /\ lastConsumed \in Int /\ wanted \in Seq(0..NFrames)
      /\ \A i \in 1..Len(wanted) : wanted[i] \in Int
  <2>1. NFrames \in Nat \ {0} /\ lastConsumed \in Int /\ wanted \in Seq(0..NFrames)
    BY InvFits
  <2> QED
    BY <2>1
<1>9. PICK start, end : start = intervals[n].start /\ end = intervals[n].end
  OBVIOUS
<1>10. PICK first : first = wanted[a + 1]
  OBVIOUS
<1>11. /\ a = CutIn(intervals, wanted, n - 1) /\ d = CutIn(intervals, wanted, n)
       /\ a < d /\ d <= Len(wanted) /\ Head(Part(n)) = first
       /\ start \in keyFrames /\ start \in 0..(NFrames - 1) /\ end \in Nat /\ start < end
       /\ first < end /\ start <= first /\ first \in Int
       /\ \A i \in 1..a : wanted[i] < NFrames
  <2>1. Part(n) # <<>>
    BY <1>3
  <2>2. a < d /\ d <= Len(wanted)
    BY <1>7, <2>1 DEF Here
  <2>3. a + 1 \in 1..d /\ a < Len(wanted) /\ a + 1 \in 1..Len(wanted)
    BY <2>2
  <2>4. first \in Int
    BY <1>8, <1>10, <2>3
  <2>5. first < end /\ first >= start
    BY <1>7, <1>9, <1>10, <2>3 DEF Here
  <2>6. start \in 0..(NFrames - 1)
    BY <1>7, <1>9 DEF Here
  <2>7. start <= first
    BY <1>8, <2>4, <2>5, <2>6
  <2> QED
    BY <1>7, <1>9, <1>10, <2>2, <2>4, <2>5, <2>6, <2>7 DEF Here
<1>12. ASSUME Seekable, sound, Ascending(wanted)
       PROVE  Yields(f, wanted, a, a)
  <2>1. FoundFits(call, intervals, wanted, lost)
    BY <1>3, <1>12, InvFits, Zenon
  <2>2. PICK m \in Nat : Yields(f, wanted, m, CutIn(intervals, wanted, n - 1))
    BY <1>2, <1>3, <2>1, Zenon DEF FoundFits
  <2>3. Yields(f, wanted, m, a)
    BY <1>11, <2>2, Zenon
  <2>4. NFrames \in Nat
    BY <1>8
  <2> QED
    BY <1>8, <1>11, <2>3, <2>4, FoundAll
\* either way, the call stands at the first packet of the interval
<1>13. ASSUME NEW idx \in Int, NEW still \in BOOLEAN, NEW p, NEW h, NEW missed \in BOOLEAN,
              c = [at |-> "packet", code |-> code, n |-> n, frames |-> f, idx |-> idx, got |-> 0,
                   sound |-> still],
              idx <= first, still => sound, still => ~missed,
              Seekable /\ ~missed => CodecFits(p, h, lastConsumed, "packet", idx)
       PROVE  KeyFits(keyFrames, Seekable, intervals, p, h, lastConsumed, wanted, c, missed)
  <2>1. /\ c.at = "packet" /\ c.code = code /\ c.frames = f /\ c.n = n /\ c.got = 0
        /\ c.idx = idx
    BY <1>13
  <2>2. c.sound = still
    BY <1>13
  <2>3. c = [at |-> c.at, code |-> c.code, n |-> c.n, frames |-> c.frames, idx |-> c.idx,
                got |-> c.got, sound |-> c.sound]
    BY <1>13
  <2>4. c.n \in 1..Len(intervals) /\ c.got \in Nat
        /\ CutIn(intervals, wanted, c.n - 1) + c.got < CutIn(intervals, wanted, c.n)
    <3>1. a + 0 < d
      BY <1>11
    <3> QED
      BY <1>6, <1>11, <2>1, <3>1
  <2>5. c.idx \in Int /\ c.idx < intervals[c.n].end
    <3>1. idx < end
      BY <1>11, <1>13
    <3> QED
      BY <1>9, <2>1, <3>1
  <2>6. CallFits(c, intervals, wanted)
    BY <1>5, <2>1, <2>2, <2>3, <2>4, <2>5, Zenon DEF CallFits
  <2>7. ASSUME Seekable, c.sound, Ascending(wanted)
        PROVE  FoundFits(c, intervals, wanted, missed)
    <3>1. Yields(f, wanted, a, a)
      BY <1>12, <1>13, <2>2, <2>7
    <3>2. CutIn(intervals, wanted, c.n - 1) + c.got = a
      BY <1>11, <2>1
    <3>3. wanted[a + 1] >= c.idx
      BY <1>10, <1>11, <1>13, <2>1
    <3>4. ~missed
      BY <1>13, <2>2, <2>7, Zenon
    <3>5. Yields(c.frames, wanted, a, a)
      BY <2>1, <3>1, Zenon
    <3> QED
      BY <1>5, <2>1, <3>2, <3>3, <3>4, <3>5 DEF FoundFits
  <2>8. Seekable /\ ~missed => CodecFits(p, h, lastConsumed, c.at, c.idx)
    BY <1>13, <2>1, Zenon
  <2> QED
    BY <1>13, <2>6, <2>7, <2>8, InvFits, Zenon DEF KeyFits
<1>14. CASE Continues(first, start)
  <2>1. c = [call EXCEPT !.at = "packet", !.got = 0, !.idx = lastConsumed + 1, !.sound = @ /\ ~lost]
        /\ packet' = packet /\ held' = held /\ lost' = lost
    BY <1>1, <1>3, <1>6, <1>9, <1>11, <1>14 DEF NextInterval
  <2>2. PICK still \in BOOLEAN : still = (sound /\ ~lost)
    OBVIOUS
  <2>3. PICK idx \in Int : idx = lastConsumed + 1
    BY <1>8
  <2>4. c = [call EXCEPT !.at = "packet", !.got = 0, !.idx = idx, !.sound = still]
    BY <1>3, <2>1, <2>2, <2>3
  <2>5. c = [at |-> "packet", code |-> code, n |-> n, frames |-> f, idx |-> idx, got |-> 0,
                   sound |-> still]
    BY <1>3, <2>4
  <2>6. idx <= first
    BY <1>8, <1>11, <1>14, <2>3 DEF Continues
  <2>7. ASSUME Seekable, ~lost
        PROVE  CodecFits(packet, held, lastConsumed, "packet", idx)
    <3>1. CodecFits(packet, held, lastConsumed, "interval", idx0)
      <4>1. CodecFits(packet, held, lastConsumed, call.at, call.idx)
        BY <2>7, InvFits
      <4> QED
        BY <1>2, <4>1, CodecRests
    <3>2. lastConsumed + 1 \in 0..packet /\ packet \in 0..NFrames /\ held = Run(lastConsumed + 1, packet)
      BY <3>1, Zenon DEF CodecFits
    <3> QED
      BY <2>3, <3>2 DEF CodecFits
  <2>8. lost \in BOOLEAN /\ (still => sound) /\ (still => ~lost)
    BY <2>2, InvFits
  <2>9. KeyFits(keyFrames, Seekable, intervals, packet, held, lastConsumed, wanted, c, lost)
    BY <1>13, <2>5, <2>6, <2>7, <2>8
  <2> QED
    BY <1>1, <2>1, <2>9, Zenon
<1>15. CASE ~Continues(first, start)
  <2>1. c = [call EXCEPT !.at = "packet", !.got = 0, !.idx = start]
        /\ packet' = Sought(start) /\ held' = <<>> /\ lost' = FALSE
    BY <1>1, <1>3, <1>6, <1>9, <1>11, <1>15 DEF NextInterval
  <2>2. c = [at |-> "packet", code |-> code, n |-> n, frames |-> f, idx |-> start, got |-> 0,
                   sound |-> sound]
    BY <1>3, <2>1
  <2>3. PICK p, h : p = Sought(start) /\ h = <<>>
    OBVIOUS
  <2>4. start \in Nat /\ start < NFrames /\ start \in Int
    BY <1>8, <1>11
  <2>5. ASSUME Seekable
        PROVE  CodecFits(p, h, lastConsumed, "packet", start)
    <3>1. p = start
      BY <1>11, <2>3, <2>5, InvFits, SoughtIs
    <3>2. h = Run(start, start)
      BY <2>3, <2>4, RunFacts
    <3>3. start \in 0..start /\ start \in 0..NFrames
      BY <1>8, <2>4
    <3> QED
      BY <2>4, <3>1, <3>2, <3>3 DEF CodecFits
  <2>6. KeyFits(keyFrames, Seekable, intervals, p, h, lastConsumed, wanted, c, FALSE)
    BY <1>3, <1>11, <1>13, <2>2, <2>4, <2>5
  <2> QED
    BY <1>1, <2>1, <2>3, <2>6, Zenon
<1> QED
  BY <1>14, <1>15

-----------------------------------------------------------------------------
(* A round of decode_interval.                                             *)

Eof == packet = NFrames
Sent == IF Eof THEN held ELSE Append(held, packet)
Receives == Sent # <<>> /\ (Eof \/ Len(Sent) > Delay)
Hit == Receives /\ call.idx = Part(call.n)[call.got + 1]
Now == [call EXCEPT !.frames = IF Hit THEN Append(@, Head(Sent)) ELSE @,
                    !.got = IF Hit THEN @ + 1 ELSE @,
                    !.idx = IF Receives THEN @ + 1 ELSE @]
Leaves == \/ Now.got = Len(Part(call.n))
          \/ Eof /\ ~Receives
          \/ Now.idx >= intervals[call.n].end

LEMMA SendIs ==
  ASSUME SendPacket
  PROVE  /\ call.at = "packet"
         /\ packet' = IF Eof THEN packet ELSE packet + 1
         /\ held' = IF Receives THEN Tail(Sent) ELSE Sent
         /\ lastConsumed' = IF Receives THEN call.idx ELSE lastConsumed
         /\ call' = IF Leaves THEN [Now EXCEPT !.at = "interval", !.n = @ + 1] ELSE Now
BY Zenon DEF SendPacket, Eof, Sent, Receives, Hit, Now, Leaves

\* what the codec holds once the packet is sent
SentFits(p, idx, sent, last, eof) ==
  /\ p \in Nat /\ p <= NFrames /\ idx \in 0..p /\ sent = Run(idx, p)
  /\ sent # <<>> => idx < p /\ Head(sent) = idx /\ Tail(sent) = Run(idx + 1, p)
  /\ eof /\ sent = <<>> => last + 1 = idx /\ idx = NFrames

LEMMA CodecSends ==
  ASSUME NFrames \in Nat, NEW p, NEW h, NEW last \in Int, NEW idx, CodecFits(p, h, last, "packet", idx),
         NEW sent, sent = IF p = NFrames THEN h ELSE Append(h, p),
         NEW p2, p2 = IF p = NFrames THEN p ELSE p + 1
  PROVE  SentFits(p2, idx, sent, last, p = NFrames)
<1>1. idx \in 0..p /\ p \in 0..NFrames /\ h = Run(idx, p) /\ (last + 1 = idx \/ idx < NFrames)
  BY Zenon DEF CodecFits
<1>2. p \in Nat
  BY <1>1
<1>3. p2 \in Nat /\ p2 <= NFrames /\ idx \in 0..p2 /\ idx \in Nat /\ idx <= p2
  BY <1>1, <1>2
<1>4. sent = Run(idx, p2)
  <2>1. CASE p = NFrames
    BY <1>1, <2>1, Zenon
  <2>2. CASE p # NFrames
    <3>1. idx \in Nat /\ idx <= p
      BY <1>1
    <3>2. Append(Run(idx, p), p) = Run(idx, p + 1)
      BY <1>2, <3>1, RunFacts
    <3> QED
      BY <1>1, <2>2, <3>2, Zenon
  <2> QED
    BY <2>1, <2>2
<1>5. /\ Run(idx, p2) = <<>> <=> idx = p2
      /\ idx < p2 => Head(Run(idx, p2)) = idx /\ Tail(Run(idx, p2)) = Run(idx + 1, p2)
  BY <1>3, RunFacts, ZenonT(60)
<1>6. ASSUME sent # <<>>
      PROVE  idx < p2 /\ Head(sent) = idx /\ Tail(sent) = Run(idx + 1, p2)
  <2>1. idx # p2
    BY <1>4, <1>5, <1>6, Zenon
  <2>2. idx < p2
    BY <1>3, <2>1
  <2> QED
    BY <1>4, <1>5, <2>2, Zenon
<1>7. ASSUME p = NFrames, sent = <<>>
      PROVE  last + 1 = idx /\ idx = NFrames
  <2>1. idx = p2
    BY <1>4, <1>5, <1>7, Zenon
  <2>2. idx = NFrames
    BY <1>7, <2>1
  <2> QED
    BY <1>1, <1>3, <2>2
<1> QED
  BY <1>3, <1>4, <1>6, <1>7, Zenon DEF SentFits

\* the frames found so far, and one more
LEMMA FoundMore ==
  ASSUME NFrames \in Nat, NEW list \in Seq(0..NFrames), NEW m \in Nat, NEW f, Yields(f, list, m, m),
         m + 1 <= Len(list), list[m + 1] < NFrames
  PROVE  Yields(Append(f, list[m + 1]), list, m + 1, m + 1)
<1>1. PICK t : t = Taken1(list, m)
  OBVIOUS
<1>2. f = t /\ \A i \in 1..m : list[i] < NFrames
  BY <1>1 DEF Yields
<1>3. t = [i \in 1..m |-> list[i]]
  BY <1>1 DEF Taken1
<1>4. \A i \in 1..(m + 1) : list[i] \in 0..NFrames
  OBVIOUS
<1>5. PICK X : X = 0..NFrames
  OBVIOUS
<1>6. t \in Seq(X) /\ Len(t) = m
  <2>1. t \in [1..m -> X]
    BY <1>3, <1>4, <1>5
  <2> QED
    BY <2>1, SeqDef
<1>7. PICK x : x = list[m + 1] /\ x \in X
  BY <1>4, <1>5
<1>8. PICK u : u = Append(t, x)
  OBVIOUS
<1>9. u \in Seq(X) /\ Len(u) = m + 1 /\ (\A i \in 1..m : u[i] = t[i]) /\ u[m + 1] = x
  BY <1>6, <1>7, <1>8, AppendProperties
<1>10. u = [i \in 1..(m + 1) |-> u[i]]
  BY <1>9, SeqIsFunction
<1>11. \A i \in 1..(m + 1) : u[i] = list[i]
  BY <1>3, <1>7, <1>9
<1>12. u = Taken1(list, m + 1)
  BY <1>10, <1>11 DEF Taken1
<1>13. \A i \in 1..(m + 1) : list[i] < NFrames
  BY <1>2
<1>14. Yields(u, list, m + 1, m + 1)
  BY <1>12, <1>13 DEF Yields
<1> QED
  BY <1>2, <1>7, <1>8, <1>14, Zenon

LEMMA SendKeeps ==
  ASSUME KeyInv, SendPacket
  PROVE  KeyFits(keyFrames, Seekable, intervals, packet', held', lastConsumed', wanted, call', lost)
<1>1. PICK c, p2, h2, l2 : c = call' /\ p2 = packet' /\ h2 = held' /\ l2 = lastConsumed'
  OBVIOUS
<1>2. /\ call.at = "packet"
      /\ p2 = IF Eof THEN packet ELSE packet + 1
      /\ h2 = IF Receives THEN Tail(Sent) ELSE Sent
      /\ l2 = IF Receives THEN call.idx ELSE lastConsumed
      /\ c = IF Leaves THEN [Now EXCEPT !.at = "interval", !.n = @ + 1] ELSE Now
  BY <1>1, SendIs, Zenon
<1>3. PICK f, got, idx, n, code, sound :
           /\ call = [at |-> "packet", code |-> code, n |-> n, frames |-> f, idx |-> idx,
                      got |-> got, sound |-> sound]
           /\ call.frames = f /\ call.n = n /\ call.code = code /\ call.got = got /\ call.idx = idx
           /\ call.sound = sound /\ sound \in BOOLEAN
  BY <1>2, CallHas, Zenon
<1>4. CallFits(call, intervals, wanted)
  BY InvFits
<1>5. /\ intervals # <<>> /\ code # "frames" /\ n \in 1..Len(intervals) /\ got \in Nat
      /\ CutIn(intervals, wanted, n - 1) + got < CutIn(intervals, wanted, n)
      /\ idx \in Int /\ idx < intervals[n].end
  BY <1>2, <1>3, <1>4, Zenon DEF CallFits
<1>6. IsIntervals(keyFrames, intervals)
  BY <1>5, InvFits
<1>7. PICK a \in Nat, d \in Nat : Here(n, a, d)
  BY <1>5, <1>6, CallIsHere
<1>8. NFrames \in Nat \ {0} /\ lastConsumed \in Int /\ wanted \in Seq(0..NFrames)
      /\ \A i \in 1..Len(wanted) : wanted[i] \in 0..NFrames
  <2>1. NFrames \in Nat \ {0} /\ lastConsumed \in Int /\ wanted \in Seq(0..NFrames)
    BY InvFits
  <2> QED
    BY <2>1
<1>9. PICK end, len : end = intervals[n].end /\ len = Len(Part(n))
  OBVIOUS
<1>10. /\ a = CutIn(intervals, wanted, n - 1) /\ d = CutIn(intervals, wanted, n)
       /\ d <= Len(wanted) /\ end \in Nat /\ len = d - a
       /\ \A i \in 1..d : wanted[i] < end
       /\ \A k \in 1..(d - a) : Part(n)[k] = wanted[a + k]
  BY <1>7, <1>9 DEF Here
<1>11. PICK m \in Nat : m = a + got
  BY <1>5
<1>31. PICK L \in Nat : L = Len(wanted) /\ d <= L
  BY <1>8, <1>10
<1>12. /\ m < d /\ m + 1 \in 1..d /\ m + 1 \in 1..L /\ got < len /\ got + 1 \in 1..(d - a)
       /\ a + (got + 1) = m + 1 /\ idx < end
  <2>1. m < d /\ idx < end
    BY <1>5, <1>9, <1>10, <1>11, Zenon
  <2>2. len = d - a
    BY <1>10
  <2> QED
    BY <1>5, <1>11, <1>31, <2>1, <2>2
<1>13. PICK next : next = wanted[m + 1]
  OBVIOUS
<1>14. next \in 0..NFrames /\ next < end /\ Part(n)[got + 1] = next
  <2>1. next \in 0..NFrames
    BY <1>8, <1>12, <1>13, <1>31, Zenon
  <2>2. next < end
    BY <1>10, <1>12, <1>13, Zenon
  <2>3. Part(n)[got + 1] = wanted[a + (got + 1)]
    BY <1>10, <1>12, Zenon
  <2> QED
    BY <1>12, <1>13, <2>1, <2>2, <2>3, Zenon
<1>15. Hit <=> Receives /\ idx = next
  BY <1>3, <1>14, Zenon DEF Hit
<1>16. PICK f2 : f2 = IF Hit THEN Append(f, Head(Sent)) ELSE f
  OBVIOUS
<1>17. PICK g2 \in Nat : g2 = IF Hit THEN got + 1 ELSE got
  BY <1>5
<1>18. PICK x2 \in Int : x2 = IF Receives THEN idx + 1 ELSE idx
  BY <1>5
<1>19. Now = [at |-> "packet", code |-> code, n |-> n, frames |-> f2, idx |-> x2, got |-> g2,
              sound |-> sound]
  <2>1. Now = [call EXCEPT !.frames = f2, !.got = g2, !.idx = x2]
    BY <1>3, <1>16, <1>17, <1>18, Zenon DEF Now
  <2> QED
    BY <1>3, <2>1
<1>20. Leaves <=> g2 = len \/ (Eof /\ ~Receives) \/ x2 >= end
  <2>1. Now.got = g2 /\ Now.idx = x2
    BY <1>19
  <2>2. Leaves <=> \/ Now.got = Len(Part(call.n))
                   \/ Eof /\ ~Receives
                   \/ Now.idx >= intervals[call.n].end
    BY Zenon DEF Leaves
  <2>3. Len(Part(call.n)) = len /\ intervals[call.n].end = end
    BY <1>3, <1>9, Zenon
  <2> QED
    BY <2>1, <2>2, <2>3, Zenon
<1>21. \E at2, n2 :
         /\ c = [at |-> at2, code |-> code, n |-> n2, frames |-> f2, idx |-> x2, got |-> g2,
                 sound |-> sound]
         /\ Leaves => at2 = "interval" /\ n2 = n + 1
         /\ ~Leaves => at2 = "packet" /\ n2 = n
  <2>1. CASE Leaves
    <3>1. c = [Now EXCEPT !.at = "interval", !.n = @ + 1]
      BY <1>2, <2>1, Zenon
    <3>2. c = [at |-> "interval", code |-> code, n |-> n + 1, frames |-> f2, idx |-> x2, got |-> g2,
               sound |-> sound]
      BY <1>19, <3>1
    <3> QED
      BY <2>1, <3>2, Zenon
  <2>2. CASE ~Leaves
    <3>1. c = Now
      BY <1>2, <2>2, Zenon
    <3> QED
      BY <1>19, <2>2, <3>1, Zenon
  <2> QED
    BY <2>1, <2>2
<1>22. PICK at2, n2 :
         /\ c = [at |-> at2, code |-> code, n |-> n2, frames |-> f2, idx |-> x2, got |-> g2,
                 sound |-> sound]
         /\ Leaves => at2 = "interval" /\ n2 = n + 1
         /\ ~Leaves => at2 = "packet" /\ n2 = n
  BY <1>21
<1>23. /\ c.at = at2 /\ c.code = code /\ c.n = n2 /\ c.frames = f2 /\ c.idx = x2 /\ c.got = g2
       /\ c.sound = sound
       /\ c = [at |-> c.at, code |-> c.code, n |-> c.n, frames |-> c.frames, idx |-> c.idx,
               got |-> c.got, sound |-> c.sound]
  <2>1. c = [at |-> at2, code |-> code, n |-> n2, frames |-> f2, idx |-> x2, got |-> g2,
             sound |-> sound]
    BY <1>22
  <2>2. c.at = at2 /\ c.code = code /\ c.n = n2 /\ c.frames = f2 /\ c.idx = x2 /\ c.got = g2
    BY <2>1
  <2>3. c.sound = sound
    BY <2>1
  <2> QED
    BY <2>1, <2>2, <2>3, Zenon
<1>24. g2 <= len
  <2>1. len \in Int /\ got + 1 <= len
    BY <1>5, <1>10, <1>12
  <2>2. CASE Hit
    BY <1>17, <2>1, <2>2
  <2>3. CASE ~Hit
    <3>1. g2 = got
      BY <1>17, <2>3
    <3> QED
      BY <1>5, <2>1, <3>1
  <2> QED
    BY <2>2, <2>3
<1>25. CallFits(c, intervals, wanted)
  <2>1. CASE Leaves
    <3>1. c.at = "interval" /\ c.n \in 1..(Len(intervals) + 1)
      <4>1. PICK K \in Nat : K = Len(intervals)
        BY <1>6 DEF IsIntervals
      <4>2. n + 1 \in 1..(K + 1)
        BY <1>5, <4>1
      <4> QED
        BY <1>22, <1>23, <2>1, <4>1, <4>2, Zenon
    <3> QED
      BY <1>3, <1>5, <1>23, <3>1 DEF CallFits
  <2>2. CASE ~Leaves
    <3>1. c.at = "packet" /\ c.n = n /\ c.got = g2 /\ c.idx = x2
      BY <1>22, <1>23, <2>2, Zenon
    <3>2. g2 # len /\ ~(x2 >= end)
      BY <1>20, <2>2, Zenon
    <3>3. a + g2 < d /\ x2 < end
      BY <1>10, <1>24, <3>2
    <3>4. CutIn(intervals, wanted, c.n - 1) + c.got < CutIn(intervals, wanted, c.n)
      BY <1>10, <3>1, <3>3
    <3>5. c.idx \in Int /\ c.idx < intervals[c.n].end
      BY <1>9, <3>1, <3>3
    <3> QED
      BY <1>3, <1>5, <1>23, <3>1, <3>4, <3>5, Zenon DEF CallFits
  <2> QED
    BY <2>1, <2>2
<1>26. ASSUME Seekable, ~lost
       PROVE  SentFits(p2, idx, Sent, lastConsumed, Eof)
  <2>1. CodecFits(packet, held, lastConsumed, "packet", idx)
    <3>1. CodecFits(packet, held, lastConsumed, call.at, call.idx)
      BY <1>26, InvFits
    <3> QED
      BY <1>2, <1>3, <3>1, Zenon
  <2>2. PICK sent : sent = Sent
    OBVIOUS
  <2>3. /\ sent = IF packet = NFrames THEN held ELSE Append(held, packet)
        /\ p2 = IF packet = NFrames THEN packet ELSE packet + 1
    BY <1>2, <2>2, Zenon DEF Sent, Eof
  <2>4. SentFits(p2, idx, sent, lastConsumed, packet = NFrames)
    BY <1>8, <2>1, <2>3, CodecSends
  <2> QED
    BY <2>2, <2>4, Zenon DEF Eof
<1>27. ASSUME Seekable, ~lost
       PROVE  CodecFits(p2, h2, l2, c.at, c.idx)
  <2>1. /\ p2 \in Nat /\ p2 <= NFrames /\ idx \in 0..p2 /\ Sent = Run(idx, p2)
        /\ Sent # <<>> => idx < p2 /\ Tail(Sent) = Run(idx + 1, p2)
        /\ Eof /\ Sent = <<>> => lastConsumed + 1 = idx /\ idx = NFrames
    BY <1>26, <1>27, Zenon DEF SentFits
  <2>2. p2 \in 0..NFrames
    BY <1>8, <2>1
  <2>3. CASE Receives
    <3>1. Sent # <<>>
      BY <2>3 DEF Receives
    <3>2. x2 = idx + 1 /\ l2 = idx /\ h2 = Tail(Sent)
      BY <1>2, <1>3, <1>18, <2>3, Zenon
    <3>3. x2 \in 0..p2 /\ l2 + 1 = x2
      BY <2>1, <3>1, <3>2
    <3>4. h2 = Run(x2, p2)
      BY <2>1, <3>1, <3>2, Zenon
    <3>5. l2 + 1 \in 0..p2 /\ h2 = Run(l2 + 1, p2)
      BY <3>3, <3>4
    <3> QED
      BY <1>23, <2>2, <3>3, <3>4, <3>5, Zenon DEF CodecFits
  <2>4. CASE ~Receives
    <3>1. x2 = idx /\ l2 = lastConsumed /\ h2 = Sent /\ h2 = Run(idx, p2)
      BY <1>2, <1>18, <2>1, <2>4, Zenon
    <3>2. CASE Leaves
      <4>1. ~Hit
        BY <1>15, <2>4
      <4>2. g2 = got
        BY <1>17, <4>1
      <4>3. g2 # len /\ ~(x2 >= end)
        BY <1>5, <1>10, <1>12, <3>1, <4>2
      <4>4. Eof
        BY <1>20, <3>2, <4>3
      <4>5. Sent = <<>>
        BY <2>4, <4>4, Zenon DEF Receives
      <4>6. lastConsumed + 1 = idx
        BY <2>1, <4>4, <4>5
      <4>7. c.at = "interval"
        BY <1>22, <1>23, <3>2, Zenon
      <4>8. l2 + 1 \in 0..p2 /\ h2 = Run(l2 + 1, p2)
        BY <2>1, <3>1, <4>6
      <4> QED
        BY <2>2, <4>7, <4>8 DEF CodecFits
    <3>3. CASE ~Leaves
      <4>1. c.at = "packet" /\ c.idx = idx
        BY <1>22, <1>23, <3>1, <3>3, Zenon
      <4>2. lastConsumed + 1 = idx \/ idx < NFrames
        <5>1. CodecFits(packet, held, lastConsumed, "packet", idx)
          <6>1. CodecFits(packet, held, lastConsumed, call.at, call.idx)
            BY <1>27, InvFits
          <6> QED
            BY <1>2, <1>3, <6>1, Zenon
        <5> QED
          BY <5>1, Zenon DEF CodecFits
      <4> QED
        BY <2>1, <2>2, <3>1, <4>1, <4>2, Zenon DEF CodecFits
    <3> QED
      BY <3>2, <3>3
  <2> QED
    BY <2>3, <2>4
<1>28. ASSUME Seekable, c.sound, Ascending(wanted)
       PROVE  FoundFits(c, intervals, wanted, lost)
  <2>1. FoundFits(call, intervals, wanted, lost)
    BY <1>23, <1>3, <1>28, InvFits, Zenon
  <2>2. Yields(f, wanted, m, m) /\ next >= idx /\ ~lost
    <3>1. /\ Yields(call.frames, wanted, CutIn(intervals, wanted, call.n - 1) + call.got,
                    CutIn(intervals, wanted, call.n - 1) + call.got)
          /\ wanted[CutIn(intervals, wanted, call.n - 1) + call.got + 1] >= call.idx /\ ~lost
      BY <1>2, <2>1, Zenon DEF FoundFits
    <3>2. CutIn(intervals, wanted, call.n - 1) + call.got = m
      BY <1>3, <1>10, <1>11, Zenon
    <3> QED
      BY <1>3, <1>13, <3>1, <3>2, Zenon
  <2>3. /\ p2 \in Nat /\ p2 <= NFrames /\ idx \in 0..p2
        /\ Sent # <<>> => idx < p2 /\ Head(Sent) = idx
        /\ Eof /\ Sent = <<>> => idx = NFrames
    BY <1>26, <1>28, <2>2, Zenon DEF SentFits
\* what is left to show in either case
  <2>4. ASSUME Leaves, NEW k \in Nat, Yields(f2, wanted, k, d)
        PROVE  FoundFits(c, intervals, wanted, lost)
    <3>1. c.at = "interval" /\ c.n = n + 1
      BY <1>22, <1>23, <2>4, Zenon
    <3>2. c.n - 1 = n
      BY <1>5, <3>1
    <3>3. Yields(c.frames, wanted, k, CutIn(intervals, wanted, c.n - 1))
      BY <1>10, <1>23, <2>4, <3>2, Zenon
    <3>4. c.code # "frames"
      BY <1>5, <1>23, Zenon
    <3> QED
      BY <3>1, <3>3, <3>4 DEF FoundFits
  <2>5. ASSUME ~Leaves, NEW k \in Nat, k = a + g2, Yields(f2, wanted, k, k), wanted[k + 1] >= x2
        PROVE  FoundFits(c, intervals, wanted, lost)
    <3>1. c.at = "packet" /\ c.n = n /\ c.code # "frames"
      BY <1>5, <1>22, <1>23, <2>5, Zenon
    <3>2. CutIn(intervals, wanted, c.n - 1) + c.got = k
      BY <1>10, <1>23, <2>5, <3>1, Zenon
    <3>3. Yields(c.frames, wanted, k, k) /\ wanted[k + 1] >= c.idx
      BY <1>23, <2>5, Zenon
    <3> QED
      BY <2>2, <3>1, <3>2, <3>3 DEF FoundFits
  <2>6. CASE Hit
    <3>1. Receives /\ idx = next /\ Sent # <<>>
      BY <1>15, <2>6, Zenon DEF Receives
    <3>2. g2 = got + 1 /\ x2 = idx + 1 /\ f2 = Append(f, Head(Sent)) /\ Head(Sent) = next
      BY <1>16, <1>17, <1>18, <2>3, <2>6, <3>1, Zenon
    <3>3. next < NFrames
      BY <1>8, <1>14, <2>3, <3>1
    <3>4. Yields(f2, wanted, m + 1, m + 1)
      <4>1. m + 1 <= Len(wanted) /\ wanted[m + 1] < NFrames /\ NFrames \in Nat
        BY <1>8, <1>12, <1>13, <1>31, <3>3
      <4>2. Yields(Append(f, wanted[m + 1]), wanted, m + 1, m + 1)
        BY <1>8, <2>2, <4>1, FoundMore
      <4> QED
        BY <1>13, <3>2, <4>2, Zenon
    <3>5. a + g2 = m + 1
      BY <1>5, <1>11, <3>2
    <3>6. ASSUME g2 # len
          PROVE  wanted[(m + 1) + 1] >= x2 /\ x2 < end
      <4>6. len = d - a
        BY <1>10
      <4>1. (m + 1) + 1 \in 1..d /\ m + 1 \in 1..(L - 1) /\ (m + 1) + 1 \in 1..L
        BY <1>12, <1>24, <1>31, <3>5, <3>6, <4>6
      <4>2. wanted[m + 1] < wanted[(m + 1) + 1]
        BY <1>28, <1>31, <4>1, Zenon DEF Ascending
      <4>7. wanted[(m + 1) + 1] \in 0..NFrames /\ wanted[(m + 1) + 1] < end
        BY <1>8, <1>10, <1>31, <4>1, Zenon
      <4>3. PICK w \in Int : w = wanted[(m + 1) + 1] /\ w < end
        BY <4>7
      <4>4. next < w
        BY <1>13, <4>2, <4>3
      <4>5. w >= x2 /\ x2 < end
        <5>1. idx \in Int /\ end \in Int /\ idx < w /\ x2 = idx + 1
          BY <1>5, <1>10, <3>1, <3>2, <4>4
        <5> QED
          BY <4>3, <5>1
      <4> QED
        BY <4>3, <4>5
    <3>7. CASE Leaves
      <4>1. g2 = len
        <5>1. SUFFICES ASSUME g2 # len
                       PROVE  FALSE
          OBVIOUS
        <5>2. x2 < end
          BY <3>6, <5>1
        <5> QED
          BY <1>10, <1>20, <3>1, <3>7, <5>1, <5>2
      <4>2. m + 1 = d
        BY <1>10, <3>5, <4>1
      <4>3. Yields(f2, wanted, m + 1, d)
        BY <3>4, <4>2, Zenon
      <4> QED
        BY <2>4, <3>7, <4>3
    <3>8. CASE ~Leaves
      <4>1. g2 # len
        BY <1>20, <3>8, Zenon
      <4> QED
        BY <2>5, <3>4, <3>5, <3>6, <3>8, <4>1
    <3> QED
      BY <3>7, <3>8
  <2>7. CASE ~Hit
    <3>1. g2 = got /\ f2 = f /\ g2 # len /\ a + g2 = m
      BY <1>5, <1>10, <1>11, <1>12, <1>16, <1>17, <2>7
    <3>2. next >= x2
      <4>1. CASE Receives
        <5>1. idx # next
          BY <1>15, <2>7, <4>1
        <5> QED
          BY <1>5, <1>14, <1>18, <2>2, <4>1, <5>1
      <4>2. CASE ~Receives
        BY <1>18, <2>2, <4>2
      <4> QED
        BY <4>1, <4>2
    <3>3. ~(x2 >= end)
      BY <1>10, <1>14, <3>2
    <3>4. CASE Leaves
      <4>1. Eof /\ ~Receives
        BY <1>20, <3>1, <3>3, <3>4
      <4>2. Sent = <<>>
        BY <4>1, Zenon DEF Receives
      <4>3. idx = NFrames
        BY <2>3, <4>1, <4>2
      <4>4. wanted[m + 1] >= NFrames
        BY <1>13, <2>2, <4>3
      <4>5. Yields(f2, wanted, m, d)
        <5>1. /\ m \in 0..m /\ f = Taken1(wanted, m) /\ \A i \in 1..m : wanted[i] < NFrames
          BY <2>2 DEF Yields
        <5>2. m \in 0..d
          BY <1>12
        <5> QED
          BY <1>10, <3>1, <4>4, <5>1, <5>2 DEF Yields
      <4> QED
        BY <2>4, <3>4, <4>5
    <3>5. CASE ~Leaves
      <4>1. Yields(f2, wanted, m, m) /\ wanted[m + 1] >= x2
        BY <1>13, <2>2, <3>1, <3>2, Zenon
      <4> QED
        BY <2>5, <3>1, <3>5, <4>1
    <3> QED
      BY <3>4, <3>5
  <2> QED
    BY <2>6, <2>7
<1>29. l2 \in Int
  <2>1. CASE Receives
    BY <1>2, <1>3, <1>5, <2>1
  <2>2. CASE ~Receives
    BY <1>2, <1>8, <2>2
  <2> QED
    BY <2>1, <2>2
<1>30. KeyFits(keyFrames, Seekable, intervals, p2, h2, l2, wanted, c, lost)
  BY <1>25, <1>27, <1>28, <1>29, InvFits, Zenon DEF KeyFits
<1> QED
  BY <1>1, <1>30, Zenon

LEMMA CallAtInterval ==
  ASSUME KeyInv, NextInterval
  PROVE  call.n \in Int /\ Len(intervals) \in Int
<1>1. CallFits(call, intervals, wanted) /\ call.at = "interval"
  BY InvFits DEF NextInterval
<1>2. intervals # <<>> /\ call.n \in 1..(Len(intervals) + 1)
  BY <1>1, Zenon DEF CallFits
<1>3. IsIntervals(keyFrames, intervals)
  BY <1>2, InvFits
<1>4. PICK K \in Nat : K = Len(intervals)
  BY <1>3 DEF IsIntervals
<1>5. call.n \in 1..(K + 1)
  BY <1>2, <1>4, Zenon
<1> QED
  BY <1>4, <1>5

LEMMA NextKeeps ==
  ASSUME KeyInv, NextInterval
  PROVE  KeyFits(keyFrames, Seekable, intervals, packet', held', lastConsumed, wanted, call', lost')
<1>1. CASE call.n > Len(intervals)
  <2>1. call' = [call EXCEPT !.at = "encode"] /\ packet' = packet /\ held' = held /\ lost' = lost
    BY <1>1, Zenon DEF NextInterval
  <2>2. KeyFits(keyFrames, Seekable, intervals, packet, held, lastConsumed, wanted, call', lost)
    BY <1>1, <2>1, PassKeeps
  <2> QED
    BY <2>1, <2>2, Zenon
<1>2. CASE call.n <= Len(intervals) /\ Part(call.n) = <<>>
  <2>1. ~(call.n > Len(intervals))
    <3>1. call.n \in Int /\ Len(intervals) \in Int
      BY CallAtInterval
    <3> QED
      BY <1>2, <3>1
  <2>2. call' = [call EXCEPT !.n = @ + 1] /\ packet' = packet /\ held' = held /\ lost' = lost
    BY <1>2, <2>1, Zenon DEF NextInterval
  <2>3. KeyFits(keyFrames, Seekable, intervals, packet, held, lastConsumed, wanted, call', lost)
    BY <1>2, <2>2, PassKeeps
  <2> QED
    BY <2>2, <2>3, Zenon
<1>3. CASE call.n <= Len(intervals) /\ Part(call.n) # <<>>
  BY <1>3, StartKeeps
<1>4. call.n > Len(intervals) \/ call.n <= Len(intervals)
  <2>1. call.n \in Int /\ Len(intervals) \in Int
    BY CallAtInterval
  <2> QED
    BY <2>1
<1> QED
  BY <1>1, <1>2, <1>3, <1>4

-----------------------------------------------------------------------------
(* The theorem.                                                            *)

LEMMA KeyStart ==
  ASSUME KeyInit
  PROVE  KeyInv
<1>1. /\ keyFrames \in Streams /\ intervals = <<>> /\ packet = 0 /\ held = <<>>
      /\ lastConsumed = -1 /\ wanted = <<>> /\ lost = FALSE /\ call = NotCalled
  BY DEF KeyInit
<1>2. NFrames \in Nat \ {0}
  BY <1>1, StreamFacts
<1>3. PICK e : e = <<>> /\ e \in Seq(0..NFrames)
  BY EmptySeq
<1>4. call = [at |-> "return", code |-> "none", n |-> 0, frames |-> e, idx |-> 0, got |-> 0,
              sound |-> TRUE]
  BY <1>1, <1>3 DEF NotCalled
<1>5. call.at = "return" /\ call.code = "none" /\ call.sound = TRUE
  BY <1>4
<1>6. call = [at |-> call.at, code |-> call.code, n |-> call.n, frames |-> call.frames,
              idx |-> call.idx, got |-> call.got, sound |-> call.sound]
  BY <1>4
<1>7. CallFits(call, intervals, wanted) /\ FoundFits(call, intervals, wanted, lost)
  BY <1>5, <1>6 DEF CallFits, FoundFits
<1>8. CodecFits(packet, held, lastConsumed, call.at, call.idx)
  <2>1. held = Run(0, 0)
    <3>1. Run(0, 0) = <<>>
      BY RunFacts
    <3> QED
      BY <1>1, <3>1, Zenon
  <2>2. lastConsumed + 1 = 0 /\ 0 \in 0..packet /\ packet \in 0..NFrames /\ packet = 0
    BY <1>1, <1>2
  <2> QED
    BY <1>5, <2>1, <2>2 DEF CodecFits
<1>9. lastConsumed \in Int /\ lost \in BOOLEAN /\ wanted \in Seq(0..NFrames)
  <2>1. wanted \in Seq(0..NFrames)
    BY <1>1, <1>3, Zenon
  <2>2. lastConsumed \in Int /\ lost \in BOOLEAN
    <3>1. -1 \in Int /\ FALSE \in BOOLEAN
      OBVIOUS
    <3> QED
      BY <1>1, <3>1, Zenon
  <2> QED
    BY <2>1, <2>2, Zenon
<1>10. KeyFits(keyFrames, Seekable, intervals, packet, held, lastConsumed, wanted, call, lost)
  BY <1>1, <1>7, <1>8, <1>9, Zenon DEF KeyFits
<1> QED
  BY <1>1, <1>10 DEF KeyInv, KeyInit

LEMMA KeyStep ==
  ASSUME KeyInv, [KeyNext]_keyVars
  PROVE  KeyInv'
<1>1. /\ keyFrames' = keyFrames /\ duration' = duration
      /\ KeyFits(keyFrames, Seekable, intervals', packet', held', lastConsumed', wanted', call', lost')
  <2>1. CASE SetKeyFrames
    <3>1. /\ keyFrames' = keyFrames /\ duration' = duration /\ packet' = packet /\ held' = held
          /\ lastConsumed' = lastConsumed /\ wanted' = <<>> /\ lost' = lost
      BY <2>1 DEF SetKeyFrames
    <3>2. KeyFits(keyFrames, Seekable, intervals', packet, held, lastConsumed, <<>>, call', lost)
      BY <2>1, SetKeeps
    <3> QED
      BY <3>1, <3>2, Zenon
  <2>2. CASE GetKeyFrameList
    <3>1. /\ keyFrames' = keyFrames /\ duration' = duration /\ packet' = packet /\ held' = held
          /\ lastConsumed' = lastConsumed /\ wanted' = <<>> /\ lost' = lost
      BY <2>2 DEF GetKeyFrameList
    <3>2. KeyFits(keyFrames, Seekable, intervals', packet, held, lastConsumed, <<>>, call', lost)
      BY <2>2, GetKeeps
    <3> QED
      BY <3>1, <3>2, Zenon
  <2>3. CASE Decode
    <3>1. /\ keyFrames' = keyFrames /\ duration' = duration /\ packet' = packet /\ held' = held
          /\ lastConsumed' = lastConsumed /\ intervals' = intervals /\ lost' = lost
      BY <2>3 DEF Decode
    <3>2. KeyFits(keyFrames, Seekable, intervals, packet, held, lastConsumed, wanted', call', lost)
      BY <2>3, DecodeKeeps
    <3> QED
      BY <3>1, <3>2, Zenon
  <2>4. CASE NextInterval
    <3>1. /\ keyFrames' = keyFrames /\ duration' = duration /\ wanted' = wanted
          /\ lastConsumed' = lastConsumed /\ intervals' = intervals
      BY <2>4 DEF NextInterval
    <3>2. KeyFits(keyFrames, Seekable, intervals, packet', held', lastConsumed, wanted, call', lost')
      BY <2>4, NextKeeps
    <3> QED
      BY <3>1, <3>2, Zenon
  <2>5. CASE SendPacket
    <3>1. /\ keyFrames' = keyFrames /\ duration' = duration /\ wanted' = wanted
          /\ lost' = lost /\ intervals' = intervals
      BY <2>5 DEF SendPacket
    <3>2. KeyFits(keyFrames, Seekable, intervals, packet', held', lastConsumed', wanted, call', lost)
      BY <2>5, SendKeeps
    <3> QED
      BY <3>1, <3>2, Zenon
  <2>6. CASE RefusePacket
    <3>1. /\ keyFrames' = keyFrames /\ duration' = duration /\ held' = held /\ lost' = TRUE
          /\ lastConsumed' = lastConsumed /\ intervals' = intervals /\ wanted' = wanted
      BY <2>6, Zenon DEF RefusePacket
    <3>2. KeyFits(keyFrames, Seekable, intervals, packet', held, lastConsumed, wanted, call', TRUE)
      BY <2>6, RefuseKeeps
    <3> QED
      BY <3>1, <3>2, Zenon
  <2>7. CASE EncodeFrames
    <3>1. /\ keyFrames' = keyFrames /\ duration' = duration /\ packet' = packet /\ held' = held /\ lost' = lost
          /\ lastConsumed' = lastConsumed /\ intervals' = intervals /\ wanted' = wanted
      BY <2>7 DEF EncodeFrames
    <3>2. KeyFits(keyFrames, Seekable, intervals, packet, held, lastConsumed, wanted, call', lost)
      BY <2>7, EncodeKeeps
    <3> QED
      BY <3>1, <3>2, Zenon
  <2>8. CASE UNCHANGED keyVars
    <3>1. /\ keyFrames' = keyFrames /\ duration' = duration /\ packet' = packet /\ held' = held /\ lost' = lost
          /\ lastConsumed' = lastConsumed /\ intervals' = intervals /\ wanted' = wanted /\ call' = call
      BY <2>8 DEF keyVars
    <3>2. KeyFits(keyFrames, Seekable, intervals, packet, held, lastConsumed, wanted, call, lost)
      BY DEF KeyInv
    <3> QED
      BY <3>1, <3>2, Zenon
  <2> QED
    BY <2>1, <2>2, <2>3, <2>4, <2>5, <2>6, <2>7, <2>8 DEF KeyNext
<1>2. Seekable' = Seekable
  BY <1>1 DEF Seekable, Spaced, Early, TimeBase
<1>3. keyFrames \in Streams /\ duration \in Durations \cup {0}
  BY DEF KeyInv
<1>4. keyFrames' \in Streams /\ duration' \in Durations \cup {0}
  BY <1>1, <1>3, Zenon
<1>5. PICK s : s = Seekable'
  OBVIOUS
<1>6. KeyFits(keyFrames', s, intervals', packet', held', lastConsumed', wanted', call', lost')
  BY <1>1, <1>2, <1>5, Zenon
<1> QED
  BY <1>4, <1>5, <1>6, Zenon DEF KeyInv

LEMMA KeyAnswers ==
  ASSUME KeyInv
  PROVE  KeyFramesExact
<1> SUFFICES ASSUME call.code = "frames", Seekable, call.sound, Ascending(wanted)
             PROVE  call.frames = Filtered(wanted, 0..NFrames - 1)
  BY DEF KeyFramesExact, Exact
<1>1. NFrames \in Nat \ {0} /\ wanted \in Seq(0..NFrames)
  BY InvFits
<1>2. FoundFits(call, intervals, wanted, lost)
  BY InvFits
<1>3. PICK m \in Nat : Yields(call.frames, wanted, m, Len(wanted))
  BY <1>2, Zenon DEF FoundFits
<1>4. PICK L \in Nat : L = Len(wanted) /\ DOMAIN wanted = 1..L /\ \A i \in 1..L : wanted[i] \in 0..NFrames
  BY <1>1
<1>5. /\ m \in 0..L /\ call.frames = Taken1(wanted, m) /\ \A i \in 1..m : wanted[i] < NFrames
      /\ m < L => wanted[m + 1] >= NFrames
  BY <1>3, <1>4, Zenon DEF Yields
<1>6. m < L => m + 1 = L
  <2> SUFFICES ASSUME m < L, m + 1 # L
               PROVE  FALSE
    OBVIOUS
  <2>1. m + 1 \in 1..(L - 1) /\ m + 1 \in 1..L /\ (m + 1) + 1 \in 1..L
    BY <1>5
  <2>2. wanted[m + 1] < wanted[(m + 1) + 1]
    BY <1>4, <2>1, Zenon DEF Ascending
  <2>3. PICK x, y : x = wanted[m + 1] /\ y = wanted[(m + 1) + 1]
    OBVIOUS
  <2>4. x \in 0..NFrames /\ y \in 0..NFrames /\ x < y /\ x >= NFrames
    BY <1>4, <1>5, <2>1, <2>2, <2>3, Zenon
  <2> QED
    BY <1>1, <2>4
<1>7. PICK S : S = {i \in DOMAIN wanted : wanted[i] \in 0..NFrames - 1}
  OBVIOUS
<1>8. S = 1..m
  <2>1. ASSUME NEW i \in S
        PROVE  i \in 1..m
    <3>1. i \in 1..L /\ wanted[i] \in 0..(NFrames - 1)
      BY <1>4, <1>7, <2>1
    <3>2. CASE m < L
      <4>1. PICK x : x = wanted[L] /\ x >= NFrames
        BY <1>5, <1>6, <3>2
      <4>2. i # L
        BY <1>1, <3>1, <4>1
      <4> QED
        BY <1>6, <3>1, <3>2, <4>2
    <3>3. CASE ~(m < L)
      BY <1>5, <3>1, <3>3
    <3> QED
      BY <3>2, <3>3
  <2>2. ASSUME NEW i \in 1..m
        PROVE  i \in S
    <3>1. i \in 1..L
      BY <1>5
    <3>2. wanted[i] < NFrames /\ wanted[i] \in 0..NFrames
      BY <1>4, <1>5, <3>1
    <3> QED
      BY <1>1, <1>4, <1>7, <3>1, <3>2
  <2> QED
    BY <2>1, <2>2
<1>9. InOrder(S) = [i \in 1..m |-> i]
  BY <1>8, InOrderInterval
<1>10. Filtered(wanted, 0..NFrames - 1) = [n \in DOMAIN InOrder(S) |-> wanted[InOrder(S)[n]]]
  BY <1>7, Zenon DEF Filtered
<1>11. PICK at : at = InOrder(S) /\ at = [i \in 1..m |-> i]
  BY <1>9
<1>12. [n \in DOMAIN at |-> wanted[at[n]]] = [n \in 1..m |-> wanted[n]]
  BY <1>11
<1> QED
  BY <1>5, <1>10, <1>11, <1>12, Zenon DEF Taken1

\* For any key frames, and wherever an earlier call left the demuxer and the codec, an ascending
\* list of frames yields these frames in this order, unless it reads on after a packet was
\* refused; in a container with timestamps, for streams in which no two key frames are
\* neighbours and what the truncated time base lacks has nowhere added up to the time between
\* a key frame and the next frame (KeyFrame.cc, decode_interval).
THEOREM DecodesExactly == KeySpec => []KeyFramesExact
<1>1. KeyInit => KeyInv
  BY KeyStart
<1>2. KeyInv /\ [KeyNext]_keyVars => KeyInv'
  BY KeyStep
<1>3. KeyInv => KeyFramesExact
  BY KeyAnswers
<1> QED
  BY <1>1, <1>2, <1>3, PTL DEF KeySpec
=============================================================================
