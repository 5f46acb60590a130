------------------------------ MODULE VideoFile ------------------------------
(***************************************************************************)
(* One video: the files a VCL::Video reads, writes, renames and removes    *)
(* when AddVideo stores it, and when FindVideo or FindFrames return it.    *)
(* Operations on frames are applied while a file is copied, those on whole *)
(* videos replace the copy, and each such stage has a file of its own.     *)
(* A frame is its number in the original, what was done to it, and a size. *)
(***************************************************************************)
EXTENDS Lists

CONSTANTS
  Lengths,      \* bound: numbers of frames an original has
  MaxVideoOps   \* bound: operations of a command

ASSUME VideoAssumption == Lengths \subseteq Nat /\ MaxVideoOps \in Nat

VARIABLES
  files,      \* the frames in each file that exists
  video,      \* the Video object
  command,    \* what was asked: which command, the original, the operations
  perform,    \* where perform_operations is: op_count, id, fname
  response    \* the command's answer

videoVars == <<files, video, command, perform, response>>

\* files: the uploaded blob, the user's own, that of the data store, temporary ones
Upload == 1
UserFile == 2
Store == 3
Fresh == Max(DOMAIN files \cup {Store}) + 1   \* a tempfile named by the time

Written(fs, f, frames) == [g \in DOMAIN fs \cup {f} |-> IF g = f THEN frames ELSE fs[g]]
Unlinked(fs, f) == Restrict(fs, DOMAIN fs \ {f})
Renamed(fs, from, to) == Unlinked(Written(fs, to, fs[from]), from)

Interval(start, stop, step) == [type |-> "interval", start |-> start, stop |-> stop, step |-> step]
Simple(type) == [type |-> type]

\* resize also stands for crop, threshold keeps the size, syncremote also stands for user
OperationType ==
  {Simple("resize"), Simple("threshold"), Simple("syncremote"), Simple("remote"),
   Interval(1, 4, 2), Interval(2, 2, 1)}

WholeVideo(op) == op.type \in {"interval", "syncremote", "remote"}

Original(n) == [i \in 1..n |-> [number |-> i, did |-> <<>>, size |-> 0]]

NoVideo == [id |-> 0, noBlob |-> FALSE, operated |-> 0, ops |-> <<>>, error |-> FALSE]
NotPerforming == [at |-> "idle", count |-> 0, id |-> 0, fname |-> 0]
NotAnswered == [status |-> "none", frames |-> <<>>]

VideoInit ==
  /\ files = <<>>
  /\ video = NoVideo
  /\ command = [name |-> "none", frames |-> <<>>, ops |-> <<>>]
  /\ perform = NotPerforming
  /\ response = NotAnswered

OpLists == UNION {[1..n -> OperationType] : n \in 0..MaxVideoOps}

-----------------------------------------------------------------------------
(***************************************************************************)
(* The operations                                                          *)
(***************************************************************************)
\* the operations on frames from op on, up to the next one on whole videos
Stage(ops, op) ==
  LET until == {i \in op..Len(ops) : WholeVideo(ops[i])}
  IN  SubSeq(ops, op, IF until = {} THEN Len(ops) ELSE Min(until) - 1)

Does(frame, op) ==
  [frame EXCEPT !.did = Append(@, op.type), !.size = IF op.type = "resize" THEN 1 ELSE @]

DoesAll_last(frame, ops) ==  \* bug: each works on the frame that was read, not on the last result
  IF ops = <<>> THEN frame ELSE Does(frame, Last(ops))
DoesAll(frame, ops) == FoldLeft(Does, frame, ops)

\* the writer drops a frame that is not of the size it was opened with
WriterSize(frame, ops, op) ==
  IF \E i \in DOMAIN Stage(ops, op) : Stage(ops, op)[i].type = "resize" THEN 1 ELSE frame.size

Copied(frames, ops, op) ==
  LET done(f) == DoesAll(f, Stage(ops, op))
      kept == InOrder({n \in DOMAIN frames : done(frames[n]).size = WriterSize(frames[n], ops, op)})
  IN  [i \in DOMAIN kept |-> done(frames[kept[i]])]

\* frames are counted from 1; the next one is written a step after the last
Within(n, op) == n >= op.start /\ n < op.stop
Chosen(n, op) ==
  LET first == IF op.start = 0 THEN 1 ELSE op.start
  IN  Within(n, op) /\ (n - first) % op.step = 0
OutOfBounds(frames, op) == op.start >= Len(frames) \/ op.stop >= Len(frames)

Sampled(frames, op) ==
  LET ns == InOrder({n \in DOMAIN frames : Chosen(n, op)})
  IN  [i \in DOMAIN ns |-> [frames[ns[i]] EXCEPT !.did = Append(@, op.type)]]

\* what the remote server or the user's process makes of a video: the video it
\* returns, or no more than metadata about the one it was sent
Served(frames, op) == [i \in DOMAIN frames |-> Does(frames[i], op)]

-----------------------------------------------------------------------------
(***************************************************************************)
(* perform_operations                                                      *)
(***************************************************************************)
FramesOf(f) == IF f \in DOMAIN files THEN files[f] ELSE <<>>
Adding == command.name = "AddVideo"

\* execute_operations: those up to the first remote one, which the loop makes
LocalOps(ops) ==
  LET remote == {i \in DOMAIN ops : ops[i].type = "remote"}
  IN  IF remote = {} THEN ops ELSE SubSeq(ops, 1, Min(remote) - 1)
RemainingOps(ops) == SubSeq(ops, Len(LocalOps(ops)) + 1, Len(ops))

\* what execute_operations or get_encoded does next with a Video
Executing(v) ==
  IF v.error THEN [NotPerforming EXCEPT !.at = "respond"]
  ELSE IF v.ops = <<>> THEN [NotPerforming EXCEPT !.at = "encode"]
  ELSE IF Head(v.ops).type = "remote" THEN [NotPerforming EXCEPT !.at = "remote"]
  ELSE [NotPerforming EXCEPT !.at = "frames", !.count = 1,
                             !.id = IF v.operated = 0 THEN v.id ELSE v.operated]

\* store_video_no_operation, and nothing for a file that is only referred to
StorePlain ==
  /\ perform.at = "store"
  /\ perform' = [perform EXCEPT !.at = "respond"]
  /\ IF video.noBlob THEN UNCHANGED <<files, video>>
     ELSE /\ files' = LET rest == Unlinked(files, Upload) IN
                      IF FramesOf(video.id) = <<>> THEN rest ELSE Written(rest, Store, files[video.id])
          /\ video' = [video EXCEPT !.id = Store, !.error = FramesOf(video.id) = <<>>]
  /\ UNCHANGED <<command, response>>

\* perform_single_frame_operations; a video without frames leaves the index at the start
FrameOperations ==
  /\ perform.at = "frames"
  /\ LET frames == FramesOf(perform.id)
         ops == LocalOps(video.ops)
         count == IF frames = <<>> THEN 1 ELSE perform.count + Len(Stage(ops, perform.count))
     IN  /\ files' = IF frames = <<>> THEN files ELSE Written(files, Fresh, Copied(frames, ops, perform.count))
         /\ perform' = [perform EXCEPT !.count = count, !.fname = Fresh,
                                       !.at = IF count <= Len(ops) THEN "whole" ELSE "end"]
  /\ UNCHANGED <<video, command, response>>

\* there is too little memory for the video, or a crop outside the first frame throws when
\* the file was just begun
FrameOperationsFail ==
  /\ perform.at = "frames"
  /\ LET ops == Stage(LocalOps(video.ops), perform.count)
         crops == FramesOf(perform.id) # <<>> /\ \E i \in DOMAIN ops : ops[i].type = "resize"
     IN  files' \in {files} \cup (IF crops THEN {Written(files, Fresh, <<>>)} ELSE {})
  /\ video' = [video EXCEPT !.error = TRUE]
  /\ perform' = [perform EXCEPT !.at = "respond"]
  /\ UNCHANGED <<command, response>>

CurrentOp == LocalOps(video.ops)[perform.count]

\* the loop goes on after any operation, with the file it was meant to write
AfterWhole ==
  [perform EXCEPT !.count = @ + 1, !.id = perform.fname,
                  !.at = IF perform.count < Len(LocalOps(video.ops)) THEN "frames" ELSE "end"]

\* the interval has to be in the video, and the memory sufficient
IntervalOperation == \E sufficient \in BOOLEAN :
  /\ perform.at = "whole" /\ CurrentOp.type = "interval"
  /\ IF ~sufficient \/ OutOfBounds(FramesOf(perform.id), CurrentOp)
     THEN video' = [video EXCEPT !.error = TRUE] /\ UNCHANGED files
     ELSE /\ files' = Written(files, perform.fname, Sampled(files[perform.fname], CurrentOp))
          /\ UNCHANGED video
  /\ perform' = AfterWhole
  /\ UNCHANGED <<command, response>>

\* an answer, an error, or an answer without the video that should replace the one just removed
SyncRemoteOperation == \E outcome \in {"video", "error", "none"} :
  /\ perform.at = "whole" /\ CurrentOp.type = "syncremote"
  /\ LET works == outcome = "video" /\ FramesOf(perform.id) # <<>> IN
     /\ files' = IF works THEN Written(files, perform.fname, Served(files[perform.fname], CurrentOp))
                 ELSE IF outcome = "none" THEN Unlinked(files, perform.fname) ELSE files
     /\ video' = [video EXCEPT !.error = @ \/ ~works]
  /\ perform' = AfterWhole
  /\ UNCHANGED <<command, response>>

\* reached from the start of the list when a video turned out to have no frames
FrameOperationOnNothing ==
  /\ perform.at = "whole" /\ ~WholeVideo(CurrentOp)
  /\ IF CurrentOp.type = "resize"   \* cv::resize throws
     THEN /\ video' = [video EXCEPT !.error = TRUE]
          /\ perform' = [perform EXCEPT !.at = "respond"]
     ELSE perform' = AfterWhole /\ UNCHANGED video
  /\ UNCHANGED <<files, command, response>>

\* the last file replaces the destination when it is stored, and is the operated one otherwise
EndPerform ==
  /\ perform.at = "end"
  /\ IF Adding
     THEN LET rest == Unlinked(files, Upload)
              target == IF video.noBlob THEN video.id ELSE Store
              exists == perform.fname \in DOMAIN files
          IN  /\ files' = IF exists THEN Renamed(rest, perform.fname, target) ELSE rest
              /\ video' = [video EXCEPT !.ops = <<>>, !.error = @ \/ ~exists]
              /\ perform' = [perform EXCEPT !.at = "respond"]
     ELSE /\ video' = [video EXCEPT !.ops = RemainingOps(@), !.operated = perform.fname]
          /\ perform' = Executing(video')
          /\ UNCHANGED files
  /\ UNCHANGED <<command, response>>

-----------------------------------------------------------------------------
(***************************************************************************)
(* Commands                                                                *)
(***************************************************************************)
\* remote operations of an AddVideo are synchronous
AddedOps(ops) ==
  [i \in DOMAIN ops |-> IF ops[i].type = "remote" THEN Simple("syncremote") ELSE ops[i]]

\* AddVideo, up to store: of a blob, of a local file, or of a file that is only referred to
AddVideo == command.name = "none" /\ \E n \in Lengths, ops \in OpLists, where \in {"blob", "local", "path"} :
  LET id == IF where = "blob" THEN Upload ELSE UserFile IN
  /\ command' = [name |-> "AddVideo", frames |-> Original(n), ops |-> AddedOps(ops)]
  /\ files' = Written(files, id, Original(n))
  /\ video' = [NoVideo EXCEPT !.id = id, !.noBlob = where = "path", !.ops = AddedOps(ops)]
  /\ perform' = IF ops = <<>> THEN [NotPerforming EXCEPT !.at = "store"] ELSE Executing(video')
  /\ UNCHANGED response

\* FindVideo with operations, or with a container or codec only
FindVideo == command.name = "none" /\ \E n \in Lengths \ {0}, ops \in OpLists :
  /\ command' = [name |-> "FindVideo", frames |-> Original(n), ops |-> ops]
  /\ files' = Written(files, Store, Original(n))
  /\ video' = [NoVideo EXCEPT !.id = Store, !.ops = ops]
  /\ perform' = Executing(video')
  /\ UNCHANGED response

\* RemoteOperation: without local ones before it, what is sent is the stored video
RemoteOperation ==
  /\ perform.at = "remote"
  /\ video' = [video EXCEPT !.operated = IF @ = 0 THEN video.id ELSE @, !.ops = Tail(@)]
  /\ perform' = [perform EXCEPT !.at = "sent"]
  /\ UNCHANGED <<files, command, response>>

RemoteFailed_unset(v) == v  \* bug: the error of the remote server is not set on the video
RemoteFailed(v) == [v EXCEPT !.error = TRUE]

\* the remote server's answer becomes the operated file
RemoteResponse == \E good \in BOOLEAN :
  /\ perform.at = "sent"
  /\ IF good /\ video.operated \in DOMAIN files
     THEN /\ files' = Written(files, Fresh, Served(files[video.operated], Simple("remote")))
          /\ video' = [video EXCEPT !.operated = Fresh]
     ELSE video' = RemoteFailed(video) /\ UNCHANGED files
  /\ perform' = Executing(video')
  /\ UNCHANGED <<command, response>>

\* get_encoded: the operated file is read and removed; without one the size of the answer is -1
GetEncoded ==
  /\ perform.at = "encode"
  /\ response' = IF video.operated \in DOMAIN files
                 THEN [status |-> "success", frames |-> files[video.operated]]
                 ELSE [NotAnswered EXCEPT !.status = "error"]
  /\ files' = Unlinked(files, video.operated)
  /\ perform' = NotPerforming
  /\ UNCHANGED <<video, command>>

\* AddVideo after store, or a FindVideo that reports the error
RespondVideo ==
  /\ perform.at = "respond"
  /\ response' = [NotAnswered EXCEPT !.status = IF video.error THEN "error" ELSE "success"]
  /\ perform' = NotPerforming
  /\ UNCHANGED <<files, video, command>>

\* the frames of an interval, counted from 0; get_frame reads the stored video
FindFrames == \E n \in Lengths \ {0}, op \in OperationType :
  /\ command.name = "none" /\ op.type = "interval"
  /\ command' = [name |-> "FindFrames", frames |-> Original(n), ops |-> <<op>>]
  /\ files' = Written(files, Store, Original(n))
  /\ video' = [NoVideo EXCEPT !.id = Store, !.operated = IF op.start < op.stop THEN Store ELSE 0]
  /\ response' = LET asked == InOrder({i \in op.start..op.stop - 1 : (i - op.start) % op.step = 0})
                 IN  IF \E i \in DOMAIN asked : asked[i] >= n
                     THEN [NotAnswered EXCEPT !.status = "error"]
                     ELSE [status |-> "success", frames |-> [i \in DOMAIN asked |-> Original(n)[asked[i] + 1]]]
  /\ UNCHANGED perform

VideoNext ==
  \/ AddVideo \/ FindVideo \/ FindFrames
  \/ StorePlain \/ FrameOperations \/ FrameOperationsFail
  \/ IntervalOperation \/ SyncRemoteOperation \/ FrameOperationOnNothing \/ EndPerform
  \/ RemoteOperation \/ RemoteResponse \/ GetEncoded \/ RespondVideo

VideoSpec == VideoInit /\ [][VideoNext]_videoVars

-----------------------------------------------------------------------------
\* an interval as Video.h:376-378 describes it, but that the first frame has the number 1
\* (Video.cc:941) and not 0: the frames before start are dropped, those from stop on, and
\* step - 1 after each one taken
Reduced(frames, op) ==
  LET first == IF op.start < 1 THEN 1 ELSE op.start
      last == IF op.stop - 1 < Len(frames) THEN op.stop - 1 ELSE Len(frames)
      rest == SubSeq(frames, first, last)
  IN  [i \in 1..(Len(rest) + op.step - 1) \div op.step |-> Does(rest[(i - 1) * op.step + 1], op)]

\* one operation after the other on the whole video
OneByOne(frames, ops) ==
  FoldLeft(LAMBDA fs, op : IF op.type = "interval" THEN Reduced(fs, op)
                          ELSE [i \in DOMAIN fs |-> Does(fs[i], op)], frames, ops)

\* what a command that succeeded stored or returned
Result ==
  IF ~Adding THEN response.frames ELSE FramesOf(IF video.noBlob THEN video.id ELSE Store)

\* A video that is stored or returned without an error has had every operation of the command
\* applied once and in order to every frame, however they were divided into stages and files
\* and whatever failed (Video.cc, perform_operations).  Intervals count frames from 1, as the
\* code does; the documentation counts from 0, and each frame kept is then the one before.
VideoOpsInOrder ==
  response.status = "success" /\ command.name # "FindFrames" =>
    OneByOne(command.frames, command.ops) = Result

\* Whatever fails, returning a video or its frames neither removes nor changes the file in the
\* data store, and adding a copy of a local file leaves that file (Video.cc, get_encoded).
SourceKept ==
  /\ command.name \in {"FindVideo", "FindFrames"} => FramesOf(Store) = command.frames
  /\ UserFile \in DOMAIN files /\ ~video.noBlob => files[UserFile] = command.frames
  /\ Adding /\ UserFile \notin DOMAIN files => video.id # UserFile
=============================================================================
