----------------------------- MODULE ImageLoop -----------------------------
(***************************************************************************)
(* Images with operations: VCL::Image, which queues the operations and     *)
(* applies them when it is stored or encoded; AddImage, which stores one;  *)
(* and FindImage, which hands copies of the images it found to the two     *)
(* threads of an ImageLoop.  The content of an image is the sequence of    *)
(* what was applied to the original, <<>> for an empty cv::Mat.            *)
(***************************************************************************)
EXTENDS Integers, SequencesExt

CONSTANTS
  NImages,   \* images of the query
  MaxOps     \* bound: operations of a command

ASSUME ImageAssumption == NImages \in Nat \ {0} /\ MaxOps \in Nat

VARIABLES
  storage,        \* "local" or "aws"
  file,           \* what is stored under the path of each image
  added,          \* the operations AddImage was given for each
  findOps,        \* the operations of FindImage
  handler,        \* where FindImage is
  sentImages,     \* how many images it enqueued
  mQueue, mBatch, mFlag,   \* m_writeBuffer; the local thread's readBuffer and flag
  rQueue, rBatch, rAt,     \* r_writeBuffer; the remote thread's readBuffer and where it is
  pending,        \* pendingImages
  remoteBusy,     \* _remote_running
  running,        \* m_running and r_running, set and cleared together
  imageMap        \* the image behind each id, or NoImage

handlerVars == <<handler, sentImages>>
localVars == <<mQueue, mBatch, mFlag>>
remoteVars == <<rQueue, rBatch, rAt, pending, remoteBusy>>
imageVars == <<storage, file, added, findOps, handlerVars, localVars, remoteVars,
               running, imageMap>>

ImageIds == 1..NImages
NoImage == <<>>

(***************************************************************************)
(* VCL::Image.  An operation stands for a call with its outcome: "far" is  *)
(* a crop that is not within the image and, like every operation on an     *)
(* empty image, throws, which the operation itself catches; "undecodable"  *)
(* is a synchronous remote operation with a useless answer, "unremoved" a  *)
(* user operation that fails late.                                         *)
(***************************************************************************)
ImageOps == {"crop", "far", "remote", "undecodable", "user", "unremoved"}

Image(i) == [id |-> i, cv |-> <<>>, ops |-> <<"read">>, done |-> 0, error |-> FALSE]
FromBuffer(i) == [Image(i) EXCEPT !.cv = <<i>>, !.ops = <<>>]

Enqueued(img, ops) == [img EXCEPT !.ops = @ \o ops]

LocalFile(i) == IF storage = "local" THEN file[i] ELSE <<>>

\* the copy constructor reads the file at once, from the local disk
Copy(img) ==
  IF img.ops # <<>> /\ Head(img.ops) = "read"
  THEN [img EXCEPT !.ops = Tail(@), !.cv = LocalFile(img.id), !.error = FALSE]
  ELSE [img EXCEPT !.error = FALSE]

\* Resize, Crop, Threshold, Flip and Rotate
Transformed(img, op) == [img EXCEPT !.cv = Append(@, op), !.done = @ + 1]

\* SyncRemoteOperation: the answer of the service replaces the image, also when it cannot
\* be decoded
SyncRemote(img, op) ==
  [img EXCEPT !.cv = IF op = "undecodable" THEN <<>> ELSE Append(@, op), !.done = @ + 1]

\* UserOperation: it fails after the image has been replaced when a file is not there to be
\* removed
UserOp(img, op) ==
  IF op = "unremoved" THEN [img EXCEPT !.cv = Append(@, op), !.error = TRUE]
  ELSE Transformed(img, op)

Apply(img, op) ==
  CASE op = "read" -> [img EXCEPT !.cv = file[img.id]]
    [] op # "read" /\ (img.cv = <<>> \/ op = "far") -> [img EXCEPT !.error = TRUE]
    [] op = "crop" /\ img.cv # <<>> -> Transformed(img, op)
    [] op = "undecodable" /\ img.cv # <<>> -> SyncRemote(img, op)
    [] op \in {"user", "unremoved"} /\ img.cv # <<>> -> UserOp(img, op)
    [] op = "remote" /\ img.cv # <<>> -> img

\* perform_operations, which does not look at the errors; here remote operations run at once
Performed(img) ==
  [FoldLeft(LAMBDA m, op : Apply(m, IF op = "remote" THEN "crop" ELSE op), img, img.ops)
     EXCEPT !.ops = <<>>]

\* execute_operation until one is remote or fails, which a remote one does without an image
Executed(img) ==
  LET next(m, op) == IF m.error \/ (m.ops[m.done + 1] = "remote" /\ m.cv # <<>>) THEN m
                     ELSE Apply(m, op)
  IN  FoldLeft(next, img, SubSeq(img.ops, img.done + 1, Len(img.ops)))

AtRemote(img) == ~img.error /\ img.done < Len(img.ops)

(***************************************************************************)
(* AddImage and FindImage.                                                 *)
(***************************************************************************)
ImageInit ==
  /\ storage \in {"local", "aws"}
  /\ file = [i \in ImageIds |-> <<>>]
  /\ added = [i \in ImageIds |-> <<>>]
  /\ findOps \in BoundedSeq(ImageOps, MaxOps) \ {<<>>}
  /\ handler = "adding" /\ sentImages = 0
  /\ mQueue = <<>> /\ mBatch = <<>> /\ mFlag = FALSE
  /\ rQueue = <<>> /\ rBatch = <<>> /\ rAt = "wait" /\ pending = <<>>
  /\ remoteBusy = FALSE
  /\ running = TRUE
  /\ imageMap = [i \in ImageIds |-> NoImage]

\* save_image stores the bytes as they came when there is nothing to do
AddImage == \E i \in ImageIds, ops \in {<<>>, <<"far", "crop">>, <<"unremoved", "user">>} :
  /\ handler = "adding" /\ file[i] = <<>>
  /\ i > 1 => file[i - 1] # <<>>
  /\ file' = [file EXCEPT ![i] = Performed(Enqueued(FromBuffer(i), ops)).cv]
  /\ added' = [added EXCEPT ![i] = ops]
  /\ handler' = IF i = NImages THEN "sending" ELSE handler
  /\ UNCHANGED <<storage, findOps, sentImages, localVars, remoteVars, running, imageMap>>

SendImage ==
  /\ handler = "sending" /\ sentImages < NImages
  /\ sentImages' = sentImages + 1
  /\ mQueue' = Append(mQueue, Copy(Enqueued(Image(sentImages + 1), findOps)))
  /\ handler' = IF sentImages' = NImages THEN "spinning" ELSE handler
  /\ UNCHANGED <<storage, file, added, findOps, mBatch, mFlag, remoteVars, running, imageMap>>

\* the loop has stopped: the images are encoded and the loop is destroyed
Collect ==
  /\ handler = "spinning" /\ ~running
  /\ handler' = "answered"
  /\ UNCHANGED <<storage, file, added, findOps, sentImages, localVars, remoteVars, running,
                 imageMap>>

(***************************************************************************)
(* operationThread.                                                        *)
(***************************************************************************)
LocalTake ==
  /\ running /\ mBatch = <<>> /\ mQueue # <<>>
  /\ mBatch' = mQueue /\ mQueue' = <<>>
  /\ mFlag' = FALSE
  /\ UNCHANGED <<storage, file, added, findOps, handlerVars, remoteVars, running, imageMap>>

Stops_notRemote(flag, busy, mq, rq) ==  \* bug: whether the remote thread is at work is not asked
  ~flag /\ mq = <<>> /\ rq = <<>>

Stops(flag, busy, mq, rq) == ~flag /\ ~busy /\ mq = <<>> /\ rq = <<>>

\* one image of the batch, and after the last one the test whether to stop
LocalWork ==
  /\ mBatch # <<>>
  /\ LET img == Head(mBatch)
         res == Executed(img)
         worked == img.done < Len(img.ops)
         failed == worked /\ res.error
         remote == worked /\ AtRemote(res)
         last == Len(mBatch) = 1
         rq == IF failed THEN <<>> ELSE IF remote THEN Append(rQueue, Copy(res)) ELSE rQueue
         mq == IF failed THEN <<>> ELSE mQueue
         busy == remoteBusy /\ ~failed
         flag == ~failed /\ (mFlag \/ remote)
     IN  /\ mBatch' = Tail(mBatch)
         /\ mQueue' = mq /\ rQueue' = rq
         /\ remoteBusy' = busy
         /\ mFlag' = flag
         /\ running' = (running /\ ~failed /\ ~(last /\ Stops(flag, busy, mq, rq)))
         /\ imageMap' = IF worked /\ (res.done > img.done \/ res.error)
                        THEN [imageMap EXCEPT ![img.id] = res] ELSE imageMap
  /\ UNCHANGED <<storage, file, added, findOps, handlerVars, rBatch, rAt, pending>>

(***************************************************************************)
(* remoteOperationThread and execute_remote_operations.                    *)
(***************************************************************************)
RemoteTake ==
  /\ running /\ rAt = "wait" /\ Len(rQueue) = NImages
  /\ rBatch' = rQueue /\ rQueue' = <<>>
  /\ rAt' = "taken"
  /\ UNCHANGED <<storage, file, added, findOps, handlerVars, localVars, pending, remoteBusy,
                 running, imageMap>>

RemoteMark ==
  /\ rAt = "taken"
  /\ remoteBusy' = TRUE
  /\ rAt' = "post"
  /\ UNCHANGED <<storage, file, added, findOps, handlerVars, localVars, rQueue, rBatch,
                 pending, running, imageMap>>

\* the requests; an image that is empty cannot be written to a file, which ends the process
RemotePost ==
  /\ rAt = "post"
  /\ rAt' = IF \E n \in DOMAIN rBatch : rBatch[n].cv = <<>> THEN "crashed" ELSE "collect"
  /\ UNCHANGED <<storage, file, added, findOps, handlerVars, localVars, rQueue, rBatch,
                 pending, remoteBusy, running, imageMap>>

\* an answer with another status than 200
RemoteError ==
  /\ rAt = "post"
  /\ imageMap' = [imageMap EXCEPT ![rBatch[1].id] = [rBatch[1] EXCEPT !.error = TRUE]]
  /\ rBatch' = <<>> /\ mQueue' = <<>> /\ rQueue' = <<>>
  /\ remoteBusy' = FALSE /\ running' = FALSE
  /\ rAt' = "wait"
  /\ UNCHANGED <<storage, file, added, findOps, handlerVars, mBatch, mFlag, pending>>

RemoteImage_notCounted(img, good) ==  \* bug: the operation is not counted as completed
  [img EXCEPT !.cv = IF good THEN Append(@, "remote") ELSE <<>>]

\* the response replaces the image, also when it could not be decoded
RemoteImage(img, good) ==
  [img EXCEPT !.cv = IF good THEN Append(@, "remote") ELSE <<>>, !.done = @ + 1]

\* the answer for the first image of the batch, up to the test whether it was the last
RemoteCollect == \E good \in BOOLEAN :
  /\ rAt = "collect" /\ rBatch # <<>>
  /\ LET img == RemoteImage(Head(rBatch), good)
         wait == IF good THEN pending ELSE Append(pending, img)
     IN  /\ imageMap' = [imageMap EXCEPT ![img.id] = img]
         /\ pending' = wait
         /\ remoteBusy' = (remoteBusy /\ ~(Len(rBatch) = 1 /\ wait = <<>>))
         /\ rBatch' = <<img>> \o Tail(rBatch)
  /\ rAt' = "handing"
  /\ UNCHANGED <<storage, file, added, findOps, handlerVars, localVars, rQueue, running>>

\* and only then does it go back to the local thread
RemoteHand ==
  /\ rAt = "handing"
  /\ mQueue' = Append(mQueue, Copy(Head(rBatch)))
  /\ rBatch' = Tail(rBatch)
  /\ rAt' = "collect"
  /\ UNCHANGED <<storage, file, added, findOps, handlerVars, mBatch, mFlag, rQueue, pending,
                 remoteBusy, running, imageMap>>

\* an empty response is waited for for ever
RemoteHang ==
  /\ rAt = "collect" /\ rBatch # <<>>
  /\ rAt' = "hung"
  /\ UNCHANGED <<storage, file, added, findOps, handlerVars, localVars, rQueue, rBatch,
                 pending, remoteBusy, running, imageMap>>

\* the images that are pending are sent again
RemoteEnd ==
  /\ rAt = "collect" /\ rBatch = <<>>
  /\ rBatch' = pending /\ pending' = <<>>
  /\ rAt' = IF pending = <<>> THEN "wait" ELSE "post"
  /\ remoteBusy' = (remoteBusy /\ pending # <<>>)
  /\ UNCHANGED <<storage, file, added, findOps, handlerVars, localVars, rQueue, running,
                 imageMap>>

ImageNext ==
  /\ rAt # "crashed"
  /\ \/ AddImage \/ SendImage \/ Collect \/ LocalTake \/ LocalWork
     \/ RemoteTake \/ RemoteMark \/ RemotePost \/ RemoteError \/ RemoteCollect
     \/ RemoteHand \/ RemoteHang \/ RemoteEnd

ImageSpec == ImageInit /\ [][ImageNext]_imageVars

(***************************************************************************)
(* Properties.                                                             *)
(***************************************************************************)
InFlight == ToSet(mQueue) \cup ToSet(mBatch) \cup ToSet(rQueue) \cup ToSet(rBatch)
Mapped == {imageMap[i] : i \in {i \in ImageIds : imageMap[i] # NoImage}}

\* the operations of AddImage, those that failed left out
Succeeded(i, ops) ==
  FoldLeft(LAMBDA cv, op : IF op = "far" THEN cv ELSE Append(cv, op), <<i>>, ops)

\* However the threads pass the copies around, an image that is not empty and has no error is
\* what was stored with the operations counted as completed applied to it, each once and in
\* order; what AddImage stored is the image with its operations, those that failed left out.
OpsInOrder ==
  /\ \A img \in InFlight \cup Mapped :
       img.cv # <<>> /\ ~img.error => img.cv = file[img.id] \o SubSeq(findOps, 1, img.done)
  /\ \A i \in ImageIds :
       file[i] # <<>> => file[i] = Succeeded(i, added[i])

\* Until an operation or a remote call fails, every image that was enqueued is in one of the
\* queues, with a thread, or in the map with all its operations done; and when the loop has
\* stopped no thread has one left but the image that the remote thread is handing back: it
\* has said that it is done (line 346 of ImageLoop.cc), but the image is not in the queue yet
\* (349), so that the local thread's test (136) sees neither.
ImageNotLost ==
  (\A img \in Mapped : ~img.error) =>
    /\ \A i \in 1..sentImages :
         \/ \E img \in InFlight : img.id = i
         \/ imageMap[i] # NoImage /\ imageMap[i].done = Len(findOps)
    /\ ~running => /\ mBatch = <<>> /\ rQueue = <<>>
                   /\ rBatch = <<>> \/ (rAt = "handing" /\ Len(rBatch) = 1)
=============================================================================
