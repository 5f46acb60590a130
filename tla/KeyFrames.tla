------------------------------ MODULE KeyFrames ------------------------------
(***************************************************************************)
(* The H264 frames of a video, decoded one list at a time with the help of *)
(* its key frames (VCL::KeyFrameParser and VCL::KeyFrameDecoder).  What    *)
(* the demuxer and the codec keep between two lists decides which frame    *)
(* the next packet yields.                                                 *)
(***************************************************************************)
EXTENDS Lists

CONSTANTS
  NFrames,    \* frames of the stream
  Delay,      \* frames the codec holds back before it returns the first
  Micro,      \* ticks of a clock in a microsecond
  Durations,  \* the ticks that a frame of a stream may last
  MaxWanted   \* bound: length of a list of frames

ASSUME KeyAssumption ==
  /\ NFrames \in Nat /\ MaxWanted \in Nat \ {0}
  /\ Durations \subseteq Nat \ {0} /\ Micro \in Nat \ {0}

VARIABLES
  keyFrames,   \* the stream: indices of its key frames, fixed
  duration,    \* the stream: ticks of a frame in a container with timestamps (AVCC),
               \* 0 in a bare one (AnnexB), fixed
  intervals,   \* _interval_map: start and end of each, <<>> before set_key_frames
  packet,      \* the next packet av_read_frame returns
  held,        \* frames in the codec, in order
  lastConsumed,   \* _last_consumed_frame
  wanted,      \* the list of the last call to decode
  call,        \* that call: where it is, the interval, _frame_list, idx, frame_idx,
               \* and whether it never read on after a refused packet
  lost         \* a packet was refused since the last seek

keyVars == <<keyFrames, duration, intervals, packet, held, lastConsumed, wanted, call, lost>>

MaxUnsigned == NFrames + MaxWanted   \* above any index that is asked for

NotCalled == [at |-> "return", code |-> "none", n |-> 0, frames |-> <<>>, idx |-> 0,
              got |-> 0, sound |-> TRUE]

Streams == {ks \in SUBSET (0..NFrames - 1) : 0 \in ks}

KeyInit ==
  /\ keyFrames \in Streams /\ duration \in Durations \cup {0}
  /\ intervals = <<>>
  /\ packet = 0 /\ held = <<>> /\ lastConsumed = -1
  /\ wanted = <<>> /\ call = NotCalled /\ lost = FALSE

Returned == call.at = "return"

(***************************************************************************)
(* The key frames are set once: by get_key_frame_list, with those a parser *)
(* of its own counted from the start of the file, or with some of them.    *)
(***************************************************************************)
FrameList == InOrder(keyFrames)

Bounds(ks) ==
  [i \in DOMAIN ks |->
     [start |-> ks[i], end |-> IF i = Len(ks) THEN MaxUnsigned ELSE ks[i + 1]]]

SetKeyFrames == Returned /\ \E given \in SUBSET keyFrames :
  /\ given \in {keyFrames, {0}, keyFrames \ {0}}
  /\ LET ks == InOrder(given)
         valid == given # {} /\ intervals = <<>> /\ Head(ks) = 0
     IN  /\ intervals' = IF valid THEN Bounds(ks) ELSE intervals
         /\ call' = [NotCalled EXCEPT !.code = IF valid THEN "none" ELSE "throws"]
  /\ wanted' = <<>>
  /\ UNCHANGED <<keyFrames, duration, packet, held, lastConsumed, lost>>

GetKeyFrameList ==
  /\ Returned
  /\ intervals' = IF intervals = <<>> THEN Bounds(FrameList) ELSE intervals
  /\ call' = [NotCalled EXCEPT !.code = IF intervals = <<>> THEN "none" ELSE "throws"]
  /\ wanted' = <<>>
  /\ UNCHANGED <<keyFrames, duration, packet, held, lastConsumed, lost>>

(***************************************************************************)
(* decode: the list is cut at the ends of the intervals, from the front    *)
(* for as long as it is below them, and decode_interval runs over each     *)
(* part that is not empty.                                                 *)
(***************************************************************************)
\* how much of the list is below the end of the first n intervals
Cut(list, n) ==
  LET below(i) == \A j \in 1..i : list[j] < intervals[n].end
  IN  IF n = 0 THEN 0 ELSE Cardinality({i \in DOMAIN list : below(i)})

Part(n) == SubSeq(wanted, Cut(wanted, n - 1) + 1, Cut(wanted, n))

Decode == Returned /\ \E list \in BoundedSeq(0..NFrames, MaxWanted) :
  /\ wanted' = list
  /\ call' = IF list = <<>> \/ intervals = <<>> THEN [NotCalled EXCEPT !.code = "throws"]
             ELSE [NotCalled EXCEPT !.at = "interval", !.n = 1]
  /\ UNCHANGED <<keyFrames, duration, intervals, packet, held, lastConsumed, lost>>

\* what is asked for lies ahead of the codec, in the interval it is in
Continues_anywhere(first, start) == lastConsumed >= start  \* bug: nor is it compared with the frame
Continues(first, start) == first > lastConsumed /\ lastConsumed >= start

\* _time_base: the duration in whole microseconds
TimeBase == (duration \div Micro) * Micro

\* A seek finds the last key frame up to a time, or one by its offset in a bare stream.  The
\* time is as many times the time base as there are frames up to the one after the key frame.
\* (libav rounds it to the ticks of the container.)
Target(start) == (start + 1) * TimeBase
Sought(start) ==
  IF duration = 0 THEN start
  ELSE CHOOSE k \in keyFrames : k * duration <= Target(start)
         /\ \A j \in keyFrames : j * duration <= Target(start) => j <= k

NextInterval ==
  /\ call.at = "interval"
  /\ IF call.n > Len(intervals)
     THEN /\ call' = [call EXCEPT !.at = "encode"]
          /\ UNCHANGED <<packet, held, lost>>
     ELSE IF Part(call.n) = <<>>
     THEN /\ call' = [call EXCEPT !.n = @ + 1]
          /\ UNCHANGED <<packet, held, lost>>
     ELSE LET start == intervals[call.n].start IN
          IF Continues(Head(Part(call.n)), start)
          THEN /\ call' = [call EXCEPT !.at = "packet", !.got = 0, !.idx = lastConsumed + 1,
                                    !.sound = @ /\ ~lost]
               /\ UNCHANGED <<packet, held, lost>>
          ELSE /\ call' = [call EXCEPT !.at = "packet", !.got = 0, !.idx = start]
               /\ packet' = Sought(start) /\ held' = <<>> /\ lost' = FALSE
  /\ UNCHANGED <<keyFrames, duration, intervals, lastConsumed, wanted>>

(***************************************************************************)
(* One round of decode_interval: a packet is read and sent, or nothing at  *)
(* the end of the stream, and at most one frame received, which counts as  *)
(* frame idx.                                                              *)
(***************************************************************************)
SendPacket ==
  /\ call.at = "packet"
  /\ LET eof == packet = NFrames
         sent == IF eof THEN held ELSE Append(held, packet)
         receives == sent # <<>> /\ (eof \/ Len(sent) > Delay)
         hit == receives /\ call.idx = Part(call.n)[call.got + 1]
         now == [call EXCEPT !.frames = IF hit THEN Append(@, Head(sent)) ELSE @,
                             !.got = IF hit THEN @ + 1 ELSE @,
                             !.idx = IF receives THEN @ + 1 ELSE @]
     IN  /\ packet' = IF eof THEN packet ELSE packet + 1
         /\ held' = IF receives THEN Tail(sent) ELSE sent
         /\ lastConsumed' = IF receives THEN call.idx ELSE lastConsumed
         /\ call' = IF \/ now.got = Len(Part(call.n))
                       \/ eof /\ ~receives
                       \/ now.idx >= intervals[call.n].end
                    THEN [now EXCEPT !.at = "interval", !.n = @ + 1] ELSE now
  /\ UNCHANGED <<keyFrames, duration, intervals, wanted, lost>>

\* the filter or the codec refuses the packet: decode throws, the demuxer has moved on
RefusePacket ==
  /\ call.at = "packet" /\ packet < NFrames
  /\ packet' = packet + 1 /\ lost' = TRUE
  /\ call' = [NotCalled EXCEPT !.code = "throws"]
  /\ UNCHANGED <<keyFrames, duration, intervals, held, lastConsumed, wanted>>

\* encode_frames fails when there is nothing to encode
EncodeFrames ==
  /\ call.at = "encode"
  /\ call' = [call EXCEPT !.at = "return", !.code = IF call.frames = <<>> THEN "throws" ELSE "frames"]
  /\ UNCHANGED <<keyFrames, duration, intervals, packet, held, lastConsumed, wanted, lost>>

KeyNext ==
  \/ SetKeyFrames \/ GetKeyFrameList \/ Decode \/ NextInterval
  \/ SendPacket \/ RefusePacket \/ EncodeFrames

KeySpec == KeyInit /\ [][KeyNext]_keyVars

-----------------------------------------------------------------------------
\* two key frames are never neighbours
Spaced == \A k \in keyFrames : k + 1 \notin keyFrames

\* so early in the stream that what the time base lacks has not added up to a frame
Early == \A k \in keyFrames : k * duration <= (k + 1) * TimeBase

Seekable == duration # 0 => Spaced /\ Early

Ascending(list) == \A i \in 1..Len(list) - 1 : list[i] < list[i + 1]

\* the last call returned the frames it was asked for, and read on after no refused packet
Exact == call.code = "frames" /\ call.sound /\ Ascending(wanted) =>
  call.frames = Filtered(wanted, 0..NFrames - 1)

\* Whatever was decoded before, and wherever that left the demuxer and the codec, an ascending
\* list of frames of the stream yields these frames in this order, unless it reads on after
\* a packet was refused; in a container with timestamps, unless two key frames are neighbours
\* or the stream so long that the seek falls short (KeyFrame.cc, decode_interval).
KeyFramesExact == Seekable => Exact

\* However long the stream is, the time that is sought is slightly after the key frame
\* (KeyFrame.cc:300), so that the frames of its interval are found.
SeeksAfterKeyFrame == Spaced => Exact
=============================================================================
