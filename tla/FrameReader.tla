------------------------------- MODULE FrameReader -------------------------------
(***************************************************************************)
(* components/Platform/XiaoHumanPresenceSensor.cpp: how target data is     *)
(* read from the radar's byte stream.                                      *)
(*                                                                         *)
(* The radar sends report frames of 23 bytes.  Update() takes one byte     *)
(* from the receive buffer; if it has the value 0xF4, which begins a       *)
(* frame, it takes 22 more and checks them.  That is all there is of       *)
(* synchronisation: the stream may begin in the middle of a frame, bytes   *)
(* may be lost, and 0xF4 may also be the low byte of a distance.           *)
(*                                                                         *)
(* A byte is the frame it was sent in and its position there.  The values  *)
(* of header, head, tail and end of frame each occur at their positions    *)
(* only, as a sequence: no four bytes of target data spell 0xF4F3F2F1 or   *)
(* 0xF8F7F6F5, because the high bytes of the distances are small.          *)
(*                                                                         *)
(* The stream begins when the constructor, RadarSetup, returns.            *)
(***************************************************************************)
EXTENDS RadarSetup

CONSTANTS
  Frames,        \* records [id, alias]; alias: the position of a data byte 0xF4, or 0
  MaxBurst,      \* length of the longest loss
  BufferSize     \* of the receive buffer (2048 in Uart.cpp)

(* A loss of a whole frame would leave no trace in the positions. *)
ASSUME MaxBurstAssumption == MaxBurst \in 0 .. MIN_REPORT_FRAME_LENGTH - 1
ASSUME BufferSizeAssumption == BufferSize \in Nat /\ BufferSize >= MIN_REPORT_FRAME_LENGTH

Positions == 1 .. MIN_REPORT_FRAME_LENGTH

(* ReportedDataFrameStructure. *)
FrameHeader == 1 .. 4
HeadByte == 8
TargetData == 9 .. 17
TailByte == 18
EndOfFrame == 20 .. 23

VARIABLES
  rx,                  \* the receive buffer of the UART driver
  loss,                \* the one loss of the stream: "none" yet, "open" or "over"
  lost,                \* how many bytes were lost
  currentTargetData    \* the bytes last taken over, none before the first frame

readerVars == <<rx, loss, lost, currentTargetData>>
vars == <<setupVars, readerVars>>

SentBytes(frame, from, to) ==
  [i \in 1 .. to + 1 - from |-> [frame |-> frame, pos |-> from + i - 1]]

(* The data is not yet assigned. *)
Init ==
  /\ SetupInit
  /\ rx = <<>>
  /\ loss = "none"
  /\ lost = 0
  /\ currentTargetData = <<>>

(* A radar that reports is met anywhere in a frame. *)
StreamBegins ==
  /\ Return
  /\ IF ~configuring
       THEN \E frame \in Frames, from \in 1 .. MIN_REPORT_FRAME_LENGTH + 1 :
              rx' = SentBytes(frame, from, MIN_REPORT_FRAME_LENGTH)
       ELSE UNCHANGED rx
  /\ UNCHANGED <<loss, lost, currentTargetData>>

-------------------------------------------------------------------------------
(* The radar and the line.                                                  *)

(* A frame arrives without the bytes between its first `head' and its last  *)
(* `tail' ones.  One run of bytes is lost in all, within a frame or across  *)
(* the border of frames.                                                    *)
Receive(frame, head, tail) ==
  LET missing == MIN_REPORT_FRAME_LENGTH - head - tail
  IN  /\ Len(rx) + MIN_REPORT_FRAME_LENGTH <= BufferSize
      /\ lost + missing <= MaxBurst
      /\ loss = "open" => head = 0
      /\ loss = "over" => missing = 0
      /\ loss' = IF tail = 0 /\ missing > 0 THEN "open"
                 ELSE IF lost + missing > 0 THEN "over" ELSE loss
      /\ lost' = lost + missing
      /\ rx' = rx \o SentBytes(frame, 1, head)
                  \o SentBytes(frame, MIN_REPORT_FRAME_LENGTH + 1 - tail,
                                      MIN_REPORT_FRAME_LENGTH)
      /\ UNCHANGED currentTargetData

ReceiveSome ==
  \E frame \in Frames, head \in 0 .. MIN_REPORT_FRAME_LENGTH :
    \E tail \in 0 .. MIN_REPORT_FRAME_LENGTH - head :
      /\ head + tail = MIN_REPORT_FRAME_LENGTH => head = 0
      /\ Receive(frame, head, tail)

(* A whole frame in whose data 0xF4 does not occur. *)
ReceiveClean ==
  \E frame \in Frames :
    frame.alias = 0 /\ Receive(frame, 0, MIN_REPORT_FRAME_LENGTH)

-------------------------------------------------------------------------------
(* The driver. *)

(* The byte has the value of the first byte of ReportHeader. *)
BeginsFrame(byte) == byte.pos = 1 \/ byte.pos = byte.frame.alias

(* Faulty variant: only the header is compared. *)
CheckHeader(bytes) ==
  BeginsFrame(bytes[1]) /\ \A i \in FrameHeader \ {1} : bytes[i].pos = i

(* Faulty variant: head is looked for one byte late. *)
CheckWithHeadOffByOne(bytes) ==
  /\ BeginsFrame(bytes[1])
  /\ \A i \in (FrameHeader \ {1}) \cup {TailByte} \cup EndOfFrame : bytes[i].pos = i
  /\ bytes[HeadByte + 1].pos = HeadByte

(* Length and data type of the frame are not looked at. *)
CheckReportFrame(bytes) ==
  /\ BeginsFrame(bytes[1])
  /\ \A i \in (FrameHeader \ {1}) \cup {HeadByte, TailByte} \cup EndOfFrame :
       bytes[i].pos = i

TargetDataOf(bytes) == SubSeq(bytes, 9, 17)

(* Faulty variant: a whole frame's length is skipped on a wrong byte. *)
SkipFrame ==
  /\ Len(rx) >= MIN_REPORT_FRAME_LENGTH
  /\ ~BeginsFrame(rx[1])
  /\ rx' = SubSeq(rx, MIN_REPORT_FRAME_LENGTH + 1, Len(rx))
  /\ UNCHANGED <<loss, lost, currentTargetData>>

(* "WRONG FRAME": the byte is dropped. *)
SkipByte ==
  /\ rx # <<>>
  /\ ~BeginsFrame(rx[1])
  /\ rx' = Tail(rx)
  /\ UNCHANGED <<loss, lost, currentTargetData>>

(* A frame's length is taken, and what the check refuses is dropped whole. *)
ReadFrame ==
  /\ Len(rx) >= MIN_REPORT_FRAME_LENGTH
  /\ BeginsFrame(rx[1])
  /\ rx' = SubSeq(rx, MIN_REPORT_FRAME_LENGTH + 1, Len(rx))
  /\ currentTargetData' = IF CheckReportFrame(rx)
                            THEN TargetDataOf(rx)
                            ELSE currentTargetData
  /\ UNCHANGED <<loss, lost>>

AcceptFrame == ReadFrame /\ CheckReportFrame(rx)

(* The rest of the frame does not come in time; what came of it is dropped. *)
ReadTimesOut ==
  /\ rx # <<>>
  /\ Len(rx) < MIN_REPORT_FRAME_LENGTH
  /\ BeginsFrame(rx[1])
  /\ rx' = <<>>
  /\ UNCHANGED <<loss, lost, currentTargetData>>

Update == SkipByte \/ ReadFrame \/ ReadTimesOut

Reader == SetupDone /\ Update /\ UNCHANGED setupVars

Next ==
  \/ SetupStep /\ UNCHANGED readerVars
  \/ StreamBegins
  \/ SetupDone /\ ~configuring /\ ReceiveSome /\ UNCHANGED setupVars
  \/ Reader

Spec == Init /\ [][Next]_vars

(* The dispatcher calls Update() for ever.  Nothing has to arrive. *)
FairSpec == Spec /\ WF_vars(Reader)

-------------------------------------------------------------------------------
(* Properties. *)

TypeOK ==
  /\ setup.ticks \in 0 .. 10 /\ setup.pc \in {"write", "read", "return", "done"}
  /\ heard \cup answered \cup acknowledged \subseteq {"enable", "disable"}
  /\ rx \in Seq([frame : Frames, pos : Positions])
  /\ Len(rx) <= BufferSize
  /\ loss \in {"none", "open", "over"}
  /\ lost \in 0 .. MaxBurst
  /\ currentTargetData \in Seq([frame : Frames, pos : TargetData])

(* Target data never mixes two frames: a loss shorter than a frame is       *)
(* noticed by the check, wherever in the stream it falls and whatever the   *)
(* reader takes for the beginning of a frame.                               *)
DataFromOneFrame ==
  /\ TypeOK
  /\ \A i, j \in DOMAIN currentTargetData :
       currentTargetData[i].frame = currentTargetData[j].frame

StandsAtIntact(frame) ==
  /\ Len(rx) >= MIN_REPORT_FRAME_LENGTH
  /\ SubSeq(rx, 1, MIN_REPORT_FRAME_LENGTH) =
       SentBytes(frame, 1, MIN_REPORT_FRAME_LENGTH)

(* A reader that stands at the first byte of an intact frame takes over its *)
(* data, whatever was before.                                               *)
IntactFrameAccepted ==
  [][ \A frame \in Frames :
        StandsAtIntact(frame) /\ Len(rx') < Len(rx)
          => currentTargetData' = SentBytes(frame, 9, 17) ]_vars

(* The reader finds its way back into the stream and goes on accepting      *)
(* frames, from a start inside a frame and after a loss, as long as frames  *)
(* without 0xF4 in their data keep coming.  A data byte 0xF4 that stands    *)
(* still in every frame may hold it out of step for ever.                   *)
Resynchronises ==
  []<><<ReceiveClean>>_vars => []<><<AcceptFrame>>_vars
===============================================================================
