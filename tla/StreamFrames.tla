---------------------------- MODULE StreamFrames ----------------------------
(***************************************************************************)
(* The stream frames of one stream id, as the encoders of                  *)
(* server/src/protocol.ts build them and as both ends switch on them.  A   *)
(* frame is a record; the stream id, the JSON of STREAM_OPEN and the code  *)
(* of a STREAM_RESET are abstracted, nothing here depends on them.         *)
(***************************************************************************)
EXTENDS Naturals, Sequences

OpenFrame == [type |-> "OPEN"]
DataFrame(bytes) == [type |-> "DATA", data |-> bytes]
EofFrame == [type |-> "EOF"]
AckFrame(n) == [type |-> "ACK", n |-> n]
ResetFrame == [type |-> "RESET"]

Frame(Bytes, MaxAck) ==
    [type : {"OPEN", "EOF", "RESET"}]
      \cup [type : {"DATA"}, data : Seq(Bytes)]
      \cup [type : {"ACK"}, n : 1..MaxAck]

-----------------------------------------------------------------------------
\* What a channel, a sequence of frames, carries.

TypesIn(channel) == {channel[i].type : i \in DOMAIN channel}

SumOf(counts) ==
    LET upTo[i \in 0..Len(counts)] == IF i = 0 THEN 0 ELSE upTo[i - 1] + counts[i]
    IN  upTo[Len(counts)]

DataOf(f) == IF f.type = "DATA" THEN Len(f.data) ELSE 0
AckOf(f) == IF f.type = "ACK" THEN f.n ELSE 0
DataIn(channel) == SumOf([i \in DOMAIN channel |-> DataOf(channel[i])])
AcksIn(channel) == SumOf([i \in DOMAIN channel |-> AckOf(channel[i])])
=============================================================================
