----------------------------- MODULE FrameCodec -----------------------------
(***************************************************************************)
(* Wire frames as bytes: the encoders and the decoder of protocol.ts (the  *)
(* server's, the Node agent's and, in Python, protocol.py do the same).    *)
(* StreamFrames abstracts from all of this.  JSON is a parameter: only     *)
(* whether a text is an object, and that what was written is read back,    *)
(* matter here.                                                            *)
(***************************************************************************)
EXTENDS Integers, Sequences

CONSTANTS Objects,      \* JSON objects
          EmptyObject,  \* {}
          Stringify(_), \* JSON.stringify, in UTF-8
          ParseJson(_)  \* JSON.parse; no member of Objects for a text that is
                        \* malformed, or an array, or null

Byte == {n \in Nat : n < 256}
Pow16 == 65536
Pow24 == 16777216
U32 == {n \in Nat : n < 256 * Pow24}

ASSUME JsonAssumption ==
    /\ EmptyObject \in Objects
    /\ \A o \in Objects : /\ Stringify(o) \in Seq(Byte) \ {<<>>}
                          /\ ParseJson(Stringify(o)) = o

\* FrameType: 1..3 and 16..18 carry an object, those from the floor on a stream.
StreamFrameFloor == 32
StreamData == 33
StreamAck == 35

WriteU32(n) ==
    <<n \div Pow24, (n \div Pow16) % 256, (n \div 256) % 256, n % 256>>

\* The four bytes from b[i] on.
ReadU32(b, i) == b[i] * Pow24 + b[i + 1] * Pow16 + b[i + 2] * 256 + b[i + 3]

-----------------------------------------------------------------------------
EncodeControl(type, body) == <<type>> \o Stringify(body)

EncodeStream(type, streamId, payload) == <<type>> \o WriteU32(streamId) \o payload

EncodeStreamJson(type, streamId, body) ==
    EncodeStream(type, streamId, Stringify(body))
EncodeStreamData(streamId, payload) == EncodeStream(StreamData, streamId, payload)
EncodeStreamOnly(type, streamId) == EncodeStream(type, streamId, <<>>)
EncodeStreamAck(streamId, n) == EncodeStream(StreamAck, streamId, WriteU32(n))

ProtocolError == [kind |-> "refused"]
Control(type, body) == [kind |-> "control", type |-> type, body |-> body]
Stream(type, streamId, payload) ==
    [kind |-> "stream", type |-> type, streamId |-> streamId, payload |-> payload]

ControlBody(text) == IF text = <<>> THEN EmptyObject ELSE ParseJson(text)

DecodeFrame(buf) ==
    IF buf = <<>> THEN ProtocolError
    ELSE IF buf[1] < StreamFrameFloor
    THEN IF ControlBody(Tail(buf)) \in Objects
         THEN Control(buf[1], ControlBody(Tail(buf)))
         ELSE ProtocolError
    ELSE IF Len(buf) < 5 THEN ProtocolError
    ELSE Stream(buf[1], ReadU32(buf, 2), SubSeq(buf, 6, Len(buf)))

\* STREAM_OPEN and STREAM_RESET: a tail that is no object is as good as none.
StreamFrameJson(payload) ==
    IF payload # <<>> /\ ParseJson(payload) \in Objects THEN ParseJson(payload)
                                                        ELSE EmptyObject

\* handleFrame: a STREAM_ACK that is too short grants nothing.
Granted(payload) == IF Len(payload) >= 4 THEN ReadU32(payload, 1) ELSE 0
=============================================================================
