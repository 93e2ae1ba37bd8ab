--------------------------- MODULE MCStreamBridge ---------------------------
(***************************************************************************)
(* StreamBridge for TLC.  Window, HighWater and MaxChunk are a handful of  *)
(* bytes, so that credit runs out and write() reports a full buffer after  *)
(* one or two events; a byte is its number.                                *)
(*                                                                         *)
(* The codec below the frames comes along with a JSON of three objects,    *)
(* and is compared with the frames of tests/protocol-vectors.json.         *)
(***************************************************************************)
EXTENDS StreamBridge, FrameCodec

\* A rewritten Host value is longer than the one it replaces.
Target == <<91, 92>>

\* {}, {"a":1} and {"b":2}, by what they are called here.
Texts == [none |-> <<123, 125>>,
          a    |-> <<123, 34, 97, 34, 58, 49, 125>>,
          b    |-> <<123, 34, 98, 34, 58, 50, 125>>]
SomeObjects == DOMAIN Texts
TextOf(o) == Texts[o]
ObjectIn(text) == IF \E o \in SomeObjects : Texts[o] = text
                  THEN CHOOSE o \in SomeObjects : Texts[o] = text
                  ELSE "no object"

ASSUME EncodeVectors ==
    /\ EncodeStreamData(1, <<104, 101, 108, 108, 111>>) =
           <<33, 0, 0, 0, 1, 104, 101, 108, 108, 111>>
    /\ EncodeStreamData(258, <<0, 255, 13, 10, 27>>) =
           <<33, 0, 0, 1, 2, 0, 255, 13, 10, 27>>
    /\ EncodeStreamOnly(34, 7) = <<34, 0, 0, 0, 7>>
    /\ EncodeStreamAck(1, 65536) = <<35, 0, 0, 0, 1, 0, 1, 0, 0>>

ASSUME DecodeVectors ==
    /\ DecodeFrame(<<3>>) = Control(3, "none")
    /\ DecodeFrame(<<2>> \o Texts.b) = Control(2, "b")
    /\ DecodeFrame(<<33, 0, 0, 0, 1, 0, 255>>) = Stream(33, 1, <<0, 255>>)
    /\ DecodeFrame(<<34, 0, 0, 0, 7>>) = Stream(34, 7, <<>>)
    /\ StreamFrameJson(DecodeFrame(<<32, 0, 0, 0, 9>> \o Texts.a).payload) = "a"
    /\ StreamFrameJson(<<91, 93>>) = "none"
    /\ \A bad \in {<<>>, <<33, 0, 0>>, <<2, 123, 34>>, <<2, 91, 93>>} :
           DecodeFrame(bad) = ProtocolError
=============================================================================
