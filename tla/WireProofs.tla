----------------------------- MODULE WireProofs -----------------------------
(***************************************************************************)
(* What the wire contract (docs/PROTOCOL.md) gives to both ends of a       *)
(* stream: frames that are read as they were written, and the credit that  *)
(* their counts pass on.                                                   *)
(*                                                                         *)
(* The decoder inverts each encoder, for every id, count and payload.  So  *)
(* frames that differ differ on the wire as well, and an end switches on   *)
(* the frame the other end built, which is what StreamFrames takes for     *)
(* granted.                                                                *)
(*                                                                         *)
(* Bounded says nothing of how the bytes of a window got where they are,   *)
(* so it is not inductive.  It follows from Conserved and Overshoot: what  *)
(* is not credit is somewhere between the two ends, and the credit is      *)
(* never lower than a chunk below zero.  The strengthening only adds that  *)
(* an abandoned window is empty.                                           *)
(***************************************************************************)
EXTENDS FrameCodec, CreditWindow, TLAPS

-----------------------------------------------------------------------------
\* The frames (FrameCodec).

\* Four bytes hold every stream id and every grant.
LEMMA U32Bytes ==
  ASSUME NEW n \in U32
  PROVE  /\ WriteU32(n) \in Seq(Byte)
         /\ Len(WriteU32(n)) = 4
         /\ ReadU32(WriteU32(n), 1) = n
<1> DEFINE q1 == n \div 256
           q2 == n \div Pow16
           q3 == n \div Pow24
<1>1. n \in Nat /\ n < 256 * 16777216 /\ Pow16 = 65536 /\ Pow24 = 16777216
  BY SMT DEF U32, Pow16, Pow24
<1>2. q1 \in Nat /\ n = 256 * q1 + (n % 256) /\ n % 256 \in Byte
  BY <1>1, SMT DEF Byte
<1>3. q2 \in Nat /\ 65536 * q2 <= n /\ n < 65536 * q2 + 65536
  BY <1>1, SMT
<1>4. q3 \in Nat /\ 16777216 * q3 <= n /\ n < 16777216 * q3 + 16777216
  BY <1>1, SMT
<1> HIDE DEF q1, q2, q3
<1>5. q1 = 256 * q2 + (q1 % 256) /\ q1 % 256 \in Byte
  BY <1>1, <1>2, <1>3, SMT DEF Byte
<1>6. q2 = 256 * q3 + (q2 % 256) /\ q2 % 256 \in Byte
  BY <1>1, <1>3, <1>4, SMT DEF Byte
<1>7. q3 \in Byte
  BY <1>1, <1>4, SMT DEF Byte
<1> DEFINE a == q3
           b == q2 % 256
           c == q1 % 256
           d == n % 256
<1>8. WriteU32(n) = <<a, b, c, d>>
  BY DEF WriteU32, q1, q2, q3
<1>9. /\ a \in Byte /\ b \in Byte /\ c \in Byte /\ d \in Byte
      /\ q2 = 256 * a + b /\ q1 = 256 * q2 + c /\ n = 256 * q1 + d
  BY <1>2, <1>5, <1>6, <1>7
<1> HIDE DEF a, b, c, d
<1>10. a \in Int /\ b \in Int /\ c \in Int /\ d \in Int
  BY <1>9, SMT DEF Byte
<1>11. n = a * 16777216 + b * 65536 + c * 256 + d
  BY <1>9, <1>10, SMT
<1>12. WriteU32(n) \in Seq(Byte) /\ Len(WriteU32(n)) = 4
  BY <1>8, <1>9
<1>13. ReadU32(WriteU32(n), 1) = n
  BY <1>1, <1>8, <1>10, <1>11, SMT DEF ReadU32
<1>14. QED
  BY <1>12, <1>13

\* Where the elements of a concatenation come from.
LEMMA ConcatParts ==
  \A s, t \in Seq(Byte) :
     /\ s \o t \in Seq(Byte)
     /\ Len(s \o t) = Len(s) + Len(t)
     /\ \A i \in 1..Len(s) : (s \o t)[i] = s[i]
     /\ \A i \in 1..Len(t) : (s \o t)[Len(s) + i] = t[i]
<1> SUFFICES ASSUME NEW s \in Seq(Byte), NEW t \in Seq(Byte)
    PROVE  /\ s \o t \in Seq(Byte)
           /\ Len(s \o t) = Len(s) + Len(t)
           /\ \A i \in 1..Len(s) : (s \o t)[i] = s[i]
           /\ \A i \in 1..Len(t) : (s \o t)[Len(s) + i] = t[i]
  OBVIOUS
<1>1. Len(s) \in Nat /\ Len(t) \in Nat
  OBVIOUS
<1>2. s \o t \in Seq(Byte) /\ Len(s \o t) = Len(s) + Len(t)
  OBVIOUS
<1>3. ASSUME NEW i \in 1..Len(s)
      PROVE  (s \o t)[i] = s[i]
  BY <1>1
<1>4. ASSUME NEW i \in 1..Len(t)
      PROVE  (s \o t)[Len(s) + i] = t[i]
  BY <1>1
<1>5. QED
  BY <1>2, <1>3, <1>4

\* Where the parts of a stream frame are.
LEMMA StreamLayout ==
  ASSUME NEW type \in Byte, NEW id \in U32, NEW payload \in Seq(Byte),
         NEW buf, buf = EncodeStream(type, id, payload)
  PROVE  /\ buf \in Seq(Byte)
         /\ Len(buf) = 5 + Len(payload)
         /\ buf[1] = type
         /\ ReadU32(buf, 2) = id
         /\ SubSeq(buf, 6, Len(buf)) = payload
<1> DEFINE w == WriteU32(id)
<1>1. w \in Seq(Byte) /\ Len(w) = 4 /\ ReadU32(w, 1) = id
  BY U32Bytes
<1>2. buf = <<type>> \o w \o payload
  BY DEF EncodeStream
<1> HIDE DEF w
<1>3. /\ buf \in Seq(Byte)
      /\ Len(buf) = 5 + Len(payload)
      /\ buf[1] = type
      /\ \A i \in 1..4 : buf[1 + i] = w[i]
      /\ \A i \in 1..Len(payload) : buf[5 + i] = payload[i]
  <2> DEFINE t == <<type>>
             h == t \o w
  <2>1. t \in Seq(Byte) /\ Len(t) = 1 /\ t[1] = type
    OBVIOUS
  <2>2. buf = h \o payload
    BY <1>2
  <2> HIDE DEF t, h
  <2>3. /\ t \o w \in Seq(Byte)
        /\ Len(t \o w) = Len(t) + Len(w)
        /\ \A i \in 1..Len(t) : (t \o w)[i] = t[i]
        /\ \A i \in 1..Len(w) : (t \o w)[Len(t) + i] = w[i]
    BY <1>1, <2>1, ConcatParts, Zenon
  <2>4. h \in Seq(Byte) /\ Len(h) = 5 /\ h[1] = type /\ \A i \in 1..4 : h[1 + i] = w[i]
    BY <1>1, <2>1, <2>3 DEF h
  <2>5. /\ h \o payload \in Seq(Byte)
        /\ Len(h \o payload) = Len(h) + Len(payload)
        /\ \A i \in 1..Len(h) : (h \o payload)[i] = h[i]
        /\ \A i \in 1..Len(payload) : (h \o payload)[Len(h) + i] = payload[i]
    BY <2>4, ConcatParts, Zenon
  <2>6. QED
    BY <2>2, <2>4, <2>5
<1>4. ReadU32(buf, 2) = id
  <2>1. buf[2] = w[1] /\ buf[3] = w[2] /\ buf[4] = w[3] /\ buf[5] = w[4]
    BY <1>3
  <2>2. QED
    BY <1>1, <2>1 DEF ReadU32
<1>5. SubSeq(buf, 6, Len(buf)) = payload
  BY <1>3
<1>6. QED
  BY <1>3, <1>4, <1>5

\* What any end sends on a stream, every other end reads: type, stream id and
\* payload, byte for byte (encodeStreamJson, -Data, -Only, -Ack).
THEOREM StreamRoundTrip ==
  ASSUME NEW type \in Byte, type >= StreamFrameFloor,
         NEW id \in U32, NEW payload \in Seq(Byte)
  PROVE  DecodeFrame(EncodeStream(type, id, payload)) = Stream(type, id, payload)
<1> DEFINE buf == EncodeStream(type, id, payload)
<1>1. /\ buf \in Seq(Byte)
      /\ Len(buf) = 5 + Len(payload)
      /\ buf[1] = type
      /\ ReadU32(buf, 2) = id
      /\ SubSeq(buf, 6, Len(buf)) = payload
  BY StreamLayout
<1>2. Len(payload) \in Nat
  OBVIOUS
<1> HIDE DEF buf
<1>3. buf # <<>> /\ ~(Len(buf) < 5)
  BY <1>1, <1>2
<1>4. ~(buf[1] < StreamFrameFloor)
  BY <1>1 DEF Byte, StreamFrameFloor
<1>5. DecodeFrame(buf) = Stream(type, id, payload)
  BY <1>1, <1>3, <1>4 DEF DecodeFrame
<1>6. QED
  BY <1>5 DEF buf

\* And every control message, whatever object it carries.
THEOREM ControlRoundTrip ==
  ASSUME NEW type \in Byte, type < StreamFrameFloor, NEW body \in Objects
  PROVE  DecodeFrame(EncodeControl(type, body)) = Control(type, body)
<1> DEFINE text == Stringify(body)
           buf  == EncodeControl(type, body)
<1>1. text \in Seq(Byte) /\ text # <<>> /\ ParseJson(text) = body
  BY JsonAssumption
<1>2. buf = <<type>> \o text
  BY DEF EncodeControl
<1> HIDE DEF text, buf
<1>3. buf # <<>> /\ buf[1] = type /\ Tail(buf) = text
  BY <1>1, <1>2
<1>4. ControlBody(Tail(buf)) = body
  BY <1>1, <1>3 DEF ControlBody
<1>5. DecodeFrame(buf) = Control(type, body)
  BY <1>3, <1>4 DEF DecodeFrame
<1>6. QED
  BY <1>5 DEF buf

\* A STREAM_ACK grants what it acknowledges, up to the largest u32.
THEOREM GrantRoundTrip ==
  ASSUME NEW id \in U32, NEW n \in U32
  PROVE  Granted(DecodeFrame(EncodeStreamAck(id, n)).payload) = n
<1>1. WriteU32(n) \in Seq(Byte) /\ Len(WriteU32(n)) = 4 /\ ReadU32(WriteU32(n), 1) = n
  BY U32Bytes
<1>2. StreamAck \in Byte /\ StreamAck >= StreamFrameFloor
  BY DEF StreamAck, Byte, StreamFrameFloor
<1>3. DecodeFrame(EncodeStreamAck(id, n)) = Stream(StreamAck, id, WriteU32(n))
  BY <1>1, <1>2, StreamRoundTrip DEF EncodeStreamAck
<1>4. DecodeFrame(EncodeStreamAck(id, n)).payload = WriteU32(n)
  BY <1>3 DEF Stream
<1>5. Granted(WriteU32(n)) = n
  BY <1>1 DEF Granted
<1>6. QED
  BY <1>4, <1>5

-----------------------------------------------------------------------------
\* The credit (CreditWindow).

Empty == ~live => credit = 0 /\ inflight = 0 /\ unacked = 0 /\ ackflight = 0

IInv == TypeOK /\ Conserved /\ Overshoot /\ Empty

LEMMA InitInv ==
  ASSUME WindowAssumption
  PROVE  Init => IInv
BY DEF WindowAssumption, Init, IInv, TypeOK, Conserved, Overshoot, Empty

\* Every action moves bytes from one of the four places to another, or empties
\* them all.
LEMMA StepInv ==
  ASSUME WindowAssumption, IInv, [Next]_vars
  PROVE  IInv'
<1> USE DEF WindowAssumption, IInv, TypeOK, Conserved, Overshoot, Empty
<1>1. CASE SendData
  <2>1. PICK k \in 1..ChunkMax : credit' = credit - k /\ inflight' = inflight + k
    BY <1>1 DEF SendData
  <2>2. credit > 0 /\ live /\ UNCHANGED <<unacked, ackflight, live>>
    BY <1>1 DEF SendData
  <2> QED
    BY <2>1, <2>2
<1>2. CASE Receive
  <2>1. PICK k \in 1..inflight : \E n \in 0..(unacked + k) :
           /\ inflight' = inflight - k
           /\ unacked' = unacked + k - n
           /\ ackflight' = ackflight + n
    BY <1>2 DEF Receive
  <2>2. PICK n \in 0..(unacked + k) : /\ inflight' = inflight - k
                                      /\ unacked' = unacked + k - n
                                      /\ ackflight' = ackflight + n
    BY <2>1
  <2>3. live /\ UNCHANGED <<credit, live>>
    BY <1>2 DEF Receive
  <2> QED
    BY <2>2, <2>3
<1>3. CASE Acknowledge
  <2>1. PICK n \in 1..unacked : unacked' = unacked - n /\ ackflight' = ackflight + n
    BY <1>3 DEF Acknowledge
  <2>2. live /\ UNCHANGED <<credit, inflight, live>>
    BY <1>3 DEF Acknowledge
  <2> QED
    BY <2>1, <2>2
<1>4. CASE Grant
  <2>1. PICK n \in 1..ackflight : credit' = credit + n /\ ackflight' = ackflight - n
    BY <1>4 DEF Grant
  <2>2. live /\ UNCHANGED <<inflight, unacked, live>>
    BY <1>4 DEF Grant
  <2> QED
    BY <2>1, <2>2
<1>5. CASE Abandon
  <2>1. /\ credit' = 0 /\ inflight' = 0 /\ unacked' = 0 /\ ackflight' = 0
        /\ ~live'
        /\ live' \in BOOLEAN
    BY <1>5 DEF Abandon
  <2> QED
    BY <2>1
<1>6. CASE UNCHANGED vars
  BY <1>6 DEF vars
<1> QED
  BY <1>1, <1>2, <1>3, <1>4, <1>5, <1>6 DEF Next

LEMMA Inductive ==
  ASSUME WindowAssumption
  PROVE  Spec => []IInv
<1>1. IInv /\ [Next]_vars => IInv'
  BY StepInv
<1> QED
  BY InitInv, <1>1, PTL DEF Spec

\* Credit is neither made nor lost, for every window and chunk size.
THEOREM CreditConserved ==
  ASSUME WindowAssumption
  PROVE  Spec => []Conserved
<1>1. IInv => Conserved
  BY DEF IInv
<1> QED
  BY <1>1, Inductive, PTL

\* The sender never overshoots its grant by a whole chunk.
THEOREM CreditOvershoot ==
  ASSUME WindowAssumption
  PROVE  Spec => []Overshoot
<1>1. IInv => Overshoot
  BY DEF IInv
<1> QED
  BY <1>1, Inductive, PTL

\* A receiver never holds as much as a window and a chunk.
THEOREM CreditBounded ==
  ASSUME WindowAssumption
  PROVE  Spec => []Bounded
<1>1. IInv => Bounded
  BY DEF WindowAssumption, IInv, TypeOK, Conserved, Overshoot, Empty, Bounded
<1> QED
  BY <1>1, Inductive, PTL
=============================================================================
