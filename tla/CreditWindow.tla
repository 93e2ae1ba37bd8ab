---------------------------- MODULE CreditWindow ----------------------------
(***************************************************************************)
(* What the flow control of one direction of a stream promises             *)
(* (docs/PROTOCOL.md, "Flow control"; constructor, onSocketData, onData,   *)
(* flushAck and onAck of both stream classes), without queues, sockets or  *)
(* frames.  Every byte of the window is in one of four places, and the     *)
(* sender may overshoot its credit by less than one chunk.                 *)
(***************************************************************************)
EXTENDS Integers

CONSTANTS Window,    \* the credit a direction starts with
          ChunkMax   \* the most bytes one STREAM_DATA carries

\* What the theorems of WireProofs assume, and what the modules that implement
\* a window assume of theirs.
WindowAssumption == /\ Window \in Nat \ {0}
                    /\ ChunkMax \in Nat \ {0}

VARIABLES credit,    \* what the sender may still send
          inflight,  \* bytes sent and not received
          unacked,   \* bytes received and not acknowledged
          ackflight, \* bytes acknowledged whose acknowledgement is under way
          live       \* both ends still work on the stream

vars == <<credit, inflight, unacked, ackflight, live>>

Init == /\ credit = Window
        /\ inflight = 0
        /\ unacked = 0
        /\ ackflight = 0
        /\ live = TRUE

\* onSocketData: whatever one event carries goes, if there is any credit.
SendData == /\ live
            /\ credit > 0
            /\ \E k \in 1..ChunkMax : /\ credit' = credit - k
                                      /\ inflight' = inflight + k
            /\ UNCHANGED <<unacked, ackflight, live>>

\* onData: bytes arrive, and some of those held may be acknowledged at once.
Receive == /\ live
           /\ \E k \in 1..inflight : \E n \in 0..(unacked + k) :
                 /\ inflight' = inflight - k
                 /\ unacked' = unacked + k - n
                 /\ ackflight' = ackflight + n
           /\ UNCHANGED <<credit, live>>

\* flushAck, on 'drain', on an end of stream or when a dial succeeds.
Acknowledge == /\ live
               /\ \E n \in 1..unacked : /\ unacked' = unacked - n
                                        /\ ackflight' = ackflight + n
               /\ UNCHANGED <<credit, inflight, live>>

\* onAck
Grant == /\ live
         /\ \E n \in 1..ackflight : /\ credit' = credit + n
                                    /\ ackflight' = ackflight - n
         /\ UNCHANGED <<inflight, unacked, live>>

\* An end is finished, or the link is gone: the window means nothing any more.
Abandon == /\ live
           /\ live' = FALSE
           /\ credit' = 0
           /\ inflight' = 0
           /\ unacked' = 0
           /\ ackflight' = 0

Next == SendData \/ Receive \/ Acknowledge \/ Grant \/ Abandon

Spec == Init /\ [][Next]_vars

-----------------------------------------------------------------------------
TypeOK == /\ credit \in Int
          /\ inflight \in Nat
          /\ unacked \in Nat
          /\ ackflight \in Nat
          /\ live \in BOOLEAN

\* Credit is neither made nor lost: while both ends work on the stream the four
\* places sum to the window (onSocketData and onAck against flushAck).
Conserved == live => credit + inflight + unacked + ackflight = Window

\* The sender stops within one chunk of its grant (onSocketData pauses its
\* socket when the credit is gone, not before it is).
Overshoot == credit > -ChunkMax

\* What bounds the memory of the receiver: unacknowledged bytes never exceed
\* the window by a chunk ("Credits bound per-stream memory", PROTOCOL.md:164).
Bounded == inflight + unacked + ackflight < Window + ChunkMax
=============================================================================
