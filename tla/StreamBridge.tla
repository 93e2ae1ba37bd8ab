---------------------------- MODULE StreamBridge ----------------------------
(***************************************************************************)
(* One tunnelled connection end to end: a visitor, the server's Stream,    *)
(* the WebSocket, the agent's ClientStream and the local service.          *)
(*                                                                         *)
(*   visitor <-> pub  ServerStream  <==toAgent/toServer==>                 *)
(*                                      ClientStream  loc <-> service      *)
(*                                                                         *)
(* This module adds the two parties outside the system, the loss of the    *)
(* link, and the properties of the whole.  The visitor sends the bytes     *)
(* 1, 2, ... UpBytes and the service 1, 2, ... DownBytes, so that order,   *)
(* loss and duplication show.                                              *)
(***************************************************************************)
EXTENDS Integers, Sequences, FiniteSets, SequencesExt, NodeSocket, StreamFrames

CONSTANTS Window, PrereadSizes,                        \* see ServerStream
          KnownTunnel, RewriteHosts, HeadEnd, HostByte, \* see ClientStream
          TargetBytes, MaxHead,
          UpBytes,         \* bound on what the visitor sends
          DownBytes,       \* bound on what the service sends
          MaxCongestions,  \* bound on how often each WebSocket end congests
          Events           \* what else may happen, a subset of EventNames

EventNames == {"visitorFin", "serviceFin", "visitorAbort", "serviceAbort",
               "dialFail", "linkLost"}

ASSUME BridgeAssumption == /\ Window \in Nat \ {0}
                           /\ PrereadSizes \subseteq 0..(Window - 1)
                           /\ KnownTunnel \subseteq BOOLEAN
                           /\ RewriteHosts \subseteq BOOLEAN
                           /\ TargetBytes \in Seq(Nat) \ {<<>>}
                           /\ MaxHead \in Nat \ {0}
                           /\ UpBytes \in Nat
                           /\ DownBytes \in Nat
                           /\ MaxCongestions \in Nat
                           /\ Events \subseteq EventNames

VARIABLES srv, pub, srvCongested, srvClosed,
          cli, loc, cliCongested, cliClosed,
          linkUp, toAgent, toServer,
          visitorSaid,  \* how many bytes the visitor has sent
          serviceSaid,  \* how many bytes the service has sent
          congestions   \* how often each end has been congested

S == INSTANCE ServerStream
C == INSTANCE ClientStream

sVars == <<srv, pub, srvCongested, srvClosed>>
cVars == <<cli, loc, cliCongested, cliClosed>>
linkVars == <<linkUp, toAgent, toServer>>
outsideVars == <<visitorSaid, serviceSaid, congestions>>
vars == <<sVars, cVars, linkVars, outsideVars>>

Init == /\ S!ServerInit
        /\ C!ClientInit
        /\ linkUp = TRUE
        /\ toAgent = <<>>
        /\ toServer = <<>>
        /\ visitorSaid = 0
        /\ serviceSaid = 0
        /\ congestions = [server |-> 0, agent |-> 0]

-----------------------------------------------------------------------------
\* The parties outside.

VisitorSend ==
    /\ visitorSaid < UpBytes
    /\ ~pub.fin /\ ~pub.destroyed
    /\ visitorSaid' = visitorSaid + 1
    /\ pub' = [pub EXCEPT !.inq = Append(@, visitorSaid + 1)]
    /\ UNCHANGED <<srv, srvCongested, srvClosed, cVars, linkVars,
                   serviceSaid, congestions>>

VisitorFin ==
    /\ "visitorFin" \in Events
    /\ srv.opened
    /\ ~pub.fin /\ ~pub.destroyed
    /\ pub' = [pub EXCEPT !.fin = TRUE]
    /\ UNCHANGED <<srv, srvCongested, srvClosed, cVars, linkVars,
                   outsideVars>>

VisitorAbort ==
    /\ "visitorAbort" \in Events
    /\ srv.opened
    /\ ~pub.destroyed
    /\ pub' = Fail(pub)
    /\ UNCHANGED <<srv, srvCongested, srvClosed, cVars, linkVars,
                   outsideVars>>

ServiceSend ==
    /\ serviceSaid < DownBytes
    /\ cli.connected
    /\ ~loc.fin /\ ~loc.destroyed
    /\ serviceSaid' = serviceSaid + 1
    /\ loc' = [loc EXCEPT !.inq = Append(@, serviceSaid + 1)]
    /\ UNCHANGED <<sVars, cli, cliCongested, cliClosed, linkVars,
                   visitorSaid, congestions>>

ServiceFin ==
    /\ "serviceFin" \in Events
    /\ cli.connected
    /\ ~loc.fin /\ ~loc.destroyed
    /\ loc' = [loc EXCEPT !.fin = TRUE]
    /\ UNCHANGED <<sVars, cli, cliCongested, cliClosed, linkVars,
                   outsideVars>>

ServiceAbort ==
    /\ "serviceAbort" \in Events
    /\ cli.connected
    /\ ~loc.destroyed
    /\ loc' = Fail(loc)
    /\ UNCHANGED <<sVars, cli, cliCongested, cliClosed, linkVars,
                   outsideVars>>

\* The path breaks: what is sent from now on is lost, what is already on its
\* way may still arrive, and each end notices in its own time.
LinkLost ==
    /\ "linkLost" \in Events
    /\ linkUp
    /\ linkUp' = FALSE
    /\ UNCHANGED <<sVars, cVars, toAgent, toServer, outsideVars>>

-----------------------------------------------------------------------------
\* The system.

ServerStep ==
    /\ S!ServerCallback \/ S!SocketFlush
    /\ UNCHANGED <<cVars, outsideVars>>

ClientStep ==
    /\ \/ C!ClientCallback
       \/ C!LocalFlush
       \/ "dialFail" \in Events /\ C!DialFail
    /\ UNCHANGED <<sVars, outsideVars>>

ServerCongests ==
    /\ congestions.server < MaxCongestions
    /\ S!Congest
    /\ congestions' = [congestions EXCEPT !.server = @ + 1]
    /\ UNCHANGED <<cVars, visitorSaid, serviceSaid>>

AgentCongests ==
    /\ congestions.agent < MaxCongestions
    /\ C!CongestUplink
    /\ congestions' = [congestions EXCEPT !.agent = @ + 1]
    /\ UNCHANGED <<sVars, visitorSaid, serviceSaid>>

Next == \/ VisitorSend \/ VisitorFin \/ VisitorAbort
        \/ ServiceSend \/ ServiceFin \/ ServiceAbort
        \/ LinkLost
        \/ ServerStep \/ ClientStep
        \/ ServerCongests \/ AgentCongests

Spec == Init /\ [][Next]_vars

\* Each event loop runs a callback that is due, a poll clears congestion once
\* the queue has drained, a dial succeeds or fails within 10 s, and the kernels
\* deliver what they were given.  Nobody has to send or to hang up.
FairSpec == Spec /\ WF_vars(ServerStep) /\ WF_vars(ClientStep)

-----------------------------------------------------------------------------
\* The type invariant.

Bytes == 1..(UpBytes + DownBytes) \cup ToSet(TargetBytes)
MaxCount == Window + UpBytes + DownBytes

TypeOK == /\ S!ServerTypeOK(Bytes, MaxCount)
          /\ C!ClientTypeOK(Bytes, MaxCount)
          /\ linkUp \in BOOLEAN
          /\ toAgent \in Seq(Frame(Bytes, MaxCount))
          /\ toServer \in Seq(Frame(Bytes, MaxCount))
          /\ visitorSaid \in 0..UpBytes
          /\ serviceSaid \in 0..DownBytes
          /\ congestions \in [{"server", "agent"} -> 0..MaxCongestions]

-----------------------------------------------------------------------------
\* Safety.

\* What the service should read once the visitor has sent n bytes.
AsSeenByService(n) ==
    LET said == [i \in 1..n |-> i]
    IN  IF cli.rewriteHost THEN C!RewriteHostHeader(said) ELSE said

\* Whatever dials, pauses, congestion, resets or hang-ups do, each party reads
\* the other's bytes once, in order and without a gap (the replay of queued
\* frames by attach and the head held back by consumeHead included).
InOrder == /\ IsPrefix(loc.got, AsSeenByService(visitorSaid))
           /\ IsPrefix(pub.got, [i \in 1..serviceSaid |-> i])

\* A sender keeps the promises its frames make: after STREAM_EOF it sends no
\* data, after STREAM_RESET nothing but the resets that answer strays, and the
\* server announces a stream before it says anything about it.
Orderly(channel) ==
    \A i, j \in DOMAIN channel :
       i < j => /\ channel[i].type = "EOF" => channel[j].type # "DATA"
                /\ channel[i].type = "RESET" => channel[j].type = "RESET"
                /\ channel[j].type # "OPEN"

ChannelDiscipline == Orderly(toAgent) /\ Orderly(toServer)

\* Neither end gave up, and nothing either sends is lost.
Refused == /\ srv.opened
           /\ cli.dial = "none"
           /\ "OPEN" \notin TypesIn(toAgent)
BothLive == linkUp /\ ~srv.finished /\ ~cli.finished /\ ~Refused

QueuedBytes == SumOf([i \in DOMAIN cli.queued |-> Len(cli.queued[i])])

\* What an end holds without having acknowledged it never exceeds the window
\* by a chunk, and what it has acknowledged and not got rid of fits the
\* socket's own buffer: this is what keeps a slow visitor or a slow service
\* from filling memory.  (A head held back for a Host rewrite is acknowledged
\* on arrival, and a rewrite can lengthen it.)
BoundedBuffers ==
    LET window == Window + MaxChunk - 1
        held   == IF cli.rewriteHost THEN MaxHead - 1 + Len(TargetBytes) - 1
                                 ELSE 0
    IN  /\ Len(pub.out) <= window + HighWater - 1
        /\ QueuedBytes + cli.recvUnacked <= window
        /\ Len(loc.out) + Len(cli.headBuf) <= window + HighWater - 1 + held

\* No end gives a stream up behind the other's back: when one has finished and
\* the other has not, the other was sent, or still will read, an end of stream
\* or a reset (finish() is silent, so it must come after STREAM_EOF).
Told(peer, channel) == \/ peer.receivedEof
                       \/ {"EOF", "RESET"} \cap TypesIn(channel) # {}

PeerIsTold ==
    linkUp => /\ srv.finished => \/ cli.dial = "none" \/ cli.finished
                                 \/ cli.queuedEof \/ Told(cli, toAgent)
              /\ cli.finished => srv.finished \/ Told(srv, toServer)

-----------------------------------------------------------------------------
\* Refinement: each direction is a credit window.

Largest == CHOOSE n \in PrereadSizes \cup {MaxChunk} :
              \A m \in PrereadSizes \cup {MaxChunk} : m <= n

Live(n) == IF BothLive THEN n ELSE 0

Upward == INSTANCE CreditWindow
            WITH ChunkMax  <- Largest,
                 credit    <- Live(srv.sendCredit),
                 inflight  <- Live(DataIn(toAgent)),
                 unacked   <- Live(QueuedBytes + cli.recvUnacked),
                 ackflight <- Live(AcksIn(toServer)),
                 live      <- BothLive

Downward == INSTANCE CreditWindow
              WITH ChunkMax  <- MaxChunk,
                   credit    <- Live(cli.sendCredit),
                   inflight  <- Live(DataIn(toServer)),
                   unacked   <- Live(srv.recvUnacked),
                   ackflight <- Live(AcksIn(toAgent)),
                   live      <- BothLive

\* In each direction the two classes implement CreditWindow: no step of theirs
\* loses or invents credit, or sends without it.
BothAreWindows == Upward!Spec /\ Downward!Spec

-----------------------------------------------------------------------------
\* Liveness, under FairSpec.

\* What was sent arrives, however far the peers fall behind: credit returns and
\* wakes the sender each time (onSocketData pauses, flushAck grants, onAck
\* resumes).  Excepted are a stream that was ever paused for congestion (see
\* LetsFlowAgain: all that is left is that it delivers in order), the hang-ups,
\* which the run of this property leaves out, and a request head that never
\* becomes complete, which stays with the agent.
EverCongested == congestions # [server |-> 0, agent |-> 0]
HeadUnfinished == cli.rewriteHost /\ ~C!HeadComplete([i \in 1..visitorSaid |-> i])

Delivered ==
    <>[](\/ EverCongested /\ InOrder
         \/ /\ HeadUnfinished \/ loc.got = AsSeenByService(visitorSaid)
            /\ pub.got = [i \in 1..serviceSaid |-> i])

\* Neither end keeps a stream once both have passed their ends of stream, when
\* one party has reset its connection, when the dial has failed or when the link
\* is gone, whichever of these race.  (See StreamsEnd for a hang-up that an end
\* is not going to read.)
EndsTogether ==
    \/ srv.sentEof /\ cli.sentEof
    \/ pub.error \/ loc.error
    \/ cli.dial = "over" /\ ~cli.connected
    \/ ~linkUp
    ~> /\ ~srv.opened \/ srv.finished
       /\ cli.dial = "none" \/ cli.finished

-----------------------------------------------------------------------------
\* What the documentation says and the code does not do (README.md, section 5).
\* Wedge is the run that finds the first one violated; the bounds of BridgeEnds
\* are enough to find the others so.

\* "How often we re-check a congested socket before letting streams flow again"
\* (server/src/agent.ts:14).  setGlobalPause(false) goes through maybeResume,
\* which only resumes a stream that was paused for credit.
LetsFlowAgain ==
    S!InStreams /\ ~srvCongested /\ srv.sendCredit > 0
       ~> pub.flowing \/ srvCongested \/ srv.finished \/ srv.sendCredit <= 0

\* "A stream is fully done once EOF has passed in both directions"
\* (docs/PROTOCOL.md:144): when only the service hangs up, the end of stream
\* the visitor reads comes after all the service sent.  The agent forgets the
\* stream on 'close' and answers the server's last STREAM_ACK with a reset.
WholeBeforeEnd ==
    RemoteSeesEnd(pub) => pub.got = [i \in 1..serviceSaid |-> i]

\* "Do not delay them past a drained socket buffer, or the peer stalls"
\* (docs/PROTOCOL.md:161): once both parties have hung up the stream is over at
\* both ends.  A socket that has ended emits no 'drain', so the bytes it still
\* owed an acknowledgement for are never acknowledged, and its end finishes
\* without a word: the other end waits for credit, with its own party's bytes
\* and FIN unread.
StreamsEnd ==
    pub.fin /\ loc.fin ~> /\ ~srv.opened \/ srv.finished
                          /\ cli.dial = "none" \/ cli.finished
=============================================================================
