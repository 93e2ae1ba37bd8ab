------------------------------ MODULE PyBridge ------------------------------
(***************************************************************************)
(* One tunnelled connection through the Python agent: the server's Stream, *)
(* the WebSocket, the agent's Stream and the two parties outside.          *)
(*                                                                         *)
(*   visitor <-> pub  ServerStream  <==toAgent/toServer==>                 *)
(*                                          PyStream  loc <-> service      *)
(*                                                                         *)
(* As in StreamBridge the visitor sends the bytes 1, 2, ... and so does    *)
(* the service.  The server's end under congestion is StreamBridge's; the  *)
(* Python agent never pauses for it, its queue _out grows.                 *)
(***************************************************************************)
EXTENDS Integers, FiniteSets, SequencesExt, NodeSocket, AsyncioSocket,
        StreamFrames

CONSTANTS Window, PrereadSizes,                         \* see ServerStream
          KnownTunnel, RewriteHosts, HeadEnd, HostByte, \* see PyStream
          TargetBytes, MaxHead,
          UpBytes,    \* bound on what the visitor sends
          DownBytes,  \* bound on what the service sends
          Histories   \* bound on what else happens: sets of EventNames

EventNames == {"visitorFin", "serviceFin", "visitorAbort", "serviceAbort",
               "dialFail", "linkLost"}

ASSUME PyBridgeAssumption == /\ Window \in Nat \ {0}
                             /\ PrereadSizes \subseteq 0..(Window - 1)
                             /\ KnownTunnel \subseteq BOOLEAN
                             /\ RewriteHosts \subseteq BOOLEAN
                             /\ TargetBytes \in Seq(Nat) \ {<<>>}
                             /\ MaxHead \in Nat \ {0}
                             /\ UpBytes \in Nat
                             /\ DownBytes \in Nat
                             /\ Histories \subseteq SUBSET EventNames

VARIABLES srv, pub, srvCongested, srvClosed,
          py, loc, sessionOver,
          linkUp, toAgent, toServer,
          visitorSaid,  \* how many bytes the visitor has sent
          serviceSaid,  \* how many bytes the service has sent
          happened      \* the events that have happened, each once at most

S == INSTANCE ServerStream
P == INSTANCE PyStream

sVars == <<srv, pub, srvCongested, srvClosed>>
pVars == <<py, loc, sessionOver>>
linkVars == <<linkUp, toAgent, toServer>>
outsideVars == <<visitorSaid, serviceSaid, happened>>
vars == <<sVars, pVars, linkVars, outsideVars>>

Init == /\ S!ServerInit
        /\ P!PyInit
        /\ linkUp = TRUE
        /\ toAgent = <<>>
        /\ toServer = <<>>
        /\ visitorSaid = 0
        /\ serviceSaid = 0
        /\ happened = {}

-----------------------------------------------------------------------------
\* The parties outside.

Said(n) == [i \in 1..n |-> i]

Happens(event) == /\ event \notin happened
                  /\ happened \cup {event} \in Histories
                  /\ happened' = happened \cup {event}

\* All it is going to say: to say some of it later is to be read later.
VisitorSend ==
    /\ visitorSaid = 0
    /\ ~pub.fin /\ ~pub.destroyed
    /\ visitorSaid' \in 1..UpBytes
    /\ pub' = [pub EXCEPT !.inq = Said(visitorSaid')]
    /\ UNCHANGED <<srv, srvCongested, srvClosed, pVars, linkVars,
                   serviceSaid, happened>>

VisitorEvent ==
    /\ srv.opened /\ ~pub.destroyed
    /\ \/ Happens("visitorFin") /\ pub' = [pub EXCEPT !.fin = TRUE]
       \/ Happens("visitorAbort") /\ pub' = Fail(pub)
    /\ UNCHANGED <<srv, srvCongested, srvClosed, pVars, linkVars,
                   visitorSaid, serviceSaid>>

Connected == py.run = "pumps" /\ ~loc.closing /\ ~loc.lost

ServiceSend ==
    /\ serviceSaid = 0
    /\ Connected /\ ~loc.fin
    /\ serviceSaid' \in 1..DownBytes
    /\ loc' = [loc EXCEPT !.inq = Said(serviceSaid')]
    /\ UNCHANGED <<sVars, py, sessionOver, linkVars, visitorSaid, happened>>

ServiceEvent ==
    /\ Connected
    /\ \/ Happens("serviceFin") /\ loc' = [loc EXCEPT !.fin = TRUE]
       \/ Happens("serviceAbort") /\ loc' = Lose(loc)
    /\ UNCHANGED <<sVars, py, sessionOver, linkVars, visitorSaid, serviceSaid>>

\* What is sent from now on is lost, what is on its way may still arrive.
LinkLost ==
    /\ Happens("linkLost")
    /\ linkUp' = FALSE
    /\ UNCHANGED <<sVars, pVars, toAgent, toServer, visitorSaid, serviceSaid>>

-----------------------------------------------------------------------------
\* The system.

ServerStep ==
    /\ S!ServerCallback \/ S!SocketFlush
    /\ UNCHANGED <<pVars, outsideVars>>

AgentStep ==
    /\ P!PyReceive \/ P!SessionEnds \/ P!PyTask
    /\ UNCHANGED <<sVars, outsideVars>>

DialFails ==
    /\ Happens("dialFail")
    /\ P!DialFail
    /\ UNCHANGED <<sVars, visitorSaid, serviceSaid>>

Next == \/ VisitorSend \/ VisitorEvent \/ ServiceSend \/ ServiceEvent
        \/ LinkLost \/ DialFails
        \/ ServerStep \/ AgentStep

Spec == Init /\ [][Next]_vars

\* As in StreamBridge: both event loops run what is due, and the kernels
\* deliver.  Nobody has to send or to hang up.
FairSpec == Spec /\ WF_vars(ServerStep) /\ WF_vars(AgentStep)

-----------------------------------------------------------------------------
\* The type invariant.

Bytes == 1..(UpBytes + DownBytes) \cup ToSet(TargetBytes)
MaxCount == Window + UpBytes + DownBytes

TypeOK == /\ S!ServerTypeOK(Bytes, MaxCount)
          /\ P!PyTypeOK(Bytes, MaxCount)
          /\ linkUp \in BOOLEAN
          /\ toAgent \in Seq(Frame(Bytes, MaxCount))
          /\ toServer \in Seq(Frame(Bytes, MaxCount))
          /\ visitorSaid \in 0..UpBytes
          /\ serviceSaid \in 0..DownBytes
          /\ happened \in Histories \cup {{}}

-----------------------------------------------------------------------------
\* Safety.

\* What the service should read once the visitor has sent n bytes.
AsSeenByService(n) ==
    IF py.rewriteHost THEN P!RewriteHostHeader(Said(n)) ELSE Said(n)

\* Whatever the dial, the head held back, slow peers, resets and hang-ups do,
\* each party reads the other's bytes once, in order and without a gap, also
\* from pumps that outlive their stream (finish() during a dial).
InOrder == /\ IsPrefix(loc.got, AsSeenByService(visitorSaid))
           /\ IsPrefix(pub.got, Said(serviceSaid))

\* "A stream is fully done once EOF has passed in both directions"
\* (docs/PROTOCOL.md:144): an end of stream comes after all that was sent.  The
\* service's comes after the head held back, and the visitor's, when all that
\* happened is that the service hung up, after the last byte of the reply
\* (_to_server returns and the stream stays, for late acknowledgements).
WholeBeforeEnd ==
    /\ loc.eof /\ loc.out = <<>> /\ ~loc.lost
          => loc.got = AsSeenByService(visitorSaid)
    /\ happened = {"serviceFin"} /\ RemoteSeesEnd(pub)
          => pub.got = Said(serviceSaid) \/ py.run = "none"

HasEnd(channel) == {"EOF", "RESET"} \cap TypesIn(channel) # {}

\* No end gives a stream up behind the other's back.  The agent's finish() is
\* always silent, so the frame that tells the server must have gone before it.
\* (Not so when the local connection has failed: see README.md, Findings.)
PeerIsTold ==
    linkUp =>
       /\ srv.finished => \/ py.run = "none" \/ py.finished
                          \/ py.toLocal \in {"eof", "failed", "over"} \/ py.toServer = "over"
                          \/ HasEnd(toAgent) \/ HasEnd(py.inbox)
       /\ py.finished => \/ srv.finished \/ srv.receivedEof \/ HasEnd(toServer)
                         \/ loc.lost

-----------------------------------------------------------------------------
\* Refinement: each direction is a credit window.

Refused == srv.opened /\ py.run = "none" /\ "OPEN" \notin TypesIn(toAgent)
BothLive == linkUp /\ ~srv.finished /\ ~py.finished /\ ~Refused
Live(n) == IF BothLive THEN n ELSE 0

Largest == CHOOSE n \in PrereadSizes \cup {MaxChunk} :
              \A m \in PrereadSizes \cup {MaxChunk} : m <= n

Upward == INSTANCE CreditWindow
            WITH ChunkMax  <- Largest,
                 credit    <- Live(srv.sendCredit),
                 inflight  <- Live(DataIn(toAgent)),
                 unacked   <- Live(DataIn(py.inbox) + py.owed),
                 ackflight <- Live(AcksIn(toServer)),
                 live      <- BothLive

Downward == INSTANCE CreditWindow
              WITH ChunkMax  <- MaxChunk,
                   credit    <- Live(py.sendCredit),
                   inflight  <- Live(DataIn(toServer)),
                   unacked   <- Live(srv.recvUnacked),
                   ackflight <- Live(AcksIn(toAgent)),
                   live      <- BothLive

\* Towards the service the Python agent and the server implement CreditWindow:
\* its inbox, bounded by nothing else, holds at most the window.  And towards the
\* visitor: _to_server waits whenever its credit is gone.
BothAreWindows == Upward!Spec /\ Downward!Spec

-----------------------------------------------------------------------------
\* Liveness, under FairSpec.

\* When nobody hangs up and nothing fails, what was sent arrives, however often
\* the credit runs out (add_credit wakes _to_server, the acknowledgement after
\* drain() wakes the server), the head held back and acknowledged unwritten.
HeadUnfinished == py.rewriteHost /\ ~P!HeadComplete(Said(visitorSaid))

Delivered ==
    <>[](\/ happened # {} \/ Refused
         \/ /\ HeadUnfinished \/ loc.got = AsSeenByService(visitorSaid)
            /\ pub.got = Said(serviceSaid))

-----------------------------------------------------------------------------
\* What the documentation says and the code does not do (README.md).

\* "A stream is fully done ... after a STREAM_RESET from either side"
\* (docs/PROTOCOL.md:144).  After a reset during the dial, or one of its own
\* for a failed read, the agent's pumps wait on for what never comes.
DoneAfterReset ==
    srv.opened /\ srv.finished ~> py.toLocal \in {"off", "over"}
=============================================================================
