---------------------------- MODULE HttpFrontend ----------------------------
(***************************************************************************)
(* One connection of the public HTTP port: class HttpFrontend of           *)
(* server/src/http-frontend.ts.  It reads the request head, however the    *)
(* network cuts it into chunks, finds the tunnel its Host header names and *)
(* hands socket and bytes to that tunnel's session, or answers with an     *)
(* error.  Tunnels come and go while the visitor is typing.                *)
(*                                                                         *)
(* The visitor sends the bytes 1, 2, ... and its request says which of     *)
(* them ends the blank line after the head, and what the Host header is.   *)
(***************************************************************************)
EXTENDS NodeSocket

CONSTANTS Sessions, NoSession,
          Hosts,         \* Host headers a visitor may send, or NoHost
          NoHost,
          HeadEnds,      \* bytes that end the head; 0: the head never ends
          VisitorBytes,  \* bound on what the visitor sends
          MaxHttpHead    \* cfg.maxHttpHeadBytes

\* A Host header names a label, spelled with or without capitals and a port,
\* "under" the tunnel domain, "deeper" (two labels above it, or none) or
\* "elsewhere".
Labels == {h.label : h \in Hosts \ {NoHost}}

ASSUME FrontendAssumption ==
    /\ NoSession \notin Sessions
    /\ HeadEnds \subseteq Nat
    /\ VisitorBytes \in Nat
    /\ MaxHttpHead \in Nat \ {0}
    /\ \A h \in Hosts \ {NoHost} :
          h \in [label : {h.label}, spelled : SUBSET {"capitals", "port"},
                place : {"under", "deeper", "elsewhere"}]

VARIABLES request,  \* what the visitor is sending
          said,     \* how many bytes of it are sent
          sock,     \* the connection
          head,     \* chunks, concatenated: what onData has kept
          settled,
          timer,    \* the 30 s idle timer of the socket is armed
          outcome,  \* what route and respond did
          session,  \* the session that openStream was called on
          routes    \* Registry.bySubdomain, as the owner of each tunnel

vars == <<request, said, sock, head, settled, timer, outcome, session, routes>>
connVars == <<sock, head, settled, timer, outcome, session>>

Refusals == {"400", "404", "431", "502"}

\* onConnection.
Init == /\ request \in [headEnd : HeadEnds, host : Hosts]
        /\ said = 0
        /\ sock = Resume(NewSocket)
        /\ head = <<>>
        /\ settled = FALSE
        /\ timer = TRUE
        /\ outcome = "none"
        /\ session = NoSession
        /\ routes \in [Labels -> Sessions \cup {NoSession}]

Sent == [i \in 1..said |-> i]

-----------------------------------------------------------------------------
\* The visitor and the tunnels.

VisitorSend ==
    /\ said < VisitorBytes
    /\ ~sock.fin /\ ~sock.destroyed
    /\ said' = said + 1
    /\ sock' = [sock EXCEPT !.inq = Append(@, said + 1)]
    /\ UNCHANGED <<request, head, settled, timer, outcome, session, routes>>

VisitorFin ==
    /\ ~sock.fin /\ ~sock.destroyed
    /\ sock' = [sock EXCEPT !.fin = TRUE]
    /\ UNCHANGED <<request, said, head, settled, timer, outcome, session, routes>>

VisitorAbort ==
    /\ ~sock.destroyed
    /\ sock' = Fail(sock)
    /\ UNCHANGED <<request, said, head, settled, timer, outcome, session, routes>>

\* A session opens or releases the HTTP tunnel of a label (see Registry).
TunnelOpens(s, a) ==
    /\ routes[s] = NoSession
    /\ routes' = [routes EXCEPT ![s] = a]
    /\ UNCHANGED <<request, said, connVars>>

TunnelCloses(s) ==
    /\ routes[s] # NoSession
    /\ routes' = [routes EXCEPT ![s] = NoSession]
    /\ UNCHANGED <<request, said, connVars>>

-----------------------------------------------------------------------------
\* Where a Host header leads.

\* Mutated form: the port stays on, and no hostname has the right end.
StripPortNever(h) == h

StripPort(h) == [h EXCEPT !.spelled = @ \ {"port"}]
ToLowerCase(h) == [h EXCEPT !.spelled = @ \ {"capitals"}]

\* endsWith compares bytes: a port or a capital left over does not match.
EndsWithDomain(h) == h.spelled = {} /\ h.place # "elsewhere"

\* The answer, or "opened" for a label that a tunnel serves now.
Verdict(host) ==
    IF host = NoHost THEN "400"
    ELSE LET bare == ToLowerCase(StripPort(host))
         IN  IF ~EndsWithDomain(bare) \/ bare.place = "deeper" THEN "404"
             ELSE IF routes[bare.label] = NoSession THEN "502"
             ELSE "opened"

-----------------------------------------------------------------------------
\* The connection's callbacks.

\* respond: the whole answer, here one byte, then end().
AnswerByte == 0
Respond(s) == EndWrite(Write(s, <<AnswerByte>>))

\* Mutated form: the head timer stays armed.
DisarmTimerNever == UNCHANGED timer

\* settle: setTimeout(0)
DisarmTimer == timer' = FALSE

\* settle, route, and openStream as far as the socket goes: the session's
\* Stream takes it over with the bytes in head (ServerStream.OpenStream).
Settle(s, kept, verdict) ==
    /\ settled' = TRUE
    /\ head' = kept
    /\ outcome' = verdict
    /\ DisarmTimer
    /\ IF verdict = "opened"
       THEN /\ session' = routes[request.host.label]
            /\ sock' = Resume(Pause(s))
       ELSE /\ sock' = Respond(Pause(s))
            /\ UNCHANGED session

HeadComplete(kept) == request.headEnd \in 1..Len(kept)

\* Mutated form: no limit.
TooLongNever(kept) == FALSE

TooLong(kept) == Len(kept) > MaxHttpHead

\* Mutated form: only the last chunk is kept.
KeptChunk(k) == SubSeq(sock.inq, 1, k)

Kept(k) == head \o SubSeq(sock.inq, 1, k)

OnData(k) ==
    IF HeadComplete(Kept(k))
    THEN Settle(TakeData(sock, k), Kept(k), Verdict(request.host))
    ELSE IF TooLong(Kept(k))
    THEN Settle(TakeData(sock, k), Kept(k), "431")
    ELSE /\ head' = Kept(k)
         /\ sock' = TakeData(sock, k)
         /\ UNCHANGED <<settled, timer, outcome, session>>

\* onData is the listener until the connection is settled.  What the Stream
\* reads afterwards is ServerStream's.
Data(k) == /\ ~settled
           /\ CanEmitData(sock, k)
           /\ OnData(k)
           /\ UNCHANGED <<request, said, routes>>

\* Nobody listens for 'end'; the socket ends its own writable side.
SocketEnd == /\ CanEmitEnd(sock)
             /\ sock' = EmitEnd(sock)
             /\ UNCHANGED <<request, said, head, settled, timer, outcome,
                            session, routes>>

\* The socket is gone, with a 'close' to tell.
Gone(s) == /\ sock' = DestroySocket(s)
           /\ settled' = TRUE
           /\ timer' = FALSE
           /\ UNCHANGED <<request, said, head, outcome, session, routes>>

SocketClose == CanEmitClose(sock) /\ Gone(sock)

SocketError == /\ sock.error
               /\ Gone([sock EXCEPT !.error = FALSE])

\* Mutated form: the timer starts with the first chunk.
TimerRunsAfterData == timer /\ head # <<>>

\* onConnection: setTimeout(30_000)
TimerRuns == timer

\* 30 s without a byte read or written.
IdleTimeout == /\ TimerRuns
               /\ ~sock.destroyed
               /\ sock.inq = <<>> /\ sock.out = <<>>
               /\ Gone(sock)

Flush == /\ CanFlush(sock)
         /\ sock' = FlushByte(sock)
         /\ UNCHANGED <<request, said, head, settled, timer, outcome, session,
                        routes>>

-----------------------------------------------------------------------------
Callback == \/ \E k \in 1..MaxChunk : Data(k)
            \/ SocketEnd
            \/ SocketClose
            \/ SocketError
            \/ IdleTimeout
            \/ Flush

Next == \/ VisitorSend
        \/ VisitorFin
        \/ VisitorAbort
        \/ \E s \in Labels : \/ \E a \in Sessions : TunnelOpens(s, a)
                             \/ TunnelCloses(s)
        \/ Callback

Spec == Init /\ [][Next]_vars

\* The event loop runs what is due; nobody outside has to do anything.
FairSpec == Spec /\ WF_vars(Callback)

-----------------------------------------------------------------------------
\* Among the types: "Cap on bytes buffered while peeking" (config.ts:55), which
\* onData exceeds by less than a chunk.
TypeOK ==
    /\ request \in [headEnd : HeadEnds, host : Hosts]
    /\ said \in 0..VisitorBytes
    /\ sock \in Socket(0..VisitorBytes)
    /\ head \in Seq(1..VisitorBytes)
    /\ Len(head) <= MaxHttpHead + MaxChunk
    /\ settled \in BOOLEAN
    /\ timer \in BOOLEAN
    /\ outcome \in Refusals \cup {"none", "opened"}
    /\ session \in Sessions \cup {NoSession}
    /\ routes \in [Labels -> Sessions \cup {NoSession}]

\* The stream starts with every byte that was read and finds the rest in the
\* socket: between head and the socket nothing is lost, repeated or swapped,
\* however the chunks were cut.  It holds because settle takes the listener away
\* and route hands over within one callback; the pause (http-frontend.ts:67-69)
\* would matter if route awaited anything.
NothingLost == ~sock.destroyed => head \o sock.inq = Sent

\* The visitor gets to the session that serves the label at that moment, for
\* every spelling of its name, and is turned away only for a reason that is
\* true at that moment, though tunnels moved while it was sending its head.  Nor
\* is a head that fits called too long for the body bytes in its last chunk.
RoutedByHost ==
    [][outcome = "none" /\ outcome' # "none" =>
         LET host == request.host
         IN  CASE outcome' = "400" -> host = NoHost
               [] outcome' = "404" -> host.place # "under"
               [] outcome' = "502" -> host.place = "under"
                                      /\ routes[host.label] = NoSession
               [] outcome' = "opened" -> /\ host.place = "under"
                                         /\ session' # NoSession
                                         /\ session' = routes[host.label]
               [] outcome' = "431" -> request.headEnd \notin 1..MaxHttpHead]_vars

\* A stream may be silent for longer than a head: what the frontend armed for
\* the head never ends a connection it has handed over.
StreamOutlivesHeadTimer ==
    [][outcome = "opened" /\ ~sock.destroyed /\ sock'.destroyed
         => sock.fin \/ sock'.error]_vars

\* "A device that never sends a complete request head must not hold a slot
\* forever" (http-frontend.ts:39), up to the answer: every visitor, the silent
\* one too, is routed, answered or dropped.
Settles == <>settled
=============================================================================
