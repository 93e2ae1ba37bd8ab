------------------------------ MODULE AgentLife ------------------------------
(***************************************************************************)
(* An agent's sessions, and what the server makes of them: runForever,     *)
(* session, handleHandshake and registerTunnels of                         *)
(* client-node/src/agent.ts against onConnection and handshake of          *)
(* server/src/control.ts, with the two heartbeats, every timeout, the      *)
(* back-off, black-holed links and server restarts.                        *)
(*                                                                         *)
(* Time is discrete.  A timer is the number of ticks it still has to run,  *)
(* and Tick waits for what is due: for a timer that has reached 0 and for  *)
(* a message that has been on its way for Latency ticks.  Within a tick    *)
(* everything interleaves.                                                 *)
(*                                                                         *)
(* A connection is one WebSocket, with a FIFO queue each way; a slot whose *)
(* two ends are over is used again.  The agent asks for one name, and the  *)
(* registry is reduced to who holds it (Registry models it in full).       *)
(* terminate() and the 'close' event it leads to are one step.             *)
(***************************************************************************)
EXTENDS Integers, Sequences

CONSTANTS Conns, NoConn,
          KnownTokens,       \* whether the agent's token is known: a set
          Latency,           \* ticks a message is under way at most
          ConnectTimeout,    \* handshakeTimeout of the WebSocket
          HandshakeTimeout,  \* HANDSHAKE_TIMEOUT_MS
          PingInterval,      \* pingIntervalMs, 0 for never
          PingTimeout,       \* pingTimeoutMs, 0 for ever
          MinDelay,          \* RECONNECT_MIN_MS
          MaxDelay,          \* RECONNECT_MAX_MS
          StableSession,     \* STABLE_SESSION_MS
          HelloTimeout,      \* HELLO_TIMEOUT_MS
          CloseTimeout,      \* closeTimeout of the WebSocket library
          Heartbeat,         \* heartbeatMs
          HeartbeatMisses,
          MaxFaults,         \* bound on the faults of a behaviour
          Faults             \* which there are, a subset of FaultNames

FaultNames == {"linkDies", "refused", "serverRestart", "stop"}

ASSUME AgentLifeAssumption ==
    /\ NoConn \notin Conns
    /\ KnownTokens \subseteq BOOLEAN
    /\ {Latency, PingInterval, PingTimeout, MaxFaults} \subseteq Nat
    /\ {ConnectTimeout, HandshakeTimeout, MinDelay, MaxDelay, StableSession,
        HelloTimeout, CloseTimeout, Heartbeat, HeartbeatMisses} \subseteq Nat \ {0}
    /\ MinDelay <= MaxDelay
    /\ Faults \subseteq FaultNames

VARIABLES agent,     \* the agent: its phase and its timers
          srv,       \* the server's end of each connection
          holder,    \* the connection whose session holds the name
          link,      \* "ok", or "dead" once it drops everything
          deadFor,   \* ticks since a link with an end still up died
          toServer, toAgent,
          known,     \* the agent's token is in tokens.json
          faults     \* how often each fault has occurred

vars == <<agent, srv, holder, link, deadFor, toServer, toAgent, known, faults>>

-----------------------------------------------------------------------------
\* Timers and messages.

Off == -1
Timer(n) == IF n = 0 THEN Off ELSE n
Elapse(timer) == IF timer > 0 THEN timer - 1 ELSE timer

\* The agent between two sessions, the next one due after wait ticks.  delay
\* is the next back-off, age counts from the start of a session.
Waiting(wait, delay) ==
    [phase |-> "waiting", conn |-> NoConn, timer |-> wait, pingIn |-> Off,
     pongIn |-> Off, tunnel |-> "none", delay |-> delay, age |-> 0,
     stopping |-> FALSE]

\* A server's end that does not exist, yet or any more.  timer is helloTimer,
\* or the WebSocket's own once it is closing.
NoEnd == [ws |-> "none", session |-> FALSE, misses |-> 0, tickIn |-> Off,
          timer |-> Off]

Init == /\ agent = Waiting(0, MinDelay)
        /\ srv = [c \in Conns |-> NoEnd]
        /\ holder = NoConn
        /\ link = [c \in Conns |-> "ok"]
        /\ deadFor = [c \in Conns |-> 0]
        /\ toServer = [c \in Conns |-> <<>>]
        /\ toAgent = [c \in Conns |-> <<>>]
        /\ known \in KnownTokens
        /\ faults = [name \in Faults |-> 0]

Fresh(messages) == [i \in DOMAIN messages |-> [m |-> messages[i], age |-> 0]]

\* What is sent arrives if the link is alive and the other end still there.
ServerThere(c) == srv[c].ws # "none" \/ toServer[c] # <<>>
ToServer(c, messages) ==
    IF link[c] = "ok" /\ ServerThere(c) THEN Fresh(messages) ELSE <<>>
ToAgent(c, messages) ==
    IF link[c] = "ok" /\ agent.conn = c THEN Fresh(messages) ELSE <<>>

-----------------------------------------------------------------------------
\* The agent's steps.

\* The jitter: 0.7 to 1.3 times the delay.
Waits(delay) == {w \in 1..2 * delay : 10 * w >= 7 * delay /\ 10 * w <= 13 * delay}

\* Mutated form: the back-off has no ceiling.
NextDelayUncapped(delay) == 2 * delay

NextDelay(delay) == IF 2 * delay > MaxDelay THEN MaxDelay ELSE 2 * delay

\* finish, and what runForever does with it: give up after an AuthError, return
\* when stopping, else sleep.  Only a session old enough resets the back-off.
AgentAfter(fatal) ==
    LET delay == IF agent.age >= StableSession THEN MinDelay ELSE agent.delay
    IN  IF fatal \/ agent.stopping
        THEN {[Waiting(Off, delay) EXCEPT !.stopping = agent.stopping,
                 !.phase = IF fatal THEN "failed" ELSE "stopped"]}
        ELSE {Waiting(w, NextDelay(delay)) : w \in Waits(delay)}

\* The agent lets go of its connection, with a last message to the server.
EndSession(fatal, last) ==
    LET c == agent.conn
    IN  /\ agent' \in AgentAfter(fatal)
        /\ toServer' = [toServer EXCEPT ![c] = @ \o ToServer(c, <<last>>)]
        /\ toAgent' = [toAgent EXCEPT ![c] = <<>>]
        /\ UNCHANGED <<srv, holder, link, deadFor, known, faults>>

\* A slot neither end uses.
FreeConns == {c \in Conns : srv[c].ws = "none" /\ toServer[c] = <<>>}

\* session(): a new WebSocket.
StartSession ==
    /\ agent.phase = "waiting"
    /\ agent.timer = 0
    /\ ~agent.stopping
    /\ FreeConns # {}
    /\ LET c == CHOOSE free \in FreeConns : TRUE
       IN  /\ agent' = [agent EXCEPT !.phase = "connecting", !.conn = c,
                                     !.timer = ConnectTimeout]
           /\ toServer' = [toServer EXCEPT ![c] = Fresh(<<"CONNECT">>)]
           /\ link' = [link EXCEPT ![c] = "ok"]
           /\ deadFor' = [deadFor EXCEPT ![c] = 0]
           /\ UNCHANGED <<srv, holder, toAgent, known, faults>>

\* The loop's condition, after the sleep.
StopWaiting ==
    /\ agent.phase = "waiting"
    /\ agent.timer = 0
    /\ agent.stopping
    /\ agent' = [agent EXCEPT !.phase = "stopped", !.timer = Off]
    /\ UNCHANGED <<srv, holder, link, deadFor, toServer, toAgent, known, faults>>

\* The WebSocket did not open, or the server did not answer HELLO, in time; or
\* a closing handshake that stop() began took too long.
SessionTimeout ==
    /\ agent.phase \in {"connecting", "hello", "closing"}
    /\ agent.timer = 0
    /\ EndSession(FALSE, "END")

\* The agent takes a message and may answer; what its end becomes is agent'.
AgentTakes(c, answers) ==
    /\ toAgent' = [toAgent EXCEPT ![c] = Tail(@)]
    /\ toServer' = [toServer EXCEPT ![c] = @ \o ToServer(c, answers)]
    /\ UNCHANGED <<srv, holder, link, deadFor, known, faults>>

Message(c, m) == toAgent[c] # <<>> /\ Head(toAgent[c]).m = m

\* Mutated form: no deadline for the answer to HELLO.
OnOpenUntimed(c) ==
    /\ Message(c, "ACCEPTED")
    /\ agent.phase = "connecting"
    /\ agent' = [agent EXCEPT !.phase = "hello", !.timer = Off]
    /\ AgentTakes(c, <<"HELLO">>)

\* 'open'
OnOpen(c) ==
    /\ Message(c, "ACCEPTED")
    /\ agent.phase = "connecting"
    /\ agent' = [agent EXCEPT !.phase = "hello", !.timer = HandshakeTimeout]
    /\ AgentTakes(c, <<"HELLO">>)

\* HELLO_OK: register the tunnels, start to ping.
OnHelloOk(c) ==
    /\ Message(c, "HELLO_OK")
    /\ agent.phase = "hello"
    /\ agent' = [agent EXCEPT !.phase = "up", !.timer = Off, !.tunnel = "asked",
                              !.pingIn = Timer(PingInterval)]
    /\ AgentTakes(c, <<"OPEN_TUNNEL">>)

\* ERROR instead: unauthorized and bad_version are fatal.
OnRejected(c) ==
    /\ Message(c, "REJECTED")
    /\ agent.phase \in {"hello", "closing"}
    /\ EndSession(TRUE, "CLOSE")

\* onTunnelOk and onError.
OnTunnelReply(c) ==
    \E reply \in {"TUNNEL_OK", "TUNNEL_TAKEN"} :
       /\ Message(c, reply)
       /\ agent.phase = "up"
       /\ agent' = [agent EXCEPT !.tunnel =
                       IF reply = "TUNNEL_OK" THEN "ok" ELSE "refused"]
       /\ AgentTakes(c, <<>>)

\* The WebSocket library answers a ping while it is open.
OnPing(c) ==
    /\ Message(c, "PING")
    /\ agent.phase \in {"hello", "up"}
    /\ UNCHANGED agent
    /\ AgentTakes(c, <<"PONG">>)

\* Mutated form: an answer does not clear the deadline.
OnPongIgnored(c) ==
    /\ Message(c, "PONG")
    /\ agent.phase = "up"
    /\ UNCHANGED agent
    /\ AgentTakes(c, <<>>)

\* 'pong'
OnPong(c) ==
    /\ Message(c, "PONG")
    /\ agent.phase = "up"
    /\ agent' = [agent EXCEPT !.pongIn = Off]
    /\ AgentTakes(c, <<>>)

\* What arrives after stop() has called close() changes nothing.
OnLate(c) ==
    /\ toAgent[c] # <<>>
    /\ Head(toAgent[c]).m \notin {"CLOSE", "END", "REJECTED"}
    /\ agent.phase = "closing"
    /\ UNCHANGED agent
    /\ AgentTakes(c, <<>>)

\* 'close' or 'error'
OnClose(c) ==
    /\ Message(c, "CLOSE") \/ Message(c, "END")
    /\ EndSession(FALSE, "END")

\* Mutated form: each ping moves the deadline.
PingDueRearming ==
    /\ agent.phase = "up"
    /\ agent.pingIn = 0
    /\ agent' = [agent EXCEPT !.pingIn = PingInterval,
                              !.pongIn = Timer(PingTimeout)]
    /\ toServer' = [toServer EXCEPT ![agent.conn] =
                      @ \o ToServer(agent.conn, <<"PING">>)]
    /\ UNCHANGED <<srv, holder, link, deadFor, toAgent, known, faults>>

\* The agent's own heartbeat: a deadline is armed unless one is running.
PingDue ==
    /\ agent.phase = "up"
    /\ agent.pingIn = 0
    /\ agent' = [agent EXCEPT !.pingIn = PingInterval,
                              !.pongIn = IF @ = Off THEN Timer(PingTimeout) ELSE @]
    /\ toServer' = [toServer EXCEPT ![agent.conn] =
                      @ \o ToServer(agent.conn, <<"PING">>)]
    /\ UNCHANGED <<srv, holder, link, deadFor, toAgent, known, faults>>

\* pongDeadline: terminate().
PongDeadline ==
    /\ agent.phase = "up"
    /\ agent.pongIn = 0
    /\ EndSession(FALSE, "END")

AgentStep ==
    \/ StartSession \/ StopWaiting \/ SessionTimeout \/ PingDue \/ PongDeadline
    \/ /\ agent.conn # NoConn
       /\ LET c == agent.conn
          IN  \/ OnOpen(c) \/ OnHelloOk(c) \/ OnRejected(c) \/ OnTunnelReply(c)
              \/ OnPing(c) \/ OnPong(c) \/ OnLate(c) \/ OnClose(c)

-----------------------------------------------------------------------------
\* The server's steps.

\* The server's end becomes end, and sends messages.
ServerBecomes(c, end, messages) ==
    /\ srv' = [srv EXCEPT ![c] = end]
    /\ toAgent' = [toAgent EXCEPT ![c] = @ \o ToAgent(c, messages)]
    /\ UNCHANGED <<agent, link, deadFor, known, faults>>

\* The same, on a message, which it takes off the queue.
ServerTakes(c, end, messages) ==
    /\ toServer' = [toServer EXCEPT ![c] = Tail(@)]
    /\ ServerBecomes(c, end, messages)

Request(c, m) == toServer[c] # <<>> /\ Head(toServer[c]).m = m

\* Nothing is sent on a WebSocket that is closing.
IfOpen(c, messages) == IF srv[c].ws = "open" THEN messages ELSE <<>>

\* Anything inbound is a sign of life.
Alive(c) == [srv[c] EXCEPT !.misses = 0]

Closing(c) == [srv[c] EXCEPT !.ws = "closing", !.tickIn = Off,
                             !.timer = CloseTimeout]

\* teardown, on 'close' or 'error': the session releases its name.
Teardown(c, last) ==
    /\ ServerBecomes(c, NoEnd, last)
    /\ toServer' = [toServer EXCEPT ![c] = <<>>]
    /\ holder' = IF holder = c THEN NoConn ELSE holder

\* onConnection
Accept(c) ==
    /\ Request(c, "CONNECT")
    /\ ServerTakes(c, [NoEnd EXCEPT !.ws = "open", !.tickIn = Heartbeat,
                                    !.timer = HelloTimeout],
                   <<"ACCEPTED">>)
    /\ UNCHANGED holder

\* handshake: a session, or a refusal that closes the WebSocket.
ServerHello(c) ==
    /\ Request(c, "HELLO")
    /\ IF known
       THEN ServerTakes(c, [Alive(c) EXCEPT !.session = TRUE,
                              !.timer = IF srv[c].ws = "open" THEN Off ELSE @],
                        IfOpen(c, <<"HELLO_OK">>))
       ELSE ServerTakes(c, IF srv[c].ws = "open" THEN Closing(c) ELSE srv[c],
                        IfOpen(c, <<"REJECTED", "CLOSE">>))
    /\ UNCHANGED holder

\* openTunnel
ServerOpenTunnel(c) ==
    /\ Request(c, "OPEN_TUNNEL")
    /\ srv[c].session
    /\ IF holder = NoConn
       THEN /\ holder' = c
            /\ ServerTakes(c, Alive(c), IfOpen(c, <<"TUNNEL_OK">>))
       ELSE /\ UNCHANGED holder
            /\ ServerTakes(c, Alive(c), IfOpen(c, <<"TUNNEL_TAKEN">>))

\* 'ping', which the WebSocket library also answers
ServerPing(c) ==
    /\ Request(c, "PING")
    /\ ServerTakes(c, Alive(c), IfOpen(c, <<"PONG">>))
    /\ UNCHANGED holder

\* 'pong'
ServerPong(c) ==
    /\ Request(c, "PONG")
    /\ ServerTakes(c, Alive(c), <<>>)
    /\ UNCHANGED holder

\* 'close' or 'error'
ServerClose(c) ==
    /\ Request(c, "CLOSE") \/ Request(c, "END")
    /\ Teardown(c, <<"END">>)

\* helloTimer
HelloDue(c) ==
    /\ srv[c].ws = "open"
    /\ srv[c].timer = 0
    /\ ServerBecomes(c, Closing(c), <<"CLOSE">>)
    /\ UNCHANGED <<holder, toServer>>

\* The WebSocket library's own timer on a closing handshake.
CloseDue(c) ==
    /\ srv[c].ws = "closing"
    /\ srv[c].timer = 0
    /\ Teardown(c, <<"END">>)

\* A tick of the heartbeat: ping, or terminate() when nothing has come for
\* HeartbeatMisses ticks.
Beat(c) ==
    /\ ServerBecomes(c, [srv[c] EXCEPT !.misses = @ + 1, !.tickIn = Heartbeat],
                     <<"PING">>)
    /\ UNCHANGED <<holder, toServer>>

\* Mutated form: the first miss is the last.
HeartbeatDueImpatient(c) ==
    /\ srv[c].ws = "open"
    /\ srv[c].tickIn = 0
    /\ IF srv[c].misses >= 1 THEN Teardown(c, <<"END">>) ELSE Beat(c)

\* Mutated form: one miss too many is allowed.
HeartbeatDueLate(c) ==
    /\ srv[c].ws = "open"
    /\ srv[c].tickIn = 0
    /\ IF srv[c].misses > HeartbeatMisses THEN Teardown(c, <<"END">>) ELSE Beat(c)

HeartbeatDue(c) ==
    /\ srv[c].ws = "open"
    /\ srv[c].tickIn = 0
    /\ IF srv[c].misses >= HeartbeatMisses THEN Teardown(c, <<"END">>) ELSE Beat(c)

ServerStep(c) ==
    \/ Accept(c) \/ ServerHello(c) \/ ServerOpenTunnel(c) \/ ServerPing(c)
    \/ ServerPong(c) \/ ServerClose(c) \/ HelloDue(c) \/ CloseDue(c)
    \/ HeartbeatDue(c)

-----------------------------------------------------------------------------
\* Time and trouble.

AgentTimers == {agent.timer, agent.pingIn, agent.pongIn}
ServerTimers(c) == {srv[c].tickIn, srv[c].timer}

Overdue(queue) == queue # <<>> /\ Head(queue).age >= Latency
Older(queue) == [i \in DOMAIN queue |-> [queue[i] EXCEPT !.age = @ + 1]]

\* Bound on deadFor, larger than what the properties compare it with.
DeadForCap == (HeartbeatMisses + 1) * Heartbeat + PingInterval + PingTimeout + 1

\* Somebody is still on the connection.
InUse(c) == agent.conn = c \/ srv[c].ws # "none"

Tick ==
    /\ 0 \notin AgentTimers
    /\ \A c \in Conns : /\ 0 \notin ServerTimers(c)
                        /\ ~Overdue(toServer[c])
                        /\ ~Overdue(toAgent[c])
    /\ agent' = [agent EXCEPT !.timer = Elapse(@), !.pingIn = Elapse(@),
                   !.pongIn = Elapse(@),
                   !.age = IF agent.conn = NoConn \/ @ = StableSession
                           THEN @ ELSE @ + 1]
    /\ srv' = [c \in Conns |-> [srv[c] EXCEPT !.tickIn = Elapse(@),
                                              !.timer = Elapse(@)]]
    /\ deadFor' = [c \in Conns |->
                     IF link[c] # "dead" \/ ~InUse(c) THEN 0
                     ELSE IF deadFor[c] = DeadForCap THEN DeadForCap
                     ELSE deadFor[c] + 1]
    /\ toServer' = [c \in Conns |-> Older(toServer[c])]
    /\ toAgent' = [c \in Conns |-> Older(toAgent[c])]
    /\ UNCHANGED <<holder, link, known, faults>>

Occurrences(name) == IF name \in Faults THEN faults[name] ELSE 0

Fault(name) == /\ name \in Faults
               /\ Occurrences("linkDies") + Occurrences("refused")
                    + Occurrences("serverRestart") + Occurrences("stop") < MaxFaults
               /\ faults' = [faults EXCEPT ![name] = @ + 1]

\* The link is black-holed: nothing arrives any more, and nobody is told.
LinkDies(c) ==
    /\ Fault("linkDies")
    /\ link[c] = "ok"
    /\ InUse(c)
    /\ link' = [link EXCEPT ![c] = "dead"]
    /\ toServer' = [toServer EXCEPT ![c] = <<>>]
    /\ toAgent' = [toAgent EXCEPT ![c] = <<>>]
    /\ UNCHANGED <<agent, srv, holder, deadFor, known>>

\* The proxy or the kernel turns a connection down.
Refused ==
    /\ Fault("refused")
    /\ agent.phase = "connecting"
    /\ toServer[agent.conn] # <<>>
    /\ agent' \in AgentAfter(FALSE)
    /\ toServer' = [toServer EXCEPT ![agent.conn] = <<>>]
    /\ UNCHANGED <<srv, holder, link, deadFor, toAgent, known>>

\* The server is killed and started again, with an empty registry; the kernel
\* closes its connections.
ServerRestart ==
    /\ Fault("serverRestart")
    /\ srv' = [c \in Conns |-> NoEnd]
    /\ holder' = NoConn
    /\ toServer' = [c \in Conns |-> <<>>]
    /\ toAgent' = [c \in Conns |-> IF ServerThere(c)
                                   THEN toAgent[c] \o ToAgent(c, <<"END">>)
                                   ELSE toAgent[c]]
    /\ UNCHANGED <<agent, link, deadFor, known>>

\* Mutated form: stop() leaves the WebSocket open.
StopQuietly ==
    /\ Fault("stop")
    /\ ~agent.stopping
    /\ agent.phase \notin {"stopped", "failed"}
    /\ agent' = [agent EXCEPT !.stopping = TRUE]
    /\ UNCHANGED <<srv, holder, link, deadFor, toServer, toAgent, known>>

\* stop(): a connection that is not open yet is dropped, an open one begins its
\* closing handshake.
Stop ==
    /\ Fault("stop")
    /\ ~agent.stopping
    /\ LET c == agent.conn
       IN  CASE agent.phase = "waiting" ->
                  /\ agent' = [agent EXCEPT !.stopping = TRUE]
                  /\ UNCHANGED <<toServer, toAgent>>
             [] agent.phase = "connecting" ->
                  /\ agent' = [Waiting(Off, agent.delay) EXCEPT
                                 !.phase = "stopped", !.stopping = TRUE]
                  /\ toServer' = [toServer EXCEPT ![c] = @ \o ToServer(c, <<"END">>)]
                  /\ toAgent' = [toAgent EXCEPT ![c] = <<>>]
             [] agent.phase \in {"hello", "up"} ->
                  /\ agent' = [agent EXCEPT !.stopping = TRUE, !.phase = "closing",
                                 !.timer = CloseTimeout,
                                 !.pingIn = Off, !.pongIn = Off]
                  /\ toServer' = [toServer EXCEPT ![c] = @ \o ToServer(c, <<"CLOSE">>)]
                  /\ UNCHANGED toAgent
             [] OTHER -> FALSE
    /\ UNCHANGED <<srv, holder, link, deadFor, known>>

System == AgentStep \/ (\E c \in Conns : ServerStep(c)) \/ Tick

Next == \/ System
        \/ \E c \in Conns : LinkDies(c)
        \/ Refused \/ ServerRestart \/ Stop

Spec == Init /\ [][Next]_vars

\* Time passes, and what is due happens.  No fault has to occur.
FairSpec == Spec /\ WF_vars(System)

-----------------------------------------------------------------------------
Phases == {"waiting", "connecting", "hello", "up", "closing", "stopped", "failed"}

UpTo(n) == Off..n

TypeOK ==
    /\ agent \in [phase : Phases, conn : Conns \cup {NoConn},
                  timer : Int, pingIn : UpTo(PingInterval),
                  pongIn : UpTo(PingTimeout),
                  tunnel : {"none", "asked", "ok", "refused"},
                  delay : MinDelay..MaxDelay, age : 0..StableSession,
                  stopping : BOOLEAN]
    /\ srv \in [Conns -> [ws : {"none", "open", "closing"}, session : BOOLEAN,
                          misses : 0..HeartbeatMisses, tickIn : UpTo(Heartbeat),
                          timer : Int]]
    /\ holder \in Conns \cup {NoConn}
    /\ link \in [Conns -> {"ok", "dead"}]
    /\ deadFor \in [Conns -> 0..DeadForCap]
    /\ known \in BOOLEAN
    /\ faults \in [Faults -> 0..MaxFaults]

\* The server has ended a connection, and the agent is about to read it.
EndComing(c) == \E i \in DOMAIN toAgent[c] : toAgent[c][i].m \in {"CLOSE", "END"}

\* "The agent's own ping is what recovers a dead link, so the server's side of
\* the check is deliberately the patient one" (docs/PROTOCOL.md:20-22): as long
\* as an agent believes that its tunnel is up, the server routes the name to it,
\* even when the link between them is dead.  (Needs HeartbeatMisses * Heartbeat
\* to exceed PingInterval + PingTimeout + Latency, as 300 s exceed 40 s, and a
\* server that is not restarted behind a dead link.)
Restarted == Occurrences("serverRestart") > 0

NameFollowsAgent ==
    agent.phase = "up" /\ agent.tunnel = "ok"
       => \/ holder = agent.conn
          \/ EndComing(agent.conn)
          \/ link[agent.conn] = "dead" /\ Restarted

\* A link that died is noticed by the server within one heartbeat more than it
\* allows misses: the name of a lost agent is free again after that.
ServerNotices ==
    \A c \in Conns :
       srv[c].ws = "open" => deadFor[c] <= (HeartbeatMisses + 1) * Heartbeat

\* And by the agent within an interval and a timeout of its own pings ("up to
\* ~40s", docs/CLIENT-SETUP.md:217), which is all it takes to start again.
AgentNotices ==
    agent.phase = "up" => deadFor[agent.conn] <= PingInterval + PingTimeout

\* Neither side ends a session that has a live link and a party at its other
\* end, however its pings, pongs and ticks interleave: the heartbeats, HELLO
\* timers and handshake timers of the two sides never give a false alarm.
Told(queue) == queue # <<>> /\ Head(queue).m \in {"CLOSE", "END", "REJECTED"}

NoFalseAlarm ==
    [][/\ agent.phase \in {"hello", "up"} /\ agent'.conn # agent.conn
             => link[agent.conn] = "dead" \/ Told(toAgent[agent.conn])
       /\ \A c \in Conns :
             srv[c].ws = "open" /\ known /\ srv'[c].ws # "open"
                => \/ link[c] = "dead"
                   \/ Told(toServer[c])
                   \/ faults' # faults]_vars

\* Whatever happens, the agent has a session again in the end (every wait of
\* session() has a timer), unless it was stopped or turned away.
Recovers == <>[](agent.phase \in {"up", "stopped", "failed"})

\* stop() ends the program, from whatever phase the agent is in.
StopEnds == agent.stopping ~> agent.phase \in {"stopped", "failed"}

-----------------------------------------------------------------------------
\* What the documentation says and the code does not do.

\* "On reconnect the agent re-registers every tunnel, so URLs and ports come
\* back unchanged" (docs/CLIENT-SETUP.md:281-282).  The agent asks once per
\* session, and the server may not have noticed yet that the last one is dead.
TunnelsComeBack == <>[](agent.phase = "up" => agent.tunnel = "ok")
=============================================================================
