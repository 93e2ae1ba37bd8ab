------------------------------ MODULE Registry ------------------------------
(***************************************************************************)
(* Who serves which public name: class Registry of server/src/registry.ts, *)
(* with the handlers of server/src/control.ts that open and close tunnels, *)
(* the life of an AgentSession as far as it owns tunnels                   *)
(* (server/src/agent.ts), and the listeners of server/src/tcp-frontend.ts. *)
(*                                                                         *)
(* Opening an HTTP tunnel is one step.  Opening a TCP tunnel awaits the    *)
(* bind of its listener: the port is claimed before the await, everything  *)
(* else happens after it, and other messages, other binds and the end of   *)
(* the session come between.                                               *)
(*                                                                         *)
(* A session is used once: an agent that reconnects gets a new one.  A     *)
(* tunnel id stands for one OPEN_TUNNEL request and, if it succeeds, for   *)
(* the Tunnel it creates.                                                  *)
(***************************************************************************)
EXTENDS Integers, FiniteSets

CONSTANTS Sessions,    \* WebSocket connections
          Tunnels,     \* tunnel ids
          Tokens,      \* the entries of cfg.tokens
          Subdomains,  \* labels that pass SUBDOMAIN_RE
          Ports,       \* public port numbers, those outside every grant too
          TokenOf,     \* the token each session presents
          Reserved,    \* RESERVED_SUBDOMAINS
          MayClaim,    \* labels each token's patterns allow
          PortLo,      \* each token's ports, [0]
          PortHi,      \* and [1]
          MaxTunnels,  \* each token's maxTunnels
          TcpPortMin, TcpPortMax,
          NoTunnel, NoSession, NoSubdomain, NoPort

ASSUME RegistryAssumption ==
    /\ Ports \subseteq Int
    /\ TokenOf \in [Sessions -> Tokens]
    /\ Reserved \subseteq Subdomains
    /\ MayClaim \in [Tokens -> SUBSET Subdomains]
    /\ PortLo \in [Tokens -> Int]
    /\ PortHi \in [Tokens -> Int]
    /\ MaxTunnels \in [Tokens -> Int]
    /\ TcpPortMin \in Int
    /\ TcpPortMax \in Int
    /\ TcpPortMin \in Ports
    /\ TcpPortMin <= TcpPortMax
    /\ NoTunnel \notin Tunnels
    /\ NoSession \notin Sessions
    /\ NoSubdomain \notin Subdomains
    /\ NoPort \notin Ports

VARIABLES session,       \* "new", "open", "closing" (ws.close called), "closed"
          agentTunnels,  \* AgentSession.tunnels
          byId,          \* the tunnels registered
          bySubdomain,   \* subdomain -> tunnel
          byPort,        \* public port -> tunnel
          nextPortHint,
          owner,         \* tunnel -> the session that asked for it
          subdomain,     \* tunnel -> its subdomain, of an HTTP tunnel
          publicPort,    \* tunnel -> its port, of a TCP tunnel
          binding,       \* tunnels whose open() awaits bindTcp
          listening,     \* tunnels whose TCP listener accepts connections
          reply          \* tunnel -> the answer to its request

vars == <<session, agentTunnels, byId, bySubdomain, byPort, nextPortHint,
          owner, subdomain, publicPort, binding, listening, reply>>

indexVars == <<agentTunnels, byId, bySubdomain, byPort, listening>>

\* "none" until there is one; "lost" when the WebSocket is no longer OPEN.
Replies == {"none", "lost", "ok", "bad_request", "subdomain_forbidden",
            "subdomain_taken", "too_many_tunnels", "port_forbidden",
            "port_taken", "no_ports_available"}

Init == /\ session = [a \in Sessions |-> "new"]
        /\ agentTunnels = [a \in Sessions |-> {}]
        /\ byId = {}
        /\ bySubdomain = [s \in Subdomains |-> NoTunnel]
        /\ byPort = [p \in Ports |-> NoTunnel]
        /\ nextPortHint = TcpPortMin
        /\ owner = [t \in Tunnels |-> NoSession]
        /\ subdomain = [t \in Tunnels |-> NoSubdomain]
        /\ publicPort = [t \in Tunnels |-> NoPort]
        /\ binding = {}
        /\ listening = {}
        /\ reply = [t \in Tunnels |-> "none"]

-----------------------------------------------------------------------------
\* Grants and ports.

Token(a) == TokenOf[a]

\* The range claimPort works in: the token's, clipped to the server's.
MinPort(a) == IF PortLo[Token(a)] >= TcpPortMin THEN PortLo[Token(a)]
                                                ELSE TcpPortMin
MaxPort(a) == IF PortHi[Token(a)] <= TcpPortMax THEN PortHi[Token(a)]
                                                ELSE TcpPortMax
Span(a) == MaxPort(a) - MinPort(a) + 1
Granted(a) == MinPort(a)..MaxPort(a)

\* The % of JavaScript: its sign is the dividend's.
JsMod(x, n) == IF x >= 0 THEN x % n ELSE -((-x) % n)

\* Ports holds every number the search can come up with.
ASSUME PortsAssumption ==
    \A a \in Sessions : (MinPort(a) - Span(a) + 1)..MaxPort(a) \subseteq Ports

\* Mutated form: the offset that keeps the dividend positive is left out.
CandidateUnshifted(a, i) ==
    MinPort(a) + JsMod(nextPortHint - MinPort(a) + i, Span(a))

\* The i-th port claimPort looks at.
Candidate(a, i) ==
    MinPort(a) + JsMod(nextPortHint - MinPort(a) + i + Span(a), Span(a))

\* Mutated form: the search ends one port too early.
FreeStepsShort(a) ==
    {i \in 0..(Span(a) - 2) : byPort[Candidate(a, i)] = NoTunnel}

FreeSteps(a) == {i \in 0..(Span(a) - 1) : byPort[Candidate(a, i)] = NoTunnel}

\* Mutated form: the hint runs past the end of the range.
NextHintUnwrapped(a, port) == port + 1

NextHint(a, port) == IF port + 1 > MaxPort(a) THEN MinPort(a) ELSE port + 1

-----------------------------------------------------------------------------
\* Sessions.

\* handshake: HELLO with a known token.
Hello(a) ==
    /\ session[a] = "new"
    /\ session' = [session EXCEPT ![a] = "open"]
    /\ UNCHANGED <<indexVars, nextPortHint, owner, subdomain, publicPort,
                   binding, reply>>

\* AgentSession.close, from ControlPlane.close: the close handshake starts.
\* Messages already on their way are still handled, replies are not sent.
CloseSession(a) ==
    /\ session[a] = "open"
    /\ session' = [session EXCEPT ![a] = "closing"]
    /\ UNCHANGED <<indexVars, nextPortHint, owner, subdomain, publicPort,
                   binding, reply>>

Connected(a) == session[a] \in {"open", "closing"}

\* Mutated form: the listener of a closed tunnel stays up.
CloseAllKeepingListeners(a, gone) ==
    LET closed == gone \cap byId
        freed(f, name) == [x \in DOMAIN f |->
            IF \E t \in closed : name[t] = x THEN NoTunnel ELSE f[x]]
    IN  /\ byId' = byId \ closed
        /\ bySubdomain' = freed(bySubdomain, subdomain)
        /\ byPort' = freed(byPort, publicPort)
        /\ agentTunnels' = [agentTunnels EXCEPT ![a] = @ \ closed]
        /\ UNCHANGED listening

\* Mutated form: the subdomain of a closed tunnel stays taken.
CloseAllKeepingNames(a, gone) ==
    LET closed == gone \cap byId
    IN  /\ byId' = byId \ closed
        /\ byPort' = [p \in Ports |->
              IF \E t \in closed : publicPort[t] = p THEN NoTunnel ELSE byPort[p]]
        /\ agentTunnels' = [agentTunnels EXCEPT ![a] = @ \ closed]
        /\ listening' = listening \ closed
        /\ UNCHANGED bySubdomain

\* Registry.close of each tunnel in gone, all of session a: the names go, and
\* the listener with them.
CloseAll(a, gone) ==
    LET closed == gone \cap byId
    IN  /\ byId' = byId \ closed
        /\ bySubdomain' = [s \in Subdomains |->
              IF \E t \in closed : subdomain[t] = s
              THEN NoTunnel ELSE bySubdomain[s]]
        /\ byPort' = [p \in Ports |->
              IF \E t \in closed : publicPort[t] = p THEN NoTunnel ELSE byPort[p]]
        /\ agentTunnels' = [agentTunnels EXCEPT ![a] = @ \ closed]
        /\ listening' = listening \ closed

\* AgentSession.destroy, on 'close' or 'error' of the WebSocket: closeAllFor.
\* An open() that awaits its bind is not among the session's tunnels.
DestroySession(a) ==
    /\ Connected(a)
    /\ session' = [session EXCEPT ![a] = "closed"]
    /\ CloseAll(a, agentTunnels[a])
    /\ UNCHANGED <<nextPortHint, owner, subdomain, publicPort, binding, reply>>

\* CLOSE_TUNNEL.  (One that names no tunnel of the session changes nothing.)
CloseTunnel(a, t) ==
    /\ Connected(a)
    /\ t \in agentTunnels[a]
    /\ CloseAll(a, {t})
    /\ UNCHANGED <<session, nextPortHint, owner, subdomain, publicPort,
                   binding, reply>>

-----------------------------------------------------------------------------
\* OPEN_TUNNEL.

\* AgentSession.send drops the answer when the WebSocket is not OPEN.
Answer(a, code) == IF session[a] = "open" THEN code ELSE "lost"

\* A new request of session a, with the answer it gets at once.
Asks(a, t, code) ==
    /\ Connected(a)
    /\ owner[t] = NoSession
    /\ owner' = [owner EXCEPT ![t] = a]
    /\ reply' = [reply EXCEPT ![t] = Answer(a, code)]
    /\ UNCHANGED session

Register(a, t) == /\ byId' = byId \cup {t}
                  /\ agentTunnels' = [agentTunnels EXCEPT ![a] = @ \cup {t}]

AtLimit(a) == Cardinality(agentTunnels[a]) >= MaxTunnels[Token(a)]

\* parseRequest rejects the kind, the target, the label or the port number.
BadRequest(a, t) ==
    /\ Asks(a, t, "bad_request")
    /\ UNCHANGED <<indexVars, nextPortHint, subdomain, publicPort, binding>>

\* Mutated form: a name that is taken goes to the newcomer.
HttpRefusalNotTaken(a, s) ==
    IF s \in Reserved THEN "subdomain_forbidden"
    ELSE IF AtLimit(a) THEN "too_many_tunnels"
    ELSE IF s \notin MayClaim[Token(a)] THEN "subdomain_forbidden"
    ELSE "ok"

\* Why an HTTP tunnel is refused, in the order of the checks.
HttpRefusal(a, s) ==
    IF s \in Reserved THEN "subdomain_forbidden"
    ELSE IF AtLimit(a) THEN "too_many_tunnels"
    ELSE IF s \notin MayClaim[Token(a)] THEN "subdomain_forbidden"
    ELSE IF bySubdomain[s] # NoTunnel THEN "subdomain_taken"
    ELSE "ok"

OpenHttp(a, t, s) ==
    /\ Asks(a, t, HttpRefusal(a, s))
    /\ IF HttpRefusal(a, s) = "ok"
       THEN /\ subdomain' = [subdomain EXCEPT ![t] = s]
            /\ bySubdomain' = [bySubdomain EXCEPT ![s] = t]
            /\ Register(a, t)
            /\ UNCHANGED <<byPort, listening>>
       ELSE UNCHANGED <<indexVars, subdomain>>
    /\ UNCHANGED <<nextPortHint, publicPort, binding>>

\* Why a TCP tunnel is refused before any bind; p is NoPort when the agent
\* leaves the choice to the server.
TcpRefusal(a, p) ==
    IF AtLimit(a) THEN "too_many_tunnels"
    ELSE IF p = NoPort
    THEN IF FreeSteps(a) = {} THEN "no_ports_available" ELSE "ok"
    ELSE IF p \notin Granted(a) THEN "port_forbidden"
    ELSE IF byPort[p] # NoTunnel THEN "port_taken"
    ELSE "ok"

RefuseTcp(a, t, p) ==
    /\ Asks(a, t, TcpRefusal(a, p))
    /\ TcpRefusal(a, p) # "ok"
    /\ UNCHANGED <<indexVars, nextPortHint, subdomain, publicPort, binding>>

\* The port is taken before the await; the rest waits for the bind.
Claim(a, t, p) ==
    /\ Connected(a)
    /\ owner[t] = NoSession
    /\ owner' = [owner EXCEPT ![t] = a]
    /\ publicPort' = [publicPort EXCEPT ![t] = p]
    /\ byPort' = [byPort EXCEPT ![p] = t]
    /\ binding' = binding \cup {t}
    /\ UNCHANGED <<session, agentTunnels, byId, bySubdomain, listening,
                   subdomain, reply>>

ClaimRequested(a, t, p) ==
    /\ Claim(a, t, p)
    /\ TcpRefusal(a, p) = "ok"
    /\ UNCHANGED nextPortHint

ClaimAny(a, t) ==
    /\ owner[t] = NoSession
    /\ TcpRefusal(a, NoPort) = "ok"
    /\ \E i \in FreeSteps(a) :
          /\ \A j \in FreeSteps(a) : i <= j
          /\ Claim(a, t, Candidate(a, i))
          /\ nextPortHint' = NextHint(a, Candidate(a, i))

\* The listener is up: open() goes on after its await, whatever has become of
\* the session meanwhile, and the request is answered.
BindOk(t) ==
    /\ t \in binding
    /\ binding' = binding \ {t}
    /\ listening' = listening \cup {t}
    /\ Register(owner[t], t)
    /\ reply' = [reply EXCEPT ![t] = Answer(owner[t], "ok")]
    /\ UNCHANGED <<session, bySubdomain, byPort, nextPortHint, owner, subdomain,
                   publicPort>>

\* Mutated form: the port stays claimed.
BindFailKeepingPort(t) ==
    /\ t \in binding
    /\ binding' = binding \ {t}
    /\ reply' = [reply EXCEPT ![t] = Answer(owner[t], "port_taken")]
    /\ UNCHANGED <<session, indexVars, nextPortHint, owner, subdomain,
                   publicPort>>

\* Mutated form: the agent is not told.
BindFailUnanswered(t) ==
    /\ t \in binding
    /\ binding' = binding \ {t}
    /\ byPort' = [byPort EXCEPT ![publicPort[t]] = NoTunnel]
    /\ UNCHANGED <<session, agentTunnels, byId, bySubdomain, listening,
                   nextPortHint, owner, subdomain, publicPort, reply>>

\* 'error' before 'listening': the port is given back.
BindFail(t) ==
    /\ t \in binding
    /\ binding' = binding \ {t}
    /\ byPort' = [byPort EXCEPT ![publicPort[t]] = NoTunnel]
    /\ reply' = [reply EXCEPT ![t] = Answer(owner[t], "port_taken")]
    /\ UNCHANGED <<session, agentTunnels, byId, bySubdomain, listening,
                   nextPortHint, owner, subdomain, publicPort>>

-----------------------------------------------------------------------------
SessionStep(a) ==
    \/ Hello(a)
    \/ CloseSession(a)
    \/ DestroySession(a)
    \/ \E t \in Tunnels :
          \/ CloseTunnel(a, t)
          \/ BadRequest(a, t)
          \/ \E s \in Subdomains : OpenHttp(a, t, s)
          \/ \E p \in Ports \cup {NoPort} : RefuseTcp(a, t, p)
          \/ \E p \in Ports : ClaimRequested(a, t, p)
          \/ ClaimAny(a, t)

BindStep(t) == BindOk(t) \/ BindFail(t)

Next == \/ \E a \in Sessions : SessionStep(a)
        \/ \E t \in Tunnels : BindStep(t)

Spec == Init /\ [][Next]_vars

-----------------------------------------------------------------------------
TypeOK ==
    /\ session \in [Sessions -> {"new", "open", "closing", "closed"}]
    /\ agentTunnels \in [Sessions -> SUBSET Tunnels]
    /\ byId \subseteq Tunnels
    /\ bySubdomain \in [Subdomains -> Tunnels \cup {NoTunnel}]
    /\ byPort \in [Ports -> Tunnels \cup {NoTunnel}]
    /\ nextPortHint \in Ports
    /\ owner \in [Tunnels -> Sessions \cup {NoSession}]
    /\ subdomain \in [Tunnels -> Subdomains \cup {NoSubdomain}]
    /\ publicPort \in [Tunnels -> Ports \cup {NoPort}]
    /\ binding \subseteq Tunnels
    /\ listening \subseteq Tunnels
    /\ reply \in [Tunnels -> Replies]

\* Every subdomain leads to a registered tunnel of that name and back, and
\* every port to one that is registered or about to be (open and close keep
\* byId, bySubdomain, byPort and the session's own map in step, with the await
\* of a bind in the middle of one of them).
SubdomainsConsistent ==
    /\ \A s \in Subdomains :
          bySubdomain[s] # NoTunnel => /\ bySubdomain[s] \in byId
                                       /\ subdomain[bySubdomain[s]] = s
    /\ \A t \in byId :
          subdomain[t] # NoSubdomain => bySubdomain[subdomain[t]] = t

PortsConsistent ==
    /\ \A p \in Ports :
          byPort[p] # NoTunnel => /\ byPort[p] \in byId \cup binding
                                  /\ publicPort[byPort[p]] = p
    /\ \A t \in byId \cup binding :
          publicPort[t] # NoPort => byPort[publicPort[t]] = t

OwnersConsistent ==
    \A a \in Sessions : agentTunnels[a] = {t \in byId : owner[t] = a}

IndexConsistent ==
    SubdomainsConsistent /\ PortsConsistent /\ OwnersConsistent

\* A listener is up for every registered TCP tunnel and for nothing else: none
\* outlives its tunnel, and no two listen on one port (TcpFrontend.bind sets
\* tunnel.listener, Registry.close closes it, a failed bind keeps none).
ListenersMatch ==
    /\ listening = {t \in byId : publicPort[t] # NoPort}
    /\ \A t, u \in listening : publicPort[t] = publicPort[u] => t = u

\* A visitor of a subdomain is never led to a session that is gone: destroy
\* releases every HTTP tunnel, and none is opened for a session destroyed.
HttpRoutesToLive ==
    \A s \in Subdomains :
       bySubdomain[s] # NoTunnel => Connected(owner[bySubdomain[s]])

\* A public name never passes from one tunnel to another in one step: whoever
\* holds it keeps it until it is released ("subdomain_taken", "port_taken").
Keeps(old, new) == old = NoTunnel \/ new = old \/ new = NoTunnel

NoTakeover ==
    [][/\ \A s \in Subdomains : Keeps(bySubdomain[s], bySubdomain'[s])
       /\ \A p \in Ports : Keeps(byPort[p], byPort'[p])]_vars

\* The search of claimPort is right while the hint is no further below the grant
\* than the grant is long: the dividend of registry.ts:187 is not negative then.
HintInReach(a) == MinPort(a) - nextPortHint <= Span(a)

\* A grant for which it always is, however far down other tokens take the hint.
\* Nothing in the code asks for it: config.ts:110 takes "ports" as it stands.
SafeGrant(a) == MinPort(a) - TcpPortMin <= Span(a)

\* A tunnel's port is never outside the server's range, nor above its token's
\* grant.  It is inside the grant if the grant is safe: the hint it is searched
\* from is left by other tokens too, those with grants that are not safe and
\* with ports they should not have got among them.
WithinGrant ==
    \A t \in Tunnels : publicPort[t] # NoPort =>
       /\ publicPort[t] \in TcpPortMin..MaxPort(owner[t])
       /\ SafeGrant(owner[t]) => publicPort[t] \in Granted(owner[t])

\* While the hint is in reach an agent is told that no port is left only when
\* every port of its grant is taken: the search wraps round and misses none.
ToldNoneLeft(t) == reply[t] # "no_ports_available" /\ reply'[t] = "no_ports_available"

NoPortsTruthful ==
    [][\A t \in Tunnels :
          ToldNoneLeft(t) /\ HintInReach(owner'[t])
             => \A p \in Granted(owner'[t]) : byPort[p] # NoTunnel]_vars

\* No request is forgotten: each has its answer or waits for its bind, which
\* ends one way or the other, whatever happens to its session meanwhile
\* (openTunnel awaits open(), and answers in both of its branches).
Answered ==
    \A t \in Tunnels : owner[t] # NoSession => reply[t] # "none" \/ t \in binding

-----------------------------------------------------------------------------
\* What the documentation says and the code does not do.

\* "All of an agent's tunnels are released when its WebSocket closes"
\* (docs/PROTOCOL.md:123).  A bind that ends after the session did registers a
\* tunnel that nothing will ever release.
ReleasedOnClose ==
    \A t \in byId : session[owner[t]] # "closed"

\* "Inclusive public TCP port range this token may claim" (config.ts:14).  The
\* search gives a token a port below its grant when the grant is not safe and
\* the hint is out of reach.
OnlyGranted ==
    \A t \in Tunnels : publicPort[t] # NoPort => publicPort[t] \in Granted(owner[t])
=============================================================================
