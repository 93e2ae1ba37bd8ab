---------------------------- MODULE ServerProofs ----------------------------
(***************************************************************************)
(* What the server keeps: in memory the registry, for any number of        *)
(* sessions, tunnels, names and ports; on disk the health log, for every   *)
(* set of ceilings and any number of events, refused calls and crashes.    *)
(* The two share nothing, and each has its own specification.              *)
(***************************************************************************)
EXTENDS Registry, HealthLog, TLAPS

-----------------------------------------------------------------------------
(***************************************************************************)
(* The registry.  The consistency of its four maps is not inductive by     *)
(* itself: a step that gives a name to a tunnel needs to know that the     *)
(* tunnel is new and has no name yet, and the step after a bind that its   *)
(* tunnel has a port and no subdomain.  Fresh says so.                     *)
(***************************************************************************)
Fresh ==
    /\ binding \cap byId = {}
    /\ \A t \in Tunnels :
          owner[t] = NoSession => /\ t \notin byId \cup binding
                                  /\ publicPort[t] = NoPort
                                  /\ subdomain[t] = NoSubdomain
    /\ \A t \in binding : publicPort[t] # NoPort /\ subdomain[t] = NoSubdomain

Listening == listening = {t \in byId : publicPort[t] # NoPort}

\* HttpRoutesToLive, said of tunnels rather than of names.
HttpLive == \A t \in byId : subdomain[t] # NoSubdomain => Connected(owner[t])

\* What relates the maps, the owners and the listeners to each other.
Maps == /\ SubdomainsConsistent
        /\ PortsConsistent
        /\ OwnersConsistent
        /\ Fresh
        /\ Listening

IInv == TypeOK /\ Maps /\ HttpLive

-----------------------------------------------------------------------------
\* The arithmetic of claimPort.

\* JavaScript's remainder lies strictly between -n and n, and below 0 only for
\* a dividend below 0.
LEMMA JsModRange ==
  ASSUME NEW x \in Int, NEW n \in Int, n > 0
  PROVE  /\ JsMod(x, n) \in (1 - n)..(n - 1)
         /\ x >= 0 => JsMod(x, n) \in 0..(n - 1)
         /\ x < 0 => JsMod(x, n) \in x..0
<1>1. CASE x >= 0
  <2>1. x % n \in 0..(n - 1)
    BY <1>1
  <2> QED
    BY <1>1, <2>1 DEF JsMod
<1>2. CASE x < 0
  <2>1. (-x) % n \in 0..(n - 1)
    BY <1>2
  <2>2. (-x) % n <= -x
    <3> DEFINE z == -x
    <3>1. z \in Nat
      BY <1>2
    <3> HIDE DEF z
    <3> DEFINE k == z \div n
               r == z % n
    <3>2. z = n * k + r /\ k \in Nat /\ r \in Int
      BY <3>1
    <3> HIDE DEF k, r
    <3>3. n * k >= 0
      BY <3>2
    <3>4. r <= z
      BY <3>1, <3>2, <3>3
    <3> QED
      BY <3>4 DEF z, r
  <2> QED
    BY <1>2, <2>1, <2>2 DEF JsMod
<1> QED
  BY <1>1, <1>2

LEMMA RangeType ==
  ASSUME NEW a \in Sessions
  PROVE  MinPort(a) \in Int /\ MaxPort(a) \in Int /\ Span(a) \in Int
BY RegistryAssumption DEF MinPort, MaxPort, Span, Token

\* What claimPort looks at is a port number, though not always one of the grant.
LEMMA CandidateType ==
  ASSUME TypeOK, NEW a \in Sessions, NEW i \in 0..(Span(a) - 1)
  PROVE  /\ Candidate(a, i) \in Ports
         /\ Candidate(a, i) \in (MinPort(a) - Span(a) + 1)..MaxPort(a)
<1> DEFINE x == nextPortHint - MinPort(a) + i + Span(a)
<1>1. MinPort(a) \in Int /\ MaxPort(a) \in Int /\ Span(a) \in Int
  BY RangeType
<1>2. nextPortHint \in Int /\ i \in Int /\ Span(a) > 0
  BY <1>1, RegistryAssumption DEF TypeOK
<1>3. x \in Int
  BY <1>1, <1>2
<1>4. JsMod(x, Span(a)) \in (1 - Span(a))..(Span(a) - 1)
  BY <1>1, <1>2, <1>3, JsModRange
<1>5. Candidate(a, i) = MinPort(a) + JsMod(x, Span(a))
  BY DEF Candidate
<1> HIDE DEF x
<1>6. Candidate(a, i) \in (MinPort(a) - Span(a) + 1)..(MinPort(a) + Span(a) - 1)
  BY <1>1, <1>4, <1>5
<1>7. MinPort(a) + Span(a) - 1 = MaxPort(a)
  BY <1>1 DEF Span
<1> QED
  BY <1>6, <1>7, PortsAssumption

LEMMA NextHintType ==
  ASSUME NEW a \in Sessions, Span(a) > 0, NEW p \in Ports,
         p \in (MinPort(a) - Span(a) + 1)..MaxPort(a)
  PROVE  NextHint(a, p) \in Ports
<1>1. MinPort(a) \in Int /\ MaxPort(a) \in Int /\ Span(a) \in Int
  BY RangeType
<1>2. MinPort(a) <= MaxPort(a)
  BY <1>1 DEF Span
<1>3. NextHint(a, p) \in (MinPort(a) - Span(a) + 1)..MaxPort(a)
  BY <1>1, <1>2 DEF NextHint
<1> QED
  BY <1>3, PortsAssumption

-----------------------------------------------------------------------------
\* Each kind of step keeps the type invariant and the relations of the maps.

LEMMA CloseAllStep ==
  ASSUME TypeOK, Maps, NEW a \in Sessions, NEW gone \in SUBSET agentTunnels[a],
         CloseAll(a, gone),
         UNCHANGED <<nextPortHint, owner, subdomain, publicPort, binding, reply>>
  PROVE  /\ session' \in [Sessions -> {"new", "open", "closing", "closed"}]
               => TypeOK'
         /\ Maps'
         /\ byId' = byId \ gone
<1>1. /\ gone \cap byId = gone
      /\ gone \subseteq Tunnels
      /\ \A t \in gone : t \in byId /\ owner[t] = a
  BY DEF TypeOK, Maps, OwnersConsistent
<1>2. /\ byId' = byId \ gone
      /\ bySubdomain' = [s \in Subdomains |->
            IF \E t \in gone : subdomain[t] = s THEN NoTunnel ELSE bySubdomain[s]]
      /\ byPort' = [p \in Ports |->
            IF \E t \in gone : publicPort[t] = p THEN NoTunnel ELSE byPort[p]]
      /\ agentTunnels' = [agentTunnels EXCEPT ![a] = @ \ gone]
      /\ listening' = listening \ gone
  BY <1>1 DEF CloseAll
<1>3. ASSUME session' \in [Sessions -> {"new", "open", "closing", "closed"}]
      PROVE  TypeOK'
  BY <1>2, <1>3 DEF TypeOK
<1>4. SubdomainsConsistent'
  <2>1. ASSUME NEW s \in Subdomains, bySubdomain'[s] # NoTunnel
        PROVE  /\ bySubdomain'[s] \in byId'
               /\ subdomain'[bySubdomain'[s]] = s
    BY <1>2, <2>1 DEF TypeOK, Maps, SubdomainsConsistent
  <2>2. ASSUME NEW t \in byId', subdomain'[t] # NoSubdomain
        PROVE  bySubdomain'[subdomain'[t]] = t
    <3>1. t \in byId /\ t \notin gone /\ t \in Tunnels
      BY <1>2 DEF TypeOK
    <3>2. subdomain[t] \in Subdomains /\ bySubdomain[subdomain[t]] = t
      BY <2>2, <3>1 DEF TypeOK, Maps, SubdomainsConsistent
    <3>3. ASSUME NEW u \in gone, subdomain[u] = subdomain[t] PROVE FALSE
      <4>1. bySubdomain[subdomain[u]] = u
        BY <1>1, <3>2, <3>3, RegistryAssumption
           DEF Maps, SubdomainsConsistent
      <4> QED
        BY <3>1, <3>2, <3>3, <4>1
    <3> QED
      BY <1>2, <3>2, <3>3
  <2> QED
    BY <2>1, <2>2 DEF SubdomainsConsistent
<1>5. PortsConsistent'
  <2>1. ASSUME NEW p \in Ports, byPort'[p] # NoTunnel
        PROVE  /\ byPort'[p] \in byId' \cup binding'
               /\ publicPort'[byPort'[p]] = p
    BY <1>2, <2>1 DEF TypeOK, Maps, PortsConsistent
  <2>2. ASSUME NEW t \in byId' \cup binding', publicPort'[t] # NoPort
        PROVE  byPort'[publicPort'[t]] = t
    <3>1. t \in byId \cup binding /\ t \notin gone /\ t \in Tunnels
      BY <1>1, <1>2 DEF TypeOK, Maps, Fresh
    <3>2. publicPort[t] \in Ports /\ byPort[publicPort[t]] = t
      BY <2>2, <3>1 DEF TypeOK, Maps, PortsConsistent
    <3>3. ASSUME NEW u \in gone, publicPort[u] = publicPort[t] PROVE FALSE
      <4>1. byPort[publicPort[u]] = u
        BY <1>1, <3>2, <3>3, RegistryAssumption DEF Maps, PortsConsistent
      <4> QED
        BY <3>1, <3>2, <3>3, <4>1
    <3> QED
      BY <1>2, <3>2, <3>3
  <2> QED
    BY <2>1, <2>2 DEF PortsConsistent
<1>6. OwnersConsistent'
  <2>1. ASSUME NEW b \in Sessions
        PROVE  agentTunnels'[b] = {t \in byId' : owner'[t] = b}
    <3>1. agentTunnels[b] = {t \in byId : owner[t] = b}
      BY DEF Maps, OwnersConsistent
    <3>2. CASE b = a
      BY <1>1, <1>2, <3>1, <3>2 DEF TypeOK
    <3>3. CASE b # a
      BY <1>1, <1>2, <3>1, <3>3 DEF TypeOK
    <3> QED
      BY <3>2, <3>3
  <2> QED
    BY <2>1 DEF OwnersConsistent
<1>7. Fresh'
  BY <1>2 DEF Maps, Fresh
<1>8. Listening'
  BY <1>1, <1>2 DEF Maps, Listening
<1> QED
  BY <1>2, <1>3, <1>4, <1>5, <1>6, <1>7, <1>8 DEF Maps

\* A refused request changes nothing but the owner of its id and its answer.
LEMMA RefusedStep ==
  ASSUME TypeOK, Maps, NEW a \in Sessions, NEW t \in Tunnels, NEW code \in Replies,
         Asks(a, t, code),
         UNCHANGED <<indexVars, nextPortHint, subdomain, publicPort, binding>>
  PROVE  TypeOK' /\ Maps'
<1> USE DEF Asks, indexVars
<1>1. Answer(a, code) \in Replies
  BY DEF Answer, Replies
<1>2. /\ t \notin byId \cup binding
      /\ owner' = [owner EXCEPT ![t] = a]
      /\ a # NoSession
  BY RegistryAssumption DEF Maps, Fresh
<1>3. TypeOK'
  BY <1>1 DEF TypeOK
<1>4. SubdomainsConsistent' /\ PortsConsistent' /\ Listening'
  BY DEF Maps, SubdomainsConsistent, PortsConsistent, Listening
<1>5. OwnersConsistent'
  <2>1. \A b \in Sessions : agentTunnels[b] = {u \in byId : owner'[u] = b}
    BY <1>2 DEF TypeOK, Maps, OwnersConsistent
  <2> QED
    BY <2>1 DEF OwnersConsistent
<1>6. Fresh'
  BY <1>2 DEF TypeOK, Maps, Fresh
<1> QED
  BY <1>3, <1>4, <1>5, <1>6 DEF Maps

LEMMA HttpOpenedStep ==
  ASSUME TypeOK, Maps, NEW a \in Sessions, NEW t \in Tunnels, NEW s \in Subdomains,
         OpenHttp(a, t, s), HttpRefusal(a, s) = "ok"
  PROVE  TypeOK' /\ Maps'
<1>1. /\ bySubdomain[s] = NoTunnel
      /\ owner[t] = NoSession
      /\ owner' = [owner EXCEPT ![t] = a]
      /\ reply' = [reply EXCEPT ![t] = Answer(a, "ok")]
      /\ subdomain' = [subdomain EXCEPT ![t] = s]
      /\ bySubdomain' = [bySubdomain EXCEPT ![s] = t]
      /\ byId' = byId \cup {t}
      /\ agentTunnels' = [agentTunnels EXCEPT ![a] = @ \cup {t}]
      /\ UNCHANGED <<session, byPort, listening, nextPortHint, publicPort, binding>>
  BY DEF OpenHttp, Asks, Register, HttpRefusal
<1>2. /\ t \notin byId \cup binding
      /\ publicPort[t] = NoPort
      /\ subdomain[t] = NoSubdomain
      /\ a # NoSession
      /\ t # NoTunnel
      /\ s # NoSubdomain
  BY <1>1, RegistryAssumption DEF Maps, Fresh
<1>3. TypeOK'
  <2>1. Answer(a, "ok") \in Replies
    BY DEF Answer, Replies
  <2> QED
    BY <1>1, <2>1 DEF TypeOK
<1>4. SubdomainsConsistent'
  <2>1. ASSUME NEW r \in Subdomains, bySubdomain'[r] # NoTunnel
        PROVE  /\ bySubdomain'[r] \in byId'
               /\ subdomain'[bySubdomain'[r]] = r
    BY <1>1, <1>2, <2>1 DEF TypeOK, Maps, SubdomainsConsistent
  <2>2. ASSUME NEW u \in byId', subdomain'[u] # NoSubdomain
        PROVE  bySubdomain'[subdomain'[u]] = u
    <3>1. CASE u = t
      BY <1>1, <3>1 DEF TypeOK
    <3>2. CASE u # t
      <4>1. u \in byId /\ u \in Tunnels /\ subdomain'[u] = subdomain[u]
        BY <1>1, <3>2 DEF TypeOK
      <4>2. subdomain[u] \in Subdomains /\ bySubdomain[subdomain[u]] = u
        BY <2>2, <4>1 DEF TypeOK, Maps, SubdomainsConsistent
      <4>3. u # NoTunnel /\ subdomain[u] # s
        BY <1>1, <4>1, <4>2, RegistryAssumption
      <4> QED
        BY <1>1, <4>1, <4>2, <4>3 DEF TypeOK
    <3> QED
      BY <3>1, <3>2
  <2> QED
    BY <2>1, <2>2 DEF SubdomainsConsistent
<1>5. PortsConsistent'
  BY <1>1, <1>2 DEF TypeOK, Maps, PortsConsistent
<1>6. OwnersConsistent'
  <2>1. \A b \in Sessions : agentTunnels'[b] = {u \in byId' : owner'[u] = b}
    BY <1>1, <1>2 DEF TypeOK, Maps, OwnersConsistent
  <2> QED
    BY <2>1 DEF OwnersConsistent
<1>7. Fresh'
  BY <1>1, <1>2 DEF TypeOK, Maps, Fresh
<1>8. Listening'
  BY <1>1, <1>2 DEF Maps, Listening
<1> QED
  BY <1>3, <1>4, <1>5, <1>6, <1>7, <1>8 DEF Maps

\* A port nobody has goes to a new tunnel, which is not registered yet.
LEMMA ClaimStep ==
  ASSUME TypeOK, Maps, NEW a \in Sessions, NEW t \in Tunnels, NEW p \in Ports,
         byPort[p] = NoTunnel, Claim(a, t, p), nextPortHint' \in Ports
  PROVE  TypeOK' /\ Maps'
<1> USE DEF Claim
<1>1. /\ t \notin byId \cup binding
      /\ publicPort[t] = NoPort
      /\ subdomain[t] = NoSubdomain
      /\ a # NoSession
      /\ t # NoTunnel
      /\ p # NoPort
  BY RegistryAssumption DEF Maps, Fresh
<1>2. TypeOK'
  BY DEF TypeOK
<1>3. SubdomainsConsistent'
  BY DEF Maps, SubdomainsConsistent
<1>4. PortsConsistent'
  <2>1. ASSUME NEW q \in Ports, byPort'[q] # NoTunnel
        PROVE  /\ byPort'[q] \in byId' \cup binding'
               /\ publicPort'[byPort'[q]] = q
    BY <1>1, <2>1 DEF TypeOK, Maps, PortsConsistent
  <2>2. ASSUME NEW u \in byId' \cup binding', publicPort'[u] # NoPort
        PROVE  byPort'[publicPort'[u]] = u
    <3>1. CASE u = t
      BY <3>1 DEF TypeOK
    <3>2. CASE u # t
      <4>1. /\ u \in byId \cup binding
            /\ u \in Tunnels
            /\ publicPort'[u] = publicPort[u]
        BY <3>2 DEF TypeOK
      <4>2. publicPort[u] \in Ports /\ byPort[publicPort[u]] = u
        BY <2>2, <4>1 DEF TypeOK, Maps, PortsConsistent
      <4>3. u # NoTunnel /\ publicPort[u] # p
        BY <4>1, <4>2, RegistryAssumption
      <4> QED
        BY <4>1, <4>2, <4>3 DEF TypeOK
    <3> QED
      BY <3>1, <3>2
  <2> QED
    BY <2>1, <2>2 DEF PortsConsistent
<1>5. OwnersConsistent'
  <2>1. \A b \in Sessions : agentTunnels[b] = {u \in byId : owner'[u] = b}
    BY <1>1 DEF TypeOK, Maps, OwnersConsistent
  <2> QED
    BY <2>1 DEF OwnersConsistent
<1>6. Fresh'
  BY <1>1 DEF TypeOK, Maps, Fresh
<1>7. Listening'
  BY <1>1 DEF TypeOK, Maps, Listening
<1> QED
  BY <1>2, <1>3, <1>4, <1>5, <1>6, <1>7 DEF Maps

\* The tunnel a bind was for has a port, no subdomain and an owner.
LEMMA BindOkStep ==
  ASSUME TypeOK, Maps, NEW t \in Tunnels, BindOk(t)
  PROVE  TypeOK' /\ Maps'
<1> USE DEF BindOk, Register
<1>1. /\ t \in binding /\ t \notin byId
      /\ publicPort[t] # NoPort
      /\ subdomain[t] = NoSubdomain
      /\ owner[t] \in Sessions
  BY DEF TypeOK, Maps, Fresh
<1>2. TypeOK'
  <2>1. Answer(owner[t], "ok") \in Replies
    BY DEF Answer, Replies
  <2> QED
    BY <1>1, <2>1 DEF TypeOK
<1>3. SubdomainsConsistent'
  BY <1>1 DEF TypeOK, Maps, SubdomainsConsistent
<1>4. PortsConsistent'
  BY <1>1 DEF TypeOK, Maps, PortsConsistent
<1>5. OwnersConsistent'
  <2>1. \A b \in Sessions : agentTunnels'[b] = {u \in byId' : owner[u] = b}
    BY <1>1 DEF TypeOK, Maps, OwnersConsistent
  <2> QED
    BY <2>1 DEF OwnersConsistent
<1>6. Fresh'
  BY <1>1 DEF TypeOK, Maps, Fresh
<1>7. Listening'
  BY <1>1 DEF Maps, Listening
<1> QED
  BY <1>2, <1>3, <1>4, <1>5, <1>6, <1>7 DEF Maps

\* The port given back is the failed tunnel's own.
LEMMA BindFailStep ==
  ASSUME TypeOK, Maps, NEW t \in Tunnels, BindFail(t)
  PROVE  TypeOK' /\ Maps'
<1> USE DEF BindFail
<1>1. /\ t \in binding /\ t \notin byId
      /\ publicPort[t] \in Ports
      /\ byPort[publicPort[t]] = t
  BY DEF TypeOK, Maps, Fresh, PortsConsistent
<1>2. TypeOK'
  <2>1. Answer(owner[t], "port_taken") \in Replies
    BY DEF Answer, Replies
  <2> QED
    BY <1>1, <2>1 DEF TypeOK
<1>3. SubdomainsConsistent'
  BY DEF Maps, SubdomainsConsistent
<1>4. PortsConsistent'
  <2>1. ASSUME NEW q \in Ports, byPort'[q] # NoTunnel
        PROVE  /\ byPort'[q] \in byId' \cup binding'
               /\ publicPort'[byPort'[q]] = q
    BY <1>1, <2>1 DEF TypeOK, Maps, PortsConsistent
  <2>2. ASSUME NEW u \in byId' \cup binding', publicPort'[u] # NoPort
        PROVE  byPort'[publicPort'[u]] = u
    <3>1. u \in byId \cup binding /\ u # t /\ u \in Tunnels
      BY <1>1 DEF TypeOK
    <3>2. publicPort[u] \in Ports /\ byPort[publicPort[u]] = u
      BY <2>2, <3>1 DEF TypeOK, Maps, PortsConsistent
    <3> QED
      BY <1>1, <3>1, <3>2 DEF TypeOK
  <2> QED
    BY <2>1, <2>2 DEF PortsConsistent
<1>5. OwnersConsistent'
  BY DEF Maps, OwnersConsistent
<1>6. Fresh'
  BY DEF TypeOK, Maps, Fresh
<1>7. Listening'
  BY DEF Maps, Listening
<1> QED
  BY <1>2, <1>3, <1>4, <1>5, <1>6, <1>7 DEF Maps

-----------------------------------------------------------------------------
\* The inductive invariant.

LEMMA InitInv == Init => IInv
<1> SUFFICES ASSUME Init PROVE IInv
  OBVIOUS
<1>1. TypeOK
  BY RegistryAssumption DEF Init, TypeOK, Replies
<1>2. Maps
  BY RegistryAssumption
     DEF Init, Maps, SubdomainsConsistent, PortsConsistent, OwnersConsistent,
         Fresh, Listening
<1>3. HttpLive
  BY DEF Init, HttpLive
<1> QED
  BY <1>1, <1>2, <1>3 DEF IInv

\* What claimPort finds is a free port, and so is the hint it leaves.
LEMMA SearchedPort ==
  ASSUME TypeOK, NEW a \in Sessions, NEW i \in FreeSteps(a)
  PROVE  /\ Candidate(a, i) \in Ports
         /\ byPort[Candidate(a, i)] = NoTunnel
         /\ NextHint(a, Candidate(a, i)) \in Ports
<1>1. i \in 0..(Span(a) - 1) /\ byPort[Candidate(a, i)] = NoTunnel
  BY DEF FreeSteps
<1>2. /\ Candidate(a, i) \in Ports
      /\ Candidate(a, i) \in (MinPort(a) - Span(a) + 1)..MaxPort(a)
  BY <1>1, CandidateType
<1>3. Span(a) > 0
  BY <1>1, RangeType
<1> QED
  BY <1>1, <1>2, <1>3, NextHintType

LEMMA SessionStepInv ==
  ASSUME IInv, NEW a \in Sessions, SessionStep(a)
  PROVE  IInv'
<1> USE DEF IInv
<1>1. CASE Hello(a) \/ CloseSession(a)
  <2>1. /\ session' \in [Sessions -> {"new", "open", "closing", "closed"}]
        /\ \A b \in Sessions : Connected(b) => Connected(b)'
        /\ UNCHANGED <<indexVars, nextPortHint, owner, subdomain, publicPort,
                       binding, reply>>
    BY <1>1 DEF Hello, CloseSession, Connected, TypeOK
  <2>2. TypeOK' /\ Maps'
    BY <2>1 DEF indexVars, TypeOK, Maps, SubdomainsConsistent, PortsConsistent,
                OwnersConsistent, Fresh, Listening
  <2>3. HttpLive'
    <3>1. \A t \in byId : subdomain[t] # NoSubdomain => owner[t] \in Sessions
      BY DEF TypeOK, Maps, Fresh
    <3> QED
      BY <2>1, <3>1 DEF indexVars, HttpLive
  <2> QED
    BY <2>2, <2>3
<1>2. CASE DestroySession(a)
  <2>1. TypeOK' /\ Maps' /\ byId' = byId \ agentTunnels[a]
    <3>1. session' \in [Sessions -> {"new", "open", "closing", "closed"}]
      BY <1>2 DEF DestroySession, TypeOK
    <3> QED
      BY <1>2, <3>1, CloseAllStep DEF DestroySession
  <2>2. HttpLive'
    <3> SUFFICES ASSUME NEW t \in byId', subdomain'[t] # NoSubdomain
                 PROVE  Connected(owner[t])'
      BY <1>2 DEF DestroySession, HttpLive
    <3>1. /\ t \in byId /\ owner[t] \in Sessions \ {a}
          /\ Connected(owner[t])
      BY <1>2, <2>1
         DEF DestroySession, TypeOK, Maps, Fresh, OwnersConsistent, HttpLive
    <3> QED
      BY <1>2, <3>1 DEF DestroySession, Connected, TypeOK
  <2> QED
    BY <2>1, <2>2
<1>3. ASSUME NEW t \in Tunnels, CloseTunnel(a, t) PROVE IInv'
  <2>1. TypeOK' /\ Maps' /\ byId' = byId \ {t}
    BY <1>3, CloseAllStep DEF CloseTunnel, TypeOK
  <2>2. HttpLive'
    BY <1>3, <2>1 DEF CloseTunnel, HttpLive, Connected
  <2> QED
    BY <2>1, <2>2
<1>4. ASSUME NEW t \in Tunnels, NEW code \in Replies, Asks(a, t, code),
             UNCHANGED <<indexVars, nextPortHint, subdomain, publicPort, binding>>
      PROVE  IInv'
  <2>1. TypeOK' /\ Maps'
    BY <1>4, RefusedStep
  <2>2. HttpLive'
    BY <1>4 DEF Asks, indexVars, HttpLive, Connected, TypeOK
  <2> QED
    BY <2>1, <2>2
<1>5. ASSUME NEW t \in Tunnels, BadRequest(a, t) PROVE IInv'
  BY <1>4, <1>5 DEF BadRequest, Replies
<1>6. ASSUME NEW t \in Tunnels, NEW p \in Ports \cup {NoPort},
             RefuseTcp(a, t, p)
      PROVE  IInv'
  <2>1. TcpRefusal(a, p) \in Replies
    BY DEF TcpRefusal, Replies
  <2> QED
    BY <1>4, <1>6, <2>1 DEF RefuseTcp
<1>7. ASSUME NEW t \in Tunnels, NEW s \in Subdomains, OpenHttp(a, t, s)
      PROVE  IInv'
  <2>1. CASE HttpRefusal(a, s) # "ok"
    <3>1. HttpRefusal(a, s) \in Replies
      BY DEF HttpRefusal, Replies
    <3> QED
      BY <1>4, <1>7, <2>1, <3>1 DEF OpenHttp, indexVars
  <2>2. CASE HttpRefusal(a, s) = "ok"
    <3>1. TypeOK' /\ Maps'
      BY <1>7, <2>2, HttpOpenedStep
    <3>2. /\ Connected(a)
          /\ owner' = [owner EXCEPT ![t] = a]
          /\ subdomain' = [subdomain EXCEPT ![t] = s]
          /\ byId' = byId \cup {t}
          /\ UNCHANGED session
      BY <1>7, <2>2 DEF OpenHttp, Asks, Register
    <3>3. HttpLive'
      BY <3>2 DEF HttpLive, Connected, TypeOK
    <3> QED
      BY <3>1, <3>3
  <2> QED
    BY <2>1, <2>2
<1>8. ASSUME NEW t \in Tunnels, NEW p \in Ports, byPort[p] = NoTunnel,
             Claim(a, t, p), nextPortHint' \in Ports
      PROVE  IInv'
  <2>1. TypeOK' /\ Maps'
    BY <1>8, ClaimStep
  <2>2. HttpLive'
    BY <1>8 DEF Claim, HttpLive, Connected, TypeOK
  <2> QED
    BY <2>1, <2>2
<1>9. ASSUME NEW t \in Tunnels, NEW p \in Ports, ClaimRequested(a, t, p)
      PROVE  IInv'
  <2>1. byPort[p] = NoTunnel
    BY <1>9, RegistryAssumption DEF ClaimRequested, TcpRefusal
  <2> QED
    BY <1>8, <1>9, <2>1 DEF ClaimRequested, TypeOK
<1>10. ASSUME NEW t \in Tunnels, ClaimAny(a, t) PROVE IInv'
  <2>1. PICK i \in FreeSteps(a) : /\ Claim(a, t, Candidate(a, i))
                                 /\ nextPortHint' = NextHint(a, Candidate(a, i))
    BY <1>10 DEF ClaimAny
  <2> QED
    BY <1>8, <2>1, SearchedPort
<1> QED
  BY <1>1, <1>2, <1>3, <1>5, <1>6, <1>7, <1>9, <1>10 DEF SessionStep

LEMMA BindStepInv ==
  ASSUME IInv, NEW t \in Tunnels, BindStep(t)
  PROVE  IInv'
<1> USE DEF IInv
<1>1. CASE BindOk(t)
  <2>1. TypeOK' /\ Maps'
    BY <1>1, BindOkStep
  <2>2. HttpLive'
    BY <1>1 DEF BindOk, Register, HttpLive, Connected, Maps, Fresh
  <2> QED
    BY <2>1, <2>2
<1>2. CASE BindFail(t)
  <2>1. TypeOK' /\ Maps'
    BY <1>2, BindFailStep
  <2>2. HttpLive'
    BY <1>2 DEF BindFail, HttpLive, Connected
  <2> QED
    BY <2>1, <2>2
<1> QED
  BY <1>1, <1>2 DEF BindStep

LEMMA StepInv == IInv /\ [Next]_vars => IInv'
<1> SUFFICES ASSUME IInv, [Next]_vars PROVE IInv'
  OBVIOUS
<1>1. CASE UNCHANGED vars
  BY <1>1 DEF vars, IInv, TypeOK, Maps, SubdomainsConsistent, PortsConsistent,
              OwnersConsistent, Fresh, Listening, HttpLive, Connected
<1>2. CASE Next
  BY <1>2, SessionStepInv, BindStepInv DEF Next
<1> QED
  BY <1>1, <1>2

LEMMA Inductive == Spec => []IInv
  BY InitInv, StepInv, PTL DEF Spec

-----------------------------------------------------------------------------
\* What the runs check on a few sessions and ports holds for any number.

\* Every variable keeps its type: nextPortHint, which any token moves and every
\* token's search starts from, never leaves the port numbers.
THEOREM TypeCorrect == Spec => []TypeOK
  BY Inductive, PTL DEF IInv

\* open() and close() keep the registry's three maps and the session's own in
\* step, with the await of a bind between the claim of a port and the rest.
THEOREM IndexesConsistent == Spec => []IndexConsistent
<1>1. IInv => IndexConsistent
  BY DEF IInv, Maps, IndexConsistent
<1> QED
  BY Inductive, <1>1, PTL

\* A listener is up for every registered TCP tunnel and for nothing else, and no
\* two share a port (TcpFrontend.bind, Registry.close).
THEOREM ListenersMatchTunnels == Spec => []ListenersMatch
<1>1. ASSUME IInv PROVE ListenersMatch
  <2>1. listening = {t \in byId : publicPort[t] # NoPort}
    BY <1>1 DEF IInv, Maps, Listening
  <2>2. \A t \in listening : byPort[publicPort[t]] = t
    BY <1>1, <2>1 DEF IInv, Maps, PortsConsistent
  <2> QED
    BY <2>1, <2>2 DEF ListenersMatch
<1> QED
  BY Inductive, <1>1, PTL

\* No subdomain leads to a session that is gone (AgentSession.destroy releases
\* every HTTP tunnel, and a destroyed session opens none).
THEOREM RoutesLead == Spec => []HttpRoutesToLive
<1>1. ASSUME IInv PROVE HttpRoutesToLive
  BY <1>1, RegistryAssumption
     DEF IInv, Maps, SubdomainsConsistent, HttpLive, HttpRoutesToLive
<1> QED
  BY Inductive, <1>1, PTL

\* Nobody takes over a name that is held: open() refuses it, and a search only
\* finds free ports.
THEOREM NamesKept == Spec => NoTakeover
<1> DEFINE Kept == /\ \A s \in Subdomains : Keeps(bySubdomain[s], bySubdomain'[s])
                   /\ \A p \in Ports : Keeps(byPort[p], byPort'[p])
<1>1. ASSUME IInv, Next PROVE Kept
  <2> USE DEF Keeps
  <2>1. ASSUME NEW a \in Sessions, NEW gone, CloseAll(a, gone) PROVE Kept
    BY <2>1 DEF CloseAll
  <2>2. ASSUME UNCHANGED <<bySubdomain, byPort>> PROVE Kept
    BY <2>2
  <2>3. ASSUME NEW a \in Sessions, NEW t \in Tunnels, NEW p \in Ports,
               byPort[p] = NoTunnel, Claim(a, t, p)
        PROVE  Kept
    BY <1>1, <2>3 DEF Claim, IInv, TypeOK
  <2>4. ASSUME NEW a \in Sessions, SessionStep(a) PROVE Kept
    <3>1. CASE Hello(a) \/ CloseSession(a)
      BY <2>2, <3>1 DEF Hello, CloseSession, indexVars
    <3>2. CASE DestroySession(a)
      BY <2>1, <3>2 DEF DestroySession
    <3>3. ASSUME NEW t \in Tunnels, CloseTunnel(a, t) PROVE Kept
      BY <2>1, <3>3 DEF CloseTunnel
    <3>4. ASSUME NEW t \in Tunnels,
                 \/ BadRequest(a, t)
                 \/ \E p \in Ports \cup {NoPort} : RefuseTcp(a, t, p)
          PROVE  Kept
      BY <2>2, <3>4 DEF BadRequest, RefuseTcp, indexVars
    <3>5. ASSUME NEW t \in Tunnels, NEW s \in Subdomains, OpenHttp(a, t, s)
          PROVE  Kept
      <4>1. CASE HttpRefusal(a, s) # "ok"
        BY <2>2, <3>5, <4>1 DEF OpenHttp, indexVars
      <4>2. CASE HttpRefusal(a, s) = "ok"
        <5>1. bySubdomain[s] = NoTunnel
          BY <4>2 DEF HttpRefusal
        <5> QED
          BY <1>1, <3>5, <4>2, <5>1 DEF OpenHttp, IInv, TypeOK
      <4> QED
        BY <4>1, <4>2
    <3>6. ASSUME NEW t \in Tunnels, NEW p \in Ports, ClaimRequested(a, t, p)
          PROVE  Kept
      <4>1. byPort[p] = NoTunnel
        BY <3>6, RegistryAssumption DEF ClaimRequested, TcpRefusal
      <4> QED
        BY <2>3, <3>6, <4>1 DEF ClaimRequested
    <3>7. ASSUME NEW t \in Tunnels, ClaimAny(a, t) PROVE Kept
      <4>1. PICK i \in FreeSteps(a) : Claim(a, t, Candidate(a, i))
        BY <3>7 DEF ClaimAny
      <4> QED
        BY <1>1, <2>3, <4>1, SearchedPort DEF IInv
    <3> QED
      BY <2>4, <3>1, <3>2, <3>3, <3>4, <3>5, <3>6, <3>7 DEF SessionStep
  <2>5. ASSUME NEW t \in Tunnels, BindStep(t) PROVE Kept
    BY <1>1, <2>5 DEF BindStep, BindOk, BindFail, IInv, TypeOK
  <2> QED
    BY <1>1, <2>4, <2>5 DEF Next
<1>2. ASSUME IInv, [Next]_vars PROVE [Kept]_vars
  BY <1>1, <1>2
<1> QED
  BY Inductive, <1>2, PTL DEF Spec, NoTakeover

-----------------------------------------------------------------------------
\* Ports inside their grants.  The hint never leaves the server's range at its
\* lower end, whatever grants there are: a search that starts below its grant
\* still looks no lower than the hint.  So a safe grant always has the hint in
\* reach, and the search stays in the grant.

HintInRange == nextPortHint >= TcpPortMin

GrantInv == HintInRange /\ WithinGrant

LEMMA SafeInReach ==
  ASSUME TypeOK, HintInRange, NEW a \in Sessions, SafeGrant(a)
  PROVE  HintInReach(a)
<1>1. /\ MinPort(a) \in Int /\ Span(a) \in Int
      /\ nextPortHint \in Int /\ TcpPortMin \in Int
  BY RangeType, RegistryAssumption DEF TypeOK
<1> QED
  BY <1>1 DEF SafeGrant, HintInReach, HintInRange

LEMMA CandidateBounds ==
  ASSUME TypeOK, HintInRange, NEW a \in Sessions, NEW i \in FreeSteps(a)
  PROVE  /\ Candidate(a, i) \in TcpPortMin..MaxPort(a)
         /\ HintInReach(a) => Candidate(a, i) \in Granted(a)
         /\ NextHint(a, Candidate(a, i)) >= TcpPortMin
<1> DEFINE x == nextPortHint - MinPort(a) + i + Span(a)
           y == JsMod(x, Span(a))
<1>1. MinPort(a) \in Int /\ MaxPort(a) \in Int /\ Span(a) \in Int
  BY RangeType
<1>2. nextPortHint \in Int /\ TcpPortMin \in Int /\ TcpPortMin <= MinPort(a)
  BY RegistryAssumption DEF TypeOK, MinPort, Token
<1>3. i \in Nat /\ Span(a) > 0
  BY <1>1 DEF FreeSteps
<1>4. x \in Int /\ (HintInReach(a) => x >= 0) /\ MinPort(a) + x >= TcpPortMin
  BY <1>1, <1>2, <1>3 DEF HintInReach, HintInRange
<1>5. Candidate(a, i) = MinPort(a) + y
  BY DEF Candidate
<1> HIDE DEF x
<1>6. /\ y \in (1 - Span(a))..(Span(a) - 1)
      /\ x >= 0 => y \in 0..(Span(a) - 1)
      /\ x < 0 => y \in x..0
  BY <1>1, <1>3, <1>4, JsModRange
<1> HIDE DEF y
<1>7. MaxPort(a) = MinPort(a) + Span(a) - 1
  BY <1>1 DEF Span
<1>8. Candidate(a, i) \in TcpPortMin..MaxPort(a)
  BY <1>1, <1>2, <1>3, <1>4, <1>5, <1>6, <1>7
<1>9. HintInReach(a) => Candidate(a, i) \in Granted(a)
  BY <1>1, <1>4, <1>5, <1>6, <1>7 DEF Granted
<1>10. NextHint(a, Candidate(a, i)) >= TcpPortMin
  BY <1>1, <1>2, <1>8 DEF NextHint
<1> QED
  BY <1>8, <1>9, <1>10

LEMMA GrantInit == Init => GrantInv
  BY RegistryAssumption DEF Init, GrantInv, HintInRange, WithinGrant

LEMMA GrantStep ==
  ASSUME IInv, GrantInv, [Next]_vars
  PROVE  GrantInv'
<1> USE DEF GrantInv, HintInRange
<1>1. ASSUME UNCHANGED <<nextPortHint, owner, publicPort>> PROVE GrantInv'
  BY <1>1 DEF WithinGrant, SafeGrant, Span, Granted, MinPort, MaxPort, Token
<1>2. ASSUME NEW a \in Sessions, NEW t \in Tunnels, owner[t] = NoSession,
             owner' = [owner EXCEPT ![t] = a],
             UNCHANGED <<nextPortHint, publicPort>>
      PROVE  GrantInv'
  <2>1. publicPort[t] = NoPort
    BY <1>2 DEF IInv, Maps, Fresh
  <2>2. \A u \in Tunnels \ {t} : owner'[u] = owner[u]
    BY <1>2 DEF IInv, TypeOK
  <2> QED
    BY <1>2, <2>1, <2>2 DEF WithinGrant, SafeGrant, Span, Granted, MinPort, MaxPort, Token
<1>3. ASSUME NEW a \in Sessions, NEW t \in Tunnels, NEW p,
             p \in TcpPortMin..MaxPort(a), SafeGrant(a) => p \in Granted(a),
             Claim(a, t, p), nextPortHint' >= TcpPortMin
      PROVE  GrantInv'
  <2>1. /\ owner' = [owner EXCEPT ![t] = a]
        /\ publicPort' = [publicPort EXCEPT ![t] = p]
    BY <1>3 DEF Claim
  <2>2. owner'[t] = a /\ publicPort'[t] = p
    BY <2>1 DEF IInv, TypeOK
  <2>3. \A u \in Tunnels \ {t} : /\ owner'[u] = owner[u]
                                  /\ publicPort'[u] = publicPort[u]
    BY <2>1 DEF IInv, TypeOK
  <2> QED
    BY <1>3, <2>2, <2>3 DEF WithinGrant, SafeGrant, Span, Granted, MinPort, MaxPort, Token
<1>4. ASSUME NEW a \in Sessions, SessionStep(a) PROVE GrantInv'
  <2>1. CASE Hello(a) \/ CloseSession(a) \/ DestroySession(a)
    BY <1>1, <2>1 DEF Hello, CloseSession, DestroySession
  <2>2. ASSUME NEW t \in Tunnels, CloseTunnel(a, t) PROVE GrantInv'
    BY <1>1, <2>2 DEF CloseTunnel
  <2>3. ASSUME NEW t \in Tunnels,
               \/ BadRequest(a, t)
               \/ \E s \in Subdomains : OpenHttp(a, t, s)
               \/ \E p \in Ports \cup {NoPort} : RefuseTcp(a, t, p)
        PROVE  GrantInv'
    BY <1>2, <2>3 DEF BadRequest, OpenHttp, RefuseTcp, Asks
  <2>4. ASSUME NEW t \in Tunnels, NEW p \in Ports, ClaimRequested(a, t, p)
        PROVE  GrantInv'
    <3>1. p \in Granted(a)
      BY <2>4, RegistryAssumption DEF ClaimRequested, TcpRefusal
    <3>2. p \in TcpPortMin..MaxPort(a)
      BY <3>1, RangeType, RegistryAssumption DEF Granted, MinPort, Token
    <3> QED
      BY <1>3, <2>4, <3>1, <3>2 DEF ClaimRequested
  <2>5. ASSUME NEW t \in Tunnels, ClaimAny(a, t) PROVE GrantInv'
    <3>1. PICK i \in FreeSteps(a) : /\ Claim(a, t, Candidate(a, i))
                                   /\ nextPortHint' = NextHint(a, Candidate(a, i))
      BY <2>5 DEF ClaimAny
    <3>2. SafeGrant(a) => HintInReach(a)
      BY SafeInReach DEF IInv
    <3> QED
      BY <1>3, <3>1, <3>2, CandidateBounds DEF IInv
  <2> QED
    BY <1>4, <2>1, <2>2, <2>3, <2>4, <2>5 DEF SessionStep
<1>5. ASSUME NEW t \in Tunnels, BindStep(t) PROVE GrantInv'
  BY <1>1, <1>5 DEF BindStep, BindOk, BindFail
<1>6. CASE UNCHANGED vars
  BY <1>1, <1>6 DEF vars
<1> QED
  BY <1>4, <1>5, <1>6 DEF Next

\* Every port handed out is in the server's range and not above its token's
\* grant, and inside the grant if the grant is safe, whatever the other grants
\* are.  OnlyGranted, in the run FarGrant, is what becomes of one that is not.
THEOREM PortsGranted == Spec => []WithinGrant
<1>1. IInv /\ GrantInv /\ [Next]_vars => GrantInv'
  BY GrantStep
<1> QED
  BY Inductive, GrantInit, <1>1, PTL DEF Spec, GrantInv

-----------------------------------------------------------------------------
\* Answers.

LEMMA AnswerGiven ==
  ASSUME NEW a, NEW code, code # "none"
  PROVE  Answer(a, code) # "none"
BY DEF Answer

LEMMA RefusalCodes ==
  ASSUME NEW a, NEW x
  PROVE  HttpRefusal(a, x) # "none" /\ TcpRefusal(a, x) # "none"
BY DEF HttpRefusal, TcpRefusal

LEMMA AnsweredStep ==
  ASSUME TypeOK, Answered, [Next]_vars
  PROVE  Answered'
<1>1. ASSUME UNCHANGED <<owner, reply, binding>> PROVE Answered'
  BY <1>1 DEF Answered
<1>2. ASSUME NEW a \in Sessions, NEW t \in Tunnels, NEW code, code # "none",
             Asks(a, t, code), UNCHANGED binding
      PROVE  Answered'
  <2>1. reply'[t] # "none"
    BY <1>2, AnswerGiven DEF Asks, TypeOK
  <2>2. \A u \in Tunnels \ {t} : owner'[u] = owner[u] /\ reply'[u] = reply[u]
    BY <1>2 DEF Asks, TypeOK
  <2> QED
    BY <1>2, <2>1, <2>2 DEF Answered
<1>3. ASSUME NEW a \in Sessions, NEW t \in Tunnels, NEW p \in Ports, Claim(a, t, p)
      PROVE  Answered'
  <2>1. \A u \in Tunnels \ {t} : owner'[u] = owner[u]
    BY <1>3 DEF Claim, TypeOK
  <2> QED
    BY <1>3, <2>1 DEF Claim, Answered
<1>4. ASSUME NEW a \in Sessions, SessionStep(a) PROVE Answered'
  <2>1. CASE Hello(a) \/ CloseSession(a) \/ DestroySession(a)
    BY <1>1, <2>1 DEF Hello, CloseSession, DestroySession
  <2>2. ASSUME NEW t \in Tunnels, CloseTunnel(a, t) PROVE Answered'
    BY <1>1, <2>2 DEF CloseTunnel
  <2>3. ASSUME NEW t \in Tunnels, BadRequest(a, t) PROVE Answered'
    BY <1>2, <2>3 DEF BadRequest
  <2>4. ASSUME NEW t \in Tunnels, NEW s \in Subdomains, OpenHttp(a, t, s)
        PROVE  Answered'
    BY <1>2, <2>4, RefusalCodes DEF OpenHttp
  <2>5. ASSUME NEW t \in Tunnels, NEW p \in Ports \cup {NoPort}, RefuseTcp(a, t, p)
        PROVE  Answered'
    BY <1>2, <2>5, RefusalCodes DEF RefuseTcp
  <2>6. ASSUME NEW t \in Tunnels, NEW p \in Ports, ClaimRequested(a, t, p)
        PROVE  Answered'
    BY <1>3, <2>6 DEF ClaimRequested
  <2>7. ASSUME NEW t \in Tunnels, ClaimAny(a, t) PROVE Answered'
    <3>1. PICK i \in FreeSteps(a) : Claim(a, t, Candidate(a, i))
      BY <2>7 DEF ClaimAny
    <3>2. Candidate(a, i) \in Ports
      BY CandidateType DEF FreeSteps
    <3> QED
      BY <1>3, <3>1, <3>2
  <2> QED
    BY <1>4, <2>1, <2>2, <2>3, <2>4, <2>5, <2>6, <2>7 DEF SessionStep
<1>5. ASSUME NEW t \in Tunnels, BindStep(t) PROVE Answered'
  <2>1. PICK code \in {"ok", "port_taken"} :
           /\ reply' = [reply EXCEPT ![t] = Answer(owner[t], code)]
           /\ binding' = binding \ {t}
           /\ UNCHANGED owner
    BY <1>5 DEF BindStep, BindOk, BindFail
  <2>2. reply'[t] # "none"
    BY <2>1, AnswerGiven DEF TypeOK
  <2>3. \A u \in Tunnels \ {t} : reply'[u] = reply[u]
    BY <2>1 DEF TypeOK
  <2> QED
    BY <2>1, <2>2, <2>3 DEF Answered
<1>6. CASE UNCHANGED vars
  BY <1>1, <1>6 DEF vars
<1> QED
  BY <1>4, <1>5, <1>6 DEF Next

\* No request is forgotten, however many wait for a bind when a session ends.
THEOREM RequestsAnswered == Spec => []Answered
<1>1. Init => Answered
  BY DEF Init, Answered
<1>2. IInv /\ Answered /\ [Next]_vars => Answered'
  BY AnsweredStep DEF IInv
<1> QED
  BY Inductive, <1>1, <1>2, PTL DEF Spec
-----------------------------------------------------------------------------
\* The search for a port misses none.

\* A dividend is a multiple of n and a remainder in one way only.
LEMMA RemainderOf ==
  ASSUME NEW n \in Nat, NEW q \in Int, NEW e \in 0..(n - 1), n * q + e >= 0
  PROVE  JsMod(n * q + e, n) = e
<1> DEFINE x == n * q + e
           k == x \div n
           r == x % n
           d == k - q
<1>1. n > 0 /\ x \in Nat /\ n * q \in Int
  OBVIOUS
<1>2. k \in Int /\ r \in 0..(n - 1) /\ x = n * k + r
  BY <1>1
<1>3. n * k = n * q + n * d /\ d \in Int
  BY <1>2
<1>4. n * d = e - r
  BY <1>1, <1>2, <1>3
<1>5. d >= 1 => n * d >= n
  BY <1>3
<1>6. d <= -1 => n * d <= -n
  BY <1>3
<1> HIDE DEF d, r, k
<1>7. d = 0
  BY <1>2, <1>3, <1>4, <1>5, <1>6
<1>8. r = e
  BY <1>2, <1>4, <1>7
<1>9. JsMod(x, n) = r
  BY <1>1 DEF JsMod, r
<1> QED
  BY <1>8, <1>9

\* With the hint in reach every port of the grant is the candidate of some step:
\* from the hint the search goes up to the end of the range and round to where
\* it began.
LEMMA EveryPortSearched ==
  ASSUME TypeOK, NEW a \in Sessions, HintInReach(a), NEW p \in Granted(a)
  PROVE  \E i \in 0..(Span(a) - 1) : Candidate(a, i) = p
<1> DEFINE n == Span(a)
           low == MinPort(a)
           x == nextPortHint - low + n
           q == x \div n
           r == x % n
           e == p - low
<1>1. low \in Int /\ MaxPort(a) \in Int /\ n = MaxPort(a) - low + 1 /\ p \in low..MaxPort(a)
  BY RangeType DEF Granted, Span
<1>2. n \in Nat /\ n > 0 /\ e \in 0..(n - 1) /\ p = low + e
  BY <1>1
<1>3. x \in Nat
  <2>1. nextPortHint \in Int
    BY RegistryAssumption DEF TypeOK
  <2>2. low - nextPortHint <= n
    BY DEF HintInReach
  <2> HIDE DEF low, n
  <2> QED
    BY <1>1, <1>2, <2>1, <2>2
<1>4. \A i : Candidate(a, i) = low + JsMod(nextPortHint - low + i + n, n)
  BY DEF Candidate
<1>5. nextPortHint \in Int
  BY RegistryAssumption DEF TypeOK
<1> HIDE DEF e
<1>6. \A i \in Int : nextPortHint - low + i + n = x + i
  <2> HIDE DEF n, low
  <2> QED
    BY <1>1, <1>2, <1>5
<1> HIDE DEF n, low, x
<1>7. q \in Int /\ r \in 0..(n - 1) /\ x = n * q + r /\ n * q \in Int
  BY <1>2, <1>3
<1> HIDE DEF q, r
<1>8. CASE r <= e
  <2> DEFINE i == e - r
  <2>1. i \in 0..(n - 1) /\ x + i = n * q + e /\ n * q + e >= 0
    BY <1>2, <1>3, <1>7, <1>8
  <2>2. JsMod(n * q + e, n) = e
    BY <1>2, <1>7, <2>1, RemainderOf
  <2> HIDE DEF i
  <2>3. Candidate(a, i) = p
    BY <1>2, <1>4, <1>6, <2>1, <2>2
  <2> QED
    BY <2>1, <2>3 DEF n
<1>9. CASE e < r
  <2> DEFINE i == e - r + n
             k == q + 1
  <2>1. k \in Int /\ n * k = n * q + n
    BY <1>2, <1>7
  <2> HIDE DEF k
  <2>2. i \in 0..(n - 1) /\ x + i = n * k + e /\ n * k + e >= 0
    BY <1>2, <1>3, <1>7, <1>9, <2>1
  <2>3. JsMod(n * k + e, n) = e
    BY <1>2, <2>1, <2>2, RemainderOf
  <2> HIDE DEF i
  <2>4. Candidate(a, i) = p
    BY <1>2, <1>4, <1>6, <2>2, <2>3
  <2> QED
    BY <2>2, <2>4 DEF n
<1> QED
  BY <1>2, <1>7, <1>8, <1>9

\* An answer that names another reason is not this one.
LEMMA OnlyWhenFull ==
  ASSUME NEW a, NEW x, NEW code,
         \/ code \in {"bad_request", "ok", "port_taken"}
         \/ code = HttpRefusal(a, x)
         \/ code = TcpRefusal(a, x) /\ ~(x = NoPort /\ FreeSteps(a) = {})
  PROVE  Answer(a, code) # "no_ports_available"
BY DEF Answer, HttpRefusal, TcpRefusal

\* Whoever is told that no port is left asked for any, and if the hint was in
\* reach every port of its grant is taken.
LEMMA RefusedWhenFull ==
  ASSUME TypeOK, Next, NEW t \in Tunnels, ToldNoneLeft(t), HintInReach(owner'[t])
  PROVE  \A p \in Granted(owner'[t]) : byPort[p] # NoTunnel
<1> DEFINE Full(a) == \A p \in Granted(a) : byPort[p] # NoTunnel
<1> SUFFICES Full(owner'[t])
  OBVIOUS
<1>1. ASSUME reply' = reply PROVE FALSE
  BY <1>1 DEF ToldNoneLeft
<1>2. ASSUME NEW a, NEW u \in Tunnels, NEW code,
             reply' = [reply EXCEPT ![u] = Answer(a, code)]
      PROVE  u = t /\ Answer(a, code) = "no_ports_available"
  BY <1>2 DEF TypeOK, ToldNoneLeft
<1>3. ASSUME NEW a \in Sessions, SessionStep(a) PROVE Full(owner'[t])
  <2>1. CASE Hello(a) \/ CloseSession(a) \/ DestroySession(a)
    BY <1>1, <2>1 DEF Hello, CloseSession, DestroySession
  <2>2. ASSUME NEW u \in Tunnels, CloseTunnel(a, u) PROVE FALSE
    BY <1>1, <2>2 DEF CloseTunnel
  <2>3. ASSUME NEW u \in Tunnels, BadRequest(a, u) PROVE FALSE
    BY <1>2, <2>3, OnlyWhenFull DEF BadRequest, Asks
  <2>4. ASSUME NEW u \in Tunnels, NEW s \in Subdomains, OpenHttp(a, u, s) PROVE FALSE
    BY <1>2, <2>4, OnlyWhenFull DEF OpenHttp, Asks
  <2>5. ASSUME NEW u \in Tunnels, NEW x \in Ports \cup {NoPort}, RefuseTcp(a, u, x)
        PROVE  Full(owner'[t])
    <3>1. /\ owner' = [owner EXCEPT ![u] = a]
          /\ reply' = [reply EXCEPT ![u] = Answer(a, TcpRefusal(a, x))]
      BY <2>5 DEF RefuseTcp, Asks
    <3>2. u = t /\ Answer(a, TcpRefusal(a, x)) = "no_ports_available"
      BY <1>2, <3>1
    <3>3. owner'[t] = a
      BY <3>1, <3>2 DEF TypeOK
    <3>4. FreeSteps(a) = {}
      BY <3>2, OnlyWhenFull
    <3>5. ASSUME NEW p \in Granted(a) PROVE byPort[p] # NoTunnel
      <4>1. PICK i \in 0..(Span(a) - 1) : Candidate(a, i) = p
        BY <3>3, EveryPortSearched
      <4> QED
        BY <3>4, <4>1 DEF FreeSteps
    <3> QED
      BY <3>3, <3>5
  <2>6. ASSUME NEW u \in Tunnels, NEW p \in Ports, ClaimRequested(a, u, p) PROVE FALSE
    BY <1>1, <2>6 DEF ClaimRequested, Claim
  <2>7. ASSUME NEW u \in Tunnels, ClaimAny(a, u) PROVE FALSE
    BY <1>1, <2>7 DEF ClaimAny, Claim
  <2> QED
    BY <1>3, <2>1, <2>2, <2>3, <2>4, <2>5, <2>6, <2>7 DEF SessionStep
<1>4. ASSUME NEW u \in Tunnels, BindStep(u) PROVE FALSE
  <2>1. PICK code \in {"ok", "port_taken"} :
           reply' = [reply EXCEPT ![u] = Answer(owner[u], code)]
    BY <1>4 DEF BindStep, BindOk, BindFail
  <2> QED
    BY <1>2, <2>1, OnlyWhenFull
<1> QED
  BY <1>3, <1>4 DEF Next

\* While the hint is in reach an agent is told that no port is left only when none
\* is, wherever the hint lies and however long the range is.
THEOREM NoPortsMeansNone == Spec => NoPortsTruthful
<1> DEFINE Truthful ==
             \A t \in Tunnels :
                ToldNoneLeft(t) /\ HintInReach(owner'[t])
                   => \A p \in Granted(owner'[t]) : byPort[p] # NoTunnel
<1>1. ASSUME IInv, [Next]_vars PROVE [Truthful]_vars
  BY <1>1, RefusedWhenFull DEF IInv
<1> QED
  BY Inductive, <1>1, PTL DEF Spec, NoPortsTruthful

\* A safe grant has the hint in reach in every state, so nobody with one is told
\* so while a port of the grant is free.
THEOREM SafeGrantsReached ==
  Spec => [](\A a \in Sessions : SafeGrant(a) => HintInReach(a))
<1>1. IInv /\ GrantInv /\ [Next]_vars => GrantInv'
  BY GrantStep
<1>2. IInv /\ GrantInv => \A a \in Sessions : SafeGrant(a) => HintInReach(a)
  BY SafeInReach DEF IInv, GrantInv
<1> QED
  BY Inductive, GrantInit, <1>1, <1>2, PTL DEF Spec

-----------------------------------------------------------------------------
(***************************************************************************)
(* The health log.                                                         *)
(***************************************************************************)
\* IsSuffix, element by element.
Ends(s, t) == /\ Len(s) <= Len(t)
              /\ \A i \in 1..Len(s) : s[i] = t[Len(t) - Len(s) + i]

Enough(s) == Len(s) >= AtMost(Len(recorded), Keep(Smallest))

\* What the ceiling allows, less one line: the next append may take it.
Room == Largest * (1 + readFaults) + writeFaults + restarts - 1

-----------------------------------------------------------------------------
(***************************************************************************)
(* The inductive invariant.  The properties say nothing of the copy that   *)
(* is about to replace the log, nor of the counts that make health() trim  *)
(* in time.                                                                *)
(***************************************************************************)
Types ==
    /\ file \in Seq(1..MaxEvents) /\ tmp \in Seq(1..MaxEvents)
    /\ recorded \in Seq(1..MaxEvents)
    /\ torn \in BOOLEAN /\ broken \in BOOLEAN
    /\ step \in {"idle", "trim", "rename", "down"}
    /\ maxLines \in Ceilings /\ lines \in Nat
    /\ events \in 0..MaxEvents
    /\ writeFaults \in Nat /\ readFaults \in Nat /\ restarts \in Nat

\* Only a start meets a torn line, and counts it.
Counted ==
    /\ step \in {"trim", "rename"} => ~torn
    /\ step = "idle" /\ ~broken /\ readFaults = 0
          => /\ lines \in CountLines..(CountLines + 1)
             /\ torn => lines = CountLines

Newests ==
    /\ Ends(file, recorded) /\ Enough(file)
    /\ step = "rename" => Ends(tmp, recorded) /\ Enough(tmp)

\* While the log works it is not longer than its count says, but for what the
\* faults explain.
Sized ==
    /\ Len(file) <= Room + 1
    /\ step = "idle" => Len(file) <= Room
    /\ step = "idle" /\ ~broken => Len(file) <= lines + Room + 1 - Largest
    /\ step = "rename" => Len(tmp) <= Keep(maxLines)

LogInv == Types /\ Counted /\ Newests /\ Sized

-----------------------------------------------------------------------------
LEMMA IsSuffixEnds ==
  ASSUME NEW S, NEW s \in Seq(S), NEW t \in Seq(S), Ends(s, t)
  PROVE  IsSuffix(s, t)
<1> DEFINE rs == Reverse(s)
           rt == Reverse(t)
<1>1. Len(s) \in Nat /\ Len(t) \in Nat /\ Len(s) <= Len(t)
  BY DEF Ends
<1>2. /\ rs = [i \in 1..Len(s) |-> s[Len(s) - i + 1]]
      /\ rt = [i \in 1..Len(t) |-> t[Len(t) - i + 1]]
  BY DEF Reverse
<1>3. \A i \in 1..Len(s) : s[Len(s) - i + 1] \in S
  BY <1>1
<1>4. \A i \in 1..Len(t) : t[Len(t) - i + 1] \in S
  BY <1>1
<1>5. rs \in Seq(S) /\ Len(rs) = Len(s)
  BY <1>1, <1>2, <1>3
<1>6. rt \in Seq(S) /\ Len(rt) = Len(t)
  BY <1>1, <1>2, <1>4
<1>7. ASSUME NEW i \in 1..Len(s)
      PROVE  rs[i] = rt[i]
  <2>1. rs[i] = s[Len(s) - i + 1] /\ rt[i] = t[Len(t) - i + 1]
    BY <1>1, <1>2
  <2>2. Len(s) - i + 1 \in 1..Len(s)
    BY <1>1
  <2>3. s[Len(s) - i + 1] = t[Len(t) - Len(s) + (Len(s) - i + 1)]
    BY <2>2 DEF Ends
  <2>4. Len(t) - Len(s) + (Len(s) - i + 1) = Len(t) - i + 1
    BY <1>1
  <2>5. QED
    BY <2>1, <2>3, <2>4
<1> HIDE DEF rs, rt
<1>8. SubSeq(rs, 1, Len(s)) = SubSeq(rt, 1, Len(s))
  BY <1>1, <1>5, <1>6, <1>7
<1>9. QED
  BY <1>1, <1>5, <1>6, <1>8 DEF IsSuffix, IsPrefix, rs, rt

LEMMA EndsAppend ==
  ASSUME NEW S, NEW s \in Seq(S), NEW t \in Seq(S), NEW e \in S, Ends(s, t)
  PROVE  Ends(Append(s, e), Append(t, e))
<1>1. /\ Len(s) \in Nat /\ Len(t) \in Nat /\ Len(s) <= Len(t)
      /\ Len(Append(s, e)) = Len(s) + 1 /\ Len(Append(t, e)) = Len(t) + 1
  BY DEF Ends
<1>2. ASSUME NEW i \in 1..(Len(s) + 1)
      PROVE  Append(s, e)[i] = Append(t, e)[(Len(t) + 1) - (Len(s) + 1) + i]
  <2>1. CASE i = Len(s) + 1
    BY <1>1, <2>1
  <2>2. CASE i # Len(s) + 1
    <3>1. i \in 1..Len(s)
      BY <1>1, <2>2
    <3>2. s[i] = t[Len(t) - Len(s) + i] /\ Len(t) - Len(s) + i \in 1..Len(t)
      BY <1>1, <3>1 DEF Ends
    <3>3. Append(s, e)[i] = s[i]
      BY <1>1, <3>1
    <3>4. Append(t, e)[Len(t) - Len(s) + i] = t[Len(t) - Len(s) + i]
      BY <1>1, <3>2
    <3>5. (Len(t) + 1) - (Len(s) + 1) + i = Len(t) - Len(s) + i
      BY <1>1, <3>1
    <3>6. QED
      BY <3>2, <3>3, <3>4, <3>5
  <2>3. QED
    BY <2>1, <2>2
<1> DEFINE se == Append(s, e)
           te == Append(t, e)
<1> HIDE DEF se, te
<1>3. /\ Len(se) = Len(s) + 1 /\ Len(te) = Len(t) + 1
      /\ \A i \in 1..(Len(s) + 1) : se[i] = te[(Len(t) + 1) - (Len(s) + 1) + i]
  BY <1>1, <1>2 DEF se, te
<1>4. Ends(se, te)
  BY <1>1, <1>3 DEF Ends
<1>5. QED
  BY <1>4 DEF se, te

\* What trim keeps: at most n lines, the newest.
LEMMA NewestEnds ==
  ASSUME NEW S, NEW t \in Seq(S), file \in Seq(S), Ends(file, t), NEW n \in Nat
  PROVE  /\ Newest(n) \in Seq(S)
         /\ Len(Newest(n)) = AtMost(Len(file), n)
         /\ Ends(Newest(n), t)
<1>1. Len(file) \in Nat /\ Len(t) \in Nat /\ Len(file) <= Len(t)
  BY DEF Ends
<1>2. CASE Len(file) <= n
  BY <1>1, <1>2 DEF Newest, AtMost
<1>3. CASE ~(Len(file) <= n)
  <2> DEFINE k == Len(file) - n
             x == SubSeq(file, k + 1, Len(file))
  <2>1. k \in 1..Len(file) /\ Len(file) - k = n
    BY <1>1, <1>3
  <2>2. Newest(n) = x
    BY <1>3 DEF Newest
  <2> HIDE DEF k
  <2>3. x \in Seq(S) /\ Len(x) = n
    BY <1>1, <2>1
  <2>4. ASSUME NEW i \in 1..n
        PROVE  x[i] = t[Len(t) - n + i]
    <3>1. x[i] = file[k + i]
      BY <1>1, <2>1
    <3>2. k + i \in 1..Len(file)
      BY <1>1, <2>1
    <3>3. file[k + i] = t[Len(t) - Len(file) + (k + i)]
      BY <3>2 DEF Ends
    <3>4. Len(t) - Len(file) + (k + i) = Len(t) - n + i
      BY <1>1, <2>1
    <3>5. QED
      BY <3>1, <3>3, <3>4
  <2> HIDE DEF x
  <2>5. AtMost(Len(file), n) = n
    BY <1>1, <1>3 DEF AtMost
  <2>6. Ends(x, t)
    BY <1>1, <1>3, <2>3, <2>4 DEF Ends
  <2>7. QED
    BY <2>2, <2>3, <2>5, <2>6
<1>4. QED
  BY <1>2, <1>3

\* The ceilings lie between two of them, and a trim goes well below each.
LEMMA CeilingsBound ==
  /\ Smallest \in Nat /\ Largest \in Nat
  /\ \A c \in Ceilings : /\ c \in Nat /\ Smallest <= c /\ c <= Largest
                         /\ Keep(c) \in Nat /\ Keep(c) < c
                         /\ Keep(Smallest) \in Nat /\ Keep(Smallest) <= Keep(c)
<1>1. PICK least \in Configured, greatest \in Configured :
         Configured \subseteq least..greatest
  BY HealthLogAssumption DEF HealthLogAssumption
<1>2. \A m \in Configured : m \in Int /\ MaxLinesOf(m) \in Nat /\ MaxLinesOf(m) >= 10
  BY HealthLogAssumption DEF HealthLogAssumption, MaxLinesOf
<1>3. \A c \in Ceilings : c \in Nat /\ c >= 10
  BY <1>2 DEF Ceilings
<1>4. ASSUME NEW m \in Configured
      PROVE  MaxLinesOf(least) <= MaxLinesOf(m) /\ MaxLinesOf(m) <= MaxLinesOf(greatest)
  <2>1. m \in Int /\ least \in Int /\ greatest \in Int /\ least <= m /\ m <= greatest
    BY <1>1, <1>2
  <2>2. QED
    BY <2>1 DEF MaxLinesOf
<1>5. MaxLinesOf(least) \in Ceilings /\ MaxLinesOf(greatest) \in Ceilings
  BY <1>1 DEF Ceilings
<1>6. /\ \A c \in Ceilings : MaxLinesOf(least) <= c
      /\ \A c \in Ceilings : MaxLinesOf(greatest) >= c
  BY <1>2, <1>4 DEF Ceilings
<1>7. Smallest \in Ceilings /\ \A c \in Ceilings : Smallest <= c
  BY <1>5, <1>6, Zenon DEF Smallest
<1>8. Largest \in Ceilings /\ \A c \in Ceilings : Largest >= c
  BY <1>5, <1>6, Zenon DEF Largest
<1>9. ASSUME NEW c \in Ceilings
      PROVE  /\ c \in Nat /\ Smallest <= c /\ c <= Largest
             /\ Keep(c) \in Nat /\ Keep(c) < c
             /\ Keep(Smallest) \in Nat /\ Keep(Smallest) <= Keep(c)
  <2>1. /\ c \in Nat /\ c >= 10 /\ Smallest \in Nat /\ Smallest >= 10
        /\ Smallest <= c /\ Largest >= c /\ Largest \in Nat
    BY <1>3, <1>7, <1>8
  <2>2. QED
    BY <2>1 DEF Keep
<1>10. QED
  BY <1>3, <1>7, <1>8, <1>9

LEMMA OneMoreTime ==
  ASSUME NEW a \in Nat, NEW r \in Nat
  PROVE  /\ a * (1 + r) \in Nat
         /\ a * (1 + r) >= a
         /\ a * (1 + (r + 1)) = a * (1 + r) + a
  OBVIOUS

\* What the ceiling allows grows by a line with a refused write or a restart,
\* and by a ceiling with a refused read.
LEMMA RoomGrows ==
  ASSUME Types, Types',
         readFaults' = readFaults \/ readFaults' = readFaults + 1
  PROVE  /\ Room \in Int /\ Room' \in Int
         /\ readFaults' = readFaults =>
               Room' = Room + (writeFaults' - writeFaults) + (restarts' - restarts)
         /\ readFaults' = readFaults + 1 =>
               Room' = Room + Largest + (writeFaults' - writeFaults)
                            + (restarts' - restarts)
<1>1. /\ Largest \in Nat /\ readFaults \in Nat /\ writeFaults \in Nat /\ restarts \in Nat
      /\ readFaults' \in Nat /\ writeFaults' \in Nat /\ restarts' \in Nat
  BY CeilingsBound DEF Types
<1> DEFINE p == Largest * (1 + readFaults)
           q == Largest * (1 + readFaults')
<1>2. p \in Nat /\ q \in Nat
  BY <1>1, OneMoreTime
<1>3. readFaults' = readFaults => q = p
  OBVIOUS
<1>4. readFaults' = readFaults + 1 => q = p + Largest
  BY <1>1, OneMoreTime
<1>5. Room = p + writeFaults + restarts - 1 /\ Room' = q + writeFaults' + restarts' - 1
  BY DEF Room
<1> HIDE DEF p, q
<1>6. QED
  BY <1>1, <1>2, <1>3, <1>4, <1>5

LEMMA TypesStep ==
  ASSUME Types, [LogNext]_logState
  PROVE  Types'
<1> USE DEF Types
<1>1. CASE Health
  <2>1. events' \in 1..MaxEvents
    BY <1>1, HealthLogAssumption DEF Health, Event, HealthLogAssumption
  <2>2. file' \in Seq(1..MaxEvents) /\ recorded' \in Seq(1..MaxEvents)
    BY <1>1, <2>1 DEF Health
  <2>3. lines' \in Nat /\ step' \in {"idle", "trim"}
    BY <1>1 DEF Health
  <2>4. torn' \in BOOLEAN /\ broken' \in BOOLEAN
    BY <1>1, Zenon DEF Health
  <2>5. /\ tmp' = tmp /\ maxLines' = maxLines /\ writeFaults' = writeFaults
        /\ readFaults' = readFaults /\ restarts' = restarts
    BY <1>1 DEF Health, faults
  <2>6. QED
    BY <2>1, <2>2, <2>3, <2>4, <2>5
<1>2. CASE HealthFails
  <2>1. events' \in 0..MaxEvents /\ writeFaults' \in Nat
    BY <1>2, HealthLogAssumption
    DEF HealthFails, Event, WriteFault, HealthLogAssumption
  <2>2. QED
    BY <1>2, <2>1 DEF HealthFails
<1>3. CASE HealthIgnored
  <2>1. events' \in 0..MaxEvents
    BY <1>3, HealthLogAssumption DEF HealthIgnored, Event, HealthLogAssumption
  <2>2. QED
    BY <1>3, <2>1 DEF HealthIgnored, logVars, memory, faults
<1>4. CASE TrimWrite
  <2>1. tmp' \in Seq(1..MaxEvents)
    <3>1. Keep(maxLines) \in Nat
      BY CeilingsBound
    <3>2. Ends(file, file)
      BY DEF Ends
    <3>3. Newest(Keep(maxLines)) \in Seq(1..MaxEvents)
      BY <3>1, <3>2, NewestEnds
    <3>4. QED
      BY <1>4, <3>3 DEF TrimWrite
  <2>2. QED
    BY <1>4, <2>1 DEF TrimWrite, faults
<1>5. CASE TrimRename
  <2>1. Len(tmp) \in Nat
    OBVIOUS
  <2>2. QED
    BY <1>5, <2>1 DEF TrimRename, faults
<1>6. CASE TrimFails
  <2>1. lines' \in Nat /\ readFaults' \in Nat /\ writeFaults' \in Nat
    BY <1>6 DEF TrimFails, Recount, ReadFault, WriteFault, CountLines
  <2>2. QED
    BY <1>6, <2>1 DEF TrimFails, logVars
<1>7. CASE Crash
  BY <1>7 DEF Crash, faults
<1>8. CASE Restart
  <2>1. Configure
    BY <1>8 DEF Restart
  <2>2. lines' \in Nat /\ readFaults' \in Nat /\ writeFaults' \in Nat
    <3>1. CountLines \in Nat
      BY DEF CountLines
    <3>2. QED
      BY <2>1, <3>1 DEF Configure, Recount, ReadFault, WriteFault
  <2>3. broken' \in BOOLEAN
    BY <2>1, Zenon DEF Configure
  <2>4. step' = "idle" /\ maxLines' \in Ceilings
    BY <2>1 DEF Configure, Ceilings
  <2>5. QED
    BY <1>8, <2>2, <2>3, <2>4 DEF Restart, logVars
<1>9. CASE UNCHANGED logState
  BY <1>9 DEF logState, logVars, memory, faults
<1>10. QED
  BY <1>1, <1>2, <1>3, <1>4, <1>5, <1>6, <1>7, <1>8, <1>9 DEF LogNext

LEMMA CountedStep ==
  ASSUME LogInv, [LogNext]_logState
  PROVE  Counted'
<1> DEFINE n == Len(file)
<1>1. n \in Nat /\ lines \in Nat /\ torn \in BOOLEAN
  BY DEF LogInv, Types
<1>2. Counted
  BY DEF LogInv
<1>3. CASE Health
  <2>1. Len(file') = n + 1 /\ ~torn' /\ lines' = lines + 1 /\ broken' = broken /\ ~broken
        /\ step = "idle" /\ readFaults' = readFaults
    BY <1>3 DEF Health, Event, LogInv, Types, faults
  <2>2. QED
    BY <1>1, <1>2, <2>1 DEF Counted, CountLines
<1>4. CASE HealthFails
  BY <1>4 DEF HealthFails, Event, Counted
<1>5. CASE HealthIgnored
  BY <1>5 DEF HealthIgnored, Event, Counted, logVars, memory
<1>6. CASE TrimWrite
  BY <1>2, <1>6 DEF TrimWrite, Counted
<1>7. CASE TrimRename
  <2>1. Len(tmp) \in Nat
    BY DEF LogInv, Types
  <2>2. QED
    BY <1>2, <1>7, <2>1 DEF TrimRename, Counted, CountLines
<1>8. CASE TrimFails
  <2>1. step' = "idle" /\ ~torn' /\ file' = file
    BY <1>2, <1>8 DEF TrimFails, Counted, logVars
  <2>2. readFaults' = 0 => lines' = n
    BY <1>1, <1>2, <1>8 DEF TrimFails, Recount, ReadFault, Counted, CountLines, LogInv, Types
  <2>3. QED
    BY <1>1, <2>1, <2>2 DEF Counted, CountLines
<1>9. CASE Crash
  BY <1>9 DEF Crash, Counted
<1>10. CASE Restart
  <2>1. step' = "idle" /\ file' = file /\ torn' = torn
    BY <1>10 DEF Restart, Configure, logVars
  <2>2. readFaults' = 0 /\ ~broken' => lines' = CountLines
    BY <1>10 DEF Restart, Configure, Recount, ReadFault, LogInv, Types
  <2>3. QED
    BY <1>1, <2>1, <2>2 DEF Counted, CountLines
<1>11. CASE UNCHANGED logState
  BY <1>2, <1>11 DEF logState, logVars, memory, faults, Counted, CountLines
<1>12. QED
  BY <1>3, <1>4, <1>5, <1>6, <1>7, <1>8, <1>9, <1>10, <1>11 DEF LogNext

LEMMA NewestsStep ==
  ASSUME LogInv, [LogNext]_logState
  PROVE  Newests'
<1> DEFINE k == Keep(Smallest)
<1>1. /\ Types /\ Newests
      /\ k \in Nat /\ Keep(maxLines) \in Nat /\ k <= Keep(maxLines)
  BY CeilingsBound DEF LogInv, Types
<1>2. Len(file) \in Nat /\ Len(recorded) \in Nat /\ Len(tmp) \in Nat
  BY <1>1 DEF Types
<1>3. CASE Health
  <2>1. events' \in 1..MaxEvents
    BY <1>1, <1>3, HealthLogAssumption DEF Health, Event, Types, HealthLogAssumption
  <2>2. file' = Append(file, events') /\ recorded' = Append(recorded, events')
        /\ step' # "rename"
    BY <1>3 DEF Health
  <2>3. Ends(file', recorded')
    BY <1>1, <2>1, <2>2, EndsAppend DEF Types, Newests
  <2>4. Len(file') = Len(file) + 1 /\ Len(recorded') = Len(recorded) + 1
    BY <1>1, <2>1, <2>2 DEF Types
  <2>5. Enough(file)'
    BY <1>1, <1>2, <2>4 DEF Newests, Enough, AtMost
  <2>6. QED
    BY <2>2, <2>3, <2>5 DEF Newests
<1>4. CASE HealthFails \/ HealthIgnored
  BY <1>1, <1>4 DEF HealthFails, HealthIgnored, Event, logVars, memory, Newests, Enough
<1>5. CASE TrimWrite
  <2>1. /\ Len(Newest(Keep(maxLines))) = AtMost(Len(file), Keep(maxLines))
        /\ Ends(Newest(Keep(maxLines)), recorded)
    BY <1>1, NewestEnds DEF Types, Newests
  <2>2. /\ tmp' = Newest(Keep(maxLines)) /\ file' = file /\ recorded' = recorded
    BY <1>5 DEF TrimWrite
  <2>3. Enough(Newest(Keep(maxLines)))
    BY <1>1, <1>2, <2>1 DEF Newests, Enough, AtMost
  <2>4. QED
    BY <1>1, <2>1, <2>2, <2>3 DEF Newests, Enough
<1>6. CASE TrimRename
  BY <1>1, <1>6 DEF TrimRename, Newests, Enough
<1>7. CASE TrimFails
  BY <1>1, <1>7 DEF TrimFails, logVars, Newests, Enough
<1>8. CASE Crash
  BY <1>1, <1>8 DEF Crash, Newests, Enough
<1>9. CASE Restart
  BY <1>1, <1>9 DEF Restart, Configure, logVars, Newests, Enough
<1>10. CASE UNCHANGED logState
  BY <1>1, <1>10 DEF logState, logVars, memory, Newests, Enough
<1>11. QED
  BY <1>3, <1>4, <1>5, <1>6, <1>7, <1>8, <1>9, <1>10 DEF LogNext

LEMMA SizedStep ==
  ASSUME LogInv, [LogNext]_logState
  PROVE  Sized'
<1>1. Types /\ Types' /\ Sized
  BY TypesStep DEF LogInv
<1>2. /\ Len(file) \in Nat /\ Len(tmp) \in Nat /\ lines \in Nat
      /\ writeFaults \in Nat /\ restarts \in Nat /\ torn \in BOOLEAN
      /\ Largest \in Nat /\ maxLines \in Nat /\ maxLines <= Largest
      /\ Keep(maxLines) \in Nat /\ Keep(maxLines) < maxLines
  <2>1. maxLines \in Ceilings
    BY <1>1 DEF Types
  <2>2. /\ Largest \in Nat /\ maxLines \in Nat /\ maxLines <= Largest
        /\ Keep(maxLines) \in Nat /\ Keep(maxLines) < maxLines
    BY <2>1, CeilingsBound
  <2>3. Len(file) \in Nat /\ Len(tmp) \in Nat
    <3>1. file \in Seq(1..MaxEvents) /\ tmp \in Seq(1..MaxEvents)
      BY <1>1 DEF Types
    <3>2. QED
      BY <3>1
  <2>4. lines \in Nat /\ writeFaults \in Nat /\ restarts \in Nat /\ torn \in BOOLEAN
    BY <1>1, Zenon DEF Types
  <2>5. QED
    BY <2>2, <2>3, <2>4
<1>3. Largest <= Room + 1 /\ Room \in Int
  <2>1. readFaults \in Nat
    BY <1>1 DEF Types
  <2>2. Largest * (1 + readFaults) >= Largest
    BY <1>2, <2>1, OneMoreTime
  <2>3. QED
    BY <1>2, <2>1, <2>2 DEF Room
<1>4. CASE Health
  <2>1. readFaults' = readFaults /\ writeFaults' = writeFaults /\ restarts' = restarts
    BY <1>4 DEF Health, faults
  <2>2. Room' = Room
    BY <2>1 DEF Room
  <2>3. /\ step = "idle" /\ ~broken /\ lines' = lines + 1 /\ Len(file') = Len(file) + 1
        /\ step' = IF lines' >= maxLines THEN "trim" ELSE "idle"
    BY <1>1, <1>4 DEF Health, Event, Types
  <2>4. QED
    BY <1>1, <1>2, <1>3, <2>2, <2>3 DEF Sized
<1>5. CASE HealthFails
  <2>1. /\ readFaults' = readFaults /\ writeFaults' = writeFaults + 1 /\ restarts' = restarts
        /\ step = "idle" /\ step' = "idle" /\ broken' /\ file' = file
    BY <1>5 DEF HealthFails, Event, WriteFault
  <2>2. Room' = Room + 1
    BY <1>1, <1>2, <2>1, RoomGrows
  <2>3. QED
    BY <1>1, <1>2, <1>3, <2>1, <2>2 DEF Sized
<1>6. CASE HealthIgnored \/ UNCHANGED logState
  <2>1. /\ step' = step /\ broken' = broken /\ file' = file /\ tmp' = tmp
        /\ lines' = lines /\ maxLines' = maxLines /\ readFaults' = readFaults
        /\ writeFaults' = writeFaults /\ restarts' = restarts
    BY <1>6 DEF HealthIgnored, logState, logVars, memory, faults
  <2>2. QED
    BY <1>1, <2>1 DEF Sized, Room
<1>7. CASE TrimWrite
  <2>1. Len(Newest(Keep(maxLines))) = AtMost(Len(file), Keep(maxLines))
    BY <1>1, <1>2, NewestEnds DEF LogInv, Types, Newests
  <2>2. /\ readFaults' = readFaults /\ writeFaults' = writeFaults /\ restarts' = restarts
        /\ file' = file /\ maxLines' = maxLines /\ step' = "rename"
        /\ tmp' = Newest(Keep(maxLines))
    BY <1>7 DEF TrimWrite, faults
  <2>3. Len(tmp') <= Keep(maxLines)
    BY <1>2, <2>1, <2>2 DEF AtMost
  <2>4. QED
    BY <1>1, <2>2, <2>3 DEF Sized, Room
<1>8. CASE TrimRename
  <2>1. /\ readFaults' = readFaults /\ writeFaults' = writeFaults /\ restarts' = restarts
        /\ file' = tmp /\ lines' = Len(tmp) /\ step = "rename" /\ step' = "idle"
    BY <1>8 DEF TrimRename, faults
  <2>2. Len(tmp) < Largest
    BY <1>1, <1>2, <2>1 DEF Sized
  <2>3. Room' = Room
    BY <2>1 DEF Room
  <2>4. QED
    BY <1>2, <1>3, <2>1, <2>2, <2>3 DEF Sized
<1>9. CASE TrimFails
  <2>1. /\ writeFaults' = writeFaults + 1 /\ restarts' = restarts
        /\ file' = file /\ step' = "idle"
    BY <1>9 DEF TrimFails, WriteFault, logVars
  <2>2. CASE readFaults' = readFaults /\ lines' = CountLines
    <3>1. Room' = Room + 1 /\ lines' >= Len(file) /\ lines' \in Nat
      BY <1>1, <1>2, <2>1, <2>2, RoomGrows DEF CountLines
    <3>2. QED
      BY <1>1, <1>2, <1>3, <2>1, <3>1 DEF Sized
  <2>3. CASE readFaults' = readFaults + 1 /\ lines' = 0
    <3>1. Room' = Room + Largest + 1
      BY <1>1, <1>2, <1>3, <2>1, <2>3, RoomGrows
    <3>2. QED
      BY <1>1, <1>2, <1>3, <2>1, <2>3, <3>1 DEF Sized
  <2>4. QED
    BY <1>9, <2>2, <2>3 DEF TrimFails, Recount, ReadFault
<1>10. CASE Crash
  <2>1. /\ readFaults' = readFaults /\ writeFaults' = writeFaults /\ restarts' = restarts
        /\ file' = file /\ step' = "down"
    BY <1>10 DEF Crash, faults
  <2>2. QED
    BY <1>1, <2>1 DEF Sized, Room
<1>11. CASE Restart
  <2>1. restarts' = restarts + 1 /\ file' = file /\ step' = "idle"
    BY <1>11 DEF Restart, Configure, logVars
  <2>2. CASE /\ readFaults' = readFaults /\ writeFaults' = writeFaults
             /\ lines' = CountLines
    <3>1. Room' = Room + 1 /\ lines' >= Len(file) /\ lines' \in Nat
      BY <1>1, <1>2, <1>3, <2>1, <2>2, RoomGrows DEF CountLines
    <3>2. QED
      BY <1>1, <1>2, <1>3, <2>1, <3>1 DEF Sized
  <2>3. CASE /\ readFaults' = readFaults + 1 /\ writeFaults' = writeFaults
             /\ lines' = 0
    <3>1. Room' = Room + Largest + 1
      BY <1>1, <1>2, <1>3, <2>1, <2>3, RoomGrows
    <3>2. QED
      BY <1>1, <1>2, <1>3, <2>1, <2>3, <3>1 DEF Sized
  <2>4. CASE /\ readFaults' = readFaults /\ writeFaults' = writeFaults + 1
             /\ broken'
    <3>1. Room' = Room + 2
      BY <1>1, <1>2, <1>3, <2>1, <2>4, RoomGrows
    <3>2. QED
      BY <1>1, <1>2, <1>3, <2>1, <2>4, <3>1 DEF Sized
  <2>5. QED
    BY <1>11, <2>2, <2>3, <2>4
    DEF Restart, Configure, Recount, ReadFault, WriteFault
<1>12. QED
  BY <1>4, <1>5, <1>6, <1>7, <1>8, <1>9, <1>10, <1>11 DEF LogNext

LEMMA InitLogInv == LogInit => LogInv
<1> SUFFICES ASSUME LogInit PROVE LogInv
  OBVIOUS
<1>1. Types
  <2>1. maxLines \in Ceilings
    BY DEF LogInit, Ceilings
  <2>2. events \in 0..MaxEvents
    BY HealthLogAssumption DEF LogInit, HealthLogAssumption
  <2>3. torn \in BOOLEAN /\ broken \in BOOLEAN
    BY Zenon DEF LogInit
  <2>4. /\ file \in Seq(1..MaxEvents) /\ tmp \in Seq(1..MaxEvents)
        /\ recorded \in Seq(1..MaxEvents)
    BY DEF LogInit
  <2>5. /\ step \in {"idle", "trim", "rename", "down"} /\ lines \in Nat
        /\ writeFaults \in Nat /\ readFaults \in Nat /\ restarts \in Nat
    BY DEF LogInit
  <2>6. QED
    BY <2>1, <2>2, <2>3, <2>4, <2>5 DEF Types
<1>2. Len(file) = 0 /\ Len(recorded) = 0 /\ Largest \in Nat /\ Keep(Smallest) \in Nat
  BY <1>1, CeilingsBound DEF LogInit, Types
<1>3. Counted
  BY <1>2 DEF LogInit, Counted, CountLines
<1>4. Newests
  BY <1>2 DEF LogInit, Newests, Ends, Enough, AtMost
<1>5. Largest >= 10
  <2>1. maxLines \in Ceilings /\ maxLines <= Largest
    BY <1>1, CeilingsBound DEF Types
  <2>2. maxLines \in Int /\ maxLines >= 10
    BY <2>1, HealthLogAssumption DEF Ceilings, MaxLinesOf, HealthLogAssumption
  <2>3. QED
    BY <1>2, <2>1, <2>2
<1>6. Sized
  BY <1>2, <1>5 DEF LogInit, Sized, Room
<1>7. QED
  BY <1>1, <1>3, <1>4, <1>6 DEF LogInv

LEMMA LogInductive == LogSpec => []LogInv
<1>1. LogInv /\ [LogNext]_logState => LogInv'
  BY TypesStep, CountedStep, NewestsStep, SizedStep DEF LogInv
<1>2. QED
  BY InitLogInv, <1>1, PTL DEF LogSpec

-----------------------------------------------------------------------------
\* The log keeps its types, and the count in memory follows the file through
\* every trim, whole or failed, and every restart.
THEOREM LogTypeCorrect == LogSpec => []LogTypeOK
<1>1. LogInv => LogTypeOK
  <2> SUFFICES ASSUME LogInv PROVE LogTypeOK
    OBVIOUS
  <2>1. maxLines \in Nat
    BY CeilingsBound DEF LogInv, Types
  <2>2. QED
    BY <2>1 DEF LogInv, Types, Counted, LogTypeOK
<1>2. QED
  BY LogInductive, <1>1, PTL

\* No crash, refused call or trim takes a recorded event out of the middle, or
\* more of the oldest than a trim is meant to.
THEOREM NewestAreKept == LogSpec => []NewestKept
<1>1. LogInv => NewestKept
  BY IsSuffixEnds DEF LogInv, Types, Newests, Enough, NewestKept
<1>2. QED
  BY LogInductive, <1>1, PTL

\* How far the "hard line ceiling" may be exceeded, for every ceiling and any
\* number of faults.
THEOREM CeilingHolds == LogSpec => []Ceiling
<1>1. LogInv => Ceiling
  <2> SUFFICES ASSUME LogInv PROVE Ceiling
    OBVIOUS
  <2>1. Len(file) <= Room + 1 /\ Largest * (1 + readFaults) \in Nat
        /\ writeFaults \in Nat /\ restarts \in Nat
    BY CeilingsBound DEF LogInv, Types, Sized
  <2>2. QED
    BY <2>1 DEF Room, Ceiling
<1>2. QED
  BY LogInductive, <1>1, PTL
=============================================================================
