-------------------------- MODULE AgentLifeProofs --------------------------
(***************************************************************************)
(* What AgentLife promises, for every value of its constants.              *)
(*                                                                         *)
(* A step on a connection is a turn of the server (SrvTurn) or of the      *)
(* agent (AgtTurn); the turns are named by what they do (SrvKind, AgentOn, *)
(* Move), and what every step of a kind keeps is one lemma.  IInv, of the  *)
(* queues, the slots and the server's clock, is inductive, and gives the   *)
(* type invariant and ServerNotices.  With Patient it bounds what both     *)
(* heartbeats can miss, which gives AgentNotices and NameFollowsAgent.     *)
(* With Prompt it says that what ends a wait is under way, and not too     *)
(* young, which gives NoFalseAlarm.                                        *)
(***************************************************************************)
EXTENDS AgentLife, TLAPS

-----------------------------------------------------------------------------
\* The messages under way.

\* Every name of a message.
Kinds == {"CONNECT", "HELLO", "OPEN_TUNNEL", "PING", "PONG", "CLOSE", "END",
          "ACCEPTED", "HELLO_OK", "REJECTED", "TUNNEL_OK", "TUNNEL_TAKEN"}

\* A message and its age.
MailType == [m : Kinds, age : 0..Latency]

\* A queue, the oldest message first.
Queue(q) ==
  /\ q \in Seq(MailType)
  /\ \A i, j \in DOMAIN q : i <= j => q[j].age <= q[i].age

\* What is in a queue, and the kinds of it.
Mail(q) == {q[i] : i \in DOMAIN q}
Names(q) == {x.m : x \in Mail(q)}

\* A CONNECT comes first, and once.
ConnectFirst(q) == q # <<>> => "CONNECT" \notin Names(Tail(q))

\* A message of one of these kinds that is at least so old.
Aged(q, kinds, age) == \E x \in Mail(q) : x.m \in kinds /\ age <= x.age

-----------------------------------------------------------------------------
\* The inductive invariant, part by part.

\* The phases with a connection, those of a session that is wanted, and the two
\* messages that end one.
Busy == {"connecting", "hello", "up", "closing"}
Working == {"connecting", "hello", "up"}
Bye == {"CLOSE", "END"}

\* What an agent in a phase can have said that is still under way.
SaidIn(phase) ==
  CASE phase = "connecting" -> {"CONNECT"}
    [] phase = "hello" -> {"HELLO", "PONG"}
    [] phase = "up" -> {"HELLO", "PONG", "OPEN_TUNNEL", "PING"}
    [] OTHER -> Kinds \ {"CONNECT"}

\* There are two queues for every connection.
Queued == /\ toServer \in [Conns -> Seq(MailType)]
          /\ toAgent \in [Conns -> Seq(MailType)]

\* The agent has a connection when it says so.
Phased == agent.phase \in Busy <=> agent.conn # NoConn

\* A dead link carries nothing, and a link that works has not been dead.
Linked(c) ==
  /\ Queue(toServer[c]) /\ Queue(toAgent[c])
  /\ link[c] = "ok" => deadFor[c] = 0
  /\ link[c] = "dead" => toServer[c] = <<>> /\ toAgent[c] = <<>>

\* A slot belongs to one connection at a time.
Slotted(c) ==
  /\ agent.conn # c => toAgent[c] = <<>>
  /\ agent.conn = c => Names(toServer[c]) \subseteq SaidIn(agent.phase)
  /\ agent.conn = c /\ agent.phase \in {"connecting", "hello"}
        => Names(toAgent[c]) \cap {"TUNNEL_OK", "TUNNEL_TAKEN"} = {}
  /\ srv[c].ws = "none" => /\ ~srv[c].session
                           /\ holder # c
                           /\ toServer[c] # <<>> => Head(toServer[c]).m = "CONNECT"
  /\ "CONNECT" \in Names(toServer[c]) => srv[c].ws = "none" /\ toAgent[c] = <<>>
  /\ ConnectFirst(toServer[c])

\* A session that is established, or about to be for the agent, has no timer.
Settled(c) ==
  "HELLO_OK" \in Names(toAgent[c]) \/ (agent.conn = c /\ agent.phase = "up")
    => known /\ (srv[c].ws = "none" \/ (srv[c].ws = "open" /\ srv[c].timer = Off))

\* The time since the first ping that the server had no sign of life after.
Silence(c) == srv[c].misses * Heartbeat - srv[c].tickIn

\* The server's clock.
Ticking(c) ==
  srv[c].ws = "open" => /\ srv[c].tickIn # Off
                        /\ deadFor[c] <= Silence(c) + Heartbeat

\* All of it.
IInv ==
  /\ TypeOK /\ Queued /\ Phased
  /\ \A c \in Conns : Linked(c) /\ Slotted(c) /\ Settled(c) /\ Ticking(c)

\* The agent's clock.
Pinged(c) ==
  agent.phase = "up" /\ agent.conn = c =>
    /\ agent.pingIn # Off
    /\ agent.pongIn = Off => deadFor[c] <= PingInterval - agent.pingIn
    /\ agent.pongIn # Off => deadFor[c] <= PingInterval + PingTimeout - agent.pongIn

\* The server has heard of an agent that is up.
Heard(c) ==
  srv[c].ws = "open" =>
    /\ \A x \in Mail(toAgent[c]) : x.m \in {"PONG", "HELLO_OK"} => Silence(c) <= x.age
    /\ agent.phase = "up" /\ agent.conn = c =>
         /\ agent.pongIn = Off => Silence(c) <= PingInterval + Latency - agent.pingIn
         /\ agent.pongIn # Off
              => Silence(c) <= PingInterval + Latency + PingTimeout - agent.pongIn

\* The name.
Claimed(c) ==
  agent.phase = "up" /\ agent.conn = c
     /\ (agent.tunnel = "ok" \/ "TUNNEL_OK" \in Names(toAgent[c]))
    => \/ holder = c
       \/ Restarted /\ (link[c] = "dead" \/ Names(toAgent[c]) \cap Bye # {})

\* What the patience of the heartbeats rests on.
Patient == \A c \in Conns : Pinged(c) /\ Heard(c) /\ Claimed(c)

\* What ends a wait is on its way.
Served(c) ==
  link[c] = "ok" =>
    /\ agent.conn = c /\ agent.phase \in Working
         => \/ srv[c].ws = "open" \/ "CONNECT" \in Names(toServer[c])
            \/ Names(toAgent[c]) \cap {"CLOSE", "END", "REJECTED"} # {}
    /\ ~(agent.conn = c /\ agent.phase \in Working)
         => (srv[c].ws = "open" \/ "CONNECT" \in Names(toServer[c])
               => Names(toServer[c]) \cap Bye # {})

\* The agent waits for the answer to HELLO.
Greeted(c) ==
  link[c] = "ok" /\ agent.conn = c /\ agent.phase = "hello" =>
    \/ Aged(toAgent[c], {"HELLO_OK", "REJECTED", "CLOSE", "END"},
            HandshakeTimeout - Latency - agent.timer)
    \/ srv[c].ws = "open" /\ Aged(toServer[c], {"HELLO"}, HandshakeTimeout - agent.timer)

\* The agent waits for a pong.
Ponged(c) ==
  link[c] = "ok" /\ agent.conn = c /\ agent.phase = "up" /\ agent.pongIn # Off =>
    \/ Aged(toAgent[c], {"PONG", "CLOSE", "END", "REJECTED"},
            PingTimeout - Latency - agent.pongIn)
    \/ srv[c].ws = "open" /\ Aged(toServer[c], {"PING"}, PingTimeout - agent.pongIn)

\* The server waits for HELLO.
Awaited(c) ==
  link[c] = "ok" /\ srv[c].ws = "open" /\ srv[c].timer # Off =>
    \/ Aged(toServer[c], {"HELLO", "CLOSE", "END"},
            HelloTimeout - Latency - srv[c].timer)
    \/ /\ agent.conn = c /\ agent.phase = "connecting"
       /\ Aged(toAgent[c], {"ACCEPTED"}, HelloTimeout - srv[c].timer)

\* The server has missed signs of life.
Answered(c) ==
  link[c] = "ok" /\ srv[c].ws = "open" /\ srv[c].misses # 0 =>
    \/ Aged(toServer[c], Kinds, Silence(c) - Latency)
    \/ /\ agent.conn = c /\ agent.phase \in Working
       /\ Aged(toAgent[c], {"PING"}, Silence(c))

\* An agent that is not up waits for no pong, and none does if it may take for ever.
Unasked ==
  agent.phase \in {"waiting", "connecting", "hello"} \/ PingTimeout = 0
    => agent.pongIn = Off

\* What is waited for comes: the question or its answer is under way, and not too
\* young for its deadline.
Prompt == /\ Unasked
          /\ \A c \in Conns : /\ Served(c) /\ Greeted(c) /\ Ponged(c)
                              /\ Awaited(c) /\ Answered(c)
-----------------------------------------------------------------------------
\* Queues of messages: what they hold after a message is sent or taken, or a
\* tick older.

\* An empty queue holds nothing, and only an empty one.
LEMMA NoMail ==
  /\ Queue(<<>>) /\ Mail(<<>>) = {} /\ Names(<<>>) = {} /\ ConnectFirst(<<>>)
  /\ \A q : Queue(q) /\ q # <<>> => Head(q) \in Mail(q) /\ Head(q).m \in Names(q)
<1>1. <<>> \in Seq(MailType) /\ DOMAIN <<>> = {}
  OBVIOUS
<1>2. ASSUME NEW q, Queue(q), q # <<>> PROVE Head(q) \in Mail(q)
  <2>1. q \in Seq(MailType)
    BY <1>2 DEF Queue
  <2>2. 1 \in DOMAIN q /\ Head(q) = q[1]
    BY <1>2, <2>1
  <2> QED
    BY <2>2 DEF Mail
<1> QED
  BY <1>1, <1>2 DEF Queue, Mail, Names, ConnectFirst

\* What is in a queue is a message, and not late.
LEMMA MailTyped ==
  ASSUME NEW q, Queue(q), NEW x \in Mail(q)
  PROVE  /\ x \in MailType /\ x.m \in Kinds /\ x.m \in Names(q)
         /\ x.age \in Nat /\ x.age <= Latency
<1>1. q \in Seq(MailType)
  BY DEF Queue
<1>2. PICK i \in DOMAIN q : x = q[i]
  BY DEF Mail
<1>3. x \in MailType
  BY <1>1, <1>2
<1> QED
  BY <1>3, AgentLifeAssumption DEF MailType, Names

\* What is sent is new.
LEMMA FreshMail ==
  ASSUME NEW ms \in Seq(Kinds)
  PROVE  /\ Fresh(ms) \in Seq(MailType) /\ Len(Fresh(ms)) = Len(ms)
         /\ \A i \in DOMAIN Fresh(ms) : Fresh(ms)[i] = [m |-> ms[i], age |-> 0]
         /\ Mail(Fresh(ms)) = {[m |-> ms[i], age |-> 0] : i \in DOMAIN ms}
<1>1. Len(ms) \in Nat /\ DOMAIN ms = 1..Len(ms) /\ \A i \in 1..Len(ms) : ms[i] \in Kinds
  OBVIOUS
<1>2. \A k \in Kinds : [m |-> k, age |-> 0] \in MailType
  BY AgentLifeAssumption DEF MailType
<1>3. Fresh(ms) = [i \in 1..Len(ms) |-> [m |-> ms[i], age |-> 0]]
  BY <1>1 DEF Fresh
<1>4. Fresh(ms) \in [1..Len(ms) -> MailType]
  BY <1>1, <1>2, <1>3
<1>5. Fresh(ms) \in Seq(MailType) /\ Len(Fresh(ms)) = Len(ms)
  <2> DEFINE f == Fresh(ms)
             n == Len(ms)
  <2>1. n \in Nat /\ f \in [1..n -> MailType]
    BY <1>1, <1>4
  <2> HIDE DEF f, n
  <2>2. f \in Seq(MailType) /\ Len(f) = n
    BY <2>1
  <2> QED
    BY <2>2 DEF f, n
<1> QED
  BY <1>1, <1>3, <1>5 DEF Mail

\* One message, two or none.
LEMMA FreshOnes ==
  ASSUME NEW a \in Kinds, NEW b \in Kinds
  PROVE  /\ Fresh(<<>>) = <<>>
         /\ <<a>> \in Seq(Kinds) /\ <<a, b>> \in Seq(Kinds)
         /\ Mail(Fresh(<<a>>)) = {[m |-> a, age |-> 0]}
         /\ Mail(Fresh(<<a, b>>)) = {[m |-> a, age |-> 0], [m |-> b, age |-> 0]}
<1>1. Fresh(<<>>) = <<>>
  BY FreshMail DEF Fresh
<1>2. <<a>> \in Seq(Kinds) /\ DOMAIN <<a>> = {1} /\ <<a>>[1] = a
  OBVIOUS
<1>3. <<a, b>> \in Seq(Kinds) /\ DOMAIN <<a, b>> = {1, 2} /\ <<a, b>>[1] = a /\ <<a, b>>[2] = b
  OBVIOUS
<1>4. Mail(Fresh(<<a>>)) = {[m |-> a, age |-> 0]}
  BY <1>2, FreshMail
<1>5. Mail(Fresh(<<a, b>>)) = {[m |-> a, age |-> 0], [m |-> b, age |-> 0]}
  <2> DEFINE s == <<a, b>>
  <2>1. s \in Seq(Kinds) /\ DOMAIN s = {1, 2} /\ s[1] = a /\ s[2] = b
    BY <1>3
  <2> HIDE DEF s
  <2>2. Mail(Fresh(s)) = {[m |-> s[i], age |-> 0] : i \in DOMAIN s}
    BY <2>1, FreshMail
  <2>3. Mail(Fresh(s)) = {[m |-> a, age |-> 0], [m |-> b, age |-> 0]}
    BY <2>1, <2>2
  <2> QED
    BY <2>3 DEF s
<1> QED
  BY <1>1, <1>2, <1>3, <1>4, <1>5

\* Messages sent, at the end of a queue.
LEMMA MailSent ==
  ASSUME NEW q, Queue(q), NEW ms \in Seq(Kinds)
  PROVE  /\ Queue(q \o Fresh(ms))
         /\ Mail(q \o Fresh(ms)) = Mail(q) \cup Mail(Fresh(ms))
         /\ q # <<>> => q \o Fresh(ms) # <<>> /\ Head(q \o Fresh(ms)) = Head(q)
         /\ "CONNECT" \notin Names(Fresh(ms)) /\ ConnectFirst(q)
              /\ (q = <<>> => Fresh(ms) = <<>>)
              => ConnectFirst(q \o Fresh(ms))
<1> DEFINE r == Fresh(ms)
           p == q \o r
<1>1. /\ q \in Seq(MailType) /\ r \in Seq(MailType)
      /\ \A i, j \in DOMAIN q : i <= j => q[j].age <= q[i].age
      /\ \A i \in DOMAIN r : r[i].age = 0
  BY FreshMail DEF Queue
<1> HIDE DEF r
<1>2. /\ p \in Seq(MailType) /\ Len(p) = Len(q) + Len(r)
      /\ Len(q) \in Nat /\ Len(r) \in Nat
      /\ DOMAIN q = 1..Len(q) /\ DOMAIN r = 1..Len(r) /\ DOMAIN p = 1..Len(p)
      /\ \A i \in 1..Len(q) : p[i] = q[i]
      /\ \A i \in 1..Len(r) : p[Len(q) + i] = r[i]
  BY <1>1
<1>3. \A i \in DOMAIN p : \/ i \in DOMAIN q /\ p[i] = q[i]
                          \/ i - Len(q) \in DOMAIN r /\ p[i] = r[i - Len(q)] /\ i > Len(q)
  BY <1>2
<1>4. \A i \in DOMAIN p : p[i].age \in Nat
  <2>1. \A x \in MailType : x.age \in Nat
    BY AgentLifeAssumption DEF MailType
  <2>2. \A i \in DOMAIN p : p[i] \in MailType
    BY <1>2
  <2> QED
    BY <2>1, <2>2
<1> HIDE DEF p
<1>5. Queue(p)
  <2>1. ASSUME NEW i \in DOMAIN p, NEW j \in DOMAIN p, i <= j PROVE p[j].age <= p[i].age
    <3>1. CASE j \in DOMAIN q /\ p[j] = q[j]
      <4>1. i \in DOMAIN q /\ p[i] = q[i]
        BY <1>2, <2>1, <3>1
      <4> QED
        BY <1>1, <2>1, <3>1, <4>1
    <3>2. CASE j - Len(q) \in DOMAIN r /\ p[j] = r[j - Len(q)]
      BY <1>1, <1>4, <3>2
    <3> QED
      BY <1>3, <3>1, <3>2
  <2> QED
    BY <1>2, <2>1 DEF Queue
<1>6. Mail(p) = Mail(q) \cup Mail(r)
  <2>1. \A i \in DOMAIN q : i \in DOMAIN p /\ p[i] = q[i]
    BY <1>2
  <2>2. \A i \in DOMAIN r : Len(q) + i \in DOMAIN p /\ p[Len(q) + i] = r[i]
    BY <1>2
  <2> QED
    BY <1>3, <2>1, <2>2 DEF Mail
<1>7. q # <<>> => p # <<>> /\ Head(p) = Head(q) /\ Tail(p) = Tail(q) \o r
  BY <1>1 DEF p
<1>8. q = <<>> /\ r = <<>> => p = <<>>
  BY <1>1 DEF p
<1>9. ASSUME q # <<>> PROVE Mail(Tail(p)) = Mail(Tail(q)) \cup Mail(r)
  <2>1. Tail(q) \in Seq(MailType) /\ Len(Tail(q)) \in Nat
    BY <1>1, <1>9
  <2> DEFINE t == Tail(q)
             u == t \o r
  <2>2. t \in Seq(MailType)
    BY <2>1
  <2> HIDE DEF t
  <2>3. /\ \A i \in DOMAIN t : i \in DOMAIN u /\ u[i] = t[i]
        /\ \A i \in DOMAIN r : Len(t) + i \in DOMAIN u /\ u[Len(t) + i] = r[i]
        /\ \A i \in DOMAIN u : \/ i \in DOMAIN t /\ u[i] = t[i]
                               \/ i - Len(t) \in DOMAIN r /\ u[i] = r[i - Len(t)]
    BY <1>1, <2>2
  <2> HIDE DEF u
  <2>4. Mail(u) = Mail(t) \cup Mail(r)
    BY <2>3 DEF Mail
  <2> QED
    BY <1>7, <1>9, <2>4 DEF t, u
<1>10. "CONNECT" \notin Names(r) /\ ConnectFirst(q) /\ (q = <<>> => r = <<>>)
         => ConnectFirst(p)
  BY <1>7, <1>8, <1>9 DEF ConnectFirst, Names
<1> QED
  BY <1>5, <1>6, <1>7, <1>10 DEF p, r

\* The oldest message taken.
LEMMA MailTaken ==
  ASSUME NEW q, Queue(q), q # <<>>
  PROVE  /\ Queue(Tail(q)) /\ Mail(q) = Mail(Tail(q)) \cup {Head(q)}
         /\ ConnectFirst(q) => "CONNECT" \notin Names(Tail(q)) /\ ConnectFirst(Tail(q))
<1> DEFINE t == Tail(q)
<1>1. /\ q \in Seq(MailType) /\ \A i, j \in DOMAIN q : i <= j => q[j].age <= q[i].age
  BY DEF Queue
<1>2. /\ t \in Seq(MailType) /\ Len(q) \in Nat \ {0} /\ Len(t) = Len(q) - 1
      /\ DOMAIN q = 1..Len(q) /\ DOMAIN t = 1..Len(t)
      /\ \A i \in 1..Len(t) : t[i] = q[i + 1]
      /\ Head(q) = q[1]
  BY <1>1
<1> HIDE DEF t
<1>3. \A i \in DOMAIN t : i + 1 \in DOMAIN q /\ t[i] = q[i + 1]
  BY <1>2
<1>4. \A i \in DOMAIN q : i # 1 => i - 1 \in DOMAIN t /\ q[i] = t[i - 1]
  BY <1>2
<1>5. Queue(t)
  <2>1. ASSUME NEW i \in DOMAIN t, NEW j \in DOMAIN t, i <= j PROVE t[j].age <= t[i].age
    <3>1. i + 1 <= j + 1
      BY <1>2, <2>1
    <3> QED
      BY <1>1, <1>3, <3>1
  <2> QED
    BY <1>2, <2>1 DEF Queue
<1>6. Mail(q) = Mail(t) \cup {Head(q)}
  <2>1. 1 \in DOMAIN q
    BY <1>2
  <2> QED
    BY <1>2, <1>3, <1>4, <2>1 DEF Mail
<1>7. ASSUME "CONNECT" \notin Names(t) PROVE ConnectFirst(t)
  <2>1. ASSUME t # <<>> PROVE Mail(Tail(t)) \subseteq Mail(t)
    <3>1. \A i \in DOMAIN Tail(t) : i + 1 \in DOMAIN t /\ Tail(t)[i] = t[i + 1]
      BY <1>2, <2>1
    <3> QED
      BY <3>1 DEF Mail
  <2> QED
    BY <1>7, <2>1 DEF ConnectFirst, Names
<1> QED
  BY <1>5, <1>6, <1>7 DEF ConnectFirst, t

\* A tick later.
LEMMA MailOlder ==
  ASSUME NEW q, Queue(q), ~Overdue(q)
  PROVE  /\ Queue(Older(q)) /\ Mail(Older(q)) = {[x EXCEPT !.age = @ + 1] : x \in Mail(q)}
         /\ Names(Older(q)) = Names(q)
         /\ Older(q) = <<>> <=> q = <<>>
         /\ q # <<>> => Head(Older(q)).m = Head(q).m
         /\ ConnectFirst(q) => ConnectFirst(Older(q))
<1> DEFINE p == Older(q)
           aged(x) == [x EXCEPT !.age = @ + 1]
<1>1. /\ q \in Seq(MailType) /\ \A i, j \in DOMAIN q : i <= j => q[j].age <= q[i].age
  BY DEF Queue
<1>2. DOMAIN q = 1..Len(q) /\ Len(q) \in Nat /\ \A i \in 1..Len(q) : q[i] \in MailType
  BY <1>1
<1>3. \A i \in DOMAIN q : q[i].age < Latency
  <2> TAKE i \in DOMAIN q
  <2>1. q # <<>> /\ 1 \in DOMAIN q /\ Head(q) = q[1] /\ 1 <= i
    BY <1>1, <1>2
  <2>0. \A x \in MailType : x.age \in Nat /\ Latency \in Nat
    BY AgentLifeAssumption DEF MailType
  <2>2. ~(q[1].age >= Latency) /\ q[1] \in MailType /\ q[i] \in MailType
    BY <1>2, <2>1 DEF Overdue
  <2>3. q[i].age <= q[1].age
    BY <1>1, <2>1
  <2> QED
    BY <2>0, <2>2, <2>3
<1>4. \A x \in MailType : /\ aged(x).m = x.m /\ aged(x).age = x.age + 1
                          /\ x.age \in Nat
                          /\ x.age < Latency => aged(x) \in MailType
  BY AgentLifeAssumption DEF MailType
<1>5. p = [i \in 1..Len(q) |-> aged(q[i])]
  BY <1>2 DEF Older
<1> HIDE DEF aged
<1>6. p \in [1..Len(q) -> MailType]
  BY <1>2, <1>3, <1>4, <1>5
<1>7. /\ p \in Seq(MailType) /\ Len(p) = Len(q) /\ DOMAIN p = DOMAIN q
      /\ \A i \in DOMAIN q : p[i] = aged(q[i])
  BY <1>2, <1>5, <1>6
<1> HIDE DEF p
<1>8. Queue(p)
  <2>1. ASSUME NEW i \in DOMAIN p, NEW j \in DOMAIN p, i <= j PROVE p[j].age <= p[i].age
    <3>1. q[j].age <= q[i].age
      BY <1>1, <1>7, <2>1
    <3>2. p[i].age = q[i].age + 1 /\ p[j].age = q[j].age + 1 /\ q[i].age \in Nat /\ q[j].age \in Nat
      BY <1>2, <1>4, <1>7, <2>1
    <3> QED
      BY <3>1, <3>2
  <2> QED
    BY <1>7, <2>1 DEF Queue
<1>9. Mail(p) = {aged(x) : x \in Mail(q)}
  BY <1>7 DEF Mail
<1>10. Names(p) = Names(q)
  <2>1. \A i \in DOMAIN q : p[i].m = q[i].m
    BY <1>2, <1>4, <1>7
  <2>2. \A x \in Mail(p) : \E y \in Mail(q) : x.m = y.m
    BY <1>7, <2>1 DEF Mail
  <2>3. \A y \in Mail(q) : \E x \in Mail(p) : x.m = y.m
    BY <1>7, <2>1 DEF Mail
  <2> QED
    BY <2>2, <2>3 DEF Names
<1>11. (p = <<>> <=> q = <<>>) /\ (q # <<>> => Head(p).m = Head(q).m)
  <2>1. (p = <<>> <=> Len(p) = 0) /\ (q = <<>> <=> Len(q) = 0)
    BY <1>1, <1>7
  <2>2. ASSUME q # <<>> PROVE Head(p).m = Head(q).m
    <3>1. 1 \in DOMAIN q /\ Head(q) = q[1] /\ Head(p) = p[1]
      BY <1>1, <1>2, <1>7, <2>2, <2>1
    <3> QED
      BY <1>2, <1>4, <1>7, <3>1
  <2> QED
    BY <1>7, <2>1, <2>2
<1>12. ASSUME q # <<>>, "CONNECT" \notin Names(Tail(q)) PROVE "CONNECT" \notin Names(Tail(p))
  <2>1. /\ \A i \in DOMAIN Tail(p) : /\ Tail(p)[i] = p[i + 1] /\ i + 1 \in DOMAIN q
                                     /\ i \in DOMAIN Tail(q) /\ Tail(q)[i] = q[i + 1]
    BY <1>1, <1>2, <1>7, <1>11, <1>12
  <2>2. \A x \in Mail(Tail(p)) : \E y \in Mail(Tail(q)) : x.m = y.m
    <3> TAKE x \in Mail(Tail(p))
    <3>1. PICK i \in DOMAIN Tail(p) : x = Tail(p)[i]
      BY DEF Mail
    <3>2. x.m = Tail(q)[i].m /\ Tail(q)[i] \in Mail(Tail(q))
      BY <1>2, <1>4, <1>7, <2>1, <3>1 DEF Mail
    <3> QED
      BY <3>2
  <2> QED
    BY <1>12, <2>2 DEF Names
<1> QED
  BY <1>8, <1>9, <1>10, <1>11, <1>12 DEF ConnectFirst, p, aged
-----------------------------------------------------------------------------
\* What of the state concerns one connection.

\* The types of the two ends.
AgentType == [phase : Phases, conn : Conns \cup {NoConn},
              timer : Int, pingIn : UpTo(PingInterval),
              pongIn : UpTo(PingTimeout),
              tunnel : {"none", "asked", "ok", "refused"},
              delay : MinDelay..MaxDelay, age : 0..StableSession,
              stopping : BOOLEAN]

EndType == [ws : {"none", "open", "closing"}, session : BOOLEAN,
            misses : 0..HeartbeatMisses, tickIn : UpTo(Heartbeat), timer : Int]

\* A step that does not concern connection k.
Same(k) ==
  /\ srv'[k] = srv[k] /\ link'[k] = link[k] /\ deadFor'[k] = deadFor[k]
  /\ toServer'[k] = toServer[k] /\ toAgent'[k] = toAgent[k]
  /\ holder' = k <=> holder = k
  /\ known' = known
  /\ Restarted => Restarted'
  /\ agent' = agent \/ (agent.conn # k /\ agent'.conn # k)

\* What the two invariants say of one connection.
Kept(c) == Linked(c) /\ Slotted(c) /\ Settled(c) /\ Ticking(c)
Waited(c) == Served(c) /\ Greeted(c) /\ Ponged(c) /\ Awaited(c) /\ Answered(c)

\* The type invariant, with the agent and the server's ends named.
LEMMA Typed ==
  TypeOK <=> /\ agent \in AgentType /\ srv \in [Conns -> EndType]
             /\ holder \in Conns \cup {NoConn} /\ link \in [Conns -> {"ok", "dead"}]
             /\ deadFor \in [Conns -> 0..DeadForCap] /\ known \in BOOLEAN
             /\ faults \in [Faults -> 0..MaxFaults]
  BY DEF TypeOK, AgentType, EndType

\* The constants are numbers, a timer Off is none of theirs.
LEMMA Numbers ==
  /\ NoConn \notin Conns /\ Off = -1
  /\ Latency \in Nat /\ PingInterval \in Nat /\ PingTimeout \in Nat /\ MaxFaults \in Nat
  /\ ConnectTimeout \in Nat \ {0} /\ HandshakeTimeout \in Nat \ {0}
  /\ MinDelay \in Nat \ {0} /\ MaxDelay \in Nat \ {0} /\ StableSession \in Nat \ {0}
  /\ HelloTimeout \in Nat \ {0} /\ CloseTimeout \in Nat \ {0}
  /\ Heartbeat \in Nat \ {0} /\ HeartbeatMisses \in Nat \ {0}
  /\ MinDelay <= MaxDelay
  /\ 0 \in 0..DeadForCap /\ DeadForCap \in Nat
<1>1. DeadForCap \in Nat
  <2> DEFINE H == Heartbeat
             M == HeartbeatMisses
  <2>1. H \in Nat /\ M \in Nat /\ PingInterval \in Nat /\ PingTimeout \in Nat
    BY AgentLifeAssumption
  <2> HIDE DEF H, M
  <2>2. (M + 1) * H \in Nat
    BY <2>1
  <2> QED
    BY <2>1, <2>2 DEF DeadForCap, H, M
<1> QED
  BY <1>1, AgentLifeAssumption DEF Off

\* What does not concern a connection leaves what is said of it.
LEMMA Elsewhere ==
  ASSUME NEW k \in Conns, Same(k)
  PROVE  /\ Kept(k) => Kept(k)'
         /\ Pinged(k) => Pinged(k)'
         /\ Heard(k) => Heard(k)'
         /\ Claimed(k) => Claimed(k)'
         /\ Waited(k) => Waited(k)'
<1>1. Linked(k) => Linked(k)'
  BY DEF Same, Linked
<1>2. Slotted(k) => Slotted(k)'
  BY DEF Same, Slotted
<1>3. Settled(k) => Settled(k)'
  BY DEF Same, Settled
<1>4. Silence(k)' = Silence(k) /\ (Ticking(k) => Ticking(k)')
  BY DEF Same, Ticking, Silence
<1>5. Pinged(k) => Pinged(k)'
  BY DEF Same, Pinged
<1>6. Heard(k) => Heard(k)'
  BY <1>4 DEF Same, Heard
<1>7. Claimed(k) => Claimed(k)'
  BY DEF Same, Claimed
<1>8. Served(k) => Served(k)'
  BY DEF Same, Served
<1>9. (Greeted(k) => Greeted(k)') /\ (Ponged(k) => Ponged(k)')
  BY DEF Same, Greeted, Ponged
<1>10. Awaited(k) => Awaited(k)'
  BY DEF Same, Awaited
<1>11. Answered(k) => Answered(k)'
  BY <1>4 DEF Same, Answered
<1> QED
  BY <1>1, <1>2, <1>3, <1>4, <1>5, <1>6, <1>7, <1>8, <1>9, <1>10, <1>11 DEF Kept, Waited

\* Messages put at the end of a queue, if anything is: what is there then.
LEMMA Put ==
  ASSUME NEW q, Queue(q), NEW ms \in Seq(Kinds), NEW p, p \in {Fresh(ms), <<>>}
  PROVE  /\ Queue(q \o p) /\ Mail(q) \subseteq Mail(q \o p)
         /\ Mail(q \o p) \subseteq Mail(q) \cup Mail(Fresh(ms))
         /\ Names(q) \subseteq Names(q \o p)
         /\ Names(q \o p) \subseteq Names(q) \cup Names(Fresh(ms))
         /\ p = Fresh(ms) => Mail(q \o p) = Mail(q) \cup Mail(Fresh(ms))
         /\ p = <<>> => q \o p = q
         /\ q # <<>> => q \o p # <<>> /\ Head(q \o p) = Head(q)
         /\ "CONNECT" \notin Names(Fresh(ms)) /\ ConnectFirst(q) /\ (q = <<>> => p = <<>>)
              => ConnectFirst(q \o p)
<1>1. CASE p = <<>>
  <2>1. q \o p = q
    BY <1>1 DEF Queue
  <2>2. Fresh(ms) = <<>> => Mail(Fresh(ms)) = {}
    BY NoMail
  <2> QED
    BY <1>1, <2>1, <2>2 DEF Names
<1>2. CASE p = Fresh(ms)
  <2>1. p = <<>> => q \o p = q
    BY DEF Queue
  <2>2. /\ Queue(q \o p) /\ Mail(q \o p) = Mail(q) \cup Mail(Fresh(ms))
        /\ q # <<>> => q \o p # <<>> /\ Head(q \o p) = Head(q)
        /\ "CONNECT" \notin Names(Fresh(ms)) /\ ConnectFirst(q) /\ (q = <<>> => p = <<>>)
              => ConnectFirst(q \o p)
    BY <1>2, MailSent
  <2>3. Names(q \o p) = Names(q) \cup Names(Fresh(ms))
    BY <2>2 DEF Names
  <2> QED
    BY <1>2, <2>1, <2>2, <2>3
<1> QED
  BY <1>1, <1>2

\* Ages.
LEMMA AgedLaws ==
  ASSUME NEW q, Queue(q), NEW K, NEW n \in Int
  PROVE  /\ Aged(q, K, n) => n <= Latency /\ Names(q) \cap K # {}
         /\ \A p, m : Mail(q) \subseteq Mail(p) /\ m \in Int /\ m <= n /\ Aged(q, K, n)
                        => Aged(p, K, m)
         /\ Aged(q, K, n) /\ q # <<>>
              => \/ Head(q).m \in K /\ n <= Head(q).age
                 \/ Aged(Tail(q), K, n)
         /\ n <= 0 /\ Names(q) \cap K # {} => Aged(q, K, n)
<1>1. \A x \in Mail(q) : x.age \in Nat /\ x.age <= Latency
  BY MailTyped
<1>2. Latency \in Nat
  BY Numbers
<1>3. Aged(q, K, n) => n <= Latency /\ Names(q) \cap K # {}
  BY <1>1, <1>2 DEF Aged, Names
<1>4. ASSUME NEW p, NEW m, Mail(q) \subseteq Mail(p), m \in Int, m <= n, Aged(q, K, n)
      PROVE  Aged(p, K, m)
  BY <1>1, <1>4 DEF Aged
<1>5. ASSUME Aged(q, K, n), q # <<>>
      PROVE  \/ Head(q).m \in K /\ n <= Head(q).age
             \/ Aged(Tail(q), K, n)
  <2>1. Mail(q) = Mail(Tail(q)) \cup {Head(q)}
    BY <1>5, MailTaken
  <2> QED
    BY <1>5, <2>1 DEF Aged
<1>6. n <= 0 /\ Names(q) \cap K # {} => Aged(q, K, n)
  BY <1>1 DEF Aged, Names
<1> QED
  BY <1>3, <1>4, <1>5, <1>6

\* What the other side gets of what is sent.
LEMMA SentAway ==
  ASSUME NEW c \in Conns, NEW ms \in Seq(Kinds)
  PROVE  /\ ToServer(c, ms) \in {Fresh(ms), <<>>} /\ ToAgent(c, ms) \in {Fresh(ms), <<>>}
         /\ link[c] = "ok" /\ ServerThere(c) => ToServer(c, ms) = Fresh(ms)
         /\ ~(link[c] = "ok" /\ ServerThere(c)) => ToServer(c, ms) = <<>>
         /\ link[c] = "ok" /\ agent.conn = c => ToAgent(c, ms) = Fresh(ms)
         /\ ~(link[c] = "ok" /\ agent.conn = c) => ToAgent(c, ms) = <<>>
  BY DEF ToServer, ToAgent
-----------------------------------------------------------------------------
\* The server's turns.

\* A server's step on connection c: its end becomes e, the messages ms are sent
\* and q is what it leaves unread.
SrvTurn(c, e, ms, q) ==
  /\ c \in Conns /\ e \in EndType /\ ms \in Seq(Kinds) /\ Queue(q)
  /\ ServerBecomes(c, e, ms)
  /\ toServer' = [toServer EXCEPT ![c] = q]
  /\ holder' \in {holder, c, NoConn}
  /\ holder' = c => holder \in {c, NoConn}
  /\ holder' = NoConn => holder \in {c, NoConn}
  /\ Mail(q) \subseteq Mail(toServer[c])

\* What is common to them.
LEMMA SrvTurned ==
  ASSUME IInv, NEW c, NEW e, NEW ms, NEW q, SrvTurn(c, e, ms, q)
  PROVE  /\ TypeOK' /\ Queued' /\ Phased'
         /\ \A k \in Conns : k # c => Same(k)
         /\ srv'[c] = e /\ toServer'[c] = q
         /\ agent' = agent /\ known' = known /\ link' = link /\ deadFor' = deadFor
         /\ Restarted' = Restarted
         /\ Linked(c)'
         /\ toAgent'[c] = toAgent[c] \o ToAgent(c, ms)
         /\ Queue(toAgent[c]) /\ Queue(toAgent'[c])
         /\ Names(q) \subseteq Names(toServer[c])
<1>1. /\ TypeOK /\ Queued /\ Phased /\ c \in Conns /\ Linked(c) /\ Slotted(c)
      /\ NoConn \notin Conns
  BY Numbers DEF IInv, SrvTurn
<1>2. /\ srv \in [Conns -> EndType] /\ holder \in Conns \cup {NoConn}
      /\ link \in [Conns -> {"ok", "dead"}]
  BY <1>1, Typed
<1>3. /\ srv' = [srv EXCEPT ![c] = e] /\ toServer' = [toServer EXCEPT ![c] = q]
      /\ toAgent' = [toAgent EXCEPT ![c] = @ \o ToAgent(c, ms)]
      /\ UNCHANGED <<agent, link, deadFor, known, faults>>
  BY DEF SrvTurn, ServerBecomes
<1>4. srv' \in [Conns -> EndType] /\ srv'[c] = e /\ holder' \in Conns \cup {NoConn}
  BY <1>1, <1>2, <1>3 DEF SrvTurn
<1>5. TypeOK'
  <2>1. /\ agent' \in AgentType /\ srv' \in [Conns -> EndType]
        /\ holder' \in Conns \cup {NoConn} /\ link' \in [Conns -> {"ok", "dead"}]
        /\ deadFor' \in [Conns -> 0..DeadForCap] /\ known' \in BOOLEAN
        /\ faults' \in [Faults -> 0..MaxFaults]
    BY <1>1, <1>3, <1>4, Typed
  <2> QED
    BY <2>1 DEF TypeOK, AgentType, EndType
<1>6. Restarted' = Restarted
  BY <1>3 DEF Restarted, Occurrences
<1>7. toServer'[c] = q /\ toAgent'[c] = toAgent[c] \o ToAgent(c, ms)
  <2>1. DOMAIN toServer = Conns /\ DOMAIN toAgent = Conns
    BY <1>1 DEF Queued
  <2> QED
    BY <1>1, <1>3, <2>1
<1>8. ASSUME NEW k \in Conns, k # c PROVE Same(k)
  BY <1>1, <1>3, <1>6, <1>8 DEF Same, SrvTurn
<1>9. Phased'
  BY <1>1, <1>3 DEF Phased
<1>10. Queue(toAgent[c]) /\ Queue(toAgent'[c]) /\ Names(q) \subseteq Names(toServer[c])
  <2>1. Queue(toAgent[c]) /\ ToAgent(c, ms) \in {Fresh(ms), <<>>}
    BY <1>1, SentAway DEF Linked, SrvTurn
  <2> QED
    BY <1>7, <2>1, Put DEF SrvTurn, Names
<1>12. Queued'
  <2>1. q \in Seq(MailType) /\ toAgent[c] \o ToAgent(c, ms) \in Seq(MailType)
    BY <1>7, <1>10 DEF SrvTurn, Queue
  <2> QED
    BY <1>1, <1>3, <2>1 DEF Queued
<1>11. Linked(c)'
  <2>1. Mail(toServer[c]) = {} => q = <<>>
    BY NoMail DEF SrvTurn
  <2>2. link[c] = "dead" => toServer[c] = <<>> /\ toAgent[c] = <<>> /\ ToAgent(c, ms) = <<>>
    BY <1>1, SentAway DEF Linked, SrvTurn
  <2>3. link[c] = "dead" => q = <<>> /\ toAgent'[c] = <<>>
    BY <1>7, <2>1, <2>2, NoMail
  <2> QED
    BY <1>1, <1>3, <1>7, <1>10, <2>3 DEF Linked, SrvTurn
<1> QED
  BY <1>3, <1>4, <1>5, <1>6, <1>7, <1>8, <1>9, <1>10, <1>11, <1>12

\* A reply: the server takes a message other than CONNECT from an agent it has,
\* and sends a reply r while its WebSocket is open.
Reply(c, e, ms, q, m, r) ==
  /\ toServer[c] # <<>> /\ Head(toServer[c]).m = m /\ q = Tail(toServer[c])
  /\ m \notin {"CONNECT", "CLOSE", "END"}
  /\ e.ws = srv[c].ws /\ e.tickIn = srv[c].tickIn /\ e.misses = 0
  /\ e.timer \in {srv[c].timer, Off}
  /\ e.session => srv[c].session \/ m = "HELLO"
  /\ r \in {"none", "HELLO_OK", "TUNNEL_OK", "TUNNEL_TAKEN", "PONG"}
  /\ ms = IF r = "none" THEN <<>> ELSE <<r>>
  /\ srv[c].ws # "open" => r = "none"
  /\ r = "HELLO_OK" => known /\ e.timer = Off
  /\ m = "HELLO" /\ srv[c].ws = "open" => r = "HELLO_OK"
  /\ m = "PING" /\ srv[c].ws = "open" => r = "PONG"
  /\ r \in {"TUNNEL_OK", "TUNNEL_TAKEN"} => m = "OPEN_TUNNEL"
  /\ r = "TUNNEL_OK" => holder' = c
  /\ holder' # holder => m = "OPEN_TUNNEL" /\ holder' = c

\* The server's end is over: its peer said so, it was closing, or the heartbeat
\* gave up.
Over(c, e, ms, q) ==
  /\ e = NoEnd /\ ms = <<"END">> /\ q = <<>> /\ holder' # c
  /\ \/ toServer[c] # <<>> /\ Head(toServer[c]).m \in Bye
     \/ srv[c].ws = "closing"
     \/ /\ srv[c].ws = "open" /\ srv[c].tickIn = 0
        /\ srv[c].misses >= HeartbeatMisses

\* The server begins to close.
CloseBegins(c, e, ms, q) ==
  /\ srv[c].ws = "open" /\ e = Closing(c)
  /\ \/ srv[c].timer = 0 /\ ms = <<"CLOSE">> /\ q = toServer[c]
     \/ /\ ~known /\ ms = <<"REJECTED", "CLOSE">>
        /\ toServer[c] # <<>> /\ Head(toServer[c]).m = "HELLO" /\ q = Tail(toServer[c])
  /\ holder' = holder

\* onConnection.
Accepts(c, e, ms, q) ==
  /\ toServer[c] # <<>> /\ Head(toServer[c]).m = "CONNECT" /\ q = Tail(toServer[c])
  /\ e = [NoEnd EXCEPT !.ws = "open", !.tickIn = Heartbeat, !.timer = HelloTimeout]
  /\ ms = <<"ACCEPTED">> /\ holder' = holder

\* A ping of the server's.
Beats(c, e, ms, q) ==
  /\ srv[c].ws = "open" /\ srv[c].tickIn = 0 /\ srv[c].misses < HeartbeatMisses
  /\ e = [srv[c] EXCEPT !.misses = @ + 1, !.tickIn = Heartbeat]
  /\ ms = <<"PING">> /\ q = toServer[c] /\ holder' = holder

\* A HELLO with an unknown token, on a WebSocket that is closing already.
Ignores(c, e, ms, q) ==
  /\ toServer[c] # <<>> /\ Head(toServer[c]).m = "HELLO" /\ q = Tail(toServer[c])
  /\ srv[c].ws = "closing" /\ e = srv[c] /\ ms = <<>> /\ holder' = holder

\* Messages the server sends.
LEMMA Sayings ==
  /\ {"HELLO_OK", "TUNNEL_OK", "TUNNEL_TAKEN", "PONG", "PING", "END", "CLOSE",
      "ACCEPTED", "REJECTED", "HELLO", "OPEN_TUNNEL", "CONNECT"} \subseteq Kinds
  /\ <<>> \in Seq(Kinds) /\ Mail(Fresh(<<>>)) = {} /\ Names(Fresh(<<>>)) = {}
  /\ \A a \in Kinds : /\ <<a>> \in Seq(Kinds)
                      /\ Mail(Fresh(<<a>>)) = {[m |-> a, age |-> 0]}
                      /\ Names(Fresh(<<a>>)) = {a}
  /\ <<"REJECTED", "CLOSE">> \in Seq(Kinds)
  /\ Mail(Fresh(<<"REJECTED", "CLOSE">>))
       = {[m |-> "REJECTED", age |-> 0], [m |-> "CLOSE", age |-> 0]}
  /\ Names(Fresh(<<"REJECTED", "CLOSE">>)) = {"REJECTED", "CLOSE"}
<1>1. ASSUME NEW a \in Kinds
      PROVE  /\ <<a>> \in Seq(Kinds)
             /\ Mail(Fresh(<<a>>)) = {[m |-> a, age |-> 0]}
             /\ Names(Fresh(<<a>>)) = {a}
  <2> DEFINE x == [m |-> a, age |-> 0]
  <2>1. <<a>> \in Seq(Kinds) /\ Mail(Fresh(<<a>>)) = {x} /\ x.m = a
    BY FreshOnes
  <2> HIDE DEF x
  <2>2. Names(Fresh(<<a>>)) = {a}
    BY <2>1 DEF Names
  <2> QED
    BY <2>1, <2>2 DEF x
<1>2. {"HELLO_OK", "TUNNEL_OK", "TUNNEL_TAKEN", "PONG", "PING", "END", "CLOSE",
       "ACCEPTED", "REJECTED", "HELLO", "OPEN_TUNNEL", "CONNECT"} \subseteq Kinds
  BY DEF Kinds
<1>3. Fresh(<<>>) = <<>>
  BY <1>2, FreshOnes
<1>4. "REJECTED" \in Kinds /\ "CLOSE" \in Kinds
  BY DEF Kinds
<1>5. /\ <<"REJECTED", "CLOSE">> \in Seq(Kinds)
      /\ Mail(Fresh(<<"REJECTED", "CLOSE">>))
           = {[m |-> "REJECTED", age |-> 0], [m |-> "CLOSE", age |-> 0]}
  BY <1>4, FreshOnes
<1>6. Names(Fresh(<<"REJECTED", "CLOSE">>)) = {"REJECTED", "CLOSE"}
  <2> DEFINE x == [m |-> "REJECTED", age |-> 0]
             y == [m |-> "CLOSE", age |-> 0]
  <2>1. Mail(Fresh(<<"REJECTED", "CLOSE">>)) = {x, y} /\ x.m = "REJECTED" /\ y.m = "CLOSE"
    BY <1>5
  <2> HIDE DEF x, y
  <2> QED
    BY <2>1 DEF Names
<1> QED
  BY <1>1, <1>2, <1>3, <1>5, <1>6, NoMail

\* The turn's kinds.
SrvKind(c, e, ms, q) ==
  \/ \E m \in Kinds : \E r : Reply(c, e, ms, q, m, r)
  \/ Over(c, e, ms, q)
  \/ CloseBegins(c, e, ms, q)
  \/ Accepts(c, e, ms, q)
  \/ Beats(c, e, ms, q)
  \/ Ignores(c, e, ms, q)

\* Every step of the server is a turn of one of these kinds.
LEMMA SrvStepKind ==
  ASSUME IInv, NEW c \in Conns, ServerStep(c)
  PROVE  \E e, ms, q : SrvTurn(c, e, ms, q) /\ SrvKind(c, e, ms, q)
<1> DEFINE Goal == \E e, ms, q : SrvTurn(c, e, ms, q) /\ SrvKind(c, e, ms, q)
<1>1. /\ srv[c] \in EndType /\ holder \in Conns \cup {NoConn} /\ Queue(toServer[c])
      /\ NoEnd \in EndType /\ Slotted(c)
  <2>1. TypeOK /\ Linked(c) /\ Slotted(c)
    BY DEF IInv
  <2> QED
    BY <2>1, Typed, Numbers DEF Linked, EndType, NoEnd, UpTo
<1>2. toServer' = [toServer EXCEPT ![c] = toServer[c]] <=> toServer' = toServer
  <2>1. toServer = [k \in Conns |-> toServer[k]]
    BY DEF IInv, Queued
  <2> QED
    BY <2>1
<1>3. /\ Queue(toServer[c]) /\ Queue(<<>>) /\ Mail(<<>>) = {}
      /\ toServer[c] # <<>> => /\ Queue(Tail(toServer[c]))
                               /\ Mail(Tail(toServer[c])) \subseteq Mail(toServer[c])
                               /\ Head(toServer[c]).m \in Kinds
  BY <1>1, NoMail, MailTaken, MailTyped
<1>r. /\ 0 \in 0..HeartbeatMisses /\ Off \in UpTo(Heartbeat) /\ Heartbeat \in UpTo(Heartbeat)
      /\ CloseTimeout \in Int /\ HelloTimeout \in Int /\ Off \in Int
  BY Numbers DEF UpTo
<1>4. Alive(c) \in EndType /\ Closing(c) \in EndType
  BY <1>1, <1>r DEF Alive, Closing, EndType
<1>a. /\ Alive(c).ws = srv[c].ws /\ Alive(c).tickIn = srv[c].tickIn /\ Alive(c).misses = 0
      /\ Alive(c).timer = srv[c].timer /\ Alive(c).session = srv[c].session
  BY <1>1 DEF Alive, EndType
<1>5. ASSUME ServerPing(c) \/ ServerPong(c) PROVE Goal
  <2> DEFINE r == IF ServerPing(c) /\ srv[c].ws = "open" THEN "PONG" ELSE "none"
             ms == IF r = "none" THEN <<>> ELSE <<r>>
             q == Tail(toServer[c])
  <2>1. PICK m \in {"PING", "PONG"} :
          Request(c, m) /\ m = IF ServerPing(c) THEN "PING" ELSE "PONG"
    BY <1>5 DEF ServerPing, ServerPong
  <2>2. ServerTakes(c, Alive(c), ms) /\ holder' = holder
    BY <1>5 DEF ServerPing, ServerPong, IfOpen
  <2>3. ms \in Seq(Kinds)
    BY Sayings
  <2>4. SrvTurn(c, Alive(c), ms, q)
    BY <1>1, <1>3, <1>4, <2>1, <2>2, <2>3 DEF SrvTurn, ServerTakes, Request
  <2>5. Reply(c, Alive(c), ms, q, m, r)
    BY <1>a, <2>1, <2>2, <2>3 DEF Reply, Request
  <2>6. m \in Kinds
    BY <2>1 DEF Kinds
  <2> QED
    BY <2>4, <2>5, <2>6 DEF SrvKind
<1>6. ASSUME ServerOpenTunnel(c) PROVE Goal
  <2> DEFINE r == IF srv[c].ws # "open" THEN "none"
                  ELSE IF holder = NoConn THEN "TUNNEL_OK" ELSE "TUNNEL_TAKEN"
             ms == IF r = "none" THEN <<>> ELSE <<r>>
             q == Tail(toServer[c])
  <2>1. Request(c, "OPEN_TUNNEL") /\ srv[c].session
    BY <1>6 DEF ServerOpenTunnel
  <2>2. ServerTakes(c, Alive(c), ms) /\ holder' = IF holder = NoConn THEN c ELSE holder
    BY <1>6 DEF ServerOpenTunnel, IfOpen
  <2>3. ms \in Seq(Kinds)
    BY Sayings
  <2>4. SrvTurn(c, Alive(c), ms, q)
    BY <1>1, <1>3, <1>4, <2>1, <2>2, <2>3 DEF SrvTurn, ServerTakes, Request
  <2>5. Reply(c, Alive(c), ms, q, "OPEN_TUNNEL", r)
    BY <1>a, <2>1, <2>2, <2>3 DEF Reply, Request
  <2> QED
    BY <2>4, <2>5, Sayings DEF SrvKind
<1>7. ASSUME ServerHello(c), known PROVE Goal
  <2> DEFINE r == IF srv[c].ws = "open" THEN "HELLO_OK" ELSE "none"
             ms == IF r = "none" THEN <<>> ELSE <<r>>
             q == Tail(toServer[c])
             e == [Alive(c) EXCEPT !.session = TRUE,
                              !.timer = IF srv[c].ws = "open" THEN Off ELSE @]
  <2>1. Request(c, "HELLO") /\ ServerTakes(c, e, ms) /\ holder' = holder
    BY <1>7 DEF ServerHello, IfOpen
  <2>2. /\ e \in EndType /\ e.ws = srv[c].ws /\ e.tickIn = srv[c].tickIn /\ e.misses = 0
        /\ e.timer = IF srv[c].ws = "open" THEN Off ELSE srv[c].timer
        /\ Alive(c) \in EndType
    BY <1>1, <1>r DEF Alive, EndType
  <2>3. ms \in Seq(Kinds)
    BY Sayings
  <2> HIDE DEF e
  <2>4. SrvTurn(c, e, ms, q)
    BY <1>1, <1>3, <2>1, <2>2, <2>3 DEF SrvTurn, ServerTakes, Request
  <2>5. Reply(c, e, ms, q, "HELLO", r)
    BY <1>1, <1>7, <2>1, <2>2, <2>3 DEF Reply, Request
  <2> QED
    BY <2>4, <2>5, Sayings DEF SrvKind
<1>8. ASSUME ServerHello(c), ~known PROVE Goal
  <2> DEFINE q == Tail(toServer[c])
  <2>0. Request(c, "HELLO") /\ holder' = holder /\ srv[c].ws # "none"
    BY <1>1, <1>8 DEF ServerHello, Request, Slotted
  <2>1. CASE srv[c].ws = "open"
    <3> DEFINE ms == <<"REJECTED", "CLOSE">>
    <3>1. ServerTakes(c, Closing(c), ms)
      BY <1>8, <2>1 DEF ServerHello, IfOpen
    <3>2. SrvTurn(c, Closing(c), ms, q)
      BY <1>1, <1>3, <1>4, <2>0, <3>1, Sayings DEF SrvTurn, ServerTakes, Request
    <3>3. CloseBegins(c, Closing(c), ms, q)
      BY <1>8, <2>0, <2>1 DEF CloseBegins, Request
    <3> QED
      BY <3>2, <3>3 DEF SrvKind
  <2>2. CASE srv[c].ws # "open"
    <3>1. ServerTakes(c, srv[c], <<>>)
      BY <1>8, <2>2 DEF ServerHello, IfOpen
    <3>2. SrvTurn(c, srv[c], <<>>, q)
      BY <1>1, <1>3, <2>0, <3>1, Sayings DEF SrvTurn, ServerTakes, Request
    <3>3. Ignores(c, srv[c], <<>>, q)
      BY <1>1, <2>0, <2>2 DEF Ignores, Request, EndType
    <3> QED
      BY <3>2, <3>3 DEF SrvKind
  <2> QED
    BY <2>1, <2>2
<1>9. ASSUME ServerClose(c) \/ CloseDue(c) \/ (HeartbeatDue(c) /\ srv[c].misses >= HeartbeatMisses)
      PROVE  Goal
  <2>1. Teardown(c, <<"END">>)
    BY <1>9 DEF ServerClose, CloseDue, HeartbeatDue
  <2>2. SrvTurn(c, NoEnd, <<"END">>, <<>>)
    BY <1>1, <1>3, <2>1, Sayings DEF SrvTurn, Teardown
  <2>3. Over(c, NoEnd, <<"END">>, <<>>)
    <3>1. \/ toServer[c] # <<>> /\ Head(toServer[c]).m \in Bye
          \/ srv[c].ws = "closing"
          \/ /\ srv[c].ws = "open" /\ srv[c].tickIn = 0
             /\ srv[c].misses >= HeartbeatMisses
      BY <1>9 DEF ServerClose, CloseDue, HeartbeatDue, Request, Bye
    <3> QED
      BY <2>1, <3>1, Numbers DEF Over, Teardown
  <2> QED
    BY <2>2, <2>3 DEF SrvKind
<1>10. ASSUME HelloDue(c) PROVE Goal
  <2>1. SrvTurn(c, Closing(c), <<"CLOSE">>, toServer[c])
    BY <1>1, <1>2, <1>3, <1>4, <1>10, Sayings DEF SrvTurn, HelloDue
  <2>2. CloseBegins(c, Closing(c), <<"CLOSE">>, toServer[c])
    BY <1>10 DEF CloseBegins, HelloDue
  <2> QED
    BY <2>1, <2>2 DEF SrvKind
<1>11. ASSUME HeartbeatDue(c), ~(srv[c].misses >= HeartbeatMisses) PROVE Goal
  <2> DEFINE e == [srv[c] EXCEPT !.misses = @ + 1, !.tickIn = Heartbeat]
  <2>1. Beat(c) /\ srv[c].ws = "open" /\ srv[c].tickIn = 0
    BY <1>11 DEF HeartbeatDue
  <2>2. e \in EndType /\ srv[c].misses < HeartbeatMisses
    <3>1. srv[c].misses \in 0..HeartbeatMisses /\ HeartbeatMisses \in Nat
      BY <1>1, Numbers DEF EndType
    <3>2. srv[c].misses < HeartbeatMisses /\ srv[c].misses + 1 \in 0..HeartbeatMisses
      BY <1>11, <3>1
    <3> QED
      BY <1>1, <1>r, <3>2 DEF EndType
  <2>3. SrvTurn(c, e, <<"PING">>, toServer[c])
    BY <1>1, <1>2, <1>3, <2>1, <2>2, Sayings DEF SrvTurn, Beat
  <2>4. Beats(c, e, <<"PING">>, toServer[c])
    BY <2>1, <2>2 DEF Beats, Beat
  <2> QED
    BY <2>3, <2>4 DEF SrvKind
<1>12. ASSUME Accept(c) PROVE Goal
  <2> DEFINE e == [NoEnd EXCEPT !.ws = "open", !.tickIn = Heartbeat, !.timer = HelloTimeout]
             q == Tail(toServer[c])
  <2>1. e \in EndType
    BY <1>1, <1>r DEF EndType, NoEnd
  <2>2. SrvTurn(c, e, <<"ACCEPTED">>, q)
    BY <1>1, <1>3, <1>12, <2>1, Sayings DEF SrvTurn, Accept, ServerTakes, Request
  <2>3. Accepts(c, e, <<"ACCEPTED">>, q)
    BY <1>12 DEF Accepts, Accept, Request
  <2> QED
    BY <2>2, <2>3 DEF SrvKind
<1> QED
  BY <1>5, <1>6, <1>7, <1>8, <1>9, <1>10, <1>11, <1>12 DEF ServerStep

\* What a turn adds to what the agent is to read.
LEMMA SrvSaid ==
  ASSUME IInv, NEW c, NEW e, NEW ms, NEW q, SrvTurn(c, e, ms, q)
  PROVE  /\ Mail(toAgent[c]) \subseteq Mail(toAgent'[c])
         /\ Names(toAgent[c]) \subseteq Names(toAgent'[c])
         /\ Names(toAgent'[c]) \subseteq Names(toAgent[c]) \cup Names(Fresh(ms))
         /\ Mail(toAgent'[c]) \subseteq Mail(toAgent[c]) \cup Mail(Fresh(ms))
         /\ link[c] = "ok" /\ agent.conn = c
              => /\ Mail(toAgent'[c]) = Mail(toAgent[c]) \cup Mail(Fresh(ms))
                 /\ Names(toAgent'[c]) = Names(toAgent[c]) \cup Names(Fresh(ms))
         /\ link[c] # "ok" \/ agent.conn # c => toAgent'[c] = toAgent[c]
         /\ Names(Fresh(ms)) = {} => toAgent'[c] = toAgent[c]
<1>1. /\ toAgent'[c] = toAgent[c] \o ToAgent(c, ms) /\ Queue(toAgent[c])
      /\ c \in Conns /\ ms \in Seq(Kinds)
  BY SrvTurned DEF SrvTurn
<1>2. /\ ToAgent(c, ms) \in {Fresh(ms), <<>>}
      /\ link[c] = "ok" /\ agent.conn = c => ToAgent(c, ms) = Fresh(ms)
      /\ ~(link[c] = "ok" /\ agent.conn = c) => ToAgent(c, ms) = <<>>
  BY <1>1, SentAway
<1> DEFINE s == toAgent[c]
           p == ToAgent(c, ms)
<1>3. /\ Mail(s) \subseteq Mail(s \o p)
      /\ Mail(s \o p) \subseteq Mail(s) \cup Mail(Fresh(ms))
      /\ Names(s) \subseteq Names(s \o p)
      /\ Names(s \o p) \subseteq Names(s) \cup Names(Fresh(ms))
      /\ p = Fresh(ms) => Mail(s \o p) = Mail(s) \cup Mail(Fresh(ms))
      /\ p = <<>> => s \o p = s
  BY <1>1, <1>2, Put
<1>4. p = Fresh(ms) => Names(s \o p) = Names(s) \cup Names(Fresh(ms))
  BY <1>3 DEF Names
<1>5. Names(Fresh(ms)) = {} => Fresh(ms) = <<>>
  <2>1. Fresh(ms) = <<>> \o Fresh(ms)
    BY <1>1, FreshMail
  <2>2. Queue(Fresh(ms))
    BY <1>1, <2>1, NoMail, MailSent
  <2> QED
    BY <2>2, NoMail
<1> QED
  BY <1>1, <1>2, <1>3, <1>4, <1>5

\* A turn of the server keeps what is said of its connection.
LEMMA SrvKept ==
  ASSUME IInv, NEW c, NEW e, NEW ms, NEW q, SrvTurn(c, e, ms, q), SrvKind(c, e, ms, q)
  PROVE  Kept(c)'
<1>0. /\ c \in Conns /\ Linked(c) /\ Slotted(c) /\ Settled(c) /\ Ticking(c)
      /\ srv[c] \in EndType /\ e \in EndType
      /\ Queue(toServer[c]) /\ Queue(q) /\ Queue(toAgent[c])
      /\ deadFor[c] \in Nat /\ holder' \in {holder, c, NoConn}
  <2>1. c \in Conns /\ TypeOK /\ Linked(c) /\ Slotted(c) /\ Settled(c) /\ Ticking(c)
    BY DEF SrvTurn, IInv
  <2> QED
    BY <2>1, Typed DEF SrvTurn, Linked
<1>1. /\ srv'[c] = e /\ toServer'[c] = q
      /\ agent' = agent /\ known' = known /\ link' = link /\ deadFor' = deadFor
      /\ Linked(c)' /\ Names(q) \subseteq Names(toServer[c])
  BY SrvTurned
<1> DEFINE s == toAgent'[c]
           sent == Names(Fresh(ms))
<1>2. /\ Names(toAgent[c]) \subseteq Names(s)
      /\ Names(s) \subseteq Names(toAgent[c]) \cup sent
      /\ agent.conn # c => s = toAgent[c]
      /\ sent = {} => s = toAgent[c]
  BY SrvSaid
<1>3. /\ ConnectFirst(toServer[c]) /\ ConnectFirst(<<>>) /\ Names(<<>>) = {}
      /\ toServer[c] # <<>> => /\ "CONNECT" \notin Names(Tail(toServer[c]))
                               /\ ConnectFirst(Tail(toServer[c]))
                               /\ Head(toServer[c]).m \in Names(toServer[c])
  BY <1>0, NoMail, MailTaken DEF Slotted
<1> HIDE DEF s
<1>4. /\ agent.conn # c => s = <<>>
      /\ agent.conn = c => Names(q) \subseteq SaidIn(agent.phase)
  BY <1>0, <1>1, <1>2 DEF Slotted
<1>5. ASSUME NEW m \in Kinds, NEW r, Reply(c, e, ms, q, m, r)
      PROVE  Slotted(c)' /\ Settled(c)' /\ Ticking(c)'
  <2>1. /\ sent = IF r = "none" THEN {} ELSE {r}
        /\ m \in Names(toServer[c]) /\ srv[c].ws # "none" /\ e.ws = srv[c].ws
        /\ ConnectFirst(q) /\ "CONNECT" \notin Names(q)
    BY <1>0, <1>3, <1>5, Sayings, ZenonT(60) DEF Reply, Slotted
  <2>2. agent.conn = c /\ r \in {"TUNNEL_OK", "TUNNEL_TAKEN"}
          => agent.phase \notin {"connecting", "hello"}
    BY <1>0, <1>5, <2>1 DEF Reply, Slotted, SaidIn
  <2>3. agent.conn = c /\ agent.phase \in {"connecting", "hello"}
          => Names(s) \cap {"TUNNEL_OK", "TUNNEL_TAKEN"} = {}
    BY <1>0, <1>2, <1>5, <2>1, <2>2 DEF Reply, Slotted
  <2>4. Slotted(c)'
    BY <1>1, <1>4, <2>1, <2>3 DEF Slotted, s
  <2>5. Settled(c)'
    BY <1>0, <1>1, <1>2, <1>5, <2>1 DEF Settled, Reply, s
  <2>6. ASSUME e.ws = "open" PROVE deadFor[c] <= 0 * Heartbeat - e.tickIn + Heartbeat
    <3>1. link[c] = "ok"
      BY <1>0, <1>5, Typed DEF Linked, Reply, IInv
    <3>2. e.tickIn \in UpTo(Heartbeat) /\ deadFor[c] = 0 /\ Heartbeat \in Nat
      BY <1>0, <3>1, Numbers DEF EndType, Linked
    <3> QED
      BY <3>2, Numbers DEF UpTo
  <2>7. Ticking(c)'
    BY <1>0, <1>1, <1>5, <2>1, <2>6 DEF Ticking, Silence, Reply
  <2> QED
    BY <2>4, <2>5, <2>7
<1>6. ASSUME Over(c, e, ms, q) PROVE Slotted(c)' /\ Settled(c)' /\ Ticking(c)'
  <2>1. /\ sent = {"END"} /\ q = <<>> /\ e.ws = "none" /\ ~e.session /\ holder' # c
    BY <1>6, Sayings DEF Over, NoEnd
  <2>2. agent.conn = c /\ agent.phase \in {"connecting", "hello"}
          => Names(s) \cap {"TUNNEL_OK", "TUNNEL_TAKEN"} = {}
    BY <1>0, <1>2, <2>1 DEF Slotted
  <2>3. Slotted(c)'
    BY <1>1, <1>3, <1>4, <2>1, <2>2 DEF Slotted, s
  <2>4. Settled(c)'
    BY <1>0, <1>1, <1>2, <2>1 DEF Settled, s
  <2>5. Ticking(c)'
    BY <1>1, <2>1 DEF Ticking
  <2> QED
    BY <2>3, <2>4, <2>5
<1>7. ASSUME CloseBegins(c, e, ms, q) PROVE Slotted(c)' /\ Settled(c)' /\ Ticking(c)'
  <2>1. sent \subseteq {"CLOSE", "REJECTED"}
    BY <1>7, Sayings, SMTT(40) DEF CloseBegins
  <2>2. /\ srv[c].ws = "open" /\ e.ws = "closing" /\ holder' = holder
        /\ ConnectFirst(q) /\ "CONNECT" \notin Names(q)
        /\ ~known \/ srv[c].timer = 0
    BY <1>0, <1>1, <1>3, <1>7 DEF CloseBegins, Closing, Slotted, EndType
  <2>3. agent.conn = c /\ agent.phase \in {"connecting", "hello"}
          => Names(s) \cap {"TUNNEL_OK", "TUNNEL_TAKEN"} = {}
    BY <1>0, <1>2, <2>1 DEF Slotted
  <2>4. Slotted(c)'
    BY <1>1, <1>4, <2>2, <2>3 DEF Slotted, s
  <2>5. Settled(c)'
    BY <1>0, <1>1, <1>2, <2>1, <2>2, Numbers DEF Settled, s
  <2>6. Ticking(c)'
    BY <1>1, <2>2 DEF Ticking
  <2> QED
    BY <2>4, <2>5, <2>6
<1>8. ASSUME Accepts(c, e, ms, q) PROVE Slotted(c)' /\ Settled(c)' /\ Ticking(c)'
  <2>1. /\ sent = {"ACCEPTED"} /\ srv[c].ws = "none" /\ toAgent[c] = <<>>
        /\ ConnectFirst(q) /\ "CONNECT" \notin Names(q)
        /\ "CONNECT" \in Names(toServer[c]) /\ holder' # c
    BY <1>0, <1>3, <1>8, Sayings DEF Accepts, Slotted
  <2>2. /\ e.ws = "open" /\ e.tickIn = Heartbeat /\ e.misses = 0
    BY <1>8 DEF Accepts, NoEnd
  <2>3. Names(s) \subseteq {"ACCEPTED"}
    BY <1>2, <1>3, <2>1
  <2>4. Slotted(c)'
    BY <1>1, <1>4, <2>1, <2>2, <2>3 DEF Slotted, s
  <2>5. Settled(c)'
    BY <1>0, <1>1, <2>1, <2>3 DEF Settled, Slotted, SaidIn, s
  <2>6. deadFor[c] <= 0 * Heartbeat - Heartbeat + Heartbeat
    <3>1. link[c] = "ok"
      BY <1>0, <1>8, Typed DEF Linked, Accepts, IInv
    <3> QED
      BY <1>0, <3>1, Numbers DEF Linked
  <2>7. Ticking(c)'
    BY <1>1, <2>2, <2>6, Numbers DEF Ticking, Silence
  <2> QED
    BY <2>4, <2>5, <2>7
<1>9. ASSUME Beats(c, e, ms, q) PROVE Slotted(c)' /\ Settled(c)' /\ Ticking(c)'
  <2>1. /\ sent = {"PING"} /\ srv[c].ws = "open" /\ e.ws = "open" /\ holder' = holder
        /\ e.timer = srv[c].timer /\ e.tickIn = Heartbeat
        /\ srv[c].tickIn = 0 /\ e.misses = srv[c].misses + 1 /\ q = toServer[c]
    BY <1>0, <1>9, Sayings DEF Beats, EndType
  <2>2. agent.conn = c /\ agent.phase \in {"connecting", "hello"}
          => Names(s) \cap {"TUNNEL_OK", "TUNNEL_TAKEN"} = {}
    BY <1>0, <1>2, <2>1 DEF Slotted
  <2>3. Slotted(c)'
    BY <1>0, <1>1, <1>3, <1>4, <2>1, <2>2 DEF Slotted, s
  <2>4. Settled(c)'
    BY <1>0, <1>1, <1>2, <2>1 DEF Settled, s
  <2>5. (srv[c].misses + 1) * Heartbeat - Heartbeat = srv[c].misses * Heartbeat - 0
    <3> DEFINE n == srv[c].misses
               h == Heartbeat
    <3>1. n \in Nat /\ h \in Nat
      BY <1>0, Numbers DEF EndType
    <3> HIDE DEF n, h
    <3>2. (n + 1) * h - h = n * h - 0
      BY <3>1
    <3> QED
      BY <3>2 DEF n, h
  <2>6. Silence(c)' = Silence(c)
    BY <1>1, <2>1, <2>5 DEF Silence
  <2>7. Ticking(c)'
    BY <1>0, <1>1, <2>1, <2>6, Numbers DEF Ticking
  <2> QED
    BY <2>3, <2>4, <2>7
<1>10. ASSUME Ignores(c, e, ms, q) PROVE Slotted(c)' /\ Settled(c)' /\ Ticking(c)'
  <2>1. sent = {} /\ srv[c].ws = "closing" /\ e = srv[c] /\ holder' = holder
    BY <1>10, Sayings DEF Ignores
  <2>2. ConnectFirst(q) /\ "CONNECT" \notin Names(q)
    BY <1>3, <1>10 DEF Ignores
  <2>3. s = toAgent[c]
    BY <1>2, <2>1
  <2>4. Slotted(c)'
    BY <1>0, <1>1, <1>4, <2>1, <2>2, <2>3 DEF Slotted, s
  <2>5. Settled(c)' /\ Ticking(c)'
    BY <1>0, <1>1, <2>1, <2>3 DEF Settled, Ticking, s
  <2> QED
    BY <2>4, <2>5
<1> QED
  BY <1>1, <1>5, <1>6, <1>7, <1>8, <1>9, <1>10 DEF SrvKind, Kept

\* So the server's steps keep the invariant.
LEMMA SrvInv ==
  ASSUME IInv, NEW c \in Conns, ServerStep(c)
  PROVE  IInv'
<1>1. PICK e, ms, q : SrvTurn(c, e, ms, q) /\ SrvKind(c, e, ms, q)
  BY SrvStepKind
<1>2. /\ TypeOK' /\ Queued' /\ Phased' /\ \A k \in Conns : k # c => Same(k)
  BY <1>1, SrvTurned
<1>3. Kept(c)'
  BY <1>1, SrvKept
<1>4. ASSUME NEW k \in Conns, k # c PROVE Kept(k)'
  BY <1>2, <1>4, Elsewhere DEF IInv, Kept
<1> QED
  BY <1>2, <1>3, <1>4 DEF IInv, Kept
-----------------------------------------------------------------------------
\* The agent's turns.

\* A step of the agent on its connection c: q is what is now on its way to the
\* server, p what the agent has not read.
AgtTurn(c, q, p) ==
  /\ c \in Conns /\ agent.conn = c /\ agent.phase \in Busy /\ agent' \in AgentType
  /\ Queue(q) /\ Queue(p) /\ Mail(p) \subseteq Mail(toAgent[c])
  /\ toServer' = [toServer EXCEPT ![c] = q] /\ toAgent' = [toAgent EXCEPT ![c] = p]
  /\ link[c] = "dead" => q = <<>>
  /\ UNCHANGED <<srv, holder, link, deadFor, known>>
  /\ faults' \in [Faults -> 0..MaxFaults] /\ (Restarted => Restarted')
  /\ \/ agent'.conn = c /\ agent'.phase \in Busy
     \/ agent'.conn = NoConn /\ agent'.phase \notin Busy

\* What is common to them.
LEMMA AgtTurned ==
  ASSUME IInv, NEW c, NEW q, NEW p, AgtTurn(c, q, p)
  PROVE  /\ TypeOK' /\ Queued' /\ Phased'
         /\ \A k \in Conns : k # c => Same(k)
         /\ srv' = srv /\ toServer'[c] = q /\ toAgent'[c] = p
         /\ known' = known /\ link' = link /\ deadFor' = deadFor /\ holder' = holder
         /\ Linked(c)'
         /\ Names(p) \subseteq Names(toAgent[c])
<1>1. /\ TypeOK /\ Queued /\ Phased /\ c \in Conns /\ Linked(c)
      /\ NoConn \notin Conns
  BY Numbers DEF IInv, AgtTurn
<1>2. /\ toServer' = [toServer EXCEPT ![c] = q] /\ toAgent' = [toAgent EXCEPT ![c] = p]
      /\ UNCHANGED <<srv, holder, link, deadFor, known>>
      /\ q \in Seq(MailType) /\ p \in Seq(MailType)
  BY DEF AgtTurn, Queue
<1>3. TypeOK'
  <2>1. /\ agent' \in AgentType /\ srv' \in [Conns -> EndType]
        /\ holder' \in Conns \cup {NoConn} /\ link' \in [Conns -> {"ok", "dead"}]
        /\ deadFor' \in [Conns -> 0..DeadForCap] /\ known' \in BOOLEAN
        /\ faults' \in [Faults -> 0..MaxFaults]
    BY <1>1, <1>2, Typed DEF AgtTurn
  <2> QED
    BY <2>1 DEF TypeOK, AgentType, EndType
<1>4. Queued' /\ toServer'[c] = q /\ toAgent'[c] = p
  BY <1>1, <1>2 DEF Queued
<1>5. Phased'
  BY <1>1 DEF Phased, AgtTurn
<1>6. ASSUME NEW k \in Conns, k # c PROVE Same(k)
  BY <1>1, <1>2, <1>6 DEF Same, AgtTurn
<1>7. Names(p) \subseteq Names(toAgent[c])
  BY DEF AgtTurn, Names
<1>8. Linked(c)'
  <2>1. Mail(toAgent[c]) = {} => p = <<>>
    BY NoMail DEF AgtTurn
  <2>2. link[c] = "dead" => q = <<>> /\ p = <<>>
    BY <1>1, <2>1, NoMail DEF Linked, AgtTurn
  <2> QED
    BY <1>1, <1>2, <1>4, <2>2 DEF Linked, AgtTurn
<1> QED
  BY <1>2, <1>3, <1>4, <1>5, <1>6, <1>7, <1>8

\* What is on its way to the server when the agent has said ms.
SayTo(c, ms) == toServer[c] \o ToServer(c, ms)

\* What a message to the server adds to that.
LEMMA AgtSaid ==
  ASSUME IInv, NEW c \in Conns, NEW ms \in Seq(Kinds), NEW q,
         q = SayTo(c, ms), "CONNECT" \notin Names(Fresh(ms))
  PROVE  /\ Queue(q) /\ ConnectFirst(q)
         /\ link[c] = "dead" => q = <<>>
         /\ Mail(toServer[c]) \subseteq Mail(q) /\ Names(toServer[c]) \subseteq Names(q)
         /\ Names(q) \subseteq Names(toServer[c]) \cup Names(Fresh(ms))
         /\ link[c] = "ok" /\ ServerThere(c)
              => /\ Mail(q) = Mail(toServer[c]) \cup Mail(Fresh(ms))
                 /\ Names(q) = Names(toServer[c]) \cup Names(Fresh(ms))
         /\ ~ServerThere(c) => q = <<>>
         /\ srv[c].ws = "none" => (q # <<>> => Head(q).m = "CONNECT")
<1> DEFINE s == toServer[c]
           p == ToServer(c, ms)
<1>1. /\ Linked(c) /\ Slotted(c) /\ Queue(s) /\ ConnectFirst(s)
  BY DEF IInv, Linked, Slotted
<1>2. /\ p \in {Fresh(ms), <<>>}
      /\ link[c] = "ok" /\ ServerThere(c) => p = Fresh(ms)
      /\ ~(link[c] = "ok" /\ ServerThere(c)) => p = <<>>
  BY SentAway
<1>3. /\ Queue(s \o p) /\ Mail(s) \subseteq Mail(s \o p)
      /\ Names(s) \subseteq Names(s \o p)
      /\ Names(s \o p) \subseteq Names(s) \cup Names(Fresh(ms))
      /\ p = Fresh(ms) => Mail(s \o p) = Mail(s) \cup Mail(Fresh(ms))
      /\ p = <<>> => s \o p = s
      /\ s # <<>> => Head(s \o p) = Head(s)
      /\ (s = <<>> => p = <<>>) => ConnectFirst(s \o p)
  BY <1>1, <1>2, Put
<1>4. p = Fresh(ms) => Names(s \o p) = Names(s) \cup Names(Fresh(ms))
  BY <1>3 DEF Names
<1>5. ~ServerThere(c) => s = <<>>
  BY DEF ServerThere
<1>6. ConnectFirst(s \o p)
  <2>1. CASE s = <<>>
    <3>1. Queue(s \o p)
      BY <1>3
    <3>2. Names(s \o p) \subseteq Names(Fresh(ms))
      BY <1>3, <2>1, NoMail
    <3>3. s \o p # <<>> => Names(Tail(s \o p)) \subseteq Names(s \o p)
      BY <3>1, MailTaken DEF Names
    <3> QED
      BY <3>2, <3>3 DEF ConnectFirst
  <2> QED
    BY <1>3, <2>1
<1>7. srv[c].ws = "none" => (s \o p # <<>> => Head(s \o p).m = "CONNECT")
  <2>1. srv[c].ws = "none" /\ s = <<>> => p = <<>>
    BY <1>2 DEF ServerThere
  <2>2. srv[c].ws = "none" /\ s # <<>> => Head(s).m = "CONNECT"
    BY <1>1 DEF Slotted
  <2> QED
    BY <1>3, <2>1, <2>2
<1> QED
  BY <1>1, <1>2, <1>3, <1>4, <1>5, <1>6, <1>7 DEF Linked, SayTo

\* The agent leaves its connection.
Leaves(c, q, p) ==
  /\ agent'.conn = NoConn /\ agent'.phase \in {"waiting", "stopped", "failed"} /\ p = <<>>
  /\ \/ \E last \in Bye : q = SayTo(c, <<last>>)
     \/ srv[c].ws = "none" /\ q = <<>>

\* A turn of the agent keeps what is said of its connection.  It says nothing
\* that does not become its phase.
LEMMA AgtKept ==
  ASSUME IInv, NEW c, NEW q, NEW p, AgtTurn(c, q, p),
         \/ Leaves(c, q, p)
         \/ /\ agent'.conn = c
            /\ \E ms \in Seq(Kinds) : /\ q = SayTo(c, ms)
                                      /\ "CONNECT" \notin Names(Fresh(ms))
                                      /\ Names(Fresh(ms)) \subseteq SaidIn(agent'.phase)
            /\ \/ agent'.phase = agent.phase /\ agent.phase \in {"hello", "up", "closing"}
               \/ /\ agent.phase = "connecting" /\ agent'.phase = "hello"
                  /\ toAgent[c] # <<>>
               \/ /\ agent.phase = "hello" /\ agent'.phase = "up"
                  /\ "HELLO_OK" \in Names(toAgent[c])
               \/ agent.phase \in {"hello", "up"} /\ agent'.phase = "closing"
  PROVE  Kept(c)'
<1>0. /\ c \in Conns /\ Linked(c) /\ Slotted(c) /\ Settled(c) /\ Ticking(c)
      /\ agent.conn = c /\ agent.phase \in Busy
      /\ Queue(toServer[c]) /\ Queue(q) /\ Queue(p) /\ NoConn \notin Conns
  BY Numbers DEF AgtTurn, IInv, Linked
<1>1. /\ srv' = srv /\ toServer'[c] = q /\ toAgent'[c] = p
      /\ known' = known /\ link' = link /\ deadFor' = deadFor /\ holder' = holder
      /\ Linked(c)' /\ Names(p) \subseteq Names(toAgent[c])
  BY AgtTurned
<1>2. Ticking(c)'
  BY <1>0, <1>1 DEF Ticking, Silence
<1>3. /\ ConnectFirst(<<>>) /\ Names(<<>>) = {} /\ (Names(p) = {} <=> p = <<>>)
      /\ p # <<>> => toAgent[c] # <<>>
  BY <1>0, <1>1, NoMail
<1>4. CASE Leaves(c, q, p)
  <2>1. agent'.conn = NoConn /\ p = <<>>
    BY <1>4 DEF Leaves
  <2>2. Settled(c)'
    BY <1>0, <1>1, <1>3, <2>1 DEF Settled
  <2>3. CASE srv[c].ws = "none" /\ q = <<>>
    <3>1. Slotted(c)'
      BY <1>0, <1>1, <1>3, <2>1, <2>3 DEF Slotted
    <3> QED
      BY <1>1, <1>2, <2>2, <3>1 DEF Kept
  <2>4. ASSUME NEW last \in Bye, q = SayTo(c, <<last>>) PROVE Kept(c)'
    <3>1. <<last>> \in Seq(Kinds) /\ Names(Fresh(<<last>>)) = {last} /\ last # "CONNECT"
      BY Sayings DEF Bye
    <3>2. /\ Names(q) \subseteq Names(toServer[c]) \cup {last} /\ ConnectFirst(q)
          /\ srv[c].ws = "none" => (q # <<>> => Head(q).m = "CONNECT")
      <4> DEFINE ms == <<last>>
      <4>1. /\ ms \in Seq(Kinds) /\ Names(Fresh(ms)) = {last} /\ "CONNECT" \notin Names(Fresh(ms))
            /\ q = SayTo(c, ms)
        BY <2>4, <3>1
      <4> HIDE DEF ms
      <4> QED
        BY <1>0, <4>1, AgtSaid
    <3>3. Slotted(c)'
      BY <1>0, <1>1, <1>3, <2>1, <3>1, <3>2 DEF Slotted
    <3> QED
      BY <1>1, <1>2, <2>2, <3>3 DEF Kept
  <2> QED
    BY <1>4, <2>3, <2>4 DEF Leaves
<1>5. ASSUME agent'.conn = c, NEW ms \in Seq(Kinds),
             q = SayTo(c, ms),
             "CONNECT" \notin Names(Fresh(ms)),
             Names(Fresh(ms)) \subseteq SaidIn(agent'.phase),
             \/ agent'.phase = agent.phase /\ agent.phase \in {"hello", "up", "closing"}
             \/ /\ agent.phase = "connecting" /\ agent'.phase = "hello"
                /\ toAgent[c] # <<>>
             \/ /\ agent.phase = "hello" /\ agent'.phase = "up"
                /\ "HELLO_OK" \in Names(toAgent[c])
             \/ agent.phase \in {"hello", "up"} /\ agent'.phase = "closing"
      PROVE  Kept(c)'
  <2>1. /\ Names(q) \subseteq Names(toServer[c]) \cup Names(Fresh(ms)) /\ ConnectFirst(q)
        /\ srv[c].ws = "none" => (q # <<>> => Head(q).m = "CONNECT")
    BY <1>0, <1>5, AgtSaid
  <2>2. "CONNECT" \notin Names(toServer[c])
    BY <1>0, <1>5 DEF Slotted, SaidIn
  <2>3. Names(toServer[c]) \subseteq SaidIn(agent'.phase)
    <3>1. Names(toServer[c]) \subseteq SaidIn(agent.phase) /\ Names(toServer[c]) \subseteq Kinds
      BY <1>0, MailTyped DEF Slotted, Names
    <3> QED
      BY <1>5, <2>2, <3>1 DEF SaidIn
  <2>4. agent'.phase \in {"connecting", "hello"}
          => Names(p) \cap {"TUNNEL_OK", "TUNNEL_TAKEN"} = {}
    BY <1>0, <1>1, <1>5 DEF Slotted
  <2>5. Slotted(c)'
    BY <1>0, <1>1, <1>5, <2>1, <2>2, <2>3, <2>4 DEF Slotted
  <2>6. Settled(c)'
    BY <1>0, <1>1, <1>5 DEF Settled
  <2> QED
    BY <1>1, <1>2, <2>5, <2>6 DEF Kept
<1> QED
  BY <1>4, <1>5

\* A turn that says ms and leaves p to be read, on a connection the agent keeps.
Stays(c, ms, p) ==
  /\ AgtTurn(c, SayTo(c, ms), p) /\ ms \in Seq(Kinds)
  /\ agent'.conn = c /\ "CONNECT" \notin Names(Fresh(ms))
  /\ faults' = faults \/ agent'.phase = "closing"

\* What the handlers of the agent say and take.
Handles(c) ==
  /\ OnOpen(c) => Stays(c, <<"HELLO">>, Tail(toAgent[c]))
  /\ OnHelloOk(c) => Stays(c, <<"OPEN_TUNNEL">>, Tail(toAgent[c]))
  /\ OnTunnelReply(c) \/ OnPong(c) \/ OnLate(c) => Stays(c, <<>>, Tail(toAgent[c]))
  /\ OnPing(c) => Stays(c, <<"PONG">>, Tail(toAgent[c]))
  /\ PingDue => Stays(c, <<"PING">>, toAgent[c])
  /\ Stop /\ agent.phase \in {"hello", "up"} => Stays(c, <<"CLOSE">>, toAgent[c])

\* A fault is counted.
LEMMA FaultCounted ==
  ASSUME NEW name, Fault(name), faults \in [Faults -> 0..MaxFaults]
  PROVE  /\ faults' \in [Faults -> 0..MaxFaults] /\ faults' # faults
         /\ Restarted => Restarted'
         /\ name = "serverRestart" => Restarted'
<1>1. /\ name \in Faults /\ Faults \subseteq FaultNames /\ MaxFaults \in Nat
      /\ faults' = [faults EXCEPT ![name] = @ + 1]
  BY AgentLifeAssumption DEF Fault
<1>2. \A n \in FaultNames : Occurrences(n) \in Nat
  BY DEF Occurrences
<1>3. Occurrences("linkDies") + Occurrences("refused")
        + Occurrences("serverRestart") + Occurrences("stop") < MaxFaults
  BY DEF Fault
<1>4. /\ Occurrences("linkDies") \in Nat /\ Occurrences("refused") \in Nat
      /\ Occurrences("serverRestart") \in Nat /\ Occurrences("stop") \in Nat
      /\ name \in {"linkDies", "refused", "serverRestart", "stop"}
  BY <1>1, <1>2 DEF FaultNames
<1>5. Occurrences(name) < MaxFaults
  BY <1>1, <1>3, <1>4
<1>6. faults[name] \in 0..MaxFaults /\ faults[name] < MaxFaults
  BY <1>1, <1>5 DEF Occurrences
<1>7. faults' \in [Faults -> 0..MaxFaults] /\ faults'[name] = faults[name] + 1
  BY <1>1, <1>6
<1>8. \A n \in Faults : faults'[n] >= faults[n]
  <2> TAKE n \in Faults
  <2>1. faults[n] \in Nat /\ (n # name => faults'[n] = faults[n])
    BY <1>1
  <2> QED
    BY <1>6, <1>7, <2>1
<1>9. Restarted => Restarted'
  BY <1>6, <1>7, <1>8 DEF Restarted, Occurrences
<1>10. name = "serverRestart" => Restarted'
  BY <1>1, <1>6, <1>7 DEF Restarted, Occurrences
<1>11. faults' # faults
  BY <1>6, <1>7
<1> QED
  BY <1>7, <1>9, <1>10, <1>11

\* What the agent is after a session.
LEMMA AfterSession ==
  ASSUME agent \in AgentType, NEW fatal \in BOOLEAN, agent' \in AgentAfter(fatal)
  PROVE  /\ agent' \in AgentType /\ agent'.conn = NoConn /\ agent'.pongIn = Off
         /\ agent'.phase \in {"waiting", "stopped", "failed"}
<1> DEFINE delay == IF agent.age >= StableSession THEN MinDelay ELSE agent.delay
<1>1. delay \in MinDelay..MaxDelay
  BY Numbers DEF AgentType
<1>2. NextDelay(delay) \in MinDelay..MaxDelay
  BY <1>1, Numbers DEF NextDelay
<1>3. agent' \in IF fatal \/ agent.stopping
        THEN {[Waiting(Off, delay) EXCEPT !.stopping = agent.stopping,
                 !.phase = IF fatal THEN "failed" ELSE "stopped"]}
        ELSE {Waiting(w, NextDelay(delay)) : w \in Waits(delay)}
  BY DEF AgentAfter
<1> HIDE DEF delay
<1>4. /\ "waiting" \in Phases /\ "stopped" \in Phases /\ "failed" \in Phases
      /\ Off \in Int /\ Off \in UpTo(PingInterval) /\ Off \in UpTo(PingTimeout)
      /\ 0 \in 0..StableSession
  BY Numbers DEF Phases, UpTo
<1>5. CASE fatal \/ agent.stopping
  <2>1. agent' = [Waiting(Off, delay) EXCEPT !.stopping = agent.stopping,
                    !.phase = IF fatal THEN "failed" ELSE "stopped"]
    BY <1>3, <1>5
  <2>2. agent.stopping \in BOOLEAN
    BY DEF AgentType
  <2> QED
    BY <1>1, <1>4, <2>1, <2>2 DEF Waiting, AgentType
<1>6. CASE ~(fatal \/ agent.stopping)
  <2>1. PICK w \in Waits(delay) : agent' = Waiting(w, NextDelay(delay))
    BY <1>3, <1>6
  <2>2. w \in Int
    BY <2>1 DEF Waits
  <2> QED
    BY <1>2, <1>4, <2>1, <2>2 DEF Waiting, AgentType
<1> QED
  BY <1>5, <1>6

\* Every handler is such a turn.
LEMMA AgtHandles ==
  ASSUME IInv, NEW c \in Conns, agent.conn = c
  PROVE  Handles(c)
<1>1. /\ TypeOK /\ Linked(c) /\ Queue(toAgent[c]) /\ agent \in AgentType
      /\ faults \in [Faults -> 0..MaxFaults] /\ agent.phase \in Busy
      /\ NoConn \notin Conns
  BY Typed, Numbers DEF IInv, Linked, Phased
<1>2. /\ Mail(toAgent[c]) \subseteq Mail(toAgent[c])
      /\ toAgent[c] # <<>> => /\ Queue(Tail(toAgent[c]))
                              /\ Mail(Tail(toAgent[c])) \subseteq Mail(toAgent[c])
  BY <1>1, MailTaken
<1>3. ASSUME NEW ms \in {<<"HELLO">>, <<"OPEN_TUNNEL">>, <<>>, <<"PONG">>, <<"PING">>, <<"CLOSE">>}
      PROVE  /\ ms \in Seq(Kinds) /\ "CONNECT" \notin Names(Fresh(ms))
  <2>1. CASE ms = <<>>
    BY <2>1, Sayings
  <2>2. ASSUME NEW a \in {"HELLO", "OPEN_TUNNEL", "PONG", "PING", "CLOSE"}, ms = <<a>>
        PROVE  ms \in Seq(Kinds) /\ "CONNECT" \notin Names(Fresh(ms))
    BY <2>2, Sayings
  <2> QED
    BY <1>3, <2>1, <2>2
<1>4. ASSUME NEW ms \in {<<"HELLO">>, <<"OPEN_TUNNEL">>, <<>>, <<"PONG">>, <<"PING">>, <<"CLOSE">>}
      PROVE  Queue(SayTo(c, ms)) /\ (link[c] = "dead" => SayTo(c, ms) = <<>>)
  <2>1. ms \in Seq(Kinds) /\ "CONNECT" \notin Names(Fresh(ms))
    BY <1>3
  <2> QED
    BY <2>1, AgtSaid
<1>5. ASSUME NEW ms \in {<<"HELLO">>, <<"OPEN_TUNNEL">>, <<>>, <<"PONG">>},
             toAgent[c] # <<>>, AgentTakes(c, ms), agent' \in AgentType,
             agent'.conn = c, agent'.phase \in Busy
      PROVE  Stays(c, ms, Tail(toAgent[c]))
  <2>1. /\ toAgent' = [toAgent EXCEPT ![c] = Tail(toAgent[c])]
        /\ toServer' = [toServer EXCEPT ![c] = SayTo(c, ms)]
        /\ UNCHANGED <<srv, holder, link, deadFor, known, faults>>
    BY <1>5 DEF AgentTakes, SayTo
  <2>2. Restarted => Restarted'
    BY <2>1 DEF Restarted, Occurrences
  <2>3. /\ ms \in Seq(Kinds) /\ "CONNECT" \notin Names(Fresh(ms)) /\ Queue(SayTo(c, ms))
        /\ link[c] = "dead" => SayTo(c, ms) = <<>>
    BY <1>3, <1>4
  <2> QED
    BY <1>1, <1>2, <1>5, <2>1, <2>2, <2>3 DEF Stays, AgtTurn
<1>6. ASSUME NEW ms \in {<<"PING">>, <<"CLOSE">>},
             toAgent' = toAgent, toServer' = [toServer EXCEPT ![c] = SayTo(c, ms)],
             UNCHANGED <<srv, holder, link, deadFor, known>>, agent' \in AgentType,
             agent'.conn = c, agent'.phase \in Busy,
             faults' \in [Faults -> 0..MaxFaults], Restarted => Restarted',
             faults' = faults \/ agent'.phase = "closing"
      PROVE  Stays(c, ms, toAgent[c])
  <2>1. toAgent' = [toAgent EXCEPT ![c] = toAgent[c]]
    <3>1. toAgent = [k \in Conns |-> toAgent[k]]
      BY DEF IInv, Queued
    <3> QED
      BY <1>6, <3>1
  <2>2. /\ ms \in Seq(Kinds) /\ "CONNECT" \notin Names(Fresh(ms)) /\ Queue(SayTo(c, ms))
        /\ link[c] = "dead" => SayTo(c, ms) = <<>>
    BY <1>3, <1>4
  <2> QED
    BY <1>1, <1>2, <1>6, <2>1, <2>2 DEF Stays, AgtTurn
<1>7. /\ HandshakeTimeout \in Int /\ CloseTimeout \in Int /\ Off \in Int
      /\ Off \in UpTo(PingInterval) /\ Off \in UpTo(PingTimeout)
      /\ Timer(PingInterval) \in UpTo(PingInterval) /\ PingInterval \in UpTo(PingInterval)
      /\ Timer(PingTimeout) \in UpTo(PingTimeout)
  BY Numbers DEF UpTo, Timer
<1>8. "hello" \in Phases /\ "up" \in Phases /\ "closing" \in Phases
  BY DEF Phases
<1>9. OnOpen(c) => Stays(c, <<"HELLO">>, Tail(toAgent[c]))
  <2> HAVE OnOpen(c)
  <2>1. agent' = [agent EXCEPT !.phase = "hello", !.timer = HandshakeTimeout]
    BY DEF OnOpen
  <2>2. agent' \in AgentType /\ agent'.conn = c /\ agent'.phase = "hello"
    BY <1>1, <1>7, <1>8, <2>1 DEF AgentType
  <2> QED
    BY <1>5, <2>2 DEF OnOpen, Message, Busy
<1>10. OnHelloOk(c) => Stays(c, <<"OPEN_TUNNEL">>, Tail(toAgent[c]))
  <2> HAVE OnHelloOk(c)
  <2>1. agent' = [agent EXCEPT !.phase = "up", !.timer = Off, !.tunnel = "asked",
                              !.pingIn = Timer(PingInterval)]
    BY DEF OnHelloOk
  <2>2. agent' \in AgentType /\ agent'.conn = c /\ agent'.phase = "up"
    BY <1>1, <1>7, <1>8, <2>1 DEF AgentType
  <2> QED
    BY <1>5, <2>2 DEF OnHelloOk, Message, Busy
<1>11. OnTunnelReply(c) \/ OnPong(c) \/ OnLate(c) => Stays(c, <<>>, Tail(toAgent[c]))
  <2> HAVE OnTunnelReply(c) \/ OnPong(c) \/ OnLate(c)
  <2>1. /\ toAgent[c] # <<>> /\ AgentTakes(c, <<>>)
        /\ \/ \E t \in {"ok", "refused"} : agent' = [agent EXCEPT !.tunnel = t]
           \/ agent' = [agent EXCEPT !.pongIn = Off]
           \/ agent' = agent
    BY DEF OnTunnelReply, OnPong, OnLate, Message
  <2>2. agent' \in AgentType /\ agent'.conn = c /\ agent'.phase = agent.phase
    BY <1>1, <1>7, <2>1 DEF AgentType
  <2> QED
    BY <1>1, <1>5, <2>1, <2>2
<1>12. OnPing(c) => Stays(c, <<"PONG">>, Tail(toAgent[c]))
  BY <1>1, <1>5 DEF OnPing, Message
<1>13. PingDue => Stays(c, <<"PING">>, toAgent[c])
  <2> HAVE PingDue
  <2>1. /\ agent' = [agent EXCEPT !.pingIn = PingInterval,
                              !.pongIn = IF @ = Off THEN Timer(PingTimeout) ELSE @]
        /\ toServer' = [toServer EXCEPT ![c] = SayTo(c, <<"PING">>)]
        /\ UNCHANGED <<srv, holder, link, deadFor, toAgent, known, faults>>
    BY DEF PingDue, SayTo
  <2>2. agent' \in AgentType /\ agent'.conn = c /\ agent'.phase = agent.phase
    BY <1>1, <1>7, <2>1 DEF AgentType
  <2>3. Restarted => Restarted'
    BY <2>1 DEF Restarted, Occurrences
  <2> QED
    BY <1>1, <1>6, <2>1, <2>2, <2>3
<1>14. Stop /\ agent.phase \in {"hello", "up"} => Stays(c, <<"CLOSE">>, toAgent[c])
  <2> HAVE Stop /\ agent.phase \in {"hello", "up"}
  <2>1. /\ agent' = [agent EXCEPT !.stopping = TRUE, !.phase = "closing",
                                 !.timer = CloseTimeout,
                                 !.pingIn = Off, !.pongIn = Off]
        /\ toServer' = [toServer EXCEPT ![c] = SayTo(c, <<"CLOSE">>)]
        /\ UNCHANGED <<srv, holder, link, deadFor, toAgent, known>> /\ Fault("stop")
    BY <1>1 DEF Stop, SayTo
  <2>2. agent' \in AgentType /\ agent'.conn = c /\ agent'.phase = "closing"
    BY <1>1, <1>7, <1>8, <2>1 DEF AgentType
  <2>3. faults' \in [Faults -> 0..MaxFaults] /\ (Restarted => Restarted')
    BY <1>1, <2>1, FaultCounted
  <2> QED
    BY <1>6, <2>1, <2>2, <2>3 DEF Busy
<1> QED
  BY <1>9, <1>10, <1>11, <1>12, <1>13, <1>14 DEF Handles
\* A queue of one.
LEMMA Single ==
  ASSUME NEW S, NEW s \in Seq(S), Len(s) = 1
  PROVE  s # <<>> /\ Head(s) = s[1] /\ DOMAIN Tail(s) = {}
<1>1. s # <<>>
  <2>1. Len(<<>>) = 0
    OBVIOUS
  <2> QED
    BY <2>1
<1>2. Len(Tail(s)) = 0 /\ Tail(s) \in Seq(S)
  BY <1>1
<1>3. \A t \in Seq(S) : Len(t) = 0 => DOMAIN t = 1..0
  OBVIOUS
<1>4. DOMAIN Tail(s) = 1..0
  BY <1>2, <1>3
<1> QED
  BY <1>1, <1>4

\* The ways the agent leaves a connection.
LEMMA AgtLeaves ==
  ASSUME IInv, NEW c \in Conns, agent.conn = c,
         \/ SessionTimeout \/ PongDeadline \/ OnRejected(c) \/ OnClose(c)
         \/ Refused
         \/ Stop /\ agent.phase = "connecting"
  PROVE  \E q, p : /\ AgtTurn(c, q, p) /\ Leaves(c, q, p)
                   /\ \/ \E last \in Bye : q = SayTo(c, <<last>>)
                      \/ srv[c].ws = "none" /\ q = <<>> /\ "CONNECT" \in Names(toServer[c])
<1>1. /\ TypeOK /\ Linked(c) /\ Slotted(c) /\ Queue(toAgent[c]) /\ agent \in AgentType
      /\ faults \in [Faults -> 0..MaxFaults] /\ agent.phase \in Busy
      /\ NoConn \notin Conns
  BY Typed, Numbers DEF IInv, Linked, Phased
<1>2. Queue(<<>>) /\ Mail(<<>>) = {} /\ Restarted => Restarted
  BY NoMail
<1>3. ASSUME NEW last \in Bye
      PROVE  Queue(SayTo(c, <<last>>)) /\ (link[c] = "dead" => SayTo(c, <<last>>) = <<>>)
  <2> DEFINE ms == <<last>>
  <2>1. ms \in Seq(Kinds) /\ "CONNECT" \notin Names(Fresh(ms))
    BY Sayings DEF Bye
  <2> HIDE DEF ms
  <2>2. Queue(SayTo(c, ms)) /\ (link[c] = "dead" => SayTo(c, ms) = <<>>)
    BY <2>1, AgtSaid
  <2> QED
    BY <2>2 DEF ms
<1>4. ASSUME agent' \in AgentType, agent'.conn = NoConn,
             agent'.phase \in {"waiting", "stopped", "failed"},
             NEW last \in Bye,
             toServer' = [toServer EXCEPT ![c] = SayTo(c, <<last>>)],
             toAgent' = [toAgent EXCEPT ![c] = <<>>],
             UNCHANGED <<srv, holder, link, deadFor, known>>,
             faults' \in [Faults -> 0..MaxFaults], Restarted => Restarted'
      PROVE  AgtTurn(c, SayTo(c, <<last>>), <<>>) /\ Leaves(c, SayTo(c, <<last>>), <<>>)
  <2>1. agent'.phase \notin Busy
    BY <1>4 DEF Busy
  <2>2. AgtTurn(c, SayTo(c, <<last>>), <<>>)
    BY <1>1, <1>2, <1>3, <1>4, <2>1, NoMail DEF AgtTurn
  <2> QED
    BY <1>4, <2>2 DEF Leaves
<1>5. ASSUME NEW fatal \in BOOLEAN, NEW last \in Bye, EndSession(fatal, last)
      PROVE  AgtTurn(c, SayTo(c, <<last>>), <<>>) /\ Leaves(c, SayTo(c, <<last>>), <<>>)
  <2>1. /\ agent' \in AgentAfter(fatal)
        /\ toServer' = [toServer EXCEPT ![c] = SayTo(c, <<last>>)]
        /\ toAgent' = [toAgent EXCEPT ![c] = <<>>]
        /\ UNCHANGED <<srv, holder, link, deadFor, known, faults>>
    BY <1>5 DEF EndSession, SayTo
  <2>2. Restarted => Restarted'
    BY <2>1 DEF Restarted, Occurrences
  <2> QED
    BY <1>1, <1>4, <2>1, <2>2, AfterSession
<1>6. CASE SessionTimeout \/ PongDeadline \/ OnRejected(c) \/ OnClose(c)
  <2>1. \E fatal \in BOOLEAN, last \in Bye : EndSession(fatal, last)
    BY <1>6 DEF SessionTimeout, PongDeadline, OnRejected, OnClose, Bye
  <2> QED
    BY <1>5, <2>1
<1>7. CASE Refused
  <2>1. /\ agent' \in AgentAfter(FALSE) /\ toServer[c] # <<>> /\ agent.phase = "connecting"
        /\ toServer' = [toServer EXCEPT ![c] = <<>>]
        /\ UNCHANGED <<srv, holder, link, deadFor, toAgent, known>> /\ Fault("refused")
    BY <1>1, <1>7 DEF Refused
  <2>2. faults' \in [Faults -> 0..MaxFaults] /\ (Restarted => Restarted')
    BY <1>1, <2>1, FaultCounted
  <2>3. /\ agent' \in AgentType /\ agent'.conn = NoConn
        /\ agent'.phase \in {"waiting", "stopped", "failed"}
    BY <1>1, <2>1, AfterSession
  <2>4. "CONNECT" \in Names(toServer[c])
    <3>1. Queue(toServer[c]) /\ Names(toServer[c]) \subseteq {"CONNECT"}
      BY <1>1, <2>1 DEF Slotted, SaidIn, Linked
    <3> QED
      BY <2>1, <3>1, NoMail
  <2>5. srv[c].ws = "none" /\ toAgent[c] = <<>>
    BY <1>1, <2>4 DEF Slotted
  <2>6. toAgent' = [toAgent EXCEPT ![c] = <<>>]
    <3>1. toAgent = [k \in Conns |-> toAgent[k]]
      BY DEF IInv, Queued
    <3> QED
      BY <2>1, <2>5, <3>1
  <2>7. agent'.phase \notin Busy
    BY <2>3 DEF Busy
  <2>8. AgtTurn(c, <<>>, <<>>)
    BY <1>1, <1>2, <2>1, <2>2, <2>3, <2>6, <2>7, NoMail DEF AgtTurn
  <2>9. Leaves(c, <<>>, <<>>)
    BY <2>3, <2>5 DEF Leaves
  <2> QED
    BY <2>4, <2>5, <2>8, <2>9
<1>8. CASE Stop /\ agent.phase = "connecting"
  <2>1. /\ agent' = [Waiting(Off, agent.delay) EXCEPT
                                 !.phase = "stopped", !.stopping = TRUE]
        /\ toServer' = [toServer EXCEPT ![c] = SayTo(c, <<"END">>)]
        /\ toAgent' = [toAgent EXCEPT ![c] = <<>>]
        /\ UNCHANGED <<srv, holder, link, deadFor, known>> /\ Fault("stop")
    BY <1>1, <1>8 DEF Stop, SayTo
  <2>2. faults' \in [Faults -> 0..MaxFaults] /\ (Restarted => Restarted')
    BY <1>1, <2>1, FaultCounted
  <2>3. /\ agent' \in AgentType /\ agent'.conn = NoConn /\ agent'.phase = "stopped"
    <3>1. /\ agent.delay \in MinDelay..MaxDelay /\ "stopped" \in Phases
          /\ Off \in Int /\ Off \in UpTo(PingInterval) /\ Off \in UpTo(PingTimeout)
          /\ 0 \in 0..StableSession
      BY <1>1, Numbers DEF AgentType, Phases, UpTo
    <3> QED
      BY <2>1, <3>1 DEF Waiting, AgentType
  <2>4. "END" \in Bye
    BY DEF Bye
  <2> QED
    BY <1>4, <2>1, <2>2, <2>3, <2>4
<1> QED
  BY <1>6, <1>7, <1>8

\* The steps in which the agent has no connection, before and after.
LEMMA AgtIdles ==
  ASSUME IInv, StopWaiting \/ (Stop /\ agent.phase = "waiting")
  PROVE  TypeOK' /\ Queued' /\ Phased' /\ \A k \in Conns : Same(k)
<1>1. /\ TypeOK /\ Queued /\ agent \in AgentType /\ faults \in [Faults -> 0..MaxFaults]
      /\ agent.phase = "waiting" /\ agent.conn = NoConn /\ NoConn \notin Conns
  BY Typed, Numbers DEF IInv, Phased, StopWaiting, Busy
<1>2. /\ UNCHANGED <<srv, holder, link, deadFor, toServer, toAgent, known>>
      /\ \/ agent' = [agent EXCEPT !.phase = "stopped", !.timer = Off] /\ faults' = faults
         \/ agent' = [agent EXCEPT !.stopping = TRUE] /\ Fault("stop")
  BY <1>1 DEF StopWaiting, Stop
<1>3. agent' \in AgentType /\ agent'.conn = NoConn /\ agent'.phase \in {"waiting", "stopped"}
  <2>1. "stopped" \in Phases /\ Off \in Int
    BY Numbers DEF Phases
  <2> QED
    BY <1>1, <1>2, <2>1, ZenonT(60) DEF AgentType
<1>4. faults' \in [Faults -> 0..MaxFaults] /\ (Restarted => Restarted')
  <2>1. faults' = faults => Restarted' = Restarted
    BY DEF Restarted, Occurrences
  <2> QED
    BY <1>1, <1>2, <2>1, FaultCounted
<1>5. TypeOK'
  <2>1. /\ srv' \in [Conns -> EndType]
        /\ holder' \in Conns \cup {NoConn} /\ link' \in [Conns -> {"ok", "dead"}]
        /\ deadFor' \in [Conns -> 0..DeadForCap] /\ known' \in BOOLEAN
    BY <1>1, <1>2, Typed
  <2> QED
    BY <1>3, <1>4, <2>1 DEF TypeOK, AgentType, EndType
<1>6. Queued' /\ Phased'
  BY <1>1, <1>2, <1>3 DEF Queued, Phased, Busy
<1>7. \A k \in Conns : Same(k)
  BY <1>1, <1>2, <1>3, <1>4 DEF Same
<1> QED
  BY <1>5, <1>6, <1>7

\* What a new connection starts with.
Opens(c) ==
  /\ agent.phase = "waiting" /\ srv[c].ws = "none" /\ toServer[c] = <<>>
  /\ agent' = [agent EXCEPT !.phase = "connecting", !.conn = c, !.timer = ConnectTimeout]
  /\ toServer' = [toServer EXCEPT ![c] = Fresh(<<"CONNECT">>)]
  /\ link' = [link EXCEPT ![c] = "ok"] /\ deadFor' = [deadFor EXCEPT ![c] = 0]
  /\ UNCHANGED <<srv, holder, toAgent, known, faults>>

\* A session begins on a slot nobody uses.
LEMMA AgtOpens ==
  ASSUME IInv, StartSession
  PROVE  /\ TypeOK' /\ Queued' /\ Phased'
         /\ \E c \in Conns : Opens(c) /\ Kept(c)' /\ \A k \in Conns : k # c => Same(k)
<1>1. PICK c \in Conns : Opens(c)
  <2> DEFINE c == CHOOSE free \in FreeConns : TRUE
  <2>1. c \in FreeConns
    BY DEF StartSession
  <2>2. c \in Conns /\ srv[c].ws = "none" /\ toServer[c] = <<>>
    BY <2>1 DEF FreeConns
  <2> QED
    BY <2>2 DEF StartSession, Opens
<1>2. /\ TypeOK /\ Queued /\ agent \in AgentType /\ Slotted(c) /\ Linked(c) /\ Settled(c)
      /\ agent.conn = NoConn /\ NoConn \notin Conns /\ toAgent[c] = <<>>
  <2>1. /\ agent.phase = "waiting" /\ Slotted(c) /\ Linked(c) /\ Settled(c)
        /\ TypeOK /\ Queued /\ Phased
    BY <1>1 DEF Opens, IInv
  <2>2. agent.conn = NoConn /\ agent \in AgentType
    BY <2>1, Typed DEF Phased, Busy
  <2> QED
    BY <1>1, <2>1, <2>2, Numbers DEF Slotted
<1>3. /\ agent' \in AgentType /\ agent'.conn = c /\ agent'.phase = "connecting"
  <2>1. "connecting" \in Phases /\ ConnectTimeout \in Int
    BY Numbers DEF Phases
  <2> QED
    BY <1>1, <1>2, <2>1 DEF Opens, AgentType
<1>4. /\ srv' = srv /\ holder' = holder /\ toAgent' = toAgent /\ known' = known
      /\ link'[c] = "ok" /\ deadFor'[c] = 0 /\ toServer'[c] = Fresh(<<"CONNECT">>)
      /\ faults' = faults
  BY <1>1, <1>2, Typed DEF Opens, Queued
<1>5. TypeOK'
  <2>1. /\ srv' \in [Conns -> EndType]
        /\ holder' \in Conns \cup {NoConn} /\ link' \in [Conns -> {"ok", "dead"}]
        /\ deadFor' \in [Conns -> 0..DeadForCap] /\ known' \in BOOLEAN
        /\ faults' \in [Faults -> 0..MaxFaults]
    BY <1>1, <1>2, Typed, Numbers DEF Opens
  <2> QED
    BY <1>3, <2>1 DEF TypeOK, AgentType, EndType
<1> DEFINE q == Fresh(<<"CONNECT">>)
<1>6. /\ Queue(q) /\ Names(q) = {"CONNECT"} /\ ConnectFirst(q)
      /\ q # <<>> /\ Head(q).m = "CONNECT"
  <2>0. "CONNECT" \in Kinds
    BY DEF Kinds
  <2>1. Names(q) = {"CONNECT"} /\ <<"CONNECT">> \in Seq(Kinds)
    BY <2>0, Sayings
  <2>2. q \in Seq(MailType) /\ Len(q) = 1 /\ q[1] = [m |-> "CONNECT", age |-> 0]
    <3> DEFINE s == <<"CONNECT">>
    <3>1. Len(s) = 1 /\ s[1] = "CONNECT"
      OBVIOUS
    <3>2. s \in Seq(Kinds)
      BY <2>1
    <3> HIDE DEF s
    <3>3. /\ Fresh(s) \in Seq(MailType) /\ Len(Fresh(s)) = Len(s)
          /\ \A i \in DOMAIN Fresh(s) : Fresh(s)[i] = [m |-> s[i], age |-> 0]
      BY <3>2, FreshMail
    <3>4. 1 \in DOMAIN Fresh(s)
      BY <3>1, <3>3
    <3> QED
      BY <3>1, <3>3, <3>4 DEF s
  <2> HIDE DEF q
  <2>3. q # <<>> /\ Head(q) = [m |-> "CONNECT", age |-> 0] /\ Names(Tail(q)) = {}
    <3>1. q \in Seq(MailType) /\ Len(q) = 1
      BY <2>2
    <3>2. q # <<>> /\ Head(q) = q[1] /\ DOMAIN Tail(q) = {}
      BY <3>1, Single
    <3> QED
      BY <2>2, <3>2 DEF Names, Mail
  <2>4. Queue(q)
    <3>1. DOMAIN q = {1}
      BY <2>2
    <3>2. q[1].age = 0
      BY <2>2
    <3>3. q \in Seq(MailType)
      BY <2>2
    <3> QED
      BY <3>1, <3>2, <3>3 DEF Queue
  <2>5. Names(q) = {"CONNECT"}
    BY <2>1
  <2> QED
    BY <2>3, <2>4, <2>5 DEF ConnectFirst
<1>7. Queued' /\ Phased'
  <2>1. q \in Seq(MailType)
    BY <1>6 DEF Queue
  <2> QED
    BY <1>1, <1>2, <1>3, <2>1 DEF Queued, Phased, Opens, Busy
<1> HIDE DEF q
<1>8. Kept(c)'
  <2>1. toServer'[c] = q /\ Names(toAgent[c]) = {} /\ srv[c].ws = "none"
    BY <1>1, <1>2, <1>4, NoMail DEF Opens, q
  <2>2. Linked(c)'
    BY <1>2, <1>4, <1>6, <2>1 DEF Linked
  <2>3. Slotted(c)'
    BY <1>1, <1>2, <1>3, <1>4, <1>6, <2>1 DEF Slotted, SaidIn
  <2>4. Settled(c)' /\ Ticking(c)'
    BY <1>3, <1>4, <2>1 DEF Settled, Ticking
  <2> QED
    BY <2>2, <2>3, <2>4 DEF Kept
<1>9. ASSUME NEW k \in Conns, k # c PROVE Same(k)
  <2>1. Restarted' = Restarted
    BY <1>4 DEF Restarted, Occurrences
  <2> QED
    BY <1>1, <1>2, <1>3, <1>4, <1>9, <2>1, Typed DEF Same, Opens, Queued
<1> QED
  BY <1>1, <1>5, <1>7, <1>8, <1>9
-----------------------------------------------------------------------------
\* The steps that are left.

\* What is kept of every connection, with the rest, is the invariant.
LEMMA Whole == IInv <=> TypeOK /\ Queued /\ Phased /\ \A c \in Conns : Kept(c)
  BY DEF IInv, Kept

\* What the agent may do on a connection it has.
AgentOn(c) ==
  \/ SessionTimeout \/ PingDue \/ PongDeadline \/ Refused
  \/ Stop /\ agent.phase # "waiting"
  \/ OnOpen(c) \/ OnHelloOk(c) \/ OnRejected(c) \/ OnTunnelReply(c)
  \/ OnPing(c) \/ OnPong(c) \/ OnLate(c) \/ OnClose(c)

\* The agent's step is one of four kinds.
LEMMA AgtSplit ==
  ASSUME IInv, AgentStep \/ Refused \/ Stop
  PROVE  \/ StartSession
         \/ StopWaiting \/ (Stop /\ agent.phase = "waiting")
         \/ \E c \in Conns : agent.conn = c /\ AgentOn(c)
<1>1. TypeOK /\ Phased
  BY DEF IInv
<1>2. agent.conn \in Conns \cup {NoConn}
  BY <1>1 DEF TypeOK
<1>3. agent.conn # NoConn => agent.conn \in Conns
  BY <1>2
<1>4. CASE StartSession \/ StopWaiting
  BY <1>4
<1>5. CASE SessionTimeout \/ PingDue \/ PongDeadline \/ Refused
  <2>1. agent.phase \in Busy
    BY <1>5 DEF SessionTimeout, PingDue, PongDeadline, Refused, Busy
  <2> QED
    BY <1>1, <1>3, <1>5, <2>1 DEF Phased, AgentOn
<1>6. CASE Stop
  <2>1. agent.phase = "waiting" \/ agent.phase \in Busy
    BY <1>6 DEF Stop, Busy
  <2> QED
    BY <1>1, <1>3, <1>6, <2>1 DEF Phased, AgentOn, Busy
<1>7. CASE /\ agent.conn # NoConn
           /\ LET c == agent.conn
              IN  \/ OnOpen(c) \/ OnHelloOk(c) \/ OnRejected(c) \/ OnTunnelReply(c)
                  \/ OnPing(c) \/ OnPong(c) \/ OnLate(c) \/ OnClose(c)
  BY <1>3, <1>7 DEF AgentOn
<1> QED
  BY <1>4, <1>5, <1>6, <1>7 DEF AgentStep

\* On a connection it has, the agent leaves it or stays with a message.
LEMMA AgtOnKept ==
  ASSUME IInv, NEW c \in Conns, agent.conn = c, AgentOn(c)
  PROVE  /\ \E q, p : AgtTurn(c, q, p)
         /\ Kept(c)'
<1>1. CASE \/ SessionTimeout \/ PongDeadline \/ OnRejected(c) \/ OnClose(c)
           \/ Refused
           \/ Stop /\ agent.phase = "connecting"
  <2>1. PICK q, p : AgtTurn(c, q, p) /\ Leaves(c, q, p)
    BY <1>1, AgtLeaves
  <2>2. Kept(c)'
    BY <2>1, AgtKept
  <2> QED
    BY <2>1, <2>2
<1>2. Handles(c)
  BY AgtHandles
<1>4. ASSUME NEW ms, NEW p, Stays(c, ms, p), Names(Fresh(ms)) \subseteq SaidIn(agent'.phase),
             \/ agent'.phase = agent.phase /\ agent.phase \in {"hello", "up", "closing"}
             \/ /\ agent.phase = "connecting" /\ agent'.phase = "hello"
                /\ toAgent[c] # <<>>
             \/ /\ agent.phase = "hello" /\ agent'.phase = "up"
                /\ "HELLO_OK" \in Names(toAgent[c])
             \/ agent.phase \in {"hello", "up"} /\ agent'.phase = "closing"
      PROVE  /\ \E q, r : AgtTurn(c, q, r)
             /\ Kept(c)'
  <2> DEFINE q == SayTo(c, ms)
  <2>1. AgtTurn(c, q, p) /\ ms \in Seq(Kinds) /\ "CONNECT" \notin Names(Fresh(ms))
        /\ agent'.conn = c
    BY <1>4 DEF Stays
  <2>2. q = SayTo(c, ms)
    OBVIOUS
  <2> HIDE DEF q
  <2>3. Kept(c)'
    BY <1>4, <2>1, <2>2, AgtKept
  <2> QED
    BY <2>1, <2>3
<1>5. Queue(toAgent[c])
  BY DEF IInv, Linked
<1>6. agent \in AgentType /\ "phase" \in DOMAIN agent /\ agent.phase \in Busy
      /\ NoConn \notin Conns
  BY Typed, Numbers DEF IInv, AgentType, Phased
<1>7. ASSUME NEW a \in {"HELLO", "OPEN_TUNNEL", "PONG", "PING", "CLOSE"}, NEW p,
             Stays(c, <<a>>, p), a \in SaidIn(agent'.phase),
             \/ agent'.phase = agent.phase /\ agent.phase \in {"hello", "up", "closing"}
             \/ /\ agent.phase = "connecting" /\ agent'.phase = "hello"
                /\ toAgent[c] # <<>>
             \/ /\ agent.phase = "hello" /\ agent'.phase = "up"
                /\ "HELLO_OK" \in Names(toAgent[c])
             \/ agent.phase \in {"hello", "up"} /\ agent'.phase = "closing"
      PROVE  /\ \E q, r : AgtTurn(c, q, r)
             /\ Kept(c)'
  <2> DEFINE ms == <<a>>
  <2>1. Stays(c, ms, p) /\ Names(Fresh(ms)) \subseteq SaidIn(agent'.phase)
    BY <1>7, Sayings
  <2> HIDE DEF ms
  <2> QED
    BY <1>4, <1>7, <2>1
<1>8. CASE OnOpen(c)
  <2>1. agent.phase = "connecting" /\ agent'.phase = "hello" /\ toAgent[c] # <<>>
    BY <1>6, <1>8 DEF OnOpen, Message
  <2>2. "HELLO" \in SaidIn(agent'.phase)
    BY <2>1 DEF SaidIn
  <2>3. Stays(c, <<"HELLO">>, Tail(toAgent[c]))
    BY <1>2, <1>8 DEF Handles
  <2> QED
    BY <1>7, <2>1, <2>2, <2>3
<1>9. CASE OnHelloOk(c)
  <2>1. agent.phase = "hello" /\ agent'.phase = "up" /\ toAgent[c] # <<>>
        /\ Head(toAgent[c]).m = "HELLO_OK"
    BY <1>6, <1>9 DEF OnHelloOk, Message
  <2>2. "OPEN_TUNNEL" \in SaidIn(agent'.phase)
    BY <2>1 DEF SaidIn
  <2>3. "HELLO_OK" \in Names(toAgent[c])
    BY <1>5, <2>1, NoMail
  <2>4. Stays(c, <<"OPEN_TUNNEL">>, Tail(toAgent[c]))
    BY <1>2, <1>9 DEF Handles
  <2> QED
    BY <1>7, <2>1, <2>2, <2>3, <2>4
<1>10. CASE OnTunnelReply(c) \/ OnPong(c) \/ OnLate(c)
  <2>1. agent'.phase = agent.phase /\ agent.phase \in {"hello", "up", "closing"}
    <3>1. \/ agent.phase = "up" /\ \E t \in {"ok", "refused"} : agent' = [agent EXCEPT !.tunnel = t]
          \/ agent.phase = "up" /\ agent' = [agent EXCEPT !.pongIn = Off]
          \/ agent.phase = "closing" /\ agent' = agent
      BY <1>10 DEF OnTunnelReply, OnPong, OnLate
    <3> QED
      BY <1>6, <3>1
  <2> DEFINE ms == <<>>
  <2>2. Stays(c, ms, Tail(toAgent[c])) /\ Names(Fresh(ms)) \subseteq SaidIn(agent'.phase)
    BY <1>2, <1>10, Sayings DEF Handles
  <2> HIDE DEF ms
  <2> QED
    BY <1>4, <2>1, <2>2
<1>11. CASE OnPing(c)
  <2>1. agent.phase \in {"hello", "up"} /\ agent' = agent
    BY <1>11 DEF OnPing
  <2>2. "PONG" \in SaidIn(agent'.phase)
    BY <2>1 DEF SaidIn
  <2>3. Stays(c, <<"PONG">>, Tail(toAgent[c]))
    BY <1>2, <1>11 DEF Handles
  <2> QED
    BY <1>7, <2>1, <2>2, <2>3
<1>12. CASE PingDue
  <2>1. agent.phase = "up" /\ agent'.phase = agent.phase
    BY <1>6, <1>12 DEF PingDue
  <2>2. "PING" \in SaidIn(agent'.phase)
    BY <2>1 DEF SaidIn
  <2>3. Stays(c, <<"PING">>, toAgent[c])
    BY <1>2, <1>12 DEF Handles
  <2> QED
    BY <1>7, <2>1, <2>2, <2>3
<1>13. CASE Stop /\ agent.phase \in {"hello", "up"}
  <2>1. agent'.phase = "closing"
    BY <1>6, <1>13 DEF Stop
  <2>2. "CLOSE" \in SaidIn(agent'.phase)
    BY <2>1 DEF SaidIn, Kinds
  <2>3. Stays(c, <<"CLOSE">>, toAgent[c])
    BY <1>2, <1>13 DEF Handles
  <2> QED
    BY <1>7, <1>13, <2>1, <2>2, <2>3
<1>14. Stop /\ agent.phase # "waiting" => agent.phase \in {"connecting", "hello", "up"}
  BY DEF Stop
<1> QED
  BY <1>1, <1>8, <1>9, <1>10, <1>11, <1>12, <1>13, <1>14 DEF AgentOn

\* So the agent's steps keep the invariant.
LEMMA AgtInv ==
  ASSUME IInv, AgentStep \/ Refused \/ Stop
  PROVE  IInv'
<1>1. \A k \in Conns : Kept(k)
  BY Whole
<1>2. CASE StartSession
  <2>1. PICK c \in Conns : /\ TypeOK' /\ Queued' /\ Phased' /\ Kept(c)'
                           /\ \A k \in Conns : k # c => Same(k)
    BY <1>2, AgtOpens
  <2>2. ASSUME NEW k \in Conns, k # c PROVE Kept(k)'
    BY <1>1, <2>1, <2>2, Elsewhere
  <2> QED
    BY <2>1, <2>2 DEF IInv, Kept
<1>3. CASE StopWaiting \/ (Stop /\ agent.phase = "waiting")
  <2>1. TypeOK' /\ Queued' /\ Phased' /\ \A k \in Conns : Same(k)
    BY <1>3, AgtIdles
  <2>2. ASSUME NEW k \in Conns PROVE Kept(k)'
    BY <1>1, <2>1, Elsewhere
  <2> QED
    BY <2>1, <2>2 DEF IInv, Kept
<1>4. ASSUME NEW c \in Conns, agent.conn = c, AgentOn(c)
      PROVE  IInv'
  <2>1. Kept(c)' /\ \E q, p : AgtTurn(c, q, p)
    BY <1>4, AgtOnKept
  <2>2. TypeOK' /\ Queued' /\ Phased' /\ \A k \in Conns : k # c => Same(k)
    BY <2>1, AgtTurned
  <2>3. ASSUME NEW k \in Conns, k # c PROVE Kept(k)'
    BY <1>1, <2>2, <2>3, Elsewhere
  <2> QED
    BY <2>1, <2>2, <2>3 DEF IInv, Kept
<1> QED
  BY <1>2, <1>3, <1>4, AgtSplit

\* A timer a tick later.
LEMMA Elapsed ==
  /\ \A x \in Int : Elapse(x) \in Int /\ (x = Off => Elapse(x) = Off)
  /\ \A n \in Nat : \A x \in UpTo(n) :
       /\ Elapse(x) \in UpTo(n) /\ (x = Off => Elapse(x) = Off)
       /\ x # 0 /\ x # Off => x > 0 /\ Elapse(x) = x - 1 /\ Elapse(x) # Off
  BY DEF Elapse, UpTo, Off

\* What a tick does to the agent.
LEMMA AgentTicked ==
  ASSUME IInv, Tick
  PROVE  /\ agent'.phase = agent.phase /\ agent'.conn = agent.conn
         /\ agent'.tunnel = agent.tunnel
         /\ agent'.timer = Elapse(agent.timer) /\ agent'.pingIn = Elapse(agent.pingIn)
         /\ agent'.pongIn = Elapse(agent.pongIn)
         /\ 0 \notin {agent.timer, agent.pingIn, agent.pongIn}
         /\ agent \in AgentType /\ agent' \in AgentType
<1>1. agent \in AgentType
  BY Typed DEF IInv
<1>2. /\ agent' = [agent EXCEPT !.timer = Elapse(@), !.pingIn = Elapse(@),
                   !.pongIn = Elapse(@),
                   !.age = IF agent.conn = NoConn \/ @ = StableSession
                           THEN @ ELSE @ + 1]
      /\ 0 \notin {agent.timer, agent.pingIn, agent.pongIn}
  BY DEF Tick, AgentTimers
<1>3. agent' \in AgentType
  <2>1. /\ Elapse(agent.timer) \in Int /\ Elapse(agent.pingIn) \in UpTo(PingInterval)
        /\ Elapse(agent.pongIn) \in UpTo(PingTimeout)
    BY <1>1, Elapsed, Numbers DEF AgentType
  <2>2. (IF agent.conn = NoConn \/ agent.age = StableSession
           THEN agent.age ELSE agent.age + 1) \in 0..StableSession
    BY <1>1, Numbers DEF AgentType
  <2> QED
    BY <1>1, <1>2, <2>1, <2>2 DEF AgentType
<1>4. /\ agent'.phase = agent.phase /\ agent'.conn = agent.conn
      /\ agent'.tunnel = agent.tunnel
      /\ agent'.timer = Elapse(agent.timer) /\ agent'.pingIn = Elapse(agent.pingIn)
      /\ agent'.pongIn = Elapse(agent.pongIn)
  BY <1>1, <1>2 DEF AgentType
<1> QED
  BY <1>1, <1>2, <1>3, <1>4

\* And to a connection.
LEMMA Ticked ==
  ASSUME IInv, Tick, NEW c \in Conns
  PROVE  /\ srv[c] \in EndType /\ srv'[c].ws = srv[c].ws
         /\ srv'[c].session = srv[c].session
         /\ srv'[c].misses = srv[c].misses /\ srv'[c].tickIn = Elapse(srv[c].tickIn)
         /\ srv'[c].timer = Elapse(srv[c].timer)
         /\ 0 \notin {srv[c].tickIn, srv[c].timer}
         /\ deadFor[c] \in Nat /\ deadFor'[c] \in 0..DeadForCap
         /\ deadFor'[c] <= deadFor[c] + 1
         /\ link[c] = "ok" => deadFor'[c] = 0
         /\ toServer'[c] = Older(toServer[c]) /\ toAgent'[c] = Older(toAgent[c])
         /\ Queue(toServer[c]) /\ Queue(toAgent[c])
         /\ ~Overdue(toServer[c]) /\ ~Overdue(toAgent[c])
         /\ srv'[c] \in EndType
<1>1. Linked(c) /\ srv[c] \in EndType /\ deadFor[c] \in 0..DeadForCap
  BY Typed DEF IInv
<1>2. /\ srv'[c] = [srv[c] EXCEPT !.tickIn = Elapse(@), !.timer = Elapse(@)]
      /\ deadFor'[c] = IF link[c] # "dead" \/ ~InUse(c) THEN 0
                       ELSE IF deadFor[c] = DeadForCap THEN DeadForCap
                       ELSE deadFor[c] + 1
      /\ toServer'[c] = Older(toServer[c]) /\ toAgent'[c] = Older(toAgent[c])
      /\ 0 \notin {srv[c].tickIn, srv[c].timer}
      /\ ~Overdue(toServer[c]) /\ ~Overdue(toAgent[c])
  BY DEF Tick, ServerTimers
<1>4. srv'[c] \in EndType
  <2>1. /\ Elapse(srv[c].timer) \in Int /\ Elapse(srv[c].tickIn) \in UpTo(Heartbeat)
    BY <1>1, Elapsed, Numbers DEF EndType
  <2> QED
    BY <1>1, <1>2, <2>1 DEF EndType
<1>5. /\ deadFor[c] \in Nat /\ deadFor'[c] \in 0..DeadForCap
      /\ deadFor'[c] <= deadFor[c] + 1 /\ (link[c] = "ok" => deadFor'[c] = 0)
  BY <1>1, <1>2, Numbers
<1>7. /\ srv'[c].ws = srv[c].ws /\ srv'[c].session = srv[c].session
      /\ srv'[c].misses = srv[c].misses /\ srv'[c].tickIn = Elapse(srv[c].tickIn)
      /\ srv'[c].timer = Elapse(srv[c].timer)
  BY <1>1, <1>2 DEF EndType
<1> QED
  BY <1>1, <1>2, <1>4, <1>5, <1>7 DEF Linked

\* A tick adds one to the server's silence.
LEMMA SilenceGrows ==
  ASSUME IInv, Tick, NEW c \in Conns, srv[c].ws = "open"
  PROVE  /\ Silence(c) \in Int /\ Silence(c)' = Silence(c) + 1
         /\ srv'[c].tickIn # Off
<1>1. /\ srv[c] \in EndType /\ srv'[c].misses = srv[c].misses
      /\ srv'[c].tickIn = Elapse(srv[c].tickIn) /\ srv[c].tickIn # 0
  BY Ticked
<1>2. srv[c].tickIn # Off
  BY DEF IInv, Ticking
<1>3. srv[c].tickIn \in UpTo(Heartbeat) /\ srv[c].misses \in Nat /\ Heartbeat \in Nat
  BY <1>1, Numbers DEF EndType
<1>4. /\ srv[c].tickIn \in Int /\ Elapse(srv[c].tickIn) = srv[c].tickIn - 1
      /\ Elapse(srv[c].tickIn) # Off
  BY <1>1, <1>2, <1>3, Elapsed, Numbers DEF UpTo
<1> DEFINE n == srv[c].misses * Heartbeat
<1>5. n \in Int /\ Silence(c) = n - srv[c].tickIn /\ Silence(c)' = n - srv'[c].tickIn
  BY <1>1, <1>3 DEF Silence
<1> HIDE DEF n
<1> QED
  BY <1>1, <1>4, <1>5

\* Time keeps the invariant.
LEMMA TickInv ==
  ASSUME IInv, Tick
  PROVE  IInv'
<1>1. TypeOK /\ Queued /\ Phased
  BY DEF IInv
<1>2. TypeOK'
  <2>1. ASSUME NEW c \in Conns PROVE srv'[c] \in EndType /\ deadFor'[c] \in 0..DeadForCap
    BY <2>1, Ticked
  <2>2. srv' \in [Conns -> EndType] /\ deadFor' \in [Conns -> 0..DeadForCap]
    BY <2>1 DEF Tick
  <2>3. agent' \in AgentType
    BY AgentTicked
  <2>4. /\ holder' \in Conns \cup {NoConn} /\ link' \in [Conns -> {"ok", "dead"}]
        /\ known' \in BOOLEAN /\ faults' \in [Faults -> 0..MaxFaults]
    BY <1>1, Typed DEF Tick
  <2> QED
    BY <2>2, <2>3, <2>4 DEF TypeOK, AgentType, EndType
<1>3. ASSUME NEW c \in Conns
      PROVE  /\ Queue(Older(toServer[c])) /\ Queue(Older(toAgent[c])) /\ Kept(c)'
  <2>1. Linked(c) /\ Slotted(c) /\ Settled(c) /\ Ticking(c)
    BY DEF IInv
  <2>2. /\ Queue(toServer[c]) /\ Queue(toAgent[c])
        /\ ~Overdue(toServer[c]) /\ ~Overdue(toAgent[c])
        /\ toServer'[c] = Older(toServer[c]) /\ toAgent'[c] = Older(toAgent[c])
    BY Ticked
  <2>3. /\ Queue(Older(toServer[c])) /\ Names(Older(toServer[c])) = Names(toServer[c])
        /\ Older(toServer[c]) = <<>> <=> toServer[c] = <<>>
        /\ toServer[c] # <<>> => Head(Older(toServer[c])).m = Head(toServer[c]).m
        /\ ConnectFirst(toServer[c]) => ConnectFirst(Older(toServer[c]))
    BY <2>2, MailOlder
  <2>4. /\ Queue(Older(toAgent[c])) /\ Names(Older(toAgent[c])) = Names(toAgent[c])
        /\ Older(toAgent[c]) = <<>> <=> toAgent[c] = <<>>
    BY <2>2, MailOlder, SMTT(40)
  <2>5. /\ agent'.phase = agent.phase /\ agent'.conn = agent.conn
        /\ srv'[c].ws = srv[c].ws /\ srv'[c].session = srv[c].session
        /\ link' = link /\ known' = known /\ holder' = holder
        /\ link[c] = "ok" => deadFor'[c] = 0
    BY Ticked, AgentTicked DEF Tick
  <2>6. Linked(c)'
    BY <2>1, <2>2, <2>3, <2>4, <2>5 DEF Linked
  <2>7. Slotted(c)'
    BY <2>1, <2>2, <2>3, <2>4, <2>5 DEF Slotted
  <2>8. Settled(c)'
    <3>1. srv[c].timer = Off => srv'[c].timer = Off
      BY Ticked, Elapsed DEF EndType
    <3> QED
      BY <2>1, <2>2, <2>4, <2>5, <3>1 DEF Settled
  <2>9. Ticking(c)'
    <3> SUFFICES ASSUME srv[c].ws = "open"
                 PROVE  /\ srv'[c].tickIn # Off
                        /\ deadFor'[c] <= Silence(c)' + Heartbeat
      BY <2>5 DEF Ticking
    <3>1. /\ deadFor'[c] \in Int /\ deadFor[c] \in Int /\ deadFor'[c] <= deadFor[c] + 1
          /\ Silence(c) \in Int /\ Silence(c)' = Silence(c) + 1
          /\ srv'[c].tickIn # Off
      BY Ticked, SilenceGrows
    <3>2. deadFor[c] <= Silence(c) + Heartbeat
      BY <2>1 DEF Ticking
    <3> QED
      BY <3>1, <3>2, Numbers
  <2> QED
    BY <2>3, <2>4, <2>6, <2>7, <2>8, <2>9 DEF Kept
<1>4. Queued'
  BY <1>3 DEF Queued, Tick, Queue
<1>5. Phased'
  <2>1. agent'.phase = agent.phase /\ agent'.conn = agent.conn
    BY AgentTicked
  <2> QED
    BY <1>1, <2>1 DEF Phased
<1> QED
  BY <1>2, <1>3, <1>4, <1>5 DEF IInv, Kept

\* So does the death of a link, which only its own connection sees.
LEMMA DeathInv ==
  ASSUME IInv, NEW c \in Conns, LinkDies(c)
  PROVE  /\ IInv' /\ \A k \in Conns : k # c => Same(k)
         /\ UNCHANGED <<agent, srv, holder, deadFor, known>>
         /\ link[c] = "ok" /\ link'[c] = "dead" /\ toServer'[c] = <<>> /\ toAgent'[c] = <<>>
         /\ Restarted => Restarted'
<1>1. /\ TypeOK /\ Queued /\ Phased /\ Kept(c) /\ faults \in [Faults -> 0..MaxFaults]
  BY Typed DEF IInv, Kept
<1>2. /\ Fault("linkDies") /\ link[c] = "ok"
      /\ link' = [link EXCEPT ![c] = "dead"]
      /\ toServer' = [toServer EXCEPT ![c] = <<>>]
      /\ toAgent' = [toAgent EXCEPT ![c] = <<>>]
      /\ UNCHANGED <<agent, srv, holder, deadFor, known>>
  BY DEF LinkDies
<1>3. faults' \in [Faults -> 0..MaxFaults] /\ (Restarted => Restarted')
  BY <1>1, <1>2, FaultCounted
<1>4. /\ link'[c] = "dead" /\ toServer'[c] = <<>> /\ toAgent'[c] = <<>> /\ Queued'
  BY <1>1, <1>2, Typed DEF Queued
<1>5. ASSUME NEW k \in Conns, k # c PROVE Same(k)
  BY <1>2, <1>3, <1>5 DEF Same
<1>6. TypeOK'
  BY <1>1, <1>2, <1>3 DEF TypeOK
<1>7. Phased'
  BY <1>1, <1>2 DEF Phased
<1>8. Kept(c)'
  <2>1. Linked(c)'
    BY <1>4, NoMail DEF Linked
  <2>2. Slotted(c)'
    BY <1>1, <1>2, <1>4, NoMail DEF Kept, Slotted
  <2>3. Settled(c)'
    BY <1>1, <1>2, <1>4, NoMail DEF Kept, Settled
  <2>4. Ticking(c)'
    BY <1>1, <1>2 DEF Kept, Ticking, Silence
  <2> QED
    BY <2>1, <2>2, <2>3, <2>4 DEF Kept
<1>9. ASSUME NEW k \in Conns, k # c PROVE Kept(k)'
  BY <1>5, <1>9, Whole, Elsewhere
<1>10. IInv'
  BY <1>4, <1>6, <1>7, <1>8, <1>9 DEF IInv, Kept
<1> QED
  BY <1>2, <1>3, <1>4, <1>5, <1>10

\* And a restart of the server, which every connection sees.
LEMMA RestartInv ==
  ASSUME IInv, ServerRestart
  PROVE  /\ IInv' /\ Restarted'
         /\ \A c \in Conns : /\ srv'[c] = NoEnd /\ toServer'[c] = <<>>
                             /\ Mail(toAgent[c]) \subseteq Mail(toAgent'[c])
                             /\ Names(toAgent[c]) \subseteq Names(toAgent'[c])
                             /\ Names(toAgent'[c]) \subseteq Names(toAgent[c]) \cup {"END"}
                             /\ Queue(toAgent'[c])
                             /\ link[c] = "ok" /\ agent.conn = c /\ ServerThere(c)
                                  => "END" \in Names(toAgent'[c])
<1>1. /\ TypeOK /\ Queued /\ Phased /\ faults \in [Faults -> 0..MaxFaults]
      /\ NoConn \notin Conns
  BY Typed, Numbers DEF IInv
<1>2. /\ Fault("serverRestart") /\ srv' = [c \in Conns |-> NoEnd] /\ holder' = NoConn
      /\ toServer' = [c \in Conns |-> <<>>]
      /\ toAgent' = [c \in Conns |-> IF ServerThere(c)
                                     THEN toAgent[c] \o ToAgent(c, <<"END">>)
                                     ELSE toAgent[c]]
      /\ UNCHANGED <<agent, link, deadFor, known>>
  BY DEF ServerRestart
<1>3. faults' \in [Faults -> 0..MaxFaults] /\ Restarted'
  BY <1>1, <1>2, FaultCounted
<1>4. TypeOK'
  <2>1. NoEnd \in EndType
    BY Numbers DEF NoEnd, EndType, UpTo
  <2>2. srv' \in [Conns -> EndType] /\ holder' \in Conns \cup {NoConn}
    BY <1>2, <2>1
  <2> QED
    BY <1>1, <1>2, <1>3, <2>2 DEF TypeOK, EndType
<1>5. Phased'
  BY <1>1, <1>2 DEF Phased
<1>6. ASSUME NEW c \in Conns
      PROVE  /\ srv'[c] = NoEnd /\ toServer'[c] = <<>> /\ Queue(toAgent'[c])
             /\ Mail(toAgent[c]) \subseteq Mail(toAgent'[c])
             /\ Names(toAgent[c]) \subseteq Names(toAgent'[c])
             /\ Names(toAgent'[c]) \subseteq Names(toAgent[c]) \cup {"END"}
             /\ link[c] = "ok" /\ agent.conn = c /\ ServerThere(c)
                  => "END" \in Names(toAgent'[c])
             /\ ~(link[c] = "ok" /\ agent.conn = c) => toAgent'[c] = toAgent[c]
  <2> DEFINE s == toAgent[c]
             ms == <<"END">>
             p == ToAgent(c, ms)
  <2>1. Queue(s) /\ ms \in Seq(Kinds) /\ Names(Fresh(ms)) = {"END"}
    BY Sayings DEF IInv, Linked
  <2>2. toAgent'[c] = IF ServerThere(c) THEN s \o p ELSE s
    BY <1>2
  <2> HIDE DEF ms
  <2>3. /\ p \in {Fresh(ms), <<>>}
        /\ link[c] = "ok" /\ agent.conn = c => p = Fresh(ms)
        /\ ~(link[c] = "ok" /\ agent.conn = c) => p = <<>>
    BY <2>1, SentAway
  <2> HIDE DEF p
  <2>4. /\ Queue(s \o p) /\ Mail(s) \subseteq Mail(s \o p)
        /\ Names(s) \subseteq Names(s \o p)
        /\ Names(s \o p) \subseteq Names(s) \cup {"END"}
        /\ p = Fresh(ms) => Mail(s \o p) = Mail(s) \cup Mail(Fresh(ms))
        /\ p = <<>> => s \o p = s
    BY <2>1, <2>3, Put
  <2>5. p = Fresh(ms) => "END" \in Names(s \o p)
    <3>1. "END" \in Names(Fresh(ms))
      BY <2>1
    <3> QED
      BY <2>4, <3>1 DEF Names
  <2> QED
    BY <1>2, <2>1, <2>2, <2>3, <2>4, <2>5
<1>7. ASSUME NEW c \in Conns PROVE Kept(c)'
  <2>1. Kept(c) /\ srv'[c].ws = "none" /\ ~srv'[c].session
    BY <1>6, Whole DEF NoEnd
  <2>2. link[c] = "dead" => toServer'[c] = <<>> /\ toAgent'[c] = <<>>
    BY <1>6, <2>1 DEF Kept, Linked
  <2>3. Linked(c)'
    BY <1>2, <1>6, <2>1, <2>2, NoMail DEF Kept, Linked
  <2>4. Slotted(c)'
    <3>1. agent.conn # c => toAgent'[c] = <<>>
      BY <1>6, <2>1 DEF Kept, Slotted
    <3>2. agent.conn = c /\ agent.phase \in {"connecting", "hello"}
            => Names(toAgent'[c]) \cap {"TUNNEL_OK", "TUNNEL_TAKEN"} = {}
      BY <1>6, <2>1 DEF Kept, Slotted
    <3>3. holder' # c
      BY <1>1, <1>2
    <3> QED
      BY <1>2, <1>6, <2>1, <3>1, <3>2, <3>3, NoMail DEF Slotted
  <2>5. Settled(c)'
    BY <1>2, <1>6, <2>1 DEF Kept, Settled
  <2>6. Ticking(c)'
    BY <2>1 DEF Ticking
  <2> QED
    BY <2>3, <2>4, <2>5, <2>6 DEF Kept
<1>8. Queued'
  <2>1. \A c \in Conns : toAgent'[c] \in Seq(MailType) /\ <<>> \in Seq(MailType)
    BY <1>6 DEF Queue
  <2> QED
    BY <1>2, <2>1 DEF Queued
<1> QED
  BY <1>3, <1>4, <1>5, <1>6, <1>7, <1>8 DEF IInv, Kept

\* The invariant holds at the start.
LEMMA InitInv ==
  ASSUME Init
  PROVE  IInv
<1>1. /\ agent = Waiting(0, MinDelay) /\ srv = [c \in Conns |-> NoEnd] /\ holder = NoConn
      /\ link = [c \in Conns |-> "ok"] /\ deadFor = [c \in Conns |-> 0]
      /\ toServer = [c \in Conns |-> <<>>] /\ toAgent = [c \in Conns |-> <<>>]
      /\ known \in KnownTokens /\ faults = [name \in Faults |-> 0]
  BY DEF Init
<1>2. agent \in AgentType /\ agent.phase = "waiting" /\ agent.conn = NoConn
  <2>1. /\ MinDelay \in MinDelay..MaxDelay /\ "waiting" \in Phases
        /\ Off \in Int /\ Off \in UpTo(PingInterval) /\ Off \in UpTo(PingTimeout)
        /\ 0 \in 0..StableSession
    BY Numbers DEF Phases, UpTo
  <2> QED
    BY <1>1, <2>1 DEF Waiting, AgentType
<1>3. TypeOK
  <2>1. NoEnd \in EndType
    BY Numbers DEF NoEnd, EndType, UpTo
  <2>2. /\ srv \in [Conns -> EndType] /\ deadFor \in [Conns -> 0..DeadForCap]
        /\ faults \in [Faults -> 0..MaxFaults] /\ known \in BOOLEAN
    BY <1>1, <2>1, Numbers, AgentLifeAssumption
  <2> QED
    BY <1>1, <1>2, <2>2 DEF TypeOK, AgentType, EndType
<1>4. Queued
  BY <1>1 DEF Queued
<1>5. Phased
  BY <1>2 DEF Phased, Busy
<1>6. ASSUME NEW c \in Conns PROVE Kept(c)
  <2>1. /\ srv[c].ws = "none" /\ ~srv[c].session /\ holder # c
        /\ toServer[c] = <<>> /\ toAgent[c] = <<>> /\ link[c] = "ok" /\ deadFor[c] = 0
        /\ agent.conn # c
    BY <1>1, <1>2, Numbers DEF NoEnd
  <2> QED
    BY <2>1, NoMail DEF Kept, Linked, Slotted, Settled, Ticking
<1> QED
  BY <1>3, <1>4, <1>5, <1>6 DEF IInv, Kept

\* Nothing happens.
LEMMA StutterInv ==
  ASSUME IInv, UNCHANGED vars
  PROVE  IInv' /\ \A k \in Conns : Same(k)
<1>1. \A k \in Conns : Same(k)
  BY DEF vars, Same, Restarted, Occurrences
<1>2. \A k \in Conns : Kept(k)'
  BY <1>1, Whole, Elsewhere
<1>3. TypeOK' /\ Queued' /\ Phased'
  BY DEF IInv, vars, TypeOK, Queued, Phased
<1> QED
  BY <1>1, <1>2, <1>3 DEF IInv, Kept

\* The invariant is inductive.
LEMMA Inductive ==
  ASSUME IInv, [Next]_vars
  PROVE  IInv'
<1>1. CASE AgentStep \/ Refused \/ Stop
  BY <1>1, AgtInv
<1>2. ASSUME NEW c \in Conns, ServerStep(c) PROVE IInv'
  BY <1>2, SrvInv
<1>3. CASE Tick
  BY <1>3, TickInv
<1>4. ASSUME NEW c \in Conns, LinkDies(c) PROVE IInv'
  BY <1>4, DeathInv
<1>5. CASE ServerRestart
  BY <1>5, RestartInv
<1>6. CASE UNCHANGED vars
  BY <1>6, StutterInv
<1> QED
  BY <1>1, <1>2, <1>3, <1>4, <1>5, <1>6 DEF Next, System

\* The invariant holds in every state.
LEMMA Invariance == Spec => []IInv
<1>1. Init => IInv
  BY InitInv
<1>2. IInv /\ [Next]_vars => IInv'
  BY Inductive
<1> QED
  BY <1>1, <1>2, PTL DEF Spec

\* The variables have their types.
THEOREM TypeCorrect == Spec => []TypeOK
<1>1. IInv => TypeOK
  BY DEF IInv
<1> QED
  BY <1>1, Invariance, PTL

\* The server notices within one heartbeat more than it allows misses that the
\* link of a session has died.
THEOREM LossNoticed == Spec => []ServerNotices
<1>1. IInv => ServerNotices
  <2> SUFFICES ASSUME IInv, NEW c \in Conns, srv[c].ws = "open"
               PROVE  deadFor[c] <= (HeartbeatMisses + 1) * Heartbeat
    BY DEF ServerNotices
  <2> DEFINE M == HeartbeatMisses
             H == Heartbeat
             misses == srv[c].misses
             tick == srv[c].tickIn
             dead == deadFor[c]
  <2>1. /\ M \in Nat /\ H \in Nat /\ misses \in 0..M /\ tick \in -1..H /\ tick # -1
        /\ dead \in Int /\ dead <= misses * H - tick + H
    <3>1. srv[c] \in EndType /\ dead \in Nat
      BY Typed, Numbers DEF IInv
    <3>2. tick # Off /\ dead <= Silence(c) + H
      BY DEF IInv, Ticking
    <3> QED
      BY <3>1, <3>2, Numbers DEF EndType, UpTo, Silence
  <2> HIDE DEF M, H, misses, tick, dead
  <2>2. misses * H <= M * H /\ misses * H \in Int /\ M * H \in Int /\ (M + 1) * H = M * H + H
    BY <2>1
  <2>3. dead <= (M + 1) * H
    <3> DEFINE a == misses * H
               b == M * H
    <3>1. a <= b /\ a \in Int /\ b \in Int /\ (M + 1) * H = b + H /\ dead <= a - tick + H
      BY <2>1, <2>2
    <3> HIDE DEF a, b
    <3> QED
      BY <2>1, <3>1
  <2> QED
    BY <2>3 DEF M, H, dead
<1> QED
  BY <1>1, Invariance, PTL
-----------------------------------------------------------------------------
\* The two heartbeats.

\* The agent pings, and waits for the answer only so long.
Pings == PingInterval # 0 /\ PingTimeout # 0

\* The server is the patient one.
PatientServer == HeartbeatMisses * Heartbeat > PingInterval + PingTimeout + Latency

\* Numbers the clocks are made of.
LEMMA Clocks ==
  ASSUME IInv, NEW c \in Conns
  PROVE  /\ agent.pingIn \in Int /\ agent.pingIn >= -1 /\ agent.pingIn <= PingInterval
         /\ agent.pongIn \in Int /\ agent.pongIn >= -1 /\ agent.pongIn <= PingTimeout
         /\ srv[c].tickIn \in Int /\ srv[c].tickIn >= -1 /\ srv[c].tickIn <= Heartbeat
         /\ srv[c].misses \in Nat /\ srv[c].misses * Heartbeat \in Int
         /\ Silence(c) \in Int /\ deadFor[c] \in Nat
         /\ Off = -1 /\ Latency \in Nat /\ PingInterval \in Nat /\ PingTimeout \in Nat
         /\ Heartbeat \in Nat
<1>1. agent \in AgentType /\ srv[c] \in EndType /\ deadFor[c] \in Nat
  BY Typed, Numbers DEF IInv
<1>2. /\ agent.pingIn \in UpTo(PingInterval) /\ agent.pongIn \in UpTo(PingTimeout)
      /\ srv[c].tickIn \in UpTo(Heartbeat) /\ srv[c].misses \in 0..HeartbeatMisses
  BY <1>1 DEF AgentType, EndType
<1>3. srv[c].misses * Heartbeat \in Int
  <2> DEFINE m == srv[c].misses
  <2>1. m \in Int /\ Heartbeat \in Int
    BY <1>2, Numbers
  <2> HIDE DEF m
  <2>2. m * Heartbeat \in Int
    BY <2>1
  <2> QED
    BY <2>2 DEF m
<1> DEFINE n == srv[c].misses * Heartbeat
<1>4. n \in Int /\ Silence(c) = n - srv[c].tickIn
  BY <1>3 DEF Silence
<1> HIDE DEF n
<1>5. srv[c].tickIn \in Int /\ Silence(c) \in Int
  BY <1>2, <1>4, Numbers DEF UpTo
<1> QED
  BY <1>1, <1>2, <1>3, <1>5, Numbers DEF UpTo

\* The server's silence after its turn: it has heard of the agent, it has waited
\* a heartbeat and counted it, or it does not listen any more.
LEMMA SrvSilence ==
  ASSUME IInv, NEW c, NEW e, NEW ms, NEW q, SrvTurn(c, e, ms, q), SrvKind(c, e, ms, q)
  PROVE  \/ srv'[c].ws # "open"
         \/ Silence(c)' \in Int /\ Silence(c)' <= 0
         \/ /\ srv[c].ws = "open" /\ Silence(c)' = Silence(c)
            /\ ms = <<"PING">>
<1>0. /\ c \in Conns /\ Ticking(c) /\ srv[c] \in EndType
  BY Typed DEF SrvTurn, IInv
<1>1. srv'[c] = e
  BY SrvTurned
<1>2. ASSUME NEW m \in Kinds, NEW r, Reply(c, e, ms, q, m, r), e.ws = "open"
      PROVE  Silence(c)' \in Int /\ Silence(c)' <= 0
  <2>1. e.ws = srv[c].ws /\ e.tickIn = srv[c].tickIn /\ e.misses = 0
    BY <1>2 DEF Reply
  <2>2. srv[c].tickIn # Off
    BY <1>0, <1>2, <2>1 DEF Ticking
  <2>3. Silence(c)' = 0 * Heartbeat - srv[c].tickIn
    BY <1>1, <2>1 DEF Silence
  <2>4. srv[c].tickIn \in Int /\ srv[c].tickIn >= 0
    BY <1>0, <2>2, Clocks
  <2> QED
    BY <2>3, <2>4, Numbers
<1>3. CASE Over(c, e, ms, q)
  BY <1>1, <1>3 DEF Over, NoEnd
<1>4. CASE CloseBegins(c, e, ms, q)
  BY <1>0, <1>1, <1>4 DEF CloseBegins, Closing, EndType
<1>5. CASE Accepts(c, e, ms, q)
  <2>1. e.misses = 0 /\ e.tickIn = Heartbeat
    BY <1>5 DEF Accepts, NoEnd
  <2>2. Silence(c)' = 0 * Heartbeat - Heartbeat
    BY <1>1, <2>1 DEF Silence
  <2> QED
    BY <2>2, Numbers
<1>6. CASE Beats(c, e, ms, q)
  <2>1. e.misses = srv[c].misses + 1 /\ e.tickIn = Heartbeat /\ srv[c].tickIn = 0
    BY <1>0, <1>6 DEF Beats, EndType
  <2> DEFINE m == srv[c].misses
             H == Heartbeat
  <2>2. Silence(c) = m * H - 0 /\ Silence(c)' = (m + 1) * H - H /\ m \in Int /\ H \in Int
    BY <1>0, <1>1, <2>1, Clocks DEF Silence
  <2> HIDE DEF m, H
  <2>3. m * H - 0 = (m + 1) * H - H
    BY <2>2
  <2> QED
    BY <1>6, <2>2, <2>3 DEF Beats
<1>7. CASE Ignores(c, e, ms, q)
  BY <1>1, <1>7 DEF Ignores
<1> QED
  BY <1>1, <1>2, <1>3, <1>4, <1>5, <1>6, <1>7 DEF SrvKind

\* A server that has heard of the agent as late as that does not give it up.
LEMMA NotGivenUp ==
  ASSUME IInv, NEW c \in Conns, Pinged(c), Heard(c), Pings, PatientServer,
         srv[c].ws = "open", srv[c].tickIn = 0, srv[c].misses >= HeartbeatMisses
  PROVE  ~(agent.phase = "up" /\ agent.conn = c)
<1> SUFFICES ASSUME agent.phase = "up", agent.conn = c
             PROVE  FALSE
  OBVIOUS
<1>1. Silence(c) <= PingInterval + PingTimeout + Latency
  <2>1. /\ agent.pongIn = Off => Silence(c) <= PingInterval + Latency - agent.pingIn
        /\ agent.pongIn # Off => Silence(c) <= PingInterval + Latency + PingTimeout - agent.pongIn
        /\ agent.pingIn # Off
    BY DEF Heard, Pinged
  <2>2. /\ agent.pingIn \in Int /\ agent.pingIn >= -1 /\ agent.pongIn \in Int
        /\ agent.pongIn >= -1 /\ Silence(c) \in Int /\ Off = -1
        /\ Latency \in Nat /\ PingInterval \in Nat /\ PingTimeout \in Nat
    BY Clocks
  <2> DEFINE s == Silence(c)
             i == agent.pingIn
             o == agent.pongIn
  <2>3. /\ o = -1 => s <= PingInterval + Latency - i
        /\ o # -1 => s <= PingInterval + Latency + PingTimeout - o
        /\ i # -1 /\ i \in Int /\ i >= -1 /\ o \in Int /\ o >= -1 /\ s \in Int
    BY <2>1, <2>2
  <2> HIDE DEF s, i, o
  <2>4. s <= PingInterval + PingTimeout + Latency
    BY <2>2, <2>3
  <2> QED
    BY <2>4 DEF s
<1> DEFINE m == srv[c].misses
           H == Heartbeat
           M == HeartbeatMisses
<1>2. /\ m \in Nat /\ H \in Nat /\ M \in Nat /\ m >= M /\ Silence(c) = m * H - 0
      /\ M * H > PingInterval + PingTimeout + Latency
  BY Clocks, Numbers DEF Silence, PatientServer
<1>3. Silence(c) \in Int /\ PingInterval + PingTimeout + Latency \in Int
  BY Clocks
<1> HIDE DEF m, H, M
<1>4. m * H >= M * H /\ m * H \in Int /\ M * H \in Int
  BY <1>2
<1> DEFINE a == m * H
           b == M * H
           d == PingInterval + PingTimeout + Latency
           s == Silence(c)
<1>5. a >= b /\ a \in Int /\ b \in Int /\ d \in Int /\ s <= d /\ s = a - 0 /\ b > d
  BY <1>1, <1>2, <1>3, <1>4
<1> HIDE DEF a, b, d, s
<1> QED
  BY <1>5

\* The server's turns keep what is said of the two clocks and of the name.
LEMMA SrvPatient ==
  ASSUME IInv, NEW c, NEW e, NEW ms, NEW q, SrvTurn(c, e, ms, q), SrvKind(c, e, ms, q)
  PROVE  /\ Pinged(c) => Pinged(c)'
         /\ Pings /\ Pinged(c) /\ Heard(c) => Heard(c)'
         /\ Pings /\ PatientServer /\ Pinged(c) /\ Heard(c) /\ Claimed(c) => Claimed(c)'
<1>0. /\ c \in Conns /\ Slotted(c) /\ Settled(c) /\ Queue(toServer[c])
      /\ Queue(toAgent[c]) /\ Queue(toAgent'[c]) /\ agent \in AgentType
      /\ srv[c] \in EndType
  BY SrvTurned, Typed DEF SrvTurn, IInv, Linked
<1>1. /\ srv'[c] = e /\ agent' = agent /\ link' = link /\ deadFor' = deadFor
      /\ Restarted' = Restarted
  BY SrvTurned
<1>2. /\ Mail(toAgent'[c]) \subseteq Mail(toAgent[c]) \cup Mail(Fresh(ms))
      /\ Names(toAgent[c]) \subseteq Names(toAgent'[c])
      /\ Names(toAgent'[c]) \subseteq Names(toAgent[c]) \cup Names(Fresh(ms))
  BY SrvSaid
<1>3. Pinged(c) => Pinged(c)'
  BY <1>1 DEF Pinged
<1>4. ASSUME Pings, Pinged(c), Heard(c) PROVE Heard(c)'
  <2>1. CASE srv'[c].ws # "open"
    BY <2>1 DEF Heard
  <2>2. CASE Silence(c)' \in Int /\ Silence(c)' <= 0
    <3>1. \A x \in Mail(toAgent'[c]) : x.age \in Nat
      BY <1>0, MailTyped
    <3>3. agent.phase = "up" /\ agent.conn = c => agent.pingIn # Off
      BY <1>4 DEF Pinged
    <3> QED
      BY <1>0, <1>1, <2>2, <3>1, <3>3, Clocks DEF Heard
  <2>3. CASE srv[c].ws = "open" /\ Silence(c)' = Silence(c) /\ ms = <<"PING">>
    <3>1. Mail(Fresh(ms)) = {[m |-> "PING", age |-> 0]}
      BY <2>3, Sayings
    <3> QED
      BY <1>1, <1>2, <1>4, <2>3, <3>1 DEF Heard
  <2> QED
    BY <2>1, <2>2, <2>3, SrvSilence
<1>5. ASSUME Pings, PatientServer, Pinged(c), Heard(c), Claimed(c) PROVE Claimed(c)'
  <2>1. CASE holder = c => holder' = c
    <3>1. ASSUME "TUNNEL_OK" \in Names(toAgent'[c]), "TUNNEL_OK" \notin Names(toAgent[c])
          PROVE  holder' = c
      <4>1. "TUNNEL_OK" \in Names(Fresh(ms))
        BY <1>2, <3>1
      <4>2. ASSUME NEW m \in Kinds, NEW r, Reply(c, e, ms, q, m, r)
            PROVE  holder' = c
        <5>1. ms = IF r = "none" THEN <<>> ELSE <<r>>
          BY <4>2 DEF Reply
        <5>2. r \in Kinds \cup {"none"}
          BY <4>2, Sayings DEF Reply
        <5>3. r = "TUNNEL_OK"
          <6>1. CASE r = "none"
            BY <4>1, <5>1, <6>1, Sayings
          <6>2. CASE r # "none"
            BY <4>1, <5>1, <5>2, <6>2, Sayings
          <6> QED
            BY <6>1, <6>2
        <5> QED
          BY <4>2, <5>3 DEF Reply
      <4>3. ~(Over(c, e, ms, q) \/ CloseBegins(c, e, ms, q) \/ Accepts(c, e, ms, q)
              \/ Beats(c, e, ms, q) \/ Ignores(c, e, ms, q))
        BY <4>1, Sayings DEF Over, CloseBegins, Accepts, Beats, Ignores
      <4> QED
        BY <4>2, <4>3 DEF SrvKind
    <3> QED
      BY <1>1, <1>2, <1>5, <2>1, <3>1 DEF Claimed
  <2>2. CASE holder = c /\ holder' # c
    <3>1. Over(c, e, ms, q)
      BY <2>2 DEF SrvKind, Reply, CloseBegins, Accepts, Beats, Ignores
    <3>2. ASSUME agent.phase = "up", agent.conn = c PROVE FALSE
      <4>1. CASE toServer[c] # <<>> /\ Head(toServer[c]).m \in Bye
        <5>1. Head(toServer[c]).m \in Names(toServer[c])
          BY <1>0, <4>1, NoMail
        <5>2. Names(toServer[c]) \subseteq {"HELLO", "PONG", "OPEN_TUNNEL", "PING"}
          BY <1>0, <3>2 DEF Slotted, SaidIn
        <5> QED
          BY <4>1, <5>1, <5>2 DEF Bye
      <4>2. CASE srv[c].ws = "closing"
        BY <1>0, <3>2, <4>2 DEF Settled
      <4>3. CASE /\ srv[c].ws = "open" /\ srv[c].tickIn = 0
                 /\ srv[c].misses >= HeartbeatMisses
        BY <1>0, <1>5, <3>2, <4>3, NotGivenUp
      <4> QED
        BY <3>1, <4>1, <4>2, <4>3 DEF Over
    <3> QED
      BY <1>1, <3>2 DEF Claimed
  <2> QED
    BY <2>1, <2>2
<1> QED
  BY <1>3, <1>4, <1>5

\* What keeps an agent up, or makes it so.
BecomesUp(c) ==
  /\ agent.phase = "hello" /\ toAgent[c] # <<>> /\ Head(toAgent[c]).m = "HELLO_OK"
  /\ agent'.pingIn = Timer(PingInterval) /\ agent'.pongIn = agent.pongIn
  /\ agent'.tunnel = "asked"

\* It hears of its tunnel, or is pinged.
StaysUp(c) ==
  /\ agent.phase = "up" /\ toAgent[c] # <<>>
  /\ agent'.pingIn = agent.pingIn /\ agent'.pongIn = agent.pongIn
  /\ \/ /\ Head(toAgent[c]).m = "TUNNEL_OK" /\ agent'.tunnel = "ok"
     \/ /\ Head(toAgent[c]).m = "TUNNEL_TAKEN" /\ agent'.tunnel = "refused"
     \/ /\ Head(toAgent[c]).m = "PING" /\ agent'.tunnel = agent.tunnel

\* It takes a pong.
HearsPong(c) ==
  /\ agent.phase = "up" /\ toAgent[c] # <<>> /\ Head(toAgent[c]).m = "PONG"
  /\ agent'.pingIn = agent.pingIn /\ agent'.pongIn = Off
  /\ agent'.tunnel = agent.tunnel

\* It asks for one.
SendsPing(c) ==
  /\ agent.phase = "up" /\ agent.pingIn = 0 /\ agent'.pingIn = PingInterval
  /\ agent'.pongIn = IF agent.pongIn = Off THEN Timer(PingTimeout) ELSE agent.pongIn
  /\ agent'.tunnel = agent.tunnel

\* These are all the steps after which the agent is up.
LEMMA AgtUp ==
  ASSUME IInv, NEW c \in Conns, agent.conn = c, AgentOn(c), agent'.phase = "up"
  PROVE  \/ BecomesUp(c) /\ toAgent'[c] = Tail(toAgent[c])
         \/ StaysUp(c) /\ toAgent'[c] = Tail(toAgent[c])
         \/ HearsPong(c) /\ toAgent'[c] = Tail(toAgent[c])
         \/ SendsPing(c) /\ toAgent'[c] = toAgent[c]
<1>1. agent \in AgentType /\ Queued /\ NoConn \notin Conns
  BY Typed, Numbers DEF IInv
<1>2. /\ ~SessionTimeout /\ ~PongDeadline /\ ~Refused /\ ~OnRejected(c) /\ ~OnClose(c)
      /\ ~(Stop /\ agent.phase = "connecting")
  <2>1. ASSUME \/ SessionTimeout \/ PongDeadline \/ OnRejected(c) \/ OnClose(c)
               \/ Refused
               \/ Stop /\ agent.phase = "connecting"
        PROVE  FALSE
    <3>1. \E q, p : Leaves(c, q, p)
      BY <2>1, AgtLeaves
    <3> QED
      BY <3>1 DEF Leaves
  <2> QED
    BY <2>1
<1>3. ~(Stop /\ agent.phase # "waiting")
  BY <1>1, <1>2 DEF Stop, AgentType
<1>4. ~OnOpen(c) /\ ~OnLate(c)
  BY <1>1 DEF OnOpen, OnLate, AgentType
<1>5. ASSUME NEW ms, AgentTakes(c, ms) PROVE toAgent'[c] = Tail(toAgent[c])
  BY <1>1, <1>5 DEF AgentTakes, Queued
<1>6. CASE OnHelloOk(c)
  <2>1. BecomesUp(c)
    BY <1>1, <1>6 DEF OnHelloOk, Message, BecomesUp, AgentType
  <2>2. toAgent'[c] = Tail(toAgent[c])
    BY <1>5, <1>6 DEF OnHelloOk
  <2> QED
    BY <2>1, <2>2
<1>7. CASE OnTunnelReply(c)
  <2>1. StaysUp(c)
    BY <1>1, <1>7 DEF OnTunnelReply, Message, StaysUp, AgentType
  <2>2. toAgent'[c] = Tail(toAgent[c])
    BY <1>5, <1>7 DEF OnTunnelReply
  <2> QED
    BY <2>1, <2>2
<1>8. CASE OnPing(c)
  <2>1. StaysUp(c)
    BY <1>8 DEF OnPing, Message, StaysUp
  <2>2. toAgent'[c] = Tail(toAgent[c])
    BY <1>5, <1>8 DEF OnPing
  <2> QED
    BY <2>1, <2>2
<1>9. CASE OnPong(c)
  <2>1. HearsPong(c)
    BY <1>1, <1>9 DEF OnPong, Message, HearsPong, AgentType
  <2>2. toAgent'[c] = Tail(toAgent[c])
    BY <1>5, <1>9 DEF OnPong
  <2> QED
    BY <2>1, <2>2
<1>10. CASE PingDue
  <2>1. SendsPing(c) /\ toAgent' = toAgent
    BY <1>1, <1>10 DEF PingDue, SendsPing, AgentType
  <2> QED
    BY <2>1
<1> QED
  BY <1>2, <1>3, <1>4, <1>6, <1>7, <1>8, <1>9, <1>10 DEF AgentOn

\* The agent's turns keep what is said of the two clocks and of the name.
LEMMA AgtPatient ==
  ASSUME IInv, NEW c \in Conns, agent.conn = c, AgentOn(c), Pings
  PROVE  /\ Pinged(c) => Pinged(c)'
         /\ Pinged(c) /\ Heard(c) => Heard(c)'
         /\ Claimed(c) => Claimed(c)'
<1>1. PICK q, p : AgtTurn(c, q, p)
  BY AgtOnKept
<1>2. /\ srv' = srv /\ link' = link /\ deadFor' = deadFor /\ holder' = holder
      /\ Restarted => Restarted'
      /\ Mail(toAgent'[c]) \subseteq Mail(toAgent[c])
      /\ Silence(c)' = Silence(c)
      /\ Queue(toAgent[c])
  BY <1>1, AgtTurned DEF AgtTurn, Silence, IInv, Linked
<1>3. /\ agent.pingIn \in Int /\ agent.pingIn >= -1 /\ agent.pingIn <= PingInterval
      /\ agent.pongIn \in Int /\ agent.pongIn >= -1 /\ agent.pongIn <= PingTimeout
      /\ Silence(c) \in Int /\ deadFor[c] \in Nat
      /\ Off = -1 /\ Latency \in Nat /\ PingInterval \in Nat /\ PingTimeout \in Nat
      /\ PingInterval # 0 /\ PingTimeout # 0
      /\ Timer(PingInterval) = PingInterval /\ Timer(PingTimeout) = PingTimeout
  BY Clocks DEF Pings, Timer
<1>4. CASE ~(agent'.phase = "up" /\ agent'.conn = c)
  BY <1>2, <1>4 DEF Pinged, Heard, Claimed
<1>5. CASE agent'.phase = "up" /\ agent'.conn = c
  <2>1. toAgent[c] # <<>> => /\ deadFor[c] = 0
                             /\ Head(toAgent[c]) \in Mail(toAgent[c])
                             /\ Head(toAgent[c]).age <= Latency
                             /\ Head(toAgent[c]).age \in Nat
                             /\ Mail(toAgent[c]) = Mail(Tail(toAgent[c])) \cup {Head(toAgent[c])}
    <3>1. toAgent[c] # <<>> => link[c] = "ok" /\ deadFor[c] = 0
      BY Typed DEF IInv, Linked
    <3>2. toAgent[c] # <<>> => Head(toAgent[c]) \in Mail(toAgent[c])
      BY <1>2, NoMail
    <3> QED
      BY <1>2, <3>1, <3>2, MailTyped, MailTaken
  <2>2. CASE BecomesUp(c) /\ toAgent'[c] = Tail(toAgent[c])
    <3>1. Pinged(c)'
      BY <1>2, <1>3, <2>1, <2>2 DEF Pinged, BecomesUp
    <3>2. ASSUME Heard(c) PROVE Heard(c)'
      <4>1. srv[c].ws = "open" => Silence(c) <= Head(toAgent[c]).age
        BY <2>1, <2>2, <3>2 DEF Heard, BecomesUp
      <4>2. agent'.pingIn = PingInterval /\ agent'.pongIn = agent.pongIn
        BY <1>3, <2>2 DEF BecomesUp
      <4>3. srv[c].ws = "open" =>
              /\ Silence(c) <= PingInterval + Latency - PingInterval
              /\ Silence(c) <= PingInterval + Latency + PingTimeout - agent.pongIn
        <5>1. /\ toAgent[c] # <<>>
          BY <2>2 DEF BecomesUp
        <5>2. /\ srv[c].ws = "open" => Silence(c) <= Latency
          BY <1>3, <2>1, <4>1, <5>1
        <5> QED
          BY <1>3, <5>2
      <4> QED
        BY <1>2, <3>2, <4>2, <4>3 DEF Heard
    <3>3. Claimed(c)'
      <4>1. "TUNNEL_OK" \notin Names(toAgent[c])
        BY <2>2 DEF BecomesUp, IInv, Slotted
      <4>2. "TUNNEL_OK" \notin Names(toAgent'[c])
        BY <1>2, <4>1 DEF Names
      <4> QED
        BY <2>2, <4>2 DEF Claimed, BecomesUp
    <3> QED
      BY <3>1, <3>2, <3>3
  <2>3. CASE StaysUp(c) /\ toAgent'[c] = Tail(toAgent[c])
    <3>1. Pinged(c) => Pinged(c)'
      BY <1>2, <2>3 DEF Pinged, StaysUp
    <3>2. Heard(c) => Heard(c)'
      BY <1>2, <2>3 DEF Heard, StaysUp
    <3>3. Claimed(c) => Claimed(c)'
      <4>1. /\ Names(toAgent[c]) = Names(Tail(toAgent[c])) \cup {Head(toAgent[c]).m}
            /\ Head(toAgent[c]).m \notin Bye
        BY <2>1, <2>3 DEF Names, StaysUp, Bye
      <4> QED
        BY <1>2, <2>3, <4>1 DEF Claimed, StaysUp
    <3> QED
      BY <3>1, <3>2, <3>3
  <2>4. CASE HearsPong(c) /\ toAgent'[c] = Tail(toAgent[c])
    <3>1. Pinged(c) => Pinged(c)'
      BY <1>2, <1>3, <2>1, <2>4 DEF Pinged, HearsPong
    <3>2. ASSUME Heard(c) PROVE Heard(c)'
      <4>1. srv[c].ws = "open" => Silence(c) <= Head(toAgent[c]).age
        BY <2>1, <2>4, <3>2 DEF Heard, HearsPong
      <4>2. srv[c].ws = "open" => Silence(c) <= PingInterval + Latency - agent.pingIn
        BY <1>3, <2>1, <2>4, <4>1 DEF HearsPong
      <4> QED
        BY <1>2, <2>4, <3>2, <4>2 DEF Heard, HearsPong
    <3>3. Claimed(c) => Claimed(c)'
      <4>1. /\ Names(toAgent[c]) = Names(Tail(toAgent[c])) \cup {Head(toAgent[c]).m}
            /\ Head(toAgent[c]).m \notin Bye
        BY <2>1, <2>4 DEF Names, HearsPong, Bye
      <4> QED
        BY <1>2, <2>4, <4>1 DEF Claimed, HearsPong
    <3> QED
      BY <3>1, <3>2, <3>3
  <2>5. CASE SendsPing(c) /\ toAgent'[c] = toAgent[c]
    <3>1. Pinged(c) => Pinged(c)'
      BY <1>2, <1>3, <2>5 DEF Pinged, SendsPing
    <3>2. ASSUME Heard(c) PROVE Heard(c)'
      <4>1. agent'.pongIn # Off
        BY <1>3, <2>5 DEF SendsPing
      <4>2. srv[c].ws = "open" =>
              Silence(c) <= PingInterval + Latency + PingTimeout - agent'.pongIn
        <5>1. CASE agent.pongIn = Off
          BY <1>3, <2>5, <3>2, <5>1 DEF Heard, SendsPing
        <5>2. CASE agent.pongIn # Off
          BY <1>3, <2>5, <3>2, <5>2 DEF Heard, SendsPing
        <5> QED
          BY <5>1, <5>2
      <4> QED
        BY <1>2, <2>5, <3>2, <4>1, <4>2 DEF Heard
    <3>3. Claimed(c) => Claimed(c)'
      BY <1>2, <2>5 DEF Claimed, SendsPing
    <3> QED
      BY <3>1, <3>2, <3>3
  <2> QED
    BY <1>5, <2>2, <2>3, <2>4, <2>5, AgtUp
<1> QED
  BY <1>4, <1>5

\* Time keeps it.
LEMMA TickPatient ==
  ASSUME IInv, Tick, NEW c \in Conns
  PROVE  /\ Pinged(c) => Pinged(c)'
         /\ Pinged(c) /\ Heard(c) => Heard(c)'
         /\ Claimed(c) => Claimed(c)'
<1>1. /\ agent'.phase = agent.phase /\ agent'.conn = agent.conn
      /\ agent'.tunnel = agent.tunnel
      /\ agent.pingIn # 0 /\ agent.pongIn # 0
      /\ agent \in AgentType
      /\ agent'.pingIn = Elapse(agent.pingIn) /\ agent'.pongIn = Elapse(agent.pongIn)
  BY AgentTicked
<1>2. /\ agent.pingIn \in UpTo(PingInterval) /\ agent.pongIn \in UpTo(PingTimeout)
      /\ PingInterval \in Nat /\ PingTimeout \in Nat /\ Latency \in Nat /\ Off = -1
  BY <1>1, Numbers DEF AgentType
<1>3. /\ agent.pingIn # Off => agent'.pingIn = agent.pingIn - 1 /\ agent'.pingIn # Off
      /\ agent.pongIn # Off => agent'.pongIn = agent.pongIn - 1 /\ agent'.pongIn # Off
      /\ agent.pongIn = Off => agent'.pongIn = Off
  BY <1>1, <1>2, Elapsed
<1>4. agent.pingIn \in Int /\ agent.pongIn \in Int
  BY <1>2 DEF UpTo
<1>5. /\ deadFor[c] \in Int /\ deadFor'[c] \in Int /\ deadFor'[c] <= deadFor[c] + 1
      /\ srv'[c].ws = srv[c].ws /\ toAgent'[c] = Older(toAgent[c])
      /\ Queue(toAgent[c]) /\ ~Overdue(toAgent[c])
      /\ link' = link /\ holder' = holder /\ (Restarted => Restarted')
  <2>1. link' = link /\ holder' = holder /\ faults' = faults
    BY DEF Tick
  <2>2. Restarted => Restarted'
    BY <2>1 DEF Restarted, Occurrences
  <2>3. /\ deadFor[c] \in Nat /\ deadFor'[c] \in 0..DeadForCap
        /\ deadFor'[c] <= deadFor[c] + 1
        /\ srv'[c].ws = srv[c].ws /\ toAgent'[c] = Older(toAgent[c])
        /\ Queue(toAgent[c]) /\ ~Overdue(toAgent[c])
    BY Ticked
  <2> QED
    BY <2>1, <2>2, <2>3
<1>6. /\ Mail(toAgent'[c]) = {[x EXCEPT !.age = @ + 1] : x \in Mail(toAgent[c])}
      /\ Names(toAgent'[c]) = Names(toAgent[c])
  BY <1>5, MailOlder
<1>7. Pinged(c) => Pinged(c)'
  BY <1>1, <1>2, <1>3, <1>4, <1>5 DEF Pinged
<1>8. ASSUME Pinged(c), Heard(c), srv'[c].ws = "open" PROVE Heard(c)'
  <2>1. Silence(c) \in Int /\ Silence(c)' = Silence(c) + 1 /\ srv[c].ws = "open"
    BY <1>5, <1>8, SilenceGrows
  <2>2. ASSUME NEW y \in Mail(toAgent'[c]), y.m \in {"PONG", "HELLO_OK"}
        PROVE  Silence(c)' <= y.age
    <3>1. PICK x \in Mail(toAgent[c]) : y = [x EXCEPT !.age = @ + 1]
      BY <1>6, <2>2
    <3>2. x \in MailType /\ x.age \in Nat
      BY <1>5, MailTyped
    <3>3. y.m = x.m /\ y.age = x.age + 1
      BY <3>1, <3>2 DEF MailType
    <3>4. Silence(c) <= x.age
      BY <1>8, <2>1, <2>2, <3>3 DEF Heard
    <3> QED
      BY <2>1, <3>2, <3>3, <3>4
  <2>3. agent.phase = "up" /\ agent.conn = c =>
          /\ agent.pingIn # Off
          /\ agent.pongIn = Off => Silence(c) <= PingInterval + Latency - agent.pingIn
          /\ agent.pongIn # Off
               => Silence(c) <= PingInterval + Latency + PingTimeout - agent.pongIn
    BY <1>8, <2>1 DEF Heard, Pinged
  <2>4. agent.phase = "up" /\ agent.conn = c =>
          /\ agent'.pongIn = Off => Silence(c)' <= PingInterval + Latency - agent'.pingIn
          /\ agent'.pongIn # Off
               => Silence(c)' <= PingInterval + Latency + PingTimeout - agent'.pongIn
    BY <1>2, <1>3, <1>4, <2>1, <2>3
  <2> QED
    BY <1>1, <2>2, <2>4 DEF Heard
<1>9. srv'[c].ws # "open" => Heard(c)'
  BY DEF Heard
<1>10. Claimed(c) => Claimed(c)'
  BY <1>1, <1>5, <1>6 DEF Claimed
<1> QED
  BY <1>7, <1>8, <1>9, <1>10

\* And so does everything else.
LEMMA RestPatient ==
  ASSUME IInv, NEW c \in Conns,
         \/ StartSession
         \/ StopWaiting \/ (Stop /\ agent.phase = "waiting")
         \/ \E k \in Conns : LinkDies(k)
         \/ ServerRestart
         \/ UNCHANGED vars
  PROVE  /\ Pinged(c) => Pinged(c)'
         /\ Heard(c) => Heard(c)'
         /\ Claimed(c) => Claimed(c)'
<1>1. ASSUME Same(c)
      PROVE  /\ Pinged(c) => Pinged(c)'
             /\ Heard(c) => Heard(c)'
             /\ Claimed(c) => Claimed(c)'
  BY <1>1, Elsewhere
<1>2. CASE StartSession
  <2>1. PICK k \in Conns : Opens(k) /\ \A j \in Conns : j # k => Same(j)
    BY <1>2, AgtOpens
  <2>2. CASE c = k
    <3>1. agent'.phase = "connecting" /\ srv'[c].ws = "none"
      BY <2>1, <2>2, Typed DEF Opens, IInv, AgentType
    <3> QED
      BY <3>1 DEF Pinged, Heard, Claimed
  <2> QED
    BY <1>1, <2>1, <2>2
<1>3. CASE StopWaiting \/ (Stop /\ agent.phase = "waiting")
  BY <1>1, <1>3, AgtIdles
<1>4. ASSUME NEW k \in Conns, LinkDies(k)
      PROVE  /\ Pinged(c) => Pinged(c)'
             /\ Heard(c) => Heard(c)'
             /\ Claimed(c) => Claimed(c)'
  <2>1. /\ \A j \in Conns : j # k => Same(j)
        /\ UNCHANGED <<agent, srv, holder, deadFor, known>>
        /\ link'[k] = "dead" /\ toAgent'[k] = <<>> /\ link[k] = "ok"
        /\ Restarted => Restarted'
    BY <1>4, DeathInv
  <2>2. CASE c = k
    <3>1. Pinged(c) => Pinged(c)'
      BY <2>1 DEF Pinged
    <3>2. Heard(c) => Heard(c)'
      BY <2>1, <2>2, NoMail DEF Heard, Silence
    <3>3. Claimed(c) => Claimed(c)'
      BY <2>1, <2>2, NoMail DEF Claimed
    <3> QED
      BY <3>1, <3>2, <3>3
  <2> QED
    BY <1>1, <2>1, <2>2
<1>5. CASE ServerRestart
  <2>1. /\ Restarted' /\ srv'[c] = NoEnd
        /\ Names(toAgent[c]) \subseteq Names(toAgent'[c])
        /\ Names(toAgent'[c]) \subseteq Names(toAgent[c]) \cup {"END"}
        /\ link[c] = "ok" /\ agent.conn = c /\ ServerThere(c) => "END" \in Names(toAgent'[c])
    BY <1>5, RestartInv
  <2>2. /\ UNCHANGED <<agent, link, deadFor>> /\ link[c] \in {"ok", "dead"} /\ Slotted(c)
    BY <1>5, Typed DEF ServerRestart, IInv
  <2>3. Pinged(c) => Pinged(c)'
    BY <2>2 DEF Pinged
  <2>4. Heard(c)'
    BY <2>1 DEF Heard, NoEnd
  <2>5. ~ServerThere(c) => holder # c
    BY <2>2 DEF ServerThere, Slotted
  <2>6. Claimed(c) => Claimed(c)'
    <3>1. "END" \in Bye
      BY DEF Bye
    <3> QED
      BY <2>1, <2>2, <2>5, <3>1 DEF Claimed
  <2> QED
    BY <2>3, <2>4, <2>6
<1>6. CASE UNCHANGED vars
  BY <1>1, <1>6, StutterInv
<1> QED
  BY <1>2, <1>3, <1>4, <1>5, <1>6

\* A step of the system, whatever it is.
LEMMA StepPatient ==
  ASSUME IInv, [Next]_vars, NEW c \in Conns, Pings
  PROVE  /\ Pinged(c) => Pinged(c)'
         /\ Pinged(c) /\ Heard(c) => Heard(c)'
         /\ PatientServer /\ Pinged(c) /\ Heard(c) /\ Claimed(c) => Claimed(c)'
<1>1. ASSUME Same(c)
      PROVE  /\ Pinged(c) => Pinged(c)'
             /\ Heard(c) => Heard(c)'
             /\ Claimed(c) => Claimed(c)'
  BY <1>1, Elsewhere
<1>2. ASSUME NEW k \in Conns, agent.conn = k, AgentOn(k)
      PROVE  /\ Pinged(c) => Pinged(c)'
             /\ Pinged(c) /\ Heard(c) => Heard(c)'
             /\ Claimed(c) => Claimed(c)'
  <2>1. CASE c = k
    BY <1>2, <2>1, AgtPatient
  <2>2. CASE c # k
    <3>1. PICK q, p : AgtTurn(k, q, p)
      BY <1>2, AgtOnKept
    <3>2. Same(c)
      BY <2>2, <3>1, AgtTurned
    <3> QED
      BY <1>1, <3>2
  <2> QED
    BY <2>1, <2>2
<1>3. ASSUME NEW k \in Conns, ServerStep(k)
      PROVE  /\ Pinged(c) => Pinged(c)'
             /\ Pinged(c) /\ Heard(c) => Heard(c)'
             /\ PatientServer /\ Pinged(c) /\ Heard(c) /\ Claimed(c) => Claimed(c)'
  <2>1. PICK e, ms, q : SrvTurn(k, e, ms, q) /\ SrvKind(k, e, ms, q)
    BY <1>3, SrvStepKind
  <2>2. CASE c = k
    BY <2>1, <2>2, SrvPatient
  <2>3. CASE c # k
    <3>1. Same(c)
      BY <2>1, <2>3, SrvTurned
    <3> QED
      BY <1>1, <3>1
  <2> QED
    BY <2>2, <2>3
<1>4. CASE Tick
  BY <1>4, TickPatient
<1> QED
  BY <1>2, <1>3, <1>4, AgtSplit, RestPatient DEF Next, System

\* In the beginning there is no session.
LEMMA InitPatient ==
  ASSUME Init, NEW c \in Conns
  PROVE  Pinged(c) /\ Heard(c) /\ Claimed(c)
  BY DEF Init, Waiting, NoEnd, Pinged, Heard, Claimed

\* An agent that is up notices within an interval and a timeout of its own pings
\* that the link of its session has died.
THEOREM AgentNoticesLoss ==
  ASSUME Pings
  PROVE  Spec => []AgentNotices
<1> DEFINE AInv == IInv /\ \A c \in Conns : Pinged(c)
<1>1. Init => AInv
  BY InitInv, InitPatient
<1>2. AInv /\ [Next]_vars => AInv'
  <2> SUFFICES ASSUME AInv, [Next]_vars PROVE AInv'
    OBVIOUS
  <2>1. ASSUME NEW c \in Conns PROVE Pinged(c)'
    BY <2>1, StepPatient
  <2> QED
    BY <2>1, Inductive
<1>3. AInv => AgentNotices
  <2> SUFFICES ASSUME IInv, \A c \in Conns : Pinged(c), agent.phase = "up"
               PROVE  deadFor[agent.conn] <= PingInterval + PingTimeout
    BY DEF AgentNotices
  <2>1. PICK c \in Conns : agent.conn = c
    BY Typed DEF IInv, AgentType, Phased, Busy
  <2>2. /\ agent.pingIn # Off
        /\ agent.pongIn = Off => deadFor[c] <= PingInterval - agent.pingIn
        /\ agent.pongIn # Off => deadFor[c] <= PingInterval + PingTimeout - agent.pongIn
    BY <2>1 DEF Pinged
  <2>3. /\ agent.pingIn \in Int /\ agent.pingIn >= -1 /\ agent.pongIn \in Int
        /\ agent.pongIn >= -1 /\ deadFor[c] \in Nat /\ Off = -1
        /\ PingInterval \in Nat /\ PingTimeout \in Nat
    BY Clocks
  <2> QED
    BY <2>1, <2>2, <2>3
<1> HIDE DEF AInv
<1> QED
  BY <1>1, <1>2, <1>3, PTL DEF Spec

\* As long as an agent believes that its tunnel is up, the server routes the
\* name to it, whether the link between them lives or not, unless the server has
\* been restarted behind a dead link or has said goodbye.
THEOREM NameKept ==
  ASSUME Pings, PatientServer
  PROVE  Spec => []NameFollowsAgent
<1> DEFINE NInv == IInv /\ Patient
<1>1. Init => NInv
  BY InitInv, InitPatient DEF Patient
<1>2. NInv /\ [Next]_vars => NInv'
  <2> SUFFICES ASSUME NInv, [Next]_vars PROVE NInv'
    OBVIOUS
  <2>1. ASSUME NEW c \in Conns PROVE Pinged(c)' /\ Heard(c)' /\ Claimed(c)'
    BY <2>1, StepPatient DEF Patient
  <2> QED
    BY <2>1, Inductive DEF Patient
<1>3. NInv => NameFollowsAgent
  <2> SUFFICES ASSUME IInv, Patient, agent.phase = "up", agent.tunnel = "ok"
               PROVE  \/ holder = agent.conn
                      \/ EndComing(agent.conn)
                      \/ link[agent.conn] = "dead" /\ Restarted
    BY DEF NameFollowsAgent
  <2>1. PICK c \in Conns : agent.conn = c
    BY Typed DEF IInv, AgentType, Phased, Busy
  <2>2. \/ holder = c
        \/ Restarted /\ (link[c] = "dead" \/ Names(toAgent[c]) \cap Bye # {})
    BY <2>1 DEF Patient, Claimed
  <2>3. Names(toAgent[c]) \cap Bye # {} => EndComing(c)
    BY DEF Names, Mail, Bye, EndComing
  <2> QED
    BY <2>1, <2>2, <2>3
<1> HIDE DEF NInv
<1> QED
  BY <1>1, <1>2, <1>3, PTL DEF Spec
-----------------------------------------------------------------------------
\* Turns of the agent, by what the two queues become.

\* Message a, or none, goes to the server behind what was there.
Adds(c, a) ==
  /\ Queue(toServer[c]) /\ Queue(toServer'[c])
  /\ Mail(toServer[c]) \subseteq Mail(toServer'[c])
  /\ Names(toServer[c]) \subseteq Names(toServer'[c])
  /\ Names(toServer'[c]) \subseteq Names(toServer[c]) \cup {a}
  /\ srv[c].ws = "none" /\ toServer[c] = <<>> => toServer'[c] = <<>>
  /\ a # "none" /\ link[c] = "ok" /\ (srv[c].ws # "none" \/ toServer[c] # <<>>)
       => a \in Names(toServer'[c])

\* A message of one of these kinds is read.
Reads(c, kinds) ==
  /\ toAgent[c] # <<>> /\ Head(toAgent[c]).m \in kinds
  /\ toAgent'[c] = Tail(toAgent[c])

ReadsNone(c) == toAgent'[c] = toAgent[c]

\* The agent's moves on its connection.
GoesAway(c) ==
  /\ agent'.conn = NoConn /\ agent'.phase \notin Busy /\ toAgent'[c] = <<>>
  /\ \/ \E last \in Bye : Adds(c, last)
     \/ srv[c].ws = "none" /\ toServer'[c] = <<>>

\* 'open': HELLO.
SaysHello(c) ==
  /\ agent.phase = "connecting" /\ agent'.phase = "hello" /\ agent'.conn = c
  /\ agent'.timer = HandshakeTimeout
  /\ Adds(c, "HELLO") /\ Reads(c, {"ACCEPTED"})

\* HELLO_OK: the tunnel.
AsksTunnel(c) ==
  /\ agent.phase = "hello" /\ agent'.phase = "up" /\ agent'.conn = c
  /\ agent'.pongIn = agent.pongIn
  /\ Adds(c, "OPEN_TUNNEL") /\ Reads(c, {"HELLO_OK"})

\* The answer about the tunnel.
HearsReply(c) ==
  /\ agent.phase = "up" /\ agent'.phase = "up" /\ agent'.conn = c
  /\ agent'.pongIn = agent.pongIn
  /\ Adds(c, "none") /\ Reads(c, {"TUNNEL_OK", "TUNNEL_TAKEN"})

\* A pong for a ping.
AnswersPing(c) ==
  /\ agent.phase \in {"hello", "up"} /\ agent' = agent
  /\ Adds(c, "PONG") /\ Reads(c, {"PING"})

\* The pong it waited for.
TakesPong(c) ==
  /\ agent.phase = "up" /\ agent'.phase = "up" /\ agent'.pongIn = Off /\ agent'.conn = c
  /\ Adds(c, "none") /\ Reads(c, {"PONG"})

\* A message that comes too late to matter.
ReadsLate(c) ==
  /\ agent.phase = "closing" /\ agent'.phase = "closing" /\ agent'.conn = c
  /\ Adds(c, "none")

\* A ping of its own.
AsksPong(c) ==
  /\ agent.phase = "up" /\ agent'.phase = "up" /\ agent'.conn = c
  /\ agent'.pongIn = IF agent.pongIn = Off THEN Timer(PingTimeout) ELSE agent.pongIn
  /\ Adds(c, "PING") /\ ReadsNone(c)

\* stop().
SaysBye(c) ==
  /\ agent.phase \in {"hello", "up"} /\ agent'.phase = "closing" /\ agent'.conn = c
  /\ Adds(c, "CLOSE") /\ ReadsNone(c)

\* Any of them.
Move(c) ==
  \/ GoesAway(c) \/ SaysHello(c) \/ AsksTunnel(c) \/ HearsReply(c) \/ AnswersPing(c)
  \/ TakesPong(c) \/ ReadsLate(c) \/ AsksPong(c) \/ SaysBye(c)

\* Every step of an agent with a connection is one of these moves.
LEMMA AgtMoves ==
  ASSUME IInv, NEW c \in Conns, agent.conn = c, AgentOn(c)
  PROVE  /\ Move(c)
         /\ agent.phase \in Busy /\ srv' = srv /\ link' = link /\ deadFor' = deadFor
         /\ Queue(toServer'[c]) /\ Queue(toAgent[c]) /\ Queue(toAgent'[c])
         /\ Mail(toAgent'[c]) \subseteq Mail(toAgent[c])
         /\ Silence(c)' = Silence(c)
<1>1. PICK q, p : AgtTurn(c, q, p)
  BY AgtOnKept
<1>2. /\ srv' = srv /\ link' = link /\ deadFor' = deadFor
      /\ Queue(toServer'[c]) /\ Queue(toAgent'[c]) /\ agent.phase \in Busy
      /\ Mail(toAgent'[c]) \subseteq Mail(toAgent[c])
      /\ Queue(toServer[c]) /\ Queue(toAgent[c]) /\ agent \in AgentType
      /\ NoConn \notin Conns /\ Queued
  BY <1>1, AgtTurned, Typed, Numbers DEF AgtTurn, IInv, Linked
<1>15. Silence(c)' = Silence(c)
  BY <1>2 DEF Silence
<1> SUFFICES Move(c)
  BY <1>2, <1>15
<1>3. ASSUME NEW a \in {"HELLO", "OPEN_TUNNEL", "PONG", "PING", "CLOSE", "END"},
             toServer'[c] = SayTo(c, <<a>>)
      PROVE  Adds(c, a)
  <2> DEFINE ms == <<a>>
             s == SayTo(c, ms)
  <2>1. ms \in Seq(Kinds) /\ Names(Fresh(ms)) = {a} /\ "CONNECT" \notin Names(Fresh(ms))
    BY Sayings
  <2>2. s = SayTo(c, ms) /\ toServer'[c] = s
    BY <1>3
  <2> HIDE DEF ms, s
  <2>3. /\ Mail(toServer[c]) \subseteq Mail(s) /\ Names(toServer[c]) \subseteq Names(s)
        /\ Names(s) \subseteq Names(toServer[c]) \cup Names(Fresh(ms))
        /\ ~ServerThere(c) => s = <<>>
        /\ link[c] = "ok" /\ ServerThere(c)
             => Names(s) = Names(toServer[c]) \cup Names(Fresh(ms))
    BY <2>1, <2>2, AgtSaid
  <2> QED
    BY <1>2, <2>1, <2>2, <2>3 DEF Adds, ServerThere
<1>4. ASSUME toServer'[c] = SayTo(c, <<>>)
      PROVE  Adds(c, "none")
  <2> DEFINE ms == <<>>
             s == SayTo(c, ms)
  <2>1. ms \in Seq(Kinds) /\ "CONNECT" \notin Names(Fresh(ms)) /\ Names(Fresh(ms)) = {}
    BY Sayings
  <2>2. s = SayTo(c, ms) /\ toServer'[c] = s
    BY <1>4
  <2> HIDE DEF ms, s
  <2>3. /\ Mail(toServer[c]) \subseteq Mail(s) /\ Names(toServer[c]) \subseteq Names(s)
        /\ Names(s) \subseteq Names(toServer[c]) \cup Names(Fresh(ms))
        /\ ~ServerThere(c) => s = <<>>
    BY <2>1, <2>2, AgtSaid
  <2> QED
    BY <1>2, <2>1, <2>2, <2>3 DEF Adds, ServerThere
<1>5. ASSUME NEW ms, NEW r, Stays(c, ms, r)
      PROVE  toServer'[c] = SayTo(c, ms) /\ toAgent'[c] = r /\ agent'.conn = c
  BY <1>2, <1>5 DEF Stays, AgtTurn, Queued
<1>6. Handles(c)
  BY AgtHandles
<1>7. CASE \/ SessionTimeout \/ PongDeadline \/ OnRejected(c) \/ OnClose(c)
           \/ Refused
           \/ Stop /\ agent.phase = "connecting"
  <2>1. PICK w, r : /\ AgtTurn(c, w, r) /\ Leaves(c, w, r)
                    /\ \/ \E last \in Bye : w = SayTo(c, <<last>>)
                       \/ srv[c].ws = "none" /\ w = <<>> /\ "CONNECT" \in Names(toServer[c])
    BY <1>7, AgtLeaves
  <2>2. toServer'[c] = w /\ toAgent'[c] = <<>> /\ agent'.conn = NoConn /\ agent'.phase \notin Busy
    BY <2>1, AgtTurned DEF Leaves, Busy
  <2>3. ASSUME NEW last \in Bye, w = SayTo(c, <<last>>) PROVE Adds(c, last)
    BY <1>3, <2>2, <2>3 DEF Bye
  <2>4. GoesAway(c)
    BY <2>1, <2>2, <2>3 DEF GoesAway
  <2> QED
    BY <2>4 DEF Move
<1>8. CASE OnOpen(c)
  <2>1. toServer'[c] = SayTo(c, <<"HELLO">>) /\ toAgent'[c] = Tail(toAgent[c]) /\ agent'.conn = c
    BY <1>5, <1>6, <1>8 DEF Handles
  <2>2. Adds(c, "HELLO")
    BY <1>3, <2>1
  <2> QED
    <3>1. SaysHello(c)
      BY <1>2, <1>8, <2>1, <2>2 DEF OnOpen, Message, SaysHello, Reads, AgentType
    <3> QED
      BY <3>1 DEF Move
<1>9. CASE OnHelloOk(c)
  <2>1. /\ toServer'[c] = SayTo(c, <<"OPEN_TUNNEL">>) /\ toAgent'[c] = Tail(toAgent[c])
        /\ agent'.conn = c
    BY <1>5, <1>6, <1>9 DEF Handles
  <2>2. Adds(c, "OPEN_TUNNEL")
    BY <1>3, <2>1
  <2> QED
    <3>1. AsksTunnel(c)
      BY <1>2, <1>9, <2>1, <2>2 DEF OnHelloOk, Message, AsksTunnel, Reads, AgentType
    <3> QED
      BY <3>1 DEF Move
<1>10. CASE OnTunnelReply(c) \/ OnPong(c) \/ OnLate(c)
  <2>1. toServer'[c] = SayTo(c, <<>>) /\ toAgent'[c] = Tail(toAgent[c]) /\ agent'.conn = c
    BY <1>5, <1>6, <1>10 DEF Handles
  <2>2. Adds(c, "none")
    BY <1>4, <2>1
  <2>3. ASSUME OnTunnelReply(c) PROVE HearsReply(c)
    <3>1. /\ agent.phase = "up" /\ agent'.phase = "up" /\ agent'.pongIn = agent.pongIn
      BY <1>2, <2>3 DEF OnTunnelReply, AgentType
    <3>2. Reads(c, {"TUNNEL_OK", "TUNNEL_TAKEN"})
      BY <2>1, <2>3 DEF OnTunnelReply, Message, Reads
    <3> QED
      BY <2>1, <2>2, <3>1, <3>2 DEF HearsReply
  <2>4. ASSUME OnPong(c) PROVE TakesPong(c)
    <3>1. TakesPong(c)
      BY <1>2, <2>1, <2>2, <2>4 DEF OnPong, Message, TakesPong, Reads, AgentType
    <3> QED
      BY <3>1
  <2>5. ASSUME OnLate(c) PROVE ReadsLate(c)
    <3>1. ReadsLate(c)
      BY <2>1, <2>2, <2>5 DEF OnLate, ReadsLate
    <3> QED
      BY <3>1
  <2> QED
    BY <1>10, <2>3, <2>4, <2>5 DEF Move
<1>11. CASE OnPing(c)
  <2>1. /\ toServer'[c] = SayTo(c, <<"PONG">>) /\ toAgent'[c] = Tail(toAgent[c])
        /\ agent'.conn = c
    BY <1>5, <1>6, <1>11 DEF Handles
  <2>2. Adds(c, "PONG")
    BY <1>3, <2>1
  <2> QED
    <3>1. AnswersPing(c)
      BY <1>11, <2>1, <2>2 DEF OnPing, Message, AnswersPing, Reads
    <3> QED
      BY <3>1 DEF Move
<1>12. CASE PingDue
  <2>1. toServer'[c] = SayTo(c, <<"PING">>) /\ toAgent'[c] = toAgent[c] /\ agent'.conn = c
    BY <1>5, <1>6, <1>12 DEF Handles
  <2>2. Adds(c, "PING")
    BY <1>3, <2>1
  <2> QED
    <3>1. AsksPong(c)
      BY <1>2, <1>12, <2>1, <2>2 DEF PingDue, AsksPong, ReadsNone, AgentType
    <3> QED
      BY <3>1 DEF Move
<1>13. CASE Stop /\ agent.phase \in {"hello", "up"}
  <2>1. toServer'[c] = SayTo(c, <<"CLOSE">>) /\ toAgent'[c] = toAgent[c] /\ agent'.conn = c
    BY <1>5, <1>6, <1>13 DEF Handles
  <2>2. Adds(c, "CLOSE")
    BY <1>3, <2>1
  <2>3. agent'.phase = "closing"
    BY <1>2, <1>13 DEF Stop, AgentType
  <2> QED
    <3>1. SaysBye(c)
      BY <1>13, <2>1, <2>2, <2>3 DEF SaysBye, ReadsNone
    <3> QED
      BY <3>1 DEF Move
<1>14. Stop /\ agent.phase # "waiting" => agent.phase \in {"connecting", "hello", "up"}
  BY DEF Stop
<1> QED
  BY <1>7, <1>8, <1>9, <1>10, <1>11, <1>12, <1>13, <1>14 DEF AgentOn

\* The head of a queue apart, the rest keeps what it was said of.
LEMMA TailKeeps ==
  ASSUME NEW q, Queue(q), q # <<>>, NEW K, Head(q).m \notin K
  PROVE  /\ Names(q) \cap K # {} => Names(Tail(q)) \cap K # {}
         /\ \A n \in Int : Aged(q, K, n) => Aged(Tail(q), K, n)
<1>1. Mail(q) = Mail(Tail(q)) \cup {Head(q)}
  BY MailTaken
<1>2. Names(q) = Names(Tail(q)) \cup {Head(q).m}
  BY <1>1 DEF Names
<1>3. \A n \in Int : Aged(q, K, n) => Aged(Tail(q), K, n)
  BY AgedLaws
<1> QED
  BY <1>2, <1>3

\* The agent's moves keep the server served, and the agent.
LEMMA AgtServed ==
  ASSUME IInv, NEW c \in Conns, agent.conn = c, AgentOn(c), Served(c)
  PROVE  Served(c)'
<1>1. /\ Move(c) /\ agent.phase \in Busy /\ srv' = srv /\ link' = link
      /\ Queue(toAgent[c]) /\ c # NoConn
  BY AgtMoves, Numbers
<1> SUFFICES ASSUME link[c] = "ok" PROVE Served(c)'
  BY <1>1 DEF Served
<1>2. ASSUME NEW a \in Bye, Adds(c, a), srv[c].ws = "open" \/ "CONNECT" \in Names(toServer'[c])
      PROVE  Names(toServer'[c]) \cap Bye # {}
  <2>1. toServer'[c] # <<>> \/ srv[c].ws = "open"
    BY <1>2, NoMail
  <2>2. a \in Names(toServer'[c])
    BY <1>2, <2>1 DEF Adds, Bye
  <2> QED
    BY <2>2
<1>3. CASE GoesAway(c)
  <2>1. ~(agent'.conn = c /\ agent'.phase \in Working)
    BY <1>1, <1>3 DEF GoesAway
  <2>2. srv[c].ws = "open" \/ "CONNECT" \in Names(toServer'[c])
          => Names(toServer'[c]) \cap Bye # {}
    BY <1>2, <1>3, NoMail DEF GoesAway
  <2> QED
    BY <1>1, <2>1, <2>2 DEF Served
<1>4. CASE SaysBye(c)
  <2>1. ~(agent'.conn = c /\ agent'.phase \in Working)
    BY <1>4 DEF SaysBye, Working
  <2>2. srv[c].ws = "open" \/ "CONNECT" \in Names(toServer'[c])
          => Names(toServer'[c]) \cap Bye # {}
    BY <1>2, <1>4 DEF SaysBye, Bye
  <2> QED
    BY <1>1, <2>1, <2>2 DEF Served
<1>5. CASE ReadsLate(c)
  <2>1. /\ ~(agent'.conn = c /\ agent'.phase \in Working)
        /\ ~(agent.conn = c /\ agent.phase \in Working)
    BY <1>5 DEF ReadsLate, Working
  <2>2. srv[c].ws = "open" \/ "CONNECT" \in Names(toServer'[c])
          => Names(toServer'[c]) \cap Bye # {}
    BY <1>5, <2>1 DEF ReadsLate, Adds, Served
  <2> QED
    BY <1>1, <2>1, <2>2 DEF Served
<1>6. ASSUME agent.phase \in Working, agent'.conn = c, agent'.phase \in Working,
             Names(toServer[c]) \subseteq Names(toServer'[c]),
             \/ ReadsNone(c)
             \/ \E kinds : Reads(c, kinds) /\ kinds \cap {"CLOSE", "END", "REJECTED"} = {}
      PROVE  Served(c)'
  <2>1. Names(toAgent[c]) \cap {"CLOSE", "END", "REJECTED"} # {}
          => Names(toAgent'[c]) \cap {"CLOSE", "END", "REJECTED"} # {}
    <3>1. ASSUME NEW kinds, Reads(c, kinds), kinds \cap {"CLOSE", "END", "REJECTED"} = {},
                 Names(toAgent[c]) \cap {"CLOSE", "END", "REJECTED"} # {}
          PROVE  Names(toAgent'[c]) \cap {"CLOSE", "END", "REJECTED"} # {}
      <4> DEFINE K == {"CLOSE", "END", "REJECTED"}
      <4>1. toAgent[c] # <<>> /\ Head(toAgent[c]).m \notin K /\ toAgent'[c] = Tail(toAgent[c])
            /\ Names(toAgent[c]) \cap K # {}
        BY <3>1 DEF Reads
      <4> HIDE DEF K
      <4>2. Names(Tail(toAgent[c])) \cap K # {}
        BY <1>1, <4>1, TailKeeps
      <4> QED
        BY <4>1, <4>2 DEF K
    <3> QED
      BY <1>6, <3>1 DEF ReadsNone
  <2> QED
    BY <1>1, <1>6, <2>1 DEF Served
<1>7. CASE SaysHello(c)
  BY <1>6, <1>7 DEF SaysHello, Adds, Working
<1>8. CASE AsksTunnel(c)
  BY <1>6, <1>8 DEF AsksTunnel, Adds, Working
<1>9. CASE HearsReply(c)
  BY <1>6, <1>9 DEF HearsReply, Adds, Working
<1>10. CASE AnswersPing(c)
  BY <1>6, <1>10 DEF AnswersPing, Adds, Working
<1>11. CASE TakesPong(c)
  BY <1>6, <1>11 DEF TakesPong, Adds, Working
<1>12. CASE AsksPong(c)
  BY <1>6, <1>12 DEF AsksPong, Adds, Working
<1> QED
  BY <1>1, <1>3, <1>4, <1>5, <1>7, <1>8, <1>9, <1>10, <1>11, <1>12 DEF Move

\* A kind of message that is in a queue is there for as long as none at least.
LEMMA JustSent ==
  ASSUME NEW q, Queue(q), NEW K, Names(q) \cap K # {}, NEW n \in Int, n <= 0
  PROVE  Aged(q, K, n)
  BY AgedLaws

\* The agent's moves keep its HELLO answered.
LEMMA AgtGreeted ==
  ASSUME IInv, NEW c \in Conns, agent.conn = c, AgentOn(c), Served(c), Greeted(c)
  PROVE  Greeted(c)'
<1>1. /\ Move(c) /\ agent.phase \in Busy /\ srv' = srv /\ link' = link
      /\ Queue(toAgent[c]) /\ Queue(toAgent'[c]) /\ Queue(toServer'[c]) /\ c # NoConn
      /\ agent \in AgentType /\ agent.timer \in Int
      /\ Latency \in Nat /\ HandshakeTimeout \in Nat
      /\ Slotted(c) /\ Queue(toServer[c])
  <2>1. agent \in AgentType /\ Slotted(c) /\ Queue(toServer[c])
    BY Typed DEF IInv, Linked
  <2> QED
    BY <2>1, AgtMoves, Numbers DEF AgentType
<1> DEFINE K == {"HELLO_OK", "REJECTED", "CLOSE", "END"}
<1> SUFFICES ASSUME link[c] = "ok", agent'.conn = c, agent'.phase = "hello"
             PROVE  \/ Aged(toAgent'[c], K, HandshakeTimeout - Latency - agent'.timer)
                    \/ srv[c].ws = "open" /\ Aged(toServer'[c], {"HELLO"}, HandshakeTimeout - agent'.timer)
  BY <1>1 DEF Greeted
<1>2. CASE SaysHello(c)
  <2>1. agent'.timer = HandshakeTimeout /\ Adds(c, "HELLO") /\ Reads(c, {"ACCEPTED"})
    BY <1>2 DEF SaysHello
  <2>2. agent.phase = "connecting" /\ toAgent[c] # <<>>
    BY <1>2 DEF SaysHello, Reads
  <2>3. srv[c].ws = "open" \/ Names(toAgent[c]) \cap {"CLOSE", "END", "REJECTED"} # {}
    BY <1>1, <2>2 DEF Served, Working, Slotted
  <2>4. CASE srv[c].ws = "open"
    <3>1. "HELLO" \in Names(toServer'[c])
      BY <2>1, <2>4 DEF Adds
    <3>2. HandshakeTimeout - agent'.timer \in Int /\ HandshakeTimeout - agent'.timer <= 0
      BY <1>1, <2>1
    <3>3. Names(toServer'[c]) \cap {"HELLO"} # {}
      BY <3>1
    <3> HIDE DEF K
    <3> DEFINE s == toServer'[c]
               n == HandshakeTimeout - agent'.timer
               H == {"HELLO"}
    <3>4. Queue(s) /\ n \in Int /\ n <= 0 /\ Names(s) \cap H # {}
      BY <1>1, <3>2, <3>3
    <3> HIDE DEF s, n, H
    <3>5. Aged(s, H, n)
      BY <3>4, JustSent
    <3> QED
      BY <2>4, <3>5 DEF s, n, H
  <2>5. CASE Names(toAgent[c]) \cap {"CLOSE", "END", "REJECTED"} # {}
    <3>1. Names(toAgent[c]) \cap K # {} /\ Head(toAgent[c]).m \notin K
      BY <2>1, <2>5 DEF Reads
    <3> DEFINE s == toAgent'[c]
               n == HandshakeTimeout - Latency - agent'.timer
    <3>2. n \in Int /\ n <= 0 /\ Queue(s) /\ s = Tail(toAgent[c])
      BY <1>1, <2>1 DEF Reads
    <3> HIDE DEF K, s, n
    <3>3. Names(s) \cap K # {}
      BY <1>1, <2>2, <3>1, <3>2, TailKeeps
    <3>4. Aged(s, K, n)
      BY <3>2, <3>3, JustSent
    <3> QED
      BY <3>4 DEF s, n
  <2> QED
    BY <2>3, <2>4, <2>5
<1>3. CASE AnswersPing(c)
  <2>1. agent' = agent /\ Adds(c, "PONG") /\ Reads(c, {"PING"})
    BY <1>3 DEF AnswersPing
  <2> DEFINE n == HandshakeTimeout - Latency - agent.timer
             o == HandshakeTimeout - agent.timer
  <2>2. n \in Int /\ o \in Int
    BY <1>1
  <2>3. \/ Aged(toAgent[c], K, n)
        \/ srv[c].ws = "open" /\ Aged(toServer[c], {"HELLO"}, o)
    BY <2>1 DEF Greeted
  <2>4. toAgent[c] # <<>> /\ Head(toAgent[c]).m \notin K /\ toAgent'[c] = Tail(toAgent[c])
        /\ Mail(toServer[c]) \subseteq Mail(toServer'[c])
    BY <2>1 DEF Reads, Adds
  <2> HIDE DEF K, n, o
  <2>5. Aged(toAgent[c], K, n) => Aged(toAgent'[c], K, n)
    BY <1>1, <2>2, <2>4, TailKeeps
  <2>6. Aged(toServer[c], {"HELLO"}, o) => Aged(toServer'[c], {"HELLO"}, o)
    BY <2>4 DEF Aged
  <2> QED
    BY <2>1, <2>3, <2>5, <2>6 DEF n, o
<1> QED
  BY <1>1, <1>2, <1>3 DEF Move, GoesAway, AsksTunnel, HearsReply, TakesPong, ReadsLate,
     AsksPong, SaysBye, Busy

\* And its ping.
LEMMA AgtPonged ==
  ASSUME IInv, NEW c \in Conns, agent.conn = c, AgentOn(c), Served(c), Ponged(c), Unasked
  PROVE  Ponged(c)'
<1>1. /\ Move(c) /\ agent.phase \in Busy /\ srv' = srv /\ link' = link
      /\ Queue(toAgent[c]) /\ Queue(toAgent'[c]) /\ Queue(toServer'[c])
      /\ agent.pongIn \in Int
      /\ Latency \in Nat /\ PingTimeout \in Nat
      /\ Slotted(c) /\ Queue(toServer[c])
  <2>1. Slotted(c) /\ Queue(toServer[c])
    BY Typed DEF IInv, Linked
  <2> QED
    BY <2>1, AgtMoves, Clocks
<1> DEFINE K == {"PONG", "CLOSE", "END", "REJECTED"}
<1> SUFFICES ASSUME link[c] = "ok", agent'.conn = c, agent'.phase = "up", agent'.pongIn # Off
             PROVE  \/ Aged(toAgent'[c], K, PingTimeout - Latency - agent'.pongIn)
                    \/ srv[c].ws = "open" /\ Aged(toServer'[c], {"PING"}, PingTimeout - agent'.pongIn)
  BY <1>1 DEF Ponged
<1>2. CASE AsksTunnel(c)
  BY <1>2 DEF AsksTunnel, Unasked
<1>3. ASSUME agent.phase = "up", agent'.pongIn = agent.pongIn,
             Mail(toServer[c]) \subseteq Mail(toServer'[c]),
             \/ ReadsNone(c)
             \/ \E kinds : Reads(c, kinds) /\ kinds \cap K = {}
      PROVE  \/ Aged(toAgent'[c], K, PingTimeout - Latency - agent'.pongIn)
             \/ srv[c].ws = "open" /\ Aged(toServer'[c], {"PING"}, PingTimeout - agent'.pongIn)
  <2> DEFINE n == PingTimeout - Latency - agent.pongIn
             o == PingTimeout - agent.pongIn
  <2>1. n \in Int /\ o \in Int
    BY <1>1
  <2>2. \/ Aged(toAgent[c], K, n)
        \/ srv[c].ws = "open" /\ Aged(toServer[c], {"PING"}, o)
    BY <1>3 DEF Ponged
  <2> HIDE DEF K, n, o
  <2>3. Aged(toAgent[c], K, n) => Aged(toAgent'[c], K, n)
    <3>1. ASSUME NEW kinds, Reads(c, kinds), kinds \cap K = {}
          PROVE  Aged(toAgent[c], K, n) => Aged(toAgent'[c], K, n)
      <4>1. toAgent[c] # <<>> /\ Head(toAgent[c]).m \notin K /\ toAgent'[c] = Tail(toAgent[c])
        BY <3>1 DEF Reads
      <4> QED
        BY <1>1, <2>1, <4>1, TailKeeps
    <3> QED
      BY <1>3, <3>1 DEF ReadsNone
  <2>4. Aged(toServer[c], {"PING"}, o) => Aged(toServer'[c], {"PING"}, o)
    BY <1>3 DEF Aged
  <2> QED
    BY <1>3, <2>2, <2>3, <2>4 DEF n, o
<1>4. CASE HearsReply(c)
  <2>1. {"TUNNEL_OK", "TUNNEL_TAKEN"} \cap K = {}
    OBVIOUS
  <2> HIDE DEF K
  <2> QED
    BY <1>3, <1>4, <2>1 DEF HearsReply, Adds
<1>5. CASE AnswersPing(c)
  <2>1. {"PING"} \cap K = {}
    OBVIOUS
  <2> HIDE DEF K
  <2> QED
    BY <1>3, <1>5, <2>1 DEF AnswersPing, Adds
<1>6. CASE TakesPong(c)
  BY <1>6 DEF TakesPong
<1>7. CASE AsksPong(c) /\ agent.pongIn # Off
  <2> HIDE DEF K
  <2> QED
    BY <1>3, <1>7 DEF AsksPong, Adds
<1>8. CASE AsksPong(c) /\ agent.pongIn = Off
  <2>1. agent'.pongIn = PingTimeout
    BY <1>8 DEF AsksPong, Timer
  <2>2. srv[c].ws = "open" \/ Names(toAgent[c]) \cap {"CLOSE", "END", "REJECTED"} # {}
    <3>1. agent.phase = "up" /\ "CONNECT" \notin Names(toServer[c])
      BY <1>1, <1>8 DEF AsksPong, Slotted, SaidIn
    <3> QED
      BY <1>1, <3>1 DEF Served, Working
  <2>3. CASE srv[c].ws = "open"
    <3> DEFINE s == toServer'[c]
               n == PingTimeout - agent'.pongIn
               H == {"PING"}
    <3>1. "PING" \in Names(s)
      BY <1>8, <2>3 DEF AsksPong, Adds
    <3>2. Queue(s) /\ n \in Int /\ n <= 0 /\ Names(s) \cap H # {}
      BY <1>1, <2>1, <3>1
    <3> HIDE DEF s, n, H
    <3>3. Aged(s, H, n)
      BY <3>2, JustSent
    <3> HIDE DEF K
    <3> QED
      BY <2>3, <3>3 DEF s, n, H
  <2>4. CASE Names(toAgent[c]) \cap {"CLOSE", "END", "REJECTED"} # {}
    <3> DEFINE s == toAgent'[c]
               n == PingTimeout - Latency - agent'.pongIn
    <3>1. Queue(s) /\ n \in Int /\ n <= 0 /\ Names(s) \cap K # {}
      BY <1>1, <1>8, <2>1, <2>4 DEF AsksPong, ReadsNone
    <3> HIDE DEF s, n, K
    <3>2. Aged(s, K, n)
      BY <3>1, JustSent
    <3> QED
      BY <3>2 DEF s, n
  <2> QED
    BY <2>2, <2>3, <2>4
<1> QED
  BY <1>1, <1>2, <1>4, <1>5, <1>6, <1>7, <1>8 DEF Move, GoesAway, SaysHello, ReadsLate,
     SaysBye, Busy

\* And what the server waits for on its way.
LEMMA AgtAwaited ==
  ASSUME IInv, NEW c \in Conns, agent.conn = c, AgentOn(c), Awaited(c)
  PROVE  Awaited(c)'
<1>1. /\ Move(c) /\ srv' = srv /\ link' = link
      /\ Queue(toAgent[c]) /\ Queue(toServer'[c])
      /\ srv[c].timer \in Int /\ Latency \in Nat /\ HelloTimeout \in Nat
      /\ Queue(toServer[c])
  <2>1. srv[c] \in EndType /\ Queue(toServer[c])
    BY Typed DEF IInv, Linked
  <2> QED
    BY <2>1, AgtMoves, Numbers DEF EndType
<1> DEFINE K == {"HELLO", "CLOSE", "END"}
           n == HelloTimeout - Latency - srv[c].timer
           o == HelloTimeout - srv[c].timer
<1>2. n \in Int /\ o \in Int /\ (o <= Latency => n <= 0)
  BY <1>1
<1> SUFFICES ASSUME link[c] = "ok", srv[c].ws = "open", srv[c].timer # Off
             PROVE  \/ Aged(toServer'[c], K, n)
                    \/ agent'.conn = c /\ agent'.phase = "connecting" /\ Aged(toAgent'[c], {"ACCEPTED"}, o)
  BY <1>1 DEF Awaited
<1>3. \/ Aged(toServer[c], K, n)
      \/ agent.phase = "connecting" /\ Aged(toAgent[c], {"ACCEPTED"}, o)
  BY DEF Awaited
<1> HIDE DEF n, o
<1>4. CASE Aged(toServer[c], K, n)
  <2>1. \/ Mail(toServer[c]) \subseteq Mail(toServer'[c])
    BY <1>1 DEF Move, GoesAway, SaysHello, AsksTunnel, HearsReply, AnswersPing, TakesPong,
       ReadsLate, AsksPong, SaysBye, Adds
  <2> HIDE DEF K
  <2> QED
    BY <1>4, <2>1 DEF Aged
<1>5. CASE agent.phase = "connecting" /\ Aged(toAgent[c], {"ACCEPTED"}, o)
  <2>1. n <= 0
    <3>1. o <= Latency
      BY <1>1, <1>2, <1>5, AgedLaws
    <3> QED
      BY <1>2, <3>1
  <2>2. Names(toServer'[c]) \cap K # {}
    <3>1. CASE SaysHello(c)
      BY <3>1 DEF SaysHello, Adds
    <3>2. CASE GoesAway(c)
      BY <3>2 DEF GoesAway, Adds, Bye
    <3> QED
      BY <1>1, <1>5, <3>1, <3>2 DEF Move, AsksTunnel, HearsReply, AnswersPing, TakesPong,
         ReadsLate, AsksPong, SaysBye
  <2> DEFINE s == toServer'[c]
  <2>3. Queue(s) /\ Names(s) \cap K # {}
    BY <1>1, <2>2
  <2> HIDE DEF s, K
  <2>4. Aged(s, K, n)
    BY <1>2, <2>1, <2>3, JustSent
  <2> QED
    BY <2>4 DEF s
<1> QED
  BY <1>3, <1>4, <1>5

\* And an answer to the server's pings.
LEMMA AgtAnswered ==
  ASSUME IInv, NEW c \in Conns, agent.conn = c, AgentOn(c), Answered(c)
  PROVE  Answered(c)'
<1>1. /\ Move(c) /\ srv' = srv /\ link' = link
      /\ Queue(toAgent[c]) /\ Queue(toServer'[c])
      /\ Silence(c)' = Silence(c) /\ Silence(c) \in Int /\ Latency \in Nat
      /\ Queue(toServer[c])
  <2>1. Queue(toServer[c])
    BY DEF IInv, Linked
  <2> QED
    BY <2>1, AgtMoves, Clocks
<1> DEFINE n == Silence(c) - Latency
           o == Silence(c)
           K == {"PING"}
<1>2. n \in Int /\ o \in Int /\ (o <= Latency => n <= 0)
  BY <1>1
<1> SUFFICES ASSUME link[c] = "ok", srv[c].ws = "open", srv[c].misses # 0
             PROVE  \/ Aged(toServer'[c], Kinds, n)
                    \/ agent'.conn = c /\ agent'.phase \in Working /\ Aged(toAgent'[c], K, o)
  BY <1>1 DEF Answered
<1>3. \/ Aged(toServer[c], Kinds, n)
      \/ agent.phase \in Working /\ Aged(toAgent[c], K, o)
  BY DEF Answered
<1> HIDE DEF n, o
<1>4. CASE Aged(toServer[c], Kinds, n)
  <2>1. Mail(toServer[c]) \subseteq Mail(toServer'[c])
    BY <1>1 DEF Move, GoesAway, SaysHello, AsksTunnel, HearsReply, AnswersPing, TakesPong,
       ReadsLate, AsksPong, SaysBye, Adds
  <2> QED
    BY <1>4, <2>1 DEF Aged
<1>5. CASE agent.phase \in Working /\ Aged(toAgent[c], K, o)
  <2>1. n <= 0
    <3>1. o <= Latency
      BY <1>1, <1>2, <1>5, AgedLaws
    <3> QED
      BY <1>2, <3>1
  <2>2. ASSUME NEW a \in Kinds, Adds(c, a)
        PROVE  Aged(toServer'[c], Kinds, n)
    <3> DEFINE s == toServer'[c]
    <3>1. Queue(s) /\ Names(s) \cap Kinds # {}
      BY <1>1, <2>2 DEF Adds, Kinds
    <3> HIDE DEF s
    <3>2. Aged(s, Kinds, n)
      BY <1>2, <2>1, <3>1, JustSent
    <3> QED
      BY <3>2 DEF s
  <2>3. CASE GoesAway(c)
    BY <2>2, <2>3 DEF GoesAway, Bye, Kinds
  <2>4. CASE SaysHello(c) \/ AsksTunnel(c) \/ AnswersPing(c) \/ AsksPong(c) \/ SaysBye(c)
    BY <2>2, <2>4 DEF SaysHello, AsksTunnel, AnswersPing, AsksPong, SaysBye, Kinds
  <2>5. CASE HearsReply(c) \/ TakesPong(c)
    <3>1. /\ toAgent[c] # <<>> /\ Head(toAgent[c]).m \notin K /\ toAgent'[c] = Tail(toAgent[c])
          /\ agent'.conn = c /\ agent'.phase \in Working
      BY <2>5 DEF HearsReply, TakesPong, Reads, Working
    <3> HIDE DEF K
    <3>2. Aged(toAgent'[c], K, o)
      BY <1>1, <1>2, <1>5, <3>1, TailKeeps
    <3> QED
      BY <3>1, <3>2
  <2>6. ~ReadsLate(c)
    BY <1>5 DEF ReadsLate, Working
  <2> QED
    BY <1>1, <2>3, <2>4, <2>5, <2>6 DEF Move
<1> QED
  BY <1>3, <1>4, <1>5

\* No pong is waited for where none has been asked for.
LEMMA UnaskedKept ==
  ASSUME IInv, Unasked, [Next]_vars
  PROVE  Unasked'
<1>1. agent \in AgentType
  BY Typed DEF IInv
<1>2. CASE agent' = agent
  BY <1>2 DEF Unasked
<1>3. CASE Tick
  <2>1. /\ agent'.phase = agent.phase /\ agent'.pongIn = Elapse(agent.pongIn)
    BY <1>3, AgentTicked
  <2> QED
    BY <2>1, Elapsed, Numbers DEF Unasked
<1>4. CASE StartSession
  <2>1. /\ agent.phase = "waiting" /\ agent'.pongIn = agent.pongIn
    BY <1>1, <1>4 DEF StartSession, AgentType
  <2> QED
    BY <2>1 DEF Unasked
<1>5. CASE StopWaiting
  <2>1. agent' = [agent EXCEPT !.phase = "stopped", !.timer = Off]
    BY <1>5 DEF StopWaiting
  <2>2. agent.phase = "waiting" /\ agent'.pongIn = agent.pongIn
    BY <1>1, <1>5, <2>1 DEF StopWaiting, AgentType
  <2> QED
    BY <2>2 DEF Unasked
<1>6. ASSUME NEW fatal \in BOOLEAN, agent' \in AgentAfter(fatal) PROVE Unasked'
  <2>1. agent'.pongIn = Off
    BY <1>1, <1>6, AfterSession
  <2> QED
    BY <2>1 DEF Unasked
<1>7. CASE Stop
  <2>1. \/ agent' = [agent EXCEPT !.stopping = TRUE]
        \/ agent' = [Waiting(Off, agent.delay) EXCEPT
                                 !.phase = "stopped", !.stopping = TRUE]
        \/ agent' = [agent EXCEPT !.stopping = TRUE, !.phase = "closing",
                                 !.timer = CloseTimeout,
                                 !.pingIn = Off, !.pongIn = Off]
    BY <1>7 DEF Stop
  <2>2. CASE agent' = [agent EXCEPT !.stopping = TRUE]
    BY <1>1, <2>2 DEF AgentType, Unasked
  <2>3. CASE agent' = [Waiting(Off, agent.delay) EXCEPT
                                 !.phase = "stopped", !.stopping = TRUE]
    BY <2>3 DEF Waiting, Unasked
  <2>4. CASE agent' = [agent EXCEPT !.stopping = TRUE, !.phase = "closing",
                                 !.timer = CloseTimeout,
                                 !.pingIn = Off, !.pongIn = Off]
    BY <1>1, <2>4 DEF AgentType, Unasked
  <2> QED
    BY <2>1, <2>2, <2>3, <2>4
<1>8. ASSUME NEW c \in Conns,
             \/ OnOpen(c) \/ OnHelloOk(c) \/ OnTunnelReply(c) \/ OnPing(c) \/ OnPong(c)
             \/ OnLate(c) \/ PingDue
      PROVE  Unasked'
  <2>1. \/ agent' = agent
        \/ agent.phase = "connecting" /\ agent'.pongIn = agent.pongIn
        \/ /\ agent'.phase = "up"
           /\ agent'.pongIn \in {agent.pongIn, Off, Timer(PingTimeout)}
    BY <1>1, <1>8 DEF OnOpen, OnHelloOk, OnTunnelReply, OnPing, OnPong, OnLate, PingDue, AgentType
  <2> QED
    BY <2>1 DEF Unasked, Timer
<1>9. ASSUME NEW c \in Conns,
             SessionTimeout \/ PongDeadline \/ Refused \/ OnRejected(c) \/ OnClose(c)
      PROVE  Unasked'
  <2>1. \E fatal \in BOOLEAN : agent' \in AgentAfter(fatal)
    BY <1>9 DEF SessionTimeout, PongDeadline, Refused, OnRejected, OnClose, EndSession
  <2> QED
    BY <1>6, <2>1
<1>10. ASSUME NEW c \in Conns, AgentOn(c) PROVE Unasked'
  BY <1>7, <1>8, <1>9, <1>10 DEF AgentOn
<1>11. ASSUME NEW c \in Conns, ServerStep(c) PROVE agent' = agent
  BY <1>11, SrvStepKind, SrvTurned
<1>12. (\E c \in Conns : LinkDies(c)) \/ ServerRestart \/ UNCHANGED vars => agent' = agent
  BY DEF LinkDies, ServerRestart, vars
<1> QED
  BY <1>2, <1>3, <1>4, <1>5, <1>7, <1>10, <1>11, <1>12, AgtSplit DEF Next, System

\* What an agent that is still there is told by a turn of the server.
LEMMA SrvTells ==
  ASSUME IInv, NEW c, NEW e, NEW ms, NEW q, SrvTurn(c, e, ms, q),
         link[c] = "ok", agent.conn = c
  PROVE  /\ Over(c, e, ms, q) => "END" \in Names(toAgent'[c])
         /\ CloseBegins(c, e, ms, q) => "CLOSE" \in Names(toAgent'[c])
         /\ Accepts(c, e, ms, q) => "ACCEPTED" \in Names(toAgent'[c])
         /\ Beats(c, e, ms, q) => "PING" \in Names(toAgent'[c])
         /\ \A m, r : Reply(c, e, ms, q, m, r) /\ r # "none" => r \in Names(toAgent'[c])
<1>1. Names(toAgent'[c]) = Names(toAgent[c]) \cup Names(Fresh(ms))
  BY SrvSaid
<1>2. ASSUME NEW a \in {"END", "CLOSE", "ACCEPTED", "PING", "HELLO_OK", "TUNNEL_OK",
                        "TUNNEL_TAKEN", "PONG"}, ms = <<a>>
      PROVE  a \in Names(toAgent'[c])
  BY <1>1, <1>2, Sayings
<1>3. CloseBegins(c, e, ms, q) => "CLOSE" \in Names(toAgent'[c])
  <2>1. CloseBegins(c, e, ms, q) => ms = <<"CLOSE">> \/ ms = <<"REJECTED", "CLOSE">>
    BY DEF CloseBegins
  <2>2. ms = <<"REJECTED", "CLOSE">> => "CLOSE" \in Names(toAgent'[c])
    BY <1>1, Sayings
  <2> QED
    BY <1>2, <2>1, <2>2
<1>4. ASSUME NEW m, NEW r, Reply(c, e, ms, q, m, r), r # "none"
      PROVE  r \in Names(toAgent'[c])
  <2>1. /\ ms = <<r>> /\ r \in {"HELLO_OK", "TUNNEL_OK", "TUNNEL_TAKEN", "PONG"}
    BY <1>4 DEF Reply
  <2> QED
    BY <1>2, <2>1
<1> QED
  BY <1>2, <1>3, <1>4 DEF Over, Accepts, Beats

\* What is read first of what is on its way to the server.
LEMMA SrvReads ==
  ASSUME IInv, NEW c, NEW e, NEW ms, NEW q, SrvTurn(c, e, ms, q)
  PROVE  /\ c \in Conns /\ Queue(toServer[c]) /\ Queue(q) /\ Slotted(c)
         /\ Queue(toAgent[c]) /\ Queue(toAgent'[c])
         /\ srv'[c] = e /\ toServer'[c] = q /\ agent' = agent /\ link' = link
         /\ srv[c] \in EndType /\ e \in EndType
         /\ Mail(toAgent[c]) \subseteq Mail(toAgent'[c])
         /\ Names(toAgent[c]) \subseteq Names(toAgent'[c])
         /\ Names(q) \subseteq Names(toServer[c])
         /\ toServer[c] # <<>> => Head(toServer[c]).m \in Names(toServer[c])
         /\ "CONNECT" \in Names(toServer[c]) => srv[c].ws = "none"
<1>1. c \in Conns /\ Queue(q) /\ e \in EndType
  BY DEF SrvTurn
<1>2. Linked(c) /\ Slotted(c) /\ srv[c] \in EndType
  BY <1>1, Typed DEF IInv
<1>3. toServer[c] # <<>> => Head(toServer[c]).m \in Names(toServer[c])
  BY <1>2, NoMail DEF Linked
<1>4. /\ srv'[c] = e /\ toServer'[c] = q /\ agent' = agent /\ link' = link
      /\ Queue(toAgent[c]) /\ Queue(toAgent'[c]) /\ Names(q) \subseteq Names(toServer[c])
  BY SrvTurned
<1>5. /\ Mail(toAgent[c]) \subseteq Mail(toAgent'[c])
      /\ Names(toAgent[c]) \subseteq Names(toAgent'[c])
  BY SrvSaid
<1>6. Queue(toServer[c]) /\ ("CONNECT" \in Names(toServer[c]) => srv[c].ws = "none")
  BY <1>2 DEF Linked, Slotted
<1> QED
  BY <1>1, <1>2, <1>3, <1>4, <1>5, <1>6

\* The server's turns keep both sides served.
LEMMA SrvServed ==
  ASSUME IInv, NEW c, NEW e, NEW ms, NEW q, SrvTurn(c, e, ms, q), SrvKind(c, e, ms, q),
         Served(c)
  PROVE  Served(c)'
<1>1. /\ c \in Conns /\ Queue(toServer[c])
      /\ srv'[c] = e /\ toServer'[c] = q /\ agent' = agent /\ link' = link
      /\ srv[c] \in EndType /\ e \in EndType
      /\ Names(toAgent[c]) \subseteq Names(toAgent'[c])
      /\ Names(q) \subseteq Names(toServer[c])
      /\ toServer[c] # <<>> => Head(toServer[c]).m \in Names(toServer[c])
      /\ "CONNECT" \in Names(toServer[c]) => srv[c].ws = "none"
  BY SrvReads
<1> SUFFICES ASSUME link[c] = "ok" PROVE Served(c)'
  BY <1>1 DEF Served
<1>2. ASSUME e.ws = srv[c].ws,
             \/ q = toServer[c]
             \/ /\ toServer[c] # <<>> /\ q = Tail(toServer[c])
                /\ Head(toServer[c]).m \notin {"CONNECT", "CLOSE", "END"}
      PROVE  Served(c)'
  <2>1. "CONNECT" \in Names(toServer[c]) => "CONNECT" \in Names(q)
    <3>1. ASSUME toServer[c] # <<>>, q = Tail(toServer[c]),
                 Head(toServer[c]).m \notin {"CONNECT", "CLOSE", "END"}
          PROVE  Names(toServer[c]) \cap {"CONNECT"} # {} => Names(q) \cap {"CONNECT"} # {}
      <4> DEFINE K == {"CONNECT"}
      <4>1. Head(toServer[c]).m \notin K
        BY <3>1
      <4> HIDE DEF K
      <4>2. Names(toServer[c]) \cap K # {} => Names(Tail(toServer[c])) \cap K # {}
        BY <1>1, <3>1, <4>1, TailKeeps
      <4> QED
        BY <3>1, <4>2 DEF K
    <3> QED
      BY <1>2, <3>1
  <2>2. Names(toServer[c]) \cap Bye # {} => Names(q) \cap Bye # {}
    <3>1. ASSUME toServer[c] # <<>>, q = Tail(toServer[c]),
                 Head(toServer[c]).m \notin {"CONNECT", "CLOSE", "END"}
          PROVE  Names(toServer[c]) \cap Bye # {} => Names(q) \cap Bye # {}
      <4>1. Head(toServer[c]).m \notin Bye
        BY <3>1 DEF Bye
      <4> QED
        BY <1>1, <3>1, <4>1, TailKeeps
    <3> QED
      BY <1>2, <3>1
  <2> QED
    BY <1>1, <1>2, <2>1, <2>2 DEF Served
<1>3. ASSUME NEW m \in Kinds, NEW r, Reply(c, e, ms, q, m, r)
      PROVE  Served(c)'
  BY <1>2, <1>3 DEF Reply
<1>4. CASE Over(c, e, ms, q)
  <2>1. agent.conn = c => "END" \in Names(toAgent'[c])
    BY <1>4, SrvTells
  <2>2. e.ws = "none" /\ Names(q) = {}
    BY <1>4, NoMail DEF Over, NoEnd
  <2> QED
    BY <1>1, <2>1, <2>2 DEF Served
<1>5. CASE CloseBegins(c, e, ms, q)
  <2>1. agent.conn = c => "CLOSE" \in Names(toAgent'[c])
    BY <1>5, SrvTells
  <2>2. e.ws = "closing" /\ "CONNECT" \notin Names(q)
    BY <1>1, <1>5 DEF CloseBegins, Closing, EndType
  <2> QED
    BY <1>1, <2>1, <2>2 DEF Served
<1>6. CASE Accepts(c, e, ms, q)
  <2>1. /\ e.ws = "open" /\ "CONNECT" \in Names(toServer[c])
        /\ toServer[c] # <<>> /\ q = Tail(toServer[c]) /\ Head(toServer[c]).m \notin Bye
    BY <1>1, <1>6 DEF Accepts, NoEnd, Bye
  <2>2. Names(toServer[c]) \cap Bye # {} => Names(q) \cap Bye # {}
    BY <1>1, <2>1, TailKeeps
  <2> QED
    BY <1>1, <2>1, <2>2 DEF Served
<1>7. CASE Beats(c, e, ms, q)
  <2>1. e.ws = srv[c].ws /\ q = toServer[c]
    BY <1>1, <1>7 DEF Beats, EndType
  <2> QED
    BY <1>2, <2>1
<1>8. CASE Ignores(c, e, ms, q)
  BY <1>2, <1>8 DEF Ignores
<1> QED
  BY <1>3, <1>4, <1>5, <1>6, <1>7, <1>8 DEF SrvKind

\* What the agent waits for stays on its way: the question, or the answer.
LEMMA SrvAnswers ==
  ASSUME IInv, NEW c, NEW e, NEW ms, NEW q, SrvTurn(c, e, ms, q), SrvKind(c, e, ms, q),
         link[c] = "ok", agent.conn = c,
         NEW ask \in {"HELLO", "PING"}, NEW K, Bye \subseteq K,
         ask = "HELLO" => "HELLO_OK" \in K, ask = "PING" => "PONG" \in K,
         NEW n \in Int, NEW o \in Int, o <= Latency => n <= 0,
         \/ Aged(toAgent[c], K, n)
         \/ srv[c].ws = "open" /\ Aged(toServer[c], {ask}, o)
  PROVE  \/ Aged(toAgent'[c], K, n)
         \/ srv'[c].ws = "open" /\ Aged(toServer'[c], {ask}, o)
<1>1. /\ c \in Conns /\ Queue(toServer[c]) /\ Queue(toAgent'[c])
      /\ srv'[c] = e /\ toServer'[c] = q /\ srv[c] \in EndType
      /\ Mail(toAgent[c]) \subseteq Mail(toAgent'[c])
      /\ toServer[c] # <<>> => Head(toServer[c]).m \in Names(toServer[c])
      /\ "CONNECT" \in Names(toServer[c]) => srv[c].ws = "none"
  BY SrvReads
<1>2. Aged(toAgent[c], K, n) => Aged(toAgent'[c], K, n)
  BY <1>1 DEF Aged
<1> SUFFICES ASSUME srv[c].ws = "open", Aged(toServer[c], {ask}, o)
             PROVE  \/ Aged(toAgent'[c], K, n)
                    \/ srv'[c].ws = "open" /\ Aged(toServer'[c], {ask}, o)
  BY <1>2
<1>3. n <= 0
  <2> DEFINE A == {ask}
  <2>1. Aged(toServer[c], A, o)
    OBVIOUS
  <2> HIDE DEF A
  <2>2. o <= Latency
    BY <1>1, <2>1, AgedLaws
  <2> QED
    BY <2>2
<1>4. Names(toAgent'[c]) \cap K # {} => Aged(toAgent'[c], K, n)
  <2> DEFINE s == toAgent'[c]
  <2>1. Queue(s)
    BY <1>1
  <2> HIDE DEF s
  <2>2. Names(s) \cap K # {} => Aged(s, K, n)
    BY <1>3, <2>1, JustSent
  <2> QED
    BY <2>2 DEF s
<1>5. ASSUME NEW m \in Kinds, NEW r, Reply(c, e, ms, q, m, r)
      PROVE  \/ Aged(toAgent'[c], K, n)
             \/ srv'[c].ws = "open" /\ Aged(toServer'[c], {ask}, o)
  <2>1. CASE m = ask
    <3>1. r \in K /\ r # "none"
      BY <1>5, <2>1 DEF Reply
    <3>2. r \in Names(toAgent'[c])
      BY <1>5, <3>1, SrvTells
    <3> QED
      BY <1>4, <3>1, <3>2
  <2>2. CASE m # ask
    <3> DEFINE A == {ask}
    <3>1. /\ toServer[c] # <<>> /\ Head(toServer[c]).m \notin A /\ q = Tail(toServer[c])
          /\ e.ws = "open" /\ Aged(toServer[c], A, o)
      BY <1>5, <2>2 DEF Reply
    <3> HIDE DEF A
    <3>2. Aged(q, A, o)
      BY <1>1, <3>1, TailKeeps
    <3> QED
      BY <1>1, <3>1, <3>2 DEF A
  <2> QED
    BY <2>1, <2>2
<1>6. CASE Over(c, e, ms, q)
  BY <1>4, <1>6, SrvTells DEF Bye
<1>7. CASE CloseBegins(c, e, ms, q)
  BY <1>4, <1>7, SrvTells DEF Bye
<1>8. ~Accepts(c, e, ms, q)
  BY <1>1 DEF Accepts
<1>9. CASE Beats(c, e, ms, q)
  BY <1>1, <1>9 DEF Beats, EndType
<1>10. ~Ignores(c, e, ms, q)
  BY DEF Ignores
<1> QED
  BY <1>5, <1>6, <1>7, <1>8, <1>9, <1>10 DEF SrvKind

\* While the agent waits for the server's answer to HELLO.
LEMMA SrvGreeted ==
  ASSUME IInv, NEW c, NEW e, NEW ms, NEW q, SrvTurn(c, e, ms, q), SrvKind(c, e, ms, q),
         Greeted(c)
  PROVE  Greeted(c)'
<1>1. srv'[c] = e /\ toServer'[c] = q /\ agent' = agent /\ link' = link
  BY SrvReads
<1>2. agent.timer \in Int
  BY Typed DEF IInv, AgentType
<1> SUFFICES ASSUME link[c] = "ok", agent.conn = c, agent.phase = "hello"
             PROVE  Greeted(c)'
  BY <1>1 DEF Greeted
<1> DEFINE K == {"HELLO_OK", "REJECTED", "CLOSE", "END"}
           n == HandshakeTimeout - Latency - agent.timer
           o == HandshakeTimeout - agent.timer
<1>3. /\ Bye \subseteq K /\ "HELLO_OK" \in K /\ n \in Int /\ o \in Int
      /\ o <= Latency => n <= 0
  BY <1>2, Numbers DEF Bye
<1>4. \/ Aged(toAgent[c], K, n)
      \/ srv[c].ws = "open" /\ Aged(toServer[c], {"HELLO"}, o)
  BY DEF Greeted
<1>5. /\ n = HandshakeTimeout - Latency - agent'.timer
      /\ o = HandshakeTimeout - agent'.timer
  BY <1>1
<1>6. K = {"HELLO_OK", "REJECTED", "CLOSE", "END"}
  OBVIOUS
<1> HIDE DEF K, n, o
<1>7. \/ Aged(toAgent'[c], K, n)
      \/ srv'[c].ws = "open" /\ Aged(toServer'[c], {"HELLO"}, o)
  BY <1>3, <1>4, SrvAnswers
<1> QED
  BY <1>5, <1>6, <1>7 DEF Greeted

\* While the agent waits for a pong.
LEMMA SrvPonged ==
  ASSUME IInv, NEW c, NEW e, NEW ms, NEW q, SrvTurn(c, e, ms, q), SrvKind(c, e, ms, q),
         Ponged(c)
  PROVE  Ponged(c)'
<1>1. srv'[c] = e /\ toServer'[c] = q /\ agent' = agent /\ link' = link
  BY SrvReads
<1>2. agent.pongIn \in Int
  BY Typed, Numbers DEF IInv, AgentType, UpTo
<1> SUFFICES ASSUME link[c] = "ok", agent.conn = c, agent.phase = "up", agent.pongIn # Off
             PROVE  Ponged(c)'
  BY <1>1 DEF Ponged
<1> DEFINE K == {"PONG", "CLOSE", "END", "REJECTED"}
           n == PingTimeout - Latency - agent.pongIn
           o == PingTimeout - agent.pongIn
<1>3. /\ Bye \subseteq K /\ "PONG" \in K /\ n \in Int /\ o \in Int
      /\ o <= Latency => n <= 0
  BY <1>2, Numbers DEF Bye
<1>4. \/ Aged(toAgent[c], K, n)
      \/ srv[c].ws = "open" /\ Aged(toServer[c], {"PING"}, o)
  BY DEF Ponged
<1>5. /\ n = PingTimeout - Latency - agent'.pongIn
      /\ o = PingTimeout - agent'.pongIn
  BY <1>1
<1>6. K = {"PONG", "CLOSE", "END", "REJECTED"}
  OBVIOUS
<1> HIDE DEF K, n, o
<1>7. \/ Aged(toAgent'[c], K, n)
      \/ srv'[c].ws = "open" /\ Aged(toServer'[c], {"PING"}, o)
  BY <1>3, <1>4, SrvAnswers
<1> QED
  BY <1>5, <1>6, <1>7 DEF Ponged

\* While the server waits for HELLO.
LEMMA SrvAwaited ==
  ASSUME IInv, NEW c, NEW e, NEW ms, NEW q, SrvTurn(c, e, ms, q), SrvKind(c, e, ms, q),
         Served(c), Awaited(c)
  PROVE  Awaited(c)'
<1>1. /\ c \in Conns /\ Queue(toServer[c]) /\ Queue(q) /\ Queue(toAgent'[c])
      /\ srv'[c] = e /\ toServer'[c] = q /\ agent' = agent /\ link' = link
      /\ srv[c] \in EndType /\ e \in EndType /\ Slotted(c)
      /\ Mail(toAgent[c]) \subseteq Mail(toAgent'[c])
      /\ toServer[c] # <<>> => Head(toServer[c]).m \in Names(toServer[c])
  BY SrvReads
<1> SUFFICES ASSUME link[c] = "ok", e.ws = "open", e.timer # Off
             PROVE  Awaited(c)'
  BY <1>1 DEF Awaited
<1> DEFINE K == {"HELLO", "CLOSE", "END"}
<1>2. ASSUME srv[c].ws = "open", e.timer = srv[c].timer,
             q = toServer[c] \/ (/\ toServer[c] # <<>> /\ q = Tail(toServer[c])
                                 /\ Head(toServer[c]).m \notin K)
      PROVE  Awaited(c)'
  <2> DEFINE o == HelloTimeout - Latency - srv[c].timer
             n == HelloTimeout - srv[c].timer
  <2>1. o \in Int /\ n \in Int
    <3>1. srv[c].timer \in Int
      BY <1>1 DEF EndType
    <3> QED
      BY <3>1, Numbers
  <2>2. \/ Aged(toServer[c], K, o)
        \/ agent.conn = c /\ agent.phase = "connecting" /\ Aged(toAgent[c], {"ACCEPTED"}, n)
    BY <1>2 DEF Awaited
  <2>3. o = HelloTimeout - Latency - e.timer /\ n = HelloTimeout - e.timer
    BY <1>2
  <2>4. K = {"HELLO", "CLOSE", "END"}
    OBVIOUS
  <2> HIDE DEF K, o, n
  <2>5. Aged(toServer[c], K, o) => Aged(q, K, o)
    BY <1>1, <1>2, <2>1, TailKeeps
  <2>6. Aged(toAgent[c], {"ACCEPTED"}, n) => Aged(toAgent'[c], {"ACCEPTED"}, n)
    BY <1>1 DEF Aged
  <2> QED
    BY <1>1, <2>2, <2>3, <2>4, <2>5, <2>6 DEF Awaited
<1>3. ASSUME NEW m \in Kinds, NEW r, Reply(c, e, ms, q, m, r)
      PROVE  Awaited(c)'
  <2>1. /\ srv[c].ws = "open" /\ e.timer = srv[c].timer
        /\ toServer[c] # <<>> /\ q = Tail(toServer[c]) /\ Head(toServer[c]).m = m
        /\ m \notin {"CLOSE", "END"}
    BY <1>3 DEF Reply
  <2>2. m # "HELLO"
    BY <1>3, <2>1 DEF Reply
  <2> QED
    BY <1>2, <2>1, <2>2
<1>4. CASE Accepts(c, e, ms, q)
  <2>1. /\ e.timer = HelloTimeout /\ "CONNECT" \in Names(toServer[c])
        /\ toServer[c] # <<>> /\ q = Tail(toServer[c]) /\ Head(toServer[c]).m = "CONNECT"
    BY <1>1, <1>4 DEF Accepts, NoEnd
  <2>2. CASE agent.conn = c
    <3>1. "CONNECT" \in SaidIn(agent.phase)
      BY <1>1, <2>1, <2>2 DEF Slotted
    <3>2. agent.phase = "connecting"
      BY <3>1 DEF SaidIn
    <3>3. "ACCEPTED" \in Names(toAgent'[c])
      BY <1>4, <2>2, SrvTells
    <3> DEFINE A == {"ACCEPTED"}
               s == toAgent'[c]
    <3>4. Names(s) \cap A # {} /\ Queue(s)
      BY <1>1, <3>3
    <3>5. A = {"ACCEPTED"} /\ s = toAgent'[c]
      OBVIOUS
    <3> HIDE DEF A, s
    <3>6. Aged(s, A, 0)
      BY <3>4, JustSent
    <3>7. HelloTimeout - e.timer = 0
      BY <2>1, Numbers
    <3> QED
      BY <1>1, <2>2, <3>2, <3>5, <3>6, <3>7 DEF Awaited
  <2>3. CASE agent.conn # c
    <3>1. Names(toServer[c]) \cap Bye # {} /\ Head(toServer[c]).m \notin Bye
      BY <2>1, <2>3 DEF Served, Bye
    <3>2. Names(q) \cap Bye # {}
      BY <1>1, <2>1, <3>1, TailKeeps
    <3>3. Names(q) \cap K # {}
      BY <3>2 DEF Bye
    <3>4. K = {"HELLO", "CLOSE", "END"}
      OBVIOUS
    <3> HIDE DEF K
    <3> DEFINE o == HelloTimeout - Latency - e.timer
    <3>5. o \in Int /\ o <= 0
      BY <2>1, Numbers
    <3> HIDE DEF o
    <3>6. Aged(q, K, o)
      BY <1>1, <3>3, <3>5, JustSent
    <3> QED
      BY <1>1, <3>4, <3>6 DEF Awaited, o
  <2> QED
    BY <2>2, <2>3
<1>5. CASE Beats(c, e, ms, q)
  <2>1. srv[c].ws = "open" /\ e.timer = srv[c].timer /\ q = toServer[c]
    BY <1>1, <1>5 DEF Beats, EndType
  <2> QED
    BY <1>2, <2>1
<1>6. ~Over(c, e, ms, q)
  BY DEF Over, NoEnd
<1>7. ~CloseBegins(c, e, ms, q)
  BY <1>1 DEF CloseBegins, Closing, EndType
<1>8. ~Ignores(c, e, ms, q)
  BY DEF Ignores
<1> QED
  BY <1>3, <1>4, <1>5, <1>6, <1>7, <1>8 DEF SrvKind

\* While the server has missed signs of life.
LEMMA SrvAnswered ==
  ASSUME IInv, NEW c, NEW e, NEW ms, NEW q, SrvTurn(c, e, ms, q), SrvKind(c, e, ms, q),
         Served(c), Answered(c)
  PROVE  Answered(c)'
<1>1. /\ c \in Conns /\ Queue(toServer[c]) /\ Queue(toAgent'[c])
      /\ srv'[c] = e /\ toServer'[c] = q /\ agent' = agent /\ link' = link
      /\ srv[c] \in EndType /\ e \in EndType
      /\ Mail(toAgent[c]) \subseteq Mail(toAgent'[c])
      /\ Names(q) \subseteq Names(toServer[c])
  BY SrvReads
<1> SUFFICES ASSUME link[c] = "ok", e.ws = "open", e.misses # 0
             PROVE  Answered(c)'
  BY <1>1 DEF Answered
<1>2. Beats(c, e, ms, q)
  <2>1. ASSUME NEW m, NEW r, Reply(c, e, ms, q, m, r) PROVE FALSE
    <3>1. e.misses = 0
      BY <2>1 DEF Reply
    <3> QED
      BY <3>1
  <2>2. ~Over(c, e, ms, q)
    BY DEF Over, NoEnd
  <2>3. ~Accepts(c, e, ms, q)
    BY DEF Accepts, NoEnd
  <2>4. ~Ignores(c, e, ms, q)
    BY DEF Ignores
  <2>5. ~CloseBegins(c, e, ms, q)
    BY <1>1 DEF CloseBegins, Closing, EndType
  <2> QED
    BY <2>1, <2>2, <2>3, <2>4, <2>5 DEF SrvKind
<1>3. /\ srv[c].ws = "open" /\ q = toServer[c] /\ srv[c].tickIn = 0
      /\ e.misses = srv[c].misses + 1 /\ e.tickIn = Heartbeat
  BY <1>1, <1>2 DEF Beats, EndType
<1>4. /\ Silence(c) = srv[c].misses * Heartbeat /\ Silence(c)' = Silence(c)
      /\ Silence(c) \in Int
  <2> DEFINE a == srv[c].misses
  <2>1. a \in Nat /\ Heartbeat \in Nat
    BY <1>1, Numbers DEF EndType
  <2>2. /\ Silence(c) = a * Heartbeat - 0
        /\ Silence(c)' = (a + 1) * Heartbeat - Heartbeat
    BY <1>1, <1>3 DEF Silence
  <2> HIDE DEF a
  <2>3. (a + 1) * Heartbeat = a * Heartbeat + Heartbeat /\ a * Heartbeat \in Int
    BY <2>1
  <2> QED
    BY <2>1, <2>2, <2>3 DEF a
<1> DEFINE n == Silence(c)
           o == Silence(c) - Latency
<1>5. n \in Int /\ o \in Int /\ n = Silence(c)' /\ o = Silence(c)' - Latency
  BY <1>4, Numbers
<1>6. CASE srv[c].misses # 0
  <2>1. \/ Aged(toServer[c], Kinds, o)
        \/ /\ agent.conn = c /\ agent.phase \in Working
           /\ Aged(toAgent[c], {"PING"}, n)
    BY <1>3, <1>6 DEF Answered
  <2> HIDE DEF n, o
  <2>2. Aged(toAgent[c], {"PING"}, n) => Aged(toAgent'[c], {"PING"}, n)
    BY <1>1 DEF Aged
  <2> QED
    BY <1>1, <1>3, <1>5, <2>1, <2>2 DEF Answered
<1>7. CASE srv[c].misses = 0
  <2>1. n = 0 /\ o <= 0
    BY <1>4, <1>7, Numbers
  <2> HIDE DEF n, o
  <2>2. CASE agent.conn = c /\ agent.phase \in Working
    <3>1. "PING" \in Names(toAgent'[c])
      BY <1>2, <2>2, SrvTells
    <3> DEFINE A == {"PING"}
               s == toAgent'[c]
    <3>2. Names(s) \cap A # {} /\ Queue(s)
      BY <1>1, <3>1
    <3>3. A = {"PING"} /\ s = toAgent'[c]
      OBVIOUS
    <3> HIDE DEF A, s
    <3>4. Aged(s, A, n)
      BY <1>5, <2>1, <3>2, JustSent
    <3> QED
      BY <1>1, <1>5, <2>2, <3>3, <3>4 DEF Answered
  <2>3. CASE ~(agent.conn = c /\ agent.phase \in Working)
    <3>1. Names(toServer[c]) \cap Bye # {}
      BY <1>3, <2>3 DEF Served
    <3>2. Names(toServer[c]) \cap Kinds # {}
      BY <3>1 DEF Bye, Kinds
    <3>3. Aged(toServer[c], Kinds, o)
      BY <1>1, <1>5, <2>1, <3>2, JustSent
    <3> QED
      BY <1>1, <1>3, <1>5, <3>3 DEF Answered
  <2> QED
    BY <2>2, <2>3
<1> QED
  BY <1>6, <1>7

\* A message under way is a tick older after a tick.
LEMMA Later ==
  ASSUME NEW q, Queue(q), ~Overdue(q), NEW K, NEW n \in Int, NEW m \in Int, m <= n + 1,
         Aged(q, K, n)
  PROVE  Aged(Older(q), K, m)
<1>1. PICK x \in Mail(q) : x.m \in K /\ n <= x.age
  BY DEF Aged
<1>2. x \in MailType /\ x.age \in Nat
  BY <1>1, MailTyped
<1> DEFINE y == [x EXCEPT !.age = @ + 1]
<1>3. y \in Mail(Older(q))
  BY <1>1, MailOlder
<1>4. y.m = x.m /\ y.age = x.age + 1
  BY <1>2 DEF MailType
<1> HIDE DEF y
<1> QED
  BY <1>1, <1>2, <1>3, <1>4 DEF Aged

\* A tick takes at most one from a timer, and stops none.
LEMMA Runs ==
  ASSUME NEW x \in Int
  PROVE  /\ Elapse(x) \in Int /\ x - 1 <= Elapse(x)
         /\ Elapse(x) # Off => x # Off
BY DEF Elapse, Off

\* Time.
LEMMA TickPrompt ==
  ASSUME IInv, Tick, NEW c \in Conns
  PROVE  Waited(c) => Waited(c)'
<1>1. /\ agent'.phase = agent.phase /\ agent'.conn = agent.conn
      /\ agent'.timer = Elapse(agent.timer) /\ agent'.pongIn = Elapse(agent.pongIn)
      /\ agent \in AgentType
  BY AgentTicked
<1>2. agent.timer \in Int /\ agent.pongIn \in Int
  BY <1>1, Numbers DEF AgentType, UpTo
<1>3. /\ srv[c] \in EndType /\ srv'[c].ws = srv[c].ws /\ srv'[c].misses = srv[c].misses
      /\ srv'[c].timer = Elapse(srv[c].timer)
      /\ toServer'[c] = Older(toServer[c]) /\ toAgent'[c] = Older(toAgent[c])
      /\ Queue(toServer[c]) /\ Queue(toAgent[c])
      /\ ~Overdue(toServer[c]) /\ ~Overdue(toAgent[c])
  BY Ticked
<1>4. srv[c].timer \in Int
  BY <1>3 DEF EndType
<1>5. link' = link
  BY DEF Tick
<1>6. Names(toServer'[c]) = Names(toServer[c]) /\ Names(toAgent'[c]) = Names(toAgent[c])
  BY <1>3, MailOlder
<1>7. Served(c) => Served(c)'
  BY <1>1, <1>3, <1>5, <1>6 DEF Served
<1>8. ASSUME NEW K, NEW n \in Int, NEW m \in Int, m <= n + 1
      PROVE  /\ Aged(toServer[c], K, n) => Aged(toServer'[c], K, m)
             /\ Aged(toAgent[c], K, n) => Aged(toAgent'[c], K, m)
  BY <1>3, <1>8, Later
<1>9. Greeted(c) => Greeted(c)'
  <2> SUFFICES ASSUME Greeted(c), link[c] = "ok", agent.conn = c, agent.phase = "hello"
               PROVE  Greeted(c)'
    BY <1>1, <1>5 DEF Greeted
  <2> DEFINE K == {"HELLO_OK", "REJECTED", "CLOSE", "END"}
             A == {"HELLO"}
             n == HandshakeTimeout - Latency - agent.timer
             o == HandshakeTimeout - agent.timer
             n1 == HandshakeTimeout - Latency - agent'.timer
             o1 == HandshakeTimeout - agent'.timer
  <2>1. /\ n \in Int /\ o \in Int /\ n1 \in Int /\ o1 \in Int
        /\ n1 <= n + 1 /\ o1 <= o + 1
    BY <1>1, <1>2, Numbers, Runs
  <2>2. Aged(toAgent[c], K, n) \/ (srv[c].ws = "open" /\ Aged(toServer[c], A, o))
    BY DEF Greeted
  <2>3. Aged(toAgent'[c], K, n1) \/ (srv[c].ws = "open" /\ Aged(toServer'[c], A, o1))
        => Greeted(c)'
    BY <1>3 DEF Greeted
  <2> HIDE DEF K, A, n, o, n1, o1
  <2> QED
    BY <1>8, <2>1, <2>2, <2>3
<1>10. Ponged(c) => Ponged(c)'
  <2> SUFFICES ASSUME Ponged(c), link[c] = "ok", agent.conn = c, agent.phase = "up",
                      agent'.pongIn # Off
               PROVE  Ponged(c)'
    BY <1>1, <1>5 DEF Ponged
  <2> DEFINE K == {"PONG", "CLOSE", "END", "REJECTED"}
             A == {"PING"}
             n == PingTimeout - Latency - agent.pongIn
             o == PingTimeout - agent.pongIn
             n1 == PingTimeout - Latency - agent'.pongIn
             o1 == PingTimeout - agent'.pongIn
  <2>1. /\ n \in Int /\ o \in Int /\ n1 \in Int /\ o1 \in Int
        /\ n1 <= n + 1 /\ o1 <= o + 1
    BY <1>1, <1>2, Numbers, Runs
  <2>2. Aged(toAgent[c], K, n) \/ (srv[c].ws = "open" /\ Aged(toServer[c], A, o))
    BY <1>1, <1>2, Runs DEF Ponged
  <2>3. Aged(toAgent'[c], K, n1) \/ (srv[c].ws = "open" /\ Aged(toServer'[c], A, o1))
        => Ponged(c)'
    BY <1>3 DEF Ponged
  <2> HIDE DEF K, A, n, o, n1, o1
  <2> QED
    BY <1>8, <2>1, <2>2, <2>3
<1>11. Awaited(c) => Awaited(c)'
  <2> SUFFICES ASSUME Awaited(c), link[c] = "ok", srv[c].ws = "open", srv'[c].timer # Off
               PROVE  Awaited(c)'
    BY <1>3, <1>5 DEF Awaited
  <2> DEFINE K == {"HELLO", "CLOSE", "END"}
             A == {"ACCEPTED"}
             n == HelloTimeout - Latency - srv[c].timer
             o == HelloTimeout - srv[c].timer
             n1 == HelloTimeout - Latency - srv'[c].timer
             o1 == HelloTimeout - srv'[c].timer
             B == agent.conn = c /\ agent.phase = "connecting"
  <2>1. /\ n \in Int /\ o \in Int /\ n1 \in Int /\ o1 \in Int
        /\ n1 <= n + 1 /\ o1 <= o + 1
    BY <1>3, <1>4, Numbers, Runs
  <2>2. Aged(toServer[c], K, n) \/ (B /\ Aged(toAgent[c], A, o))
    BY <1>3, <1>4, Runs DEF Awaited
  <2>3. Aged(toServer'[c], K, n1) \/ (B /\ Aged(toAgent'[c], A, o1)) => Awaited(c)'
    BY <1>1 DEF Awaited
  <2> HIDE DEF K, A, n, o, n1, o1, B
  <2> QED
    BY <1>8, <2>1, <2>2, <2>3
<1>12. Answered(c) => Answered(c)'
  <2> SUFFICES ASSUME Answered(c), link[c] = "ok", srv[c].ws = "open", srv[c].misses # 0
               PROVE  Answered(c)'
    BY <1>3, <1>5 DEF Answered
  <2> DEFINE A == {"PING"}
             n == Silence(c) - Latency
             o == Silence(c)
             n1 == Silence(c)' - Latency
             o1 == Silence(c)'
             B == agent.conn = c /\ agent.phase \in Working
  <2>1. /\ n \in Int /\ o \in Int /\ n1 \in Int /\ o1 \in Int
        /\ n1 <= n + 1 /\ o1 <= o + 1
    BY SilenceGrows, Numbers
  <2>2. Aged(toServer[c], Kinds, n) \/ (B /\ Aged(toAgent[c], A, o))
    BY DEF Answered
  <2>3. Aged(toServer'[c], Kinds, n1) \/ (B /\ Aged(toAgent'[c], A, o1)) => Answered(c)'
    BY <1>1 DEF Answered
  <2> HIDE DEF A, n, o, n1, o1, B
  <2> QED
    BY <1>8, <2>1, <2>2, <2>3
<1> QED
  BY <1>7, <1>9, <1>10, <1>11, <1>12 DEF Waited

\* A restart tells the agent: the kernel closes its connection.
LEMMA RestartPrompt ==
  ASSUME IInv, ServerRestart, NEW c \in Conns
  PROVE  Waited(c) => Waited(c)'
<1>1. /\ srv'[c] = NoEnd /\ toServer'[c] = <<>>
      /\ Mail(toAgent[c]) \subseteq Mail(toAgent'[c])
      /\ Names(toAgent[c]) \subseteq Names(toAgent'[c])
      /\ Queue(toAgent'[c])
      /\ link[c] = "ok" /\ agent.conn = c /\ ServerThere(c) => "END" \in Names(toAgent'[c])
  BY RestartInv
<1>2. agent' = agent /\ link' = link
  BY DEF ServerRestart
<1>3. Queue(toServer[c])
  BY DEF IInv, Linked
<1>4. agent \in AgentType /\ srv'[c].ws = "none" /\ Names(toServer'[c]) = {}
  BY <1>1, Typed, NoMail DEF IInv, NoEnd
<1>5. agent.timer \in Int /\ agent.pongIn \in Int
  BY <1>4, Numbers DEF AgentType, UpTo
<1>6. srv[c].ws = "open" \/ "CONNECT" \in Names(toServer[c]) => ServerThere(c)
  BY NoMail DEF ServerThere
<1>7. Served(c) => Served(c)'
  BY <1>1, <1>2, <1>4, <1>6 DEF Served
<1>8. ASSUME NEW K, "END" \in K, NEW A, NEW n \in Int, NEW o \in Int,
             o <= Latency => n <= 0, link[c] = "ok", agent.conn = c,
             Aged(toAgent[c], K, n) \/ (srv[c].ws = "open" /\ Aged(toServer[c], A, o))
      PROVE  Aged(toAgent'[c], K, n)
  <2>1. Aged(toAgent[c], K, n) => Aged(toAgent'[c], K, n)
    BY <1>1 DEF Aged
  <2>2. ASSUME srv[c].ws = "open", Aged(toServer[c], A, o) PROVE Aged(toAgent'[c], K, n)
    <3>1. n <= 0
      BY <1>3, <1>8, <2>2, AgedLaws
    <3> DEFINE s == toAgent'[c]
    <3>2. Queue(s) /\ Names(s) \cap K # {}
      BY <1>1, <1>6, <1>8, <2>2
    <3> HIDE DEF s
    <3>3. Aged(s, K, n)
      BY <3>1, <3>2, JustSent
    <3> QED
      BY <3>3 DEF s
  <2> QED
    BY <1>8, <2>1, <2>2
<1>9. Greeted(c) => Greeted(c)'
  <2> SUFFICES ASSUME Greeted(c), link[c] = "ok", agent.conn = c, agent.phase = "hello"
               PROVE  Greeted(c)'
    BY <1>2 DEF Greeted
  <2> DEFINE K == {"HELLO_OK", "REJECTED", "CLOSE", "END"}
             A == {"HELLO"}
             n == HandshakeTimeout - Latency - agent.timer
             o == HandshakeTimeout - agent.timer
  <2>1. "END" \in K /\ n \in Int /\ o \in Int /\ (o <= Latency => n <= 0)
    BY <1>5, Numbers
  <2>2. Aged(toAgent[c], K, n) \/ (srv[c].ws = "open" /\ Aged(toServer[c], A, o))
    BY DEF Greeted
  <2>3. Aged(toAgent'[c], K, n) => Greeted(c)'
    BY <1>2 DEF Greeted
  <2> HIDE DEF K, A, n, o
  <2> QED
    BY <1>8, <2>1, <2>2, <2>3
<1>10. Ponged(c) => Ponged(c)'
  <2> SUFFICES ASSUME Ponged(c), link[c] = "ok", agent.conn = c, agent.phase = "up",
                      agent.pongIn # Off
               PROVE  Ponged(c)'
    BY <1>2 DEF Ponged
  <2> DEFINE K == {"PONG", "CLOSE", "END", "REJECTED"}
             A == {"PING"}
             n == PingTimeout - Latency - agent.pongIn
             o == PingTimeout - agent.pongIn
  <2>1. "END" \in K /\ n \in Int /\ o \in Int /\ (o <= Latency => n <= 0)
    BY <1>5, Numbers
  <2>2. Aged(toAgent[c], K, n) \/ (srv[c].ws = "open" /\ Aged(toServer[c], A, o))
    BY DEF Ponged
  <2>3. Aged(toAgent'[c], K, n) => Ponged(c)'
    BY <1>2 DEF Ponged
  <2> HIDE DEF K, A, n, o
  <2> QED
    BY <1>8, <2>1, <2>2, <2>3
<1>11. Awaited(c)' /\ Answered(c)'
  BY <1>4 DEF Awaited, Answered
<1> QED
  BY <1>7, <1>9, <1>10, <1>11 DEF Waited

\* The other steps keep what ends a wait on its way.
LEMMA RestPrompt ==
  ASSUME IInv, NEW c \in Conns, Waited(c),
         StartSession \/ (\E k \in Conns : LinkDies(k)) \/ ServerRestart
  PROVE  Waited(c)'
<1>1. CASE StartSession
  <2>1. PICK k \in Conns : Opens(k) /\ \A x \in Conns : x # k => Same(x)
    BY <1>1, AgtOpens
  <2>2. CASE c # k
    BY <2>1, <2>2, Elsewhere
  <2>3. CASE c = k
    <3>1. agent \in AgentType /\ toServer \in [Conns -> Seq(MailType)]
      BY Typed DEF IInv, Queued
    <3>2. /\ agent'.conn = c /\ agent'.phase = "connecting" /\ srv'[c].ws = "none"
          /\ toServer'[c] = Fresh(<<"CONNECT">>)
      BY <2>1, <2>3, <3>1 DEF Opens, AgentType
    <3>3. "CONNECT" \in Names(toServer'[c])
      BY <3>2, Sayings
    <3> QED
      BY <3>2, <3>3 DEF Waited, Served, Greeted, Ponged, Awaited, Answered, Working
  <2> QED
    BY <2>2, <2>3
<1>2. ASSUME NEW k \in Conns, LinkDies(k)
      PROVE  Waited(c)'
  <2>1. CASE c # k
    BY <1>2, <2>1, DeathInv, Elsewhere
  <2>2. CASE c = k
    <3>1. link'[c] = "dead"
      BY <1>2, <2>2, DeathInv
    <3> QED
      BY <3>1 DEF Waited, Served, Greeted, Ponged, Awaited, Answered
  <2> QED
    BY <2>1, <2>2
<1> QED
  BY <1>1, <1>2, RestartPrompt

\* Every step keeps what ends a wait on its way.
LEMMA PromptKept ==
  ASSUME IInv, Prompt, [Next]_vars
  PROVE  Prompt'
<1> SUFFICES ASSUME NEW c \in Conns PROVE Waited(c)'
  BY UnaskedKept DEF Prompt, Waited
<1>1. Waited(c) /\ Unasked
  BY DEF Prompt, Waited
<1>2. ASSUME Same(c) PROVE Waited(c)'
  BY <1>1, <1>2, Elsewhere
<1>3. ASSUME NEW k \in Conns, agent.conn = k, AgentOn(k)
      PROVE  Waited(c)'
  <2>1. CASE c = k
    BY <1>1, <1>3, <2>1, AgtServed, AgtGreeted, AgtPonged, AgtAwaited, AgtAnswered DEF Waited
  <2>2. CASE c # k
    <3>1. PICK q, p : AgtTurn(k, q, p)
      BY <1>3, AgtOnKept
    <3>2. Same(c)
      BY <2>2, <3>1, AgtTurned
    <3> QED
      BY <1>2, <3>2
  <2> QED
    BY <2>1, <2>2
<1>4. ASSUME NEW k \in Conns, ServerStep(k)
      PROVE  Waited(c)'
  <2>1. PICK e, ms, q : SrvTurn(k, e, ms, q) /\ SrvKind(k, e, ms, q)
    BY <1>4, SrvStepKind
  <2>2. CASE c = k
    BY <1>1, <2>1, <2>2, SrvServed, SrvGreeted, SrvPonged, SrvAwaited, SrvAnswered DEF Waited
  <2>3. CASE c # k
    <3>1. Same(c)
      BY <2>1, <2>3, SrvTurned
    <3> QED
      BY <1>2, <3>1
  <2> QED
    BY <2>2, <2>3
<1>5. CASE Tick
  BY <1>1, <1>5, TickPrompt
<1>6. CASE StopWaiting \/ (Stop /\ agent.phase = "waiting")
  BY <1>2, <1>6, AgtIdles
<1>7. CASE UNCHANGED vars
  BY <1>2, <1>7, StutterInv
<1> QED
  BY <1>1, <1>3, <1>4, <1>5, <1>6, <1>7, AgtSplit, RestPrompt DEF Next, System

\* In the beginning nobody waits.
LEMMA InitPrompt ==
  ASSUME Init
  PROVE  Prompt
<1>1. agent.phase = "waiting" /\ agent.pongIn = Off /\ agent.conn = NoConn
  BY DEF Init, Waiting
<1>2. ASSUME NEW c \in Conns
      PROVE  Names(toServer[c]) = {} /\ srv[c].ws = "none"
  BY <1>2, NoMail DEF Init, NoEnd
<1> QED
  BY <1>1, <1>2 DEF Prompt, Unasked, Served, Greeted, Ponged, Awaited, Answered, Working

\* Every deadline leaves a message and its answer the time they may take.
RoomForAnswers ==
  /\ HandshakeTimeout > 2 * Latency /\ HelloTimeout > 2 * Latency
  /\ PingTimeout = 0 \/ PingTimeout > 2 * Latency
  /\ HeartbeatMisses * Heartbeat > 2 * Latency

\* With a live link, an agent lets go of a session only when it is told to.
LEMMA AgentToldFirst ==
  ASSUME IInv, Prompt, [Next]_vars, RoomForAnswers,
         agent.phase \in {"hello", "up"}, agent'.conn # agent.conn
  PROVE  link[agent.conn] = "dead" \/ Told(toAgent[agent.conn])
<1>1. agent \in AgentType /\ agent.conn # NoConn
  BY Typed DEF IInv, Phased, Busy
<1>2. PICK c \in Conns : agent.conn = c
  BY <1>1 DEF AgentType
<1>3. Waited(c) /\ Unasked /\ Linked(c)
  BY DEF Prompt, Waited, IInv
<1>4. link[c] \in {"ok", "dead"}
  BY Typed DEF IInv
<1>5. Latency \in Nat /\ Queue(toServer[c]) /\ Queue(toAgent[c])
  BY <1>3, Numbers DEF Linked
<1>6. CASE SessionTimeout
  <2> SUFFICES ASSUME link[c] = "ok" PROVE FALSE
    BY <1>2, <1>4
  <2>1. agent.phase = "hello" /\ agent.timer = 0
    BY <1>6 DEF SessionTimeout
  <2> DEFINE K == {"HELLO_OK", "REJECTED", "CLOSE", "END"}
             A == {"HELLO"}
             n == HandshakeTimeout - Latency - agent.timer
             o == HandshakeTimeout - agent.timer
  <2>2. Aged(toAgent[c], K, n) \/ Aged(toServer[c], A, o)
    BY <1>2, <1>3, <2>1 DEF Waited, Greeted
  <2>3. n \in Int /\ o \in Int /\ n > Latency /\ o > Latency
    BY <2>1, Numbers DEF RoomForAnswers
  <2> HIDE DEF K, A, n, o
  <2> QED
    BY <1>5, <2>2, <2>3, AgedLaws
<1>7. CASE PongDeadline
  <2> SUFFICES ASSUME link[c] = "ok" PROVE FALSE
    BY <1>2, <1>4
  <2>1. agent.phase = "up" /\ agent.pongIn = 0 /\ agent.pongIn # Off
    BY <1>7, Numbers DEF PongDeadline
  <2> DEFINE K == {"PONG", "CLOSE", "END", "REJECTED"}
             A == {"PING"}
             n == PingTimeout - Latency - agent.pongIn
             o == PingTimeout - agent.pongIn
  <2>2. Aged(toAgent[c], K, n) \/ Aged(toServer[c], A, o)
    BY <1>2, <1>3, <2>1 DEF Waited, Ponged
  <2>3. n \in Int /\ o \in Int /\ n > Latency /\ o > Latency
    BY <1>3, <2>1, Numbers DEF RoomForAnswers, Unasked
  <2> HIDE DEF K, A, n, o
  <2> QED
    BY <1>5, <2>2, <2>3, AgedLaws
<1>8. CASE OnRejected(c) \/ OnClose(c)
  BY <1>2, <1>8 DEF OnRejected, OnClose, Message, Told
<1>9. CASE OnOpen(c) \/ OnHelloOk(c) \/ OnTunnelReply(c) \/ OnPong(c) \/ OnLate(c)
           \/ OnPing(c) \/ PingDue \/ (Stop /\ agent.phase # "waiting")
  BY <1>2, <1>9, AgtHandles DEF Handles, Stays
<1>10. ~Refused
  BY DEF Refused
<1>11. ~StartSession /\ ~StopWaiting /\ ~(Stop /\ agent.phase = "waiting")
  BY DEF StartSession, StopWaiting
<1>12. CASE AgentStep \/ Refused \/ Stop
  <2>1. AgentOn(c)
    BY <1>2, <1>11, <1>12, AgtSplit
  <2> QED
    BY <1>6, <1>7, <1>8, <1>9, <1>10, <2>1 DEF AgentOn
<1>13. ASSUME NEW k \in Conns, ServerStep(k) PROVE FALSE
  <2>1. agent' = agent
    BY <1>13, SrvStepKind, SrvTurned
  <2> QED
    BY <2>1
<1>14. ~Tick
  BY AgentTicked
<1>15. ~(\E k \in Conns : LinkDies(k)) /\ ~ServerRestart /\ ~UNCHANGED vars
  BY DEF LinkDies, ServerRestart, vars
<1> QED
  BY <1>12, <1>13, <1>14, <1>15 DEF Next, System

\* With a live link, the server ends a session only when it is told to.
LEMMA ServerToldFirst ==
  ASSUME IInv, Prompt, [Next]_vars, RoomForAnswers, NEW c \in Conns,
         srv[c].ws = "open", known, srv'[c].ws # "open"
  PROVE  link[c] = "dead" \/ Told(toServer[c]) \/ faults' # faults
<1>1. Waited(c) /\ Linked(c)
  BY DEF Prompt, Waited, IInv
<1>2. link[c] \in {"ok", "dead"} /\ srv[c] \in EndType
  BY Typed DEF IInv
<1>3. Latency \in Nat /\ Queue(toServer[c]) /\ Queue(toAgent[c])
  BY <1>1, Numbers DEF Linked
<1>4. ASSUME NEW k \in Conns, ServerStep(k)
      PROVE  link[c] = "dead" \/ Told(toServer[c])
  <2>1. PICK e, ms, q : SrvTurn(k, e, ms, q) /\ SrvKind(k, e, ms, q)
    BY <1>4, SrvStepKind
  <2>2. k = c
    BY <2>1, SrvTurned, ZenonT(60) DEF Same
  <2>3. e.ws # "open"
    BY <2>1, <2>2, SrvTurned
  <2> SUFFICES ASSUME link[c] = "ok" PROVE Told(toServer[c])
    BY <1>2
  <2>4. CASE Over(c, e, ms, q)
    <3> SUFFICES ASSUME srv[c].tickIn = 0, srv[c].misses >= HeartbeatMisses
                 PROVE  FALSE
      BY <2>4 DEF Over, Told, Bye
    <3> DEFINE m == srv[c].misses
               M == HeartbeatMisses
               H == Heartbeat
    <3>1. /\ m \in Nat /\ M \in Nat /\ H \in Nat /\ m >= M /\ M # 0
          /\ M * H > 2 * Latency /\ Silence(c) = m * H - 0
      BY <1>2, Numbers DEF EndType, Silence, RoomForAnswers
    <3>2. m # 0
      BY <3>1
    <3> HIDE DEF m, M, H
    <3>3. m * H >= M * H /\ m * H \in Int /\ M * H \in Int
      BY <3>1
    <3> DEFINE a == m * H
               b == M * H
               o == Silence(c)
               n == Silence(c) - Latency
               A == {"PING"}
    <3>4. a \in Int /\ b \in Int /\ a >= b /\ b > 2 * Latency /\ o = a - 0
      BY <3>1, <3>3
    <3>5. Aged(toServer[c], Kinds, n) \/ Aged(toAgent[c], A, o)
      BY <1>1, <3>2 DEF Waited, Answered, m
    <3> HIDE DEF a, b, o, A
    <3>6. n \in Int /\ o \in Int /\ n > Latency /\ o > Latency
      BY <1>3, <3>4 DEF o
    <3> HIDE DEF n
    <3> QED
      BY <1>3, <3>5, <3>6, AgedLaws
  <2>5. ~CloseBegins(c, e, ms, q)
    <3> SUFFICES ASSUME srv[c].timer = 0 PROVE FALSE
      BY DEF CloseBegins
    <3> DEFINE K == {"HELLO", "CLOSE", "END"}
               A == {"ACCEPTED"}
               n == HelloTimeout - Latency - srv[c].timer
               o == HelloTimeout - srv[c].timer
    <3>1. srv[c].timer # Off
      BY Numbers
    <3>2. Aged(toServer[c], K, n) \/ Aged(toAgent[c], A, o)
      BY <1>1, <3>1 DEF Waited, Awaited
    <3>3. n \in Int /\ o \in Int /\ n > Latency /\ o > Latency
      BY Numbers DEF RoomForAnswers
    <3> HIDE DEF K, A, n, o
    <3> QED
      BY <1>3, <3>2, <3>3, AgedLaws
  <2>6. \A m, r : ~Reply(c, e, ms, q, m, r)
    <3>1. ASSUME NEW m, NEW r, Reply(c, e, ms, q, m, r) PROVE FALSE
      <4>1. e.ws = srv[c].ws
        BY <3>1 DEF Reply
      <4> QED
        BY <2>3, <4>1
    <3> QED
      BY <3>1
  <2>7. ~Accepts(c, e, ms, q)
    BY <2>3 DEF Accepts, NoEnd
  <2>8. ~Beats(c, e, ms, q)
    BY <1>2, <2>3 DEF Beats, EndType
  <2>9. ~Ignores(c, e, ms, q)
    BY DEF Ignores
  <2> QED
    BY <2>1, <2>2, <2>4, <2>5, <2>6, <2>7, <2>8, <2>9 DEF SrvKind
<1>5. CASE ServerRestart
  BY <1>5, FaultCounted, Typed DEF ServerRestart, IInv
<1>6. ASSUME NEW k \in Conns, agent.conn = k, AgentOn(k) PROVE FALSE
  BY <1>6, AgtMoves
<1>7. ~(StopWaiting \/ (Stop /\ agent.phase = "waiting")) /\ ~UNCHANGED vars
  BY AgtIdles, StutterInv DEF Same
<1>8. ~StartSession
  BY DEF StartSession
<1>9. ASSUME NEW k \in Conns, LinkDies(k) PROVE FALSE
  BY <1>9 DEF LinkDies
<1>10. ~Tick
  BY Ticked
<1> QED
  BY <1>4, <1>5, <1>6, <1>7, <1>8, <1>9, <1>10, AgtSplit DEF Next, System

\* No step of either side gives a session up whose link works and whose other end
\* is there: neither the deadline for the answer to HELLO nor the one for HELLO,
\* neither the agent's heartbeat nor the server's.
THEOREM NoFalseAlarms ==
  ASSUME RoomForAnswers
  PROVE  Spec => NoFalseAlarm
<1> DEFINE PInv == IInv /\ Prompt
<1>1. Init => PInv
  BY InitInv, InitPrompt
<1>2. PInv /\ [Next]_vars => PInv'
  BY Inductive, PromptKept
<1> DEFINE Right ==
             /\ agent.phase \in {"hello", "up"} /\ agent'.conn # agent.conn
                  => link[agent.conn] = "dead" \/ Told(toAgent[agent.conn])
             /\ \A c \in Conns :
                  srv[c].ws = "open" /\ known /\ srv'[c].ws # "open"
                    => \/ link[c] = "dead"
                       \/ Told(toServer[c])
                       \/ faults' # faults
<1>3. PInv /\ [Next]_vars => [Right]_vars
  <2> SUFFICES ASSUME IInv, Prompt, [Next]_vars PROVE Right
    OBVIOUS
  <2>1. agent.phase \in {"hello", "up"} /\ agent'.conn # agent.conn
          => link[agent.conn] = "dead" \/ Told(toAgent[agent.conn])
    BY AgentToldFirst
  <2>2. ASSUME NEW c \in Conns, srv[c].ws = "open", known, srv'[c].ws # "open"
        PROVE  link[c] = "dead" \/ Told(toServer[c]) \/ faults' # faults
    BY <2>2, ServerToldFirst
  <2> QED
    BY <2>1, <2>2
<1>4. NoFalseAlarm <=> [][Right]_vars
  BY DEF NoFalseAlarm
<1> HIDE DEF PInv, Right
<1> QED
  BY <1>1, <1>2, <1>3, <1>4, PTL DEF Spec

=============================================================================
