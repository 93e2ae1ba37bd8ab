--------------------------- MODULE PyOrderProofs ----------------------------
(***************************************************************************)
(* Through the Python agent too, each party reads the other's bytes once,  *)
(* in order and without a gap.                                             *)
(*                                                                         *)
(* Order says of every place on the way (the socket that reads, the frames *)
(* under way, the inbox, the head held back, the connection that writes)   *)
(* which bytes are there, as long as they still can arrive, and that an    *)
(* end of stream under way has all of them before it.                      *)
(***************************************************************************)
EXTENDS PyBridgeProofs

-----------------------------------------------------------------------------
\* Where a byte is.  A byte is its number, so bytes s are those after byte n
\* when From(s, n).
From(s, n) == \A i \in DOMAIN s : s[i] = n + i

\* The bytes of the pieces p, and that they are the ones after byte n.
Total(p) == SumOf([i \in DOMAIN p |-> Len(p[i])])
Runs(p, n) == \A i \in DOMAIN p : From(p[i], n + Total(SubSeq(p, 1, i - 1)))

\* What each frame of a channel carries.
PieceOf(f) == IF f.type = "DATA" THEN f.data ELSE <<>>
Pieces(channel) == [i \in DOMAIN channel |-> PieceOf(channel[i])]

\* A reader that has had n bytes of the said ones will have those of the pieces
\* p next, and if the sender can still tell it, those that wait in inq then.
Way(p, inq, n, said, tells) ==
    /\ Runs(p, n)
    /\ n + Total(p) <= said
    /\ tells => /\ From(inq, n + Total(p))
                /\ n + Total(p) + Len(inq) = said

\* With an end of stream on it, nothing is left behind.
Road(channel, inq, n, said, tells) ==
    /\ Way(Pieces(channel), inq, n, said, tells)
    /\ "EOF" \in TypesIn(channel) => Way(Pieces(channel), <<>>, n, said, TRUE)

\* An end, with the socket it reads from, still passes bytes on; an end, with
\* the socket it writes to, still takes them.
SrvTells == linkUp /\ ~srv.finished /\ ~srv.sentEof /\ ~pub.destroyed
SrvHears == ~srv.finished /\ ~srv.receivedEof /\ ~pub.destroyed
PyTells == linkUp /\ py.toServer # "over" /\ ~loc.lost
PyHears == py.toLocal \in {"off", "get", "drain"} /\ ~loc.lost

\* What the pump to the service still has to come: a finished stream is fed no
\* more, but its pump may go on.
Coming == IF py.finished THEN py.inbox ELSE py.inbox \o toAgent

\* The party behind a socket reads, or will.
ReadBy(sock) == sock.got \o sock.out

\* What the service reads: byte i of it, and how much when n bytes were said.
Rewriting(rewriteHost) == rewriteHost /\ HostByte \in 1..UpBytes
Growth == Len(TargetBytes) - 1
SeenAt(r, i) == IF ~Rewriting(r) \/ i < HostByte THEN i
                ELSE IF i <= HostByte + Growth THEN TargetBytes[i - HostByte + 1]
                ELSE i - Growth
SeenLen(r, n) == IF Rewriting(r) /\ HostByte <= n THEN n + Growth ELSE n
AllSeen(r, s) == \A i \in DOMAIN s : s[i] = SeenAt(r, i)

\* The agent, of whose service will read s, has taken n bytes.  Behind a head
\* that went out no Host value follows.
Taken(st, s, n) ==
    IF st.headDone
    THEN /\ AllSeen(st.rewriteHost, s)
         /\ Len(s) = SeenLen(st.rewriteHost, n)
         /\ Rewriting(st.rewriteHost) => HostByte <= n
    ELSE s = <<>> /\ From(st.headBuf, 0) /\ Len(st.headBuf) = n

\* From the service to the visitor.
Down ==
    /\ From(ReadBy(pub), 0)
    /\ Len(ReadBy(pub)) <= serviceSaid
    /\ SrvHears => Road(toServer, loc.inq, Len(ReadBy(pub)), serviceSaid, PyTells)

\* From the visitor to the service.
Owed(n) == Road(Coming, pub.inq, n, visitorSaid, SrvTells /\ ~py.finished)
Up ==
    /\ AllSeen(py.rewriteHost, ReadBy(loc))
    /\ Len(ReadBy(loc)) <= SeenLen(py.rewriteHost, visitorSaid)
    /\ PyHears /\ ~Refused =>
          \E n \in 0..visitorSaid : Taken(py, ReadBy(loc), n) /\ Owed(n)

\* A head is held back only to be rewritten.
HeadKept == /\ ~py.headDone => py.rewriteHost
            /\ py.headDone => py.headBuf = <<>>

\* An end of stream is the end of all that was said, and of all that is to be.
Ends ==
    /\ DataFirst(py.inbox)
    /\ "EOF" \in TypesIn(py.inbox) =>
           srv.sentEof /\ (py.finished \/ "DATA" \notin TypesIn(toAgent))
    /\ srv.sentEof => pub.fin
    /\ "EOF" \in TypesIn(toServer) => loc.fin

\* A connection that failed holds nothing.
LostEmpty == loc.lost => loc.inq = <<>> /\ loc.out = <<>>

Order == Up /\ Down /\ HeadKept /\ Ends /\ LostEmpty

\* The Host header's value is in the head, and in as much of it as the agent
\* holds back: a rewrite touches nothing else.
HostInHead == HostByte \in 1..UpBytes => HostByte <= HeadEnd /\ HostByte <= MaxHead

-----------------------------------------------------------------------------
\* Pieces.

\* The lengths of pieces are counts.
LEMMA LengthsTyped ==
  ASSUME NEW B, NEW p \in Seq(Seq(B))
  PROVE  /\ [i \in DOMAIN p |-> Len(p[i])] \in Seq(Int)
         /\ [i \in DOMAIN p |-> Len(p[i])] \in Seq(Nat)
         /\ Len([i \in DOMAIN p |-> Len(p[i])]) = Len(p)
         /\ Total(p) \in Nat
<1>1. \A i \in 1..Len(p) : Len(p[i]) \in Nat
  OBVIOUS
<1>2. /\ [i \in 1..Len(p) |-> Len(p[i])] \in Seq(Int)
      /\ [i \in 1..Len(p) |-> Len(p[i])] \in Seq(Nat)
      /\ Len([i \in 1..Len(p) |-> Len(p[i])]) = Len(p)
  BY <1>1
<1>3. DOMAIN p = 1..Len(p)
  OBVIOUS
<1> QED
  BY <1>2, <1>3, SumBounds DEF Total

\* No pieces carry nothing, one piece its bytes, two rows of pieces what both do.
LEMMA TotalLaws ==
  ASSUME NEW B
  PROVE  /\ Total(<<>>) = 0
         /\ \A x \in Seq(B) : Total(<<x>>) = Len(x)
         /\ \A p, q \in Seq(Seq(B)) : Total(p \o q) = Total(p) + Total(q)
<1>1. Total(<<>>) = 0
  <2>1. [i \in DOMAIN <<>> |-> Len(<<>>[i])] = <<>>
    OBVIOUS
  <2> QED
    BY <2>1, SumEmpty DEF Total
<1>2. ASSUME NEW x \in Seq(B) PROVE Total(<<x>>) = Len(x)
  <2>1. [i \in DOMAIN <<x>> |-> Len(<<x>>[i])] = <<Len(x)>>
    OBVIOUS
  <2>2. Len(x) \in Int
    OBVIOUS
  <2> QED
    BY <2>1, <2>2, SumOne DEF Total
<1>3. ASSUME NEW p \in Seq(Seq(B)), NEW q \in Seq(Seq(B))
      PROVE  Total(p \o q) = Total(p) + Total(q)
  <2> DEFINE r == p \o q
             ns == [i \in DOMAIN p |-> Len(p[i])]
             ms == [i \in DOMAIN q |-> Len(q[i])]
             all == [i \in DOMAIN r |-> Len(r[i])]
  <2>1. r \in Seq(Seq(B)) /\ Len(r) = Len(p) + Len(q)
    OBVIOUS
  <2>2. /\ \A i \in 1..Len(p) : r[i] = p[i]
        /\ \A i \in 1..Len(q) : r[Len(p) + i] = q[i]
    OBVIOUS
  <2>3. /\ ns \in Seq(Int) /\ Len(ns) = Len(p)
        /\ ms \in Seq(Int) /\ Len(ms) = Len(q)
    BY LengthsTyped
  <2> HIDE DEF r
  <2>4. all \in Seq(Int) /\ Len(all) = Len(r)
    BY <2>1, LengthsTyped
  <2>5. DOMAIN r = 1..Len(r) /\ DOMAIN p = 1..Len(p) /\ DOMAIN q = 1..Len(q)
        /\ Len(p) \in Nat /\ Len(q) \in Nat
    BY <2>1
  <2>6. /\ \A i \in 1..Len(ns) : all[i] = ns[i]
        /\ \A i \in 1..Len(ms) : all[Len(ns) + i] = ms[i]
    BY <2>1, <2>2, <2>3, <2>5
  <2>7. Len(all) = Len(ns) + Len(ms)
    BY <2>1, <2>3, <2>4
  <2> HIDE DEF ns, ms, all
  <2>8. SumOf(all) = SumOf(ns) + SumOf(ms)
    BY <2>3, <2>4, <2>6, <2>7, SumPieces
  <2> QED
    BY <2>8 DEF Total, ns, ms, all, r
<1> QED
  BY <1>1, <1>2, <1>3

\* Rows of pieces run on from each other.
LEMMA RunsLaws ==
  ASSUME NEW B, NEW n \in Nat
  PROVE  /\ Runs(<<>>, n)
         /\ \A x \in Seq(B) : Runs(<<x>>, n) <=> From(x, n)
         /\ \A p, q \in Seq(Seq(B)) :
               Runs(p \o q, n) <=> Runs(p, n) /\ Runs(q, n + Total(p))
<1>1. Runs(<<>>, n)
  BY DEF Runs
<1>2. ASSUME NEW x \in Seq(B) PROVE Runs(<<x>>, n) <=> From(x, n)
  <2>1. DOMAIN <<x>> = {1} /\ <<x>>[1] = x /\ SubSeq(<<x>>, 1, 1 - 1) = <<>>
    OBVIOUS
  <2>2. n + Total(<<>>) = n
    BY TotalLaws
  <2> QED
    BY <2>1, <2>2 DEF Runs
<1>3. ASSUME NEW p \in Seq(Seq(B)), NEW q \in Seq(Seq(B))
      PROVE  Runs(p \o q, n) <=> Runs(p, n) /\ Runs(q, n + Total(p))
  <2> DEFINE r == p \o q
             At(s, m, i) == From(s[i], m + Total(SubSeq(s, 1, i - 1)))
  <2>1. Len(p) \in Nat /\ Len(q) \in Nat /\ r \in Seq(Seq(B))
        /\ DOMAIN p = 1..Len(p) /\ DOMAIN q = 1..Len(q)
        /\ DOMAIN r = 1..(Len(p) + Len(q))
    OBVIOUS
  <2>2. ASSUME NEW i \in 1..Len(p) PROVE At(r, n, i) <=> At(p, n, i)
    <3>1. r[i] = p[i] /\ SubSeq(r, 1, i - 1) = SubSeq(p, 1, i - 1)
      OBVIOUS
    <3> QED
      BY <3>1
  <2>3. ASSUME NEW j \in 1..Len(q)
        PROVE  At(r, n, Len(p) + j) <=> At(q, n + Total(p), j)
    <3> DEFINE front == SubSeq(q, 1, j - 1)
    <3>1. r[Len(p) + j] = q[j]
      OBVIOUS
    <3>2. front \in Seq(Seq(B)) /\ SubSeq(r, 1, (Len(p) + j) - 1) = p \o front
      <4> DEFINE s == SubSeq(r, 1, (Len(p) + j) - 1)
                 t == p \o front
      <4>1. /\ front \in Seq(Seq(B)) /\ Len(front) = j - 1
            /\ \A i \in 1..(j - 1) : front[i] = q[i]
        OBVIOUS
      <4>2. /\ s \in Seq(Seq(B)) /\ Len(s) = Len(p) + (j - 1)
            /\ \A i \in 1..(Len(p) + (j - 1)) : s[i] = r[i]
        <5> HIDE DEF r
        <5>1. Len(r) = Len(p) + Len(q) /\ (Len(p) + j) - 1 \in 0..Len(r)
          BY <2>1
        <5> DEFINE e == (Len(p) + j) - 1
                   u == SubSeq(r, 1, e)
                   D == Seq(B)
        <5>2. e \in 0..Len(r) /\ e = Len(p) + (j - 1) /\ r \in Seq(D)
          BY <2>1, <5>1
        <5> HIDE DEF e, D
        <5>3. e \in Nat /\ e <= Len(r) /\ \A i \in 1..e : i \in 1..Len(r)
          BY <5>2
        <5>4. u \in Seq(D) /\ Len(u) = e /\ \A i \in 1..e : u[i] = r[i]
          BY ONLY <5>2, <5>3
        <5>5. s = u
          BY DEF e
        <5> HIDE DEF u, s
        <5> QED
          BY <5>2, <5>4, <5>5 DEF D
      <4> HIDE DEF front
      <4>3. /\ t \in Seq(Seq(B)) /\ Len(t) = Len(p) + (j - 1)
            /\ \A i \in 1..Len(p) : t[i] = p[i]
            /\ \A i \in 1..(j - 1) : t[Len(p) + i] = front[i]
        <5>1. t \in Seq(Seq(B)) /\ Len(t) = Len(p) + Len(front)
          BY <4>1, ConcatProperties
        <5>2. \A i \in 1..Len(p) : t[i] = p[i]
          BY <4>1
        <5>3. \A i \in 1..Len(front) : t[Len(p) + i] = front[i]
          BY <4>1
        <5> QED
          BY <4>1, <5>1, <5>2, <5>3
      <4>4. /\ \A i \in 1..Len(p) : r[i] = p[i]
            /\ \A i \in 1..(j - 1) : r[Len(p) + i] = q[i]
        OBVIOUS
      <4> HIDE DEF s, t, r
      <4>5. ASSUME NEW i \in 1..Len(s) PROVE s[i] = t[i]
        <5>1. CASE i <= Len(p)
          <6>1. i \in 1..Len(p) /\ i \in 1..(Len(p) + (j - 1))
            BY <2>1, <4>2, <5>1
          <6> QED
            BY <4>2, <4>3, <4>4, <6>1
        <5>2. CASE i > Len(p)
          <6> DEFINE m == i - Len(p)
          <6>1. m \in 1..(j - 1) /\ i = Len(p) + m
            BY <2>1, <4>2, <5>2
          <6> HIDE DEF m
          <6> QED
            BY <2>1, <4>1, <4>2, <4>3, <4>4, <6>1
        <5> QED
          BY <2>1, <4>2, <5>1, <5>2
      <4>6. s = t
        BY <4>2, <4>3, <4>5, SeqEqual
      <4> QED
        BY <4>1, <4>6 DEF s, t, r
    <3> HIDE DEF front, r
    <3>3. Total(p \o front) = Total(p) + Total(front)
      BY <3>2, TotalLaws
    <3>4. Total(p) \in Nat /\ Total(front) \in Nat
      BY <3>2, LengthsTyped
    <3>5. n + Total(SubSeq(r, 1, (Len(p) + j) - 1)) = (n + Total(p)) + Total(front)
      <4>1. Total(SubSeq(r, 1, (Len(p) + j) - 1)) = Total(p) + Total(front)
        BY <3>2, <3>3
      <4> QED
        BY <3>4, <4>1
    <3> QED
      BY <3>1, <3>5 DEF front
  <2>4. ASSUME NEW i \in DOMAIN r, i \notin 1..Len(p)
        PROVE  \E j \in 1..Len(q) : i = Len(p) + j
    <3>1. i - Len(p) \in 1..Len(q) /\ i = Len(p) + (i - Len(p))
      BY <2>1, <2>4
    <3> QED
      BY <3>1
  <2>5. \A j \in 1..Len(q) : Len(p) + j \in DOMAIN r
    BY <2>1
  <2>6. \A i \in 1..Len(p) : i \in DOMAIN r
    BY <2>1
  <2> HIDE DEF At
  <2>7. (\A i \in DOMAIN r : At(r, n, i))
           <=> /\ \A i \in 1..Len(p) : At(p, n, i)
               /\ \A j \in 1..Len(q) : At(q, n + Total(p), j)
    BY <2>2, <2>3, <2>4, <2>5, <2>6
  <2> QED
    BY <2>1, <2>7 DEF Runs, At, r
<1> QED
  BY <1>1, <1>2, <1>3

\* Pieces that carry nothing run on from anything.
LEMMA BlankLaws ==
  ASSUME NEW p \in Seq({<<>>})
  PROVE  Total(p) = 0 /\ \A n \in Nat : Runs(p, n)
<1> DEFINE ns(q) == [i \in DOMAIN q |-> Len(q[i])]
<1>1. ASSUME NEW q \in Seq({<<>>}) PROVE Total(q) = 0
  <2>1. ns(q) \in Seq(Int) /\ Len(ns(q)) \in Nat /\ \A i \in 1..Len(ns(q)) : ns(q)[i] = 0
    <3>1. \A i \in 1..Len(q) : Len(q[i]) = 0
      OBVIOUS
    <3>2. DOMAIN q = 1..Len(q) /\ Len(q) \in Nat
      OBVIOUS
    <3>3. [i \in 1..Len(q) |-> Len(q[i])] \in Seq(Int)
      BY <3>1, <3>2
    <3> QED
      BY <3>1, <3>2, <3>3
  <2>2. Total(q) = SumOf(ns(q))
    BY DEF Total
  <2> HIDE DEF ns
  <2>3. PICK g \in [0..Len(ns(q)) -> Int] :
           /\ g[0] = 0
           /\ \A i \in 1..Len(ns(q)) : g[i] = g[i - 1] + ns(q)[i]
           /\ SumOf(ns(q)) = g[Len(ns(q))]
    BY <2>1, SumUpTo
  <2> DEFINE T == {i \in 0..Len(ns(q)) : g[i] = 0}
  <2>4. 0 \in T /\ \A k \in 1..Len(ns(q)) : k - 1 \in T => k \in T
    <3>1. 0 \in T
      BY <2>1, <2>3
    <3>2. ASSUME NEW k \in 1..Len(ns(q)), k - 1 \in T PROVE k \in T
      <4>1. g[k] = g[k - 1] + ns(q)[k] /\ g[k - 1] = 0 /\ ns(q)[k] = 0
        BY <2>1, <2>3, <3>2
      <4>2. k \in 0..Len(ns(q))
        BY <2>1
      <4> QED
        BY <4>1, <4>2
    <3> QED
      BY <3>1, <3>2
  <2> HIDE DEF T
  <2>5. \A k \in 0..Len(ns(q)) : k \in T
    BY <2>1, <2>4, Induction
  <2>6. Len(ns(q)) \in T
    BY <2>1, <2>5
  <2> QED
    BY <2>2, <2>3, <2>6 DEF T
<1>2. ASSUME NEW n \in Nat PROVE Runs(p, n)
  <2>1. \A i \in DOMAIN p : p[i] = <<>>
    OBVIOUS
  <2>2. \A m : From(<<>>, m)
    BY DEF From
  <2> QED
    BY <2>1, <2>2 DEF Runs
<1> QED
  BY <1>1, <1>2

\* The pieces of a channel, frame by frame.
LEMMA PiecesLaws ==
  /\ Pieces(<<>>) = <<>>
  /\ \A f \in WireFrame : /\ Pieces(<<f>>) = <<PieceOf(f)>>
                          /\ PieceOf(f) \in Seq(Bytes)
                          /\ f.type = "DATA" => PieceOf(f) = f.data
                          /\ f.type # "DATA" => PieceOf(f) = <<>>
  /\ \A c \in Seq(WireFrame) : /\ Pieces(c) \in Seq(Seq(Bytes))
                               /\ "DATA" \notin TypesIn(c) => Pieces(c) \in Seq({<<>>})
  /\ \A c, d \in Seq(WireFrame) : Pieces(c \o d) = Pieces(c) \o Pieces(d)
<1>1. Pieces(<<>>) = <<>>
  BY DEF Pieces
<1>2. ASSUME NEW f \in WireFrame
      PROVE  /\ PieceOf(f) \in Seq(Bytes)
             /\ f.type = "DATA" => PieceOf(f) = f.data
             /\ f.type # "DATA" => PieceOf(f) = <<>>
  <2>1. f.type = "DATA" => f.data \in Seq(Bytes)
    BY FrameKinds DEF WireFrame
  <2> QED
    BY <2>1 DEF PieceOf
<1>3. ASSUME NEW f \in WireFrame PROVE Pieces(<<f>>) = <<PieceOf(f)>>
  <2>1. [i \in DOMAIN <<f>> |-> PieceOf(<<f>>[i])] = <<PieceOf(f)>>
    OBVIOUS
  <2> QED
    BY <2>1 DEF Pieces
<1>4. ASSUME NEW c \in Seq(WireFrame)
      PROVE  /\ Pieces(c) \in Seq(Seq(Bytes)) /\ Len(Pieces(c)) = Len(c)
             /\ \A i \in 1..Len(c) : Pieces(c)[i] = PieceOf(c[i])
             /\ "DATA" \notin TypesIn(c) => Pieces(c) \in Seq({<<>>})
  <2>1. DOMAIN c = 1..Len(c) /\ Len(c) \in Nat /\ \A i \in 1..Len(c) : c[i] \in WireFrame
    OBVIOUS
  <2>2. \A i \in 1..Len(c) : PieceOf(c[i]) \in Seq(Bytes)
    BY <1>2, <2>1
  <2>3. Pieces(c) = [i \in 1..Len(c) |-> PieceOf(c[i])]
    BY <2>1 DEF Pieces
  <2>4. "DATA" \notin TypesIn(c) => \A i \in 1..Len(c) : PieceOf(c[i]) = <<>>
    BY <1>2, <2>1 DEF TypesIn
  <2> QED
    BY <2>1, <2>2, <2>3, <2>4
<1>5. ASSUME NEW c \in Seq(WireFrame), NEW d \in Seq(WireFrame)
      PROVE  Pieces(c \o d) = Pieces(c) \o Pieces(d)
  <2> DEFINE e == c \o d
             s == Pieces(e)
             a == Pieces(c)
             b == Pieces(d)
             t == a \o b
  <2>1. /\ e \in Seq(WireFrame) /\ Len(e) = Len(c) + Len(d)
        /\ Len(c) \in Nat /\ Len(d) \in Nat
        /\ \A i \in 1..Len(c) : e[i] = c[i]
        /\ \A i \in 1..Len(d) : e[Len(c) + i] = d[i]
    OBVIOUS
  <2> HIDE DEF e
  <2>2. /\ s \in Seq(Seq(Bytes)) /\ Len(s) = Len(c) + Len(d)
        /\ \A i \in 1..Len(e) : s[i] = PieceOf(e[i])
    BY <1>4, <2>1
  <2>3. /\ a \in Seq(Seq(Bytes)) /\ Len(a) = Len(c)
        /\ \A i \in 1..Len(c) : a[i] = PieceOf(c[i])
        /\ b \in Seq(Seq(Bytes)) /\ Len(b) = Len(d)
        /\ \A i \in 1..Len(d) : b[i] = PieceOf(d[i])
    BY <1>4
  <2> HIDE DEF s, a, b
  <2>4. /\ t \in Seq(Seq(Bytes)) /\ Len(t) = Len(c) + Len(d)
        /\ \A i \in 1..Len(c) : t[i] = a[i]
        /\ \A i \in 1..Len(d) : t[Len(c) + i] = b[i]
    BY <2>1, <2>3
  <2> HIDE DEF t
  <2>5. ASSUME NEW i \in 1..Len(s) PROVE s[i] = t[i]
    <3>1. CASE i <= Len(c)
      BY <2>1, <2>2, <2>3, <2>4, <3>1
    <3>2. CASE i > Len(c)
      <4> DEFINE m == i - Len(c)
      <4>1. m \in 1..Len(d) /\ i = Len(c) + m /\ i \in 1..Len(e)
        BY <2>1, <2>2, <3>2
      <4> HIDE DEF m
      <4> QED
        BY <2>1, <2>2, <2>3, <2>4, <4>1
    <3> QED
      BY <2>1, <2>2, <3>1, <3>2
  <2>6. s = t
    BY <2>2, <2>4, <2>5, SeqEqual
  <2> QED
    BY <2>6 DEF s, t, a, b, e
<1> QED
  BY <1>1, <1>2, <1>3, <1>4, <1>5

-----------------------------------------------------------------------------
\* Ways.

\* What the sender takes from its socket goes at the end of the way,
LEMMA WaySent ==
  ASSUME NEW B, NEW p \in Seq(Seq(B)), NEW inq \in Seq(B), NEW n \in Nat,
         NEW said \in Nat, NEW k \in 0..Len(inq), NEW u,
         Way(p, inq, n, said, TRUE)
  PROVE  Way(p \o <<SubSeq(inq, 1, k)>>, SubSeq(inq, k + 1, Len(inq)), n, said, u)
<1> DEFINE d == SubSeq(inq, 1, k)
           rest == SubSeq(inq, k + 1, Len(inq))
           x == n + Total(p)
<1>1. /\ d \in Seq(B) /\ Len(d) = k /\ DOMAIN d = 1..k
      /\ \A i \in 1..k : d[i] = inq[i]
  OBVIOUS
<1>2. /\ Len(rest) = Len(inq) - k /\ DOMAIN rest = 1..(Len(inq) - k)
      /\ \A i \in 1..(Len(inq) - k) : rest[i] = inq[k + i]
  OBVIOUS
<1>3. DOMAIN inq = 1..Len(inq) /\ Len(inq) \in Nat /\ k \in Nat /\ k <= Len(inq)
  OBVIOUS
<1>4. <<d>> \in Seq(Seq(B)) /\ Total(<<d>>) = k /\ Total(p \o <<d>>) = Total(p) + k
  <2>1. d \in Seq(B) /\ Len(d) = k
    BY <1>1
  <2> HIDE DEF d
  <2>2. <<d>> \in Seq(Seq(B))
    BY <2>1
  <2>3. Total(<<d>>) = k
    BY <2>1, TotalLaws
  <2>4. Total(p \o <<d>>) = Total(p) + Total(<<d>>)
    BY <2>2, TotalLaws
  <2> QED
    BY <2>2, <2>3, <2>4
<1>5. Total(p) \in Nat /\ x \in Nat
  <2>1. Total(p) \in Nat
    BY LengthsTyped
  <2> QED
    BY <2>1
<1>6. Runs(p, n) /\ From(inq, x) /\ x + Len(inq) = said
  BY DEF Way
<1> HIDE DEF d, rest
<1>7. From(d, x)
  BY <1>1, <1>3, <1>5, <1>6 DEF From
<1>8. From(rest, x + k)
  <2> SUFFICES ASSUME NEW i \in 1..(Len(inq) - k) PROVE rest[i] = (x + k) + i
    BY <1>2 DEF From
  <2>1. k + i \in 1..Len(inq)
    BY <1>3
  <2>2. inq[k + i] = x + (k + i)
    BY <1>3, <1>6, <2>1 DEF From
  <2> HIDE DEF x
  <2> QED
    BY <1>2, <1>3, <1>5, <2>2
<1>9. Runs(p \o <<d>>, n)
  <2>1. Runs(<<d>>, x)
    BY <1>1, <1>5, <1>7, RunsLaws
  <2> QED
    BY <1>4, <1>6, <2>1, RunsLaws
<1>10. n + Total(p \o <<d>>) = x + k
  BY <1>3, <1>4, <1>5
<1>11. x + k <= said /\ (x + k) + Len(rest) = said
  <2>1. /\ x \in Nat /\ x + Len(inq) = said /\ k <= Len(inq)
        /\ Len(rest) = Len(inq) - k /\ k \in Nat /\ Len(inq) \in Nat
    <3>1. x \in Nat
      BY <1>5
    <3>2. x + Len(inq) = said
      BY <1>6
    <3> QED
      BY <1>2, <1>3, <3>1, <3>2
  <2> DEFINE a == Len(inq)
             b == Len(rest)
  <2>2. x \in Nat /\ x + a = said /\ k <= a /\ b = a - k /\ k \in Nat /\ a \in Nat
    BY <2>1
  <2> HIDE DEF x, a, b
  <2>3. x + k <= said /\ (x + k) + b = said
    BY <2>2
  <2> QED
    BY <2>3 DEF b
<1>12. Way(p \o <<d>>, rest, n, said, u)
  BY <1>8, <1>9, <1>10, <1>11 DEF Way
<1> QED
  BY <1>12 DEF d, rest

\* and what the reader takes comes from its front.
LEMMA WayTaken ==
  ASSUME NEW B, NEW d \in Seq(B), NEW p \in Seq(Seq(B)), NEW inq \in Seq(B),
         NEW n \in Nat, NEW said \in Nat, NEW tells,
         Way(<<d>> \o p, inq, n, said, tells)
  PROVE  /\ From(d, n) /\ n + Len(d) <= said
         /\ Way(p, inq, n + Len(d), said, tells)
<1>1. <<d>> \in Seq(Seq(B)) /\ Len(d) \in Nat
  OBVIOUS
<1>2. Total(<<d>>) = Len(d) /\ Total(<<d>> \o p) = Len(d) + Total(p)
  BY <1>1, TotalLaws
<1>3. Runs(<<d>>, n) /\ Runs(p, n + Len(d))
  BY <1>1, <1>2, RunsLaws DEF Way
<1>4. From(d, n)
  BY <1>3, RunsLaws
<1>5. Total(p) \in Nat
  BY LengthsTyped
<1>6. n + Total(<<d>> \o p) = (n + Len(d)) + Total(p)
  BY <1>1, <1>2, <1>5
<1>7. n + Len(d) <= said
  BY <1>1, <1>5, <1>6 DEF Way
<1> QED
  BY <1>3, <1>4, <1>6, <1>7 DEF Way

\* Pieces that carry nothing make no difference anywhere.
LEMMA WayBlank ==
  ASSUME NEW B, NEW p \in Seq(Seq(B)), NEW q \in Seq(Seq(B)), NEW b \in Seq({<<>>}),
         NEW inq \in Seq(B), NEW n \in Nat, NEW said, NEW tells
  PROVE  Way(p \o (b \o q), inq, n, said, tells) <=> Way(p \o q, inq, n, said, tells)
<1>1. b \in Seq(Seq(B)) /\ b \o q \in Seq(Seq(B))
  <2>1. <<>> \in Seq(B)
    OBVIOUS
  <2>2. b \in Seq(Seq(B))
    BY <2>1, SeqMonotonic
  <2> QED
    BY <2>2, ConcatProperties
<1>2. Total(b) = 0 /\ \A m \in Nat : Runs(b, m)
  BY BlankLaws
<1>3. Total(p) \in Nat /\ Total(q) \in Nat
  BY LengthsTyped
<1> DEFINE m == n + Total(p)
           r == b \o q
<1>4. m \in Nat /\ m + 0 = m
  BY <1>3
<1>5. Total(r) = Total(q)
  BY <1>1, <1>2, <1>3, TotalLaws
<1>6. Runs(r, m) <=> Runs(q, m)
  BY <1>1, <1>2, <1>4, RunsLaws
<1>7. r \in Seq(Seq(B))
  BY <1>1
<1> HIDE DEF r
<1>8. Total(p \o r) = Total(p \o q)
  BY <1>5, <1>7, TotalLaws
<1>9. Runs(p \o r, n) <=> Runs(p \o q, n)
  BY <1>6, <1>7, RunsLaws
<1> QED
  BY <1>8, <1>9 DEF Way, r

\* The other party says one more byte.
LEMMA WaySaid ==
  ASSUME NEW B, NEW p \in Seq(Seq(B)), NEW inq \in Seq(B), NEW n \in Nat,
         NEW said \in Nat, NEW tells, Way(p, inq, n, said, tells)
  PROVE  Way(p, Append(inq, said + 1), n, said + 1, tells)
<1> DEFINE x == n + Total(p)
           more == Append(inq, said + 1)
<1>1. Total(p) \in Nat /\ x \in Nat
  <2>1. Total(p) \in Nat
    BY LengthsTyped
  <2> QED
    BY <2>1
<1>2. /\ Len(inq) \in Nat /\ DOMAIN inq = 1..Len(inq)
      /\ Len(more) = Len(inq) + 1 /\ DOMAIN more = 1..(Len(inq) + 1)
      /\ \A i \in 1..Len(inq) : more[i] = inq[i]
      /\ more[Len(inq) + 1] = said + 1
  OBVIOUS
<1>3. Runs(p, n) /\ x <= said /\ (tells => From(inq, x) /\ x + Len(inq) = said)
  BY DEF Way
<1> HIDE DEF x, more
<1>4. ASSUME tells PROVE From(more, x) /\ x + Len(more) = said + 1
  <2>1. ASSUME NEW i \in 1..(Len(inq) + 1) PROVE more[i] = x + i
    <3>1. CASE i = Len(inq) + 1
      <4>1. more[i] = said + 1 /\ x + Len(inq) = said
        BY <1>2, <1>3, <1>4, <3>1
      <4>2. said + 1 = x + (Len(inq) + 1)
        BY <1>1, <1>2, <4>1
      <4> QED
        BY <3>1, <4>1, <4>2
    <3>2. CASE i # Len(inq) + 1
      <4>1. i \in 1..Len(inq)
        BY <1>2, <3>2
      <4> QED
        BY <1>2, <1>3, <1>4, <4>1 DEF From
    <3> QED
      BY <3>1, <3>2
  <2> QED
    BY <1>1, <1>2, <1>3, <1>4, <2>1 DEF From
<1>5. x <= said + 1
  BY <1>1, <1>3
<1> QED
  BY <1>3, <1>4, <1>5 DEF Way, x, more

\* A sender that falls silent leaves its way as it is.
LEMMA WayMuted ==
  ASSUME NEW p, NEW inq, NEW n, NEW said, NEW tells, Way(p, inq, n, said, tells),
         NEW left, NEW u, u => tells /\ left = inq
  PROVE  Way(p, left, n, said, u)
  BY DEF Way

-----------------------------------------------------------------------------
\* Calm turns: those that pass no byte on, in either direction.

\* Calls on a socket that neither read from it nor write to it, or destroy it.
SoftOut(t, s) ==
    /\ t.got = s.got
    /\ t.out = s.out \/ (t.out = <<>> /\ t.destroyed)
    /\ s.destroyed => t.destroyed
SoftIn(t, s) ==
    /\ t.inq = s.inq \/ t.destroyed
    /\ s.destroyed => t.destroyed
Soft(t, s) == SoftOut(t, s) /\ SoftIn(t, s)

\* The calls of a calm turn are such.
LEMMA SoftCalls ==
  ASSUME NEW B, NEW s \in Socket(B)
  PROVE  /\ Soft(s, s)
         /\ Soft(Pause(s), s) /\ Soft(Resume(s), s)
         /\ Soft(DestroySocket(s), s) /\ Soft(Fail(s), s)
         /\ Soft(EndWrite(s), s) /\ Soft(Drained(s), s) /\ Soft(EmitEnd(s), s)
         /\ Soft([s EXCEPT !.error = FALSE], s) /\ Soft([s EXCEPT !.fin = TRUE], s)
         /\ DestroySocket(s).destroyed /\ Fail(s).destroyed
<1>1. s = [inq |-> s.inq, fin |-> s.fin, flowing |-> s.flowing,
           readEnded |-> s.readEnded, out |-> s.out, needDrain |-> s.needDrain,
           ended |-> s.ended, destroyed |-> s.destroyed, error |-> s.error,
           got |-> s.got]
  BY DEF Socket
<1>2. Soft(s, s) /\ Soft(Pause(s), s) /\ Soft(Resume(s), s)
  BY <1>1 DEF Soft, SoftIn, SoftOut, Pause, Resume
<1>3. /\ Soft(DestroySocket(s), s) /\ Soft(Fail(s), s)
      /\ DestroySocket(s).destroyed /\ Fail(s).destroyed
  BY <1>1 DEF Soft, SoftIn, SoftOut, DestroySocket, Fail
<1>4. Soft(EndWrite(s), s) /\ Soft(Drained(s), s) /\ Soft(EmitEnd(s), s)
  BY <1>1 DEF Soft, SoftIn, SoftOut, EndWrite, Drained, EmitEnd
<1>5. Soft([s EXCEPT !.error = FALSE], s) /\ Soft([s EXCEPT !.fin = TRUE], s)
  BY <1>1 DEF Soft, SoftIn, SoftOut
<1> QED
  BY <1>2, <1>3, <1>4, <1>5

\* One after the other they are such too.
LEMMA SoftTwice ==
  ASSUME NEW u, NEW t, NEW s, Soft(u, t), Soft(t, s)
  PROVE  Soft(u, s)
  BY DEF Soft, SoftIn, SoftOut

\* What the party behind the socket reads is the same, or stops where it is.
LEMMA SoftRead ==
  ASSUME NEW B, NEW s \in Socket(B), NEW t \in Socket(B), SoftOut(t, s)
  PROVE  /\ ReadBy(s) \in Seq(B) /\ ReadBy(t) \in Seq(B)
         /\ Len(ReadBy(t)) <= Len(ReadBy(s))
         /\ \A i \in DOMAIN ReadBy(t) : i \in DOMAIN ReadBy(s) /\ ReadBy(t)[i] = ReadBy(s)[i]
         /\ ~t.destroyed => ReadBy(t) = ReadBy(s)
<1>1. s.got \in Seq(B) /\ s.out \in Seq(B) /\ t.got \in Seq(B) /\ t.out \in Seq(B)
  BY DEF Socket
<1> DEFINE g == s.got
           o == s.out
<1>2. ReadBy(s) = g \o o /\ (ReadBy(t) = g \o o \/ (ReadBy(t) = g /\ t.destroyed))
  <2>1. \A x \in Seq(B) : x \o <<>> = x
    OBVIOUS
  <2>2. t.got \o t.out = g \o o \/ (t.got \o t.out = g /\ t.destroyed)
    BY <1>1, <2>1 DEF SoftOut
  <2> QED
    BY <2>2 DEF ReadBy
<1>3. g \in Seq(B) /\ o \in Seq(B)
  BY <1>1
<1> HIDE DEF g, o
<1>4. /\ g \o o \in Seq(B) /\ Len(g) <= Len(g \o o)
      /\ \A i \in DOMAIN g : i \in DOMAIN (g \o o) /\ g[i] = (g \o o)[i]
      /\ Len(g \o o) <= Len(g \o o)
  <2>1. /\ g \o o \in Seq(B) /\ Len(g \o o) = Len(g) + Len(o)
        /\ \A i \in 1..Len(g) : (g \o o)[i] = g[i]
    BY <1>3, ConcatProperties
  <2>2. /\ DOMAIN g = 1..Len(g) /\ Len(g) \in Nat /\ Len(o) \in Nat
        /\ DOMAIN (g \o o) = 1..Len(g \o o)
    BY <1>3, <2>1
  <2> DEFINE x == g \o o
  <2> HIDE DEF x
  <2>3. Len(x) = Len(g) + Len(o) /\ DOMAIN x = 1..Len(x) /\ \A i \in 1..Len(g) : x[i] = g[i]
    BY <2>1, <2>2 DEF x
  <2>4. Len(g) <= Len(x) /\ Len(x) <= Len(x) /\ \A i \in DOMAIN g : i \in DOMAIN x /\ g[i] = x[i]
    BY <2>2, <2>3
  <2> QED
    BY <2>1, <2>4 DEF x
<1> QED
  BY <1>2, <1>3, <1>4
\* A turn of the server's end that passes neither a byte nor an end on.
SrvCalm(r, h) ==
    /\ r \in SrvTurn
    /\ TypesIn(r.sent) \subseteq TypesIn(h.sent) \cup {"ACK", "RESET"}
    /\ Soft(r.sock, h.sock)
    /\ h.sock.fin => r.sock.fin
    /\ r.st.opened = h.st.opened
    /\ h.st.finished => r.st.finished
    /\ r.st.sentEof = h.st.sentEof
    /\ h.st.receivedEof => r.st.receivedEof

\* Calm turns in a row are calm, and so is another socket of that kind.
LEMMA CalmTwice ==
  ASSUME NEW q, NEW r, NEW h, SrvCalm(q, r), SrvCalm(r, h)
  PROVE  SrvCalm(q, h)
  BY SoftTwice DEF SrvCalm

LEMMA CalmSock ==
  ASSUME NEW h \in SrvTurn, NEW s \in Socket(Bytes), Soft(s, h.sock), h.sock.fin => s.fin
  PROVE  SrvCalm([h EXCEPT !.sock = s], h)
<1> DEFINE r == [h EXCEPT !.sock = s]
<1>1. r \in SrvTurn /\ r.st = h.st /\ r.sock = s /\ r.sent = h.sent
  BY DEF SrvTurn
<1> HIDE DEF r
<1>2. TypesIn(r.sent) \subseteq TypesIn(h.sent) \cup {"ACK", "RESET"}
  BY <1>1
<1>3. Soft(r.sock, h.sock) /\ (h.sock.fin => r.sock.fin)
  BY <1>1
<1>4. /\ r.st.opened = h.st.opened /\ r.st.sentEof = h.st.sentEof
      /\ (h.st.finished => r.st.finished) /\ (h.st.receivedEof => r.st.receivedEof)
  BY <1>1
<1>5. SrvCalm(r, h)
  BY <1>1, <1>2, <1>3, <1>4 DEF SrvCalm
<1> QED
  BY <1>5 DEF r

\* A turn is calm against itself.
LEMMA CalmSelf ==
  ASSUME NEW h \in SrvTurn
  PROVE  SrvCalm(h, h)
<1>1. Soft(h.sock, h.sock)
  BY SoftCalls DEF SrvTurn
<1> QED
  BY <1>1 DEF SrvCalm

\* What one more frame adds to what was said.
LEMMA OneMoreFrame ==
  ASSUME NEW c \in Seq(WireFrame), NEW f,
         f = ResetFrame \/ \E n \in Nat \ {0} : f = AckFrame(n)
  PROVE  TypesIn(Append(c, f)) \subseteq TypesIn(c) \cup {"ACK", "RESET"}
<1>1. f \in WireFrame /\ f.type \in {"ACK", "RESET"}
  BY FramesTyped
<1> QED
  BY <1>1, AppendSeen

\* No call takes back the end a socket was sent.
LEMMA FinStays ==
  ASSUME NEW B, NEW s \in Socket(B)
  PROVE  /\ Pause(s).fin = s.fin /\ Resume(s).fin = s.fin
         /\ DestroySocket(s).fin = s.fin /\ Fail(s).fin = s.fin
         /\ EndWrite(s).fin = s.fin /\ Drained(s).fin = s.fin /\ EmitEnd(s).fin = s.fin
         /\ [s EXCEPT !.error = FALSE].fin = s.fin
         /\ \A b : Write(s, b).fin = s.fin
         /\ \A k : TakeData(s, k).fin = s.fin
<1>1. s = [inq |-> s.inq, fin |-> s.fin, flowing |-> s.flowing,
           readEnded |-> s.readEnded, out |-> s.out, needDrain |-> s.needDrain,
           ended |-> s.ended, destroyed |-> s.destroyed, error |-> s.error,
           got |-> s.got]
  BY DEF Socket
<1>2. Pause(s).fin = s.fin /\ Resume(s).fin = s.fin
  BY <1>1 DEF Pause, Resume
<1>3. DestroySocket(s).fin = s.fin /\ Fail(s).fin = s.fin
  BY <1>1 DEF DestroySocket, Fail
<1>4. EndWrite(s).fin = s.fin /\ Drained(s).fin = s.fin /\ EmitEnd(s).fin = s.fin
  BY <1>1 DEF EndWrite, Drained, EmitEnd
<1>5. [s EXCEPT !.error = FALSE].fin = s.fin /\ \A k : TakeData(s, k).fin = s.fin
  BY <1>1 DEF TakeData
<1>6. ASSUME NEW b PROVE Write(s, b).fin = s.fin
  <2> DEFINE f == Fail(s)
  <2>1. f.fin = s.fin
    BY <1>3
  <2> HIDE DEF f
  <2>2. Write(s, b) = f \/ Write(s, b) = [s EXCEPT !.out = s.out \o b,
                              !.needDrain = s.needDrain \/ Len(s.out \o b) >= HighWater]
    BY DEF Write, f
  <2>3. [s EXCEPT !.out = s.out \o b,
                  !.needDrain = s.needDrain \/ Len(s.out \o b) >= HighWater].fin = s.fin
    BY <1>1
  <2> QED
    BY <2>1, <2>2, <2>3
<1> QED
  BY <1>2, <1>3, <1>4, <1>5, <1>6

\* The server's handlers that pass no byte on.
LEMMA SrvCalmFlushAck ==
  ASSUME NEW h \in SrvTurn
  PROVE  SrvCalm(S!FlushAck(h), h)
<1> DEFINE r == S!FlushAck(h)
<1>1. /\ h.st.recvUnacked = 0 \/ h.st.finished => r = h
      /\ ~(h.st.recvUnacked = 0 \/ h.st.finished) =>
            /\ r \in SrvTurn
            /\ r.st = [h.st EXCEPT !.recvUnacked = 0]
            /\ r.sock = h.sock
            /\ r.sent = Append(h.sent, AckFrame(h.st.recvUnacked))
  BY SrvFlushAck
<1>2. h.st \in SrvType /\ h.sock \in Socket(Bytes) /\ h.sent \in Seq(WireFrame)
  BY DEF SrvTurn
<1> HIDE DEF r
<1>3. CASE r = h
  BY <1>3, CalmSelf DEF r
<1>4. CASE ~(h.st.recvUnacked = 0 \/ h.st.finished)
  <2>1. h.st.recvUnacked \in Nat \ {0}
    BY <1>2, <1>4 DEF SrvType
  <2>2. TypesIn(r.sent) \subseteq TypesIn(h.sent) \cup {"ACK", "RESET"}
    BY <1>1, <1>2, <1>4, <2>1, OneMoreFrame
  <2>3. Soft(r.sock, h.sock) /\ r.sock.fin = h.sock.fin
    BY <1>1, <1>2, <1>4, SoftCalls, FinStays
  <2>4. /\ r.st.opened = h.st.opened /\ r.st.finished = h.st.finished
        /\ r.st.sentEof = h.st.sentEof /\ r.st.receivedEof = h.st.receivedEof
    BY <1>1, <1>2, <1>4 DEF SrvType
  <2> QED
    BY <1>1, <1>4, <2>2, <2>3, <2>4 DEF SrvCalm, r
<1> QED
  BY <1>1, <1>3, <1>4 DEF r

LEMMA SrvCalmDestroy ==
  ASSUME NEW h \in SrvTurn, NEW reason
  PROVE  SrvCalm(S!Destroy(h, reason), h)
<1> DEFINE r == S!Destroy(h, reason)
<1>1. /\ h.st.finished => r = h
      /\ ~h.st.finished =>
            /\ r \in SrvTurn
            /\ r.st = [h.st EXCEPT !.finished = TRUE]
            /\ r.sock = DestroySocket(h.sock)
            /\ r.sent = h.sent \/ r.sent = Append(h.sent, ResetFrame)
  BY SrvDestroy
<1>2. h.st \in SrvType /\ h.sock \in Socket(Bytes) /\ h.sent \in Seq(WireFrame)
  BY DEF SrvTurn
<1> HIDE DEF r
<1>3. CASE h.st.finished
  BY <1>1, <1>3, CalmSelf DEF r
<1>4. CASE ~h.st.finished
  <2>2. TypesIn(r.sent) \subseteq TypesIn(h.sent) \cup {"ACK", "RESET"}
    BY <1>1, <1>2, <1>4, OneMoreFrame
  <2>3. Soft(r.sock, h.sock) /\ r.sock.fin = h.sock.fin
    BY <1>1, <1>2, <1>4, SoftCalls, FinStays
  <2>4. /\ r.st.opened = h.st.opened /\ r.st.finished
        /\ r.st.sentEof = h.st.sentEof /\ r.st.receivedEof = h.st.receivedEof
    BY <1>1, <1>2, <1>4 DEF SrvType
  <2> QED
    BY <1>1, <1>4, <2>2, <2>3, <2>4 DEF SrvCalm, r
<1> QED
  BY <1>3, <1>4

LEMMA SrvCalmEof ==
  ASSUME NEW h \in SrvTurn
  PROVE  SrvCalm(S!OnEof(h), h)
<1> DEFINE r == S!OnEof(h)
<1>1. /\ h.st.finished \/ h.st.receivedEof => r = h
      /\ ~(h.st.finished \/ h.st.receivedEof) =>
            /\ r \in SrvTurn
            /\ r.st = [h.st EXCEPT !.receivedEof = TRUE, !.recvUnacked = 0,
                                   !.finished = h.st.sentEof]
            /\ r.sock = EndWrite(h.sock)
            /\ r.sent = IF h.st.recvUnacked = 0 THEN h.sent
                        ELSE Append(h.sent, AckFrame(h.st.recvUnacked))
  BY SrvOnEof
<1>2. h.st \in SrvType /\ h.sock \in Socket(Bytes) /\ h.sent \in Seq(WireFrame)
  BY DEF SrvTurn
<1> HIDE DEF r
<1>3. CASE h.st.finished \/ h.st.receivedEof
  BY <1>1, <1>3, CalmSelf DEF r
<1>4. CASE ~(h.st.finished \/ h.st.receivedEof)
  <2>1. h.st.recvUnacked \in Nat
    BY <1>2 DEF SrvType
  <2>2. TypesIn(r.sent) \subseteq TypesIn(h.sent) \cup {"ACK", "RESET"}
    BY <1>1, <1>2, <1>4, <2>1, OneMoreFrame
  <2>3. Soft(r.sock, h.sock) /\ r.sock.fin = h.sock.fin
    BY <1>1, <1>2, <1>4, SoftCalls, FinStays
  <2>4. /\ r.st.opened = h.st.opened
        /\ r.st.sentEof = h.st.sentEof /\ r.st.receivedEof
    BY <1>1, <1>2, <1>4 DEF SrvType
  <2> QED
    BY <1>1, <1>4, <2>2, <2>3, <2>4 DEF SrvCalm, r
<1> QED
  BY <1>3, <1>4

LEMMA SrvCalmAck ==
  ASSUME NEW h \in SrvTurn, NEW n \in Nat
  PROVE  SrvCalm(S!OnAck(h, n), h)
<1> DEFINE r == S!OnAck(h, n)
<1>1. /\ h.st.finished => r = h
      /\ ~h.st.finished =>
            /\ r \in SrvTurn
            /\ r.sent = h.sent
            /\ \/ /\ r.st = [h.st EXCEPT !.sendCredit = h.st.sendCredit + n]
                  /\ r.sock = h.sock
               \/ /\ r.st = [h.st EXCEPT !.sendCredit = h.st.sendCredit + n,
                                         !.pausedForCredit = FALSE]
                  /\ r.sock = Resume(h.sock)
  BY SrvOnAck
<1>2. h.st \in SrvType /\ h.sock \in Socket(Bytes)
  BY DEF SrvTurn
<1> HIDE DEF r
<1>3. CASE h.st.finished
  BY <1>1, <1>3, CalmSelf DEF r
<1>4. CASE ~h.st.finished
  <2>3. Soft(r.sock, h.sock) /\ r.sock.fin = h.sock.fin
    BY <1>1, <1>2, <1>4, SoftCalls, FinStays
  <2>4. /\ r.st.opened = h.st.opened
        /\ r.st.sentEof = h.st.sentEof /\ r.st.receivedEof = h.st.receivedEof
    BY <1>1, <1>2, <1>4 DEF SrvType
  <2> QED
    BY <1>1, <1>4, <2>3, <2>4 DEF SrvCalm, r
<1> QED
  BY <1>3, <1>4

LEMMA SrvCalmPause ==
  ASSUME NEW h \in SrvTurn, NEW paused \in BOOLEAN
  PROVE  SrvCalm(S!SetGlobalPause(h, paused), h)
<1> DEFINE r == S!SetGlobalPause(h, paused)
<1>1. SrvRepaused(r, h)
  BY SrvGlobalPause
<1>2. h.st \in SrvType /\ h.sock \in Socket(Bytes)
  BY DEF SrvTurn
<1> HIDE DEF r
<1>3. Soft(r.sock, h.sock) /\ r.sock.fin = h.sock.fin
  <2>1. r.sock \in {h.sock, Pause(h.sock), Resume(h.sock)}
    BY <1>1 DEF SrvRepaused
  <2>2. Soft(h.sock, h.sock) /\ Soft(Pause(h.sock), h.sock) /\ Soft(Resume(h.sock), h.sock)
    BY <1>2, SoftCalls
  <2>3. Pause(h.sock).fin = h.sock.fin /\ Resume(h.sock).fin = h.sock.fin
    BY <1>2, FinStays
  <2> QED
    BY <2>1, <2>2, <2>3
<1>4. /\ r.st.opened = h.st.opened /\ r.st.finished = h.st.finished
      /\ r.st.sentEof = h.st.sentEof /\ r.st.receivedEof = h.st.receivedEof
  BY <1>1, <1>2 DEF SrvRepaused, SrvType
<1> QED
  BY <1>1, <1>3, <1>4 DEF SrvRepaused, SrvCalm, r

LEMMA SrvCalmFinish ==
  ASSUME NEW h \in SrvTurn
  PROVE  SrvCalm(S!Finish(h), h)
<1>1. h.st \in SrvType /\ h.sock \in Socket(Bytes)
  BY DEF SrvTurn
<1> DEFINE r == S!Finish(h)
<1>2. /\ r \in SrvTurn /\ r.st = [h.st EXCEPT !.finished = TRUE]
      /\ r.sock = h.sock /\ r.sent = h.sent
  BY SrvFinish
<1> HIDE DEF r
<1>3. Soft(r.sock, h.sock) /\ r.sock.fin = h.sock.fin
  BY <1>1, <1>2, SoftCalls, FinStays
<1>4. /\ r.st.opened = h.st.opened /\ r.st.finished
      /\ r.st.sentEof = h.st.sentEof /\ r.st.receivedEof = h.st.receivedEof
  BY <1>1, <1>2 DEF SrvType
<1> QED
  BY <1>2, <1>3, <1>4 DEF SrvCalm, r

LEMMA SrvCalmReset ==
  ASSUME NEW h \in SrvTurn
  PROVE  SrvCalm(S!Send(h, ResetFrame), h)
<1>1. h.sock \in Socket(Bytes) /\ h.sent \in Seq(WireFrame) /\ ResetFrame \in WireFrame
  BY FramesTyped DEF SrvTurn
<1>2. Soft(h.sock, h.sock)
  BY <1>1, SoftCalls
<1>3. TypesIn(Append(h.sent, ResetFrame)) \subseteq TypesIn(h.sent) \cup {"ACK", "RESET"}
  BY <1>1, OneMoreFrame
<1> QED
  BY <1>1, <1>2, <1>3, SrvSend DEF SrvCalm
-----------------------------------------------------------------------------
\* Channels.

\* Concatenation.
LEMMA Concats ==
  ASSUME NEW B
  PROVE  /\ \A p \in Seq(B) : p \o <<>> = p /\ <<>> \o p = p
         /\ \A p, q \in Seq(B) : p \o q \in Seq(B)
         /\ \A p, q, r \in Seq(B) : (p \o q) \o r = p \o (q \o r)
<1>1. \A p \in Seq(B) : p \o <<>> = p /\ <<>> \o p = p
  OBVIOUS
<1>2. \A p, q \in Seq(B) : p \o q \in Seq(B)
  OBVIOUS
<1>3. \A p, q, r \in Seq(B) : (p \o q) \o r = p \o (q \o r)
  OBVIOUS
<1> QED
  BY <1>1, <1>2, <1>3

LEMMA Assoc ==
  ASSUME NEW B, NEW p \in Seq(B), NEW q \in Seq(B), NEW r \in Seq(B)
  PROVE  (p \o q) \o r = p \o (q \o r)
OBVIOUS

\* Three, named so that the provers find them again.
Regroups(p, q, r, s) == ((p \o q) \o r) \o s = p \o (q \o (r \o s))

LEMMA AssocLong ==
  ASSUME NEW B, NEW p \in Seq(B), NEW q \in Seq(B), NEW r \in Seq(B), NEW s \in Seq(B)
  PROVE  Regroups(p, q, r, s)
<1>1. p \o q \in Seq(B) /\ r \o s \in Seq(B)
  OBVIOUS
<1>2. ASSUME NEW x \in Seq(B) PROVE (x \o r) \o s = x \o (r \o s)
  OBVIOUS
<1>3. ASSUME NEW x \in Seq(B) PROVE (p \o q) \o x = p \o (q \o x)
  OBVIOUS
<1>4. ((p \o q) \o r) \o s = (p \o q) \o (r \o s)
  BY ONLY <1>1, <1>2, Zenon
<1>5. (p \o q) \o (r \o s) = p \o (q \o (r \o s))
  BY ONLY <1>1, <1>3, Zenon
<1> QED
  BY ONLY <1>4, <1>5, Zenon DEF Regroups

\* Frames without data change no way, at the end of a channel or at its front.
LEMMA BlankFrames ==
  ASSUME NEW c \in Seq(WireFrame), NEW b \in Seq(WireFrame), "DATA" \notin TypesIn(b),
         NEW q \in Seq(Seq(Bytes)), NEW inq \in Seq(Bytes), NEW n \in Nat,
         NEW said, NEW tells
  PROVE  /\ Way(q \o Pieces(c \o b), inq, n, said, tells)
               <=> Way(q \o Pieces(c), inq, n, said, tells)
         /\ Way(q \o Pieces(b \o c), inq, n, said, tells)
               <=> Way(q \o Pieces(c), inq, n, said, tells)
<1> DEFINE x == Pieces(c)
           y == Pieces(b)
<1>1. x \in Seq(Seq(Bytes)) /\ y \in Seq(Seq(Bytes)) /\ y \in Seq({<<>>})
  BY PiecesLaws
<1>2. Pieces(c \o b) = x \o y /\ Pieces(b \o c) = y \o x
  BY PiecesLaws
<1> HIDE DEF x, y
<1>3. /\ q \o x \in Seq(Seq(Bytes)) /\ <<>> \in Seq(Seq(Bytes))
      /\ (q \o x) \o y = q \o (x \o y)
      /\ y \o <<>> = y /\ (q \o x) \o <<>> = q \o x
  <2> DEFINE D == Seq(Bytes)
  <2>1. q \in Seq(D) /\ x \in Seq(D) /\ y \in Seq(D) /\ <<>> \in Seq(D)
    BY <1>1
  <2> HIDE DEF D
  <2>2. /\ q \o x \in Seq(D)
        /\ (q \o x) \o y = q \o (x \o y)
        /\ y \o <<>> = y
    BY <2>1, Concats
  <2>3. (q \o x) \o <<>> = q \o x
    <3>1. \A p \in Seq(D) : p \o <<>> = p
      BY Concats
    <3> QED
      BY <2>2, <3>1
  <2> QED
    BY <2>1, <2>2, <2>3 DEF D
<1> DEFINE w == q \o x
<1>4. w \in Seq(Seq(Bytes)) /\ <<>> \in Seq(Seq(Bytes))
  BY <1>3
<1> HIDE DEF w
<1>5. Way(w \o (y \o <<>>), inq, n, said, tells) <=> Way(w \o <<>>, inq, n, said, tells)
  BY <1>1, <1>4, WayBlank
<1>6. Way(q \o (y \o x), inq, n, said, tells) <=> Way(q \o x, inq, n, said, tells)
  BY <1>1, WayBlank
<1> QED
  BY <1>2, <1>3, <1>5, <1>6 DEF w, x

\* A frame of data at the end of a channel is what the sender took.
LEMMA DataSent ==
  ASSUME NEW c \in Seq(WireFrame), NEW q \in Seq(Seq(Bytes)), NEW inq \in Seq(Bytes),
         NEW n \in Nat, NEW said \in Nat, NEW k \in 1..Len(inq), NEW u,
         Way(q \o Pieces(c), inq, n, said, TRUE)
  PROVE  Way(q \o Pieces(c \o <<DataFrame(SubSeq(inq, 1, k))>>),
             SubSeq(inq, k + 1, Len(inq)), n, said, u)
<1> DEFINE x == Pieces(c)
           w == q \o x
           d == SubSeq(inq, 1, k)
           f == DataFrame(d)
<1>1. x \in Seq(Seq(Bytes))
  BY PiecesLaws
<1>2. d \in Seq(Bytes) /\ d # <<>>
  <2>1. Len(inq) \in Nat /\ k \in Nat /\ k <= Len(inq) /\ k # 0
    OBVIOUS
  <2>2. SubSeq(inq, 1, k) \in Seq(Bytes) /\ Len(SubSeq(inq, 1, k)) = k
    BY <2>1
  <2>3. Len(<<>>) = 0
    OBVIOUS
  <2> QED
    BY <2>1, <2>2, <2>3
<1>3. k \in 0..Len(inq)
  OBVIOUS
<1> HIDE DEF x, d
<1>4. f \in WireFrame /\ f.type = "DATA" /\ f.data = d
  <2>1. f.data = d
    BY DEF DataFrame
  <2> QED
    BY <1>2, <2>1, FramesTyped
<1> HIDE DEF f
<1>5. Pieces(<<f>>) = <<d>> /\ <<f>> \in Seq(WireFrame)
  BY <1>4, PiecesLaws
<1>6. Pieces(c \o <<f>>) = x \o <<d>>
  BY <1>5, PiecesLaws DEF x
<1>7. w \in Seq(Seq(Bytes)) /\ w \o <<d>> = q \o (x \o <<d>>)
  <2> DEFINE D == Seq(Bytes)
             y == <<d>>
  <2>1. q \in Seq(D) /\ x \in Seq(D) /\ y \in Seq(D)
    BY <1>1, <1>2
  <2> HIDE DEF D, y
  <2>2. q \o x \in Seq(D) /\ (q \o x) \o y = q \o (x \o y)
    BY <2>1, Concats
  <2> QED
    BY <2>2 DEF D, y
<1>8. Way(w, inq, n, said, TRUE)
  BY DEF x
<1> HIDE DEF w
<1>9. Way(w \o <<d>>, SubSeq(inq, k + 1, Len(inq)), n, said, u)
  BY <1>3, <1>7, <1>8, WaySent DEF d
<1> QED
  BY <1>6, <1>7, <1>9 DEF f, d

\* Frames that carry neither data nor an end make no difference anywhere.
LEMMA RoadBlank ==
  ASSUME NEW c \in Seq(WireFrame), NEW d \in Seq(WireFrame), NEW b \in Seq(WireFrame),
         {"DATA", "EOF"} \cap TypesIn(b) = {},
         NEW inq \in Seq(Bytes), NEW n \in Nat, NEW said, NEW tells
  PROVE  Road(c \o (b \o d), inq, n, said, tells) <=> Road(c \o d, inq, n, said, tells)
<1>1. /\ Pieces(c) \in Seq(Seq(Bytes)) /\ Pieces(d) \in Seq(Seq(Bytes))
      /\ Pieces(b) \in Seq({<<>>}) /\ b \o d \in Seq(WireFrame)
  BY PiecesLaws, Concats
<1>2. /\ Pieces(c \o (b \o d)) = Pieces(c) \o (Pieces(b) \o Pieces(d))
      /\ Pieces(c \o d) = Pieces(c) \o Pieces(d)
  BY <1>1, PiecesLaws
<1>3. ASSUME NEW i \in Seq(Bytes), NEW u
      PROVE  Way(Pieces(c \o (b \o d)), i, n, said, u) <=> Way(Pieces(c \o d), i, n, said, u)
  <2> DEFINE x == Pieces(c)
             y == Pieces(d)
             z == Pieces(b)
  <2>1. x \in Seq(Seq(Bytes)) /\ y \in Seq(Seq(Bytes)) /\ z \in Seq({<<>>})
    BY <1>1
  <2> HIDE DEF x, y, z
  <2>2. Way(x \o (z \o y), i, n, said, u) <=> Way(x \o y, i, n, said, u)
    BY <2>1, WayBlank
  <2> QED
    BY <1>2, <2>2 DEF x, y, z
<1>4. "EOF" \in TypesIn(c \o (b \o d)) <=> "EOF" \in TypesIn(c \o d)
  <2>1. TypesIn(c \o (b \o d)) = TypesIn(c) \cup (TypesIn(b) \cup TypesIn(d))
    <3> DEFINE e == b \o d
    <3>1. e \in Seq(WireFrame) /\ TypesIn(e) = TypesIn(b) \cup TypesIn(d)
      BY ConcatSeen DEF WireFrame
    <3> HIDE DEF e
    <3>2. TypesIn(c \o e) = TypesIn(c) \cup TypesIn(e)
      BY <3>1, ConcatSeen DEF WireFrame
    <3> QED
      BY <3>1, <3>2 DEF e
  <2>2. TypesIn(c \o d) = TypesIn(c) \cup TypesIn(d)
    BY ConcatSeen DEF WireFrame
  <2> QED
    BY <2>1, <2>2
<1>5. <<>> \in Seq(Bytes)
  OBVIOUS
<1> QED
  BY <1>3, <1>4, <1>5 DEF Road

\* So at the end of a channel, and at its front.
LEMMA RoadEdges ==
  ASSUME NEW c \in Seq(WireFrame), NEW b \in Seq(WireFrame),
         {"DATA", "EOF"} \cap TypesIn(b) = {},
         NEW inq \in Seq(Bytes), NEW n \in Nat, NEW said, NEW tells
  PROVE  /\ Road(c \o b, inq, n, said, tells) <=> Road(c, inq, n, said, tells)
         /\ Road(b \o c, inq, n, said, tells) <=> Road(c, inq, n, said, tells)
<1> DEFINE none == <<>>
<1>1. /\ none \in Seq(WireFrame) /\ c \o none = c /\ b \o none = b /\ none \o c = c
      /\ b \o c \in Seq(WireFrame) /\ none \o (b \o c) = b \o c
  <2>1. b \o c \in Seq(WireFrame) /\ none \in Seq(WireFrame)
    BY Concats
  <2> QED
    BY <2>1, Concats
<1> HIDE DEF none
<1>2. Road(c \o (b \o none), inq, n, said, tells) <=> Road(c \o none, inq, n, said, tells)
  BY <1>1, RoadBlank
<1>3. Road(none \o (b \o c), inq, n, said, tells) <=> Road(none \o c, inq, n, said, tells)
  BY <1>1, RoadBlank
<1> QED
  BY <1>1, <1>2, <1>3

\* A sender that falls silent leaves its road as it is.
LEMMA RoadMuted ==
  ASSUME NEW c, NEW inq, NEW n, NEW said, NEW tells, Road(c, inq, n, said, tells),
         NEW left, NEW u, u => tells /\ left = inq
  PROVE  Road(c, left, n, said, u)
  BY WayMuted DEF Road

\* Data go on at the end,
LEMMA RoadSent ==
  ASSUME NEW c \in Seq(WireFrame), "EOF" \notin TypesIn(c), NEW inq \in Seq(Bytes),
         NEW n \in Nat, NEW said \in Nat, NEW k \in 1..Len(inq), NEW u,
         Road(c, inq, n, said, TRUE)
  PROVE  LET f == DataFrame(SubSeq(inq, 1, k))
         IN  /\ f \in WireFrame /\ <<f>> \in Seq(WireFrame) /\ f.type = "DATA"
             /\ TypesIn(<<f>>) = {"DATA"}
             /\ Road(c \o <<f>>, SubSeq(inq, k + 1, Len(inq)), n, said, u)
<1> DEFINE d == SubSeq(inq, 1, k)
           f == DataFrame(d)
           g == c \o <<f>>
           none == <<>>
<1>1. d \in Seq(Bytes) /\ d # <<>>
  <2>1. Len(inq) \in Nat /\ k \in Nat /\ k <= Len(inq) /\ k # 0
    OBVIOUS
  <2>2. SubSeq(inq, 1, k) \in Seq(Bytes) /\ Len(SubSeq(inq, 1, k)) = k
    BY <2>1
  <2>3. Len(<<>>) = 0
    OBVIOUS
  <2> QED
    BY <2>1, <2>2, <2>3
<1> HIDE DEF d
<1>2. f \in WireFrame /\ f.type = "DATA"
  BY <1>1, FramesTyped
<1> HIDE DEF f
<1>3. <<f>> \in Seq(WireFrame) /\ TypesIn(<<f>>) = {"DATA"}
  BY <1>2, FewFrames
<1>4. TypesIn(g) = TypesIn(c) \cup {"DATA"}
  <2> DEFINE y == <<f>>
  <2>1. y \in Seq(WireFrame) /\ TypesIn(y) = {"DATA"}
    BY <1>3
  <2> HIDE DEF y
  <2>2. TypesIn(c \o y) = TypesIn(c) \cup TypesIn(y)
    BY <2>1, ConcatSeen DEF WireFrame
  <2> QED
    BY <2>1, <2>2 DEF y
<1>5. none \in Seq(Seq(Bytes)) /\ none \o Pieces(c) = Pieces(c) /\ none \o Pieces(g) = Pieces(g)
  <2>1. g \in Seq(WireFrame)
    <3> DEFINE y == <<f>>
    <3>1. y \in Seq(WireFrame)
      BY <1>3
    <3> HIDE DEF y
    <3>2. c \o y \in Seq(WireFrame)
      BY <3>1, Concats
    <3> QED
      BY <3>2 DEF y
  <2> HIDE DEF g
  <2> DEFINE x == Pieces(c)
             y == Pieces(g)
  <2>2. x \in Seq(Seq(Bytes)) /\ y \in Seq(Seq(Bytes))
    BY <2>1, PiecesLaws
  <2> HIDE DEF x, y
  <2> QED
    BY <2>2 DEF x, y
<1> HIDE DEF none
<1>6. Way(none \o Pieces(c), inq, n, said, TRUE)
  BY <1>5 DEF Road
<1>7. Way(none \o Pieces(g), SubSeq(inq, k + 1, Len(inq)), n, said, u)
  BY <1>5, <1>6, DataSent DEF g, f, d
<1>8. Road(g, SubSeq(inq, k + 1, Len(inq)), n, said, u)
  BY <1>4, <1>5, <1>7 DEF Road
<1> QED
  BY <1>2, <1>3, <1>8 DEF g, f, d

\* and behind the last of them the end.
LEMMA RoadEnded ==
  ASSUME NEW c \in Seq(WireFrame), NEW n \in Nat, NEW said, NEW u,
         NEW tells, tells, Road(c, <<>>, n, said, tells)
  PROVE  Road(c \o <<EofFrame>>, <<>>, n, said, u)
<1> DEFINE y == <<EofFrame>>
           none == <<>>
           empty == <<>>
<1>1. y \in Seq(WireFrame) /\ TypesIn(y) = {"EOF"}
  BY FewFrames, FramesTyped
<1> HIDE DEF y
<1>2. none \in Seq(Seq(Bytes)) /\ empty \in Seq(Bytes) /\ c \o y \in Seq(WireFrame)
  BY <1>1, Concats
<1>3. none \o Pieces(c) = Pieces(c) /\ none \o Pieces(c \o y) = Pieces(c \o y)
  <2> DEFINE x == Pieces(c)
             z == Pieces(c \o y)
  <2>1. x \in Seq(Seq(Bytes)) /\ z \in Seq(Seq(Bytes))
    BY <1>2, PiecesLaws
  <2> HIDE DEF x, z
  <2> QED
    BY <2>1 DEF x, z
<1>4. Way(none \o Pieces(c), empty, n, said, TRUE)
  BY <1>3 DEF Road, Way
<1> HIDE DEF none, empty
<1>5. Way(none \o Pieces(c \o y), empty, n, said, TRUE)
  BY <1>1, <1>2, <1>4, BlankFrames
<1>6. Way(Pieces(c \o y), empty, n, said, TRUE)
  BY <1>3, <1>5
<1>7. Way(Pieces(c \o y), empty, n, said, u)
  BY <1>6, WayMuted
<1> QED
  BY <1>6, <1>7 DEF Road, y, empty

\* What the reader takes comes from the front.
LEMMA RoadTaken ==
  ASSUME NEW f \in WireFrame, f.type = "DATA", NEW c \in Seq(WireFrame),
         NEW inq \in Seq(Bytes), NEW n \in Nat, NEW said \in Nat, NEW tells,
         Road(<<f>> \o c, inq, n, said, tells)
  PROVE  /\ From(f.data, n) /\ n + Len(f.data) <= said
         /\ Road(c, inq, n + Len(f.data), said, tells)
<1> DEFINE d == f.data
           p == Pieces(c)
           y == <<f>>
<1>1. PieceOf(f) = d /\ d \in Seq(Bytes) /\ Pieces(y) = <<d>>
  BY PiecesLaws
<1>2. y \in Seq(WireFrame) /\ TypesIn(y) = {"DATA"}
  BY FewFrames
<1> HIDE DEF y
<1>3. TypesIn(y \o c) = TypesIn(y) \cup TypesIn(c) /\ Pieces(y \o c) = <<d>> \o p
  <2>1. TypesIn(y \o c) = TypesIn(y) \cup TypesIn(c)
    BY <1>2, ConcatSeen DEF WireFrame
  <2>2. Pieces(y \o c) = Pieces(y) \o Pieces(c)
    BY <1>2, PiecesLaws
  <2> QED
    BY <1>1, <2>1, <2>2
<1>4. p \in Seq(Seq(Bytes))
  BY PiecesLaws
<1> HIDE DEF p, d
<1>5. ASSUME NEW i \in Seq(Bytes), NEW u, Way(<<d>> \o p, i, n, said, u)
      PROVE  /\ From(d, n) /\ n + Len(d) <= said /\ Way(p, i, n + Len(d), said, u)
  BY <1>1, <1>4, <1>5, WayTaken
<1>6. Way(<<d>> \o p, inq, n, said, tells)
      /\ ("EOF" \in TypesIn(c) => Way(<<d>> \o p, <<>>, n, said, TRUE))
  BY <1>2, <1>3 DEF Road, y
<1>7. <<>> \in Seq(Bytes)
  OBVIOUS
<1>8. /\ From(d, n) /\ n + Len(d) <= said
      /\ Way(p, inq, n + Len(d), said, tells)
      /\ "EOF" \in TypesIn(c) => Way(p, <<>>, n + Len(d), said, TRUE)
  BY <1>5, <1>6, <1>7
<1> QED
  BY <1>8 DEF Road, d, p

\* At an end with no data behind it the reader has had everything.
LEMMA RoadOver ==
  ASSUME NEW c \in Seq(WireFrame), "EOF" \in TypesIn(c), "DATA" \notin TypesIn(c),
         NEW inq, NEW n \in Nat, NEW said \in Nat, NEW tells,
         Road(c, inq, n, said, tells)
  PROVE  n = said
<1>1. Pieces(c) \in Seq({<<>>})
  BY PiecesLaws
<1>2. Total(Pieces(c)) = 0
  BY <1>1, BlankLaws
<1>3. n + Total(Pieces(c)) + Len(<<>>) = said
  BY DEF Road, Way
<1>4. Len(<<>>) = 0
  OBVIOUS
<1> QED
  BY <1>2, <1>3, <1>4

\* A reader that is fed no more keeps what it has been fed.
LEMMA RoadCut ==
  ASSUME NEW c \in Seq(WireFrame), NEW d \in Seq(WireFrame),
         "EOF" \in TypesIn(c) => "DATA" \notin TypesIn(d),
         NEW inq, NEW n \in Nat, NEW said \in Nat, NEW tells,
         Road(c \o d, inq, n, said, tells), NEW left, NEW u, ~u
  PROVE  Road(c, left, n, said, u)
<1> DEFINE p == Pieces(c)
           q == Pieces(d)
<1>1. /\ p \in Seq(Seq(Bytes)) /\ q \in Seq(Seq(Bytes))
      /\ "DATA" \notin TypesIn(d) => q \in Seq({<<>>})
      /\ Pieces(c \o d) = p \o q
  BY PiecesLaws
<1>2. TypesIn(c \o d) = TypesIn(c) \cup TypesIn(d)
  BY ConcatSeen DEF WireFrame
<1>3. Way(p \o q, inq, n, said, tells)
      /\ ("EOF" \in TypesIn(c) => Way(p \o q, <<>>, n, said, TRUE) /\ q \in Seq({<<>>}))
  BY <1>1, <1>2 DEF Road
<1> HIDE DEF p, q
<1>4. /\ Total(p \o q) = Total(p) + Total(q) /\ Total(p) \in Nat /\ Total(q) \in Nat
      /\ Runs(p \o q, n) => Runs(p, n)
  BY <1>1, TotalLaws, LengthsTyped, RunsLaws
<1>5. Way(p, left, n, said, u)
  BY <1>3, <1>4 DEF Way
<1>6. ASSUME "EOF" \in TypesIn(c) PROVE Way(p, <<>>, n, said, TRUE)
  <2> DEFINE none == <<>>
  <2>0. none \in Seq(Bytes)
    OBVIOUS
  <2>1. Way(p \o q, none, n, said, TRUE) /\ q \in Seq({<<>>}) /\ none \in Seq(Bytes)
    BY <1>3, <1>6, <2>0
  <2>2. Total(q) = 0
    BY <2>1, BlankLaws
  <2>3. From(none, n + Total(p)) /\ Len(none) = 0
    BY DEF From
  <2> HIDE DEF none
  <2>4. Way(p, none, n, said, TRUE)
    BY <1>4, <2>1, <2>2, <2>3 DEF Way
  <2> QED
    BY <2>4 DEF none
<1> QED
  BY <1>5, <1>6 DEF Road, p

\* The other party says all it has to say.
LEMMA RoadSaid ==
  ASSUME NEW c \in Seq(WireFrame), "EOF" \notin TypesIn(c), NEW inq \in Seq(Bytes),
         NEW n \in Nat, NEW tells, Road(c, inq, n, 0, tells), NEW k \in Nat
  PROVE  n = 0 /\ Road(c, Said(k), n, k, tells)
<1>1. Pieces(c) \in Seq(Seq(Bytes))
  BY PiecesLaws
<1>2. Total(Pieces(c)) \in Nat
  BY <1>1, LengthsTyped
<1>3. Runs(Pieces(c), n) /\ n + Total(Pieces(c)) <= 0
  BY DEF Road, Way
<1>4. n = 0 /\ Total(Pieces(c)) = 0
  BY <1>2, <1>3
<1>5. Len(Said(k)) = k /\ From(Said(k), 0)
  BY DEF Said, From
<1>6. Way(Pieces(c), Said(k), n, k, tells)
  BY <1>3, <1>4, <1>5 DEF Way
<1> QED
  BY <1>4, <1>6 DEF Road

-----------------------------------------------------------------------------
\* The step of one end.

\* The places a byte can be are of their types.
LEMMA Places ==
  ASSUME IInv
  PROVE  /\ srv \in SrvType /\ pub \in Socket(Bytes) /\ pub.inq \in Seq(Bytes)
         /\ ReadBy(pub) \in Seq(Bytes) /\ Len(ReadBy(pub)) \in Nat
         /\ py \in PyType /\ loc \in Connection(Bytes) /\ loc.inq \in Seq(Bytes)
         /\ ReadBy(loc) \in Seq(Bytes) /\ Len(ReadBy(loc)) \in Nat
         /\ toAgent \in Seq(WireFrame) /\ toServer \in Seq(WireFrame)
         /\ py.inbox \in Seq(WireFrame) /\ py.headBuf \in Seq(Bytes)
         /\ py.rewriteHost \in BOOLEAN /\ py.headDone \in BOOLEAN /\ py.finished \in BOOLEAN
         /\ visitorSaid \in Nat /\ visitorSaid <= UpBytes /\ serviceSaid \in Nat
         /\ \A n \in 0..visitorSaid : n \in Nat
<1>1. Types
  BY DEF IInv
<1>2. /\ py.inbox \in Seq(WireFrame) /\ py.headBuf \in Seq(Bytes)
      /\ py.rewriteHost \in BOOLEAN /\ py.headDone \in BOOLEAN /\ py.finished \in BOOLEAN
  BY <1>1 DEF Types, PyType
<1>3. /\ visitorSaid \in Nat /\ visitorSaid <= UpBytes /\ serviceSaid \in Nat
      /\ \A n \in 0..visitorSaid : n \in Nat
  BY <1>1, PyBridgeAssumption DEF Types
<1>4. /\ pub.inq \in Seq(Bytes) /\ pub.got \in Seq(Bytes) /\ pub.out \in Seq(Bytes)
      /\ loc.inq \in Seq(Bytes) /\ loc.got \in Seq(Bytes) /\ loc.out \in Seq(Bytes)
  BY <1>1 DEF Types, Socket, Connection
<1>5. ReadBy(pub) \in Seq(Bytes) /\ ReadBy(loc) \in Seq(Bytes)
  BY <1>4, Concats DEF ReadBy
<1>6. Len(ReadBy(pub)) \in Nat /\ Len(ReadBy(loc)) \in Nat
  BY <1>5
<1> QED
  BY <1>1, <1>2, <1>3, <1>4, <1>5, <1>6 DEF Types

\* What is to come is in the inbox and, for a stream that is fed, behind it.
LEMMA ComingTyped ==
  ASSUME IInv
  PROVE  /\ Coming \in Seq(WireFrame)
         /\ py.finished => Coming = py.inbox
         /\ ~py.finished => /\ Coming = py.inbox \o toAgent
                            /\ TypesIn(Coming) = TypesIn(py.inbox) \cup TypesIn(toAgent)
<1>1. py.inbox \in Seq(WireFrame) /\ toAgent \in Seq(WireFrame)
  BY Places
<1>2. /\ py.inbox \o toAgent \in Seq(WireFrame)
      /\ TypesIn(py.inbox \o toAgent) = TypesIn(py.inbox) \cup TypesIn(toAgent)
  BY <1>1, ConcatSeen DEF WireFrame
<1> QED
  BY <1>1, <1>2 DEF Coming

\* From the service to the visitor, as the visitor's side sees it.
LEMMA DownTaken ==
  ASSUME IInv, Down, NEW t \in Seq(WireFrame), toServer' \in Seq(WireFrame),
         toServer = t \o toServer',
         {"DATA", "EOF"} \cap TypesIn(t) = {} \/ ~SrvHears',
         pub' \in Socket(Bytes), SoftOut(pub', pub),
         srv.finished => srv'.finished, srv.receivedEof => srv'.receivedEof,
         py' = py, loc' = loc, linkUp' = linkUp, serviceSaid' = serviceSaid
  PROVE  Down'
<1>1. /\ pub \in Socket(Bytes) /\ loc.inq \in Seq(Bytes) /\ serviceSaid \in Nat
  BY Places
<1> DEFINE new == pub'
           c == toServer'
           a == ReadBy(pub)
           b == ReadBy(new)
<1>2. new \in Socket(Bytes) /\ SoftOut(new, pub) /\ c \in Seq(WireFrame)
  OBVIOUS
<1> HIDE DEF new, c
<1>3. /\ a \in Seq(Bytes) /\ b \in Seq(Bytes) /\ Len(b) <= Len(a)
      /\ \A i \in DOMAIN b : i \in DOMAIN a /\ b[i] = a[i]
      /\ ~new.destroyed => b = a
  BY <1>1, <1>2, SoftRead
<1>4. Len(a) \in Nat /\ Len(b) \in Nat
  BY <1>3
<1>5. From(a, 0) /\ Len(a) <= serviceSaid
  BY DEF Down
<1> HIDE DEF a, b
<1>6. From(b, 0) /\ Len(b) <= serviceSaid
  BY <1>1, <1>3, <1>4, <1>5 DEF From
<1>7. ASSUME SrvHears'
      PROVE  Road(c, loc.inq, Len(b), serviceSaid, PyTells)
  <2>1. SrvHears /\ ~new.destroyed /\ {"DATA", "EOF"} \cap TypesIn(t) = {}
    BY <1>2, <1>7 DEF SrvHears, SoftOut, new
  <2>2. b = a /\ Road(t \o c, loc.inq, Len(a), serviceSaid, PyTells)
    BY <1>3, <2>1 DEF Down, a, c
  <2> DEFINE u == PyTells
             inq == loc.inq
  <2>3. Road(t \o c, inq, Len(a), serviceSaid, u) /\ inq \in Seq(Bytes)
    BY <1>1, <2>2
  <2> HIDE DEF u, inq
  <2>4. Road(t \o c, inq, Len(a), serviceSaid, u) <=> Road(c, inq, Len(a), serviceSaid, u)
    BY <1>1, <1>2, <1>4, <2>1, <2>3, RoadEdges
  <2> QED
    BY <2>2, <2>3, <2>4 DEF u, inq
<1>8. From(ReadBy(pub'), 0) /\ Len(ReadBy(pub')) <= serviceSaid'
  BY <1>6 DEF b, new
<1>9. PyTells' = PyTells
  BY DEF PyTells
<1>10. SrvHears' =>
         Road(toServer', loc'.inq, Len(ReadBy(pub')), serviceSaid', PyTells')
  BY <1>7, <1>9 DEF b, c, new
<1> QED
  BY <1>8, <1>10 DEF Down

\* From the visitor to the service, as the visitor's side sees it: when it says
\* nothing of what its socket holds,
LEMMA OwedBlank ==
  ASSUME IInv, NEW n \in Nat, Owed(n), NEW b \in Seq(WireFrame),
         {"DATA", "EOF"} \cap TypesIn(b) = {},
         toAgent' = toAgent \o b, py' = py, visitorSaid' = visitorSaid,
         SrvTells' => SrvTells /\ pub'.inq = pub.inq
  PROVE  Owed(n)'
<1> DEFINE c == Coming
           d == Coming'
           u == SrvTells /\ ~py.finished
           v == SrvTells' /\ ~py'.finished
           inq == pub.inq
           left == pub'.inq
           q == py.inbox
           m == toAgent
<1>1. /\ c \in Seq(WireFrame) /\ inq \in Seq(Bytes) /\ q \in Seq(WireFrame)
      /\ m \in Seq(WireFrame) /\ Road(c, inq, n, visitorSaid, u)
      /\ v => u /\ left = inq
      /\ d = IF py.finished THEN q ELSE q \o (m \o b)
      /\ c = IF py.finished THEN q ELSE q \o m
  BY Places, ComingTyped DEF Owed, Coming
<1>2. Owed(n)' <=> Road(d, left, n, visitorSaid, v)
  BY DEF Owed
<1> HIDE DEF c, d, u, v, inq, left, q, m
<1>3. CASE py.finished
  BY <1>1, <1>2, <1>3, RoadMuted
<1>4. CASE ~py.finished
  <2>1. d = c \o b
    <3> DEFINE W == WireFrame
    <3>1. q \in Seq(W) /\ m \in Seq(W) /\ b \in Seq(W)
      BY <1>1
    <3> HIDE DEF W
    <3>2. (q \o m) \o b = q \o (m \o b)
      BY <3>1, Assoc
    <3> QED
      BY <1>1, <1>4, <3>2
  <2>2. Road(c \o b, inq, n, visitorSaid, u) <=> Road(c, inq, n, visitorSaid, u)
    BY <1>1, RoadEdges
  <2>3. Road(c \o b, inq, n, visitorSaid, u)
    BY <1>1, <2>2
  <2> DEFINE w == c \o b
  <2>4. Road(w, inq, n, visitorSaid, u) /\ d = w
    BY <2>1, <2>3
  <2> HIDE DEF w
  <2>5. Road(w, left, n, visitorSaid, v)
    BY <1>1, <2>4, RoadMuted
  <2> QED
    BY <1>2, <2>4, <2>5
<1> QED
  BY <1>3, <1>4

\* when it passes on the first bytes of it,
LEMMA OwedData ==
  ASSUME IInv, SrvTells, NEW n \in Nat, Owed(n), "EOF" \notin TypesIn(Coming),
         NEW k \in 1..Len(pub.inq), NEW b \in Seq(WireFrame),
         {"DATA", "EOF"} \cap TypesIn(b) = {},
         toAgent' = toAgent \o (b \o <<DataFrame(SubSeq(pub.inq, 1, k))>>),
         pub'.inq = SubSeq(pub.inq, k + 1, Len(pub.inq)),
         py' = py, visitorSaid' = visitorSaid
  PROVE  Owed(n)'
<1> DEFINE c == Coming
           d == Coming'
           u == SrvTells /\ ~py.finished
           v == SrvTells' /\ ~py'.finished
           inq == pub.inq
           left == SubSeq(inq, k + 1, Len(inq))
           f == DataFrame(SubSeq(inq, 1, k))
           y == <<f>>
           q == py.inbox
           m == toAgent
           said == visitorSaid
<1>1. /\ c \in Seq(WireFrame) /\ inq \in Seq(Bytes) /\ q \in Seq(WireFrame)
      /\ m \in Seq(WireFrame) /\ Road(c, inq, n, said, u)
      /\ v => ~py.finished
      /\ d = IF py.finished THEN q ELSE q \o (m \o (b \o y))
      /\ c = IF py.finished THEN q ELSE q \o m
      /\ u <=> ~py.finished
      /\ k \in 1..Len(inq) /\ said \in Nat /\ "EOF" \notin TypesIn(c)
      /\ u \in BOOLEAN
  BY Places, ComingTyped DEF Owed, Coming
<1>2. Owed(n)' <=> Road(d, left, n, said, v)
  BY DEF Owed
<1> HIDE DEF c, d, u, v, inq, y, q, m, said
<1>3. CASE py.finished
  <2> HIDE DEF left
  <2> QED
    BY <1>1, <1>2, <1>3, RoadMuted
<1>4. CASE ~py.finished
  <2>1. c \o b \in Seq(WireFrame)
        /\ (Road(c \o b, inq, n, said, u) <=> Road(c, inq, n, said, u))
        /\ TypesIn(c \o b) = TypesIn(c) \cup TypesIn(b)
    <3>1. c \o b \in Seq(WireFrame) /\ TypesIn(c \o b) = TypesIn(c) \cup TypesIn(b)
      <4>1. c \in Seq(SomeFrame(Bytes)) /\ b \in Seq(SomeFrame(Bytes))
        BY <1>1 DEF WireFrame
      <4> QED
        BY <4>1, ConcatSeen DEF WireFrame
    <3>2. Road(c \o b, inq, n, said, u) <=> Road(c, inq, n, said, u)
      BY <1>1, RoadEdges
    <3> QED
      BY <3>1, <3>2
  <2> DEFINE w == c \o b
  <2>2. w \in Seq(WireFrame) /\ "EOF" \notin TypesIn(w) /\ Road(w, inq, n, said, TRUE)
    <3>1. Road(w, inq, n, said, u) /\ u = TRUE
      BY <1>1, <1>4, <2>1
    <3> HIDE DEF w
    <3> QED
      BY <1>1, <2>1, <3>1 DEF w
  <2> HIDE DEF w
  <2>3. y \in Seq(WireFrame) /\ Road(w \o y, left, n, said, v)
    BY <1>1, <2>2, RoadSent DEF y
  <2> HIDE DEF left, f
  <2>4. d = w \o y
    <3> DEFINE W == WireFrame
    <3>1. q \in Seq(W) /\ m \in Seq(W) /\ b \in Seq(W) /\ y \in Seq(W)
      BY <1>1, <2>3
    <3> HIDE DEF W
    <3>2. Regroups(q, m, b, y)
      BY <3>1, AssocLong
    <3>3. d = q \o (m \o (b \o y)) /\ w = (q \o m) \o b
      BY <1>1, <1>4 DEF w
    <3> QED
      BY <3>2, <3>3 DEF Regroups
  <2> QED
    BY <1>2, <2>3, <2>4
<1> QED
  BY <1>3, <1>4

\* and when it has come to the end of it.
LEMMA OwedEnded ==
  ASSUME IInv, SrvTells, pub.inq = <<>>, NEW n \in Nat, Owed(n),
         toAgent' = toAgent \o <<EofFrame>>, ~SrvTells', pub'.inq = <<>>,
         py' = py, visitorSaid' = visitorSaid
  PROVE  Owed(n)'
<1> DEFINE c == Coming
           d == Coming'
           u == SrvTells /\ ~py.finished
           v == SrvTells' /\ ~py'.finished
           y == <<EofFrame>>
           q == py.inbox
           m == toAgent
           said == visitorSaid
<1>1. /\ c \in Seq(WireFrame) /\ q \in Seq(WireFrame)
      /\ m \in Seq(WireFrame) /\ Road(c, <<>>, n, said, u)
      /\ ~v
      /\ d = IF py.finished THEN q ELSE q \o (m \o y)
      /\ c = IF py.finished THEN q ELSE q \o m
      /\ ~py.finished => u
      /\ y \in Seq(WireFrame)
  BY Places, ComingTyped, FewFrames, FramesTyped DEF Owed, Coming
<1>2. Owed(n)' <=> Road(d, <<>>, n, said, v)
  BY DEF Owed
<1> HIDE DEF c, d, u, v, q, m, said
<1>3. CASE py.finished
  <2> DEFINE none == <<>>
  <2> HIDE DEF none
  <2>1. Road(c, none, n, said, u) /\ d = c
    BY <1>1, <1>3 DEF none
  <2>2. Road(c, none, n, said, v)
    BY <1>1, <2>1, RoadMuted
  <2> QED
    BY <1>2, <2>1, <2>2 DEF none
<1>4. CASE ~py.finished
  <2>1. Road(c \o y, <<>>, n, said, v)
    BY <1>1, <1>4, RoadEnded
  <2> HIDE DEF y
  <2>2. d = c \o y
    <3> DEFINE W == WireFrame
    <3>1. q \in Seq(W) /\ m \in Seq(W) /\ y \in Seq(W)
      BY <1>1
    <3> HIDE DEF W
    <3>2. (q \o m) \o y = q \o (m \o y)
      BY <3>1, Assoc
    <3> QED
      BY <1>1, <1>4, <3>2
  <2> QED
    BY <1>2, <2>1, <2>2
<1> QED
  BY <1>3, <1>4

\* The agent's end keeps its place meanwhile.
LEMMA UpBy ==
  ASSUME Up, py' = py, loc' = loc, visitorSaid' = visitorSaid, Refused => Refused',
         \A n \in 0..visitorSaid : Owed(n) => Owed(n)'
  PROVE  Up'
<1> HIDE DEF Refused, Owed
<1>1. PyHears' = PyHears
  BY DEF PyHears
<1>2. /\ AllSeen(py'.rewriteHost, ReadBy(loc'))
      /\ Len(ReadBy(loc')) <= SeenLen(py'.rewriteHost, visitorSaid')
  BY DEF Up
<1>3. ASSUME PyHears', ~Refused'
      PROVE  \E n \in 0..visitorSaid' : Taken(py', ReadBy(loc'), n) /\ Owed(n)'
  <2>1. PICK n \in 0..visitorSaid : Taken(py, ReadBy(loc), n) /\ Owed(n)
    BY <1>1, <1>3 DEF Up
  <2>2. n \in 0..visitorSaid' /\ Taken(py', ReadBy(loc'), n) /\ Owed(n)'
    BY <2>1
  <2> QED
    BY <2>2
<1> QED
  BY <1>2, <1>3 DEF Up

\* From the service to the visitor, as the service's side sees it: the same.
LEMMA DownBlank ==
  ASSUME IInv, Down, NEW b \in Seq(WireFrame), toServer' = toServer \o b,
         {"DATA", "EOF"} \cap TypesIn(b) = {},
         PyTells' => PyTells /\ loc'.inq = loc.inq,
         srv' = srv, pub' = pub, serviceSaid' = serviceSaid
  PROVE  Down'
<1>1. From(ReadBy(pub'), 0) /\ Len(ReadBy(pub')) <= serviceSaid'
  BY DEF Down
<1>2. ASSUME SrvHears'
      PROVE  Road(toServer', loc'.inq, Len(ReadBy(pub')), serviceSaid', PyTells')
  <2>1. SrvHears
    BY <1>2 DEF SrvHears
  <2> DEFINE u == PyTells
             v == PyTells'
             inq == loc.inq
             left == loc'.inq
             c == toServer
             n == Len(ReadBy(pub))
             said == serviceSaid
  <2>2. /\ n \in Nat /\ c \in Seq(WireFrame) /\ inq \in Seq(Bytes)
        /\ Road(c, inq, n, said, u) /\ (v => u /\ left = inq)
        /\ toServer' = c \o b /\ Len(ReadBy(pub')) = n /\ serviceSaid' = said
    BY <2>1, Places DEF Down
  <2> HIDE DEF u, v, inq, left, c, n, said
  <2>3. Road(c \o b, inq, n, said, u) <=> Road(c, inq, n, said, u)
    BY <2>2, RoadEdges
  <2> DEFINE w == c \o b
  <2>4. Road(w, inq, n, said, u) /\ toServer' = w
    BY <2>2, <2>3
  <2> HIDE DEF w
  <2>5. Road(w, left, n, said, v)
    BY <2>2, <2>4, RoadMuted
  <2> QED
    BY <2>2, <2>4, <2>5 DEF left, v
<1> QED
  BY <1>1, <1>2 DEF Down

LEMMA DownData ==
  ASSUME IInv, Down, PyTells, NEW k \in 1..Len(loc.inq), "EOF" \notin TypesIn(toServer),
         toServer' = toServer \o <<DataFrame(SubSeq(loc.inq, 1, k))>>,
         loc'.inq = SubSeq(loc.inq, k + 1, Len(loc.inq)),
         srv' = srv, pub' = pub, serviceSaid' = serviceSaid
  PROVE  Down'
<1>1. From(ReadBy(pub'), 0) /\ Len(ReadBy(pub')) <= serviceSaid'
  BY DEF Down
<1>2. ASSUME SrvHears'
      PROVE  Road(toServer', loc'.inq, Len(ReadBy(pub')), serviceSaid', PyTells')
  <2>1. SrvHears
    BY <1>2 DEF SrvHears
  <2> DEFINE v == PyTells'
             inq == loc.inq
             left == SubSeq(inq, k + 1, Len(inq))
             f == DataFrame(SubSeq(inq, 1, k))
             c == toServer
             n == Len(ReadBy(pub))
             said == serviceSaid
             tells == PyTells
  <2>2. /\ n \in Nat /\ c \in Seq(WireFrame) /\ inq \in Seq(Bytes) /\ said \in Nat
        /\ Road(c, inq, n, said, tells) /\ tells = TRUE
        /\ k \in 1..Len(inq) /\ "EOF" \notin TypesIn(c)
        /\ toServer' = c \o <<f>> /\ Len(ReadBy(pub')) = n /\ serviceSaid' = said
        /\ loc'.inq = left
    BY <2>1, Places DEF Down, PyTells
  <2> HIDE DEF v, inq, c, n, said, tells
  <2>3. Road(c, inq, n, said, TRUE)
    BY <2>2
  <2>4. Road(c \o <<f>>, left, n, said, v)
    BY <2>2, <2>3, RoadSent
  <2> HIDE DEF left, f
  <2> QED
    BY <2>2, <2>4 DEF v
<1> QED
  BY <1>1, <1>2 DEF Down

LEMMA DownEnded ==
  ASSUME IInv, Down, PyTells, loc.inq = <<>>,
         toServer' = toServer \o <<EofFrame>>, loc'.inq = <<>>,
         srv' = srv, pub' = pub, serviceSaid' = serviceSaid
  PROVE  Down'
<1>1. From(ReadBy(pub'), 0) /\ Len(ReadBy(pub')) <= serviceSaid'
  BY DEF Down
<1>2. ASSUME SrvHears'
      PROVE  Road(toServer', loc'.inq, Len(ReadBy(pub')), serviceSaid', PyTells')
  <2>1. SrvHears
    BY <1>2 DEF SrvHears
  <2> DEFINE v == PyTells'
             u == PyTells
             c == toServer
             n == Len(ReadBy(pub))
             said == serviceSaid
  <2>2. /\ n \in Nat /\ c \in Seq(WireFrame)
        /\ Road(c, <<>>, n, said, u) /\ u
        /\ toServer' = c \o <<EofFrame>> /\ Len(ReadBy(pub')) = n /\ serviceSaid' = said
    BY <2>1, Places DEF Down
  <2> HIDE DEF v, u, c, n, said
  <2>3. Road(c \o <<EofFrame>>, <<>>, n, said, v)
    BY <2>2, RoadEnded
  <2> QED
    BY <2>2, <2>3 DEF v
<1> QED
  BY <1>1, <1>2 DEF Down

\* How much the service reads grows with what was said.
LEMMA SeenGrows ==
  /\ Growth \in Nat
  /\ \A r : \A n \in Nat : SeenLen(r, n) \in Nat /\ n <= SeenLen(r, n)
  /\ \A r : \A m, n \in Nat : m <= n => SeenLen(r, m) <= SeenLen(r, n)
<1>1. Growth \in Nat
  BY PyBridgeAssumption DEF Growth
<1>2. UpBytes \in Nat
  BY PyBridgeAssumption
<1> HIDE DEF Growth
<1>3. ASSUME NEW r, NEW n \in Nat PROVE SeenLen(r, n) \in Nat /\ n <= SeenLen(r, n)
  BY <1>1 DEF SeenLen
<1>4. ASSUME NEW r, NEW m \in Nat, NEW n \in Nat, m <= n
      PROVE  SeenLen(r, m) <= SeenLen(r, n)
  <2>1. CASE Rewriting(r)
    <3>1. HostByte \in Nat
      BY <1>2, <2>1 DEF Rewriting
    <3> QED
      BY <1>1, <1>4, <3>1 DEF SeenLen
  <2>2. CASE ~Rewriting(r)
    BY <1>4, <2>2 DEF SeenLen
  <2> QED
    BY <2>1, <2>2
<1> QED
  BY <1>1, <1>3, <1>4

\* Nothing new is written to the connection, or it fails.
ReadsOn(d, c) ==
    /\ Len(ReadBy(d)) <= Len(ReadBy(c))
    /\ \A i \in DOMAIN ReadBy(d) : i \in DOMAIN ReadBy(c) /\ ReadBy(d)[i] = ReadBy(c)[i]
    /\ ~d.lost => ~c.lost /\ ReadBy(d) = ReadBy(c)

\* So it is for a connection that is left alone,
Still(d, c) ==
    /\ d.got = c.got
    /\ d.out = c.out \/ (d.out = <<>> /\ d.lost)
    /\ c.lost => d.lost

LEMMA StillRead ==
  ASSUME NEW B, NEW c \in Connection(B), NEW d \in Connection(B), Still(d, c)
  PROVE  ReadsOn(d, c)
<1>1. c.got \in Seq(B) /\ c.out \in Seq(B) /\ d.got \in Seq(B) /\ d.out \in Seq(B)
  BY DEF Connection
<1> DEFINE g == c.got
           o == c.out
<1>2. ReadBy(c) = g \o o /\ (ReadBy(d) = g \o o \/ (ReadBy(d) = g /\ d.lost))
  <2>1. \A x \in Seq(B) : x \o <<>> = x
    OBVIOUS
  <2>2. d.got \o d.out = g \o o \/ (d.got \o d.out = g /\ d.lost)
    BY <1>1, <2>1 DEF Still
  <2> QED
    BY <2>2 DEF ReadBy
<1>3. g \in Seq(B) /\ o \in Seq(B)
  BY <1>1
<1> HIDE DEF g, o
<1>4. /\ g \o o \in Seq(B) /\ Len(g) <= Len(g \o o)
      /\ \A i \in DOMAIN g : i \in DOMAIN (g \o o) /\ g[i] = (g \o o)[i]
      /\ Len(g \o o) <= Len(g \o o)
  <2>1. /\ g \o o \in Seq(B) /\ Len(g \o o) = Len(g) + Len(o)
        /\ \A i \in 1..Len(g) : (g \o o)[i] = g[i]
    BY <1>3, ConcatProperties
  <2>2. /\ DOMAIN g = 1..Len(g) /\ Len(g) \in Nat /\ Len(o) \in Nat
        /\ DOMAIN (g \o o) = 1..Len(g \o o)
    BY <1>3, <2>1
  <2> DEFINE x == g \o o
  <2> HIDE DEF x
  <2>3. Len(x) = Len(g) + Len(o) /\ DOMAIN x = 1..Len(x) /\ \A i \in 1..Len(g) : x[i] = g[i]
    BY <2>1, <2>2 DEF x
  <2>4. Len(g) <= Len(x) /\ Len(x) <= Len(x) /\ \A i \in DOMAIN g : i \in DOMAIN x /\ g[i] = x[i]
    BY <2>2, <2>3
  <2> QED
    BY <2>1, <2>4 DEF x
<1>5. ~d.lost => ~c.lost
  BY DEF Still
<1> QED
  BY <1>2, <1>3, <1>4, <1>5 DEF ReadsOn

\* and for one the kernel takes a byte from.
LEMMA FlushReads ==
  ASSUME NEW B, NEW c \in Connection(B), CanTake(c)
  PROVE  /\ ReadsOn(TakeByte(c), c) /\ TakeByte(c) \in Connection(B)
         /\ TakeByte(c).inq = c.inq /\ TakeByte(c).lost = c.lost
         /\ TakeByte(c).fin = c.fin /\ TakeByte(c).eof = c.eof
         /\ ReadBy(TakeByte(c)) = ReadBy(c) /\ ReadBy(c) \in Seq(B)
<1> DEFINE g == c.got
           o == c.out
           x == Append(g, Head(o))
           y == Tail(o)
           z == c.paused /\ Len(c.out) - 1 > LowMark
           d == TakeByte(c)
<1>1. g \in Seq(B) /\ o \in Seq(B) /\ o # <<>>
  BY DEF Connection, CanTake
<1>2. d = [c EXCEPT !.got = x, !.out = y, !.paused = z]
  BY DEF TakeByte
<1>3. d \in Connection(B)
  BY ConnectionSteps DEF CanTake, Kept
<1> HIDE DEF g, o, z, d
<1>4. x = g \o <<Head(o)>> /\ o = <<Head(o)>> \o y
  BY <1>1, HeadTailSplit
<1>5. <<Head(o)>> \in Seq(B) /\ y \in Seq(B)
  BY <1>1
<1> DEFINE b == <<Head(o)>>
<1>6. b \in Seq(B) /\ y \in Seq(B) /\ x = g \o b /\ o = b \o y
  BY <1>4, <1>5
<1> HIDE DEF b, x, y
<1>7. (g \o b) \o y = g \o (b \o y)
  BY <1>1, <1>6, Assoc
<1>8. x \o y = g \o o
  BY <1>6, <1>7
<1>9. /\ d.got = x /\ d.out = y /\ d.inq = c.inq /\ d.lost = c.lost
      /\ d.fin = c.fin /\ d.eof = c.eof
  BY <1>2 DEF Connection
<1>10. ReadBy(d) = ReadBy(c)
  BY <1>8, <1>9 DEF ReadBy, g, o
<1>11. ReadBy(c) \in Seq(B)
  <2>1. g \o o \in Seq(B)
    BY <1>1, Concats
  <2> QED
    BY <2>1 DEF ReadBy, g, o
<1>12. ReadsOn(d, c)
  <2> DEFINE s == ReadBy(c)
  <2>1. s \in Seq(B) /\ ReadBy(d) = s /\ ReadBy(c) = s
    BY <1>10, <1>11
  <2> HIDE DEF s
  <2>2. Len(s) <= Len(s)
    BY <2>1
  <2> QED
    BY <1>9, <2>1, <2>2 DEF ReadsOn
<1> QED
  BY <1>3, <1>9, <1>10, <1>11, <1>12 DEF d

\* What the service reads stays right on a connection nothing is written to.
LEMMA SeenKept ==
  ASSUME NEW c \in Connection(Bytes), NEW d \in Connection(Bytes), ReadsOn(d, c),
         NEW r, NEW m \in Nat, AllSeen(r, ReadBy(c)), Len(ReadBy(c)) <= SeenLen(r, m)
  PROVE  AllSeen(r, ReadBy(d)) /\ Len(ReadBy(d)) <= SeenLen(r, m)
<1> DEFINE a == ReadBy(c)
           b == ReadBy(d)
           x == SeenLen(r, m)
<1>1. /\ Len(b) <= Len(a)
      /\ \A i \in DOMAIN b : i \in DOMAIN a /\ b[i] = a[i]
  BY DEF ReadsOn
<1>2. AllSeen(r, a) /\ Len(a) <= x
  OBVIOUS
<1>3. x \in Nat
  BY SeenGrows
<1>4. a \in Seq(Bytes) /\ b \in Seq(Bytes)
  <2>1. c.got \in Seq(Bytes) /\ c.out \in Seq(Bytes) /\ d.got \in Seq(Bytes) /\ d.out \in Seq(Bytes)
    BY DEF Connection
  <2> QED
    BY <2>1, Concats DEF ReadBy
<1> HIDE DEF a, b, x
<1>5. Len(a) \in Nat /\ Len(b) \in Nat
  BY <1>4
<1>6. AllSeen(r, b) /\ Len(b) <= x
  BY <1>1, <1>2, <1>3, <1>5 DEF AllSeen
<1> QED
  BY <1>6 DEF b, x

\* From the visitor to the service, as the service's side sees it: a pump that
\* writes nothing keeps its place, as long as what it waits for stays.
LEMMA UpQuiet ==
  ASSUME IInv, Up, loc' \in Connection(Bytes), ReadsOn(loc', loc),
         py'.rewriteHost = py.rewriteHost, visitorSaid' = visitorSaid,
         PyHears' /\ ~Refused' =>
            /\ PyHears /\ ~Refused
            /\ py'.headBuf = py.headBuf /\ py'.headDone = py.headDone
            /\ \A n \in 0..visitorSaid : Owed(n) => Owed(n)'
  PROVE  Up'
<1> HIDE DEF Refused, Owed
<1> DEFINE c == loc
           d == loc'
           r == py.rewriteHost
           m == visitorSaid
<1>1. /\ c \in Connection(Bytes) /\ d \in Connection(Bytes) /\ ReadsOn(d, c) /\ m \in Nat
      /\ AllSeen(r, ReadBy(c)) /\ Len(ReadBy(c)) <= SeenLen(r, m)
  BY Places DEF Up
<1> HIDE DEF c, d, r, m
<1>2. AllSeen(r, ReadBy(d)) /\ Len(ReadBy(d)) <= SeenLen(r, m)
  BY <1>1, SeenKept
<1>3. AllSeen(py'.rewriteHost, ReadBy(loc'))
      /\ Len(ReadBy(loc')) <= SeenLen(py'.rewriteHost, visitorSaid')
  BY <1>2 DEF d, r, m
<1>4. ASSUME PyHears', ~Refused'
      PROVE  \E n \in 0..visitorSaid' : Taken(py', ReadBy(loc'), n) /\ Owed(n)'
  <2>1. PICK n \in 0..visitorSaid : Taken(py, ReadBy(loc), n) /\ Owed(n)
    BY <1>4 DEF Up
  <2>2. ~loc'.lost
    BY <1>4 DEF PyHears
  <2>3. ReadBy(loc') = ReadBy(loc)
    BY <2>2 DEF ReadsOn
  <2>4. Taken(py', ReadBy(loc'), n)
    BY <1>4, <2>1, <2>3 DEF Taken
  <2>5. n \in 0..visitorSaid' /\ Owed(n)'
    BY <1>4, <2>1
  <2> QED
    BY <2>4, <2>5
<1> QED
  BY <1>3, <1>4 DEF Up

\* What is owed to a pump when a frame is taken that says nothing to it,
LEMMA OwedTaken ==
  ASSUME IInv, NEW n \in Nat, Owed(n), NEW t \in Seq(WireFrame),
         toAgent' \in Seq(WireFrame), toAgent = t \o toAgent',
         py.finished \/ {"DATA", "EOF"} \cap TypesIn(t) = {},
         py'.inbox = py.inbox, py'.finished = py.finished,
         srv' = srv, pub' = pub, linkUp' = linkUp, visitorSaid' = visitorSaid
  PROVE  Owed(n)'
<1> DEFINE u == SrvTells /\ ~py.finished
           v == SrvTells' /\ ~py'.finished
           inq == pub.inq
           q == py.inbox
           m == toAgent'
           said == visitorSaid
<1>1. /\ inq \in Seq(Bytes) /\ q \in Seq(WireFrame) /\ m \in Seq(WireFrame)
      /\ v <=> u
      /\ u \in BOOLEAN /\ v \in BOOLEAN
      /\ Road(IF py.finished THEN q ELSE q \o (t \o m), inq, n, said, u)
      /\ Owed(n)' <=> Road(IF py.finished THEN q ELSE q \o m, inq, n, said, v)
  BY Places DEF Owed, Coming, SrvTells
<1> HIDE DEF u, v, inq, q, m, said
<1>2. v = u
  BY <1>1
<1>3. CASE py.finished
  BY <1>1, <1>2, <1>3
<1>4. CASE ~py.finished
  <2>1. Road(q \o (t \o m), inq, n, said, u) <=> Road(q \o m, inq, n, said, u)
    BY <1>1, <1>4, RoadBlank
  <2> QED
    BY <1>1, <1>2, <1>4, <2>1
<1> QED
  BY <1>3, <1>4

\* when it is fed,
LEMMA OwedFed ==
  ASSUME IInv, NEW n \in Nat, Owed(n), NEW f \in WireFrame,
         toAgent' \in Seq(WireFrame), toAgent = <<f>> \o toAgent',
         ~py.finished, ~py'.finished, py'.inbox = Append(py.inbox, f),
         srv' = srv, pub' = pub, linkUp' = linkUp, visitorSaid' = visitorSaid
  PROVE  Owed(n)'
<1> DEFINE q == py.inbox
           m == toAgent'
           y == <<f>>
<1>1. q \in Seq(WireFrame) /\ m \in Seq(WireFrame) /\ y \in Seq(WireFrame)
      /\ Append(q, f) = q \o y
  <2>1. q \in Seq(WireFrame) /\ y \in Seq(WireFrame)
    BY Places, FewFrames
  <2> HIDE DEF q
  <2>2. Append(q, f) = q \o <<f>>
    BY <2>1
  <2> QED
    BY <2>1, <2>2
<1>2. toAgent = y \o m /\ py'.inbox = Append(q, f) /\ toAgent' = m /\ py.inbox = q
  OBVIOUS
<1> HIDE DEF q, m, y
<1>3. (q \o y) \o m = q \o (y \o m)
  <2> DEFINE W == WireFrame
  <2>1. q \in Seq(W) /\ m \in Seq(W) /\ y \in Seq(W)
    BY <1>1
  <2> HIDE DEF W
  <2>2. \A i1, i2, i3 \in Seq(W) : (i1 \o i2) \o i3 = i1 \o (i2 \o i3)
    BY Concats
  <2> QED
    BY <2>1, <2>2
<1>4. Coming' = Coming
  BY <1>1, <1>2, <1>3 DEF Coming
<1>5. SrvTells' = SrvTells
  BY DEF SrvTells
<1> QED
  BY <1>4, <1>5 DEF Owed

\* and when it is to be fed no more.
LEMMA OwedCut ==
  ASSUME IInv, Ends, NEW n \in Nat, Owed(n), py'.inbox = py.inbox, py'.finished,
         pub' = pub, visitorSaid' = visitorSaid
  PROVE  Owed(n)'
<1> DEFINE u == SrvTells /\ ~py.finished
           v == SrvTells' /\ ~py'.finished
           inq == pub.inq
           q == py.inbox
           m == toAgent
           said == visitorSaid
<1>1. /\ inq \in Seq(Bytes) /\ q \in Seq(WireFrame) /\ m \in Seq(WireFrame) /\ said \in Nat
      /\ ~v
      /\ Road(IF py.finished THEN q ELSE q \o m, inq, n, said, u)
      /\ Owed(n)' <=> Road(q, inq, n, said, v)
      /\ "EOF" \in TypesIn(q) => py.finished \/ "DATA" \notin TypesIn(m)
  BY Places DEF Owed, Coming, Ends
<1> HIDE DEF u, v, inq, q, m, said
<1>2. CASE py.finished
  BY <1>1, <1>2, RoadMuted
<1>3. CASE ~py.finished
  BY <1>1, <1>3, RoadCut
<1> QED
  BY <1>2, <1>3

-----------------------------------------------------------------------------
\* The server's end.

\* What a step of it is to leave behind: both ways, and an end of stream that
\* was sent on is the visitor's own.
SrvMoves == Up' /\ Down' /\ (srv'.sentEof => pub'.fin)

\* A stream refused stays so.
LEMMA StaysRefused ==
  ASSUME IInv, NEW b \in Seq(WireFrame), "OPEN" \notin TypesIn(b),
         toAgent' = toAgent \o b, srv.opened => srv'.opened, py' = py,
         Refused
  PROVE  Refused'
<1>1. toAgent \in Seq(WireFrame)
  BY Places
<1>2. TypesIn(toAgent \o b) = TypesIn(toAgent) \cup TypesIn(b)
  BY <1>1, ConcatSeen DEF WireFrame
<1> QED
  BY <1>2 DEF Refused

\* Frames that neither carry a byte nor end anything change nothing upwards.
LEMMA UpSaysNothing ==
  ASSUME IInv, Up, NEW b \in Seq(WireFrame), {"DATA", "EOF"} \cap TypesIn(b) = {},
         toAgent' = toAgent \o b, py' = py, loc' = loc, visitorSaid' = visitorSaid,
         Refused => Refused', SrvTells' => SrvTells /\ pub'.inq = pub.inq
  PROVE  Up'
<1> HIDE DEF Refused
<1>1. ASSUME NEW n \in 0..visitorSaid, Owed(n) PROVE Owed(n)'
  <2>1. n \in Nat
    BY Places
  <2> QED
    BY <1>1, <2>1, OwedBlank
<1> QED
  BY <1>1, UpBy

\* The first bytes of the visitor's socket pass on.
LEMMA UpSaysData ==
  ASSUME IInv, Up, SrvTells, NEW b \in Seq(WireFrame), {"DATA", "EOF"} \cap TypesIn(b) = {},
         NEW k \in 1..Len(pub.inq),
         toAgent' = toAgent \o (b \o <<DataFrame(SubSeq(pub.inq, 1, k))>>),
         pub'.inq = SubSeq(pub.inq, k + 1, Len(pub.inq)),
         "EOF" \notin TypesIn(Coming),
         py' = py, loc' = loc, visitorSaid' = visitorSaid, Refused => Refused'
  PROVE  Up'
<1> HIDE DEF Refused
<1>1. ASSUME NEW n \in 0..visitorSaid, Owed(n) PROVE Owed(n)'
  <2>1. n \in Nat
    BY Places
  <2> QED
    BY <1>1, <2>1, OwedData
<1> QED
  BY <1>1, UpBy

\* Nothing more is to come behind an end of stream, so none is under way while
\* the server has not sent its own.
LEMMA NoEndYet ==
  ASSUME IInv, Ends, ~srv.sentEof
  PROVE  "EOF" \notin TypesIn(Coming)
<1>1. "EOF" \notin TypesIn(toAgent)
  BY DEF IInv, Chan
<1>2. "EOF" \notin TypesIn(py.inbox)
  BY DEF Ends
<1> QED
  BY <1>1, <1>2, ComingTyped, Places

\* What a committed turn adds to the frames under way.
LEMMA SrvSent ==
  ASSUME IInv, NEW r, NEW t, SrvCommitted(r, t)
  PROVE  LET b == IF linkUp THEN r.sent ELSE <<>>
         IN  /\ b \in Seq(WireFrame) /\ toAgent' = toAgent \o b
             /\ TypesIn(b) \subseteq TypesIn(r.sent)
<1>1. r.sent \in Seq(WireFrame) /\ <<>> \in Seq(WireFrame) /\ toAgent \in Seq(WireFrame)
  BY Places DEF SrvCommitted, SrvTurn
<1>2. toAgent \o <<>> = toAgent
  BY <1>1
<1> QED
  BY <1>1, <1>2, EmptySeen DEF SrvCommitted

\* A calm turn of the server.
LEMMA SrvCalmStep ==
  ASSUME IInv, Order, NEW r, NEW t, SrvCommitted(r, t), SrvCalm(r, S!Turn),
         {"DATA", "EOF"} \cap TypesIn(t) = {} \/ ~SrvHears'
  PROVE  SrvMoves
<1>0. pub \in Socket(Bytes)
  BY Places
<1>1. /\ S!Turn.st = srv /\ S!Turn.sock = pub /\ S!Turn.sent = <<>>
  BY <1>0, SrvTurnStarts
<1> DEFINE b == IF linkUp THEN r.sent ELSE <<>>
<1>2. b \in Seq(WireFrame) /\ toAgent' = toAgent \o b /\ TypesIn(b) \subseteq TypesIn(r.sent)
  BY SrvSent
<1> HIDE DEF b
<1>3. TypesIn(b) \subseteq {"ACK", "RESET"}
  BY <1>1, <1>2, EmptySeen DEF SrvCalm
<1>4. {"DATA", "EOF"} \cap TypesIn(b) = {} /\ "OPEN" \notin TypesIn(b)
  BY <1>3
<1>5. /\ srv' = r.st /\ pub' = r.sock /\ pub' \in Socket(Bytes)
      /\ py' = py /\ loc' = loc /\ linkUp' = linkUp
      /\ visitorSaid' = visitorSaid /\ serviceSaid' = serviceSaid
      /\ t \in Seq(WireFrame) /\ toServer' \in Seq(WireFrame) /\ toServer = t \o toServer'
  BY DEF SrvCommitted, SrvTurn, pVars
<1>6. /\ SoftOut(pub', pub) /\ SoftIn(pub', pub) /\ srv'.opened = srv.opened
      /\ srv.finished => srv'.finished
      /\ srv'.sentEof = srv.sentEof
      /\ srv.receivedEof => srv'.receivedEof
      /\ pub.fin => pub'.fin
  BY <1>1, <1>5 DEF SrvCalm, Soft
<1>7. Down'
  BY <1>5, <1>6, DownTaken DEF Order
<1>8. Refused => Refused'
  BY <1>2, <1>4, <1>5, <1>6, StaysRefused
<1>9. SrvTells' => SrvTells /\ pub'.inq = pub.inq
  BY <1>5, <1>6 DEF SrvTells, SoftIn
<1>10. Up'
  <2> HIDE DEF Refused
  <2> QED
    BY <1>2, <1>4, <1>5, <1>8, <1>9, UpSaysNothing DEF Order
<1>11. srv'.sentEof => pub'.fin
  BY <1>6 DEF Order, Ends
<1> QED
  BY <1>7, <1>10, <1>11 DEF SrvMoves

\* The server's end and the frames unchanged, and its socket read from or
\* written to by nobody but the party behind it.
LEMMA PubIdle ==
  ASSUME IInv, Order, srv' = srv, UNCHANGED <<pVars, linkVars, serviceSaid>>,
         pub' \in Socket(Bytes), SoftOut(pub', pub), SoftIn(pub', pub),
         pub.fin => pub'.fin, visitorSaid' = visitorSaid
  PROVE  SrvMoves
<1>1. /\ py' = py /\ loc' = loc /\ linkUp' = linkUp /\ toAgent' = toAgent
      /\ toServer' = toServer /\ serviceSaid' = serviceSaid
  BY DEF pVars, linkVars
<1> DEFINE none == <<>>
<1>2. /\ none \in Seq(WireFrame) /\ {"DATA", "EOF"} \cap TypesIn(none) = {}
      /\ toAgent \in Seq(WireFrame) /\ toServer \in Seq(WireFrame)
  BY Places, EmptySeen
<1>3. toServer = none \o toServer' /\ toAgent' = toAgent \o none
  BY <1>1, <1>2
<1> HIDE DEF none
<1>4. Down'
  BY <1>1, <1>2, <1>3, DownTaken DEF Order
<1>5. Refused => Refused'
  BY <1>1 DEF Refused
<1>6. SrvTells' => SrvTells /\ pub'.inq = pub.inq
  BY <1>1 DEF SrvTells, SoftIn
<1>7. Up'
  <2> HIDE DEF Refused
  <2> QED
    BY <1>1, <1>2, <1>3, <1>5, <1>6, UpSaysNothing DEF Order
<1> QED
  BY <1>4, <1>7 DEF Order, Ends, SrvMoves

\* The turn of a callback is calm against itself.
LEMMA SrvTurnCalm ==
  ASSUME IInv
  PROVE  /\ S!Turn \in SrvTurn /\ SrvCalm(S!Turn, S!Turn)
         /\ S!Turn.st = srv /\ S!Turn.sock = pub /\ S!Turn.sent = <<>>
         /\ pub \in Socket(Bytes)
         /\ \A s \in Socket(Bytes) : Soft(s, pub) /\ (pub.fin => s.fin) =>
               /\ [S!Turn EXCEPT !.sock = s] \in SrvTurn
               /\ SrvCalm([S!Turn EXCEPT !.sock = s], S!Turn)
<1>1. pub \in Socket(Bytes)
  BY Places
<1>2. /\ S!Turn \in SrvTurn
      /\ S!Turn.st = srv /\ S!Turn.sock = pub /\ S!Turn.sent = <<>>
      /\ \A s \in Socket(Bytes) : [S!Turn EXCEPT !.sock = s] \in SrvTurn
  BY <1>1, SrvTurnStarts
<1> DEFINE h == S!Turn
<1>3. h \in SrvTurn /\ h.sock = pub
  BY <1>2
<1> HIDE DEF h
<1>4. SrvCalm(h, h) /\ \A s \in Socket(Bytes) : Soft(s, pub) /\ (pub.fin => s.fin) =>
                          SrvCalm([h EXCEPT !.sock = s], h)
  BY <1>3, CalmSelf, CalmSock
<1> QED
  BY <1>1, <1>2, <1>4 DEF h

\* The callbacks that pass no byte on.
LEMMA SrvCallbackCalm ==
  ASSUME IInv, Order, NEW r, SrvCalm(r, S!Turn), S!Commit(r),
         UNCHANGED <<pVars, linkUp, toServer, srvClosed, visitorSaid, serviceSaid>>,
         srvCongested' \in BOOLEAN,
         happened' \in Histories \cup {{}}
  PROVE  SrvMoves
<1>1. r \in SrvTurn
  BY DEF SrvCalm
<1> DEFINE t == <<>>
<1>2. SrvCommitted(r, t)
  BY <1>1, SrvCallback
<1>3. {"DATA", "EOF"} \cap TypesIn(t) = {}
  BY EmptySeen
<1> HIDE DEF t
<1> QED
  BY <1>2, <1>3, SrvCalmStep

LEMMA SocketDrainOrder ==
  ASSUME IInv, Order, S!SocketDrain, UNCHANGED <<pVars, outsideVars>>
  PROVE  SrvMoves
<1> DEFINE s == Drained(pub)
           h == [S!Turn EXCEPT !.sock = s]
           r == S!FlushAck(h)
<1>1. UNCHANGED <<pVars, linkUp, toServer, srvClosed, visitorSaid, serviceSaid,
                  srvCongested, happened>>
  BY DEF S!SocketDrain, outsideVars
<1>2. S!Commit(r)
  <2>1. S!Turn.sock = pub
    BY DEF S!Turn
  <2>2. [S!Turn EXCEPT !.sock = S!Drained(@)] = h
    BY <2>1, SameOperators
  <2> QED
    BY <2>2 DEF S!SocketDrain
<1>3. s \in Socket(Bytes) /\ Soft(s, pub) /\ s.fin = pub.fin
  BY SrvTurnCalm, SocketEvents, SoftCalls, FinStays
<1> HIDE DEF s
<1>4. h \in SrvTurn /\ SrvCalm(h, S!Turn)
  BY <1>3, SrvTurnCalm
<1> HIDE DEF h
<1>5. SrvCalm(r, h)
  BY <1>4, SrvCalmFlushAck
<1> HIDE DEF r
<1>6. SrvCalm(r, S!Turn)
  BY <1>4, <1>5, CalmTwice
<1>7. srvCongested' \in BOOLEAN /\ happened' \in Histories \cup {{}}
  BY <1>1 DEF IInv, Types
<1> QED
  BY <1>1, <1>2, <1>6, <1>7, SrvCallbackCalm

LEMMA SocketErrorOrder ==
  ASSUME IInv, Order, S!SocketError, UNCHANGED <<pVars, outsideVars>>
  PROVE  SrvMoves
<1> DEFINE s == [pub EXCEPT !.error = FALSE]
           h == [S!Turn EXCEPT !.sock = s]
           r == S!Destroy(h, "socket_error")
<1>1. UNCHANGED <<pVars, linkUp, toServer, srvClosed, visitorSaid, serviceSaid,
                  srvCongested, happened>>
  BY DEF S!SocketError, outsideVars
<1>2. S!Commit(r)
  <2>1. [S!Turn EXCEPT !.sock.error = FALSE] = h
    BY DEF S!Turn
  <2> QED
    BY <2>1 DEF S!SocketError
<1>3. s \in Socket(Bytes) /\ Soft(s, pub) /\ s.fin = pub.fin
  BY SrvTurnCalm, SocketEvents, SoftCalls, FinStays
<1> HIDE DEF s
<1>4. h \in SrvTurn /\ SrvCalm(h, S!Turn)
  BY <1>3, SrvTurnCalm
<1> HIDE DEF h
<1>5. SrvCalm(r, h)
  BY <1>4, SrvCalmDestroy
<1> HIDE DEF r
<1>6. SrvCalm(r, S!Turn)
  BY <1>4, <1>5, CalmTwice
<1>7. srvCongested' \in BOOLEAN /\ happened' \in Histories \cup {{}}
  BY <1>1 DEF IInv, Types
<1> QED
  BY <1>1, <1>2, <1>6, <1>7, SrvCallbackCalm

LEMMA SocketCloseOrder ==
  ASSUME IInv, Order, S!SocketClose, UNCHANGED <<pVars, outsideVars>>
  PROVE  SrvMoves
<1> DEFINE h == S!Turn
           q == S!Finish(h)
           s == DestroySocket(q.sock)
           r == [q EXCEPT !.sock = s]
<1>1. UNCHANGED <<pVars, linkUp, toServer, srvClosed, visitorSaid, serviceSaid,
                  srvCongested, happened>>
  BY DEF S!SocketClose, outsideVars
<1>2. S!Commit(r)
  <2>1. [S!Finish(S!Turn) EXCEPT !.sock = S!DestroySocket(@)] = r
    BY SameOperators
  <2> QED
    BY <2>1 DEF S!SocketClose
<1>3. h \in SrvTurn
  BY SrvTurnCalm
<1> HIDE DEF h
<1>4. SrvCalm(q, h)
  BY <1>3, SrvCalmFinish
<1> HIDE DEF q
<1>5. q \in SrvTurn /\ q.sock \in Socket(Bytes)
  BY <1>4 DEF SrvCalm, SrvTurn
<1>6. s \in Socket(Bytes) /\ Soft(s, q.sock) /\ s.fin = q.sock.fin
  BY <1>5, SocketDestroyed, SoftCalls, FinStays
<1> HIDE DEF s
<1>7. SrvCalm(r, q)
  BY <1>5, <1>6, CalmSock
<1> HIDE DEF r
<1>8. SrvCalm(r, S!Turn)
  BY <1>4, <1>7, CalmTwice DEF h
<1>9. srvCongested' \in BOOLEAN /\ happened' \in Histories \cup {{}}
  BY <1>1 DEF IInv, Types
<1> QED
  BY <1>1, <1>2, <1>8, <1>9, SrvCallbackCalm

\* The end of a congestion.
LEMMA CongestionOrder ==
  ASSUME IInv, Order, S!ClearCongestion, UNCHANGED <<pVars, outsideVars>>
  PROVE  SrvMoves
<1>1. S!Commit(IF S!InStreams THEN S!SetGlobalPause(S!Turn, FALSE) ELSE S!Turn)
  BY DEF S!ClearCongestion
<1>2. /\ UNCHANGED <<pVars, linkUp, toServer, srvClosed, visitorSaid, serviceSaid>>
      /\ srvCongested' \in BOOLEAN
  BY DEF S!ClearCongestion, outsideVars
<1>3. happened' \in Histories \cup {{}}
  BY DEF IInv, Types, outsideVars
<1> DEFINE r == IF S!InStreams THEN S!SetGlobalPause(S!Turn, FALSE) ELSE S!Turn
<1>4. S!Turn \in SrvTurn /\ SrvCalm(S!Turn, S!Turn)
  BY SrvTurnCalm
<1>5. SrvCalm(S!SetGlobalPause(S!Turn, FALSE), S!Turn)
  BY <1>4, SrvCalmPause
<1>6. SrvCalm(r, S!Turn) /\ S!Commit(r)
  BY <1>1, <1>4, <1>5
<1> HIDE DEF r
<1> QED
  BY <1>2, <1>3, <1>6, SrvCallbackCalm

\* The session's teardown.
LEMMA SessionDestroyOrder ==
  ASSUME IInv, Order, S!SessionDestroy, UNCHANGED <<pVars, outsideVars>>
  PROVE  SrvMoves
<1> DEFINE h == S!Turn
           c == IF srvCongested THEN S!SetGlobalPause(h, FALSE) ELSE h
           q == S!Destroy(c, "agent_gone")
           r == IF S!InStreams THEN q ELSE h
<1>1. /\ ~linkUp
      /\ UNCHANGED <<pVars, linkUp, toAgent, toServer, visitorSaid, serviceSaid,
                     happened>>
      /\ srvClosed' \in BOOLEAN /\ srvCongested' \in BOOLEAN
  BY DEF S!SessionDestroy, outsideVars
<1>2. srv' = r.st /\ pub' = r.sock
  BY DEF S!SessionDestroy, S!Turn
<1>3. h \in SrvTurn /\ SrvCalm(h, h)
  BY SrvTurnCalm
<1> HIDE DEF h
<1>4. SrvCalm(S!SetGlobalPause(h, FALSE), h)
  BY <1>3, SrvCalmPause
<1>5. SrvCalm(c, h) /\ c \in SrvTurn
  BY <1>3, <1>4 DEF SrvCalm
<1> HIDE DEF c
<1>6. SrvCalm(q, c)
  BY <1>5, SrvCalmDestroy
<1> HIDE DEF q
<1>7. SrvCalm(q, h)
  BY <1>5, <1>6, CalmTwice
<1>8. SrvCalm(r, h) /\ r \in SrvTurn
  BY <1>3, <1>7 DEF SrvCalm
<1> HIDE DEF r
<1> DEFINE t == <<>>
<1>9. SrvCommitted(r, t)
  <2>1. /\ <<>> \in Seq(WireFrame) /\ toServer \in Seq(WireFrame)
        /\ toServer = <<>> \o toServer
    BY Nothing DEF IInv, Types
  <2>2. happened' \in Histories \cup {{}}
    BY <1>1 DEF IInv, Types
  <2> QED
    BY <1>1, <1>2, <1>8, <2>1, <2>2 DEF SrvCommitted
<1>10. {"DATA", "EOF"} \cap TypesIn(t) = {}
  BY EmptySeen
<1> HIDE DEF t
<1> QED
  BY <1>8, <1>9, <1>10, SrvCalmStep DEF h

\* 'end': everything has been passed on, and the end of it goes behind.
LEMMA SocketEndOrder ==
  ASSUME IInv, Order, S!SocketEnd, UNCHANGED <<pVars, outsideVars>>
  PROVE  SrvMoves
<1>1. /\ S!Commit([S!OnSocketEnd(S!Turn) EXCEPT !.sock = S!EmitEnd(@)])
      /\ UNCHANGED <<pVars, linkUp, toServer, srvClosed, visitorSaid, serviceSaid,
                     srvCongested, happened>>
      /\ pub.fin /\ pub.inq = <<>> /\ ~pub.destroyed
  BY DEF S!SocketEnd, S!CanEmitEnd, outsideVars
<1> DEFINE h == S!Turn
           q == S!OnSocketEnd(h)
           s == EmitEnd(q.sock)
           r == [q EXCEPT !.sock = s]
<1>2. h \in SrvTurn /\ h.st = srv /\ h.sock = pub /\ h.sent = <<>>
  BY SrvTurnCalm
<1>3. S!Commit(r)
  <2>1. [S!OnSocketEnd(S!Turn) EXCEPT !.sock = S!EmitEnd(@)] = r
    BY SameOperators
  <2> QED
    BY <1>1, <2>1
<1>4. /\ h.st.finished \/ h.st.sentEof => q = h
      /\ ~(h.st.finished \/ h.st.sentEof) =>
            /\ q \in SrvTurn
            /\ \/ q.st = [h.st EXCEPT !.sentEof = TRUE, !.finished = TRUE]
               \/ q.st = [h.st EXCEPT !.sentEof = TRUE]
            /\ q.sock = h.sock
            /\ q.sent = Append(h.sent, EofFrame)
  <2> HIDE DEF h
  <2> QED
    BY <1>2, SrvSocketEnd
<1>5. srvCongested' \in BOOLEAN /\ happened' \in Histories \cup {{}}
  BY <1>1 DEF IInv, Types
<1> HIDE DEF h, q
<1>6. q \in SrvTurn /\ q.sock = pub /\ pub \in Socket(Bytes)
  BY <1>2, <1>4 DEF SrvTurn
<1>7. s \in Socket(Bytes) /\ Soft(s, pub) /\ s.fin = pub.fin /\ s.inq = pub.inq
      /\ Soft(s, q.sock) /\ s.fin = q.sock.fin
  BY <1>6, SocketEvents, SoftCalls, FinStays
<1> HIDE DEF s
<1>8. r \in SrvTurn /\ r.st = q.st /\ r.sock = s /\ r.sent = q.sent
  BY <1>6, <1>7, SrvSock
<1>9. CASE srv.finished \/ srv.sentEof
  <2>1. q = h
    BY <1>2, <1>4, <1>9
  <2>2. SrvCalm(r, h)
    BY <1>6, <1>7, <2>1, CalmSock
  <2> HIDE DEF r
  <2>3. SrvCalm(r, S!Turn)
    BY <2>2 DEF h
  <2> QED
    BY <1>1, <1>3, <1>5, <2>3, SrvCallbackCalm
<1>10. CASE ~(srv.finished \/ srv.sentEof)
  <2> HIDE DEF r
  <2> DEFINE t == <<>>
  <2>1. SrvCommitted(r, t)
    BY <1>1, <1>3, <1>5, <1>8, SrvCallback
  <2>2. t \in Seq(WireFrame) /\ {"DATA", "EOF"} \cap TypesIn(t) = {}
    BY EmptySeen
  <2> HIDE DEF t
  <2>3. /\ srv' = r.st /\ pub' = s /\ pub' \in Socket(Bytes)
        /\ py' = py /\ loc' = loc /\ linkUp' = linkUp
        /\ visitorSaid' = visitorSaid /\ serviceSaid' = serviceSaid
        /\ toServer' \in Seq(WireFrame) /\ toServer = t \o toServer'
        /\ toAgent' = IF linkUp THEN toAgent \o r.sent ELSE toAgent
    BY <1>8, <2>1 DEF SrvCommitted, SrvTurn, pVars
  <2>4. /\ srv'.sentEof /\ srv'.opened = srv.opened /\ srv'.receivedEof = srv.receivedEof
        /\ (srv.finished => srv'.finished)
    BY <1>2, <1>4, <1>8, <1>10, <2>3, Places DEF SrvType
  <2>5. SoftOut(pub', pub) /\ pub'.inq = <<>> /\ pub'.fin
    BY <1>1, <1>7, <2>3 DEF Soft
  <2>6. Down'
    BY <2>2, <2>3, <2>4, <2>5, DownTaken DEF Order
  <2>7. ~SrvTells'
    BY <2>4 DEF SrvTells
  <2> DEFINE b == IF linkUp THEN <<EofFrame>> ELSE <<>>
  <2>8. /\ b \in Seq(WireFrame) /\ "OPEN" \notin TypesIn(b)
        /\ toAgent' = toAgent \o b
    <3>1. EofFrame \in WireFrame /\ EofFrame.type = "EOF" /\ toAgent \in Seq(WireFrame)
      BY FramesTyped, Places
    <3>2. <<EofFrame>> = Append(<<>>, EofFrame)
      OBVIOUS
    <3>3. <<EofFrame>> \in Seq(WireFrame) /\ TypesIn(<<EofFrame>>) = {"EOF"}
      BY <3>1, FewFrames
    <3>4. r.sent = <<EofFrame>>
      BY <1>2, <1>4, <1>8, <1>10, <3>2
    <3>5. toAgent \o <<>> = toAgent /\ <<>> \in Seq(WireFrame) /\ TypesIn(<<>>) = {}
      BY <3>1, EmptySeen
    <3>6. CASE linkUp
      <4>1. b = <<EofFrame>>
        BY <3>6
      <4> HIDE DEF b
      <4> QED
        BY <2>3, <3>3, <3>4, <3>6, <4>1
    <3>7. CASE ~linkUp
      <4>1. b = <<>>
        BY <3>7
      <4> HIDE DEF b
      <4> QED
        BY <2>3, <3>5, <3>7, <4>1
    <3> QED
      BY <3>6, <3>7
  <2> HIDE DEF b
  <2>9. Refused => Refused'
    BY <2>3, <2>4, <2>8, StaysRefused
  <2>10. CASE linkUp
    <3>1. SrvTells /\ toAgent' = toAgent \o <<EofFrame>>
      BY <1>1, <1>10, <2>8, <2>10 DEF SrvTells, b
    <3> HIDE DEF Refused
    <3>2. ASSUME NEW n \in 0..visitorSaid, Owed(n) PROVE Owed(n)'
      <4>1. n \in Nat
        BY Places
      <4> QED
        BY <1>1, <2>3, <2>5, <2>7, <3>1, <3>2, <4>1, OwedEnded
    <3>3. Up'
      BY <2>3, <2>9, <3>2, UpBy DEF Order
    <3> QED
      BY <2>5, <2>6, <3>3 DEF SrvMoves
  <2>11. CASE ~linkUp
    <3>1. {"DATA", "EOF"} \cap TypesIn(b) = {}
      BY <2>11, EmptySeen DEF b
    <3> HIDE DEF Refused
    <3>2. Up'
      BY <2>3, <2>7, <2>8, <2>9, <3>1, UpSaysNothing DEF Order
    <3> QED
      BY <2>5, <2>6, <3>2 DEF SrvMoves
  <2> QED
    BY <2>10, <2>11
<1> QED
  BY <1>9, <1>10

\* A write either destroys the socket or is read after what was written before.
LEMMA Writes ==
  ASSUME NEW B, NEW s \in Socket(B), NEW b \in Seq(B)
  PROVE  /\ Write(s, b) \in Socket(B) /\ SoftIn(Write(s, b), s)
         /\ Write(s, b).fin = s.fin
         /\ \/ SoftOut(Write(s, b), s) /\ Write(s, b).destroyed
            \/ /\ ReadBy(Write(s, b)) = ReadBy(s) \o b
               /\ ~Write(s, b).destroyed /\ ~s.destroyed
<1> DEFINE w == Write(s, b)
<1>1. w \in Socket(B) /\ w.fin = s.fin
  BY SocketWritten, FinStays
<1>2. CASE s.ended \/ s.destroyed
  <2>1. w = Fail(s)
    BY <1>2 DEF Write
  <2> HIDE DEF w
  <2>2. Soft(w, s) /\ w.destroyed
    BY <2>1, SoftCalls
  <2> QED
    BY <1>1, <2>2 DEF Soft, w
<1>3. CASE ~(s.ended \/ s.destroyed)
  <2>1. /\ w.out = s.out \o b /\ w.got = s.got /\ w.inq = s.inq
        /\ ~w.destroyed /\ ~s.destroyed
    <3> DEFINE x == s.out \o b
               y == s.needDrain \/ Len(x) >= HighWater
    <3>1. w = [s EXCEPT !.out = x, !.needDrain = y]
      BY <1>3 DEF Write
    <3> HIDE DEF w, x, y
    <3>2. w.out = x /\ w.got = s.got /\ w.inq = s.inq /\ w.destroyed = s.destroyed
      BY <3>1 DEF Socket
    <3> QED
      BY <1>3, <3>1, <3>2 DEF x
  <2> HIDE DEF w
  <2> DEFINE g == s.got
             o == s.out
  <2>2. g \in Seq(B) /\ o \in Seq(B)
    BY DEF Socket
  <2>3. w.got \o w.out = g \o (o \o b)
    BY <2>1
  <2> HIDE DEF g, o
  <2>4. g \o (o \o b) = (g \o o) \o b
    BY <2>2, Concats
  <2>5. ReadBy(w) = ReadBy(s) \o b
    BY <2>3, <2>4 DEF ReadBy, g, o
  <2>6. SoftIn(w, s)
    BY <2>1 DEF SoftIn
  <2> QED
    BY <1>1, <2>1, <2>5, <2>6 DEF w
<1> QED
  BY <1>2, <1>3

\* An end that is over takes no more.
LEMMA DownOver ==
  ASSUME IInv, Down, pub' \in Socket(Bytes), SoftOut(pub', pub),
         ~SrvHears', serviceSaid' = serviceSaid
  PROVE  Down'
<1> DEFINE new == pub'
           a == ReadBy(pub)
           b == ReadBy(new)
<1>1. pub \in Socket(Bytes) /\ new \in Socket(Bytes) /\ SoftOut(new, pub)
  BY Places
<1> HIDE DEF new
<1>2. /\ a \in Seq(Bytes) /\ b \in Seq(Bytes) /\ Len(b) <= Len(a)
      /\ \A i \in DOMAIN b : i \in DOMAIN a /\ b[i] = a[i]
  BY <1>1, SoftRead
<1>3. Len(a) \in Nat /\ Len(b) \in Nat /\ serviceSaid \in Nat
  BY <1>2, Places
<1>4. From(a, 0) /\ Len(a) <= serviceSaid
  BY DEF Down
<1> HIDE DEF a, b
<1>5. From(b, 0) /\ Len(b) <= serviceSaid
  BY <1>2, <1>3, <1>4 DEF From
<1>6. From(ReadBy(pub'), 0) /\ Len(ReadBy(pub')) <= serviceSaid'
  BY <1>5 DEF b, new
<1> QED
  BY <1>6 DEF Down

\* One run of bytes goes on from another.
LEMMA RunsOn ==
  ASSUME NEW B, NEW a \in Seq(B), NEW d \in Seq(B), NEW n \in Nat,
         From(a, n), From(d, n + Len(a))
  PROVE  From(a \o d, n)
<1> DEFINE x == a \o d
           m == Len(a)
           k == Len(d)
<1>1. /\ m \in Nat /\ k \in Nat /\ DOMAIN a = 1..m /\ DOMAIN d = 1..k
      /\ DOMAIN x = 1..(m + k)
      /\ \A i \in 1..m : x[i] = a[i]
      /\ \A i \in 1..k : x[m + i] = d[i]
  OBVIOUS
<1>2. From(a, n) /\ From(d, n + m)
  OBVIOUS
<1> HIDE DEF x, m, k
<1>3. ASSUME NEW i \in 1..(m + k) PROVE x[i] = n + i
  <2>1. CASE i <= m
    <3>1. i \in 1..m
      BY <1>1, <2>1
    <3> QED
      BY <1>1, <1>2, <3>1 DEF From
  <2>2. CASE i > m
    <3> DEFINE j == i - m
    <3>1. j \in 1..k /\ i = m + j
      BY <1>1, <2>2
    <3> HIDE DEF j
    <3>2. x[i] = (n + m) + j
      BY <1>1, <1>2, <3>1 DEF From
    <3>3. j \in Nat
      BY <3>1
    <3> QED
      BY <1>1, <3>1, <3>2, <3>3
  <2> QED
    BY <1>1, <2>1, <2>2
<1>4. From(x, n)
  BY <1>1, <1>3 DEF From
<1> QED
  BY <1>4 DEF x

\* A visitor that is heard has the data next.
LEMMA DownWritten ==
  ASSUME IInv, Down, NEW f \in WireFrame, f.type = "DATA", f.data \in Seq(Bytes),
         toServer' \in Seq(WireFrame), toServer = <<f>> \o toServer',
         ~srv.finished, ~srv.receivedEof, pub' = Write(pub, f.data),
         py' = py, loc' = loc, linkUp' = linkUp, serviceSaid' = serviceSaid
  PROVE  Down'
<1> DEFINE w == Write(pub, f.data)
<1>1. pub \in Socket(Bytes) /\ loc.inq \in Seq(Bytes) /\ serviceSaid \in Nat
  BY Places
<1>2. /\ w \in Socket(Bytes)
      /\ \/ SoftOut(w, pub) /\ w.destroyed
         \/ /\ ReadBy(w) = ReadBy(pub) \o f.data
            /\ ~w.destroyed /\ ~pub.destroyed
  BY <1>1, Writes
<1>3. pub' = w
  OBVIOUS
<1> HIDE DEF w
<1>4. CASE SoftOut(w, pub) /\ w.destroyed
  BY <1>2, <1>3, <1>4, DownOver DEF SrvHears
<1>5. CASE /\ ReadBy(w) = ReadBy(pub) \o f.data
           /\ ~w.destroyed /\ ~pub.destroyed
  <2> DEFINE a == ReadBy(pub)
             d == f.data
             c == toServer'
             u == PyTells
             inq == loc.inq
             said == serviceSaid
             n == Len(a)
  <2>1. a \in Seq(Bytes) /\ d \in Seq(Bytes) /\ c \in Seq(WireFrame) /\ n \in Nat
        /\ inq \in Seq(Bytes) /\ said \in Nat
    BY <1>1, Places
  <2>2. From(a, 0) /\ Road(<<f>> \o c, inq, n, said, u)
    BY <1>5 DEF Down, SrvHears
  <2>3. ReadBy(w) = a \o d /\ PyTells' = u /\ loc'.inq = inq /\ serviceSaid' = said
    BY <1>5 DEF PyTells
  <2> HIDE DEF a, c, u, inq, said
  <2>4. From(d, n) /\ n + Len(d) <= said /\ Road(c, inq, n + Len(d), said, u)
    BY <2>1, <2>2, RoadTaken
  <2> HIDE DEF d
  <2>5. From(a \o d, 0)
    <3>1. 0 + Len(a) = n
      BY <2>1
    <3> QED
      BY <2>1, <2>2, <2>4, <3>1, RunsOn
  <2>6. Len(a \o d) = n + Len(d)
    BY <2>1
  <2>7. From(ReadBy(w), 0) /\ Len(ReadBy(w)) <= said /\ Road(c, inq, Len(ReadBy(w)), said, u)
    BY <2>3, <2>4, <2>5, <2>6
  <2>8. /\ From(ReadBy(pub'), 0) /\ Len(ReadBy(pub')) <= serviceSaid'
        /\ Road(toServer', loc'.inq, Len(ReadBy(pub')), serviceSaid', PyTells')
    BY <1>3, <2>3, <2>7 DEF c
  <2> QED
    BY <2>8 DEF Down
<1> QED
  BY <1>2, <1>4, <1>5

\* A frame that carries no data, or finds the stream over.
LEMMA ServerReceiveCalm ==
  ASSUME IInv, Order, S!ServerReceive, UNCHANGED <<pVars, outsideVars>>,
         ~S!InStreams \/ Head(toServer).type # "DATA"
  PROVE  SrvMoves
<1> DEFINE f == Head(toServer)
           h == S!Turn
           r == S!HandleFrame(f)
           t == <<f>>
<1>1. /\ f \in WireFrame /\ f.type # "OPEN" /\ srv.opened /\ TypesIn(t) = {f.type}
      /\ S!Commit(r)
      /\ \A q : q \in SrvTurn /\ S!Commit(q) => SrvCommitted(q, t)
  BY SrvTaken
<1>2. h \in SrvTurn /\ SrvCalm(h, h) /\ h.st = srv
  BY SrvTurnCalm
<1>3. f.type \in {"DATA", "EOF", "ACK", "RESET"} /\ (f.type = "ACK" => f.n \in Nat)
  BY <1>1 DEF WireFrame, SomeFrame
<1>4. ~S!InStreams \/ f.type # "DATA"
  OBVIOUS
<1> HIDE DEF f
<1>5. SrvCalm(r, h) /\ (f.type \in {"ACK", "RESET"} \/ r.st.finished \/ r.st.receivedEof)
  <2>1. CASE ~S!InStreams
    <3>1. S!ResetFrame = ResetFrame /\ h.st.finished
      BY <1>1, <1>2, <2>1, SameOperators DEF S!InStreams
    <3>2. r = h \/ r = S!Send(h, ResetFrame)
      BY <2>1, <3>1 DEF S!HandleFrame
    <3> HIDE DEF h, r
    <3>3. SrvCalm(r, h)
      BY <1>2, <3>2, SrvCalmReset
    <3> QED
      BY <3>1, <3>3 DEF SrvCalm
  <2>2. CASE S!InStreams /\ f.type = "EOF"
    <3>1. r = S!OnEof(h)
      BY <2>2 DEF S!HandleFrame
    <3>2. ~h.st.finished
      BY <1>2, <2>2 DEF S!InStreams
    <3> HIDE DEF h
    <3>3. SrvCalm(r, h)
      BY <1>2, <3>1, SrvCalmEof
    <3>4. r.st.receivedEof
      <4> DEFINE q == S!OnEof(h)
      <4>1. /\ h.st.finished \/ h.st.receivedEof => q = h
            /\ ~(h.st.finished \/ h.st.receivedEof) =>
                  q.st = [h.st EXCEPT !.receivedEof = TRUE, !.recvUnacked = 0,
                                      !.finished = h.st.sentEof]
        BY <1>2, SrvOnEof
      <4>2. r = q /\ h.st \in SrvType
        BY <1>2, <3>1 DEF SrvTurn
      <4> HIDE DEF q, r
      <4> QED
        BY <3>2, <4>1, <4>2 DEF SrvType
    <3> QED
      BY <3>3, <3>4
  <2>3. CASE S!InStreams /\ f.type = "ACK"
    <3>1. r = S!OnAck(h, f.n)
      BY <2>3 DEF S!HandleFrame
    <3> HIDE DEF h
    <3> QED
      BY <1>2, <1>3, <2>3, <3>1, SrvCalmAck
  <2>4. CASE S!InStreams /\ f.type = "RESET"
    <3>1. r = S!Destroy(h, "peer_reset")
      BY <2>4 DEF S!HandleFrame
    <3> HIDE DEF h
    <3> QED
      BY <1>2, <2>4, <3>1, SrvCalmDestroy
  <2> QED
    BY <1>3, <1>4, <2>1, <2>2, <2>3, <2>4
<1> HIDE DEF r
<1>6. SrvCommitted(r, t)
  BY <1>1, <1>5 DEF SrvCalm
<1>7. {"DATA", "EOF"} \cap TypesIn(t) = {} \/ ~SrvHears'
  <2>1. srv' = r.st
    BY <1>6 DEF SrvCommitted
  <2> QED
    BY <1>1, <1>5, <2>1 DEF SrvHears
<1> HIDE DEF t
<1> QED
  BY <1>5, <1>6, <1>7, SrvCalmStep DEF h

\* STREAM_DATA at a stream that lives.
LEMMA ServerReceiveData ==
  ASSUME IInv, Order, S!ServerReceive, UNCHANGED <<pVars, outsideVars>>,
         S!InStreams, Head(toServer).type = "DATA"
  PROVE  SrvMoves
<1> DEFINE f == Head(toServer)
           h == S!Turn
           d == f.data
           r == S!OnData(h, d)
           t == <<f>>
<1>1. /\ f \in WireFrame /\ "DATA" \in TypesIn(toServer)
      /\ S!Commit(S!HandleFrame(f))
      /\ \A q : q \in SrvTurn /\ S!Commit(q) => SrvCommitted(q, t)
  BY SrvTaken
<1>2. S!HandleFrame(f) = r
  BY DEF S!HandleFrame
<1>3. d \in Seq(Bytes) /\ d # <<>> /\ f.type = "DATA"
  BY <1>1 DEF WireFrame, SomeFrame
<1>4. ~srv.finished /\ ~srv.receivedEof
  BY <1>1 DEF IInv, Eof, S!InStreams
<1>5. h \in SrvTurn /\ h.sent = <<>> /\ h.st = srv /\ h.sock = pub
  BY SrvTurnCalm
<1> HIDE DEF f, h
<1>6. /\ r \in SrvTurn /\ r.sock = Write(pub, d)
      /\ \/ /\ r.st = [srv EXCEPT !.recvUnacked = h.st.recvUnacked + Len(d)]
            /\ r.sent = h.sent
         \/ /\ r.st = [srv EXCEPT !.recvUnacked = 0]
            /\ r.sent = Append(h.sent, AckFrame(h.st.recvUnacked + Len(d)))
  BY <1>3, <1>4, <1>5, SrvOnData
<1>7. r.st.opened = srv.opened /\ r.st.finished = srv.finished /\ r.st.sentEof = srv.sentEof
  BY <1>6, Places DEF SrvType
<1>8. TypesIn(r.sent) \subseteq {"ACK"}
  <2>1. CASE r.sent = h.sent
    BY <1>5, <2>1, EmptySeen
  <2>2. CASE r.sent = Append(h.sent, AckFrame(h.st.recvUnacked + Len(d)))
    <3> DEFINE n == h.st.recvUnacked + Len(d)
    <3>1. n \in Nat \ {0}
      <4>1. h.st.recvUnacked \in Nat /\ Len(d) \in Nat \ {0}
        BY <1>3, <1>5, Places DEF SrvType
      <4> QED
        BY <4>1
    <3>2. r.sent = Append(<<>>, AckFrame(n))
      BY <1>5, <2>2
    <3> HIDE DEF n, r
    <3>3. AckFrame(n) \in WireFrame /\ AckFrame(n).type = "ACK"
      BY <3>1, FramesTyped
    <3>4. TypesIn(Append(<<>>, AckFrame(n))) = {"ACK"}
      BY <3>3, OneSent
    <3> QED
      BY <3>2, <3>4
  <2> QED
    BY <1>6, <2>1, <2>2
<1> HIDE DEF r
<1>9. SrvCommitted(r, t)
  BY <1>1, <1>2, <1>6
<1>10. /\ srv' = r.st /\ pub' = Write(pub, d) /\ py' = py /\ loc' = loc
       /\ linkUp' = linkUp /\ visitorSaid' = visitorSaid /\ serviceSaid' = serviceSaid
       /\ toServer' \in Seq(WireFrame) /\ toServer = t \o toServer'
  BY <1>6, <1>9 DEF SrvCommitted, pVars
<1>11. Down'
  BY <1>1, <1>3, <1>4, <1>10, DownWritten DEF Order
<1> DEFINE b == IF linkUp THEN r.sent ELSE <<>>
<1>12. /\ b \in Seq(WireFrame) /\ toAgent' = toAgent \o b
       /\ TypesIn(b) \subseteq TypesIn(r.sent)
  BY <1>9, SrvSent
<1> HIDE DEF b, d
<1>13. {"DATA", "EOF"} \cap TypesIn(b) = {} /\ "OPEN" \notin TypesIn(b)
  BY <1>8, <1>12
<1>14. SoftIn(pub', pub) /\ pub'.fin = pub.fin
  BY <1>3, <1>10, Places, Writes DEF d
<1>15. SrvTells' => SrvTells /\ pub'.inq = pub.inq
  BY <1>7, <1>10, <1>14 DEF SrvTells, SoftIn
<1>16. Refused => Refused'
  BY <1>7, <1>10, <1>12, <1>13, StaysRefused
<1>17. Up'
  <2> HIDE DEF Refused
  <2> QED
    BY <1>10, <1>12, <1>13, <1>15, <1>16, UpSaysNothing DEF Order
<1>18. srv'.sentEof => pub'.fin
  BY <1>7, <1>10, <1>14 DEF Order, Ends
<1> QED
  BY <1>11, <1>17, <1>18 DEF SrvMoves

\* The visitor sends, and hangs up, and its kernel takes what was written to it.
LEMMA VisitorSendOrder ==
  ASSUME IInv, Order, VisitorSend
  PROVE  SrvMoves
<1>1. PICK k \in 1..UpBytes :
        /\ visitorSaid = 0 /\ visitorSaid' = k /\ ~pub.fin
        /\ pub' = [pub EXCEPT !.inq = Said(k)]
        /\ srv' = srv /\ py' = py /\ loc' = loc /\ linkUp' = linkUp
        /\ toAgent' = toAgent /\ toServer' = toServer /\ serviceSaid' = serviceSaid
  BY DEF VisitorSend, pVars, linkVars
<1> DEFINE new == [pub EXCEPT !.inq = Said(k)]
<1>2. /\ pub \in Socket(Bytes) /\ UpBytes \in Nat /\ DownBytes \in Nat
      /\ pub.inq \in Seq(Bytes) /\ k \in Nat /\ k \in 0..(UpBytes + DownBytes)
  BY Places, PyBridgeAssumption
<1>3. /\ new.inq = Said(k) /\ new.fin = pub.fin
      /\ new.out = pub.out /\ new.got = pub.got /\ new.destroyed = pub.destroyed
      /\ new \in Socket(Bytes)
  <2>1. Said(k) \in Seq(Bytes)
    BY <1>2, SaidTyped
  <2> DEFINE x == Said(k)
  <2> HIDE DEF x
  <2>2. LET s == [pub EXCEPT !.inq = x]
        IN  /\ s.inq = x /\ s.fin = pub.fin
            /\ s.out = pub.out /\ s.got = pub.got /\ s.destroyed = pub.destroyed
            /\ s \in Socket(Bytes)
    BY <1>2, <2>1 DEF Socket, x
  <2> QED
    BY <2>2 DEF x
<1> HIDE DEF new
<1>4. Down'
  <2>1. SoftOut(pub', pub) /\ pub' \in Socket(Bytes)
    BY <1>1, <1>3 DEF SoftOut, new
  <2> DEFINE none == <<>>
  <2>2. /\ none \in Seq(WireFrame) /\ {"DATA", "EOF"} \cap TypesIn(none) = {}
        /\ toServer' \in Seq(WireFrame) /\ toServer = none \o toServer'
    BY <1>1, Places, EmptySeen
  <2> HIDE DEF none
  <2> QED
    BY <1>1, <2>1, <2>2, DownTaken DEF Order
<1>5. "EOF" \notin TypesIn(Coming) /\ ~srv.sentEof
  BY <1>1, NoEndYet DEF Order, Ends
<1>6. /\ AllSeen(py'.rewriteHost, ReadBy(loc'))
      /\ Len(ReadBy(loc')) <= SeenLen(py'.rewriteHost, visitorSaid')
  <2> DEFINE x == SeenLen(py.rewriteHost, 0)
             y == SeenLen(py.rewriteHost, k)
             z == Len(ReadBy(loc))
  <2>1. AllSeen(py.rewriteHost, ReadBy(loc)) /\ z <= x
    BY <1>1 DEF Order, Up
  <2>2. x \in Nat /\ y \in Nat /\ x <= y /\ z \in Nat
    BY <1>2, SeenGrows, Places
  <2> HIDE DEF x, y, z
  <2>3. z <= y
    BY <2>1, <2>2
  <2> QED
    BY <1>1, <2>1, <2>3 DEF y, z
<1>7. ASSUME PyHears', ~Refused'
      PROVE  \E n \in 0..visitorSaid' : Taken(py', ReadBy(loc'), n) /\ Owed(n)'
  <2>1. PyHears /\ ~Refused
    BY <1>1, <1>7 DEF Refused, PyHears
  <2>2. PICK n \in 0..visitorSaid : Taken(py, ReadBy(loc), n) /\ Owed(n)
    <3> HIDE DEF Refused, Owed
    <3> QED
      BY <2>1 DEF Order, Up
  <2> DEFINE c == Coming
             u == SrvTells /\ ~py.finished
             inq == pub.inq
  <2>3. /\ Coming' = c /\ (SrvTells' /\ ~py'.finished) = u
        /\ pub'.inq = Said(k)
    BY <1>1, <1>3 DEF SrvTells, Coming, new
  <2>4. c \in Seq(WireFrame) /\ "EOF" \notin TypesIn(c) /\ inq \in Seq(Bytes) /\ n \in Nat
        /\ Road(c, inq, n, 0, u)
    BY <1>1, <1>2, <1>5, <2>2, ComingTyped, Places DEF Owed
  <2> HIDE DEF c, u, inq
  <2>5. n = 0 /\ Road(c, Said(k), n, k, u)
    BY <1>2, <2>4, RoadSaid
  <2>6. Owed(n)'
    BY <1>1, <2>3, <2>5 DEF Owed
  <2>7. n \in 0..visitorSaid' /\ Taken(py', ReadBy(loc'), n)
    BY <1>1, <1>2, <2>2
  <2> QED
    BY <2>6, <2>7
<1>8. Up'
  <2> HIDE DEF Refused, Owed
  <2> QED
    BY <1>6, <1>7 DEF Up
<1> QED
  BY <1>1, <1>4, <1>5, <1>8 DEF SrvMoves

LEMMA VisitorOrder ==
  ASSUME IInv, Order, VisitorEvent
  PROVE  SrvMoves
<1>1. pub \in Socket(Bytes)
  BY Places
<1>2. pub' = [pub EXCEPT !.fin = TRUE] \/ pub' = Fail(pub)
  BY DEF VisitorEvent
<1>3. /\ [pub EXCEPT !.fin = TRUE] \in Socket(Bytes) /\ Fail(pub) \in Socket(Bytes)
      /\ Soft([pub EXCEPT !.fin = TRUE], pub) /\ Soft(Fail(pub), pub)
      /\ [pub EXCEPT !.fin = TRUE].fin /\ Fail(pub).fin = pub.fin
  <2>1. [pub EXCEPT !.fin = TRUE] \in Socket(Bytes) /\ [pub EXCEPT !.fin = TRUE].fin
    BY <1>1 DEF Socket
  <2> QED
    BY <1>1, <2>1, SocketDestroyed, SoftCalls, FinStays
<1>4. pub' \in Socket(Bytes) /\ SoftOut(pub', pub) /\ SoftIn(pub', pub) /\ (pub.fin => pub'.fin)
  BY <1>2, <1>3 DEF Soft
<1>5. srv' = srv /\ UNCHANGED <<pVars, linkVars, serviceSaid>> /\ visitorSaid' = visitorSaid
  BY DEF VisitorEvent
<1> QED
  BY <1>4, <1>5, PubIdle

\* A byte the kernel takes is read as it was going to be.
LEMMA FlushedRead ==
  ASSUME NEW B, NEW s \in Socket(B), s.out # <<>>
  PROVE  /\ ReadBy(FlushByte(s)) = ReadBy(s) /\ FlushByte(s) \in Socket(B)
         /\ FlushByte(s).inq = s.inq /\ FlushByte(s).destroyed = s.destroyed
         /\ FlushByte(s).fin = s.fin
<1> DEFINE g == s.got
           o == s.out
           x == Append(g, Head(o))
           y == Tail(o)
<1>1. g \in Seq(B) /\ o \in Seq(B) /\ o # <<>>
  BY DEF Socket
<1>2. FlushByte(s) = [s EXCEPT !.got = x, !.out = y]
  BY DEF FlushByte
<1> HIDE DEF g, o
<1>3. x = g \o <<Head(o)>> /\ o = <<Head(o)>> \o y
  BY <1>1, HeadTailSplit
<1>4. <<Head(o)>> \in Seq(B) /\ y \in Seq(B)
  BY <1>1
<1> DEFINE b == <<Head(o)>>
<1>5. b \in Seq(B) /\ y \in Seq(B) /\ x = g \o b /\ o = b \o y
  BY <1>3, <1>4
<1> HIDE DEF b, x, y
<1>6. (g \o b) \o y = g \o (b \o y)
  BY <1>1, <1>5, Assoc
<1>7. x \o y = g \o o
  BY <1>5, <1>6
<1>8. /\ FlushByte(s).got = x /\ FlushByte(s).out = y /\ FlushByte(s).fin = s.fin
      /\ FlushByte(s).inq = s.inq /\ FlushByte(s).destroyed = s.destroyed
  BY <1>2 DEF Socket
<1>9. FlushByte(s) \in Socket(B)
  BY ByteFlushed
<1> QED
  BY <1>7, <1>8, <1>9 DEF ReadBy, g, o

LEMMA SocketFlushOrder ==
  ASSUME IInv, Order, S!SocketFlush, UNCHANGED <<pVars, outsideVars>>
  PROVE  SrvMoves
<1>1. /\ pub' = FlushByte(pub) /\ pub.out # <<>>
      /\ srv' = srv /\ py' = py /\ loc' = loc /\ linkUp' = linkUp
      /\ toAgent' = toAgent /\ toServer' = toServer
      /\ visitorSaid' = visitorSaid /\ serviceSaid' = serviceSaid
  BY SameOperators DEF S!SocketFlush, S!CanFlush, pVars, outsideVars
<1>2. /\ ReadBy(pub') = ReadBy(pub) /\ pub'.inq = pub.inq
      /\ pub'.destroyed = pub.destroyed /\ pub'.fin = pub.fin
  BY <1>1, Places, FlushedRead
<1>3. SrvHears' = SrvHears /\ SrvTells' = SrvTells /\ PyTells' = PyTells
  BY <1>1, <1>2 DEF SrvHears, SrvTells, PyTells
<1>4. Down'
  BY <1>1, <1>2, <1>3 DEF Order, Down
<1> DEFINE none == <<>>
<1>5. /\ none \in Seq(WireFrame) /\ {"DATA", "EOF"} \cap TypesIn(none) = {}
      /\ toAgent' = toAgent \o none
  <2>1. toAgent \in Seq(WireFrame)
    BY Places
  <2> QED
    BY <1>1, <2>1, EmptySeen
<1> HIDE DEF none
<1>6. Refused => Refused'
  BY <1>1 DEF Refused
<1>7. Up'
  <2> HIDE DEF Refused
  <2> QED
    BY <1>1, <1>2, <1>3, <1>5, <1>6, UpSaysNothing DEF Order
<1>8. srv'.sentEof => pub'.fin
  BY <1>1, <1>2 DEF Order, Ends
<1> QED
  BY <1>4, <1>7, <1>8 DEF SrvMoves

-----------------------------------------------------------------------------
\* The bytes of a socket, and where it stands.
SameBytes(t, s) ==
    /\ t.inq = s.inq /\ t.out = s.out /\ t.got = s.got /\ t.destroyed = s.destroyed
    /\ t.fin = s.fin

LEMMA PausedBytes ==
  ASSUME NEW B, NEW s \in Socket(B)
  PROVE  SameBytes(Pause(s), s) /\ SameBytes(Resume(s), s)
  BY DEF Socket, SameBytes, Pause, Resume

\* A pause asked for changes neither the bytes nor what the stream has said.
LEMMA RepausedBytes ==
  ASSUME NEW h \in SrvTurn, NEW r, SrvRepaused(r, h)
  PROVE  /\ r \in SrvTurn /\ r.sent = h.sent /\ SameBytes(r.sock, h.sock)
         /\ r.st.opened = h.st.opened /\ r.st.finished = h.st.finished
         /\ r.st.sentEof = h.st.sentEof /\ r.st.receivedEof = h.st.receivedEof
<1>1. h.sock \in Socket(Bytes) /\ h.st \in SrvType
  BY DEF SrvTurn
<1>2. /\ SameBytes(h.sock, h.sock)
      /\ SameBytes(Pause(h.sock), h.sock) /\ SameBytes(Resume(h.sock), h.sock)
  BY <1>1, PausedBytes DEF SameBytes
<1> QED
  BY <1>1, <1>2 DEF SrvRepaused, SrvType

\* 'data' passed on, at the server: the socket keeps what was not taken.
LEMMA PassedOn ==
  ASSUME NEW h \in SrvTurn, NEW d \in Seq(Bytes), d # <<>>
  PROVE  LET r == S!OnSocketData(h, d)
         IN  /\ r \in SrvTurn /\ SameBytes(r.sock, h.sock)
             /\ r.st.opened = h.st.opened /\ r.st.finished = h.st.finished
             /\ r.st.sentEof = h.st.sentEof /\ r.st.receivedEof = h.st.receivedEof
             /\ h.st.finished \/ h.st.sentEof => r.sent = h.sent
             /\ ~(h.st.finished \/ h.st.sentEof) => r.sent = Append(h.sent, DataFrame(d))
<1> DEFINE r == S!OnSocketData(h, d)
<1>1. h.sock \in Socket(Bytes) /\ h.st \in SrvType
  BY DEF SrvTurn
<1>2. /\ h.st.finished \/ h.st.sentEof => r = h
      /\ ~(h.st.finished \/ h.st.sentEof) =>
            /\ r \in SrvTurn
            /\ r.sent = Append(h.sent, DataFrame(d))
            /\ \/ /\ r.st = [h.st EXCEPT !.sendCredit = h.st.sendCredit - Len(d)]
                  /\ r.sock = h.sock
               \/ /\ r.st = [h.st EXCEPT !.sendCredit = h.st.sendCredit - Len(d),
                                         !.pausedForCredit = TRUE]
                  /\ r.sock = Pause(h.sock)
  BY SrvSocketData
<1> HIDE DEF r
<1>3. SameBytes(h.sock, h.sock) /\ SameBytes(Pause(h.sock), h.sock)
  BY <1>1, PausedBytes DEF SameBytes
<1>4. CASE h.st.finished \/ h.st.sentEof
  BY <1>2, <1>3, <1>4 DEF r
<1>5. CASE ~(h.st.finished \/ h.st.sentEof)
  <2>1. /\ r.st.opened = h.st.opened /\ r.st.finished = h.st.finished
        /\ r.st.sentEof = h.st.sentEof /\ r.st.receivedEof = h.st.receivedEof
    BY <1>1, <1>2, <1>5 DEF SrvType
  <2> QED
    BY <1>2, <1>3, <1>5, <2>1 DEF r
<1> QED
  BY <1>4, <1>5

\* The first bytes of a queue, and the rest of it.
LEMMA TakenBytes ==
  ASSUME NEW B, NEW s \in Socket(B), NEW k \in Nat, k <= Len(s.inq)
  PROVE  /\ TakeData(s, k) \in Socket(B)
         /\ TakeData(s, k).inq = SubSeq(s.inq, k + 1, Len(s.inq))
         /\ TakeData(s, k).out = s.out /\ TakeData(s, k).got = s.got
         /\ TakeData(s, k).destroyed = s.destroyed /\ TakeData(s, k).fin = s.fin
         /\ SubSeq(s.inq, 1, k) \in Seq(B)
         /\ k > 0 => SubSeq(s.inq, 1, k) # <<>>
         /\ k = 0 => SubSeq(s.inq, k + 1, Len(s.inq)) = s.inq
<1>1. /\ TakeData(s, k) \in Socket(B)
      /\ SubSeq(s.inq, 1, k) \in Seq(B) /\ Len(SubSeq(s.inq, 1, k)) = k
  BY DataTaken
<1>2. k > 0 => SubSeq(s.inq, 1, k) # <<>>
  <2>1. Len(<<>>) = 0
    OBVIOUS
  <2> QED
    BY <1>1, <2>1
<1> DEFINE q == SubSeq(s.inq, k + 1, Len(s.inq))
<1>3. TakeData(s, k) = [s EXCEPT !.inq = q]
  BY DEF TakeData
<1> HIDE DEF q
<1>4. /\ TakeData(s, k).inq = q
      /\ TakeData(s, k).out = s.out /\ TakeData(s, k).got = s.got
      /\ TakeData(s, k).destroyed = s.destroyed /\ TakeData(s, k).fin = s.fin
  BY <1>3 DEF Socket
<1>5. k = 0 => q = s.inq
  <2>1. s.inq \in Seq(B)
    BY DEF Socket
  <2> DEFINE x == s.inq
  <2>2. x \in Seq(B)
    BY <2>1
  <2> HIDE DEF x
  <2>3. SubSeq(x, 1, Len(x)) = x
    BY <2>2
  <2>4. k = 0 => k + 1 = 1
    OBVIOUS
  <2> QED
    BY <2>3, <2>4 DEF x, q
<1> QED
  BY <1>1, <1>2, <1>4, <1>5 DEF q

\* 'data' at the server: what is sent is what the socket had first.
LEMMA SocketDataOrder ==
  ASSUME IInv, Order, S!SocketData, UNCHANGED <<pVars, outsideVars>>
  PROVE  SrvMoves
<1>1. PICK k \in 1..MaxChunk :
        /\ S!CanEmitData(pub, k)
        /\ S!Commit(S!OnSocketData([S!Turn EXCEPT !.sock = S!TakeData(@, k)],
                                   SubSeq(pub.inq, 1, k)))
  BY DEF S!SocketData
<1>2. /\ k <= Len(pub.inq) /\ ~pub.destroyed
      /\ UNCHANGED <<pVars, linkUp, toServer, srvClosed, visitorSaid, serviceSaid,
                     srvCongested, happened>>
  BY <1>1 DEF S!SocketData, S!CanEmitData, outsideVars
<1>3. k \in Nat /\ k > 0
  BY SocketAssumption
<1> DEFINE s == TakeData(pub, k)
           d == SubSeq(pub.inq, 1, k)
           rest == SubSeq(pub.inq, k + 1, Len(pub.inq))
           h == [S!Turn EXCEPT !.sock = s]
           r == S!OnSocketData(h, d)
<1>4. /\ pub \in Socket(Bytes) /\ s \in Socket(Bytes) /\ s.inq = rest
      /\ s.out = pub.out /\ s.got = pub.got /\ s.destroyed = pub.destroyed /\ s.fin = pub.fin
      /\ d \in Seq(Bytes) /\ d # <<>>
  BY <1>2, <1>3, Places, TakenBytes
<1>5. S!Commit(r)
  <2>1. S!Turn.sock = pub
    BY DEF S!Turn
  <2>2. [S!Turn EXCEPT !.sock = S!TakeData(@, k)] = h
    BY <2>1, SameOperators
  <2> QED
    BY <1>1, <2>2
<1> HIDE DEF s
<1>6. h \in SrvTurn /\ h.st = srv /\ h.sock = s /\ h.sent = <<>>
  BY <1>4, SrvTurnStarts, SMTT(40)
<1> HIDE DEF h
<1>7. /\ r \in SrvTurn /\ SameBytes(r.sock, s)
      /\ r.st.opened = srv.opened /\ r.st.finished = srv.finished
      /\ r.st.sentEof = srv.sentEof /\ r.st.receivedEof = srv.receivedEof
      /\ srv.finished \/ srv.sentEof => r.sent = <<>>
      /\ ~(srv.finished \/ srv.sentEof) => r.sent = Append(<<>>, DataFrame(d))
  <2> HIDE DEF d
  <2>1. d \in Seq(Bytes) /\ d # <<>>
    BY <1>4
  <2>2. /\ r \in SrvTurn /\ SameBytes(r.sock, h.sock)
        /\ r.st.opened = h.st.opened /\ r.st.finished = h.st.finished
        /\ r.st.sentEof = h.st.sentEof /\ r.st.receivedEof = h.st.receivedEof
        /\ h.st.finished \/ h.st.sentEof => r.sent = h.sent
        /\ ~(h.st.finished \/ h.st.sentEof) => r.sent = Append(h.sent, DataFrame(d))
    BY <1>6, <2>1, PassedOn
  <2> HIDE DEF r
  <2> QED
    BY <1>6, <2>2
<1> HIDE DEF r
<1>8. srvCongested' \in BOOLEAN /\ happened' \in Histories \cup {{}}
  BY <1>2 DEF IInv, Types
<1> DEFINE t == <<>>
<1>9. SrvCommitted(r, t)
  BY <1>2, <1>5, <1>7, <1>8, SrvCallback
<1>10. t \in Seq(WireFrame) /\ {"DATA", "EOF"} \cap TypesIn(t) = {} /\ "OPEN" \notin TypesIn(t)
  BY EmptySeen
<1> HIDE DEF t
<1>11. /\ srv' = r.st /\ pub' = r.sock /\ pub' \in Socket(Bytes)
       /\ py' = py /\ loc' = loc /\ linkUp' = linkUp
       /\ visitorSaid' = visitorSaid /\ serviceSaid' = serviceSaid
       /\ toServer' \in Seq(WireFrame) /\ toServer = t \o toServer'
       /\ toAgent' = IF linkUp THEN toAgent \o r.sent ELSE toAgent
  BY <1>9 DEF SrvCommitted, SrvTurn, pVars
<1>12. /\ SoftOut(pub', pub) /\ pub'.inq = rest /\ pub'.destroyed = pub.destroyed
       /\ pub'.fin = pub.fin
  BY <1>4, <1>7, <1>11 DEF SameBytes, SoftOut
<1>13. Down'
  BY <1>7, <1>10, <1>11, <1>12, DownTaken DEF Order
<1>14. ASSUME SrvTells PROVE Up'
  <2> DEFINE b == <<>>
  <2>1. b \in Seq(WireFrame) /\ {"DATA", "EOF"} \cap TypesIn(b) = {}
    BY EmptySeen
  <2>2. k \in 1..Len(pub.inq)
    BY <1>2, <1>3, <1>4, SocketTyped
  <2>3. toAgent' = toAgent \o (b \o <<DataFrame(SubSeq(pub.inq, 1, k))>>)
    <3> DEFINE f == DataFrame(d)
    <3>1. toAgent' = toAgent \o Append(<<>>, f)
      BY <1>7, <1>11, <1>14 DEF SrvTells
    <3> HIDE DEF f
    <3>2. Append(<<>>, f) = <<>> \o <<f>>
      OBVIOUS
    <3> QED
      BY <3>1, <3>2 DEF f
  <2>4. Refused => Refused'
    <3>1. SUFFICES ASSUME Refused PROVE Refused'
      OBVIOUS
    <3>2. toAgent' = toAgent \o r.sent
      BY <1>11, <1>14 DEF SrvTells
    <3>3. r.sent \in Seq(WireFrame) /\ "OPEN" \notin TypesIn(r.sent)
      <4> DEFINE f == DataFrame(d)
      <4>1. f \in WireFrame /\ f.type = "DATA"
        <5> HIDE DEF d
        <5> QED
          BY <1>4, FramesTyped
      <4>2. r.sent = Append(<<>>, f)
        BY <1>7, <1>14 DEF SrvTells
      <4> HIDE DEF f
      <4> QED
        BY <4>1, <4>2, OneSent
    <3> QED
      BY <1>7, <1>11, <3>1, <3>2, <3>3, StaysRefused
  <2>5. "EOF" \notin TypesIn(Coming)
    BY <1>14, NoEndYet DEF Order, SrvTells
  <2> HIDE DEF b, Refused
  <2> QED
    BY <1>11, <1>12, <1>14, <2>1, <2>2, <2>3, <2>4, <2>5, UpSaysData DEF Order
<1>15. ASSUME ~SrvTells PROVE Up'
  <2>1. ~linkUp \/ srv.finished \/ srv.sentEof
    BY <1>2, <1>15 DEF SrvTells
  <2> DEFINE b == <<>>
  <2>2. /\ b \in Seq(WireFrame) /\ {"DATA", "EOF"} \cap TypesIn(b) = {} /\ "OPEN" \notin TypesIn(b)
        /\ toAgent \in Seq(WireFrame)
    BY EmptySeen, Places
  <2>3. toAgent' = toAgent \o b
    BY <1>7, <1>11, <2>1, <2>2
  <2> HIDE DEF b
  <2>4. Refused => Refused'
    BY <1>7, <1>11, <2>2, <2>3, StaysRefused
  <2>5. ~SrvTells'
    BY <1>7, <1>11, <2>1 DEF SrvTells
  <2> HIDE DEF Refused
  <2> QED
    BY <1>11, <2>2, <2>3, <2>4, <2>5, UpSaysNothing DEF Order
<1>16. srv'.sentEof => pub'.fin
  BY <1>7, <1>11, <1>12 DEF Order, Ends
<1> QED
  BY <1>13, <1>14, <1>15, <1>16 DEF SrvMoves

\* openStream: the head goes first, behind STREAM_OPEN.
LEMMA OpenStreamOrder ==
  ASSUME IInv, Order, S!OpenStream, UNCHANGED <<pVars, outsideVars>>
  PROVE  SrvMoves
<1>0. SrvFacts
  BY SrvKnown
<1>1. PICK size \in PrereadSizes :
        LET head    == SubSeq(pub.inq, 1, size)
            created == [S!Send(S!Turn, S!OpenFrame) EXCEPT
                          !.st.opened = TRUE,
                          !.sock.inq = SubSeq(@, size + 1, Len(@))]
            paused  == IF srvCongested THEN S!SetGlobalPause(created, TRUE)
                                       ELSE created
        IN  /\ ~srv.opened
            /\ ~srvClosed
            /\ ~pub.readEnded
            /\ ~pub.destroyed
            /\ size <= Len(pub.inq)
            /\ S!Commit([S!WritePreread(paused, head) EXCEPT !.sock = S!Resume(@)])
            /\ UNCHANGED <<srvCongested, srvClosed, linkUp, toServer>>
  BY ZenonT(60) DEF S!OpenStream
<1> DEFINE head == SubSeq(pub.inq, 1, size)
           opened == S!Send(S!Turn, OpenFrame)
           rest == SubSeq(pub.inq, size + 1, Len(pub.inq))
           left == TakeData(pub, size)
           created == [opened EXCEPT !.st.opened = TRUE, !.sock.inq = rest]
           paused == IF srvCongested THEN S!SetGlobalPause(created, TRUE) ELSE created
           q == S!WritePreread(paused, head)
           s == Resume(q.sock)
           r == [q EXCEPT !.sock = s]
<1>2. /\ ~srv.opened /\ ~pub.destroyed /\ size <= Len(pub.inq)
      /\ UNCHANGED <<pVars, linkUp, toServer, srvClosed, visitorSaid, serviceSaid,
                     srvCongested, happened>>
  BY <1>1 DEF outsideVars
<1>3. /\ S!Turn \in SrvTurn /\ pub \in Socket(Bytes)
      /\ S!Turn.st = srv /\ S!Turn.sock = pub /\ S!Turn.sent = <<>>
  BY SrvTurnCalm
<1>4. S!Commit(r)
  <2>1. opened.sock = pub
    BY <1>3, FramesTyped, SrvSend
  <2>2. [S!Send(S!Turn, S!OpenFrame) EXCEPT
            !.st.opened = TRUE,
            !.sock.inq = SubSeq(@, size + 1, Len(@))] = created
    BY <2>1, SameOperators
  <2> QED
    BY <1>1, <2>2, SameOperators
<1>5. size \in Nat
  BY PyBridgeAssumption
<1>6. /\ left \in Socket(Bytes) /\ left.inq = rest
      /\ left.out = pub.out /\ left.got = pub.got /\ left.destroyed = pub.destroyed
      /\ left.fin = pub.fin
      /\ head \in Seq(Bytes) /\ (size > 0 => head # <<>>) /\ (size = 0 => rest = pub.inq)
      /\ (size = 0 => head = <<>>)
  <2>1. /\ left \in Socket(Bytes) /\ left.inq = rest
        /\ left.out = pub.out /\ left.got = pub.got /\ left.destroyed = pub.destroyed
      /\ left.fin = pub.fin
        /\ head \in Seq(Bytes) /\ (size > 0 => head # <<>>) /\ (size = 0 => rest = pub.inq)
    BY <1>2, <1>3, <1>5, TakenBytes
  <2>2. Len(head) = size
    BY <1>2, <1>3, <1>5, DataTaken
  <2> HIDE DEF head
  <2>3. size = 0 => head = <<>>
    BY <2>1, <2>2
  <2> QED
    BY <2>1, <2>3
<1>7. [pub EXCEPT !.inq = rest] = left
  BY DEF TakeData
<1> HIDE DEF left
<1>8. /\ opened \in SrvTurn /\ opened.st = srv /\ opened.sock = pub
      /\ opened.sent = Append(<<>>, OpenFrame)
  BY <1>3, FramesTyped, SrvSend, ZenonT(60)
<1> HIDE DEF opened
<1>9. srv = S!NoStream
  BY <1>2 DEF IInv, LifeOfServer
<1>10. /\ created \in SrvTurn /\ created.sent = Append(<<>>, OpenFrame)
       /\ created.st = [srv EXCEPT !.opened = TRUE]
       /\ created.sock = left
  <2>1. [srv EXCEPT !.opened = TRUE] \in SrvType
    BY <1>0 DEF SrvFacts, SrvType
  <2>2. created = [opened EXCEPT !.st.opened = TRUE, !.sock.inq = rest]
    OBVIOUS
  <2> HIDE DEF created, rest, head
  <2>3. created.sent = opened.sent
        /\ created.st = [srv EXCEPT !.opened = TRUE] /\ created.sock = left
    BY <1>7, <1>8, <2>2 DEF SrvTurn
  <2>4. created = [st |-> [srv EXCEPT !.opened = TRUE], sock |-> left, sent |-> opened.sent]
    BY <1>7, <1>8, <2>2 DEF SrvTurn
  <2>5. opened.sent \in Seq(WireFrame)
    BY <1>8 DEF SrvTurn
  <2>6. created \in SrvTurn
    BY <1>6, <2>1, <2>4, <2>5 DEF SrvTurn
  <2> QED
    BY <1>8, <2>3, <2>6
<1>11. /\ created.st.opened
       /\ ~created.st.sentEof /\ ~created.st.receivedEof /\ ~created.st.finished
  BY <1>9, <1>10 DEF S!NoStream
<1> HIDE DEF created
<1>12. /\ paused \in SrvTurn /\ paused.sent = Append(<<>>, OpenFrame)
       /\ SameBytes(paused.sock, left)
       /\ paused.st.opened
       /\ ~paused.st.sentEof /\ ~paused.st.receivedEof /\ ~paused.st.finished
  <2>1. CASE srvCongested
    <3> DEFINE c == S!SetGlobalPause(created, TRUE)
    <3>1. SrvRepaused(c, created) /\ paused = c
      BY <1>10, <2>1, SrvGlobalPause
    <3> HIDE DEF c
    <3> QED
      BY <1>10, <1>11, <3>1, RepausedBytes
  <2>2. CASE ~srvCongested
    BY <1>10, <1>11, <2>2 DEF SameBytes
  <2> QED
    BY <2>1, <2>2
<1> HIDE DEF paused
<1>13. /\ q \in SrvTurn /\ SameBytes(q.sock, left)
       /\ q.st.opened /\ ~q.st.sentEof /\ ~q.st.receivedEof /\ ~q.st.finished
       /\ size = 0 => q.sent = Append(<<>>, OpenFrame)
       /\ size > 0 => q.sent = Append(Append(<<>>, OpenFrame), DataFrame(head))
  <2>1. CASE size = 0
    <3>1. q = paused
      BY <1>6, <2>1 DEF S!WritePreread
    <3> QED
      BY <1>12, <2>1, <3>1
  <2>2. CASE size # 0
    <3>1. size > 0 /\ head # <<>> /\ head \in Seq(Bytes)
      BY <1>5, <1>6, <2>2
    <3>2. q = S!OnSocketData(paused, head)
      BY <3>1 DEF S!WritePreread
    <3> HIDE DEF head
    <3> DEFINE x == S!OnSocketData(paused, head)
    <3>3. /\ x \in SrvTurn /\ SameBytes(x.sock, paused.sock)
          /\ x.st.opened = paused.st.opened /\ x.st.finished = paused.st.finished
          /\ x.st.sentEof = paused.st.sentEof /\ x.st.receivedEof = paused.st.receivedEof
          /\ ~(paused.st.finished \/ paused.st.sentEof) =>
                x.sent = Append(paused.sent, DataFrame(head))
      BY <1>12, <3>1, PassedOn
    <3> HIDE DEF x
    <3>4. SameBytes(x.sock, left)
      BY <1>12, <3>3 DEF SameBytes
    <3>5. q = x
      BY <3>2 DEF x
    <3> QED
      BY <1>12, <2>2, <3>1, <3>3, <3>4, <3>5
  <2> QED
    BY <2>1, <2>2
<1> HIDE DEF q
<1>14. s \in Socket(Bytes) /\ SameBytes(s, left)
  <2>1. q.sock \in Socket(Bytes)
    BY <1>13 DEF SrvTurn
  <2> DEFINE k == q.sock
  <2>2. k \in Socket(Bytes) /\ SameBytes(k, left)
    BY <1>13, <2>1
  <2> HIDE DEF k
  <2>3. Resume(k) \in Socket(Bytes) /\ SameBytes(Resume(k), k)
    BY <2>2, PauseResume, PausedBytes
  <2> QED
    BY <2>2, <2>3 DEF SameBytes, k
<1> HIDE DEF s
<1>15. r \in SrvTurn /\ r.st = q.st /\ r.sock = s /\ r.sent = q.sent
  BY <1>13, <1>14, SrvSock
<1> HIDE DEF r
<1>16. srvCongested' \in BOOLEAN /\ happened' \in Histories \cup {{}}
  BY <1>2 DEF IInv, Types
<1> DEFINE t == <<>>
<1>17. SrvCommitted(r, t)
  BY <1>2, <1>4, <1>15, <1>16, SrvCallback
<1>18. t \in Seq(WireFrame) /\ {"DATA", "EOF"} \cap TypesIn(t) = {}
  BY EmptySeen
<1> HIDE DEF t
<1>19. /\ srv' = r.st /\ pub' = r.sock /\ pub' \in Socket(Bytes)
       /\ py' = py /\ loc' = loc /\ linkUp' = linkUp
       /\ visitorSaid' = visitorSaid /\ serviceSaid' = serviceSaid
       /\ toServer' \in Seq(WireFrame) /\ toServer = t \o toServer'
       /\ toAgent' = IF linkUp THEN toAgent \o r.sent ELSE toAgent
  BY <1>17 DEF SrvCommitted, SrvTurn, pVars
<1>20. /\ pub'.inq = rest /\ pub'.out = pub.out /\ pub'.got = pub.got
       /\ pub'.destroyed = pub.destroyed /\ pub'.fin = pub.fin
  BY <1>6, <1>14, <1>15, <1>19 DEF SameBytes
<1>21. SoftOut(pub', pub)
  BY <1>20 DEF SoftOut
<1>22. ~srv.finished /\ ~srv.receivedEof /\ ~srv.sentEof
  BY <1>9 DEF S!NoStream
<1>23. Down'
  BY <1>18, <1>19, <1>21, <1>22, DownTaken DEF Order
<1>24. ~Refused
  BY <1>2 DEF Refused
<1>29. ~srv'.sentEof
  BY <1>13, <1>15, <1>19
<1>30. "EOF" \notin TypesIn(Coming)
  BY <1>22, NoEndYet DEF Order
<1> DEFINE o == <<OpenFrame>>
<1>25. o \in Seq(WireFrame) /\ {"DATA", "EOF"} \cap TypesIn(o) = {} /\ o = Append(<<>>, OpenFrame)
  <2>1. OpenFrame \in WireFrame /\ OpenFrame.type = "OPEN"
    BY FramesTyped
  <2> DEFINE f == OpenFrame
  <2>2. f \in WireFrame /\ f.type = "OPEN"
    BY <2>1
  <2> HIDE DEF f
  <2>3. <<f>> = Append(<<>>, f)
    OBVIOUS
  <2> QED
    BY <2>2, <2>3, OneSent DEF f
<1> HIDE DEF o, Refused
<1>26. CASE ~linkUp
  <2> DEFINE b == <<>>
  <2>1. b \in Seq(WireFrame) /\ {"DATA", "EOF"} \cap TypesIn(b) = {} /\ toAgent' = toAgent \o b
    <3>1. toAgent \in Seq(WireFrame)
      BY Places
    <3> QED
      BY <1>19, <1>26, <3>1, EmptySeen
  <2>2. ~SrvTells'
    BY <1>19, <1>26 DEF SrvTells
  <2> HIDE DEF b
  <2>3. Up'
    BY <1>19, <1>24, <2>1, <2>2, UpSaysNothing DEF Order
  <2> QED
    BY <1>23, <1>29, <2>3 DEF SrvMoves
<1>27. CASE linkUp /\ size = 0
  <2>1. toAgent' = toAgent \o o
    BY <1>13, <1>15, <1>19, <1>25, <1>27
  <2>2. SrvTells /\ pub'.inq = pub.inq
    BY <1>2, <1>6, <1>20, <1>22, <1>27 DEF SrvTells
  <2>3. Up'
    BY <1>19, <1>24, <1>25, <2>1, <2>2, UpSaysNothing DEF Order
  <2> QED
    BY <1>23, <1>29, <2>3 DEF SrvMoves
<1>28. CASE linkUp /\ size > 0
  <2>1. size \in 1..Len(pub.inq)
    BY <1>2, <1>3, <1>5, <1>28, SocketTyped
  <2>2. toAgent' = toAgent \o (o \o <<DataFrame(head)>>)
    <3> DEFINE f == DataFrame(head)
    <3>1. toAgent' = toAgent \o Append(o, f)
      BY <1>13, <1>15, <1>19, <1>25, <1>28
    <3> HIDE DEF f
    <3>2. f \in WireFrame
      <4> HIDE DEF head
      <4> QED
        BY <1>6, <1>28, FramesTyped DEF f
    <3>3. Append(o, f) = o \o <<f>>
      BY <1>25, <3>2
    <3> QED
      BY <3>1, <3>3 DEF f
  <2>3. SrvTells
    BY <1>2, <1>22, <1>28 DEF SrvTells
  <2>4. Up'
    BY <1>19, <1>20, <1>24, <1>25, <2>1, <2>2, <2>3, <1>30, UpSaysData DEF Order
  <2> QED
    BY <1>23, <1>29, <2>4 DEF SrvMoves
<1> QED
  BY <1>5, <1>26, <1>27, <1>28

\* What a step of the server's end leaves alone, or only adds to.
LEMMA SrvRest ==
  ASSUME IInv, Order, NEW e, NEW t, SrvLaw(e, t), SrvMoves
  PROVE  Order'
<1>1. SrvWire(e, t) /\ SrvWord(e, t)
  BY DEF SrvLaw
<1>2. py' = py /\ loc' = loc /\ toServer = t \o toServer'
  BY <1>1 DEF SrvWire, pVars
<1>3. /\ TypesIn(toAgent') = IF linkUp THEN TypesIn(toAgent) \cup TypesIn(e)
                             ELSE TypesIn(toAgent)
      /\ TypesIn(toServer) = TypesIn(t) \cup TypesIn(toServer')
  BY <1>1, SrvSeen
<1>4. HeadKept' /\ LostEmpty'
  BY <1>2 DEF Order, HeadKept, LostEmpty
<1>5. DataFirst(py'.inbox) /\ (srv'.sentEof => pub'.fin)
  BY <1>2 DEF Order, Ends, SrvMoves
<1>6. "EOF" \in TypesIn(py'.inbox) =>
         srv'.sentEof /\ (py'.finished \/ "DATA" \notin TypesIn(toAgent'))
  BY <1>1, <1>2, <1>3 DEF Order, Ends, SrvWord
<1>7. "EOF" \in TypesIn(toServer') => loc'.fin
  BY <1>2, <1>3 DEF Order, Ends
<1>8. Ends'
  BY <1>5, <1>6, <1>7 DEF Ends
<1> QED
  BY <1>4, <1>8 DEF Order, SrvMoves

\* Every step on the visitor's side.
LEMMA ServerMoves ==
  ASSUME IInv, Order, VisitorSend \/ VisitorEvent \/ ServerStep
  PROVE  SrvMoves
<1>1. CASE VisitorSend
  BY <1>1, VisitorSendOrder
<1>2. CASE VisitorEvent
  BY <1>2, VisitorOrder
<1>4. CASE ServerStep
  <2>1. UNCHANGED <<pVars, outsideVars>>
    BY <1>4 DEF ServerStep
  <2>2. CASE S!SocketFlush
    BY <2>1, <2>2, SocketFlushOrder
  <2>3. CASE S!OpenStream
    BY <2>1, <2>3, OpenStreamOrder
  <2>4. CASE S!SocketData
    BY <2>1, <2>4, SocketDataOrder
  <2>5. CASE S!SocketEnd
    BY <2>1, <2>5, SocketEndOrder
  <2>6. CASE S!SocketDrain
    BY <2>1, <2>6, SocketDrainOrder
  <2>7. CASE S!SocketError
    BY <2>1, <2>7, SocketErrorOrder
  <2>8. CASE S!SocketClose
    BY <2>1, <2>8, SocketCloseOrder
  <2>9. CASE S!ServerReceive
    BY <2>1, <2>9, ServerReceiveCalm, ServerReceiveData
  <2>10. CASE S!ClearCongestion
    BY <2>1, <2>10, CongestionOrder
  <2>11. CASE S!SessionDestroy
    BY <2>1, <2>11, SessionDestroyOrder
  <2> QED
    BY <1>4, <2>2, <2>3, <2>4, <2>5, <2>6, <2>7, <2>8, <2>9, <2>10, <2>11
       DEF ServerStep, S!ServerCallback
<1> QED
  BY <1>1, <1>2, <1>4

LEMMA ServerOrder ==
  ASSUME IInv, Order, VisitorSend \/ VisitorEvent \/ ServerStep
  PROVE  Order'
<1>1. SrvMoves
  BY ServerMoves
<1>2. \E e, t : SrvLaw(e, t)
  BY ServerSide
<1> QED
  BY <1>1, <1>2, SrvRest
-----------------------------------------------------------------------------
\* The agent's end.

\* A connection nothing is read from or written to, but that may be hung up.
SockCalm(d, c) ==
    /\ d \in Connection(Bytes) /\ ReadsOn(d, c)
    /\ c.fin => d.fin
    /\ c.lost => d.lost
    /\ d.lost => d.inq = <<>> /\ d.out = <<>>

LEMMA CalmStill ==
  ASSUME NEW c \in Connection(Bytes), NEW d \in Connection(Bytes), Still(d, c),
         c.fin => d.fin, d.lost => d.inq = <<>> /\ d.out = <<>>
  PROVE  SockCalm(d, c)
  BY StillRead DEF SockCalm, Still

\* The calls that are calm.
LEMMA CalmCalls ==
  ASSUME NEW c \in Connection(Bytes), c.lost => c.inq = <<>> /\ c.out = <<>>
  PROVE  /\ SockCalm(c, c) /\ SockCalm(WriteEof(c), c) /\ SockCalm(Close(c), c)
         /\ SockCalm(Lose(c), c) /\ SockCalm([c EXCEPT !.fin = TRUE], c)
         /\ CanTake(c) => SockCalm(TakeByte(c), c)
         /\ \A x \in Seq(Bytes) : ~c.lost => SockCalm([c EXCEPT !.inq = x], c)
<1>1. /\ WriteEof(c) \in Connection(Bytes) /\ Close(c) \in Connection(Bytes)
      /\ Lose(c) \in Connection(Bytes) /\ [c EXCEPT !.fin = TRUE] \in Connection(Bytes)
  BY ConnectionSteps DEF Kept
<1>2. SockCalm(c, c)
  BY CalmStill DEF Still
<1>3. SockCalm(WriteEof(c), c)
  <2> DEFINE d == WriteEof(c)
  <2>1. /\ d.got = c.got /\ d.out = c.out /\ d.fin = c.fin /\ d.lost = c.lost
        /\ d.inq = c.inq
    BY DEF Connection, WriteEof
  <2>2. d \in Connection(Bytes)
    BY <1>1
  <2> HIDE DEF d
  <2>3. SockCalm(d, c)
    BY <2>1, <2>2, CalmStill DEF Still
  <2> QED
    BY <2>3 DEF d
<1>4. SockCalm(Close(c), c)
  <2> DEFINE d == Close(c)
  <2>1. /\ d.got = c.got /\ d.out = c.out /\ d.fin = c.fin /\ d.lost = c.lost
        /\ d.inq = <<>>
    BY DEF Connection, Close
  <2>2. d \in Connection(Bytes)
    BY <1>1
  <2> HIDE DEF d
  <2>3. SockCalm(d, c)
    BY <2>1, <2>2, CalmStill DEF Still
  <2> QED
    BY <2>3 DEF d
<1>5. SockCalm(Lose(c), c)
  <2> DEFINE d == Lose(c)
  <2>1. /\ d.got = c.got /\ d.out = <<>> /\ d.fin = c.fin /\ d.lost
        /\ d.inq = <<>>
    BY DEF Connection, Lose
  <2>2. d \in Connection(Bytes)
    BY <1>1
  <2> HIDE DEF d
  <2>3. SockCalm(d, c)
    BY <2>1, <2>2, CalmStill DEF Still
  <2> QED
    BY <2>3 DEF d
<1>6. SockCalm([c EXCEPT !.fin = TRUE], c)
  <2> DEFINE d == [c EXCEPT !.fin = TRUE]
  <2>1. /\ d.got = c.got /\ d.out = c.out /\ d.fin /\ d.lost = c.lost
        /\ d.inq = c.inq
    BY DEF Connection
  <2>2. d \in Connection(Bytes)
    BY <1>1
  <2> HIDE DEF d
  <2>3. SockCalm(d, c)
    BY <2>1, <2>2, CalmStill DEF Still
  <2> QED
    BY <2>3 DEF d
<1>7. ASSUME CanTake(c) PROVE SockCalm(TakeByte(c), c)
  <2>1. /\ ReadsOn(TakeByte(c), c) /\ TakeByte(c) \in Connection(Bytes)
        /\ TakeByte(c).lost = c.lost /\ TakeByte(c).fin = c.fin
    BY <1>7, FlushReads
  <2>2. ~c.lost
    BY <1>7 DEF CanTake
  <2> QED
    BY <2>1, <2>2 DEF SockCalm
<1>8. ASSUME NEW x \in Seq(Bytes), ~c.lost
      PROVE  SockCalm([c EXCEPT !.inq = x], c)
  <2> DEFINE d == [c EXCEPT !.inq = x]
  <2>1. /\ d.got = c.got /\ d.out = c.out /\ d.fin = c.fin /\ d.lost = c.lost
        /\ d \in Connection(Bytes)
    BY DEF Connection
  <2> HIDE DEF d
  <2>2. SockCalm(d, c)
    BY <1>8, <2>1, CalmStill DEF Still
  <2> QED
    BY <2>2 DEF d
<1> QED
  BY <1>2, <1>3, <1>4, <1>5, <1>6, <1>7, <1>8

\* What is owed to a pump stays while nobody touches it.
LEMMA OwedSame ==
  ASSUME NEW n, Owed(n), py'.inbox = py.inbox, py'.finished = py.finished,
         srv' = srv, pub' = pub, linkUp' = linkUp, toAgent' = toAgent,
         visitorSaid' = visitorSaid
  PROVE  Owed(n)'
<1>1. Coming' = Coming /\ SrvTells' = SrvTells
  BY DEF Coming, SrvTells
<1> QED
  BY <1>1 DEF Owed

\* A step of the agent's end that passes neither a byte nor an end on, either way.
LEMMA PyCalmStep ==
  ASSUME IInv, Order, NEW b \in Seq(WireFrame), {"DATA", "EOF"} \cap TypesIn(b) = {},
         toServer' = toServer \o b, SockCalm(loc', loc),
         PyTells' => PyTells /\ loc'.inq = loc.inq,
         py'.rewriteHost = py.rewriteHost, py'.headBuf = py.headBuf,
         py'.headDone = py.headDone, py'.inbox = py.inbox, py.finished => py'.finished,
         srv' = srv, pub' = pub, visitorSaid' = visitorSaid, serviceSaid' = serviceSaid,
         "DATA" \in TypesIn(toAgent') => "DATA" \in TypesIn(toAgent),
         PyHears' /\ ~Refused' =>
            /\ PyHears /\ ~Refused
            /\ \A n \in 0..visitorSaid : Owed(n) => Owed(n)'
  PROVE  Order'
<1> HIDE DEF Refused, Owed, PyHears, PyTells
<1>1. Up'
  BY UpQuiet DEF Order, SockCalm
<1>2. Down'
  BY DownBlank DEF Order
<1>3. HeadKept' /\ LostEmpty'
  BY DEF Order, HeadKept, LostEmpty, SockCalm
<1>4. "EOF" \in TypesIn(toServer') => "EOF" \in TypesIn(toServer)
  <2>1. toServer \in Seq(WireFrame)
    BY Places
  <2>2. TypesIn(toServer \o b) = TypesIn(toServer) \cup TypesIn(b)
    BY <2>1, ConcatSeen DEF WireFrame
  <2> QED
    BY <2>2
<1>5. Ends'
  BY <1>4 DEF Order, Ends, SockCalm
<1> QED
  BY <1>1, <1>2, <1>3, <1>5 DEF Order

\* What a committed turn adds to the frames under way.
LEMMA PySent ==
  ASSUME IInv, NEW r, NEW t, PyCommitted(r, t)
  PROVE  LET b == IF linkUp THEN r.sent ELSE <<>>
         IN  /\ b \in Seq(WireFrame) /\ toServer' = toServer \o b
             /\ TypesIn(b) \subseteq TypesIn(r.sent)
<1>1. r.sent \in Seq(WireFrame) /\ <<>> \in Seq(WireFrame) /\ toServer \in Seq(WireFrame)
  BY Places DEF PyCommitted, PyTurn
<1>2. toServer \o <<>> = toServer
  BY <1>1
<1> QED
  BY <1>1, <1>2, EmptySeen DEF PyCommitted

\* A calm turn of it.
LEMMA PyCalmTurn ==
  ASSUME IInv, Order, NEW r, NEW t, PyCommitted(r, t),
         {"DATA", "EOF"} \cap TypesIn(r.sent) = {}, SockCalm(r.sock, loc),
         r.st.toServer # "over" /\ ~r.sock.lost => py.toServer # "over" /\ r.sock.inq = loc.inq,
         r.st.rewriteHost = py.rewriteHost, r.st.headBuf = py.headBuf,
         r.st.headDone = py.headDone, r.st.inbox = py.inbox, py.finished => r.st.finished,
         PyHears' /\ ~Refused' =>
            /\ PyHears /\ ~Refused
            /\ \A n \in 0..visitorSaid : Owed(n) => Owed(n)'
  PROVE  Order'
<1> HIDE DEF Refused, Owed, PyHears
<1> DEFINE b == IF linkUp THEN r.sent ELSE <<>>
<1>1. b \in Seq(WireFrame) /\ toServer' = toServer \o b /\ TypesIn(b) \subseteq TypesIn(r.sent)
  BY PySent
<1> HIDE DEF b
<1>2. {"DATA", "EOF"} \cap TypesIn(b) = {}
  BY <1>1
<1>3. /\ py' = r.st /\ loc' = r.sock /\ linkUp' = linkUp /\ srv' = srv /\ pub' = pub
      /\ visitorSaid' = visitorSaid /\ serviceSaid' = serviceSaid
      /\ t \in Seq(WireFrame) /\ toAgent' \in Seq(WireFrame) /\ toAgent = t \o toAgent'
  BY DEF PyCommitted, sVars
<1>4. PyTells' => PyTells /\ loc'.inq = loc.inq
  BY <1>3 DEF PyTells, SockCalm
<1>5. "DATA" \in TypesIn(toAgent') => "DATA" \in TypesIn(toAgent)
  BY <1>3, ConcatSeen DEF WireFrame
<1> HIDE DEF PyTells
<1> QED
  BY <1>1, <1>2, <1>3, <1>4, <1>5, PyCalmStep

\* The connection as it is, at the start of a turn.
LEMMA PyStarts ==
  ASSUME IInv, Order
  PROVE  /\ P!Turn \in PyTurn
         /\ P!Turn.st = py /\ P!Turn.sock = loc /\ P!Turn.sent = <<>>
         /\ loc \in Connection(Bytes) /\ SockCalm(loc, loc)
         /\ py \in PyType
<1>1. loc \in Connection(Bytes) /\ py \in PyType
  BY Places
<1>2. SockCalm(loc, loc)
  BY <1>1, CalmCalls DEF Order, LostEmpty
<1> QED
  BY <1>1, <1>2, PyTurnStarts

\* A turn of it that does not pass on what it takes, if it takes any.
LEMMA PyTaskCalm ==
  ASSUME IInv, Order, NEW r, NEW t, PyCommitted(r, t),
         {"DATA", "EOF"} \cap TypesIn(r.sent) = {}, SockCalm(r.sock, loc),
         r.st.toServer # "over" /\ ~r.sock.lost => py.toServer # "over" /\ r.sock.inq = loc.inq,
         r.st.rewriteHost = py.rewriteHost, r.st.headBuf = py.headBuf,
         r.st.headDone = py.headDone, r.st.inbox = py.inbox, py.finished => r.st.finished,
         py.run # "none" \/ "OPEN" \in TypesIn(toAgent),
         r.st.toLocal \in {"off", "get", "drain"} => py.toLocal \in {"off", "get", "drain"},
         r.st.finished \/ {"DATA", "EOF"} \cap TypesIn(t) = {}
  PROVE  Order'
<1>1. /\ py' = r.st /\ loc' = r.sock /\ linkUp' = linkUp /\ srv' = srv /\ pub' = pub
      /\ visitorSaid' = visitorSaid
      /\ t \in Seq(WireFrame) /\ toAgent' \in Seq(WireFrame) /\ toAgent = t \o toAgent'
  BY DEF PyCommitted, sVars
<1>2. ~Refused
  BY DEF Refused
<1>3. PyHears' => PyHears
  BY <1>1 DEF PyHears, SockCalm
<1>4. py.finished \in BOOLEAN /\ r.st.finished \in BOOLEAN
  <2>1. r.st \in PyType
    BY PyParts DEF PyCommitted
  <2> QED
    BY <2>1, Places DEF PyType
<1>5. ASSUME NEW n \in 0..visitorSaid, Owed(n) PROVE Owed(n)'
  <2>1. n \in Nat
    BY Places
  <2>2. CASE r.st.finished
    <3>1. /\ py'.inbox = py.inbox /\ py'.finished /\ pub' = pub
          /\ visitorSaid' = visitorSaid /\ Ends
      BY <1>1, <2>2 DEF Order
    <3> HIDE DEF Owed
    <3> QED
      BY <1>5, <2>1, <3>1, OwedCut
  <2>3. CASE ~r.st.finished
    <3>1. /\ py'.inbox = py.inbox /\ py'.finished = py.finished
          /\ {"DATA", "EOF"} \cap TypesIn(t) = {}
      BY <1>1, <1>4, <2>3
    <3> HIDE DEF Owed
    <3> QED
      BY <1>1, <1>5, <2>1, <3>1, OwedTaken
  <2> QED
    BY <2>2, <2>3
<1> HIDE DEF Refused, Owed, PyHears
<1> QED
  BY <1>2, <1>3, <1>5, PyCalmTurn

\* What is for a stream that was refused arrives nowhere.
LEMMA PyRefuses ==
  ASSUME IInv, Order, NEW r, NEW t, PyCommitted(r, t), t # <<>>,
         {"DATA", "EOF"} \cap TypesIn(r.sent) = {}, r.st = py, r.sock = loc,
         py.run = "none"
  PROVE  Order'
<1>1. /\ py' = py /\ srv' = srv
      /\ t \in Seq(WireFrame) /\ toAgent' \in Seq(WireFrame) /\ toAgent = t \o toAgent'
  BY DEF PyCommitted, sVars
<1>2. toAgent \in Seq(WireFrame) /\ toAgent # <<>>
  BY <1>1, Places, Shortened
<1>3. srv.opened
  BY <1>2 DEF IInv, LifeOfServer
<1>4. "OPEN" \notin TypesIn(toAgent')
  BY <1>1, <1>2, ShortenedOrderly DEF IInv, Chan
<1>5. Refused'
  BY <1>1, <1>3, <1>4 DEF Refused
<1>6. SockCalm(loc, loc)
  BY PyStarts
<1> HIDE DEF Refused, Owed, PyHears
<1> QED
  BY <1>5, <1>6, PyCalmTurn

\* finish(), and what run() does behind it.
PyOver(r) ==
    /\ r \in PyTurn /\ SockCalm(r.sock, loc)
    /\ r.st.finished /\ r.st.inbox = py.inbox /\ r.st.headBuf = py.headBuf
    /\ r.st.headDone = py.headDone /\ r.st.rewriteHost = py.rewriteHost
    /\ r.st.toLocal = py.toLocal \/ r.st.toLocal = "over"
    /\ \/ r.st.toServer = "over"
       \/ r.st.toServer = py.toServer /\ r.sock.inq = loc.inq

LEMMA PyOverFinish ==
  ASSUME IInv, Order, NEW h \in PyTurn, h.st = py, h.sock = loc
  PROVE  LET q == P!Finish(h)
             r == [q EXCEPT !.st = [q.st EXCEPT !.run = "over"]]
         IN  /\ PyOver(q) /\ q.sent = h.sent
             /\ PyOver(r) /\ r.sent = h.sent
             /\ r.st.toLocal \in {"off", "get", "drain"} =>
                   py.toLocal \in {"off", "get", "drain"}
<1> DEFINE q == P!Finish(h)
           r == [q EXCEPT !.st = [q.st EXCEPT !.run = "over"]]
<1>1. /\ q \in PyTurn /\ q.sent = h.sent
      /\ \/ py.finished /\ q.st = py /\ q.sock = loc
         \/ q.sock = loc /\ q.st = [py EXCEPT !.finished = TRUE]
         \/ /\ q.sock = Close(loc)
            /\ q.st = [py EXCEPT !.finished = TRUE, !.run = "over",
                                 !.toLocal = "over", !.toServer = "over"]
  BY PyFinish
<1> HIDE DEF q
<1>2. py \in PyType /\ loc \in Connection(Bytes) /\ SockCalm(loc, loc)
  BY PyStarts
<1>3. SockCalm(Close(loc), loc)
  BY <1>2, CalmCalls DEF Order, LostEmpty
<1>4. SockCalm(q.sock, loc)
  BY <1>1, <1>2, <1>3
<1>5. /\ q.st.finished /\ q.st.inbox = py.inbox /\ q.st.headBuf = py.headBuf
      /\ q.st.headDone = py.headDone /\ q.st.rewriteHost = py.rewriteHost
      /\ q.st.toLocal = py.toLocal \/ q.st.toLocal = "over"
      /\ \/ q.st.toServer = "over"
         \/ q.st.toServer = py.toServer /\ q.sock = loc
  BY <1>1, <1>2 DEF PyType
<1>6. q.st \in PyType
  BY <1>1, PyParts
<1>7. [q.st EXCEPT !.run = "over"] \in PyType
  BY <1>6, PyFields
<1>8. /\ r \in PyTurn /\ r.st = [q.st EXCEPT !.run = "over"]
      /\ r.sock = q.sock /\ r.sent = q.sent
  BY <1>1, <1>7, PyParts
<1> HIDE DEF r
<1>9. /\ r.st.finished = q.st.finished /\ r.st.inbox = q.st.inbox
      /\ r.st.headBuf = q.st.headBuf /\ r.st.headDone = q.st.headDone
      /\ r.st.rewriteHost = q.st.rewriteHost /\ r.st.toLocal = q.st.toLocal
      /\ r.st.toServer = q.st.toServer
  BY <1>6, <1>8 DEF PyType
<1>10. PyOver(q)
  BY <1>1, <1>4, <1>5 DEF PyOver
<1>11. PyOver(r)
  BY <1>4, <1>5, <1>8, <1>9 DEF PyOver
<1> QED
  BY <1>1, <1>5, <1>8, <1>9, <1>10, <1>11 DEF q, r

LEMMA PyOverOrder ==
  ASSUME IInv, Order, NEW r, NEW t, PyCommitted(r, t), PyOver(r), py.run # "none",
         {"DATA", "EOF"} \cap TypesIn(r.sent) = {}
  PROVE  Order'
<1>1. /\ SockCalm(r.sock, loc) /\ r.st.finished
      /\ r.st.inbox = py.inbox /\ r.st.headBuf = py.headBuf
      /\ r.st.headDone = py.headDone /\ r.st.rewriteHost = py.rewriteHost
      /\ r.st.toServer # "over" => py.toServer # "over" /\ r.sock.inq = loc.inq
      /\ r.st.toLocal \in {"off", "get", "drain"} => py.toLocal \in {"off", "get", "drain"}
  BY DEF PyOver
<1> QED
  BY <1>1, PyTaskCalm

\* run() ends,
LEMMA PumpsEndOrder ==
  ASSUME IInv, Order, P!PumpsEnd, UNCHANGED <<sVars, outsideVars>>
  PROVE  Order'
<1> DEFINE h == P!Turn
           q == P!Finish(h)
           r == [q EXCEPT !.st = [q.st EXCEPT !.run = "over"]]
<1>1. /\ py.run = "pumps" /\ P!Commit(r) /\ UNCHANGED P!local
  BY DEF P!PumpsEnd
<1>2. h \in PyTurn /\ h.st = py /\ h.sock = loc /\ h.sent = <<>>
  BY PyStarts
<1> HIDE DEF h
<1>3. PyOver(r) /\ r.sent = <<>>
  BY <1>2, PyOverFinish
<1> HIDE DEF r
<1>4. PyCommitted(r, <<>>)
  BY <1>1, <1>3, PyTaskTurned DEF PyOver
<1>5. {"DATA", "EOF"} \cap TypesIn(r.sent) = {}
  BY <1>3, EmptySeen
<1> QED
  BY <1>1, <1>3, <1>4, <1>5, PyOverOrder

\* or the dial fails.
LEMMA DialFailsOrder ==
  ASSUME IInv, Order, DialFails
  PROVE  Order'
<1> DEFINE g == P!Turn
           h == P!Send(g, ResetFrame)
           q == P!Finish(h)
           r == [q EXCEPT !.st = [q.st EXCEPT !.run = "over"]]
<1>1. PyFacts
  BY PyKnown
<1>2. /\ py.run = "dialling" /\ P!Commit(r)
      /\ UNCHANGED <<sVars, sessionOver, linkUp, toAgent, visitorSaid, serviceSaid>>
      /\ happened' \in Histories
  BY SameOperators DEF DialFails, P!DialFail, P!DialFailed, P!local, Happens
<1>3. g \in PyTurn /\ g.st = py /\ g.sock = loc /\ g.sent = <<>>
  BY PyStarts
<1> HIDE DEF g
<1>4. h \in PyTurn /\ h.st = py /\ h.sock = loc /\ h.sent = Append(<<>>, ResetFrame)
  <2>1. ResetFrame \in WireFrame
    BY FramesTyped
  <2>2. LET s == P!Send(g, ResetFrame)
        IN  /\ s \in PyTurn /\ s.st = g.st /\ s.sock = g.sock
            /\ s.sent = Append(g.sent, ResetFrame)
    BY <1>3, <2>1, PyParts
  <2> QED
    BY <1>3, <2>2
<1> HIDE DEF h
<1>5. PyOver(r) /\ r.sent = Append(<<>>, ResetFrame)
  BY <1>4, PyOverFinish
<1> HIDE DEF r
<1>6. PyCommitted(r, <<>>)
  BY <1>1, <1>2, <1>5, PyTurned DEF PyFacts, PyOver
<1>7. {"DATA", "EOF"} \cap TypesIn(r.sent) = {}
  <2>1. TypesIn(r.sent) = {"RESET"}
    BY <1>5, FramesTyped, PySays
  <2> QED
    BY <2>1
<1> QED
  BY <1>2, <1>5, <1>6, <1>7, PyOverOrder

\* The session ends, and the stream with it.
LEMMA SessionEndsOrder ==
  ASSUME IInv, Order, P!SessionEnds, UNCHANGED <<sVars, outsideVars>>
  PROVE  Order'
<1> DEFINE h == P!Turn
<1>1. PyFacts
  BY PyKnown
<1>2. /\ ~linkUp /\ sessionOver' = TRUE
      /\ UNCHANGED <<sVars, linkUp, toAgent, visitorSaid, serviceSaid, happened>>
      /\ P!Commit(IF P!InStreams THEN P!Finish(h) ELSE h)
  BY DEF P!SessionEnds, outsideVars
<1>3. h \in PyTurn /\ h.st = py /\ h.sock = loc /\ h.sent = <<>>
  BY PyStarts
<1> HIDE DEF h
<1>4. CASE P!InStreams
  <2> DEFINE r == P!Finish(h)
  <2>1. P!Commit(r) /\ py.run # "none"
    BY <1>2, <1>4 DEF P!InStreams
  <2>2. PyOver(r) /\ r.sent = <<>>
    BY <1>3, PyOverFinish
  <2> HIDE DEF r
  <2>3. PyCommitted(r, <<>>)
    BY <1>1, <1>2, <2>1, <2>2, PyTurned DEF PyFacts, PyOver
  <2>4. {"DATA", "EOF"} \cap TypesIn(r.sent) = {}
    BY <2>2, EmptySeen
  <2> QED
    BY <2>1, <2>2, <2>3, <2>4, PyOverOrder
<1>5. CASE ~P!InStreams
  <2>1. PyCommitted(h, <<>>)
    BY <1>1, <1>2, <1>3, <1>5, PyTurned DEF PyFacts
  <2>2. /\ py' = py /\ loc' = loc /\ srv' = srv /\ pub' = pub /\ linkUp' = linkUp
        /\ toAgent' = toAgent /\ visitorSaid' = visitorSaid
    BY <1>2, <1>3, <2>1 DEF PyCommitted, sVars
  <2>3. {"DATA", "EOF"} \cap TypesIn(h.sent) = {}
    BY <1>3, EmptySeen
  <2>4. SockCalm(loc, loc)
    BY PyStarts
  <2>5. Refused' = Refused /\ PyHears' = PyHears
    BY <2>2 DEF Refused, PyHears
  <2>6. \A n \in 0..visitorSaid : Owed(n) => Owed(n)'
    <3> HIDE DEF Owed
    <3> QED
      BY <2>2, OwedSame
  <2> HIDE DEF Refused, Owed, PyHears
  <2> QED
    BY <1>3, <2>1, <2>3, <2>4, <2>5, <2>6, PyCalmTurn
<1> QED
  BY <1>4, <1>5

\* The dial succeeds.
LEMMA DialOkOrder ==
  ASSUME IInv, Order, P!DialOk, UNCHANGED <<sVars, outsideVars>>
  PROVE  Order'
<1>1. PyFacts
  BY PyKnown
<1> DEFINE g == P!Turn
           h1 == [g EXCEPT !.st = [g.st EXCEPT !.run = "pumps"]]
           h2 == [h1 EXCEPT !.st = [h1.st EXCEPT !.toLocal = "get"]]
           r == [h2 EXCEPT !.st = [h2.st EXCEPT !.toServer = "read"]]
<1>2. py.run = "dialling" /\ UNCHANGED P!local /\ P!Commit(r)
  BY DEF P!DialOk
<1>3. /\ g \in PyTurn /\ g.st = py /\ g.sock = loc /\ g.sent = <<>> /\ py \in PyType
      /\ SockCalm(loc, loc)
  BY PyStarts
<1> HIDE DEF g
<1>4. h1 \in PyTurn /\ h1.st = [g.st EXCEPT !.run = "pumps"] /\ h1.sock = loc /\ h1.sent = <<>>
  <2> DEFINE s == [g.st EXCEPT !.run = "pumps"]
  <2>1. s \in PyType
    BY <1>3, PyFields
  <2> HIDE DEF s
  <2> QED
    BY <1>3, <2>1, PyParts DEF s
<1> HIDE DEF h1
<1>5. h2 \in PyTurn /\ h2.st = [h1.st EXCEPT !.toLocal = "get"] /\ h2.sock = loc /\ h2.sent = <<>>
  <2> DEFINE s == [h1.st EXCEPT !.toLocal = "get"]
  <2>1. h1.st \in PyType
    BY <1>4, PyParts
  <2>2. s \in PyType
    BY <2>1, PyFields
  <2> HIDE DEF s
  <2> QED
    BY <1>4, <2>2, PyParts DEF s
<1> HIDE DEF h2
<1>6. r \in PyTurn /\ r.st = [h2.st EXCEPT !.toServer = "read"] /\ r.sock = loc /\ r.sent = <<>>
  <2> DEFINE s == [h2.st EXCEPT !.toServer = "read"]
  <2>1. h2.st \in PyType
    BY <1>5, PyParts
  <2>2. s \in PyType
    BY <2>1, PyFields
  <2> HIDE DEF s
  <2> QED
    BY <1>5, <2>2, PyParts DEF s
<1> HIDE DEF r
<1>7. /\ r.st.inbox = py.inbox /\ r.st.finished = py.finished
      /\ r.st.headBuf = py.headBuf /\ r.st.headDone = py.headDone
      /\ r.st.rewriteHost = py.rewriteHost
  BY <1>3, <1>4, <1>5, <1>6 DEF PyType
<1>8. py.toLocal = "off" /\ py.toServer = "off"
  BY <1>1, <1>2 DEF PyFacts, LifeOfPy
<1>9. PyCommitted(r, <<>>)
  BY <1>2, <1>6, PyTaskTurned
<1>10. {"DATA", "EOF"} \cap TypesIn(r.sent) = {} /\ {"DATA", "EOF"} \cap TypesIn(<<>>) = {}
  BY <1>6, EmptySeen
<1>11. /\ SockCalm(r.sock, loc) /\ r.sock.inq = loc.inq
       /\ py.toServer # "over" /\ py.toLocal \in {"off", "get", "drain"}
  BY <1>3, <1>6, <1>8
<1> QED
  BY <1>2, <1>7, <1>9, <1>10, <1>11, PyTaskCalm

\* read() raises.
LEMMA ToServerErrorOrder ==
  ASSUME IInv, Order, P!ToServerError, UNCHANGED <<sVars, outsideVars>>
  PROVE  Order'
<1> DEFINE g == P!Turn
           s == [py EXCEPT !.toServer = "over"]
           f == ResetFrame
           h1 == P!Send(g, f)
           r == [h1 EXCEPT !.st = [h1.st EXCEPT !.toServer = "over"]]
<1>1. PyFacts
  BY PyKnown
<1>2. py.toServer = "read" /\ UNCHANGED P!local /\ P!Commit(r)
  BY SameOperators DEF P!ToServerError
<1>3. /\ g \in PyTurn /\ g.st = py /\ g.sock = loc /\ g.sent = <<>>
      /\ SockCalm(loc, loc)
  BY PyStarts
<1> HIDE DEF g
<1>4. f \in WireFrame /\ f.type = "RESET"
  BY FramesTyped
<1> HIDE DEF f
<1>5. /\ h1 \in PyTurn /\ h1.st = py /\ h1.sock = loc /\ h1.sent = Append(<<>>, f)
  <2> HIDE DEF h1
  <2>1. LET q == P!Send(g, f)
        IN  /\ q \in PyTurn /\ q.st = g.st /\ q.sock = g.sock
            /\ q.sent = Append(g.sent, f)
    BY <1>3, <1>4, PyParts
  <2> QED
    BY <1>3, <2>1 DEF h1
<1> HIDE DEF h1
<1>6. r \in PyTurn /\ r.st = s /\ r.sock = loc /\ r.sent = Append(<<>>, f)
  <2>1. r = [h1 EXCEPT !.st = s]
    BY <1>5
  <2>2. s \in PyType
    BY <1>1, PyFields DEF PyFacts
  <2> HIDE DEF s, r
  <2> QED
    BY <1>5, <2>1, <2>2, PyParts
<1> HIDE DEF r
<1>7. PyCommitted(r, <<>>)
  BY <1>2, <1>6, PyTaskTurned
<1>8. /\ s.toLocal = py.toLocal /\ s.toServer = "over"
      /\ s.inbox = py.inbox /\ s.finished = py.finished
      /\ s.headBuf = py.headBuf /\ s.headDone = py.headDone
      /\ s.rewriteHost = py.rewriteHost
  BY <1>1 DEF PyFacts, PyType
<1> HIDE DEF s
<1>9. {"DATA", "EOF"} \cap TypesIn(r.sent) = {} /\ {"DATA", "EOF"} \cap TypesIn(<<>>) = {}
  <2>1. TypesIn(r.sent) = {"RESET"}
    BY <1>4, <1>6, PySays
  <2> QED
    BY <2>1, EmptySeen
<1>10. py.run # "none"
  BY <1>2, PumpAtWork
<1>11. SockCalm(r.sock, loc) /\ r.st = s
  BY <1>3, <1>6
<1> QED
  BY <1>7, <1>8, <1>9, <1>10, <1>11, PyTaskCalm

-----------------------------------------------------------------------------
\* A frame for the agent.

\* One that opens the stream starts it or is refused.
LEMMA PyOpenOrder ==
  ASSUME IInv, Order, P!PyReceive, UNCHANGED <<sVars, outsideVars>>,
         Head(toAgent).type = "OPEN"
  PROVE  Order'
<1> DEFINE f == Head(toAgent)
           g == P!Turn
           dials == [g EXCEPT !.st = [g.st EXCEPT !.run = "dialling"]]
           refuses == P!Send(g, ResetFrame)
           t == <<f>>
<1>1. PyFacts
  BY PyKnown
<1>2. /\ f \in WireFrame /\ "OPEN" \in TypesIn(toAgent) /\ t # <<>> /\ TypesIn(t) = {"OPEN"}
      /\ \E known \in BOOLEAN : P!Commit(P!OnStream(f, known))
      /\ \A r : r \in PyTurn /\ P!Commit(r) => PyCommitted(r, t)
  BY PyTaken
<1>3. \A known : P!OnStream(f, known) = IF known THEN dials ELSE refuses
  BY SameOperators DEF P!OnStream
<1>4. P!Commit(dials) \/ P!Commit(refuses)
  BY <1>2, <1>3
<1> HIDE DEF f, t
<1>5. g \in PyTurn /\ g.st = py /\ g.sock = loc /\ g.sent = <<>> /\ SockCalm(loc, loc)
  BY PyStarts
<1> HIDE DEF g
<1>6. py.run = "none"
  BY <1>2 DEF IInv, Chan
<1>7. /\ dials \in PyTurn /\ dials.st = [py EXCEPT !.run = "dialling"]
      /\ dials.sock = loc /\ dials.sent = <<>>
  <2>1. [g.st EXCEPT !.run = "dialling"] \in PyType
    BY <1>1, <1>5, PyFields DEF PyFacts
  <2> QED
    BY <1>5, <2>1, PyParts
<1>8. /\ refuses \in PyTurn /\ refuses.st = py
      /\ refuses.sock = loc /\ refuses.sent = Append(<<>>, ResetFrame)
  <2>1. ResetFrame \in WireFrame
    BY FramesTyped
  <2>2. LET s == P!Send(g, ResetFrame)
        IN  /\ s \in PyTurn /\ s.st = g.st /\ s.sock = g.sock
            /\ s.sent = Append(g.sent, ResetFrame)
    BY <1>5, <2>1, PyParts
  <2> QED
    BY <1>5, <2>2
<1> HIDE DEF dials, refuses
<1>9. CASE P!Commit(refuses)
  <2>1. PyCommitted(refuses, t)
    BY <1>2, <1>8, <1>9
  <2>2. {"DATA", "EOF"} \cap TypesIn(refuses.sent) = {}
    <3>1. TypesIn(refuses.sent) = {"RESET"}
      BY <1>8, FramesTyped, PySays
    <3> QED
      BY <3>1
  <2> QED
    BY <1>2, <1>6, <1>8, <2>1, <2>2, PyRefuses
<1>10. CASE P!Commit(dials)
  <2>1. PyCommitted(dials, t)
    BY <1>2, <1>7, <1>10
  <2> DEFINE s == dials.st
  <2>2. /\ s.toLocal = py.toLocal /\ s.toServer = py.toServer
        /\ s.inbox = py.inbox /\ s.finished = py.finished
        /\ s.headBuf = py.headBuf /\ s.headDone = py.headDone
        /\ s.rewriteHost = py.rewriteHost
    BY <1>1, <1>7 DEF PyFacts, PyType
  <2>3. {"DATA", "EOF"} \cap TypesIn(dials.sent) = {} /\ {"DATA", "EOF"} \cap TypesIn(t) = {}
    BY <1>2, <1>7, EmptySeen
  <2>4. py.toServer # "over" /\ SockCalm(dials.sock, loc) /\ dials.sock.inq = loc.inq
    BY <1>1, <1>5, <1>6, <1>7 DEF PyFacts, LifeOfPy, P!NoPyStream
  <2> HIDE DEF s
  <2> QED
    BY <1>2, <2>1, <2>2, <2>3, <2>4, PyTaskCalm DEF s
<1> QED
  BY <1>4, <1>9, <1>10

\* One for no stream is answered with a reset, at most.
LEMMA PyStrayOrder ==
  ASSUME IInv, Order, P!PyReceive, UNCHANGED <<sVars, outsideVars>>,
         Head(toAgent).type # "OPEN", ~P!InStreams
  PROVE  Order'
<1> DEFINE f == Head(toAgent)
           g == P!Turn
           refuses == P!Send(g, ResetFrame)
           t == <<f>>
<1>1. PyFacts
  BY PyKnown
<1>2. /\ f \in WireFrame /\ t # <<>>
      /\ \E known \in BOOLEAN : P!Commit(P!OnStream(f, known))
      /\ \A r : r \in PyTurn /\ P!Commit(r) => PyCommitted(r, t)
  BY PyTaken
<1>3. \A known : P!OnStream(f, known) = IF f.type = "RESET" THEN g ELSE refuses
  BY SameOperators DEF P!OnStream
<1>4. P!Commit(g) \/ P!Commit(refuses)
  BY <1>2, <1>3
<1> HIDE DEF f, t
<1>5. g \in PyTurn /\ g.st = py /\ g.sock = loc /\ g.sent = <<>> /\ SockCalm(loc, loc)
  BY PyStarts
<1> HIDE DEF g
<1>6. /\ refuses \in PyTurn /\ refuses.st = py
      /\ refuses.sock = loc /\ refuses.sent = Append(<<>>, ResetFrame)
  <2>1. ResetFrame \in WireFrame
    BY FramesTyped
  <2>2. LET s == P!Send(g, ResetFrame)
        IN  /\ s \in PyTurn /\ s.st = g.st /\ s.sock = g.sock
            /\ s.sent = Append(g.sent, ResetFrame)
    BY <1>5, <2>1, PyParts
  <2> QED
    BY <1>5, <2>2
<1> HIDE DEF refuses
<1>7. PICK r : /\ PyCommitted(r, t) /\ r.sock = loc /\ r.st = py
               /\ r.sent = <<>> \/ r.sent = Append(<<>>, ResetFrame)
  BY <1>2, <1>4, <1>5, <1>6
<1>8. {"DATA", "EOF"} \cap TypesIn(r.sent) = {}
  <2>1. TypesIn(r.sent) \subseteq {"RESET"}
    BY <1>7, FramesTyped, PySays
  <2> QED
    BY <2>1
<1>9. CASE py.run = "none"
  BY <1>2, <1>7, <1>8, <1>9, PyRefuses
<1>10. CASE py.run # "none"
  <2>1. py.finished
    BY <1>10 DEF P!InStreams
  <2> QED
    BY <1>5, <1>7, <1>8, <1>10, <2>1, PyTaskCalm
<1> QED
  BY <1>9, <1>10

\* Credit arrives.
LEMMA PyAckOrder ==
  ASSUME IInv, Order, P!PyReceive, UNCHANGED <<sVars, outsideVars>>, P!InStreams,
         Head(toAgent).type = "ACK"
  PROVE  Order'
<1> DEFINE f == Head(toAgent)
           g == P!Turn
           r == [g EXCEPT !.st = [g.st EXCEPT !.sendCredit = g.st.sendCredit + f.n]]
           t == <<f>>
           credit == py.sendCredit + f.n
<1>1. PyFacts
  BY PyKnown
<1>2. /\ f \in WireFrame /\ TypesIn(t) = {f.type} /\ f.type = "ACK"
      /\ \E known \in BOOLEAN : P!Commit(P!OnStream(f, known))
      /\ \A q : q \in PyTurn /\ P!Commit(q) => PyCommitted(q, t)
  BY PyTaken
<1>3. \A known : P!OnStream(f, known) = r
  BY DEF P!OnStream, P!AddCredit
<1>4. P!Commit(r)
  BY <1>2, <1>3
<1>5. f.n \in Nat \ {0}
  BY <1>2, FrameKinds DEF WireFrame
<1> HIDE DEF f, t
<1>6. g \in PyTurn /\ g.st = py /\ g.sock = loc /\ g.sent = <<>> /\ SockCalm(loc, loc)
  BY PyStarts
<1> HIDE DEF g
<1>7. r \in PyTurn /\ r.st = [py EXCEPT !.sendCredit = credit] /\ r.sock = loc /\ r.sent = <<>>
  <2>1. r = [g EXCEPT !.st = [py EXCEPT !.sendCredit = credit]]
    BY <1>6
  <2>2. credit \in Int
    BY <1>1, <1>5 DEF PyFacts
  <2> HIDE DEF r, credit
  <2>3. [py EXCEPT !.sendCredit = credit] \in PyType
    BY <1>1, <2>2, PyFields DEF PyFacts
  <2> QED
    BY <1>6, <2>1, <2>3, PyParts
<1> HIDE DEF r, credit
<1>8. /\ r.st.toLocal = py.toLocal /\ r.st.toServer = py.toServer
      /\ r.st.inbox = py.inbox /\ r.st.finished = py.finished
      /\ r.st.headBuf = py.headBuf /\ r.st.headDone = py.headDone
      /\ r.st.rewriteHost = py.rewriteHost
  BY <1>1, <1>7 DEF PyFacts, PyType
<1>9. PyCommitted(r, t)
  BY <1>2, <1>4, <1>7
<1>10. {"DATA", "EOF"} \cap TypesIn(r.sent) = {} /\ {"DATA", "EOF"} \cap TypesIn(t) = {}
  BY <1>2, <1>7, EmptySeen
<1>11. py.run # "none" /\ SockCalm(r.sock, loc) /\ r.sock.inq = loc.inq
  BY <1>6, <1>7 DEF P!InStreams
<1> QED
  BY <1>8, <1>9, <1>10, <1>11, PyTaskCalm

\* A reset arrives.
LEMMA PyResetOrder ==
  ASSUME IInv, Order, P!PyReceive, UNCHANGED <<sVars, outsideVars>>, P!InStreams,
         Head(toAgent).type = "RESET"
  PROVE  Order'
<1> DEFINE f == Head(toAgent)
           g == P!Turn
           r == P!Finish(g)
           t == <<f>>
<1>1. /\ \E known \in BOOLEAN : P!Commit(P!OnStream(f, known))
      /\ \A q : q \in PyTurn /\ P!Commit(q) => PyCommitted(q, t)
  BY PyTaken
<1>2. \A known : P!OnStream(f, known) = r
  BY DEF P!OnStream
<1>3. P!Commit(r)
  BY <1>1, <1>2
<1> HIDE DEF f, t
<1>4. g \in PyTurn /\ g.st = py /\ g.sock = loc /\ g.sent = <<>>
  BY PyStarts
<1> HIDE DEF g
<1>5. PyOver(r) /\ r.sent = <<>>
  BY <1>4, PyOverFinish
<1> HIDE DEF r
<1>6. PyCommitted(r, t) /\ py.run # "none"
  BY <1>1, <1>3, <1>5 DEF PyOver, P!InStreams
<1>7. {"DATA", "EOF"} \cap TypesIn(r.sent) = {}
  BY <1>5, EmptySeen
<1> QED
  BY <1>5, <1>6, <1>7, PyOverOrder

\* Data or an end of stream go behind what the inbox holds.
LEMMA FirstFed ==
  ASSUME NEW c \in Seq(WireFrame), NEW f \in WireFrame, DataFirst(c),
         "EOF" \in TypesIn(c) => f.type # "DATA"
  PROVE  DataFirst(Append(c, f))
<1> DEFINE d == Append(c, f)
<1>1. /\ DOMAIN d = 1..(Len(c) + 1) /\ Len(c) \in Nat /\ DOMAIN c = 1..Len(c)
      /\ \A i \in 1..Len(c) : d[i] = c[i]
      /\ d[Len(c) + 1] = f
  OBVIOUS
<1> HIDE DEF d
<1>2. ASSUME NEW i \in DOMAIN d, NEW j \in DOMAIN d, i < j, d[i].type = "EOF"
      PROVE  d[j].type # "DATA"
  <2>1. i \in 1..Len(c) /\ d[i] = c[i]
    BY <1>1, <1>2
  <2>2. CASE j \in 1..Len(c)
    BY <1>1, <1>2, <2>1, <2>2 DEF DataFirst
  <2>3. CASE j = Len(c) + 1
    <3>1. "EOF" \in TypesIn(c)
      BY <1>1, <1>2, <2>1 DEF TypesIn
    <3> QED
      BY <1>1, <2>3, <3>1
  <2> QED
    BY <1>1, <2>2, <2>3
<1> QED
  BY <1>2 DEF DataFirst, d

LEMMA PyFeedOrder ==
  ASSUME IInv, Order, P!PyReceive, UNCHANGED <<sVars, outsideVars>>, P!InStreams,
         Head(toAgent).type \in {"DATA", "EOF"}
  PROVE  Order'
<1> DEFINE f == Head(toAgent)
           g == P!Turn
           r == [g EXCEPT !.st = [g.st EXCEPT !.inbox = Append(g.st.inbox, f)]]
           t == <<f>>
           box == Append(py.inbox, f)
<1>1. PyFacts
  BY PyKnown
<1>2. /\ f \in WireFrame /\ TypesIn(t) = {f.type} /\ f.type \in TypesIn(toAgent)
      /\ f.type \in {"DATA", "EOF"}
      /\ \E known \in BOOLEAN : P!Commit(P!OnStream(f, known))
      /\ \A q : q \in PyTurn /\ P!Commit(q) => PyCommitted(q, t)
  BY PyTaken
<1>3. \A known : P!OnStream(f, known) = r
  BY DEF P!OnStream, P!Feed
<1>4. P!Commit(r)
  BY <1>2, <1>3
<1>5. t = <<f>>
  OBVIOUS
<1> HIDE DEF f, t
<1>6. g \in PyTurn /\ g.st = py /\ g.sock = loc /\ g.sent = <<>> /\ SockCalm(loc, loc)
  BY PyStarts
<1> HIDE DEF g
<1>7. /\ box \in Seq(WireFrame)
      /\ TypesIn(box) = TypesIn(py.inbox) \cup {f.type}
  BY <1>1, <1>2, AppendSeen DEF PyFacts
<1>8. r \in PyTurn /\ r.st = [py EXCEPT !.inbox = box] /\ r.sock = loc /\ r.sent = <<>>
  <2>1. r = [g EXCEPT !.st = [py EXCEPT !.inbox = box]]
    BY <1>6
  <2> HIDE DEF r, box
  <2>2. [py EXCEPT !.inbox = box] \in PyType
    BY <1>1, <1>7, PyFields DEF PyFacts
  <2> QED
    BY <1>6, <2>1, <2>2, PyParts
<1> HIDE DEF r
<1>9. PyCommitted(r, t)
  BY <1>2, <1>4, <1>8
<1>10. /\ loc' = loc /\ linkUp' = linkUp /\ srv' = srv /\ pub' = pub
       /\ visitorSaid' = visitorSaid /\ serviceSaid' = serviceSaid
       /\ toAgent' \in Seq(WireFrame) /\ toAgent = t \o toAgent'
       /\ toServer' = toServer \o <<>> /\ toServer \in Seq(WireFrame)
       /\ t \in Seq(WireFrame)
  <2>1. toServer \in Seq(WireFrame)
    BY Places
  <2>2. toServer \o <<>> = toServer
    BY <2>1
  <2> QED
    BY <1>8, <1>9, <2>1, <2>2 DEF PyCommitted, sVars
<1>11. /\ py'.inbox = box /\ py'.run = py.run /\ py'.finished = py.finished
       /\ py'.toLocal = py.toLocal /\ py'.toServer = py.toServer
       /\ py'.headBuf = py.headBuf /\ py'.headDone = py.headDone
       /\ py'.rewriteHost = py.rewriteHost
       /\ ~py.finished /\ ~py'.finished /\ py.run # "none"
  <2>1. py' = [py EXCEPT !.inbox = box]
    BY <1>8, <1>9 DEF PyCommitted
  <2> HIDE DEF box
  <2> QED
    BY <1>1, <2>1 DEF PyFacts, PyType, P!InStreams
<1>12. TypesIn(toAgent) = {f.type} \cup TypesIn(toAgent')
  BY <1>2, <1>10, ConcatSeen DEF WireFrame
<1>13. Down'
  <2> DEFINE b == <<>>
  <2>1. b \in Seq(WireFrame) /\ {"DATA", "EOF"} \cap TypesIn(b) = {} /\ toServer' = toServer \o b
    BY <1>10, EmptySeen
  <2> HIDE DEF b
  <2>2. PyTells' => PyTells /\ loc'.inq = loc.inq
    BY <1>10, <1>11 DEF PyTells
  <2> HIDE DEF PyTells
  <2> QED
    BY <1>10, <2>1, <2>2, DownBlank DEF Order
<1>14. Up'
  <2>1. PyHears' = PyHears
    BY <1>10, <1>11 DEF PyHears
  <2>2. ~Refused
    BY <1>11 DEF Refused
  <2>3. ASSUME NEW n \in 0..visitorSaid, Owed(n) PROVE Owed(n)'
    <3>1. n \in Nat /\ py'.inbox = Append(py.inbox, f) /\ toAgent = <<f>> \o toAgent'
      BY <1>5, <1>10, <1>11, Places
    <3> HIDE DEF Owed, box
    <3> QED
      BY <1>2, <1>10, <1>11, <2>3, <3>1, OwedFed
  <2>4. ReadsOn(loc', loc) /\ loc' \in Connection(Bytes)
    BY <1>6, <1>10 DEF SockCalm
  <2> HIDE DEF Owed, Refused, PyHears
  <2> QED
    BY <1>10, <1>11, <2>1, <2>2, <2>3, <2>4, UpQuiet DEF Order
<1>15. HeadKept' /\ LostEmpty'
  BY <1>10, <1>11 DEF Order, HeadKept, LostEmpty
<1>16. Ends'
  <2>1. /\ DataFirst(py.inbox)
        /\ "EOF" \in TypesIn(py.inbox) => srv.sentEof /\ "DATA" \notin TypesIn(toAgent)
        /\ srv.sentEof => pub.fin
        /\ "EOF" \in TypesIn(toServer) => loc.fin
    BY <1>11 DEF Order, Ends
  <2>2. DataFirst(box)
    BY <1>1, <1>2, <1>12, <2>1, FirstFed DEF PyFacts
  <2>3. toServer' = toServer
    BY <1>10
  <2>4. f.type = "EOF" => srv.sentEof /\ "DATA" \notin TypesIn(toAgent')
    <3>1. Orderly(toAgent) /\ ("EOF" \in TypesIn(toAgent) => srv.sentEof)
      BY DEF IInv, Chan
    <3>2. "EOF" \in TypesIn(t) => "DATA" \notin TypesIn(toAgent')
      BY <1>1, <1>10, <3>1, ShortenedOrderly DEF PyFacts
    <3> QED
      BY <1>2, <3>1, <3>2
  <2>5. "EOF" \in TypesIn(box) => srv.sentEof /\ "DATA" \notin TypesIn(toAgent')
    BY <1>7, <1>12, <2>1, <2>4
  <2> QED
    BY <1>10, <1>11, <2>1, <2>2, <2>3, <2>5 DEF Ends
<1> QED
  BY <1>13, <1>14, <1>15, <1>16 DEF Order

LEMMA PyReceiveOrder ==
  ASSUME IInv, Order, P!PyReceive, UNCHANGED <<sVars, outsideVars>>
  PROVE  Order'
<1>1. Head(toAgent).type \in {"OPEN", "DATA", "EOF", "ACK", "RESET"}
  <2>1. Head(toAgent) \in WireFrame
    BY PyTaken
  <2> QED
    BY <2>1, FrameKinds DEF WireFrame
<1>2. CASE Head(toAgent).type = "OPEN"
  BY <1>2, PyOpenOrder
<1>3. CASE Head(toAgent).type # "OPEN" /\ ~P!InStreams
  BY <1>3, PyStrayOrder
<1>4. CASE Head(toAgent).type \in {"DATA", "EOF"} /\ P!InStreams
  BY <1>4, PyFeedOrder
<1>5. CASE Head(toAgent).type = "ACK" /\ P!InStreams
  BY <1>5, PyAckOrder
<1>6. CASE Head(toAgent).type = "RESET" /\ P!InStreams
  BY <1>6, PyResetOrder
<1> QED
  BY <1>1, <1>2, <1>3, <1>4, <1>5, <1>6

-----------------------------------------------------------------------------
\* The service, the link, and the pump that reads from the service.

\* A step that leaves the stream and the frames alone.
LEMMA PyAloneOrder ==
  ASSUME IInv, Order, SockCalm(loc', loc), py' = py, srv' = srv, pub' = pub,
         toAgent' = toAgent, toServer' = toServer,
         visitorSaid' = visitorSaid, serviceSaid' = serviceSaid,
         linkUp' => linkUp,
         PyTells' => loc'.inq = loc.inq
  PROVE  Order'
<1> DEFINE b == <<>>
<1>1. b \in Seq(WireFrame) /\ {"DATA", "EOF"} \cap TypesIn(b) = {} /\ toServer' = toServer \o b
  <2>1. toServer \in Seq(WireFrame)
    BY Places
  <2> QED
    BY <2>1, EmptySeen
<1>2. PyTells' => PyTells /\ loc'.inq = loc.inq
  BY DEF PyTells, SockCalm
<1>3. PyHears' => PyHears
  BY DEF PyHears, SockCalm
<1>4. Refused' = Refused
  BY DEF Refused
<1>5. ASSUME NEW n \in 0..visitorSaid, Owed(n) PROVE Owed(n)'
  <2> DEFINE e == <<>>
  <2>1. n \in Nat /\ e \in Seq(WireFrame) /\ {"DATA", "EOF"} \cap TypesIn(e) = {}
        /\ toAgent' = toAgent \o e
    <3>1. toAgent \in Seq(WireFrame)
      BY Places
    <3> QED
      BY <3>1, Places, EmptySeen
  <2> HIDE DEF e
  <2>2. SrvTells' => SrvTells /\ pub'.inq = pub.inq
    BY DEF SrvTells
  <2> HIDE DEF Owed, SrvTells
  <2> QED
    BY <1>5, <2>1, <2>2, OwedBlank
<1> HIDE DEF b, Owed, Refused, PyHears, PyTells
<1> QED
  BY <1>1, <1>2, <1>3, <1>4, <1>5, PyCalmStep

LEMMA ServiceEventOrder ==
  ASSUME IInv, Order, ServiceEvent
  PROVE  Order'
<1>1. /\ py' = py /\ srv' = srv /\ pub' = pub /\ linkUp' = linkUp
      /\ toAgent' = toAgent /\ toServer' = toServer
      /\ visitorSaid' = visitorSaid /\ serviceSaid' = serviceSaid
      /\ loc' = [loc EXCEPT !.fin = TRUE] \/ loc' = Lose(loc)
  BY DEF ServiceEvent, sVars, linkVars
<1>2. loc \in Connection(Bytes)
  BY Places
<1>3. SockCalm(loc', loc)
  BY <1>1, <1>2, CalmCalls DEF Order, LostEmpty
<1>4. PyTells' => loc'.inq = loc.inq
  <2>1. CASE loc' = [loc EXCEPT !.fin = TRUE]
    BY <1>2, <2>1 DEF Connection
  <2>2. CASE loc' = Lose(loc)
    BY <1>2, <2>2 DEF Connection, Lose, PyTells
  <2> QED
    BY <1>1, <2>1, <2>2
<1> QED
  BY <1>1, <1>3, <1>4, PyAloneOrder

LEMMA LocalFlushOrder ==
  ASSUME IInv, Order, P!LocalFlush, UNCHANGED <<sVars, outsideVars>>
  PROVE  Order'
<1>1. /\ py' = py /\ srv' = srv /\ pub' = pub /\ linkUp' = linkUp
      /\ toAgent' = toAgent /\ toServer' = toServer
      /\ visitorSaid' = visitorSaid /\ serviceSaid' = serviceSaid
      /\ CanTake(loc) /\ loc' = TakeByte(loc)
  BY SameConnection DEF P!LocalFlush, sVars, outsideVars
<1>2. loc \in Connection(Bytes)
  BY Places
<1>3. SockCalm(loc', loc)
  BY <1>1, <1>2, CalmCalls DEF Order, LostEmpty
<1>4. loc'.inq = loc.inq
  BY <1>1, <1>2, FlushReads
<1> QED
  BY <1>1, <1>3, <1>4, PyAloneOrder

LEMMA LinkLostOrder ==
  ASSUME IInv, Order, LinkLost
  PROVE  Order'
<1>1. /\ py' = py /\ loc' = loc /\ srv' = srv /\ pub' = pub /\ ~linkUp'
      /\ toAgent' = toAgent /\ toServer' = toServer
      /\ visitorSaid' = visitorSaid /\ serviceSaid' = serviceSaid
  BY DEF LinkLost, sVars, pVars
<1>2. SockCalm(loc', loc)
  BY <1>1, PyStarts
<1> QED
  BY <1>1, <1>2, PyAloneOrder

\* The service says all it is going to say.
LEMMA ServiceSendOrder ==
  ASSUME IInv, Order, ServiceSend
  PROVE  Order'
<1>1. PICK k \in 1..DownBytes :
        /\ serviceSaid = 0 /\ serviceSaid' = k /\ ~loc.fin /\ ~loc.lost
        /\ loc' = [loc EXCEPT !.inq = Said(k)]
        /\ srv' = srv /\ pub' = pub /\ py' = py /\ linkUp' = linkUp
        /\ toAgent' = toAgent /\ toServer' = toServer /\ visitorSaid' = visitorSaid
  BY DEF ServiceSend, Connected, sVars, linkVars
<1>2. /\ loc \in Connection(Bytes) /\ UpBytes \in Nat /\ DownBytes \in Nat
      /\ k \in Nat /\ k \in 0..(UpBytes + DownBytes) /\ loc.inq \in Seq(Bytes)
  BY Places, PyBridgeAssumption
<1>3. Said(k) \in Seq(Bytes)
  BY <1>2, SaidTyped
<1> DEFINE x == Said(k)
<1> HIDE DEF x
<1>4. SockCalm(loc', loc)
  BY <1>1, <1>2, <1>3, CalmCalls DEF Order, LostEmpty, x
<1>5. loc'.inq = x /\ loc'.lost = loc.lost /\ loc'.fin = loc.fin
  <2>1. LET d == [loc EXCEPT !.inq = x]
        IN  d.inq = x /\ d.lost = loc.lost /\ d.fin = loc.fin
    BY <1>2 DEF Connection
  <2> QED
    BY <1>1, <2>1 DEF x
<1>6. "EOF" \notin TypesIn(toServer)
  BY <1>1 DEF Order, Ends
<1>7. Down'
  <2>1. PyTells' = PyTells /\ SrvHears' = SrvHears /\ ReadBy(pub') = ReadBy(pub)
    BY <1>1, <1>5 DEF PyTells, SrvHears
  <2> DEFINE n == Len(ReadBy(pub))
             u == PyTells
             inq == loc.inq
             c == toServer
  <2>2. /\ From(ReadBy(pub), 0) /\ n <= 0 /\ n \in Nat /\ c \in Seq(WireFrame)
        /\ SrvHears => Road(c, inq, n, 0, u)
    BY <1>1, Places DEF Order, Down
  <2>3. n <= k
    BY <1>2, <2>2
  <2>4. ASSUME SrvHears PROVE Road(c, Said(k), n, k, u)
    <3> HIDE DEF n, u, inq, c
    <3>1. Road(c, inq, n, 0, u) /\ "EOF" \notin TypesIn(c) /\ inq \in Seq(Bytes)
      BY <1>2, <1>6, <2>2, <2>4 DEF c, inq
    <3> QED
      BY <1>2, <2>2, <3>1, RoadSaid
  <2>5. SrvHears => Road(toServer', loc'.inq, Len(ReadBy(pub')), serviceSaid', PyTells')
    BY <1>1, <1>5, <2>1, <2>4 DEF x
  <2> QED
    BY <1>1, <2>1, <2>2, <2>3, <2>5 DEF Down
<1>8. Up'
  <2>1. PyHears' = PyHears /\ Refused' = Refused
    BY <1>1, <1>5 DEF PyHears, Refused
  <2>2. ASSUME NEW n \in 0..visitorSaid, Owed(n) PROVE Owed(n)'
    <3> HIDE DEF Owed
    <3> QED
      BY <1>1, <2>2, OwedSame
  <2> HIDE DEF Owed, Refused, PyHears
  <2> QED
    BY <1>1, <1>4, <2>1, <2>2, UpQuiet DEF Order, SockCalm
<1>9. HeadKept' /\ LostEmpty'
  BY <1>1, <1>5 DEF Order, HeadKept, LostEmpty
<1>10. Ends'
  BY <1>1, <1>5 DEF Order, Ends
<1> QED
  BY <1>7, <1>8, <1>9, <1>10 DEF Order

\* What a turn that only reads from the service leaves as it is.
LEMMA PyReadsOrder ==
  ASSUME IInv, Order, NEW r, PyCommitted(r, <<>>), r.st.inbox = py.inbox,
         r.st.finished = py.finished, r.st.toLocal = py.toLocal, r.st.run = py.run,
         r.st.headBuf = py.headBuf, r.st.headDone = py.headDone,
         r.st.rewriteHost = py.rewriteHost,
         r.sock.got = loc.got, r.sock.out = loc.out, r.sock.lost = loc.lost,
         r.sock.fin = loc.fin, ~loc.lost,
         Down', "EOF" \in TypesIn(toServer') => loc.fin
  PROVE  Order'
<1>1. /\ py' = r.st /\ loc' = r.sock /\ linkUp' = linkUp /\ srv' = srv /\ pub' = pub
      /\ visitorSaid' = visitorSaid /\ loc' \in Connection(Bytes)
      /\ toAgent' = toAgent
  <2>1. /\ py' = r.st /\ loc' = r.sock /\ linkUp' = linkUp /\ srv' = srv /\ pub' = pub
        /\ visitorSaid' = visitorSaid /\ r \in PyTurn
        /\ toAgent' \in Seq(WireFrame) /\ toAgent = <<>> \o toAgent'
    BY DEF PyCommitted, sVars
  <2>2. toAgent' = toAgent
    BY <2>1
  <2> QED
    BY <2>1, <2>2, PyParts
<1>2. loc \in Connection(Bytes)
  BY Places
<1>3. ReadsOn(loc', loc)
  BY <1>1, <1>2, StillRead DEF Still
<1>4. PyHears' = PyHears /\ Refused' = Refused
  BY <1>1 DEF PyHears, Refused
<1>5. ASSUME NEW n \in 0..visitorSaid, Owed(n) PROVE Owed(n)'
  <2> HIDE DEF Owed
  <2> QED
    BY <1>1, <1>5, OwedSame
<1>6. Up'
  <2> HIDE DEF Owed, Refused, PyHears
  <2> QED
    BY <1>1, <1>3, <1>4, <1>5, UpQuiet DEF Order
<1>7. HeadKept' /\ LostEmpty'
  BY <1>1 DEF Order, HeadKept, LostEmpty
<1>8. Ends'
  BY <1>1 DEF Order, Ends
<1> QED
  BY <1>6, <1>7, <1>8 DEF Order

\* _to_server: a chunk,
LEMMA ToServerDataOrder ==
  ASSUME IInv, Order, P!ToServerData, UNCHANGED <<sVars, outsideVars>>
  PROVE  Order'
<1>1. PyFacts
  BY PyKnown
<1>2. PICK k \in 1..MaxChunk :
         /\ k <= Len(loc.inq)
         /\ P!Commit([P!Send(P!Turn, P!DataFrame(SubSeq(loc.inq, 1, k))) EXCEPT
                        !.st.sendCredit = @ - k,
                        !.sock.inq = SubSeq(@, k + 1, Len(@))])
  BY DEF P!ToServerData
<1>3. /\ py.toServer = "read" /\ UNCHANGED P!local
  BY DEF P!ToServerData
<1> DEFINE g == P!Turn
           d == SubSeq(loc.inq, 1, k)
           f == P!DataFrame(d)
           left == SubSeq(loc.inq, k + 1, Len(loc.inq))
           c == [loc EXCEPT !.inq = left]
           credit == py.sendCredit - k
           s == [py EXCEPT !.sendCredit = credit]
           h1 == P!Send(g, f)
           h2 == [h1 EXCEPT !.st = [h1.st EXCEPT !.sendCredit = h1.st.sendCredit - k]]
           r == [h2 EXCEPT !.sock = [h2.sock EXCEPT
                   !.inq = SubSeq(h2.sock.inq, k + 1, Len(h2.sock.inq))]]
<1>4. P!Commit(r)
  BY <1>2
<1>5. g \in PyTurn /\ g.st = py /\ g.sock = loc /\ g.sent = <<>>
  BY PyStarts
<1> HIDE DEF g
<1>6. /\ Kept(c, loc, Bytes) /\ d \in Seq(Bytes) /\ d # <<>> /\ k \in 1..Len(loc.inq)
  <2>1. loc \in Connection(Bytes) /\ k \in 1..Len(loc.inq)
    BY <1>1, <1>2 DEF PyFacts
  <2> QED
    BY <2>1, ConnectionRead
<1>7. f \in WireFrame /\ f.type = "DATA" /\ f = DataFrame(d)
  <2>1. f = DataFrame(d)
    BY SameOperators
  <2> HIDE DEF d, f
  <2> QED
    BY <1>6, <2>1, FramesTyped
<1> HIDE DEF d, f
<1>8. /\ h1 \in PyTurn /\ h1.st = py /\ h1.sock = loc /\ h1.sent = Append(<<>>, f)
  <2> HIDE DEF h1
  <2>1. LET q == P!Send(g, f)
        IN  /\ q \in PyTurn /\ q.st = g.st /\ q.sock = g.sock
            /\ q.sent = Append(g.sent, f)
    BY <1>5, <1>7, PyParts
  <2> QED
    BY <1>5, <2>1 DEF h1
<1> HIDE DEF h1
<1>9. h2 \in PyTurn /\ h2.st = s /\ h2.sock = loc /\ h2.sent = Append(<<>>, f)
  <2>1. credit \in Int /\ py \in PyType
    BY <1>1, <1>2 DEF PyFacts
  <2>2. h2 = [h1 EXCEPT !.st = s]
    BY <1>8
  <2>3. s \in PyType
    <3> HIDE DEF credit
    <3> QED
      BY <2>1, PyFields
  <2> HIDE DEF s, h2
  <2> QED
    BY <1>8, <2>2, <2>3, PyParts
<1> HIDE DEF h2
<1>10. r \in PyTurn /\ r.st = s /\ r.sock = c /\ r.sent = Append(<<>>, f)
  <2>1. r = [h2 EXCEPT !.sock = c]
    BY <1>9
  <2>2. c \in Connection(Bytes)
    BY <1>6 DEF Kept
  <2> HIDE DEF s, c, r
  <2> QED
    BY <1>9, <2>1, <2>2, PyParts
<1> HIDE DEF r
<1>11. PyCommitted(r, <<>>)
  BY <1>3, <1>4, <1>10, PyTaskTurned
<1>12. /\ s.run = py.run /\ s.toLocal = py.toLocal /\ s.toServer = py.toServer
       /\ s.inbox = py.inbox /\ s.finished = py.finished
       /\ s.headBuf = py.headBuf /\ s.headDone = py.headDone
       /\ s.rewriteHost = py.rewriteHost
  BY <1>1 DEF PyFacts, PyType
<1>13. /\ c.got = loc.got /\ c.out = loc.out /\ c.lost = loc.lost
       /\ c.fin = loc.fin /\ c.inq = left
  <2>1. loc \in Connection(Bytes)
    BY <1>1 DEF PyFacts
  <2> HIDE DEF left
  <2> QED
    BY <2>1 DEF Connection
<1> HIDE DEF s, c
<1>14. ~loc.lost
  <2>1. loc.inq # <<>>
    BY <1>6
  <2> QED
    BY <2>1 DEF Order, LostEmpty
<1>15. "EOF" \notin TypesIn(toServer)
  BY <1>3 DEF IInv, Chan
<1>16. /\ loc'.inq = left /\ srv' = srv /\ pub' = pub /\ serviceSaid' = serviceSaid
       /\ linkUp' = linkUp /\ py'.toServer = "read" /\ loc'.lost = loc.lost
       /\ toServer' = IF linkUp THEN toServer \o r.sent ELSE toServer
       /\ toServer \in Seq(WireFrame)
  BY <1>1, <1>3, <1>10, <1>11, <1>12, <1>13 DEF PyCommitted, sVars, PyFacts
<1>17. r.sent = <<f>>
  BY <1>10
<1>18. Down' /\ "EOF" \notin TypesIn(toServer')
  <2>1. CASE linkUp
    <3>1. toServer' = toServer \o <<DataFrame(d)>>
      BY <1>7, <1>16, <1>17, <2>1
    <3>2. PyTells
      BY <1>3, <1>14, <2>1 DEF PyTells
    <3>3. Down'
      <4> HIDE DEF PyTells
      <4> QED
        BY <1>6, <1>15, <1>16, <3>1, <3>2, DownData DEF Order, d
    <3>4. TypesIn(toServer') = TypesIn(toServer) \cup {"DATA"}
      <4>1. toServer' = toServer \o <<f>>
        BY <1>16, <1>17, <2>1
      <4>2. f.type = "DATA" /\ f \in SomeFrame(Bytes) /\ toServer \in Seq(SomeFrame(Bytes))
        BY <1>7, <1>16 DEF WireFrame
      <4> QED
        BY <4>1, <4>2, SentSeen
    <3> QED
      BY <1>15, <3>3, <3>4
  <2>2. CASE ~linkUp
    <3> DEFINE b == <<>>
    <3>1. b \in Seq(WireFrame) /\ {"DATA", "EOF"} \cap TypesIn(b) = {} /\ toServer' = toServer \o b
      BY <1>16, <2>2, EmptySeen
    <3> HIDE DEF b
    <3>2. ~PyTells'
      BY <1>16, <2>2 DEF PyTells
    <3>3. Down'
      <4> HIDE DEF PyTells
      <4> QED
        BY <1>16, <3>1, <3>2, DownBlank DEF Order
    <3> QED
      BY <1>15, <1>16, <2>2, <3>3
  <2> QED
    BY <2>1, <2>2
<1> HIDE DEF left
<1> QED
  BY <1>10, <1>11, <1>12, <1>13, <1>14, <1>18, PyReadsOrder

\* or the end.
LEMMA ToServerEofOrder ==
  ASSUME IInv, Order, P!ToServerEof, UNCHANGED <<sVars, outsideVars>>
  PROVE  Order'
<1> DEFINE g == P!Turn
           s == [py EXCEPT !.toServer = "over"]
           f == EofFrame
           h1 == P!Send(g, f)
           r == [h1 EXCEPT !.st = [h1.st EXCEPT !.toServer = "over"]]
<1>1. PyFacts
  BY PyKnown
<1>2. /\ py.toServer = "read" /\ UNCHANGED P!local /\ P!Commit(r)
      /\ loc.fin /\ loc.inq = <<>> /\ ~loc.lost
  BY SameOperators DEF P!ToServerEof
<1>3. /\ g \in PyTurn /\ g.st = py /\ g.sock = loc /\ g.sent = <<>>
  BY PyStarts
<1> HIDE DEF g
<1>4. f \in WireFrame /\ f.type = "EOF"
  BY FramesTyped
<1>5. f = EofFrame
  OBVIOUS
<1> HIDE DEF f
<1>6. /\ h1 \in PyTurn /\ h1.st = py /\ h1.sock = loc /\ h1.sent = Append(<<>>, f)
  <2> HIDE DEF h1
  <2>1. LET q == P!Send(g, f)
        IN  /\ q \in PyTurn /\ q.st = g.st /\ q.sock = g.sock
            /\ q.sent = Append(g.sent, f)
    BY <1>3, <1>4, PyParts
  <2> QED
    BY <1>3, <2>1 DEF h1
<1> HIDE DEF h1
<1>7. r \in PyTurn /\ r.st = s /\ r.sock = loc /\ r.sent = Append(<<>>, f)
  <2>1. r = [h1 EXCEPT !.st = s]
    BY <1>6
  <2>2. s \in PyType
    BY <1>1, PyFields DEF PyFacts
  <2> HIDE DEF s, r
  <2> QED
    BY <1>6, <2>1, <2>2, PyParts
<1> HIDE DEF r
<1>8. PyCommitted(r, <<>>)
  BY <1>2, <1>7, PyTaskTurned
<1>9. /\ s.run = py.run /\ s.toLocal = py.toLocal /\ s.toServer = "over"
      /\ s.inbox = py.inbox /\ s.finished = py.finished
      /\ s.headBuf = py.headBuf /\ s.headDone = py.headDone
      /\ s.rewriteHost = py.rewriteHost
  BY <1>1 DEF PyFacts, PyType
<1> HIDE DEF s
<1>10. /\ loc' = loc /\ srv' = srv /\ pub' = pub /\ serviceSaid' = serviceSaid
       /\ linkUp' = linkUp /\ py'.toServer = "over"
       /\ toServer' = IF linkUp THEN toServer \o r.sent ELSE toServer
       /\ toServer \in Seq(WireFrame)
  BY <1>1, <1>7, <1>8, <1>9 DEF PyCommitted, sVars, PyFacts
<1>11. r.sent = <<f>>
  BY <1>7
<1>12. Down'
  <2>1. CASE linkUp
    <3>1. toServer' = toServer \o <<EofFrame>>
      BY <1>5, <1>10, <1>11, <2>1
    <3>2. PyTells
      BY <1>2, <2>1 DEF PyTells
    <3> HIDE DEF PyTells
    <3> QED
      BY <1>2, <1>10, <3>1, <3>2, DownEnded DEF Order
  <2>2. CASE ~linkUp
    <3> DEFINE b == <<>>
    <3>1. b \in Seq(WireFrame) /\ {"DATA", "EOF"} \cap TypesIn(b) = {} /\ toServer' = toServer \o b
      BY <1>10, <2>2, EmptySeen
    <3> HIDE DEF b
    <3>2. ~PyTells'
      BY <1>10, <2>2 DEF PyTells
    <3> HIDE DEF PyTells
    <3> QED
      BY <1>10, <3>1, <3>2, DownBlank DEF Order
  <2> QED
    BY <2>1, <2>2
<1> QED
  BY <1>2, <1>7, <1>8, <1>9, <1>12, PyReadsOrder

\* A pump that acknowledges says nothing else.
LEMMA AcksOnly ==
  ASSUME NEW n \in Nat \ {0}, NEW e, e = <<>> \/ e = Append(<<>>, AckFrame(n))
  PROVE  TypesIn(e) \subseteq {"ACK"}
<1>1. AckFrame(n) \in WireFrame /\ AckFrame(n).type = "ACK"
  BY FramesTyped
<1>2. CASE e = <<>>
  <2>1. TypesIn(e) = {}
    BY <1>2, PySays
  <2> QED
    BY <2>1
<1>3. CASE e = Append(<<>>, AckFrame(n))
  <2>1. TypesIn(e) = {"ACK"}
    BY <1>1, <1>3, PySays
  <2> QED
    BY <2>1
<1> QED
  BY <1>2, <1>3

\* _to_local: the drain() is over.
LEMMA AfterHeadSock ==
  ASSUME NEW h \in PyTurn
  PROVE  LET r == P!AfterDrain(h, "eof", P!HalfClose)
         IN  r.sock = h.sock \/ r.sock = WriteEof(h.sock)
  BY SMTT(60) DEF P!AfterDrain, P!HalfClose, P!WriteEof, WriteEof, PyTurn

LEMMA ToLocalDrainedOrder ==
  ASSUME IInv, Order, P!ToLocalDrained, UNCHANGED <<sVars, outsideVars>>
  PROVE  Order'
<1> DEFINE h == P!Turn
<1>1. PyFacts
  BY PyKnown
<1>2. /\ h \in PyTurn /\ h.st = py /\ h.sock = loc /\ h.sent = <<>>
      /\ SockCalm(loc, loc) /\ loc \in Connection(Bytes)
  BY PyStarts
<1>3. /\ P!Commit(IF py.toLocal = "drain" THEN P!AfterDrain(h, "drain", P!Acknowledge)
                  ELSE P!AfterDrain(h, "eof", P!HalfClose))
      /\ UNCHANGED P!local /\ py.toLocal \in {"drain", "eof"}
  BY DEF P!ToLocalDrained
<1> HIDE DEF h
<1>4. py.run # "none"
  BY <1>3, PumpAtWork
<1>5. {"DATA", "EOF"} \cap TypesIn(<<>>) = {}
  BY EmptySeen
<1>6. CASE py.toLocal = "drain"
  <2> DEFINE r == P!AfterDrain(h, "drain", P!Acknowledge)
  <2>1. P!Commit(r)
    BY <1>3, <1>6
  <2>2. py.owed \in Nat \ {0}
    BY <1>1, <1>6 DEF PyFacts, LifeOfPy
  <2>3. /\ r \in PyTurn /\ r.sock = loc
        /\ \/ r.sent = <<>> /\ r.st = [py EXCEPT !.toLocal = "failed"]
           \/ r.sent = <<>> /\ r.st = [py EXCEPT !.toLocal = "drain"]
           \/ r.sent = Append(<<>>, AckFrame(py.owed))
              /\ r.st = [py EXCEPT !.owed = 0, !.toLocal = "get"]
    BY <1>2, <2>2, PyAfterData
  <2> HIDE DEF r
  <2>4. PyCommitted(r, <<>>)
    BY <1>3, <2>1, <2>3, PyTaskTurned
  <2>5. {"DATA", "EOF"} \cap TypesIn(r.sent) = {}
    <3>1. TypesIn(r.sent) \subseteq {"ACK"}
      BY <2>2, <2>3, AcksOnly
    <3> QED
      BY <3>1
  <2>6. /\ r.st.toServer = py.toServer
        /\ r.st.inbox = py.inbox /\ r.st.finished = py.finished
        /\ r.st.headBuf = py.headBuf /\ r.st.headDone = py.headDone
        /\ r.st.rewriteHost = py.rewriteHost
    <3>1. py \in PyType
      BY <1>1 DEF PyFacts
    <3>2. CASE r.st = [py EXCEPT !.toLocal = "failed"]
      BY <3>1, <3>2 DEF PyType
    <3>3. CASE r.st = [py EXCEPT !.toLocal = "drain"]
      BY <3>1, <3>3 DEF PyType
    <3>4. CASE r.st = [py EXCEPT !.owed = 0, !.toLocal = "get"]
      BY <3>1, <3>4 DEF PyType
    <3> QED
      BY <2>3, <3>2, <3>3, <3>4
  <2>7. SockCalm(r.sock, loc) /\ r.sock.inq = loc.inq
        /\ py.toLocal \in {"off", "get", "drain"}
    BY <1>2, <1>6, <2>3
  <2> QED
    BY <1>4, <1>5, <2>4, <2>5, <2>6, <2>7, PyTaskCalm
<1>7. CASE py.toLocal = "eof"
  <2> DEFINE r == P!AfterDrain(h, "eof", P!HalfClose)
  <2>1. P!Commit(r)
    BY <1>3, <1>7
  <2>2. /\ r \in PyTurn /\ r.sent = <<>>
        /\ \/ r.st = [py EXCEPT !.toLocal = "failed"]
           \/ r.st = [py EXCEPT !.toLocal = "eof"]
           \/ r.st = [py EXCEPT !.toLocal = "over"]
    BY <1>2, PyAfterHead
  <2>3. r.sock = loc \/ r.sock = WriteEof(loc)
    BY <1>2, AfterHeadSock
  <2> HIDE DEF r
  <2>4. PyCommitted(r, <<>>)
    BY <1>3, <2>1, <2>2, PyTaskTurned
  <2>5. {"DATA", "EOF"} \cap TypesIn(r.sent) = {}
    BY <2>2, EmptySeen
  <2>6. /\ r.st.toServer = py.toServer
        /\ r.st.inbox = py.inbox /\ r.st.finished = py.finished
        /\ r.st.headBuf = py.headBuf /\ r.st.headDone = py.headDone
        /\ r.st.rewriteHost = py.rewriteHost
        /\ r.st.toLocal \in {"failed", "eof", "over"}
    BY <1>1, <2>2 DEF PyFacts, PyType
  <2>7. SockCalm(r.sock, loc)
    BY <1>2, <2>3, CalmCalls DEF Order, LostEmpty
  <2>8. r.sock.inq = loc.inq
    <3>1. WriteEof(loc).inq = loc.inq
      BY <1>2 DEF Connection, WriteEof
    <3> QED
      BY <2>3, <3>1
  <2> QED
    BY <1>4, <1>5, <2>4, <2>5, <2>6, <2>7, <2>8, PyTaskCalm
<1> QED
  BY <1>3, <1>6, <1>7
\* The elements of a concatenation.
LEMMA Joined ==
  ASSUME NEW B, NEW a \in Seq(B), NEW d \in Seq(B)
  PROVE  /\ a \o d \in Seq(B)
         /\ Len(a) \in Nat /\ Len(d) \in Nat /\ Len(a \o d) = Len(a) + Len(d)
         /\ DOMAIN a = 1..Len(a) /\ DOMAIN d = 1..Len(d)
         /\ DOMAIN (a \o d) = 1..(Len(a) + Len(d))
         /\ \A i \in 1..Len(a) : (a \o d)[i] = a[i]
         /\ \A i \in 1..Len(d) : (a \o d)[Len(a) + i] = d[i]
  OBVIOUS

\* Behind a head that went out the bytes are the visitor's.
LEMMA SeenOn ==
  ASSUME NEW r, NEW n \in Nat, NEW s \in Seq(Bytes), NEW d \in Seq(Bytes),
         AllSeen(r, s), Len(s) = SeenLen(r, n), Rewriting(r) => HostByte <= n,
         From(d, n)
  PROVE  /\ AllSeen(r, s \o d) /\ Len(s \o d) = SeenLen(r, n + Len(d))
         /\ Rewriting(r) => HostByte <= n + Len(d)
<1> DEFINE m == Len(s)
           k == Len(d)
           x == s \o d
<1>1. /\ m \in Nat /\ k \in Nat /\ Len(x) = m + k
      /\ DOMAIN s = 1..m /\ DOMAIN d = 1..k /\ DOMAIN x = 1..(m + k)
      /\ \A i \in 1..m : x[i] = s[i]
      /\ \A i \in 1..k : x[m + i] = d[i]
  <2>1. /\ m \in Nat /\ k \in Nat /\ DOMAIN s = 1..m /\ DOMAIN d = 1..k
        /\ DOMAIN x = 1..(m + k)
        /\ \A i \in 1..m : x[i] = s[i]
        /\ \A i \in 1..k : x[m + i] = d[i]
    OBVIOUS
  <2>2. Len(x) = m + k
    BY ConcatTyped
  <2> QED
    BY <2>1, <2>2
<1>2. m = SeenLen(r, n)
  OBVIOUS
<1> HIDE DEF m, k, x
<1> DEFINE g == Growth
<1>3. g \in Nat
  BY SeenGrows
<1>4. Rewriting(r) => HostByte \in Nat
  BY PyBridgeAssumption DEF Rewriting
<1>5. /\ ~Rewriting(r) => m = n
      /\ Rewriting(r) => m = n + g /\ HostByte <= n
  BY <1>2 DEF SeenLen
<1>6. ASSUME NEW i \in 1..k PROVE x[m + i] = SeenAt(r, m + i)
  <2>1. x[m + i] = n + i
    BY <1>1, <1>6 DEF From
  <2>2. CASE ~Rewriting(r)
    BY <1>5, <2>1, <2>2 DEF SeenAt
  <2>3. CASE Rewriting(r)
    <3>1. /\ m + i = (n + g) + i /\ (n + g) + i > HostByte + g
          /\ (n + g) + i >= HostByte /\ ((n + g) + i) - g = n + i
      BY <1>1, <1>3, <1>4, <1>5, <2>3
    <3>2. SeenAt(r, m + i) = (m + i) - g
      <4>1. ~(m + i < HostByte) /\ ~(m + i <= HostByte + g)
        BY <1>1, <1>3, <1>4, <2>3, <3>1
      <4> QED
        BY <2>3, <4>1 DEF SeenAt
    <3> QED
      BY <2>1, <3>1, <3>2
  <2> QED
    BY <2>2, <2>3
<1> HIDE DEF g
<1>7. ASSUME NEW i \in 1..(m + k) PROVE x[i] = SeenAt(r, i)
  <2>1. CASE i <= m
    <3>1. i \in 1..m
      BY <1>1, <2>1
    <3> QED
      BY <1>1, <3>1 DEF AllSeen
  <2>2. CASE i > m
    <3> DEFINE j == i - m
    <3>1. j \in 1..k /\ i = m + j
      BY <1>1, <2>2
    <3> HIDE DEF j
    <3> QED
      BY <1>6, <3>1
  <2> QED
    BY <1>1, <2>1, <2>2
<1>8. AllSeen(r, x)
  BY <1>1, <1>7 DEF AllSeen
<1>9. Len(x) = SeenLen(r, n + k)
  <2>1. CASE ~Rewriting(r)
    BY <1>1, <1>5, <2>1 DEF SeenLen
  <2>2. CASE Rewriting(r)
    <3>1. HostByte <= n + k /\ m + k = (n + k) + g
      BY <1>1, <1>3, <1>4, <1>5, <2>2
    <3> QED
      BY <1>1, <2>2, <3>1 DEF SeenLen, g
  <2> QED
    BY <2>1, <2>2
<1>10. Rewriting(r) => HostByte <= n + k
  BY <1>1, <1>4, <1>5
<1> QED
  BY <1>8, <1>9, <1>10 DEF x, k

\* A head goes out as the service is to read it.
LEMMA HeadSeen ==
  ASSUME NEW head \in Seq(Bytes), From(head, 0), Len(head) <= UpBytes
  PROVE  LET out == P!RewriteHostHeader(head)
         IN  AllSeen(TRUE, out) /\ Len(out) = SeenLen(TRUE, Len(head))
<1> DEFINE n == Len(head)
           out == P!RewriteHostHeader(head)
           m == Len(TargetBytes)
<1> SUFFICES AllSeen(TRUE, out) /\ Len(out) = SeenLen(TRUE, n)
  OBVIOUS
<1>1. n \in Nat /\ DOMAIN head = 1..n /\ \A i \in 1..n : head[i] = i
  <2>1. n \in Nat /\ DOMAIN head = 1..n
    OBVIOUS
  <2> HIDE DEF n
  <2>2. ASSUME NEW i \in 1..n PROVE head[i] = i
    <3>1. head[i] = 0 + i
      BY <2>1 DEF From
    <3> QED
      BY <2>1, <3>1
  <2> QED
    BY <2>1, <2>2
<1>2. m \in Nat \ {0} /\ TargetBytes \in Seq(Bytes) /\ UpBytes \in Nat /\ n <= UpBytes
  <2>1. TargetBytes \in Seq(Nat) /\ TargetBytes # <<>>
    BY PyBridgeAssumption
  <2>2. /\ m \in Nat \ {0} /\ DOMAIN TargetBytes = 1..m
        /\ TargetBytes = [i \in 1..m |-> TargetBytes[i]]
    BY <2>1
  <2>3. \A i \in 1..m : TargetBytes[i] \in Bytes
    BY <2>2 DEF Bytes, ToSet
  <2>4. TargetBytes \in Seq(Bytes)
    <3> HIDE DEF m
    <3> QED
      BY <2>2, <2>3
  <2>5. UpBytes \in Nat /\ n <= UpBytes
    BY PyBridgeAssumption
  <2> QED
    BY <2>2, <2>4, <2>5
<1> DEFINE at == P!SelectInSeq(head, LAMBDA b : b = HostByte)
           I == {j \in 1..n : head[j] = HostByte}
<1>3. /\ at = IF I # {} THEN CHOOSE j \in I : \A k \in I : j <= k ELSE 0
      /\ out = IF at = 0 THEN head
               ELSE SubSeq(head, 1, at - 1) \o TargetBytes \o SubSeq(head, at + 1, n)
  <2>1. at = IF I # {} THEN CHOOSE j \in I : \A k \in I : j <= k ELSE 0
    BY DEF P!SelectInSeq, P!Min
  <2>2. out = IF at = 0 THEN head
              ELSE SubSeq(head, 1, at - 1) \o TargetBytes \o SubSeq(head, at + 1, n)
    BY DEF P!RewriteHostHeader
  <2> QED
    BY <2>1, <2>2
<1> HIDE DEF at
<1>4. CASE HostByte \notin 1..n
  <2>1. out = head
    <3>1. I = {}
      BY <1>1, <1>4
    <3> HIDE DEF I, out
    <3> QED
      BY <1>3, <3>1
  <2> HIDE DEF n, out
  <2>2. Rewriting(TRUE) => HostByte > n /\ HostByte \in Nat
    BY <1>1, <1>2, <1>4 DEF Rewriting
  <2>3. ASSUME NEW i \in 1..n PROVE head[i] = SeenAt(TRUE, i)
    <3>1. ASSUME Rewriting(TRUE) PROVE i < HostByte
      BY <1>1, <2>2, <3>1
    <3> QED
      BY <1>1, <3>1 DEF SeenAt
  <2>4. SeenLen(TRUE, n) = n
    <3>1. ASSUME Rewriting(TRUE) PROVE ~(HostByte <= n)
      BY <1>1, <2>2, <3>1
    <3> QED
      BY <3>1 DEF SeenLen
  <2>5. Len(head) = n
    BY DEF n
  <2> QED
    BY <1>1, <2>1, <2>3, <2>4, <2>5 DEF AllSeen
<1>5. CASE HostByte \in 1..n
  <2> DEFINE i == CHOOSE j \in I : \A k \in I : j <= k
  <2>1. I = {HostByte} /\ I # {} /\ I \in SUBSET Nat
    BY <1>1, <1>5
  <2>2. i \in I
    BY <2>1, LeastNumber
  <2>3. i = HostByte
    BY <2>1, <2>2
  <2>4. out = SubSeq(head, 1, i - 1) \o TargetBytes \o SubSeq(head, i + 1, n)
    <3>1. at = i
      <4> HIDE DEF I, out
      <4> QED
        BY <1>3, <2>1
    <3>2. i # 0
      BY <1>1, <1>5, <2>3
    <3> HIDE DEF I, i, out
    <3> QED
      BY <1>3, <3>1, <3>2
  <2> DEFINE k == HostByte
             before == SubSeq(head, 1, k - 1)
             after == SubSeq(head, k + 1, n)
             start == before \o TargetBytes
  <2>5. out = start \o after
    BY <2>3, <2>4
  <2> HIDE DEF i, I, out, n
  <2>6. k \in 1..n /\ k \in Nat
    BY <1>5
  <2> HIDE DEF k
  <2>7. /\ before \in Seq(Bytes) /\ Len(before) = k - 1
        /\ \A j \in 1..(k - 1) : before[j] = head[j]
    <3>1. \A j \in 1..(k - 1) : j \in 1..Len(head)
      BY <1>1, <2>6 DEF n
    <3>2. k - 1 \in 0..Len(head) /\ k - 1 \in Int /\ 1 \in Int
      BY <1>1, <2>6 DEF n
    <3> DEFINE e == k - 1
    <3> HIDE DEF e
    <3>3. e \in Int /\ e <= Len(head) /\ e >= 0 /\ \A j \in 1..e : j \in 1..Len(head)
      BY <1>1, <3>1, <3>2 DEF e, n
    <3>4. /\ SubSeq(head, 1, e) \in Seq(Bytes) /\ Len(SubSeq(head, 1, e)) = e
          /\ \A j \in 1..e : SubSeq(head, 1, e)[j] = head[j]
      BY <3>3
    <3> QED
      BY <3>4 DEF e
  <2>8. /\ after \in Seq(Bytes) /\ Len(after) = n - k
        /\ \A j \in 1..(n - k) : after[j] = head[k + j]
    <3>1. k + 1 \in 1..(Len(head) + 1)
      BY <1>1, <2>6 DEF n
    <3> DEFINE e == k + 1
    <3>2. e \in 1..(Len(head) + 1) /\ e = k + 1
      BY <3>1
    <3> HIDE DEF e
    <3>3. /\ SubSeq(head, e, Len(head)) \in Seq(Bytes)
          /\ Len(SubSeq(head, e, Len(head))) = Len(head) - (e - 1)
      BY <3>2, SubSeqTyped
    <3>4. \A j \in 1..(Len(head) - (e - 1)) : SubSeq(head, e, Len(head))[j] = head[e + j - 1]
      BY <3>2, SubSeqProperties
    <3>5. Len(head) = n /\ n - k = n - (e - 1) /\ \A j \in 1..(n - k) : e + j - 1 = k + j
      BY <1>1, <2>6, <3>2 DEF n
    <3> QED
      BY <3>2, <3>3, <3>4, <3>5
  <2>9. k - 1 \in Nat /\ n - k \in Nat
    BY <1>1, <2>6
  <2> HIDE DEF before, after
  <2>10. /\ start \in Seq(Bytes) /\ Len(start) = (k - 1) + m
         /\ \A j \in 1..(k - 1) : start[j] = before[j]
         /\ \A j \in 1..m : start[(k - 1) + j] = TargetBytes[j]
    <3> DEFINE T == TargetBytes
    <3>1. T \in Seq(Bytes) /\ Len(T) = m
      BY <1>2
    <3> HIDE DEF T
    <3> DEFINE c == before \o T
    <3>2. /\ c \in Seq(Bytes) /\ Len(c) = Len(before) + Len(T)
          /\ \A j \in 1..Len(before) : c[j] = before[j]
          /\ \A j \in 1..Len(T) : c[Len(before) + j] = T[j]
      <4>1. before \in Seq(Bytes) /\ T \in Seq(Bytes)
        BY <2>7, <3>1
      <4> QED
        BY ONLY <4>1, Joined
    <3> HIDE DEF c, m
    <3>3. /\ c \in Seq(Bytes) /\ Len(c) = (k - 1) + m
          /\ \A j \in 1..(k - 1) : c[j] = before[j]
          /\ \A j \in 1..m : c[(k - 1) + j] = T[j]
      BY <2>7, <3>1, <3>2
    <3> QED
      BY <3>3 DEF c, T
  <2> HIDE DEF start, m
  <2> DEFINE p == (k - 1) + m
  <2>11. /\ Len(start \o after) = p + (n - k)
         /\ DOMAIN (start \o after) = 1..(p + (n - k))
         /\ \A j \in 1..p : (start \o after)[j] = start[j]
         /\ \A j \in 1..(n - k) : (start \o after)[p + j] = after[j]
    <3> DEFINE c == start \o after
    <3>1. /\ Len(c) = Len(start) + Len(after)
          /\ DOMAIN c = 1..(Len(start) + Len(after))
          /\ \A j \in 1..Len(start) : c[j] = start[j]
          /\ \A j \in 1..Len(after) : c[Len(start) + j] = after[j]
      <4>1. start \in Seq(Bytes) /\ after \in Seq(Bytes)
        BY <2>8, <2>10
      <4> QED
        BY ONLY <4>1
    <3> HIDE DEF c
    <3>2. Len(start) = p /\ Len(after) = n - k
      BY <2>8, <2>10
    <3> HIDE DEF p
    <3> QED
      BY <3>1, <3>2 DEF c
  <2>12. p \in Nat /\ p = k + (m - 1)
    BY <1>2, <2>6, <2>9
  <2>13. Rewriting(TRUE) /\ Growth = m - 1
    BY <1>1, <1>2, <2>6 DEF Rewriting, Growth, m, k
  <2> HIDE DEF p
  <2>14. ASSUME NEW j \in 1..(p + (n - k)) PROVE (start \o after)[j] = SeenAt(TRUE, j)
    <3>1. CASE j < k
      <4>1. j \in 1..(k - 1) /\ j \in 1..p /\ j \in 1..n
        BY <1>1, <1>2, <2>6, <2>12, <3>1
      <4>2. (start \o after)[j] = j
        BY <1>1, <2>7, <2>10, <2>11, <4>1
      <4> QED
        BY <3>1, <4>2 DEF SeenAt, k
    <3>2. CASE j >= k /\ j <= p
      <4> DEFINE l == j - (k - 1)
      <4>1. l \in 1..m /\ j = (k - 1) + l /\ j \in 1..p /\ l = j - k + 1
        BY <1>2, <2>6, <2>12, <3>2
      <4> HIDE DEF l
      <4>2. (start \o after)[j] = TargetBytes[j - k + 1]
        BY <2>10, <2>11, <4>1
      <4>3. ~(j < k) /\ j <= k + (m - 1)
        BY <1>2, <2>6, <2>12, <3>2
      <4> QED
        BY <2>13, <4>2, <4>3 DEF SeenAt, k
    <3>3. CASE j > p
      <4> DEFINE l == j - p
      <4>1. l \in 1..(n - k) /\ j = p + l /\ k + l \in 1..n /\ k + l = j - (m - 1)
        BY <1>1, <1>2, <2>6, <2>9, <2>12, <3>3
      <4> HIDE DEF l
      <4>2. (start \o after)[j] = j - (m - 1)
        BY <1>1, <2>8, <2>11, <4>1
      <4>3. ~(j < k) /\ ~(j <= k + (m - 1))
        BY <1>2, <2>6, <2>12, <3>3
      <4> QED
        BY <2>13, <4>2, <4>3 DEF SeenAt, k
    <3>4. j < k \/ (j >= k /\ j <= p) \/ j > p
      <4>1. j \in Int /\ k \in Int /\ p \in Int
        BY <2>6, <2>9, <2>12
      <4> QED
        BY <4>1
    <3> QED
      BY <3>1, <3>2, <3>3, <3>4
  <2>15. p + (n - k) = n + (m - 1) /\ k <= n
    BY <1>1, <1>2, <2>6, <2>12
  <2>16. SeenLen(TRUE, n) = n + (m - 1)
    BY <2>13, <2>15 DEF SeenLen, k
  <2> QED
    BY <2>5, <2>11, <2>14, <2>15, <2>16 DEF AllSeen
<1> QED
  BY <1>4, <1>5

\* A complete head has the Host header's value.
LEMMA HeadHasHost ==
  ASSUME HostInHead, NEW head \in Seq(Bytes), From(head, 0), P!HeadComplete(head),
         Rewriting(TRUE)
  PROVE  HostByte <= Len(head)
<1>1. /\ HostByte \in Nat /\ MaxHead \in Nat /\ Len(head) \in Nat
      /\ HostByte <= HeadEnd /\ HostByte <= MaxHead
  BY PyBridgeAssumption DEF HostInHead, Rewriting
<1>2. CASE Len(head) >= MaxHead
  BY <1>1, <1>2
<1>3. CASE HeadEnd \in P!ToSet(head)
  <2>1. PICK i \in 1..Len(head) : head[i] = HeadEnd
    BY <1>3 DEF P!ToSet
  <2>2. HeadEnd = 0 + i
    BY <2>1 DEF From
  <2> QED
    BY <1>1, <2>2
<1> QED
  BY <1>2, <1>3 DEF P!HeadComplete

-----------------------------------------------------------------------------
\* What _to_local does with an item.

\* A write to the local service, and the end of writing.
LEMMA WroteSeen ==
  ASSUME NEW c \in Connection(Bytes), NEW b \in Seq(Bytes), NEW w, w = WriteTo(c, b)
  PROVE  /\ w \in Connection(Bytes) /\ w.inq = c.inq /\ w.fin = c.fin
         /\ w.lost = c.lost /\ w.eof = c.eof
         /\ c.lost => w = c
         /\ ~c.lost => ReadBy(w) = ReadBy(c) \o b
<1>1. w \in Connection(Bytes)
  BY ConnectionSteps DEF Kept
<1>2. CASE c.lost
  BY <1>1, <1>2 DEF WriteTo
<1>3. CASE ~c.lost
  <2> DEFINE out == c.out \o b
             tight == c.paused \/ Len(out) > HighMark
  <2>1. w = [c EXCEPT !.out = out, !.paused = tight]
    BY <1>3 DEF WriteTo
  <2> HIDE DEF out, tight
  <2>2. /\ w.inq = c.inq /\ w.fin = c.fin /\ w.lost = c.lost /\ w.eof = c.eof
        /\ w.got = c.got /\ w.out = out
    BY <2>1 DEF Connection
  <2>3. c.got \in Seq(Bytes) /\ c.out \in Seq(Bytes)
    BY DEF Connection
  <2>4. ReadBy(w) = ReadBy(c) \o b
    <3> DEFINE g == c.got
               o == c.out
    <3>1. (g \o o) \o b = g \o (o \o b)
      <4>1. g \in Seq(Bytes) /\ o \in Seq(Bytes)
        BY <2>3
      <4> HIDE DEF g, o
      <4> QED
        BY <4>1, Assoc
    <3> QED
      BY <2>2, <3>1 DEF ReadBy, out
  <2> QED
    BY <1>1, <1>3, <2>2, <2>4
<1> QED
  BY <1>2, <1>3

LEMMA EofSeen ==
  ASSUME NEW c \in Connection(Bytes), NEW w, w = WriteEof(c)
  PROVE  /\ w \in Connection(Bytes) /\ w.inq = c.inq /\ w.fin = c.fin
         /\ w.lost = c.lost /\ w.out = c.out /\ w.got = c.got /\ ReadBy(w) = ReadBy(c)
<1>1. w \in Connection(Bytes)
  BY ConnectionSteps DEF Kept
<1>2. /\ w.inq = c.inq /\ w.fin = c.fin
      /\ w.lost = c.lost /\ w.out = c.out /\ w.got = c.got
  BY DEF WriteEof, Connection
<1> QED
  BY <1>1, <1>2 DEF ReadBy

\* The drain() that follows touches neither the connection nor the head,
LEMMA DrainKeeps ==
  ASSUME NEW h \in PyTurn, h.st.owed # 0
  PROVE  LET r == P!AfterDrain(h, "drain", P!Acknowledge)
         IN  /\ r.sock = h.sock /\ r.st.headDone = h.st.headDone
             /\ r.st.headBuf = h.st.headBuf
<1> DEFINE r == P!AfterDrain(h, "drain", P!Acknowledge)
<1>1. /\ r.sock = h.sock
      /\ \/ r.st = [h.st EXCEPT !.toLocal = "failed"]
         \/ r.st = [h.st EXCEPT !.toLocal = "drain"]
         \/ r.st = [h.st EXCEPT !.owed = 0, !.toLocal = "get"]
  BY PyAfterData
<1>2. h.st \in PyType
  BY PyParts
<1> HIDE DEF r
<1>3. /\ r.sock = h.sock /\ r.st.headDone = h.st.headDone
      /\ r.st.headBuf = h.st.headBuf
  BY <1>1, <1>2 DEF PyType
<1> QED
  BY <1>3 DEF r

\* and the head that goes out is written to it.
LEMMA ReleasedSock ==
  ASSUME NEW h \in PyTurn, NEW head \in Seq(Bytes)
  PROVE  P!ReleaseHead(h, head).sock = WriteTo(h.sock, P!RewriteHostHeader(head))
<1> DEFINE h1 == [h EXCEPT !.st = [h.st EXCEPT !.headBuf = <<>>]]
           h2 == [h1 EXCEPT !.st = [h1.st EXCEPT !.headDone = TRUE]]
           c == P!WriteTo(h2.sock, P!RewriteHostHeader(head))
           h3 == [h2 EXCEPT !.sock = c]
<1>1. P!ReleaseHead(h, head) = h3
  BY DEF P!ReleaseHead
<1>2. h.st \in PyType /\ h.sock \in Connection(Bytes) /\ <<>> \in Seq(Bytes)
  BY PyParts
<1>3. /\ h1 \in PyTurn /\ h1.st = [h.st EXCEPT !.headBuf = <<>>]
      /\ h1.sock = h.sock /\ h1.sent = h.sent
  <2> DEFINE s == [h.st EXCEPT !.headBuf = <<>>]
  <2>1. s \in PyType
    BY <1>2, PyFields
  <2> HIDE DEF s
  <2> QED
    BY <2>1, PyParts DEF s
<1> HIDE DEF h1
<1>4. h2 \in PyTurn /\ h2.sock = h.sock
  BY <1>3, PyParts, PyFields
<1> HIDE DEF h2
<1>5. c = WriteTo(h.sock, P!RewriteHostHeader(head)) /\ c \in Connection(Bytes)
  <2> DEFINE b == P!RewriteHostHeader(head)
  <2>1. b \in Seq(Bytes)
    BY Rewritten
  <2>2. c = WriteTo(h.sock, b)
    BY <1>4, SameConnection
  <2>3. WriteTo(h.sock, b) \in Connection(Bytes)
    <3> HIDE DEF b
    <3> QED
      BY <1>2, <2>1, ConnectionSteps DEF Kept
  <2> QED
    BY <2>2, <2>3
<1> HIDE DEF c
<1>6. h3.sock = c
  BY <1>4, <1>5, PyParts
<1> HIDE DEF h3
<1> QED
  BY <1>1, <1>5, <1>6

\* Data.
LEMMA OnItemDoes ==
  ASSUME NEW h \in PyTurn, NEW d \in Seq(Bytes), d # <<>>
  PROVE  LET r    == P!OnItem(h, d)
             head == h.st.headBuf \o d
         IN  /\ h.st.headDone => /\ r.sock = WriteTo(h.sock, d)
                                 /\ r.st.headDone /\ r.st.headBuf = h.st.headBuf
             /\ ~h.st.headDone /\ P!HeadComplete(head) =>
                   /\ r.sock = WriteTo(h.sock, P!RewriteHostHeader(head))
                   /\ r.st.headDone /\ r.st.headBuf = <<>>
             /\ ~h.st.headDone /\ ~P!HeadComplete(head) =>
                   /\ r.sock = h.sock
                   /\ ~r.st.headDone /\ r.st.headBuf = head
<1> DEFINE head == h.st.headBuf \o d
           got == [h EXCEPT !.st = [h.st EXCEPT !.owed = Len(d)]]
           n == Len(d)
           w == [got EXCEPT !.sock = P!WriteTo(got.sock, d)]
           wrote == P!AfterDrain(w, "drain", P!Acknowledge)
           g == P!ReleaseHead(got, head)
           released == P!AfterDrain(g, "drain", P!Acknowledge)
           k == [got EXCEPT !.st = [got.st EXCEPT !.headBuf = head]]
           held == P!Acknowledge(k)
           r == P!OnItem(h, d)
<1>1. r = IF h.st.headDone THEN wrote
          ELSE IF P!HeadComplete(head) THEN released ELSE held
  BY DEF P!OnItem, P!HoldBack
<1>2. /\ h.st \in PyType /\ h.sock \in Connection(Bytes)
      /\ h.st.headBuf \in Seq(Bytes) /\ head \in Seq(Bytes)
      /\ n \in Nat /\ n # 0
  BY PyParts, ConcatTyped DEF PyType
<1> HIDE DEF n
<1>3. /\ got \in PyTurn /\ got.st = [h.st EXCEPT !.owed = n]
      /\ got.sock = h.sock /\ got.sent = h.sent
  <2> DEFINE s == [h.st EXCEPT !.owed = n]
  <2>1. s \in PyType
    BY <1>2, PyFields
  <2> HIDE DEF s
  <2> QED
    BY <2>1, PyParts DEF n, s
<1> HIDE DEF got, head, r
<1>4. /\ got.st \in PyType /\ got.st.owed = n /\ got.st.headDone = h.st.headDone
      /\ got.st.headBuf = h.st.headBuf
  <2>1. got.st \in PyType
    BY <1>3, PyParts
  <2>2. /\ got.st.owed = n /\ got.st.headDone = h.st.headDone
        /\ got.st.headBuf = h.st.headBuf
    BY <1>2, <1>3 DEF PyType
  <2> QED
    BY <2>1, <2>2
<1>5. /\ wrote.sock = WriteTo(h.sock, d)
      /\ wrote.st.headDone = h.st.headDone /\ wrote.st.headBuf = h.st.headBuf
  <2> DEFINE c == P!WriteTo(got.sock, d)
  <2>1. c = WriteTo(h.sock, d) /\ c \in Connection(Bytes)
    <3>1. c = WriteTo(h.sock, d)
      BY <1>3, SameConnection
    <3>2. WriteTo(h.sock, d) \in Connection(Bytes)
      BY <1>2, ConnectionSteps DEF Kept
    <3> HIDE DEF c
    <3> QED
      BY <3>1, <3>2
  <2> HIDE DEF c
  <2>2. w \in PyTurn /\ w.st = got.st /\ w.sock = c
    BY <1>3, <2>1, PyParts DEF c
  <2> HIDE DEF w
  <2>3. wrote.sock = w.sock /\ wrote.st.headDone = w.st.headDone
        /\ wrote.st.headBuf = w.st.headBuf
    BY <1>2, <1>4, <2>2, DrainKeeps
  <2> HIDE DEF wrote
  <2> QED
    BY <1>4, <2>1, <2>2, <2>3
<1>6. /\ released.sock = WriteTo(h.sock, P!RewriteHostHeader(head))
      /\ released.st.headDone /\ released.st.headBuf = <<>>
  <2>1. /\ g \in PyTurn
        /\ g.st = [got.st EXCEPT !.headBuf = <<>>, !.headDone = TRUE]
    BY <1>2, <1>3, PyReleaseHead
  <2>2. g.sock = WriteTo(h.sock, P!RewriteHostHeader(head))
    BY <1>2, <1>3, ReleasedSock
  <2> HIDE DEF g
  <2>3. g.st.owed = n /\ g.st.headDone /\ g.st.headBuf = <<>>
    BY <1>4, <2>1 DEF PyType
  <2>4. /\ released.sock = g.sock /\ released.st.headDone = g.st.headDone
        /\ released.st.headBuf = g.st.headBuf
    BY <1>2, <2>1, <2>3, DrainKeeps
  <2> HIDE DEF released
  <2> QED
    BY <2>2, <2>3, <2>4
<1>7. /\ held.sock = h.sock
      /\ held.st.headDone = h.st.headDone /\ held.st.headBuf = head
  <2>1. /\ k \in PyTurn /\ k.st = [got.st EXCEPT !.headBuf = head]
        /\ k.sock = h.sock
    <3> DEFINE s == [got.st EXCEPT !.headBuf = head]
    <3>1. s \in PyType
      BY <1>2, <1>4, PyFields
    <3> HIDE DEF s
    <3>2. k \in PyTurn /\ k.st = s /\ k.sock = got.sock
      BY <1>3, <3>1, PyParts DEF s
    <3> QED
      BY <1>3, <3>2 DEF s
  <2> HIDE DEF k
  <2>2. k.st \in PyType /\ k.st.owed = n /\ k.st.headDone = h.st.headDone
        /\ k.st.headBuf = head
    <3>1. k.st \in PyType
      BY <2>1, PyParts
    <3>2. k.st.owed = n /\ k.st.headDone = h.st.headDone /\ k.st.headBuf = head
      BY <1>4, <2>1 DEF PyType
    <3> QED
      BY <3>1, <3>2
  <2>3. /\ held.sock = k.sock
        /\ held.st = [k.st EXCEPT !.owed = 0, !.toLocal = "get"]
    BY <1>2, <2>1, <2>2, PyAcknowledge
  <2> HIDE DEF held
  <2>4. held.st.headDone = k.st.headDone /\ held.st.headBuf = k.st.headBuf
    BY <2>2, <2>3 DEF PyType
  <2> QED
    BY <2>1, <2>2, <2>3, <2>4
<1> HIDE DEF wrote, released, held
<1>8. /\ h.st.headDone => /\ r.sock = WriteTo(h.sock, d)
                          /\ r.st.headDone /\ r.st.headBuf = h.st.headBuf
      /\ ~h.st.headDone /\ P!HeadComplete(head) =>
            /\ r.sock = WriteTo(h.sock, P!RewriteHostHeader(head))
            /\ r.st.headDone /\ r.st.headBuf = <<>>
      /\ ~h.st.headDone /\ ~P!HeadComplete(head) =>
            /\ r.sock = h.sock
            /\ ~r.st.headDone /\ r.st.headBuf = head
  BY <1>1, <1>5, <1>6, <1>7
<1> QED
  BY <1>8 DEF r, head

\* The end of stream.
LEMMA OnEofItemDoes ==
  ASSUME NEW h \in PyTurn
  PROVE  LET r == P!OnEofItem(h)
             w == WriteTo(h.sock, P!RewriteHostHeader(h.st.headBuf))
         IN  /\ h.st.headBuf = <<>> => /\ r.sock = WriteEof(h.sock)
                                       /\ r.st.headDone = h.st.headDone
                                       /\ r.st.headBuf = <<>>
             /\ h.st.headBuf # <<>> => /\ r.sock = w \/ r.sock = WriteEof(w)
                                       /\ r.st.headDone /\ r.st.headBuf = <<>>
<1> DEFINE w == WriteTo(h.sock, P!RewriteHostHeader(h.st.headBuf))
           g == P!ReleaseHead(h, h.st.headBuf)
           late == P!AfterDrain(g, "eof", P!HalfClose)
           now == P!HalfClose(h)
           r == P!OnEofItem(h)
<1>1. r = IF h.st.headBuf = <<>> THEN now ELSE late
  BY DEF P!OnEofItem
<1>2. h.st \in PyType /\ h.st.headBuf \in Seq(Bytes) /\ h.sock \in Connection(Bytes)
  BY PyParts DEF PyType
<1> HIDE DEF r
<1>3. /\ now.sock = WriteEof(h.sock) /\ now.st.headDone = h.st.headDone
      /\ now.st.headBuf = h.st.headBuf
  <2>1. now.st = [h.st EXCEPT !.toLocal = "over"]
    BY PyHalfClose
  <2>2. now.sock = WriteEof(h.sock)
    BY SMTT(60) DEF P!HalfClose, P!WriteEof, WriteEof, PyTurn
  <2> HIDE DEF now
  <2> QED
    BY <1>2, <2>1, <2>2 DEF PyType
<1>4. /\ late.sock = w \/ late.sock = WriteEof(w)
      /\ late.st.headDone /\ late.st.headBuf = <<>>
  <2>1. /\ g \in PyTurn
        /\ g.st = [h.st EXCEPT !.headBuf = <<>>, !.headDone = TRUE]
    BY <1>2, PyReleaseHead
  <2>2. g.sock = w
    BY <1>2, ReleasedSock
  <2> HIDE DEF g, w
  <2>3. g.st \in PyType /\ g.st.headDone /\ g.st.headBuf = <<>>
    <3>1. g.st \in PyType
      BY <2>1, PyParts
    <3>2. g.st.headDone /\ g.st.headBuf = <<>>
      BY <1>2, <2>1 DEF PyType
    <3> QED
      BY <3>1, <3>2
  <2>4. \/ late.st = [g.st EXCEPT !.toLocal = "failed"]
        \/ late.st = [g.st EXCEPT !.toLocal = "eof"]
        \/ late.st = [g.st EXCEPT !.toLocal = "over"]
    BY <2>1, PyAfterHead
  <2>5. late.sock = g.sock \/ late.sock = WriteEof(g.sock)
    BY <2>1, AfterHeadSock
  <2> HIDE DEF late
  <2> QED
    BY <2>2, <2>3, <2>4, <2>5 DEF PyType
<1> HIDE DEF now, late, w
<1>5. /\ h.st.headBuf = <<>> => /\ r.sock = WriteEof(h.sock)
                                /\ r.st.headDone = h.st.headDone
                                /\ r.st.headBuf = <<>>
      /\ h.st.headBuf # <<>> => /\ r.sock = w \/ r.sock = WriteEof(w)
                                /\ r.st.headDone /\ r.st.headBuf = <<>>
  BY <1>1, <1>3, <1>4
<1> QED
  BY <1>5 DEF r, w

\* What is still owed once an item with data has been taken,
LEMMA OwedEaten ==
  ASSUME IInv, NEW n \in Nat, Owed(n), NEW f \in WireFrame, f.type = "DATA",
         NEW rest \in Seq(WireFrame), py.inbox = <<f>> \o rest,
         py'.inbox = rest, py'.finished = py.finished, toAgent' = toAgent,
         srv' = srv, pub' = pub, linkUp' = linkUp, visitorSaid' = visitorSaid
  PROVE  /\ From(f.data, n) /\ n + Len(f.data) <= visitorSaid
         /\ Owed(n + Len(f.data))'
<1> DEFINE W == WireFrame
           x == <<f>>
           m == toAgent
           u == SrvTells /\ ~py.finished
           c == Coming'
           inq == pub.inq
           said == visitorSaid
<1>1. /\ m \in Seq(W) /\ x \in Seq(W) /\ rest \in Seq(W)
      /\ inq \in Seq(Bytes) /\ said \in Nat
  BY Places
<1>2. c = IF py.finished THEN rest ELSE rest \o m
  BY DEF Coming
<1>3. Coming = IF py.finished THEN x \o rest ELSE (x \o rest) \o m
  BY DEF Coming
<1>4. (SrvTells /\ ~py.finished)' = u /\ pub'.inq = inq
  BY DEF SrvTells
<1>5. Road(Coming, inq, n, said, u)
  BY DEF Owed
<1> HIDE DEF W, x, m, u, c, inq, said
<1>6. c \in Seq(W) /\ Coming = x \o c
  <2>1. rest \o m \in Seq(W) /\ (x \o rest) \o m = x \o (rest \o m)
    BY <1>1, Concats
  <2> QED
    BY <1>1, <1>2, <1>3, <2>1
<1>7. Road(x \o c, inq, n, said, u)
  BY <1>5, <1>6
<1>8. /\ From(f.data, n) /\ n + Len(f.data) <= said
      /\ Road(c, inq, n + Len(f.data), said, u)
  BY <1>1, <1>6, <1>7, RoadTaken DEF x, W
<1>9. Owed(n + Len(f.data))'
  <2> DEFINE k == n + Len(f.data)
  <2>1. Road(c, inq, k, said, u)
    BY <1>8
  <2> HIDE DEF k
  <2>2. Owed(k)' <=> Road(Coming', pub'.inq, k, visitorSaid', (SrvTells /\ ~py.finished)')
    BY DEF Owed
  <2>3. Owed(k)'
    BY <1>4, <2>1, <2>2 DEF c, said
  <2> QED
    BY <2>3 DEF k
<1> QED
  BY <1>8, <1>9 DEF said

\* and that nothing is once it was the end of stream.
LEMMA EndReached ==
  ASSUME IInv, Order, NEW n \in Nat, Owed(n), NEW f \in WireFrame, f.type = "EOF",
         NEW rest \in Seq(WireFrame), py.inbox = <<f>> \o rest
  PROVE  n = visitorSaid /\ srv.sentEof
<1>1. /\ Coming \in Seq(WireFrame) /\ py.inbox \in Seq(WireFrame)
      /\ toAgent \in Seq(WireFrame) /\ visitorSaid \in Nat
      /\ <<f>> \in Seq(WireFrame)
      /\ py.finished => Coming = py.inbox
      /\ ~py.finished => TypesIn(Coming) = TypesIn(py.inbox) \cup TypesIn(toAgent)
  <2>1. <<f>> \in Seq(WireFrame)
    OBVIOUS
  <2> QED
    BY <2>1, Places, ComingTyped
<1>2. TypesIn(<<f>>) = {"EOF"} /\ TypesIn(py.inbox) = {"EOF"} \cup TypesIn(rest)
  <2>1. TypesIn(<<f>>) = {"EOF"}
    BY OneSeen DEF WireFrame
  <2>2. TypesIn(<<f>> \o rest) = TypesIn(<<f>>) \cup TypesIn(rest)
    <3> DEFINE x == <<f>>
    <3>1. x \in Seq(SomeFrame(Bytes)) /\ rest \in Seq(SomeFrame(Bytes))
      BY <1>1 DEF WireFrame
    <3> HIDE DEF x
    <3>2. TypesIn(x \o rest) = TypesIn(x) \cup TypesIn(rest)
      BY <3>1, ConcatSeen
    <3> QED
      BY <3>2 DEF x
  <2> QED
    BY <2>1, <2>2
<1>3. "DATA" \notin TypesIn(rest)
  BY <1>1, <1>2, ShortenedFirst DEF Order, Ends
<1>4. srv.sentEof /\ (py.finished \/ "DATA" \notin TypesIn(toAgent))
  BY <1>2 DEF Order, Ends
<1>5. "EOF" \in TypesIn(Coming) /\ "DATA" \notin TypesIn(Coming)
  BY <1>1, <1>2, <1>3, <1>4
<1> QED
  BY <1>1, <1>4, <1>5, RoadOver DEF Owed

\* A turn that takes an item.
PyTakes(r) ==
    /\ PyCommitted(r, <<>>)
    /\ r.st.inbox = Tail(py.inbox) /\ r.st.finished = py.finished
    /\ r.st.toServer = py.toServer /\ r.st.rewriteHost = py.rewriteHost
    /\ {"DATA", "EOF"} \cap TypesIn(r.sent) = {}
    /\ r.sock.inq = loc.inq /\ r.sock.fin = loc.fin /\ r.sock.lost = loc.lost

LEMMA PyItemOrder ==
  ASSUME IInv, Order, NEW r, PyTakes(r), py.inbox # <<>>,
         ~r.st.headDone => r.st.rewriteHost,
         r.st.headDone => r.st.headBuf = <<>>,
         loc.lost => r.sock.out = loc.out /\ r.sock.got = loc.got,
         ~loc.lost => /\ AllSeen(py.rewriteHost, ReadBy(r.sock))
                      /\ Len(ReadBy(r.sock)) <= SeenLen(py.rewriteHost, visitorSaid),
         r.st.toLocal \in {"off", "get", "drain"} /\ ~loc.lost =>
            \E n \in 0..visitorSaid : Taken(r.st, ReadBy(r.sock), n) /\ Owed(n)'
  PROVE  Order'
<1> HIDE DEF Owed
<1> DEFINE b == IF linkUp THEN r.sent ELSE <<>>
<1>1. b \in Seq(WireFrame) /\ toServer' = toServer \o b /\ TypesIn(b) \subseteq TypesIn(r.sent)
  BY PySent DEF PyTakes
<1> HIDE DEF b
<1>2. {"DATA", "EOF"} \cap TypesIn(b) = {}
  BY <1>1 DEF PyTakes
<1>3. /\ py' = r.st /\ loc' = r.sock /\ linkUp' = linkUp /\ srv' = srv /\ pub' = pub
      /\ visitorSaid' = visitorSaid /\ serviceSaid' = serviceSaid
      /\ toAgent' = toAgent
  <2>1. /\ py' = r.st /\ loc' = r.sock /\ linkUp' = linkUp /\ srv' = srv /\ pub' = pub
        /\ visitorSaid' = visitorSaid /\ serviceSaid' = serviceSaid
        /\ toAgent' \in Seq(WireFrame) /\ toAgent = <<>> \o toAgent'
    BY DEF PyTakes, PyCommitted, sVars
  <2>2. toAgent' = toAgent
    BY <2>1
  <2> QED
    BY <2>1, <2>2
<1>4. PyTells' => PyTells /\ loc'.inq = loc.inq
  BY <1>3 DEF PyTells, PyTakes
<1>5. Down'
  <2> HIDE DEF PyTells
  <2> QED
    BY <1>1, <1>2, <1>3, <1>4, DownBlank DEF Order
<1>6. Up'
  <2>1. AllSeen(py.rewriteHost, ReadBy(r.sock))
        /\ Len(ReadBy(r.sock)) <= SeenLen(py.rewriteHost, visitorSaid)
    <3>1. CASE loc.lost
      <4>1. ReadBy(r.sock) = ReadBy(loc)
        BY <3>1 DEF ReadBy
      <4> QED
        BY <4>1 DEF Order, Up
    <3> QED
      BY <3>1
  <2>2. PyHears' => \E n \in 0..visitorSaid : Taken(r.st, ReadBy(r.sock), n) /\ Owed(n)'
    BY <1>3 DEF PyHears, PyTakes
  <2>3. py'.rewriteHost = py.rewriteHost /\ ReadBy(loc)' = ReadBy(r.sock)
    BY <1>3 DEF PyTakes, ReadBy
  <2>4. ASSUME NEW n, Taken(r.st, ReadBy(r.sock), n) PROVE Taken(py, ReadBy(loc), n)'
    BY <1>3, <2>3, <2>4 DEF Taken
  <2> HIDE DEF PyHears, Refused
  <2> QED
    BY <1>3, <2>1, <2>2, <2>3, <2>4 DEF Up
<1>7. HeadKept' /\ LostEmpty'
  <2>1. HeadKept'
    BY <1>3 DEF HeadKept
  <2>2. LostEmpty'
    BY <1>3 DEF Order, LostEmpty, PyTakes
  <2> QED
    BY <2>1, <2>2
<1>8. Ends'
  <2>1. py.inbox \in Seq(WireFrame) /\ toServer \in Seq(WireFrame)
    BY Places
  <2> DEFINE x == <<Head(py.inbox)>>
             rest == Tail(py.inbox)
  <2>2. x \in Seq(WireFrame) /\ rest \in Seq(WireFrame) /\ py.inbox = x \o rest
    BY <2>1, HeadTailSplit
  <2>3. py'.inbox = rest /\ py'.finished = py.finished /\ loc'.fin = loc.fin
    BY <1>3 DEF PyTakes
  <2> HIDE DEF x, rest
  <2>4. DataFirst(rest) /\ TypesIn(rest) \subseteq TypesIn(py.inbox)
    <3>1. DataFirst(rest)
      BY <2>1, <2>2, ShortenedFirst DEF Order, Ends
    <3>2. TypesIn(x \o rest) = TypesIn(x) \cup TypesIn(rest)
      BY <2>2, ConcatSeen DEF WireFrame
    <3> QED
      BY <2>2, <3>1, <3>2
  <2>5. "EOF" \in TypesIn(toServer') => "EOF" \in TypesIn(toServer)
    <3>1. TypesIn(toServer \o b) = TypesIn(toServer) \cup TypesIn(b)
      BY <1>1, <2>1, ConcatSeen DEF WireFrame
    <3> QED
      BY <1>1, <1>2, <3>1
  <2> QED
    BY <1>3, <2>3, <2>4, <2>5 DEF Order, Ends
<1> QED
  BY <1>5, <1>6, <1>7, <1>8 DEF Order

\* What has been read once an item with data is passed on, or held back.
LEMMA ItemSeen ==
  ASSUME HostInHead, IInv, Order, ~loc.lost, NEW n \in 0..visitorSaid,
         Taken(py, ReadBy(loc), n),
         NEW d \in Seq(Bytes), d # <<>>, From(d, n), n + Len(d) <= visitorSaid,
         NEW h \in PyTurn, h.sock = loc, h.st.headBuf = py.headBuf,
         h.st.headDone = py.headDone, NEW r, r = P!OnItem(h, d),
         r.st.rewriteHost = py.rewriteHost
  PROVE  /\ Taken(r.st, ReadBy(r.sock), n + Len(d))
         /\ AllSeen(py.rewriteHost, ReadBy(r.sock))
         /\ Len(ReadBy(r.sock)) <= SeenLen(py.rewriteHost, visitorSaid)
         /\ r.st.headDone => r.st.headBuf = <<>>
         /\ ~r.st.headDone => r.st.rewriteHost
<1> DEFINE m == n + Len(d)
           s == ReadBy(loc)
           rw == py.rewriteHost
           head == py.headBuf \o d
<1>1. /\ loc \in Connection(Bytes) /\ s \in Seq(Bytes) /\ py.headBuf \in Seq(Bytes)
      /\ visitorSaid \in Nat /\ visitorSaid <= UpBytes /\ n \in Nat
      /\ rw \in BOOLEAN /\ py.headDone \in BOOLEAN /\ head \in Seq(Bytes)
  <2>1. /\ loc \in Connection(Bytes) /\ s \in Seq(Bytes) /\ py.headBuf \in Seq(Bytes)
        /\ visitorSaid \in Nat /\ visitorSaid <= UpBytes /\ n \in Nat
        /\ rw \in BOOLEAN /\ py.headDone \in BOOLEAN
    BY Places
  <2> QED
    BY <2>1, ConcatTyped
<1>2. Len(d) \in Nat /\ m \in Nat /\ m <= visitorSaid
  BY <1>1
<1>3. SeenLen(rw, m) <= SeenLen(rw, visitorSaid)
  <2> HIDE DEF m, rw
  <2> QED
    BY <1>1, <1>2, SeenGrows
<1>4. (~py.headDone => rw) /\ (py.headDone => py.headBuf = <<>>)
  BY DEF Order, HeadKept
<1>5. /\ py.headDone => /\ r.sock = WriteTo(loc, d)
                        /\ r.st.headDone /\ r.st.headBuf = py.headBuf
      /\ ~py.headDone /\ P!HeadComplete(head) =>
            /\ r.sock = WriteTo(loc, P!RewriteHostHeader(head))
            /\ r.st.headDone /\ r.st.headBuf = <<>>
      /\ ~py.headDone /\ ~P!HeadComplete(head) =>
            /\ r.sock = loc
            /\ ~r.st.headDone /\ r.st.headBuf = head
  BY OnItemDoes
<1>6. CASE py.headDone
  <2>1. /\ AllSeen(rw, s) /\ Len(s) = SeenLen(rw, n)
        /\ Rewriting(rw) => HostByte <= n
    BY <1>6 DEF Taken
  <2>2. ReadBy(r.sock) = s \o d
    BY <1>1, <1>5, <1>6, WroteSeen
  <2> HIDE DEF s, rw
  <2>3. /\ AllSeen(rw, s \o d) /\ Len(s \o d) = SeenLen(rw, m)
        /\ Rewriting(rw) => HostByte <= m
    BY <1>1, <2>1, SeenOn
  <2> HIDE DEF m
  <2>4. Taken(r.st, ReadBy(r.sock), m)
    BY <1>5, <1>6, <2>2, <2>3 DEF Taken, rw
  <2> QED
    BY <1>3, <1>4, <1>5, <1>6, <2>2, <2>3, <2>4 DEF rw, m
<1>7. ASSUME ~py.headDone
      PROVE  /\ s = <<>> /\ rw = TRUE
             /\ From(head, 0) /\ Len(head) = m
  <2>1. s = <<>> /\ From(py.headBuf, 0) /\ Len(py.headBuf) = n /\ rw = TRUE
    BY <1>1, <1>4, <1>7 DEF Taken
  <2>2. From(d, 0 + Len(py.headBuf))
    BY <1>1, <2>1
  <2>3. From(head, 0)
    BY <1>1, <2>1, <2>2, RunsOn
  <2>4. Len(head) = Len(py.headBuf) + Len(d)
    BY <1>1, ConcatTyped
  <2> QED
    BY <2>1, <2>3, <2>4
<1>8. CASE ~py.headDone /\ P!HeadComplete(head)
  <2> DEFINE out == P!RewriteHostHeader(head)
  <2>1. out \in Seq(Bytes)
    BY <1>1, Rewritten
  <2>2. Len(head) <= UpBytes /\ From(head, 0) /\ Len(head) = m
    <3>1. Len(head) = m /\ From(head, 0)
      BY <1>7, <1>8
    <3>2. UpBytes \in Nat
      BY PyBridgeAssumption
    <3> HIDE DEF m, head
    <3> QED
      BY <1>1, <1>2, <3>1, <3>2
  <2> HIDE DEF m, head
  <2>3. AllSeen(TRUE, out) /\ Len(out) = SeenLen(TRUE, m)
    BY <1>1, <2>2, HeadSeen
  <2>4. Rewriting(TRUE) => HostByte <= m
    BY <1>1, <1>8, <2>2, HeadHasHost
  <2> HIDE DEF out
  <2>5. ReadBy(r.sock) = out
    <3>1. r.sock = WriteTo(loc, out)
      BY <1>5, <1>8 DEF out
    <3>2. ReadBy(r.sock) = ReadBy(loc) \o out
      BY <1>1, <2>1, <3>1, WroteSeen
    <3>3. ReadBy(loc) = <<>>
      BY <1>7, <1>8
    <3>4. <<>> \o out = out
      BY <2>1, Concats
    <3> QED
      BY <3>2, <3>3, <3>4
  <2>6. Taken(r.st, ReadBy(r.sock), m)
    BY <1>5, <1>7, <1>8, <2>3, <2>4, <2>5 DEF Taken
  <2> QED
    BY <1>3, <1>5, <1>7, <1>8, <2>3, <2>5, <2>6 DEF m
<1>9. CASE ~py.headDone /\ ~P!HeadComplete(head)
  <2>1. r.sock = loc /\ ~r.st.headDone /\ r.st.headBuf = head
    BY <1>5, <1>9
  <2>2. s = <<>> /\ rw = TRUE /\ From(head, 0) /\ Len(head) = m
    BY <1>7, <1>9
  <2> HIDE DEF m, head
  <2>3. Taken(r.st, ReadBy(r.sock), m)
    BY <2>1, <2>2 DEF Taken
  <2>4. /\ AllSeen(py.rewriteHost, ReadBy(r.sock))
        /\ Len(ReadBy(r.sock)) <= SeenLen(py.rewriteHost, visitorSaid)
    BY <2>1 DEF Order, Up
  <2> QED
    BY <2>1, <2>2, <2>3, <2>4 DEF m
<1> QED
  BY <1>6, <1>8, <1>9

\* And once the end is passed on: everything.
LEMMA EndSeen ==
  ASSUME IInv, Order, ~loc.lost, Taken(py, ReadBy(loc), visitorSaid),
         NEW h \in PyTurn, h.sock = loc, h.st.headBuf = py.headBuf,
         h.st.headDone = py.headDone, NEW r, r = P!OnEofItem(h)
  PROVE  /\ AllSeen(py.rewriteHost, ReadBy(r.sock))
         /\ Len(ReadBy(r.sock)) = SeenLen(py.rewriteHost, visitorSaid)
<1> DEFINE n == visitorSaid
           s == ReadBy(loc)
           rw == py.rewriteHost
           head == py.headBuf
<1>1. /\ loc \in Connection(Bytes) /\ s \in Seq(Bytes) /\ head \in Seq(Bytes)
      /\ n \in Nat /\ n <= UpBytes
      /\ rw \in BOOLEAN /\ py.headDone \in BOOLEAN
  BY Places
<1>2. (~py.headDone => rw) /\ (py.headDone => head = <<>>)
  BY DEF Order, HeadKept
<1> DEFINE out == P!RewriteHostHeader(head)
           w == WriteTo(loc, out)
<1>3. /\ head = <<>> => r.sock = WriteEof(loc)
      /\ head # <<>> => r.sock = w \/ r.sock = WriteEof(w)
  BY OnEofItemDoes
<1>4. CASE head = <<>>
  <2>1. ReadBy(r.sock) = s
    BY <1>1, <1>3, <1>4, EofSeen
  <2>2. AllSeen(rw, s)
    BY DEF Order, Up
  <2>3. Len(s) = SeenLen(rw, n)
    <3>1. CASE py.headDone
      BY <3>1 DEF Taken
    <3>2. CASE ~py.headDone
      <4>1. s = <<>> /\ n = 0
        BY <1>4, <3>2 DEF Taken
      <4>2. SeenLen(rw, 0) = 0
        BY PyBridgeAssumption DEF SeenLen, Rewriting
      <4> HIDE DEF n
      <4> QED
        BY <4>1, <4>2
    <3> QED
      BY <3>1, <3>2
  <2> QED
    BY <2>1, <2>2, <2>3
<1>5. CASE head # <<>>
  <2>1. s = <<>> /\ From(head, 0) /\ Len(head) = n /\ rw = TRUE
    BY <1>1, <1>2, <1>5 DEF Taken
  <2>2. out \in Seq(Bytes)
    BY <1>1, Rewritten
  <2>3. AllSeen(TRUE, out) /\ Len(out) = SeenLen(TRUE, n)
    <3> HIDE DEF n, head
    <3> QED
      BY <1>1, <2>1, HeadSeen
  <2> HIDE DEF out
  <2>4. w \in Connection(Bytes) /\ ReadBy(w) = out
    <3>1. w \in Connection(Bytes) /\ ReadBy(w) = s \o out
      BY <1>1, <2>2, WroteSeen
    <3> QED
      BY <2>1, <2>2, <3>1
  <2> HIDE DEF w
  <2>5. ReadBy(r.sock) = out
    BY <1>3, <1>5, <2>4, EofSeen
  <2> QED
    BY <2>1, <2>3, <2>5
<1> QED
  BY <1>4, <1>5

\* _to_local: one item.
LEMMA ToLocalItemOrder ==
  ASSUME HostInHead, IInv, Order, P!ToLocalItem, UNCHANGED <<sVars, outsideVars>>
  PROVE  Order'
<1> DEFINE box == py.inbox
           item == Head(box)
           rest == Tail(box)
           g == P!Turn
           h == [g EXCEPT !.st = [g.st EXCEPT !.inbox = Tail(g.st.inbox)]]
<1>1. PyFacts
  BY PyKnown
<1>2. /\ py.toLocal = "get" /\ box # <<>> /\ UNCHANGED P!local
      /\ P!Commit(IF item.type = "EOF" THEN P!OnEofItem(h) ELSE P!OnItem(h, item.data))
  BY DEF P!ToLocalItem
<1>3. g \in PyTurn /\ g.st = py /\ g.sock = loc /\ g.sent = <<>>
  BY PyTurnStarts
<1>4. /\ item \in WireFrame /\ rest \in Seq(WireFrame) /\ box = <<item>> \o rest
      /\ TypesIn(box) = {item.type} \cup TypesIn(rest)
  <2>1. box \in Seq(WireFrame)
    BY <1>1 DEF PyFacts
  <2> HIDE DEF box
  <2> QED
    BY <1>2, <2>1, TakenSeen, HeadTailSplit DEF WireFrame
<1>5. h \in PyTurn /\ h.st = [py EXCEPT !.inbox = rest] /\ h.sock = loc /\ h.sent = <<>>
  <2>1. h = [g EXCEPT !.st = [py EXCEPT !.inbox = rest]]
    BY <1>3
  <2>2. [py EXCEPT !.inbox = rest] \in PyType
    BY <1>1, <1>4, PyFields DEF PyFacts
  <2> HIDE DEF g, h
  <2> QED
    BY <1>3, <2>1, <2>2, PyParts
<1>6. /\ h.st.run = py.run /\ h.st.toServer = py.toServer /\ h.st.inbox = rest
      /\ h.st.finished = py.finished /\ h.st.rewriteHost = py.rewriteHost
      /\ h.st.headBuf = py.headBuf /\ h.st.headDone = py.headDone
  <2>1. py \in PyType
    BY <1>1 DEF PyFacts
  <2> HIDE DEF g, h, rest
  <2> QED
    BY <1>5, <2>1 DEF PyType
<1>7. TypesIn(box) \subseteq {"DATA", "EOF"} /\ py.run # "none"
  <2>1. py.run # "none"
    BY <1>2, PumpAtWork
  <2> QED
    BY <1>1, <2>1 DEF PyFacts, LifeOfPy
<1>8. /\ loc \in Connection(Bytes) /\ py.headBuf \in Seq(Bytes)
      /\ (~py.headDone => py.rewriteHost) /\ (py.headDone => py.headBuf = <<>>)
  BY Places DEF Order, HeadKept
<1>9. ~loc.lost => \E n \in 0..visitorSaid : Taken(py, ReadBy(loc), n) /\ Owed(n)
  <2>1. ~loc.lost => PyHears
    BY <1>2 DEF PyHears
  <2>2. ~Refused
    BY <1>7 DEF Refused
  <2> HIDE DEF Owed, Refused, PyHears
  <2> QED
    BY <2>1, <2>2 DEF Order, Up
<1>10. /\ srv' = srv /\ pub' = pub /\ linkUp' = linkUp /\ visitorSaid' = visitorSaid
       /\ toAgent' = toAgent
  BY <1>2 DEF sVars, outsideVars, P!local
<1>11. \A n \in 0..visitorSaid : n \in Nat
  BY Places
<1> HIDE DEF g, h, item, Owed
<1>12. CASE item.type = "EOF"
  <2> DEFINE r == P!OnEofItem(h)
             out == P!RewriteHostHeader(py.headBuf)
             w == WriteTo(loc, out)
  <2>1. PyEnded(r, h) /\ r \in PyTurn /\ P!Commit(r)
    BY <1>2, <1>5, <1>12, PyOnEofItem DEF PyEnded
  <2>2. /\ py.headBuf = <<>> => /\ r.sock = WriteEof(loc)
                                /\ r.st.headDone = py.headDone
                                /\ r.st.headBuf = <<>>
        /\ py.headBuf # <<>> => /\ r.sock = w \/ r.sock = WriteEof(w)
                                /\ r.st.headDone /\ r.st.headBuf = <<>>
    BY <1>5, <1>6, OnEofItemDoes
  <2>3. ~loc.lost => /\ AllSeen(py.rewriteHost, ReadBy(r.sock))
                     /\ Len(ReadBy(r.sock)) = SeenLen(py.rewriteHost, visitorSaid)
    <3> SUFFICES ASSUME ~loc.lost
                 PROVE  /\ AllSeen(py.rewriteHost, ReadBy(r.sock))
                        /\ Len(ReadBy(r.sock)) = SeenLen(py.rewriteHost, visitorSaid)
      OBVIOUS
    <3>1. PICK n \in 0..visitorSaid : Taken(py, ReadBy(loc), n) /\ Owed(n)
      BY <1>9
    <3>2. n = visitorSaid
      BY <1>4, <1>11, <1>12, <3>1, EndReached
    <3> HIDE DEF r
    <3>3. Taken(py, ReadBy(loc), visitorSaid)
      BY <3>1, <3>2
    <3> QED
      BY <1>5, <1>6, <3>3, EndSeen DEF r
  <2> HIDE DEF r
  <2>4. PyCommitted(r, <<>>)
    BY <1>2, <2>1, PyTaskTurned
  <2>5. out \in Seq(Bytes)
    BY <1>8, Rewritten
  <2> HIDE DEF out
  <2>6. /\ w \in Connection(Bytes) /\ w.inq = loc.inq /\ w.fin = loc.fin
        /\ w.lost = loc.lost /\ (loc.lost => w = loc)
    BY <1>8, <2>5, WroteSeen
  <2> HIDE DEF w
  <2>7. /\ r.sock.inq = loc.inq /\ r.sock.fin = loc.fin /\ r.sock.lost = loc.lost
        /\ loc.lost => r.sock.out = loc.out /\ r.sock.got = loc.got
    <3>1. /\ WriteEof(loc).inq = loc.inq /\ WriteEof(loc).fin = loc.fin
          /\ WriteEof(loc).lost = loc.lost
          /\ WriteEof(loc).out = loc.out /\ WriteEof(loc).got = loc.got
      BY <1>8, EofSeen
    <3>2. /\ WriteEof(w).inq = w.inq /\ WriteEof(w).fin = w.fin
          /\ WriteEof(w).lost = w.lost
          /\ WriteEof(w).out = w.out /\ WriteEof(w).got = w.got
      BY <2>6, EofSeen
    <3>3. CASE py.headBuf = <<>>
      BY <2>2, <3>1, <3>3
    <3>4. CASE py.headBuf # <<>>
      BY <2>2, <2>6, <3>2, <3>4
    <3> QED
      BY <3>3, <3>4
  <2>8. {"DATA", "EOF"} \cap TypesIn(r.sent) = {}
    BY <1>5, <2>1, EmptySeen DEF PyEnded
  <2>9. PyTakes(r)
    BY <1>6, <2>1, <2>4, <2>7, <2>8 DEF PyTakes, PyEnded
  <2>10. /\ r.st.toLocal \notin {"off", "get", "drain"} \/ loc.lost
         /\ r.st.headBuf = <<>> /\ (~r.st.headDone => r.st.rewriteHost)
    <3>1. r.st.toLocal \notin {"off", "get", "drain"} \/ loc.lost
      BY <2>1 DEF PyEnded
    <3>2. r.st.headBuf = <<>> /\ (~r.st.headDone => r.st.rewriteHost)
      BY <1>6, <1>8, <2>1, <2>2 DEF PyEnded
    <3> QED
      BY <3>1, <3>2
  <2>11. ~loc.lost => Len(ReadBy(r.sock)) <= SeenLen(py.rewriteHost, visitorSaid)
    <3>1. SeenLen(py.rewriteHost, visitorSaid) \in Nat
      BY Places, SeenGrows
    <3> QED
      BY <2>3, <3>1
  <2> QED
    BY <1>2, <2>3, <2>7, <2>9, <2>10, <2>11, PyItemOrder
<1>13. CASE item.type # "EOF"
  <2> DEFINE d == item.data
             k == Len(d)
             r == P!OnItem(h, d)
             head == py.headBuf \o d
             out == P!RewriteHostHeader(head)
             w == WriteTo(loc, d)
             v == WriteTo(loc, out)
  <2>1. item.type = "DATA"
    BY <1>4, <1>7, <1>13
  <2>2. d \in Seq(Bytes) /\ d # <<>> /\ k \in Nat \ {0}
    BY <1>4, <2>1, FrameKinds DEF WireFrame
  <2>3. P!Commit(r)
    BY <1>2, <1>13
  <2> HIDE DEF d
  <2>4. PyAte(r, h, k) /\ r \in PyTurn
    BY <1>5, <2>2, PyOnItem DEF PyAte
  <2>5. /\ py.headDone => /\ r.sock = w
                          /\ r.st.headDone /\ r.st.headBuf = py.headBuf
        /\ ~py.headDone /\ P!HeadComplete(head) =>
              r.sock = v /\ r.st.headDone /\ r.st.headBuf = <<>>
        /\ ~py.headDone /\ ~P!HeadComplete(head) =>
              /\ r.sock = loc /\ ~r.st.headDone /\ r.st.headBuf = head
    BY <1>5, <1>6, <2>2, OnItemDoes
  <2>6. PyCommitted(r, <<>>)
    <3> HIDE DEF r
    <3> QED
      BY <1>2, <2>3, <2>4, PyTaskTurned
  <2>7. /\ r.st.inbox = rest /\ r.st.finished = py.finished
        /\ r.st.toServer = py.toServer /\ r.st.rewriteHost = py.rewriteHost
        /\ r.sent = <<>> \/ r.sent = Append(<<>>, AckFrame(k))
    <3> HIDE DEF r, k, rest
    <3> QED
      BY <1>5, <1>6, <2>4 DEF PyAte
  <2>8. /\ ~r.st.headDone => r.st.rewriteHost
        /\ r.st.headDone => r.st.headBuf = <<>>
    <3> HIDE DEF r, w, v, head
    <3> QED
      BY <1>8, <2>5, <2>7
  <2>9. ~loc.lost =>
           /\ AllSeen(py.rewriteHost, ReadBy(r.sock))
           /\ Len(ReadBy(r.sock)) <= SeenLen(py.rewriteHost, visitorSaid)
           /\ \E n \in 0..visitorSaid : Taken(r.st, ReadBy(r.sock), n) /\ Owed(n)'
    <3> SUFFICES ASSUME ~loc.lost
                 PROVE  /\ AllSeen(py.rewriteHost, ReadBy(r.sock))
                        /\ Len(ReadBy(r.sock)) <= SeenLen(py.rewriteHost, visitorSaid)
                        /\ \E n \in 0..visitorSaid :
                              Taken(r.st, ReadBy(r.sock), n) /\ Owed(n)'
      OBVIOUS
    <3>1. PICK n \in 0..visitorSaid : Taken(py, ReadBy(loc), n) /\ Owed(n)
      BY <1>9
    <3>2. n \in Nat /\ py'.inbox = rest /\ py'.finished = py.finished
      BY <1>11, <2>6, <2>7 DEF PyCommitted
    <3>3. PICK f \in WireFrame, j \in Nat : f = item /\ j = k
      <4> HIDE DEF k
      <4> QED
        BY <1>4, <2>2
    <3>4. From(f.data, n) /\ n + Len(f.data) <= visitorSaid /\ Owed(n + Len(f.data))'
      <4>1. f.type = "DATA" /\ box = <<f>> \o rest /\ rest \in Seq(WireFrame)
        BY <1>4, <2>1, <3>3
      <4> HIDE DEF rest
      <4> QED
        BY <1>10, <3>1, <3>2, <4>1, OwedEaten
    <3>5. d = f.data /\ j = Len(f.data)
      BY <3>3 DEF d
    <3>6. From(d, n) /\ n + k <= visitorSaid /\ Owed(n + j)'
      <4>1. From(d, n)
        BY <3>4, <3>5
      <4>2. n + k <= visitorSaid
        BY <3>3, <3>4, <3>5
      <4>3. Owed(n + j)'
        BY <3>4, <3>5
      <4> QED
        BY <4>1, <4>2, <4>3
    <3> HIDE DEF r
    <3>7. /\ Taken(r.st, ReadBy(r.sock), n + j)
          /\ AllSeen(py.rewriteHost, ReadBy(r.sock))
          /\ Len(ReadBy(r.sock)) <= SeenLen(py.rewriteHost, visitorSaid)
      BY <1>5, <1>6, <2>2, <2>7, <3>1, <3>3, <3>6, ItemSeen DEF r
    <3> HIDE DEF k
    <3>8. n + j \in 0..visitorSaid
      BY <3>2, <3>3, <3>6, Places
    <3> QED
      BY <3>6, <3>7, <3>8
  <2>10. out \in Seq(Bytes)
    <3>1. head \in Seq(Bytes)
      BY <1>8, <2>2, ConcatTyped
    <3> HIDE DEF head
    <3> QED
      BY <3>1, Rewritten
  <2> HIDE DEF r, out, head, k
  <2>11. /\ w.inq = loc.inq /\ w.fin = loc.fin /\ w.lost = loc.lost /\ (loc.lost => w = loc)
         /\ v.inq = loc.inq /\ v.fin = loc.fin /\ v.lost = loc.lost /\ (loc.lost => v = loc)
    BY <1>8, <2>2, <2>10, WroteSeen
  <2> HIDE DEF w, v
  <2>12. /\ r.sock.inq = loc.inq /\ r.sock.fin = loc.fin /\ r.sock.lost = loc.lost
         /\ loc.lost => r.sock.out = loc.out /\ r.sock.got = loc.got
    BY <2>5, <2>11
  <2>13. {"DATA", "EOF"} \cap TypesIn(r.sent) = {}
    <3>1. TypesIn(r.sent) \subseteq {"ACK"}
      <4> HIDE DEF k
      <4> QED
        BY <2>2, <2>7, AcksOnly
    <3> QED
      BY <3>1
  <2>14. PyTakes(r)
    BY <2>6, <2>7, <2>12, <2>13 DEF PyTakes
  <2> QED
    BY <1>2, <2>8, <2>9, <2>12, <2>14, PyItemOrder
<1> QED
  BY <1>12, <1>13

\* Every step of the agent's end, and of the service.
LEMMA AgentOrder ==
  ASSUME HostInHead, IInv, Order,
         ServiceSend \/ ServiceEvent \/ LinkLost \/ DialFails \/ AgentStep
  PROVE  Order'
<1>1. ASSUME AgentStep PROVE Order'
  <2>1. UNCHANGED <<sVars, outsideVars>>
    BY <1>1 DEF AgentStep
  <2>2. CASE P!PyReceive
    BY <2>1, <2>2, PyReceiveOrder
  <2>3. CASE P!SessionEnds
    BY <2>1, <2>3, SessionEndsOrder
  <2>4. CASE P!DialOk
    BY <2>1, <2>4, DialOkOrder
  <2>5. CASE P!ToLocalItem
    BY <2>1, <2>5, ToLocalItemOrder
  <2>6. CASE P!ToLocalDrained
    BY <2>1, <2>6, ToLocalDrainedOrder
  <2>7. CASE P!ToServerData
    BY <2>1, <2>7, ToServerDataOrder
  <2>8. CASE P!ToServerEof
    BY <2>1, <2>8, ToServerEofOrder
  <2>9. CASE P!ToServerError
    BY <2>1, <2>9, ToServerErrorOrder
  <2>10. CASE P!PumpsEnd
    BY <2>1, <2>10, PumpsEndOrder
  <2>11. CASE P!LocalFlush
    BY <2>1, <2>11, LocalFlushOrder
  <2> QED
    BY <1>1, <2>2, <2>3, <2>4, <2>5, <2>6, <2>7, <2>8, <2>9, <2>10, <2>11
       DEF AgentStep, P!PyTask
<1> QED
  BY <1>1, ServiceSendOrder, ServiceEventOrder, LinkLostOrder, DialFailsOrder

-----------------------------------------------------------------------------
\* The invariant, and the property.

\* Nothing was said yet.
LEMMA InitOrder == Init => Order
<1> SUFFICES ASSUME Init PROVE Order
  OBVIOUS
<1>1. /\ srv = S!NoStream /\ pub = NewSocket /\ loc = NewConnection
      /\ linkUp = TRUE /\ toAgent = <<>> /\ toServer = <<>>
      /\ visitorSaid = 0 /\ serviceSaid = 0
  BY SameOperators, SameConnection DEF Init, S!ServerInit, P!PyInit
<1>2. PICK r \in RewriteHosts : py = P!NoPyStream(r)
  BY DEF Init, P!PyInit
<1>3. /\ r \in BOOLEAN /\ py.rewriteHost = r /\ py.inbox = <<>> /\ ~py.finished
      /\ py.headDone = ~r /\ py.headBuf = <<>>
  BY <1>2, PyBridgeAssumption DEF P!NoPyStream
<1>4. /\ ReadBy(pub) = <<>> /\ ReadBy(loc) = <<>> /\ loc.inq = <<>> /\ loc.out = <<>>
      /\ pub.inq = <<>> /\ ~srv.sentEof /\ Len(<<>>) = 0
  <2>1. /\ NewSocket.got = <<>> /\ NewSocket.out = <<>> /\ NewSocket.inq = <<>>
        /\ NewConnection.got = <<>> /\ NewConnection.out = <<>>
        /\ NewConnection.inq = <<>> /\ ~S!NoStream.sentEof
    BY DEF NewSocket, NewConnection, S!NoStream
  <2>2. <<>> \o <<>> = <<>> /\ Len(<<>>) = 0
    OBVIOUS
  <2> QED
    BY <1>1, <2>1, <2>2 DEF ReadBy
<1>5. From(<<>>, 0) /\ (\A q : AllSeen(q, <<>>)) /\ 0 <= 0
  BY DEF From, AllSeen
<1>6. \A u : Road(<<>>, <<>>, 0, 0, u)
  <2>1. Runs(<<>>, 0) /\ Total(<<>>) = 0
    BY RunsLaws, TotalLaws
  <2>2. 0 + 0 <= 0 /\ 0 + 0 = 0 /\ 0 + 0 + 0 = 0
    OBVIOUS
  <2>3. \A u : Way(<<>>, <<>>, 0, 0, u)
    BY <1>4, <1>5, <2>1, <2>2 DEF Way
  <2> QED
    BY <2>3, PiecesLaws DEF Road
<1>7. Up
  <2>1. 0 <= SeenLen(r, 0)
    BY SeenGrows
  <2>2. Taken(py, <<>>, 0)
    <3>1. Rewriting(r) => r
      BY DEF Rewriting
    <3>2. ~Rewriting(r) => SeenLen(r, 0) = 0
      BY DEF SeenLen
    <3> QED
      BY <1>3, <1>4, <1>5, <3>1, <3>2 DEF Taken
  <2>3. Coming = <<>>
    <3>1. <<>> \o <<>> = <<>>
      OBVIOUS
    <3> QED
      BY <1>1, <1>3, <3>1 DEF Coming
  <2>4. Owed(0)
    BY <1>1, <1>4, <1>6, <2>3 DEF Owed
  <2>5. 0 \in 0..visitorSaid
    BY <1>1
  <2> HIDE DEF Refused, Owed, PyHears
  <2> QED
    BY <1>1, <1>3, <1>4, <1>5, <2>1, <2>2, <2>4, <2>5 DEF Up
<1>8. Down
  BY <1>1, <1>4, <1>5, <1>6 DEF Down
<1>9. HeadKept /\ LostEmpty
  BY <1>3, <1>4 DEF HeadKept, LostEmpty
<1>10. Ends
  <2>1. DataFirst(<<>>)
    BY DEF DataFirst
  <2> QED
    BY <1>1, <1>3, <1>4, <2>1, EmptySeen DEF Ends
<1> QED
  BY <1>7, <1>8, <1>9, <1>10 DEF Order

\* Every step keeps it.
LEMMA StepOrder == HostInHead /\ IInv /\ Order /\ [Next]_vars => Order'
<1> SUFFICES ASSUME HostInHead, IInv, Order, [Next]_vars PROVE Order'
  OBVIOUS
<1>1. CASE VisitorSend \/ VisitorEvent \/ ServerStep
  BY <1>1, ServerOrder
<1>2. CASE ServiceSend \/ ServiceEvent \/ LinkLost \/ DialFails \/ AgentStep
  BY <1>2, AgentOrder
<1>3. CASE UNCHANGED vars
  <2>1. /\ py' = py /\ loc' = loc /\ srv' = srv /\ pub' = pub /\ linkUp' = linkUp
        /\ toAgent' = toAgent /\ toServer' = toServer
        /\ visitorSaid' = visitorSaid /\ serviceSaid' = serviceSaid
    BY <1>3 DEF vars, sVars, pVars, linkVars, outsideVars
  <2>2. SockCalm(loc', loc)
    BY <2>1, PyStarts
  <2> QED
    BY <2>1, <2>2, PyAloneOrder
<1> QED
  BY <1>1, <1>2, <1>3 DEF Next

\* A sequence that agrees with a longer one is a prefix of it.
LEMMA PrefixWhen ==
  ASSUME NEW B, NEW s \in Seq(B), NEW t \in Seq(B), Len(s) <= Len(t),
         \A i \in 1..Len(s) : s[i] = t[i]
  PROVE  IsPrefix(s, t)
<1> DEFINE n == Len(s)
           u == SubSeq(t, 1, n)
           v == SubSeq(s, 1, n)
<1>1. n \in Nat /\ Len(t) \in Nat /\ n <= Len(t)
  OBVIOUS
<1>2. \A i \in 1..n : i \in 1..Len(t)
  BY <1>1
<1> HIDE DEF n
<1>3. /\ v \in Seq(B) /\ Len(v) = n /\ \A i \in 1..n : v[i] = s[i]
      /\ u \in Seq(B) /\ Len(u) = n /\ \A i \in 1..n : u[i] = t[i]
  <2>1. n = Len(s) /\ n \in Int /\ \A i \in 1..n : i \in 1..Len(s)
    BY <1>1 DEF n
  <2> QED
    BY <1>1, <1>2, <2>1
<1> HIDE DEF u, v
<1>4. u = v
  <2>1. \A i \in 1..n : u[i] = v[i]
    BY <1>3 DEF n
  <2> QED
    BY <1>1, <1>3, <2>1
<1> QED
  BY <1>1, <1>4 DEF IsPrefix, n, u, v

\* What was read is in front of what will be.
LEMMA GotFirst ==
  ASSUME NEW sock, sock.got \in Seq(Bytes), sock.out \in Seq(Bytes)
  PROVE  /\ sock.got \in Seq(Bytes) /\ ReadBy(sock) \in Seq(Bytes)
         /\ Len(sock.got) <= Len(ReadBy(sock))
         /\ \A i \in 1..Len(sock.got) :
               i \in DOMAIN ReadBy(sock) /\ ReadBy(sock)[i] = sock.got[i]
<1> DEFINE g == sock.got
           o == sock.out
<1>1. g \in Seq(Bytes) /\ o \in Seq(Bytes)
  OBVIOUS
<1> HIDE DEF g, o
<1>2. /\ g \o o \in Seq(Bytes) /\ Len(g) \in Nat /\ Len(o) \in Nat
      /\ Len(g \o o) = Len(g) + Len(o)
      /\ DOMAIN (g \o o) = 1..(Len(g) + Len(o))
      /\ \A i \in 1..Len(g) : (g \o o)[i] = g[i]
  BY <1>1, Joined
<1>3. Len(g) <= Len(g \o o) /\ \A i \in 1..Len(g) : i \in DOMAIN (g \o o)
  BY <1>2
<1> QED
  BY <1>1, <1>2, <1>3 DEF ReadBy, g, o

\* What n bytes should read like, byte by byte.
LEMMA SaidSeen ==
  ASSUME NEW n \in Nat, n <= UpBytes, py.rewriteHost \in BOOLEAN
  PROVE  /\ AsSeenByService(n) \in Seq(Bytes)
         /\ AllSeen(py.rewriteHost, AsSeenByService(n))
         /\ Len(AsSeenByService(n)) = SeenLen(py.rewriteHost, n)
<1> DEFINE said == Said(n)
<1>1. /\ said \in Seq(Bytes) /\ Len(said) = n /\ DOMAIN said = 1..n
      /\ \A i \in 1..n : said[i] = i
  <2>1. n \in 0..(UpBytes + DownBytes)
    BY PyBridgeAssumption
  <2>2. Said(n) \in Seq(Bytes) /\ Len(Said(n)) = n
    BY <2>1, SaidTyped
  <2> QED
    BY <2>2 DEF Said
<1> HIDE DEF said
<1>3. From(said, 0)
  BY <1>1 DEF From
<1>4. CASE py.rewriteHost
  <2>1. AsSeenByService(n) = P!RewriteHostHeader(said)
    BY <1>4 DEF AsSeenByService, said
  <2>2. P!RewriteHostHeader(said) \in Seq(Bytes)
    BY <1>1, Rewritten
  <2>3. py.rewriteHost = TRUE
    BY <1>4
  <2> QED
    BY <1>1, <1>3, <2>1, <2>2, <2>3, HeadSeen
<1>5. CASE ~py.rewriteHost
  <2>1. AsSeenByService(n) = said
    BY <1>5 DEF AsSeenByService, said
  <2>2. ~Rewriting(py.rewriteHost)
    BY <1>5 DEF Rewriting
  <2>3. SeenLen(py.rewriteHost, n) = n /\ \A i : SeenAt(py.rewriteHost, i) = i
    BY <2>2 DEF SeenLen, SeenAt
  <2> QED
    BY <1>1, <2>1, <2>3 DEF AllSeen
<1> QED
  BY <1>4, <1>5

\* The places hold the property.
LEMMA OrderShows ==
  ASSUME IInv, Order
  PROVE  InOrder
<1>1. /\ pub.got \in Seq(Bytes) /\ pub.out \in Seq(Bytes)
      /\ loc.got \in Seq(Bytes) /\ loc.out \in Seq(Bytes)
      /\ py.rewriteHost \in BOOLEAN
      /\ visitorSaid \in Nat /\ visitorSaid <= UpBytes /\ serviceSaid \in Nat
      /\ serviceSaid \in 0..(UpBytes + DownBytes)
  <2>1. Types
    BY DEF IInv
  <2>2. serviceSaid \in 0..(UpBytes + DownBytes)
    BY <2>1, PyBridgeAssumption DEF Types
  <2>3. pub \in Socket(Bytes) /\ loc \in Connection(Bytes)
    BY Places
  <2> QED
    BY <2>2, <2>3, Places DEF Socket, Connection
<1>2. IsPrefix(loc.got, AsSeenByService(visitorSaid))
  <2> DEFINE g == loc.got
             t == AsSeenByService(visitorSaid)
             s == ReadBy(loc)
             r == py.rewriteHost
  <2>1. /\ g \in Seq(Bytes) /\ s \in Seq(Bytes) /\ Len(g) <= Len(s)
        /\ \A i \in 1..Len(g) : i \in DOMAIN s /\ s[i] = g[i]
    BY <1>1, GotFirst
  <2>2. /\ t \in Seq(Bytes) /\ AllSeen(r, t) /\ Len(t) = SeenLen(r, visitorSaid)
    BY <1>1, SaidSeen
  <2>3. AllSeen(r, s) /\ Len(s) <= SeenLen(r, visitorSaid)
    BY DEF Order, Up
  <2>4. IsPrefix(g, t)
    <3> HIDE DEF g, t, s, r
    <3>1. Len(g) \in Nat /\ Len(s) \in Nat /\ Len(t) \in Nat
      BY <2>1, <2>2
    <3>2. Len(g) <= Len(t)
      BY <2>1, <2>2, <2>3, <3>1
    <3>3. \A i \in 1..Len(g) : i \in DOMAIN t
      BY <2>2, <3>1, <3>2
    <3>4. \A i \in 1..Len(g) : g[i] = t[i]
      BY <2>1, <2>2, <2>3, <3>3 DEF AllSeen
    <3> QED
      BY <2>1, <2>2, <3>2, <3>4, PrefixWhen
  <2> QED
    BY <2>4
<1>3. IsPrefix(pub.got, Said(serviceSaid))
  <2> DEFINE g == pub.got
             t == Said(serviceSaid)
             s == ReadBy(pub)
             n == serviceSaid
  <2>1. /\ g \in Seq(Bytes) /\ s \in Seq(Bytes) /\ Len(g) <= Len(s)
        /\ \A i \in 1..Len(g) : i \in DOMAIN s /\ s[i] = g[i]
    BY <1>1, GotFirst
  <2>2. From(s, 0) /\ Len(s) <= n /\ n \in Nat
    BY <1>1 DEF Order, Down
  <2>3. t \in Seq(Bytes) /\ Len(t) = n /\ \A i \in 1..n : t[i] = i
    <3>1. t \in Seq(Bytes) /\ Len(t) = n
      BY <1>1, SaidTyped
    <3> QED
      BY <3>1 DEF Said
  <2>4. IsPrefix(g, t)
    <3> HIDE DEF g, t, s, n
    <3>1. Len(g) \in Nat /\ Len(s) \in Nat
      BY <2>1
    <3>2. Len(g) <= Len(t) /\ \A i \in 1..Len(g) : i \in 1..n
      BY <2>1, <2>2, <2>3, <3>1
    <3>3. ASSUME NEW i \in 1..Len(g) PROVE g[i] = t[i]
      <4>1. s[i] = 0 + i
        BY <2>1, <2>2, <3>3 DEF From
      <4>2. i \in Nat
        BY <3>1
      <4> QED
        BY <2>1, <2>3, <3>2, <4>1, <4>2
    <3> QED
      BY <2>1, <2>3, <3>2, <3>3, PrefixWhen
  <2> QED
    BY <2>4
<1> QED
  BY <1>2, <1>3 DEF InOrder

\* Whatever the dial, the head held back, slow peers, resets, hang-ups or the
\* loss of the link do, each party reads the other's bytes once, in order and
\* without a gap, also from the pumps that outlive their stream: for every
\* window, chunk size, high-water mark and number of bytes.
THEOREM PyReadInOrder ==
  ASSUME HostInHead
  PROVE  Spec => []InOrder
<1>1. Init => IInv /\ Order
  BY InitInv, InitOrder
<1>2. IInv /\ Order /\ [Next]_vars => (IInv /\ Order)'
  BY StepInv, StepOrder
<1>3. IInv /\ Order => InOrder
  BY OrderShows
<1> QED
  BY <1>1, <1>2, <1>3, PTL DEF Spec
====
