------------------------- MODULE StreamOrderProofs --------------------------
(***************************************************************************)
(* Each party reads the other's bytes once, in order and without a gap.    *)
(* InOrder speaks of what has been read; the invariant Order says of every *)
(* place on the way (the socket that reads, the frames under way, what     *)
(* waits for a dial, the head held back, the socket that writes) which     *)
(* bytes are there, as long as they still can arrive.                      *)
(***************************************************************************)
EXTENDS StreamBridgeProofs

-----------------------------------------------------------------------------
\* Where a byte is.  A byte is its number, so bytes s are those after byte n
\* when From(s, n).
From(s, n) == \A i \in DOMAIN s : s[i] = n + i

\* The bytes of the pieces p, and that they are the ones after byte n.
Total(p) == SumOf([i \in DOMAIN p |-> Len(p[i])])
Runs(p, n) == \A i \in DOMAIN p : From(p[i], n + Total(SubSeq(p, 1, i - 1)))

\* What each frame of a channel carries.
PieceOf(f) == IF f.type = "DATA" THEN f.data ELSE <<>>
Pieces(channel) == [i \in DOMAIN channel |-> PieceOf(channel[i])]

\* A reader that has had n bytes of the said ones will have those of the pieces
\* p next, and if the sender can still tell it, those that wait in inq then.
Way(p, inq, n, said, tells) ==
    /\ Runs(p, n)
    /\ n + Total(p) <= said
    /\ tells => /\ From(inq, n + Total(p))
                /\ n + Total(p) + Len(inq) = said

\* An end, with the socket it reads from, still passes bytes on; an end, with
\* the socket it writes to, still takes them.
Tells(st, sock) == linkUp /\ ~st.finished /\ ~st.sentEof /\ ~sock.destroyed
Hears(st, sock) == ~st.finished /\ ~st.receivedEof /\ ~sock.destroyed

\* The party behind a socket reads, or will.
ReadBy(sock) == sock.got \o sock.out

\* What the service reads: byte i of it, and how much when n bytes were said.
Rewriting(rewriteHost) == rewriteHost /\ HostByte \in 1..UpBytes
Growth == Len(TargetBytes) - 1
SeenAt(r, i) == IF ~Rewriting(r) \/ i < HostByte THEN i
                ELSE IF i <= HostByte + Growth THEN TargetBytes[i - HostByte + 1]
                ELSE i - Growth
SeenLen(r, n) == IF Rewriting(r) /\ HostByte <= n THEN n + Growth ELSE n
AllSeen(r, s) == \A i \in DOMAIN s : s[i] = SeenAt(r, i)

\* The agent, of whose service will read s, has taken n bytes.  Behind a head
\* that went out no Host value follows.
Taken(st, s, n) ==
    IF st.headDone
    THEN /\ AllSeen(st.rewriteHost, s)
         /\ Len(s) = SeenLen(st.rewriteHost, n)
         /\ Rewriting(st.rewriteHost) => HostByte <= n
    ELSE s = <<>> /\ From(st.headBuf, 0) /\ Len(st.headBuf) = n

\* From the service to the visitor.
Down ==
    /\ From(ReadBy(pub), 0)
    /\ Len(ReadBy(pub)) <= serviceSaid
    /\ Hears(srv, pub) =>
          Way(Pieces(toServer), loc.inq, Len(ReadBy(pub)), serviceSaid, Tells(cli, loc))

\* From the visitor to the service.
Up ==
    /\ AllSeen(cli.rewriteHost, ReadBy(loc))
    /\ Len(ReadBy(loc)) <= SeenLen(cli.rewriteHost, visitorSaid)
    /\ cli.connected => cli.queued = <<>>
    /\ Hears(cli, loc) /\ ~Refused =>
          \E n \in 0..visitorSaid :
             /\ Taken(cli, ReadBy(loc), n)
             /\ Way(cli.queued \o Pieces(toAgent), pub.inq, n, visitorSaid, Tells(srv, pub))

Order == Up /\ Down

\* The Host header's value is in the head, and in as much of it as the agent
\* holds back: a rewrite touches nothing else.
HostInHead == HostByte \in 1..UpBytes => HostByte <= HeadEnd /\ HostByte <= MaxHead

-----------------------------------------------------------------------------
\* Pieces.

\* The lengths of pieces are counts.
LEMMA LengthsTyped ==
  ASSUME NEW B, NEW p \in Seq(Seq(B))
  PROVE  /\ [i \in DOMAIN p |-> Len(p[i])] \in Seq(Int)
         /\ [i \in DOMAIN p |-> Len(p[i])] \in Seq(Nat)
         /\ Len([i \in DOMAIN p |-> Len(p[i])]) = Len(p)
         /\ Total(p) \in Nat
<1>1. \A i \in 1..Len(p) : Len(p[i]) \in Nat
  OBVIOUS
<1>2. /\ [i \in 1..Len(p) |-> Len(p[i])] \in Seq(Int)
      /\ [i \in 1..Len(p) |-> Len(p[i])] \in Seq(Nat)
      /\ Len([i \in 1..Len(p) |-> Len(p[i])]) = Len(p)
  BY <1>1
<1>3. DOMAIN p = 1..Len(p)
  OBVIOUS
<1> QED
  BY <1>2, <1>3, SumBounds DEF Total

\* No pieces carry nothing, one piece its bytes, two rows of pieces what both do.
LEMMA TotalLaws ==
  ASSUME NEW B
  PROVE  /\ Total(<<>>) = 0
         /\ \A x \in Seq(B) : Total(<<x>>) = Len(x)
         /\ \A p, q \in Seq(Seq(B)) : Total(p \o q) = Total(p) + Total(q)
<1>1. Total(<<>>) = 0
  <2>1. [i \in DOMAIN <<>> |-> Len(<<>>[i])] = <<>>
    OBVIOUS
  <2> QED
    BY <2>1, SumEmpty DEF Total
<1>2. ASSUME NEW x \in Seq(B) PROVE Total(<<x>>) = Len(x)
  <2>1. [i \in DOMAIN <<x>> |-> Len(<<x>>[i])] = <<Len(x)>>
    OBVIOUS
  <2>2. Len(x) \in Int
    OBVIOUS
  <2> QED
    BY <2>1, <2>2, SumOne DEF Total
<1>3. ASSUME NEW p \in Seq(Seq(B)), NEW q \in Seq(Seq(B))
      PROVE  Total(p \o q) = Total(p) + Total(q)
  <2> DEFINE r == p \o q
             ns == [i \in DOMAIN p |-> Len(p[i])]
             ms == [i \in DOMAIN q |-> Len(q[i])]
             all == [i \in DOMAIN r |-> Len(r[i])]
  <2>1. r \in Seq(Seq(B)) /\ Len(r) = Len(p) + Len(q)
    OBVIOUS
  <2>2. /\ \A i \in 1..Len(p) : r[i] = p[i]
        /\ \A i \in 1..Len(q) : r[Len(p) + i] = q[i]
    OBVIOUS
  <2>3. /\ ns \in Seq(Int) /\ Len(ns) = Len(p)
        /\ ms \in Seq(Int) /\ Len(ms) = Len(q)
    BY LengthsTyped
  <2> HIDE DEF r
  <2>4. all \in Seq(Int) /\ Len(all) = Len(r)
    BY <2>1, LengthsTyped
  <2>5. DOMAIN r = 1..Len(r) /\ DOMAIN p = 1..Len(p) /\ DOMAIN q = 1..Len(q)
        /\ Len(p) \in Nat /\ Len(q) \in Nat
    BY <2>1
  <2>6. /\ \A i \in 1..Len(ns) : all[i] = ns[i]
        /\ \A i \in 1..Len(ms) : all[Len(ns) + i] = ms[i]
    BY <2>1, <2>2, <2>3, <2>5
  <2>7. Len(all) = Len(ns) + Len(ms)
    BY <2>1, <2>3, <2>4
  <2> HIDE DEF ns, ms, all
  <2>8. SumOf(all) = SumOf(ns) + SumOf(ms)
    BY <2>3, <2>4, <2>6, <2>7, SumPieces
  <2> QED
    BY <2>8 DEF Total, ns, ms, all, r
<1> QED
  BY <1>1, <1>2, <1>3

\* Rows of pieces run on from each other.
LEMMA RunsLaws ==
  ASSUME NEW B, NEW n \in Nat
  PROVE  /\ Runs(<<>>, n)
         /\ \A x \in Seq(B) : Runs(<<x>>, n) <=> From(x, n)
         /\ \A p, q \in Seq(Seq(B)) :
               Runs(p \o q, n) <=> Runs(p, n) /\ Runs(q, n + Total(p))
<1>1. Runs(<<>>, n)
  BY DEF Runs
<1>2. ASSUME NEW x \in Seq(B) PROVE Runs(<<x>>, n) <=> From(x, n)
  <2>1. DOMAIN <<x>> = {1} /\ <<x>>[1] = x /\ SubSeq(<<x>>, 1, 1 - 1) = <<>>
    OBVIOUS
  <2>2. n + Total(<<>>) = n
    BY TotalLaws
  <2> QED
    BY <2>1, <2>2 DEF Runs
<1>3. ASSUME NEW p \in Seq(Seq(B)), NEW q \in Seq(Seq(B))
      PROVE  Runs(p \o q, n) <=> Runs(p, n) /\ Runs(q, n + Total(p))
  <2> DEFINE r == p \o q
             At(s, m, i) == From(s[i], m + Total(SubSeq(s, 1, i - 1)))
  <2>1. Len(p) \in Nat /\ Len(q) \in Nat /\ r \in Seq(Seq(B))
        /\ DOMAIN p = 1..Len(p) /\ DOMAIN q = 1..Len(q)
        /\ DOMAIN r = 1..(Len(p) + Len(q))
    OBVIOUS
  <2>2. ASSUME NEW i \in 1..Len(p) PROVE At(r, n, i) <=> At(p, n, i)
    <3>1. r[i] = p[i] /\ SubSeq(r, 1, i - 1) = SubSeq(p, 1, i - 1)
      OBVIOUS
    <3> QED
      BY <3>1
  <2>3. ASSUME NEW j \in 1..Len(q)
        PROVE  At(r, n, Len(p) + j) <=> At(q, n + Total(p), j)
    <3> DEFINE front == SubSeq(q, 1, j - 1)
    <3>1. r[Len(p) + j] = q[j]
      OBVIOUS
    <3>2. front \in Seq(Seq(B)) /\ SubSeq(r, 1, (Len(p) + j) - 1) = p \o front
      <4> DEFINE s == SubSeq(r, 1, (Len(p) + j) - 1)
                 t == p \o front
      <4>1. /\ front \in Seq(Seq(B)) /\ Len(front) = j - 1
            /\ \A i \in 1..(j - 1) : front[i] = q[i]
        OBVIOUS
      <4>2. /\ s \in Seq(Seq(B)) /\ Len(s) = Len(p) + (j - 1)
            /\ \A i \in 1..(Len(p) + (j - 1)) : s[i] = r[i]
        <5> HIDE DEF r
        <5>1. Len(r) = Len(p) + Len(q) /\ (Len(p) + j) - 1 \in 0..Len(r)
          BY <2>1
        <5> DEFINE e == (Len(p) + j) - 1
                   u == SubSeq(r, 1, e)
                   D == Seq(B)
        <5>2. e \in 0..Len(r) /\ e = Len(p) + (j - 1) /\ r \in Seq(D)
          BY <2>1, <5>1
        <5> HIDE DEF e, D
        <5>3. e \in Nat /\ e <= Len(r) /\ \A i \in 1..e : i \in 1..Len(r)
          BY <5>2
        <5>4. u \in Seq(D) /\ Len(u) = e /\ \A i \in 1..e : u[i] = r[i]
          BY ONLY <5>2, <5>3
        <5>5. s = u
          BY DEF e
        <5> HIDE DEF u, s
        <5> QED
          BY <5>2, <5>4, <5>5 DEF D
      <4> HIDE DEF front
      <4>3. /\ t \in Seq(Seq(B)) /\ Len(t) = Len(p) + (j - 1)
            /\ \A i \in 1..Len(p) : t[i] = p[i]
            /\ \A i \in 1..(j - 1) : t[Len(p) + i] = front[i]
        <5>1. t \in Seq(Seq(B)) /\ Len(t) = Len(p) + Len(front)
          BY <4>1, ConcatProperties
        <5>2. \A i \in 1..Len(p) : t[i] = p[i]
          BY <4>1
        <5>3. \A i \in 1..Len(front) : t[Len(p) + i] = front[i]
          BY <4>1
        <5> QED
          BY <4>1, <5>1, <5>2, <5>3
      <4>4. /\ \A i \in 1..Len(p) : r[i] = p[i]
            /\ \A i \in 1..(j - 1) : r[Len(p) + i] = q[i]
        OBVIOUS
      <4> HIDE DEF s, t, r
      <4>5. ASSUME NEW i \in 1..Len(s) PROVE s[i] = t[i]
        <5>1. CASE i <= Len(p)
          <6>1. i \in 1..Len(p) /\ i \in 1..(Len(p) + (j - 1))
            BY <2>1, <4>2, <5>1
          <6> QED
            BY <4>2, <4>3, <4>4, <6>1
        <5>2. CASE i > Len(p)
          <6> DEFINE m == i - Len(p)
          <6>1. m \in 1..(j - 1) /\ i = Len(p) + m
            BY <2>1, <4>2, <5>2
          <6> HIDE DEF m
          <6> QED
            BY <2>1, <4>1, <4>2, <4>3, <4>4, <6>1
        <5> QED
          BY <2>1, <4>2, <5>1, <5>2
      <4>6. s = t
        BY <4>2, <4>3, <4>5, SeqEqual
      <4> QED
        BY <4>1, <4>6 DEF s, t, r
    <3> HIDE DEF front, r
    <3>3. Total(p \o front) = Total(p) + Total(front)
      BY <3>2, TotalLaws
    <3>4. Total(p) \in Nat /\ Total(front) \in Nat
      BY <3>2, LengthsTyped
    <3>5. n + Total(SubSeq(r, 1, (Len(p) + j) - 1)) = (n + Total(p)) + Total(front)
      <4>1. Total(SubSeq(r, 1, (Len(p) + j) - 1)) = Total(p) + Total(front)
        BY <3>2, <3>3
      <4> QED
        BY <3>4, <4>1
    <3> QED
      BY <3>1, <3>5 DEF front
  <2>4. ASSUME NEW i \in DOMAIN r, i \notin 1..Len(p)
        PROVE  \E j \in 1..Len(q) : i = Len(p) + j
    <3>1. i - Len(p) \in 1..Len(q) /\ i = Len(p) + (i - Len(p))
      BY <2>1, <2>4
    <3> QED
      BY <3>1
  <2>5. \A j \in 1..Len(q) : Len(p) + j \in DOMAIN r
    BY <2>1
  <2>6. \A i \in 1..Len(p) : i \in DOMAIN r
    BY <2>1
  <2> HIDE DEF At
  <2>7. (\A i \in DOMAIN r : At(r, n, i))
           <=> /\ \A i \in 1..Len(p) : At(p, n, i)
               /\ \A j \in 1..Len(q) : At(q, n + Total(p), j)
    BY <2>2, <2>3, <2>4, <2>5, <2>6
  <2> QED
    BY <2>1, <2>7 DEF Runs, At, r
<1> QED
  BY <1>1, <1>2, <1>3

\* Pieces that carry nothing run on from anything.
LEMMA BlankLaws ==
  ASSUME NEW p \in Seq({<<>>})
  PROVE  Total(p) = 0 /\ \A n \in Nat : Runs(p, n)
<1> DEFINE ns(q) == [i \in DOMAIN q |-> Len(q[i])]
<1>1. ASSUME NEW q \in Seq({<<>>}) PROVE Total(q) = 0
  <2>1. ns(q) \in Seq(Int) /\ Len(ns(q)) \in Nat /\ \A i \in 1..Len(ns(q)) : ns(q)[i] = 0
    <3>1. \A i \in 1..Len(q) : Len(q[i]) = 0
      OBVIOUS
    <3>2. DOMAIN q = 1..Len(q) /\ Len(q) \in Nat
      OBVIOUS
    <3>3. [i \in 1..Len(q) |-> Len(q[i])] \in Seq(Int)
      BY <3>1, <3>2
    <3> QED
      BY <3>1, <3>2, <3>3
  <2>2. Total(q) = SumOf(ns(q))
    BY DEF Total
  <2> HIDE DEF ns
  <2>3. PICK g \in [0..Len(ns(q)) -> Int] :
           /\ g[0] = 0
           /\ \A i \in 1..Len(ns(q)) : g[i] = g[i - 1] + ns(q)[i]
           /\ SumOf(ns(q)) = g[Len(ns(q))]
    BY <2>1, SumUpTo
  <2> DEFINE T == {i \in 0..Len(ns(q)) : g[i] = 0}
  <2>4. 0 \in T /\ \A k \in 1..Len(ns(q)) : k - 1 \in T => k \in T
    <3>1. 0 \in T
      BY <2>1, <2>3
    <3>2. ASSUME NEW k \in 1..Len(ns(q)), k - 1 \in T PROVE k \in T
      <4>1. g[k] = g[k - 1] + ns(q)[k] /\ g[k - 1] = 0 /\ ns(q)[k] = 0
        BY <2>1, <2>3, <3>2
      <4>2. k \in 0..Len(ns(q))
        BY <2>1
      <4> QED
        BY <4>1, <4>2
    <3> QED
      BY <3>1, <3>2
  <2> HIDE DEF T
  <2>5. \A k \in 0..Len(ns(q)) : k \in T
    BY <2>1, <2>4, Induction
  <2>6. Len(ns(q)) \in T
    BY <2>1, <2>5
  <2> QED
    BY <2>2, <2>3, <2>6 DEF T
<1>2. ASSUME NEW n \in Nat PROVE Runs(p, n)
  <2>1. \A i \in DOMAIN p : p[i] = <<>>
    OBVIOUS
  <2>2. \A m : From(<<>>, m)
    BY DEF From
  <2> QED
    BY <2>1, <2>2 DEF Runs
<1> QED
  BY <1>1, <1>2

\* The pieces of a channel, frame by frame.
LEMMA PiecesLaws ==
  /\ Pieces(<<>>) = <<>>
  /\ \A f \in WireFrame : /\ Pieces(<<f>>) = <<PieceOf(f)>>
                          /\ PieceOf(f) \in Seq(Bytes)
                          /\ f.type = "DATA" => PieceOf(f) = f.data
                          /\ f.type # "DATA" => PieceOf(f) = <<>>
  /\ \A c \in Seq(WireFrame) : /\ Pieces(c) \in Seq(Seq(Bytes))
                               /\ "DATA" \notin TypesIn(c) => Pieces(c) \in Seq({<<>>})
  /\ \A c, d \in Seq(WireFrame) : Pieces(c \o d) = Pieces(c) \o Pieces(d)
<1>1. Pieces(<<>>) = <<>>
  BY DEF Pieces
<1>2. ASSUME NEW f \in WireFrame
      PROVE  /\ PieceOf(f) \in Seq(Bytes)
             /\ f.type = "DATA" => PieceOf(f) = f.data
             /\ f.type # "DATA" => PieceOf(f) = <<>>
  <2>1. f.type = "DATA" => f.data \in Seq(Bytes)
    BY FrameKinds DEF WireFrame
  <2> QED
    BY <2>1 DEF PieceOf
<1>3. ASSUME NEW f \in WireFrame PROVE Pieces(<<f>>) = <<PieceOf(f)>>
  <2>1. [i \in DOMAIN <<f>> |-> PieceOf(<<f>>[i])] = <<PieceOf(f)>>
    OBVIOUS
  <2> QED
    BY <2>1 DEF Pieces
<1>4. ASSUME NEW c \in Seq(WireFrame)
      PROVE  /\ Pieces(c) \in Seq(Seq(Bytes)) /\ Len(Pieces(c)) = Len(c)
             /\ \A i \in 1..Len(c) : Pieces(c)[i] = PieceOf(c[i])
             /\ "DATA" \notin TypesIn(c) => Pieces(c) \in Seq({<<>>})
  <2>1. DOMAIN c = 1..Len(c) /\ Len(c) \in Nat /\ \A i \in 1..Len(c) : c[i] \in WireFrame
    OBVIOUS
  <2>2. \A i \in 1..Len(c) : PieceOf(c[i]) \in Seq(Bytes)
    BY <1>2, <2>1
  <2>3. Pieces(c) = [i \in 1..Len(c) |-> PieceOf(c[i])]
    BY <2>1 DEF Pieces
  <2>4. "DATA" \notin TypesIn(c) => \A i \in 1..Len(c) : PieceOf(c[i]) = <<>>
    BY <1>2, <2>1 DEF TypesIn
  <2> QED
    BY <2>1, <2>2, <2>3, <2>4
<1>5. ASSUME NEW c \in Seq(WireFrame), NEW d \in Seq(WireFrame)
      PROVE  Pieces(c \o d) = Pieces(c) \o Pieces(d)
  <2> DEFINE e == c \o d
             s == Pieces(e)
             a == Pieces(c)
             b == Pieces(d)
             t == a \o b
  <2>1. /\ e \in Seq(WireFrame) /\ Len(e) = Len(c) + Len(d)
        /\ Len(c) \in Nat /\ Len(d) \in Nat
        /\ \A i \in 1..Len(c) : e[i] = c[i]
        /\ \A i \in 1..Len(d) : e[Len(c) + i] = d[i]
    OBVIOUS
  <2> HIDE DEF e
  <2>2. /\ s \in Seq(Seq(Bytes)) /\ Len(s) = Len(c) + Len(d)
        /\ \A i \in 1..Len(e) : s[i] = PieceOf(e[i])
    BY <1>4, <2>1
  <2>3. /\ a \in Seq(Seq(Bytes)) /\ Len(a) = Len(c)
        /\ \A i \in 1..Len(c) : a[i] = PieceOf(c[i])
        /\ b \in Seq(Seq(Bytes)) /\ Len(b) = Len(d)
        /\ \A i \in 1..Len(d) : b[i] = PieceOf(d[i])
    BY <1>4
  <2> HIDE DEF s, a, b
  <2>4. /\ t \in Seq(Seq(Bytes)) /\ Len(t) = Len(c) + Len(d)
        /\ \A i \in 1..Len(c) : t[i] = a[i]
        /\ \A i \in 1..Len(d) : t[Len(c) + i] = b[i]
    BY <2>1, <2>3
  <2> HIDE DEF t
  <2>5. ASSUME NEW i \in 1..Len(s) PROVE s[i] = t[i]
    <3>1. CASE i <= Len(c)
      BY <2>1, <2>2, <2>3, <2>4, <3>1
    <3>2. CASE i > Len(c)
      <4> DEFINE m == i - Len(c)
      <4>1. m \in 1..Len(d) /\ i = Len(c) + m /\ i \in 1..Len(e)
        BY <2>1, <2>2, <3>2
      <4> HIDE DEF m
      <4> QED
        BY <2>1, <2>2, <2>3, <2>4, <4>1
    <3> QED
      BY <2>1, <2>2, <3>1, <3>2
  <2>6. s = t
    BY <2>2, <2>4, <2>5, SeqEqual
  <2> QED
    BY <2>6 DEF s, t, a, b, e
<1> QED
  BY <1>1, <1>2, <1>3, <1>4, <1>5

-----------------------------------------------------------------------------
\* Ways.

\* What the sender takes from its socket goes at the end of the way,
LEMMA WaySent ==
  ASSUME NEW B, NEW p \in Seq(Seq(B)), NEW inq \in Seq(B), NEW n \in Nat,
         NEW said \in Nat, NEW k \in 0..Len(inq), NEW u,
         Way(p, inq, n, said, TRUE)
  PROVE  Way(p \o <<SubSeq(inq, 1, k)>>, SubSeq(inq, k + 1, Len(inq)), n, said, u)
<1> DEFINE d == SubSeq(inq, 1, k)
           rest == SubSeq(inq, k + 1, Len(inq))
           x == n + Total(p)
<1>1. /\ d \in Seq(B) /\ Len(d) = k /\ DOMAIN d = 1..k
      /\ \A i \in 1..k : d[i] = inq[i]
  OBVIOUS
<1>2. /\ Len(rest) = Len(inq) - k /\ DOMAIN rest = 1..(Len(inq) - k)
      /\ \A i \in 1..(Len(inq) - k) : rest[i] = inq[k + i]
  OBVIOUS
<1>3. DOMAIN inq = 1..Len(inq) /\ Len(inq) \in Nat /\ k \in Nat /\ k <= Len(inq)
  OBVIOUS
<1>4. <<d>> \in Seq(Seq(B)) /\ Total(<<d>>) = k /\ Total(p \o <<d>>) = Total(p) + k
  <2>1. d \in Seq(B) /\ Len(d) = k
    BY <1>1
  <2> HIDE DEF d
  <2>2. <<d>> \in Seq(Seq(B))
    BY <2>1
  <2>3. Total(<<d>>) = k
    BY <2>1, TotalLaws
  <2>4. Total(p \o <<d>>) = Total(p) + Total(<<d>>)
    BY <2>2, TotalLaws
  <2> QED
    BY <2>2, <2>3, <2>4
<1>5. Total(p) \in Nat /\ x \in Nat
  <2>1. Total(p) \in Nat
    BY LengthsTyped
  <2> QED
    BY <2>1
<1>6. Runs(p, n) /\ From(inq, x) /\ x + Len(inq) = said
  BY DEF Way
<1> HIDE DEF d, rest
<1>7. From(d, x)
  BY <1>1, <1>3, <1>5, <1>6 DEF From
<1>8. From(rest, x + k)
  <2> SUFFICES ASSUME NEW i \in 1..(Len(inq) - k) PROVE rest[i] = (x + k) + i
    BY <1>2 DEF From
  <2>1. k + i \in 1..Len(inq)
    BY <1>3
  <2>2. inq[k + i] = x + (k + i)
    BY <1>3, <1>6, <2>1 DEF From
  <2> HIDE DEF x
  <2> QED
    BY <1>2, <1>3, <1>5, <2>2
<1>9. Runs(p \o <<d>>, n)
  <2>1. Runs(<<d>>, x)
    BY <1>1, <1>5, <1>7, RunsLaws
  <2> QED
    BY <1>4, <1>6, <2>1, RunsLaws
<1>10. n + Total(p \o <<d>>) = x + k
  BY <1>3, <1>4, <1>5
<1>11. x + k <= said /\ (x + k) + Len(rest) = said
  <2>1. /\ x \in Nat /\ x + Len(inq) = said /\ k <= Len(inq)
        /\ Len(rest) = Len(inq) - k /\ k \in Nat /\ Len(inq) \in Nat
    <3>1. x \in Nat
      BY <1>5
    <3>2. x + Len(inq) = said
      BY <1>6
    <3> QED
      BY <1>2, <1>3, <3>1, <3>2
  <2> DEFINE a == Len(inq)
             b == Len(rest)
  <2>2. x \in Nat /\ x + a = said /\ k <= a /\ b = a - k /\ k \in Nat /\ a \in Nat
    BY <2>1
  <2> HIDE DEF x, a, b
  <2>3. x + k <= said /\ (x + k) + b = said
    BY <2>2
  <2> QED
    BY <2>3 DEF b
<1>12. Way(p \o <<d>>, rest, n, said, u)
  BY <1>8, <1>9, <1>10, <1>11 DEF Way
<1> QED
  BY <1>12 DEF d, rest

\* and what the reader takes comes from its front.
LEMMA WayTaken ==
  ASSUME NEW B, NEW d \in Seq(B), NEW p \in Seq(Seq(B)), NEW inq \in Seq(B),
         NEW n \in Nat, NEW said \in Nat, NEW tells,
         Way(<<d>> \o p, inq, n, said, tells)
  PROVE  /\ From(d, n) /\ n + Len(d) <= said
         /\ Way(p, inq, n + Len(d), said, tells)
<1>1. <<d>> \in Seq(Seq(B)) /\ Len(d) \in Nat
  OBVIOUS
<1>2. Total(<<d>>) = Len(d) /\ Total(<<d>> \o p) = Len(d) + Total(p)
  BY <1>1, TotalLaws
<1>3. Runs(<<d>>, n) /\ Runs(p, n + Len(d))
  BY <1>1, <1>2, RunsLaws DEF Way
<1>4. From(d, n)
  BY <1>3, RunsLaws
<1>5. Total(p) \in Nat
  BY LengthsTyped
<1>6. n + Total(<<d>> \o p) = (n + Len(d)) + Total(p)
  BY <1>1, <1>2, <1>5
<1>7. n + Len(d) <= said
  BY <1>1, <1>5, <1>6 DEF Way
<1> QED
  BY <1>3, <1>4, <1>6, <1>7 DEF Way

\* Pieces that carry nothing make no difference anywhere.
LEMMA WayBlank ==
  ASSUME NEW B, NEW p \in Seq(Seq(B)), NEW q \in Seq(Seq(B)), NEW b \in Seq({<<>>}),
         NEW inq \in Seq(B), NEW n \in Nat, NEW said, NEW tells
  PROVE  Way(p \o (b \o q), inq, n, said, tells) <=> Way(p \o q, inq, n, said, tells)
<1>1. b \in Seq(Seq(B)) /\ b \o q \in Seq(Seq(B))
  <2>1. <<>> \in Seq(B)
    OBVIOUS
  <2>2. b \in Seq(Seq(B))
    BY <2>1, SeqMonotonic
  <2> QED
    BY <2>2, ConcatProperties
<1>2. Total(b) = 0 /\ \A m \in Nat : Runs(b, m)
  BY BlankLaws
<1>3. Total(p) \in Nat /\ Total(q) \in Nat
  BY LengthsTyped
<1> DEFINE m == n + Total(p)
           r == b \o q
<1>4. m \in Nat /\ m + 0 = m
  BY <1>3
<1>5. Total(r) = Total(q)
  BY <1>1, <1>2, <1>3, TotalLaws
<1>6. Runs(r, m) <=> Runs(q, m)
  BY <1>1, <1>2, <1>4, RunsLaws
<1>7. r \in Seq(Seq(B))
  BY <1>1
<1> HIDE DEF r
<1>8. Total(p \o r) = Total(p \o q)
  BY <1>5, <1>7, TotalLaws
<1>9. Runs(p \o r, n) <=> Runs(p \o q, n)
  BY <1>6, <1>7, RunsLaws
<1> QED
  BY <1>8, <1>9 DEF Way, r

\* The other party says one more byte.
LEMMA WaySaid ==
  ASSUME NEW B, NEW p \in Seq(Seq(B)), NEW inq \in Seq(B), NEW n \in Nat,
         NEW said \in Nat, NEW tells, Way(p, inq, n, said, tells)
  PROVE  Way(p, Append(inq, said + 1), n, said + 1, tells)
<1> DEFINE x == n + Total(p)
           more == Append(inq, said + 1)
<1>1. Total(p) \in Nat /\ x \in Nat
  <2>1. Total(p) \in Nat
    BY LengthsTyped
  <2> QED
    BY <2>1
<1>2. /\ Len(inq) \in Nat /\ DOMAIN inq = 1..Len(inq)
      /\ Len(more) = Len(inq) + 1 /\ DOMAIN more = 1..(Len(inq) + 1)
      /\ \A i \in 1..Len(inq) : more[i] = inq[i]
      /\ more[Len(inq) + 1] = said + 1
  OBVIOUS
<1>3. Runs(p, n) /\ x <= said /\ (tells => From(inq, x) /\ x + Len(inq) = said)
  BY DEF Way
<1> HIDE DEF x, more
<1>4. ASSUME tells PROVE From(more, x) /\ x + Len(more) = said + 1
  <2>1. ASSUME NEW i \in 1..(Len(inq) + 1) PROVE more[i] = x + i
    <3>1. CASE i = Len(inq) + 1
      <4>1. more[i] = said + 1 /\ x + Len(inq) = said
        BY <1>2, <1>3, <1>4, <3>1
      <4>2. said + 1 = x + (Len(inq) + 1)
        BY <1>1, <1>2, <4>1
      <4> QED
        BY <3>1, <4>1, <4>2
    <3>2. CASE i # Len(inq) + 1
      <4>1. i \in 1..Len(inq)
        BY <1>2, <3>2
      <4> QED
        BY <1>2, <1>3, <1>4, <4>1 DEF From
    <3> QED
      BY <3>1, <3>2
  <2> QED
    BY <1>1, <1>2, <1>3, <1>4, <2>1 DEF From
<1>5. x <= said + 1
  BY <1>1, <1>3
<1> QED
  BY <1>3, <1>4, <1>5 DEF Way, x, more

\* A sender that falls silent leaves its way as it is.
LEMMA WayMuted ==
  ASSUME NEW p, NEW inq, NEW n, NEW said, NEW tells, Way(p, inq, n, said, tells),
         NEW left, NEW u, u => tells /\ left = inq
  PROVE  Way(p, left, n, said, u)
  BY DEF Way

-----------------------------------------------------------------------------
\* Calm turns: those that pass no byte on, in either direction.

\* Calls on a socket that neither read from it nor write to it, or destroy it.
SoftOut(t, s) ==
    /\ t.got = s.got
    /\ t.out = s.out \/ (t.out = <<>> /\ t.destroyed)
    /\ s.destroyed => t.destroyed
SoftIn(t, s) ==
    /\ t.inq = s.inq \/ t.destroyed
    /\ s.destroyed => t.destroyed
Soft(t, s) == SoftOut(t, s) /\ SoftIn(t, s)

\* The calls of a calm turn are such.
LEMMA SoftCalls ==
  ASSUME NEW B, NEW s \in Socket(B)
  PROVE  /\ Soft(s, s)
         /\ Soft(Pause(s), s) /\ Soft(Resume(s), s)
         /\ Soft(DestroySocket(s), s) /\ Soft(Fail(s), s)
         /\ Soft(EndWrite(s), s) /\ Soft(Drained(s), s) /\ Soft(EmitEnd(s), s)
         /\ Soft([s EXCEPT !.error = FALSE], s) /\ Soft([s EXCEPT !.fin = TRUE], s)
         /\ DestroySocket(s).destroyed /\ Fail(s).destroyed
<1>1. s = [inq |-> s.inq, fin |-> s.fin, flowing |-> s.flowing,
           readEnded |-> s.readEnded, out |-> s.out, needDrain |-> s.needDrain,
           ended |-> s.ended, destroyed |-> s.destroyed, error |-> s.error,
           got |-> s.got]
  BY DEF Socket
<1>2. Soft(s, s) /\ Soft(Pause(s), s) /\ Soft(Resume(s), s)
  BY <1>1 DEF Soft, SoftIn, SoftOut, Pause, Resume
<1>3. /\ Soft(DestroySocket(s), s) /\ Soft(Fail(s), s)
      /\ DestroySocket(s).destroyed /\ Fail(s).destroyed
  BY <1>1 DEF Soft, SoftIn, SoftOut, DestroySocket, Fail
<1>4. Soft(EndWrite(s), s) /\ Soft(Drained(s), s) /\ Soft(EmitEnd(s), s)
  BY <1>1 DEF Soft, SoftIn, SoftOut, EndWrite, Drained, EmitEnd
<1>5. Soft([s EXCEPT !.error = FALSE], s) /\ Soft([s EXCEPT !.fin = TRUE], s)
  BY <1>1 DEF Soft, SoftIn, SoftOut
<1> QED
  BY <1>2, <1>3, <1>4, <1>5

\* One after the other they are such too.
LEMMA SoftTwice ==
  ASSUME NEW u, NEW t, NEW s, Soft(u, t), Soft(t, s)
  PROVE  Soft(u, s)
  BY DEF Soft, SoftIn, SoftOut

\* What the party behind the socket reads is the same, or stops where it is.
LEMMA SoftRead ==
  ASSUME NEW B, NEW s \in Socket(B), NEW t \in Socket(B), SoftOut(t, s)
  PROVE  /\ ReadBy(s) \in Seq(B) /\ ReadBy(t) \in Seq(B)
         /\ Len(ReadBy(t)) <= Len(ReadBy(s))
         /\ \A i \in DOMAIN ReadBy(t) : i \in DOMAIN ReadBy(s) /\ ReadBy(t)[i] = ReadBy(s)[i]
         /\ ~t.destroyed => ReadBy(t) = ReadBy(s)
<1>1. s.got \in Seq(B) /\ s.out \in Seq(B) /\ t.got \in Seq(B) /\ t.out \in Seq(B)
  BY DEF Socket
<1> DEFINE g == s.got
           o == s.out
<1>2. ReadBy(s) = g \o o /\ (ReadBy(t) = g \o o \/ (ReadBy(t) = g /\ t.destroyed))
  <2>1. \A x \in Seq(B) : x \o <<>> = x
    OBVIOUS
  <2>2. t.got \o t.out = g \o o \/ (t.got \o t.out = g /\ t.destroyed)
    BY <1>1, <2>1 DEF SoftOut
  <2> QED
    BY <2>2 DEF ReadBy
<1>3. g \in Seq(B) /\ o \in Seq(B)
  BY <1>1
<1> HIDE DEF g, o
<1>4. /\ g \o o \in Seq(B) /\ Len(g) <= Len(g \o o)
      /\ \A i \in DOMAIN g : i \in DOMAIN (g \o o) /\ g[i] = (g \o o)[i]
      /\ Len(g \o o) <= Len(g \o o)
  <2>1. /\ g \o o \in Seq(B) /\ Len(g \o o) = Len(g) + Len(o)
        /\ \A i \in 1..Len(g) : (g \o o)[i] = g[i]
    BY <1>3, ConcatProperties
  <2>2. /\ DOMAIN g = 1..Len(g) /\ Len(g) \in Nat /\ Len(o) \in Nat
        /\ DOMAIN (g \o o) = 1..Len(g \o o)
    BY <1>3, <2>1
  <2> DEFINE x == g \o o
  <2> HIDE DEF x
  <2>3. Len(x) = Len(g) + Len(o) /\ DOMAIN x = 1..Len(x) /\ \A i \in 1..Len(g) : x[i] = g[i]
    BY <2>1, <2>2 DEF x
  <2>4. Len(g) <= Len(x) /\ Len(x) <= Len(x) /\ \A i \in DOMAIN g : i \in DOMAIN x /\ g[i] = x[i]
    BY <2>2, <2>3
  <2> QED
    BY <2>1, <2>4 DEF x
<1> QED
  BY <1>2, <1>3, <1>4

\* A turn of the server's end that passes no byte on.
SrvCalm(r, h) ==
    /\ r \in SrvTurn
    /\ TypesIn(r.sent) \subseteq TypesIn(h.sent) \cup {"EOF", "ACK", "RESET"}
    /\ Soft(r.sock, h.sock)
    /\ r.st.opened = h.st.opened
    /\ h.st.finished => r.st.finished
    /\ h.st.sentEof => r.st.sentEof
    /\ h.st.receivedEof => r.st.receivedEof

\* The same of the agent's end.
CliCalm(r, h) ==
    /\ r \in CliTurn
    /\ TypesIn(r.sent) \subseteq TypesIn(h.sent) \cup {"EOF", "ACK", "RESET"}
    /\ Soft(r.sock, h.sock)
    /\ r.st.dial = h.st.dial /\ r.st.connected = h.st.connected
    /\ h.st.finished => r.st.finished
    /\ h.st.sentEof => r.st.sentEof
    /\ h.st.receivedEof => r.st.receivedEof
    /\ r.st.queued = h.st.queued
    /\ r.st.headBuf = h.st.headBuf /\ r.st.headDone = h.st.headDone
    /\ r.st.rewriteHost = h.st.rewriteHost

\* Calm turns in a row are calm, and so is another socket of that kind.
LEMMA CalmTwice ==
  ASSUME NEW q, NEW r, NEW h
  PROVE  /\ SrvCalm(q, r) /\ SrvCalm(r, h) => SrvCalm(q, h)
         /\ CliCalm(q, r) /\ CliCalm(r, h) => CliCalm(q, h)
  BY SoftTwice DEF SrvCalm, CliCalm

LEMMA CalmSock ==
  ASSUME NEW h, NEW s \in Socket(Bytes), Soft(s, h.sock)
  PROVE  /\ h \in SrvTurn => SrvCalm([h EXCEPT !.sock = s], h)
         /\ h \in CliTurn => CliCalm([h EXCEPT !.sock = s], h)
<1> DEFINE r == [h EXCEPT !.sock = s]
<1>1. ASSUME h \in SrvTurn PROVE SrvCalm(r, h)
  <2>1. r \in SrvTurn /\ r.st = h.st /\ r.sock = s /\ r.sent = h.sent
    BY <1>1 DEF SrvTurn
  <2> HIDE DEF r
  <2> QED
    BY <2>1 DEF SrvCalm
<1>2. ASSUME h \in CliTurn PROVE CliCalm(r, h)
  <2>1. r \in CliTurn /\ r.st = h.st /\ r.sock = s /\ r.sent = h.sent
    BY <1>2 DEF CliTurn
  <2> HIDE DEF r
  <2> QED
    BY <2>1 DEF CliCalm
<1> QED
  BY <1>1, <1>2

\* A turn is calm against itself.
LEMMA CalmSelf ==
  ASSUME NEW h
  PROVE  /\ h \in SrvTurn => SrvCalm(h, h)
         /\ h \in CliTurn => CliCalm(h, h)
<1>1. h \in SrvTurn \/ h \in CliTurn => Soft(h.sock, h.sock)
  BY SoftCalls DEF SrvTurn, CliTurn
<1> QED
  BY <1>1 DEF SrvCalm, CliCalm

\* What one more frame adds to what was said.
LEMMA OneMoreFrame ==
  ASSUME NEW c \in Seq(WireFrame), NEW f,
         f \in {EofFrame, ResetFrame} \/ \E n \in Nat \ {0} : f = AckFrame(n)
  PROVE  TypesIn(Append(c, f)) \subseteq TypesIn(c) \cup {"EOF", "ACK", "RESET"}
<1>1. f \in WireFrame /\ f.type \in {"EOF", "ACK", "RESET"}
  BY FramesTyped
<1> QED
  BY <1>1, AppendSeen

\* The server's handlers that pass no byte on.
LEMMA SrvCalmFlushAck ==
  ASSUME NEW h \in SrvTurn
  PROVE  SrvCalm(S!FlushAck(h), h)
<1> DEFINE r == S!FlushAck(h)
<1>1. /\ h.st.recvUnacked = 0 \/ h.st.finished => r = h
      /\ ~(h.st.recvUnacked = 0 \/ h.st.finished) =>
            /\ r \in SrvTurn
            /\ r.st = [h.st EXCEPT !.recvUnacked = 0]
            /\ r.sock = h.sock
            /\ r.sent = Append(h.sent, AckFrame(h.st.recvUnacked))
  BY SrvFlushAck
<1>2. h.st \in SrvType /\ h.sock \in Socket(Bytes) /\ h.sent \in Seq(WireFrame)
  BY DEF SrvTurn
<1> HIDE DEF r
<1>3. CASE r = h
  BY <1>3, CalmSelf DEF r
<1>4. CASE ~(h.st.recvUnacked = 0 \/ h.st.finished)
  <2>1. h.st.recvUnacked \in Nat \ {0}
    BY <1>2, <1>4 DEF SrvType
  <2>2. TypesIn(r.sent) \subseteq TypesIn(h.sent) \cup {"EOF", "ACK", "RESET"}
    BY <1>1, <1>2, <1>4, <2>1, OneMoreFrame
  <2>3. Soft(r.sock, h.sock)
    BY <1>1, <1>2, <1>4, SoftCalls
  <2>4. /\ r.st.opened = h.st.opened /\ r.st.finished = h.st.finished
        /\ r.st.sentEof = h.st.sentEof /\ r.st.receivedEof = h.st.receivedEof
    BY <1>1, <1>2, <1>4 DEF SrvType
  <2> QED
    BY <1>1, <1>4, <2>2, <2>3, <2>4 DEF SrvCalm, r
<1> QED
  BY <1>1, <1>3, <1>4 DEF r

LEMMA SrvCalmDestroy ==
  ASSUME NEW h \in SrvTurn, NEW reason
  PROVE  SrvCalm(S!Destroy(h, reason), h)
<1> DEFINE r == S!Destroy(h, reason)
<1>1. /\ h.st.finished => r = h
      /\ ~h.st.finished =>
            /\ r \in SrvTurn
            /\ r.st = [h.st EXCEPT !.finished = TRUE]
            /\ r.sock = DestroySocket(h.sock)
            /\ r.sent = h.sent \/ r.sent = Append(h.sent, ResetFrame)
  BY SrvDestroy
<1>2. h.st \in SrvType /\ h.sock \in Socket(Bytes) /\ h.sent \in Seq(WireFrame)
  BY DEF SrvTurn
<1> HIDE DEF r
<1>3. CASE h.st.finished
  BY <1>1, <1>3, CalmSelf DEF r
<1>4. CASE ~h.st.finished
  <2>2. TypesIn(r.sent) \subseteq TypesIn(h.sent) \cup {"EOF", "ACK", "RESET"}
    BY <1>1, <1>2, <1>4, OneMoreFrame
  <2>3. Soft(r.sock, h.sock)
    BY <1>1, <1>2, <1>4, SoftCalls
  <2>4. /\ r.st.opened = h.st.opened /\ r.st.finished
        /\ r.st.sentEof = h.st.sentEof /\ r.st.receivedEof = h.st.receivedEof
    BY <1>1, <1>2, <1>4 DEF SrvType
  <2> QED
    BY <1>1, <1>4, <2>2, <2>3, <2>4 DEF SrvCalm, r
<1> QED
  BY <1>3, <1>4

LEMMA SrvCalmEnd ==
  ASSUME NEW h \in SrvTurn
  PROVE  SrvCalm(S!OnSocketEnd(h), h)
<1> DEFINE r == S!OnSocketEnd(h)
<1>1. /\ h.st.finished \/ h.st.sentEof => r = h
      /\ ~(h.st.finished \/ h.st.sentEof) =>
            /\ r \in SrvTurn
            /\ \/ r.st = [h.st EXCEPT !.sentEof = TRUE, !.finished = TRUE]
               \/ r.st = [h.st EXCEPT !.sentEof = TRUE]
            /\ r.sock = h.sock
            /\ r.sent = Append(h.sent, EofFrame)
  BY SrvSocketEnd
<1>2. h.st \in SrvType /\ h.sock \in Socket(Bytes) /\ h.sent \in Seq(WireFrame)
  BY DEF SrvTurn
<1> HIDE DEF r
<1>3. CASE h.st.finished \/ h.st.sentEof
  BY <1>1, <1>3, CalmSelf DEF r
<1>4. CASE ~(h.st.finished \/ h.st.sentEof)
  <2>2. TypesIn(r.sent) \subseteq TypesIn(h.sent) \cup {"EOF", "ACK", "RESET"}
    BY <1>1, <1>2, <1>4, OneMoreFrame
  <2>3. Soft(r.sock, h.sock)
    BY <1>1, <1>2, <1>4, SoftCalls
  <2>4. /\ r.st.opened = h.st.opened
        /\ r.st.sentEof /\ r.st.receivedEof = h.st.receivedEof
    BY <1>1, <1>2, <1>4 DEF SrvType
  <2> QED
    BY <1>1, <1>4, <2>2, <2>3, <2>4 DEF SrvCalm, r
<1> QED
  BY <1>3, <1>4

LEMMA SrvCalmEof ==
  ASSUME NEW h \in SrvTurn
  PROVE  SrvCalm(S!OnEof(h), h)
<1> DEFINE r == S!OnEof(h)
<1>1. /\ h.st.finished \/ h.st.receivedEof => r = h
      /\ ~(h.st.finished \/ h.st.receivedEof) =>
            /\ r \in SrvTurn
            /\ r.st = [h.st EXCEPT !.receivedEof = TRUE, !.recvUnacked = 0,
                                   !.finished = h.st.sentEof]
            /\ r.sock = EndWrite(h.sock)
            /\ r.sent = IF h.st.recvUnacked = 0 THEN h.sent
                        ELSE Append(h.sent, AckFrame(h.st.recvUnacked))
  BY SrvOnEof
<1>2. h.st \in SrvType /\ h.sock \in Socket(Bytes) /\ h.sent \in Seq(WireFrame)
  BY DEF SrvTurn
<1> HIDE DEF r
<1>3. CASE h.st.finished \/ h.st.receivedEof
  BY <1>1, <1>3, CalmSelf DEF r
<1>4. CASE ~(h.st.finished \/ h.st.receivedEof)
  <2>1. h.st.recvUnacked \in Nat
    BY <1>2 DEF SrvType
  <2>2. TypesIn(r.sent) \subseteq TypesIn(h.sent) \cup {"EOF", "ACK", "RESET"}
    BY <1>1, <1>2, <1>4, <2>1, OneMoreFrame
  <2>3. Soft(r.sock, h.sock)
    BY <1>1, <1>2, <1>4, SoftCalls
  <2>4. /\ r.st.opened = h.st.opened
        /\ r.st.sentEof = h.st.sentEof /\ r.st.receivedEof
    BY <1>1, <1>2, <1>4 DEF SrvType
  <2> QED
    BY <1>1, <1>4, <2>2, <2>3, <2>4 DEF SrvCalm, r
<1> QED
  BY <1>3, <1>4

LEMMA SrvCalmAck ==
  ASSUME NEW h \in SrvTurn, NEW n \in Nat
  PROVE  SrvCalm(S!OnAck(h, n), h)
<1> DEFINE r == S!OnAck(h, n)
<1>1. /\ h.st.finished => r = h
      /\ ~h.st.finished =>
            /\ r \in SrvTurn
            /\ r.sent = h.sent
            /\ \/ /\ r.st = [h.st EXCEPT !.sendCredit = h.st.sendCredit + n]
                  /\ r.sock = h.sock
               \/ /\ r.st = [h.st EXCEPT !.sendCredit = h.st.sendCredit + n,
                                         !.pausedForCredit = FALSE]
                  /\ r.sock = Resume(h.sock)
  BY SrvOnAck
<1>2. h.st \in SrvType /\ h.sock \in Socket(Bytes)
  BY DEF SrvTurn
<1> HIDE DEF r
<1>3. CASE h.st.finished
  BY <1>1, <1>3, CalmSelf DEF r
<1>4. CASE ~h.st.finished
  <2>3. Soft(r.sock, h.sock)
    BY <1>1, <1>2, <1>4, SoftCalls
  <2>4. /\ r.st.opened = h.st.opened
        /\ r.st.sentEof = h.st.sentEof /\ r.st.receivedEof = h.st.receivedEof
    BY <1>1, <1>2, <1>4 DEF SrvType
  <2> QED
    BY <1>1, <1>4, <2>3, <2>4 DEF SrvCalm, r
<1> QED
  BY <1>3, <1>4

LEMMA SrvCalmPause ==
  ASSUME NEW h \in SrvTurn, NEW paused \in BOOLEAN
  PROVE  SrvCalm(S!SetGlobalPause(h, paused), h)
<1> DEFINE r == S!SetGlobalPause(h, paused)
<1>1. SrvRepaused(r, h)
  BY SrvGlobalPause
<1>2. h.st \in SrvType /\ h.sock \in Socket(Bytes)
  BY DEF SrvTurn
<1> HIDE DEF r
<1>3. Soft(r.sock, h.sock)
  BY <1>1, <1>2, SoftCalls DEF SrvRepaused
<1>4. /\ r.st.opened = h.st.opened /\ r.st.finished = h.st.finished
      /\ r.st.sentEof = h.st.sentEof /\ r.st.receivedEof = h.st.receivedEof
  BY <1>1, <1>2 DEF SrvRepaused, SrvType
<1> QED
  BY <1>1, <1>3, <1>4 DEF SrvRepaused, SrvCalm, r

LEMMA SrvCalmFinish ==
  ASSUME NEW h \in SrvTurn
  PROVE  SrvCalm(S!Finish(h), h)
<1>1. h.st \in SrvType /\ h.sock \in Socket(Bytes)
  BY DEF SrvTurn
<1> DEFINE r == S!Finish(h)
<1>2. /\ r \in SrvTurn /\ r.st = [h.st EXCEPT !.finished = TRUE]
      /\ r.sock = h.sock /\ r.sent = h.sent
  BY SrvFinish
<1> HIDE DEF r
<1>3. Soft(r.sock, h.sock)
  BY <1>1, <1>2, SoftCalls
<1>4. /\ r.st.opened = h.st.opened /\ r.st.finished
      /\ r.st.sentEof = h.st.sentEof /\ r.st.receivedEof = h.st.receivedEof
  BY <1>1, <1>2 DEF SrvType
<1> QED
  BY <1>2, <1>3, <1>4 DEF SrvCalm, r

LEMMA SrvCalmReset ==
  ASSUME NEW h \in SrvTurn
  PROVE  SrvCalm(S!Send(h, ResetFrame), h)
<1>1. h.sock \in Socket(Bytes) /\ h.sent \in Seq(WireFrame) /\ ResetFrame \in WireFrame
  BY FramesTyped DEF SrvTurn
<1>2. Soft(h.sock, h.sock)
  BY <1>1, SoftCalls
<1>3. TypesIn(Append(h.sent, ResetFrame)) \subseteq TypesIn(h.sent) \cup {"EOF", "ACK", "RESET"}
  BY <1>1, OneMoreFrame
<1> QED
  BY <1>1, <1>2, <1>3, SrvSend DEF SrvCalm

\* The same handlers of the agent.
LEMMA CliCalmFlushAck ==
  ASSUME NEW h \in CliTurn
  PROVE  CliCalm(C!FlushAck(h), h)
<1> DEFINE r == C!FlushAck(h)
<1>1. /\ h.st.recvUnacked = 0 \/ h.st.finished => r = h
      /\ ~(h.st.recvUnacked = 0 \/ h.st.finished) =>
            /\ r \in CliTurn
            /\ r.st = [h.st EXCEPT !.recvUnacked = 0]
            /\ r.sock = h.sock
            /\ r.sent = Append(h.sent, AckFrame(h.st.recvUnacked))
  BY CliFlushAck
<1>2. h.st \in CliType /\ h.sock \in Socket(Bytes) /\ h.sent \in Seq(WireFrame)
  BY DEF CliTurn
<1> HIDE DEF r
<1>3. CASE r = h
  BY <1>3, CalmSelf DEF r
<1>4. CASE ~(h.st.recvUnacked = 0 \/ h.st.finished)
  <2>1. h.st.recvUnacked \in Nat \ {0}
    BY <1>2, <1>4 DEF CliType
  <2>2. TypesIn(r.sent) \subseteq TypesIn(h.sent) \cup {"EOF", "ACK", "RESET"}
    BY <1>1, <1>2, <1>4, <2>1, OneMoreFrame
  <2>3. Soft(r.sock, h.sock)
    BY <1>1, <1>2, <1>4, SoftCalls
  <2>4. /\ r.st.dial = h.st.dial
        /\ r.st.connected = h.st.connected /\ r.st.queued = h.st.queued
        /\ r.st.headBuf = h.st.headBuf /\ r.st.headDone = h.st.headDone
        /\ r.st.rewriteHost = h.st.rewriteHost /\ r.st.finished = h.st.finished
        /\ r.st.sentEof = h.st.sentEof /\ r.st.receivedEof = h.st.receivedEof
    BY <1>1, <1>2, <1>4 DEF CliType
  <2> QED
    BY <1>1, <1>4, <2>2, <2>3, <2>4 DEF CliCalm, r
<1> QED
  BY <1>1, <1>3, <1>4 DEF r

LEMMA CliCalmDestroy ==
  ASSUME NEW h \in CliTurn, NEW reason
  PROVE  CliCalm(C!Destroy(h, reason), h)
<1> DEFINE r == C!Destroy(h, reason)
<1>1. /\ h.st.finished => r = h
      /\ ~h.st.finished =>
            /\ r \in CliTurn
            /\ r.st = [h.st EXCEPT !.finished = TRUE]
            /\ r.sock = DestroySocket(h.sock) \/ r.sock = h.sock
            /\ r.sent = h.sent \/ r.sent = Append(h.sent, ResetFrame)
  BY CliDestroy
<1>2. h.st \in CliType /\ h.sock \in Socket(Bytes) /\ h.sent \in Seq(WireFrame)
  BY DEF CliTurn
<1> HIDE DEF r
<1>3. CASE h.st.finished
  BY <1>1, <1>3, CalmSelf DEF r
<1>4. CASE ~h.st.finished
  <2>2. TypesIn(r.sent) \subseteq TypesIn(h.sent) \cup {"EOF", "ACK", "RESET"}
    BY <1>1, <1>2, <1>4, OneMoreFrame
  <2>3. Soft(r.sock, h.sock)
    BY <1>1, <1>2, <1>4, SoftCalls
  <2>4. /\ r.st.dial = h.st.dial
        /\ r.st.connected = h.st.connected /\ r.st.queued = h.st.queued
        /\ r.st.headBuf = h.st.headBuf /\ r.st.headDone = h.st.headDone
        /\ r.st.rewriteHost = h.st.rewriteHost /\ r.st.finished
        /\ r.st.sentEof = h.st.sentEof /\ r.st.receivedEof = h.st.receivedEof
    BY <1>1, <1>2, <1>4 DEF CliType
  <2> QED
    BY <1>1, <1>4, <2>2, <2>3, <2>4 DEF CliCalm, r
<1> QED
  BY <1>3, <1>4

LEMMA CliCalmEnd ==
  ASSUME NEW h \in CliTurn
  PROVE  CliCalm(C!OnLocalEnd(h), h)
<1> DEFINE r == C!OnLocalEnd(h)
<1>1. /\ h.st.finished \/ h.st.sentEof => r = h
      /\ ~(h.st.finished \/ h.st.sentEof) =>
            /\ r \in CliTurn
            /\ \/ r.st = [h.st EXCEPT !.sentEof = TRUE, !.finished = TRUE]
               \/ r.st = [h.st EXCEPT !.sentEof = TRUE]
            /\ r.sock = h.sock
            /\ r.sent = Append(h.sent, EofFrame)
  BY CliLocalEnd
<1>2. h.st \in CliType /\ h.sock \in Socket(Bytes) /\ h.sent \in Seq(WireFrame)
  BY DEF CliTurn
<1> HIDE DEF r
<1>3. CASE h.st.finished \/ h.st.sentEof
  BY <1>1, <1>3, CalmSelf DEF r
<1>4. CASE ~(h.st.finished \/ h.st.sentEof)
  <2>2. TypesIn(r.sent) \subseteq TypesIn(h.sent) \cup {"EOF", "ACK", "RESET"}
    BY <1>1, <1>2, <1>4, OneMoreFrame
  <2>3. Soft(r.sock, h.sock)
    BY <1>1, <1>2, <1>4, SoftCalls
  <2>4. /\ r.st.dial = h.st.dial
        /\ r.st.connected = h.st.connected /\ r.st.queued = h.st.queued
        /\ r.st.headBuf = h.st.headBuf /\ r.st.headDone = h.st.headDone
        /\ r.st.rewriteHost = h.st.rewriteHost
        /\ r.st.sentEof /\ r.st.receivedEof = h.st.receivedEof
    BY <1>1, <1>2, <1>4 DEF CliType
  <2> QED
    BY <1>1, <1>4, <2>2, <2>3, <2>4 DEF CliCalm, r
<1> QED
  BY <1>3, <1>4

LEMMA CliCalmAck ==
  ASSUME NEW h \in CliTurn, NEW n \in Nat
  PROVE  CliCalm(C!OnAck(h, n), h)
<1> DEFINE r == C!OnAck(h, n)
<1>1. /\ h.st.finished => r = h
      /\ ~h.st.finished =>
            /\ r \in CliTurn
            /\ r.sent = h.sent
            /\ \/ /\ r.st = [h.st EXCEPT !.sendCredit = h.st.sendCredit + n]
                  /\ r.sock = h.sock
               \/ /\ r.st = [h.st EXCEPT !.sendCredit = h.st.sendCredit + n,
                                         !.pausedForCredit = FALSE]
                  /\ r.sock = Resume(h.sock)
  BY CliOnAck
<1>2. h.st \in CliType /\ h.sock \in Socket(Bytes)
  BY DEF CliTurn
<1> HIDE DEF r
<1>3. CASE h.st.finished
  BY <1>1, <1>3, CalmSelf DEF r
<1>4. CASE ~h.st.finished
  <2>3. Soft(r.sock, h.sock)
    BY <1>1, <1>2, <1>4, SoftCalls
  <2>4. /\ r.st.dial = h.st.dial
        /\ r.st.connected = h.st.connected /\ r.st.queued = h.st.queued
        /\ r.st.headBuf = h.st.headBuf /\ r.st.headDone = h.st.headDone
        /\ r.st.rewriteHost = h.st.rewriteHost
        /\ r.st.sentEof = h.st.sentEof /\ r.st.receivedEof = h.st.receivedEof
    BY <1>1, <1>2, <1>4 DEF CliType
  <2> QED
    BY <1>1, <1>4, <2>3, <2>4 DEF CliCalm, r
<1> QED
  BY <1>3, <1>4

LEMMA CliCalmPause ==
  ASSUME NEW h \in CliTurn, NEW paused \in BOOLEAN
  PROVE  CliCalm(C!SetGlobalPause(h, paused), h)
<1> DEFINE r == C!SetGlobalPause(h, paused)
<1>1. CliRepaused(r, h)
  BY CliGlobalPause
<1>2. h.st \in CliType /\ h.sock \in Socket(Bytes)
  BY DEF CliTurn
<1> HIDE DEF r
<1>3. Soft(r.sock, h.sock)
  BY <1>1, <1>2, SoftCalls DEF CliRepaused
<1>4. /\ r.st.dial = h.st.dial
      /\ r.st.connected = h.st.connected /\ r.st.queued = h.st.queued
      /\ r.st.headBuf = h.st.headBuf /\ r.st.headDone = h.st.headDone
      /\ r.st.rewriteHost = h.st.rewriteHost /\ r.st.finished = h.st.finished
      /\ r.st.sentEof = h.st.sentEof /\ r.st.receivedEof = h.st.receivedEof
  BY <1>1, <1>2 DEF CliRepaused, CliType
<1> QED
  BY <1>1, <1>3, <1>4 DEF CliRepaused, CliCalm, r

LEMMA CliCalmFinish ==
  ASSUME NEW h \in CliTurn
  PROVE  CliCalm(C!Finish(h), h)
<1>1. h.st \in CliType /\ h.sock \in Socket(Bytes)
  BY DEF CliTurn
<1> DEFINE r == C!Finish(h)
<1>2. /\ r \in CliTurn /\ r.st = [h.st EXCEPT !.finished = TRUE]
      /\ r.sock = h.sock /\ r.sent = h.sent
  BY CliFinish
<1> HIDE DEF r
<1>3. Soft(r.sock, h.sock)
  BY <1>1, <1>2, SoftCalls
<1>4. /\ r.st.dial = h.st.dial
      /\ r.st.connected = h.st.connected /\ r.st.queued = h.st.queued
      /\ r.st.headBuf = h.st.headBuf /\ r.st.headDone = h.st.headDone
      /\ r.st.rewriteHost = h.st.rewriteHost /\ r.st.finished
      /\ r.st.sentEof = h.st.sentEof /\ r.st.receivedEof = h.st.receivedEof
  BY <1>1, <1>2 DEF CliType
<1> QED
  BY <1>2, <1>3, <1>4 DEF CliCalm, r

LEMMA CliCalmReset ==
  ASSUME NEW h \in CliTurn
  PROVE  CliCalm(C!Send(h, ResetFrame), h)
<1>1. h.sock \in Socket(Bytes) /\ h.sent \in Seq(WireFrame) /\ ResetFrame \in WireFrame
  BY FramesTyped DEF CliTurn
<1>2. Soft(h.sock, h.sock)
  BY <1>1, SoftCalls
<1>3. TypesIn(Append(h.sent, ResetFrame)) \subseteq TypesIn(h.sent) \cup {"EOF", "ACK", "RESET"}
  BY <1>1, OneMoreFrame
<1> QED
  BY <1>1, <1>2, <1>3, CliSend DEF CliCalm

-----------------------------------------------------------------------------
\* Channels.

\* Concatenation.
LEMMA Concats ==
  ASSUME NEW B
  PROVE  /\ \A p \in Seq(B) : p \o <<>> = p /\ <<>> \o p = p
         /\ \A p, q \in Seq(B) : p \o q \in Seq(B)
         /\ \A p, q, r \in Seq(B) : (p \o q) \o r = p \o (q \o r)
<1>1. \A p \in Seq(B) : p \o <<>> = p /\ <<>> \o p = p
  OBVIOUS
<1>2. \A p, q \in Seq(B) : p \o q \in Seq(B)
  OBVIOUS
<1>3. \A p, q, r \in Seq(B) : (p \o q) \o r = p \o (q \o r)
  OBVIOUS
<1> QED
  BY <1>1, <1>2, <1>3

\* Frames without data change no way, at the end of a channel or at its front.
LEMMA BlankFrames ==
  ASSUME NEW c \in Seq(WireFrame), NEW b \in Seq(WireFrame), "DATA" \notin TypesIn(b),
         NEW q \in Seq(Seq(Bytes)), NEW inq \in Seq(Bytes), NEW n \in Nat,
         NEW said, NEW tells
  PROVE  /\ Way(q \o Pieces(c \o b), inq, n, said, tells)
               <=> Way(q \o Pieces(c), inq, n, said, tells)
         /\ Way(q \o Pieces(b \o c), inq, n, said, tells)
               <=> Way(q \o Pieces(c), inq, n, said, tells)
<1> DEFINE x == Pieces(c)
           y == Pieces(b)
<1>1. x \in Seq(Seq(Bytes)) /\ y \in Seq(Seq(Bytes)) /\ y \in Seq({<<>>})
  BY PiecesLaws
<1>2. Pieces(c \o b) = x \o y /\ Pieces(b \o c) = y \o x
  BY PiecesLaws
<1> HIDE DEF x, y
<1>3. /\ q \o x \in Seq(Seq(Bytes)) /\ <<>> \in Seq(Seq(Bytes))
      /\ (q \o x) \o y = q \o (x \o y)
      /\ y \o <<>> = y /\ (q \o x) \o <<>> = q \o x
  <2> DEFINE D == Seq(Bytes)
  <2>1. q \in Seq(D) /\ x \in Seq(D) /\ y \in Seq(D) /\ <<>> \in Seq(D)
    BY <1>1
  <2> HIDE DEF D
  <2>2. /\ q \o x \in Seq(D)
        /\ (q \o x) \o y = q \o (x \o y)
        /\ y \o <<>> = y
    BY <2>1, Concats
  <2>3. (q \o x) \o <<>> = q \o x
    BY <2>2, Concats
  <2> QED
    BY <2>1, <2>2, <2>3 DEF D
<1> DEFINE w == q \o x
<1>4. w \in Seq(Seq(Bytes)) /\ <<>> \in Seq(Seq(Bytes))
  BY <1>3
<1> HIDE DEF w
<1>5. Way(w \o (y \o <<>>), inq, n, said, tells) <=> Way(w \o <<>>, inq, n, said, tells)
  BY <1>1, <1>4, WayBlank
<1>6. Way(q \o (y \o x), inq, n, said, tells) <=> Way(q \o x, inq, n, said, tells)
  BY <1>1, WayBlank
<1> QED
  BY <1>2, <1>3, <1>5, <1>6 DEF w, x

\* A frame of data at the end of a channel is what the sender took.
LEMMA DataSent ==
  ASSUME NEW c \in Seq(WireFrame), NEW q \in Seq(Seq(Bytes)), NEW inq \in Seq(Bytes),
         NEW n \in Nat, NEW said \in Nat, NEW k \in 1..Len(inq), NEW u,
         Way(q \o Pieces(c), inq, n, said, TRUE)
  PROVE  Way(q \o Pieces(c \o <<DataFrame(SubSeq(inq, 1, k))>>),
             SubSeq(inq, k + 1, Len(inq)), n, said, u)
<1> DEFINE x == Pieces(c)
           w == q \o x
           d == SubSeq(inq, 1, k)
           f == DataFrame(d)
<1>1. x \in Seq(Seq(Bytes))
  BY PiecesLaws
<1>2. d \in Seq(Bytes) /\ d # <<>>
  <2>1. Len(inq) \in Nat /\ k \in Nat /\ k <= Len(inq) /\ k # 0
    OBVIOUS
  <2>2. SubSeq(inq, 1, k) \in Seq(Bytes) /\ Len(SubSeq(inq, 1, k)) = k
    BY <2>1
  <2>3. Len(<<>>) = 0
    OBVIOUS
  <2> QED
    BY <2>1, <2>2, <2>3
<1>3. k \in 0..Len(inq)
  OBVIOUS
<1> HIDE DEF x, d
<1>4. f \in WireFrame /\ f.type = "DATA" /\ f.data = d
  <2>1. f.data = d
    BY DEF DataFrame
  <2> QED
    BY <1>2, <2>1, FramesTyped
<1> HIDE DEF f
<1>5. Pieces(<<f>>) = <<d>> /\ <<f>> \in Seq(WireFrame)
  BY <1>4, PiecesLaws
<1>6. Pieces(c \o <<f>>) = x \o <<d>>
  BY <1>5, PiecesLaws DEF x
<1>7. w \in Seq(Seq(Bytes)) /\ w \o <<d>> = q \o (x \o <<d>>)
  <2> DEFINE D == Seq(Bytes)
             y == <<d>>
  <2>1. q \in Seq(D) /\ x \in Seq(D) /\ y \in Seq(D)
    BY <1>1, <1>2
  <2> HIDE DEF D, y
  <2>2. q \o x \in Seq(D) /\ (q \o x) \o y = q \o (x \o y)
    BY <2>1, Concats
  <2> QED
    BY <2>2 DEF D, y
<1>8. Way(w, inq, n, said, TRUE)
  BY DEF x
<1> HIDE DEF w
<1>9. Way(w \o <<d>>, SubSeq(inq, k + 1, Len(inq)), n, said, u)
  BY <1>3, <1>7, <1>8, WaySent DEF d
<1> QED
  BY <1>6, <1>7, <1>9 DEF f, d

-----------------------------------------------------------------------------
\* The step of one end.

\* The places a byte can be are of their types.
LEMMA Places ==
  ASSUME IInv
  PROVE  /\ srv \in SrvType /\ pub \in Socket(Bytes) /\ pub.inq \in Seq(Bytes)
         /\ cli \in CliType /\ loc \in Socket(Bytes) /\ loc.inq \in Seq(Bytes)
         /\ toAgent \in Seq(WireFrame) /\ toServer \in Seq(WireFrame)
         /\ cli.queued \in Seq(Seq(Bytes)) /\ cli.headBuf \in Seq(Bytes)
         /\ cli.rewriteHost \in BOOLEAN /\ cli.headDone \in BOOLEAN
         /\ visitorSaid \in Nat /\ visitorSaid <= UpBytes /\ serviceSaid \in Nat
         /\ \A n \in 0..visitorSaid : n \in Nat
<1>1. Types
  BY DEF IInv
<1>2. /\ cli.queued \in Seq(Seq(Bytes) \ {<<>>}) /\ cli.headBuf \in Seq(Bytes)
      /\ cli.rewriteHost \in BOOLEAN /\ cli.headDone \in BOOLEAN
  BY <1>1 DEF Types, CliType
<1>3. cli.queued \in Seq(Seq(Bytes))
  BY <1>2, SeqMonotonic
<1>4. /\ visitorSaid \in Nat /\ visitorSaid <= UpBytes /\ serviceSaid \in Nat
      /\ \A n \in 0..visitorSaid : n \in Nat
  BY <1>1, BridgeAssumption DEF Types
<1>5. pub.inq \in Seq(Bytes) /\ loc.inq \in Seq(Bytes)
  BY <1>1 DEF Types, Socket
<1> QED
  BY <1>1, <1>2, <1>3, <1>4, <1>5 DEF Types

\* From the service to the visitor, as the visitor's side sees it.
LEMMA DownTaken ==
  ASSUME IInv, Down, NEW t \in Seq(WireFrame), toServer' \in Seq(WireFrame),
         toServer = t \o toServer',
         "DATA" \notin TypesIn(t) \/ ~Hears(srv, pub),
         pub' \in Socket(Bytes), SoftOut(pub', pub),
         srv.finished => srv'.finished, srv.receivedEof => srv'.receivedEof,
         cli' = cli, loc' = loc, linkUp' = linkUp, serviceSaid' = serviceSaid
  PROVE  Down'
<1>1. /\ pub \in Socket(Bytes) /\ loc.inq \in Seq(Bytes) /\ serviceSaid \in Nat
  BY BridgeAssumption DEF IInv, Types, Socket
<1> DEFINE new == pub'
           c == toServer'
           a == ReadBy(pub)
           b == ReadBy(new)
<1>2. new \in Socket(Bytes) /\ SoftOut(new, pub) /\ c \in Seq(WireFrame)
  OBVIOUS
<1> HIDE DEF new, c
<1>3. /\ a \in Seq(Bytes) /\ b \in Seq(Bytes) /\ Len(b) <= Len(a)
      /\ \A i \in DOMAIN b : i \in DOMAIN a /\ b[i] = a[i]
      /\ ~new.destroyed => b = a
  BY <1>1, <1>2, SoftRead
<1>4. Len(a) \in Nat /\ Len(b) \in Nat
  BY <1>3
<1>5. From(a, 0) /\ Len(a) <= serviceSaid
  BY DEF Down
<1> HIDE DEF a, b
<1>6. From(b, 0) /\ Len(b) <= serviceSaid
  BY <1>1, <1>3, <1>4, <1>5 DEF From
<1>7. ASSUME Hears(srv', new)
      PROVE  Way(Pieces(c), loc.inq, Len(b), serviceSaid, Tells(cli, loc))
  <2>1. Hears(srv, pub) /\ ~new.destroyed
    BY <1>2, <1>7 DEF Hears, SoftOut
  <2>2. b = a /\ Way(Pieces(t \o c), loc.inq, Len(a), serviceSaid, Tells(cli, loc))
    BY <1>3, <2>1 DEF Down, a, c
  <2>3. <<>> \in Seq(Seq(Bytes))
    OBVIOUS
  <2>4. t \o c \in Seq(WireFrame)
    BY <1>2
  <2>5. <<>> \o Pieces(t \o c) = Pieces(t \o c) /\ <<>> \o Pieces(c) = Pieces(c)
    BY <1>2, <2>4, PiecesLaws
  <2> DEFINE u == Tells(cli, loc)
  <2> HIDE DEF u
  <2>6. Way(<<>> \o Pieces(t \o c), loc.inq, Len(a), serviceSaid, u)
           <=> Way(<<>> \o Pieces(c), loc.inq, Len(a), serviceSaid, u)
    BY <1>1, <1>2, <1>4, <2>1, <2>3, BlankFrames
  <2> QED
    BY <2>2, <2>5, <2>6 DEF u
<1>8. From(ReadBy(pub'), 0) /\ Len(ReadBy(pub')) <= serviceSaid'
  BY <1>6 DEF b, new
<1>9. Tells(cli, loc)' = Tells(cli, loc)
  BY DEF Tells
<1>10. Hears(srv, pub)' =>
         Way(Pieces(toServer'), loc'.inq, Len(ReadBy(pub')), serviceSaid', Tells(cli, loc)')
  BY <1>7, <1>9 DEF Hears, b, c, new
<1> QED
  BY <1>8, <1>10 DEF Down

\* From the visitor to the service, as the visitor's side sees it: when it says
\* nothing of what its socket holds,
LEMMA UpBlank ==
  ASSUME IInv, Up, NEW b \in Seq(WireFrame), toAgent' = toAgent \o b,
         "DATA" \notin TypesIn(b),
         Tells(srv, pub)' => Tells(srv, pub) /\ pub'.inq = pub.inq,
         Refused => Refused',
         cli' = cli, loc' = loc, visitorSaid' = visitorSaid
  PROVE  Up'
<1>1. /\ AllSeen(cli'.rewriteHost, ReadBy(loc'))
      /\ Len(ReadBy(loc')) <= SeenLen(cli'.rewriteHost, visitorSaid')
      /\ cli'.connected => cli'.queued = <<>>
  BY DEF Up
<1>2. ASSUME Hears(cli', loc'), ~Refused'
      PROVE  \E n \in 0..visitorSaid :
                /\ Taken(cli, ReadBy(loc), n)
                /\ Way(cli.queued \o Pieces(toAgent'), pub'.inq, n, visitorSaid,
                       Tells(srv, pub)')
  <2>1. Hears(cli, loc) /\ ~Refused
    BY <1>2
  <2>2. PICK n \in 0..visitorSaid :
           /\ Taken(cli, ReadBy(loc), n)
           /\ Way(cli.queued \o Pieces(toAgent), pub.inq, n, visitorSaid, Tells(srv, pub))
    BY <2>1 DEF Up
  <2>3. /\ toAgent \in Seq(WireFrame) /\ cli.queued \in Seq(Seq(Bytes))
        /\ pub.inq \in Seq(Bytes) /\ n \in Nat
    BY <2>2, Places
  <2> DEFINE u == Tells(srv, pub)
             v == Tells(srv, pub)'
             inq == pub.inq
             left == pub'.inq
             q == cli.queued
             c == toAgent
  <2>4. /\ Way(q \o Pieces(c), inq, n, visitorSaid, u) /\ (v => u /\ left = inq)
        /\ q \in Seq(Seq(Bytes)) /\ c \in Seq(WireFrame) /\ inq \in Seq(Bytes)
    BY <2>2, <2>3
  <2> HIDE DEF u, v, inq, left, q, c
  <2>5. Way(q \o Pieces(c \o b), inq, n, visitorSaid, u)
    BY <2>3, <2>4, BlankFrames
  <2> DEFINE w == q \o Pieces(c \o b)
  <2> HIDE DEF w
  <2>6. Way(w, left, n, visitorSaid, v)
    BY <2>4, <2>5, WayMuted DEF w
  <2> QED
    BY <2>2, <2>6 DEF w, u, v, inq, left, q, c
<1> QED
  BY <1>1, <1>2 DEF Up

\* and when it passes on the first bytes of it.
LEMMA UpData ==
  ASSUME IInv, Up, Tells(srv, pub), NEW k \in 1..Len(pub.inq),
         NEW b \in Seq(WireFrame), "DATA" \notin TypesIn(b),
         toAgent' = toAgent \o (b \o <<DataFrame(SubSeq(pub.inq, 1, k))>>),
         pub'.inq = SubSeq(pub.inq, k + 1, Len(pub.inq)),
         Refused => Refused',
         cli' = cli, loc' = loc, visitorSaid' = visitorSaid
  PROVE  Up'
<1>1. /\ AllSeen(cli'.rewriteHost, ReadBy(loc'))
      /\ Len(ReadBy(loc')) <= SeenLen(cli'.rewriteHost, visitorSaid')
      /\ cli'.connected => cli'.queued = <<>>
  BY DEF Up
<1>2. ASSUME Hears(cli', loc'), ~Refused'
      PROVE  \E n \in 0..visitorSaid :
                /\ Taken(cli, ReadBy(loc), n)
                /\ Way(cli.queued \o Pieces(toAgent'), pub'.inq, n, visitorSaid,
                       Tells(srv, pub)')
  <2>1. Hears(cli, loc) /\ ~Refused
    BY <1>2
  <2>2. PICK n \in 0..visitorSaid :
           /\ Taken(cli, ReadBy(loc), n)
           /\ Way(cli.queued \o Pieces(toAgent), pub.inq, n, visitorSaid, Tells(srv, pub))
    BY <2>1 DEF Up
  <2>3. /\ toAgent \in Seq(WireFrame) /\ cli.queued \in Seq(Seq(Bytes))
        /\ pub.inq \in Seq(Bytes) /\ n \in Nat /\ visitorSaid \in Nat
    BY <2>2, Places
  <2> DEFINE v == Tells(srv, pub)'
             inq == pub.inq
             left == SubSeq(inq, k + 1, Len(inq))
             f == DataFrame(SubSeq(inq, 1, k))
             q == cli.queued
             c == toAgent
             said == visitorSaid
  <2>4. /\ Way(q \o Pieces(c), inq, n, said, TRUE) /\ k \in 1..Len(inq)
        /\ q \in Seq(Seq(Bytes)) /\ c \in Seq(WireFrame) /\ inq \in Seq(Bytes)
        /\ said \in Nat
    BY <2>2, <2>3 DEF Way
  <2> HIDE DEF v, inq, q, c, said
  <2>5. Way(q \o Pieces(c \o b), inq, n, said, TRUE) /\ c \o b \in Seq(WireFrame)
    <3>1. c \o b \in Seq(WireFrame)
      BY <2>4, Concats
    <3> QED
      BY <2>3, <2>4, <3>1, BlankFrames
  <2> DEFINE m == c \o b
  <2>6. m \in Seq(WireFrame) /\ Way(q \o Pieces(m), inq, n, said, TRUE)
    BY <2>5
  <2> HIDE DEF m
  <2>7. Way(q \o Pieces(m \o <<f>>), left, n, said, v)
    BY <2>3, <2>4, <2>6, DataSent
  <2>8. m \o <<f>> = c \o (b \o <<f>>)
    <3>1. <<f>> \in Seq(WireFrame)
      <4>1. SubSeq(inq, 1, k) \in Seq(Bytes) /\ SubSeq(inq, 1, k) # <<>>
        <5>1. Len(inq) \in Nat /\ k \in Nat /\ k <= Len(inq) /\ k # 0
          BY <2>4
        <5>2. SubSeq(inq, 1, k) \in Seq(Bytes) /\ Len(SubSeq(inq, 1, k)) = k
          BY <2>4, <5>1
        <5>3. Len(<<>>) = 0
          OBVIOUS
        <5> QED
          BY <5>1, <5>2, <5>3
      <4>2. f \in WireFrame
        BY <4>1, FramesTyped
      <4> HIDE DEF f
      <4> QED
        BY <4>2
    <3> HIDE DEF f
    <3> DEFINE y == <<f>>
    <3>2. y \in Seq(WireFrame)
      BY <3>1
    <3> HIDE DEF y
    <3>3. (c \o b) \o y = c \o (b \o y)
      <4> DEFINE W == WireFrame
      <4>1. c \in Seq(W) /\ b \in Seq(W) /\ y \in Seq(W)
        BY <2>4, <3>2
      <4> HIDE DEF W
      <4> QED
        BY <4>1, Concats
    <3> QED
      BY <3>3 DEF y, m
  <2>9. toAgent' = c \o (b \o <<f>>) /\ pub'.inq = left
    BY DEF c, inq
  <2> HIDE DEF f, left
  <2>10. Way(q \o Pieces(toAgent'), pub'.inq, n, said, v)
    BY <2>7, <2>8, <2>9
  <2> QED
    BY <2>2, <2>10 DEF v, q, said
<1> QED
  BY <1>1, <1>2 DEF Up

\* From the service to the visitor, as the service's side sees it: the same.
LEMMA DownBlank ==
  ASSUME IInv, Down, NEW b \in Seq(WireFrame), toServer' = toServer \o b,
         "DATA" \notin TypesIn(b),
         Tells(cli, loc)' => Tells(cli, loc) /\ loc'.inq = loc.inq,
         srv' = srv, pub' = pub, serviceSaid' = serviceSaid
  PROVE  Down'
<1>1. From(ReadBy(pub'), 0) /\ Len(ReadBy(pub')) <= serviceSaid'
  BY DEF Down
<1>2. ASSUME Hears(srv', pub')
      PROVE  Way(Pieces(toServer'), loc'.inq, Len(ReadBy(pub)), serviceSaid,
                 Tells(cli, loc)')
  <2>1. Way(Pieces(toServer), loc.inq, Len(ReadBy(pub)), serviceSaid, Tells(cli, loc))
    BY <1>2 DEF Down
  <2>2. pub.got \in Seq(Bytes) /\ pub.out \in Seq(Bytes)
    BY Places DEF Socket
  <2> DEFINE u == Tells(cli, loc)
             v == Tells(cli, loc)'
             inq == loc.inq
             left == loc'.inq
             c == toServer
             n == Len(ReadBy(pub))
             said == serviceSaid
  <2>3. n \in Nat /\ c \in Seq(WireFrame) /\ inq \in Seq(Bytes) /\ said \in Nat
    <3>1. ReadBy(pub) \in Seq(Bytes)
      BY <2>2, Concats DEF ReadBy
    <3> QED
      BY <3>1, Places
  <2>4. Way(Pieces(c), inq, n, said, u) /\ (v => u /\ left = inq)
    BY <2>1
  <2> HIDE DEF u, v, inq, left, c, n, said
  <2> DEFINE none == <<>>
             x == Pieces(c)
             y == Pieces(c \o b)
  <2>5. none \in Seq(Seq(Bytes)) /\ none \o x = x /\ none \o y = y
    <3>1. c \o b \in Seq(WireFrame)
      BY <2>3, Concats
    <3>2. x \in Seq(Seq(Bytes)) /\ y \in Seq(Seq(Bytes))
      BY <2>3, <3>1, PiecesLaws
    <3> HIDE DEF x, y
    <3> QED
      BY <3>2
  <2>6. Way(none \o x, inq, n, said, u)
    BY <2>4, <2>5
  <2> HIDE DEF none
  <2>7. Way(none \o y, inq, n, said, u)
    BY <2>3, <2>5, <2>6, BlankFrames
  <2> HIDE DEF x, y
  <2>8. Way(y, left, n, said, v)
    BY <2>4, <2>5, <2>7, WayMuted
  <2> QED
    BY <2>8 DEF y, u, v, inq, left, c, n, said
<1> QED
  BY <1>1, <1>2 DEF Down

LEMMA DownData ==
  ASSUME IInv, Down, Tells(cli, loc), NEW k \in 1..Len(loc.inq),
         toServer' = toServer \o <<DataFrame(SubSeq(loc.inq, 1, k))>>,
         loc'.inq = SubSeq(loc.inq, k + 1, Len(loc.inq)),
         srv' = srv, pub' = pub, serviceSaid' = serviceSaid
  PROVE  Down'
<1>1. From(ReadBy(pub'), 0) /\ Len(ReadBy(pub')) <= serviceSaid'
  BY DEF Down
<1>2. ASSUME Hears(srv', pub')
      PROVE  Way(Pieces(toServer'), loc'.inq, Len(ReadBy(pub)), serviceSaid,
                 Tells(cli, loc)')
  <2>1. Way(Pieces(toServer), loc.inq, Len(ReadBy(pub)), serviceSaid, TRUE)
    BY <1>2 DEF Down, Way
  <2>2. pub.got \in Seq(Bytes) /\ pub.out \in Seq(Bytes)
    BY Places DEF Socket
  <2> DEFINE v == Tells(cli, loc)'
             inq == loc.inq
             left == SubSeq(inq, k + 1, Len(inq))
             f == DataFrame(SubSeq(inq, 1, k))
             c == toServer
             n == Len(ReadBy(pub))
             said == serviceSaid
  <2>3. n \in Nat /\ c \in Seq(WireFrame) /\ inq \in Seq(Bytes) /\ said \in Nat
        /\ k \in 1..Len(inq)
    <3>1. ReadBy(pub) \in Seq(Bytes)
      BY <2>2, Concats DEF ReadBy
    <3> QED
      BY <3>1, Places
  <2>4. Way(Pieces(c), inq, n, said, TRUE)
    BY <2>1
  <2>5. toServer' = c \o <<f>> /\ loc'.inq = left
    BY DEF c, inq
  <2> HIDE DEF v, inq, c, n, said
  <2> DEFINE none == <<>>
             x == Pieces(c)
             y == Pieces(c \o <<f>>)
  <2>6. none \in Seq(Seq(Bytes)) /\ none \o x = x /\ none \o y = y
    <3>1. SubSeq(inq, 1, k) \in Seq(Bytes) /\ SubSeq(inq, 1, k) # <<>>
      <4>1. Len(inq) \in Nat /\ k \in Nat /\ k <= Len(inq) /\ k # 0
        BY <2>3
      <4>2. SubSeq(inq, 1, k) \in Seq(Bytes) /\ Len(SubSeq(inq, 1, k)) = k
        BY <2>3, <4>1
      <4>3. Len(<<>>) = 0
        OBVIOUS
      <4> QED
        BY <4>1, <4>2, <4>3
    <3>2. f \in WireFrame
      BY <3>1, FramesTyped
    <3> HIDE DEF f
    <3>3. <<f>> \in Seq(WireFrame)
      BY <3>2
    <3> DEFINE z == <<f>>
    <3> HIDE DEF z
    <3>4. c \o z \in Seq(WireFrame)
      BY <2>3, <3>3, Concats DEF z
    <3>5. x \in Seq(Seq(Bytes)) /\ y \in Seq(Seq(Bytes))
      BY <2>3, <3>4, PiecesLaws DEF z
    <3> HIDE DEF x, y
    <3> QED
      BY <3>5
  <2>7. Way(none \o x, inq, n, said, TRUE)
    BY <2>4, <2>6
  <2> HIDE DEF none
  <2>8. Way(none \o y, left, n, said, v)
    BY <2>3, <2>6, <2>7, DataSent
  <2> HIDE DEF left
  <2>9. Way(y, left, n, said, v)
    BY <2>6, <2>8
  <2>10. Way(Pieces(toServer'), loc'.inq, n, said, v)
    BY <2>5, <2>9
  <2> QED
    BY <2>10 DEF v, n, said
<1> QED
  BY <1>1, <1>2 DEF Down

\* How much the service reads grows with what was said.
LEMMA SeenGrows ==
  /\ Growth \in Nat
  /\ \A r : \A n \in Nat : SeenLen(r, n) \in Nat /\ n <= SeenLen(r, n)
  /\ \A r : \A m, n \in Nat : m <= n => SeenLen(r, m) <= SeenLen(r, n)
<1>1. Growth \in Nat
  BY BridgeAssumption DEF Growth
<1>2. UpBytes \in Nat
  BY BridgeAssumption
<1> HIDE DEF Growth
<1>3. ASSUME NEW r, NEW n \in Nat PROVE SeenLen(r, n) \in Nat /\ n <= SeenLen(r, n)
  BY <1>1 DEF SeenLen
<1>4. ASSUME NEW r, NEW m \in Nat, NEW n \in Nat, m <= n
      PROVE  SeenLen(r, m) <= SeenLen(r, n)
  <2>1. CASE Rewriting(r)
    <3>1. HostByte \in Nat
      BY <1>2, <2>1 DEF Rewriting
    <3> QED
      BY <1>1, <1>4, <3>1 DEF SeenLen
  <2>2. CASE ~Rewriting(r)
    BY <1>4, <2>2 DEF SeenLen
  <2> QED
    BY <2>1, <2>2
<1> QED
  BY <1>1, <1>3, <1>4

\* What the service reads stays right on a socket nothing was written to.
LEMMA SeenKept ==
  ASSUME NEW s \in Socket(Bytes), NEW t \in Socket(Bytes), SoftOut(t, s),
         NEW r, NEW m \in Nat, AllSeen(r, ReadBy(s)), Len(ReadBy(s)) <= SeenLen(r, m)
  PROVE  AllSeen(r, ReadBy(t)) /\ Len(ReadBy(t)) <= SeenLen(r, m)
<1> DEFINE a == ReadBy(s)
           b == ReadBy(t)
           x == SeenLen(r, m)
<1>1. /\ a \in Seq(Bytes) /\ b \in Seq(Bytes) /\ Len(b) <= Len(a)
      /\ \A i \in DOMAIN b : i \in DOMAIN a /\ b[i] = a[i]
  BY SoftRead
<1>2. AllSeen(r, a) /\ Len(a) <= x
  OBVIOUS
<1>3. x \in Nat
  BY SeenGrows
<1> HIDE DEF a, b, x
<1>4. Len(a) \in Nat /\ Len(b) \in Nat
  BY <1>1
<1>5. AllSeen(r, b) /\ Len(b) <= x
  BY <1>1, <1>2, <1>3, <1>4 DEF AllSeen
<1> QED
  BY <1>5 DEF b, x

\* From the visitor to the service, as the service's side sees it: an end that
\* is over, or refused, takes no more,
LEMMA UpOver ==
  ASSUME IInv, Up, loc' \in Socket(Bytes), SoftOut(loc', loc),
         cli'.rewriteHost = cli.rewriteHost, visitorSaid' = visitorSaid,
         cli'.connected => cli'.queued = <<>>,
         ~Hears(cli', loc') \/ Refused'
  PROVE  Up'
<1> DEFINE s == loc
           t == loc'
           r == cli.rewriteHost
           m == visitorSaid
<1>1. /\ s \in Socket(Bytes) /\ t \in Socket(Bytes) /\ SoftOut(t, s) /\ m \in Nat
      /\ AllSeen(r, ReadBy(s)) /\ Len(ReadBy(s)) <= SeenLen(r, m)
  BY Places DEF Up
<1> HIDE DEF s, t, r, m
<1>2. AllSeen(r, ReadBy(t)) /\ Len(ReadBy(t)) <= SeenLen(r, m)
  BY <1>1, SeenKept
<1>3. AllSeen(cli'.rewriteHost, ReadBy(loc'))
      /\ Len(ReadBy(loc')) <= SeenLen(cli'.rewriteHost, visitorSaid')
  BY <1>2 DEF t, r, m
<1> QED
  BY <1>3 DEF Up

\* and one that takes a frame without data keeps its place.
LEMMA UpTaken ==
  ASSUME IInv, Up, NEW t \in Seq(WireFrame), toAgent' \in Seq(WireFrame),
         toAgent = t \o toAgent',
         "DATA" \notin TypesIn(t) \/ ~Hears(cli, loc) \/ Refused,
         loc' \in Socket(Bytes), SoftOut(loc', loc),
         cli'.connected = cli.connected, cli'.queued = cli.queued,
         cli'.headBuf = cli.headBuf, cli'.headDone = cli.headDone,
         cli'.rewriteHost = cli.rewriteHost,
         cli.finished => cli'.finished, cli.receivedEof => cli'.receivedEof,
         Refused => Refused',
         srv' = srv, pub' = pub, linkUp' = linkUp, visitorSaid' = visitorSaid
  PROVE  Up'
<1>1. cli'.connected => cli'.queued = <<>>
  BY DEF Up
<1>2. CASE ~Hears(cli', loc') \/ Refused'
  BY <1>1, <1>2, UpOver
<1>3. CASE Hears(cli', loc') /\ ~Refused'
  <2>1. Hears(cli, loc) /\ ~Refused /\ ~loc'.destroyed
    BY <1>3 DEF Hears, SoftOut
  <2>2. PICK n \in 0..visitorSaid :
           /\ Taken(cli, ReadBy(loc), n)
           /\ Way(cli.queued \o Pieces(toAgent), pub.inq, n, visitorSaid, Tells(srv, pub))
    BY <2>1 DEF Up
  <2>3. ReadBy(loc') = ReadBy(loc)
    BY <2>1, SoftRead, Places
  <2>4. /\ cli.queued \in Seq(Seq(Bytes)) /\ pub.inq \in Seq(Bytes) /\ n \in Nat
    BY <2>2, Places
  <2> DEFINE u == Tells(srv, pub)
             inq == pub.inq
             q == cli.queued
             c == toAgent'
  <2>5. /\ Way(q \o Pieces(t \o c), inq, n, visitorSaid, u)
        /\ q \in Seq(Seq(Bytes)) /\ c \in Seq(WireFrame) /\ inq \in Seq(Bytes)
        /\ "DATA" \notin TypesIn(t)
    BY <2>1, <2>2, <2>4
  <2> HIDE DEF u, inq, q, c
  <2>6. Way(q \o Pieces(c), inq, n, visitorSaid, u)
    BY <2>4, <2>5, BlankFrames
  <2>7. Tells(srv, pub)' = u
    BY DEF Tells, u
  <2>8. Taken(cli', ReadBy(loc'), n)
    BY <2>2, <2>3 DEF Taken
  <2>9. /\ Taken(cli', ReadBy(loc'), n)
        /\ Way(cli'.queued \o Pieces(toAgent'), pub'.inq, n, visitorSaid', Tells(srv, pub)')
    BY <2>6, <2>7, <2>8 DEF q, c, inq
  <2>10. /\ AllSeen(cli'.rewriteHost, ReadBy(loc'))
         /\ Len(ReadBy(loc')) <= SeenLen(cli'.rewriteHost, visitorSaid')
    BY <2>3 DEF Up
  <2> HIDE DEF Refused
  <2>11. n \in 0..visitorSaid'
    BY <2>2
  <2> QED
    BY <1>1, <2>9, <2>10, <2>11 DEF Up
<1> QED
  BY <1>2, <1>3

-----------------------------------------------------------------------------
\* The server's end.

\* A stream refused stays so.
LEMMA StaysRefused ==
  ASSUME IInv, NEW b \in Seq(WireFrame), "OPEN" \notin TypesIn(b),
         toAgent' = toAgent \o b, srv.opened => srv'.opened, cli'.dial = cli.dial,
         Refused
  PROVE  Refused'
<1>1. toAgent \in Seq(WireFrame)
  BY Places
<1>2. TypesIn(toAgent \o b) = TypesIn(toAgent) \cup TypesIn(b)
  BY <1>1, ConcatSeen DEF WireFrame
<1> QED
  BY <1>2 DEF Refused

\* What a committed turn adds to the frames under way.
LEMMA SrvSent ==
  ASSUME IInv, NEW r, NEW t, SrvCommitted(r, t)
  PROVE  LET b == IF linkUp THEN r.sent ELSE <<>>
         IN  /\ b \in Seq(WireFrame) /\ toAgent' = toAgent \o b
             /\ TypesIn(b) \subseteq TypesIn(r.sent)
<1>1. r.sent \in Seq(WireFrame) /\ <<>> \in Seq(WireFrame) /\ toAgent \in Seq(WireFrame)
  BY Places DEF SrvCommitted, SrvTurn
<1>2. toAgent \o <<>> = toAgent
  BY <1>1
<1> QED
  BY <1>1, <1>2, EmptySeen DEF SrvCommitted

\* A calm turn of the server.
LEMMA SrvCalmStep ==
  ASSUME IInv, Order, NEW r, NEW t, SrvCommitted(r, t), SrvCalm(r, S!Turn),
         "DATA" \notin TypesIn(t) \/ ~Hears(srv, pub)
  PROVE  Order'
<1>0. pub \in Socket(Bytes)
  BY Places
<1>1. /\ S!Turn.st = srv /\ S!Turn.sock = pub /\ S!Turn.sent = <<>>
  BY <1>0, SrvTurnStarts
<1> DEFINE b == IF linkUp THEN r.sent ELSE <<>>
<1>2. b \in Seq(WireFrame) /\ toAgent' = toAgent \o b /\ TypesIn(b) \subseteq TypesIn(r.sent)
  BY SrvSent
<1> HIDE DEF b
<1>3. TypesIn(b) \subseteq {"EOF", "ACK", "RESET"}
  BY <1>1, <1>2, EmptySeen DEF SrvCalm
<1>4. "DATA" \notin TypesIn(b) /\ "OPEN" \notin TypesIn(b)
  BY <1>3
<1>5. /\ srv' = r.st /\ pub' = r.sock /\ pub' \in Socket(Bytes)
      /\ cli' = cli /\ loc' = loc /\ linkUp' = linkUp
      /\ visitorSaid' = visitorSaid /\ serviceSaid' = serviceSaid
      /\ t \in Seq(WireFrame) /\ toServer' \in Seq(WireFrame) /\ toServer = t \o toServer'
  BY DEF SrvCommitted, SrvTurn, cVars
<1>6. /\ SoftOut(pub', pub) /\ SoftIn(pub', pub) /\ srv'.opened = srv.opened
      /\ srv.finished => srv'.finished
      /\ srv.sentEof => srv'.sentEof
      /\ srv.receivedEof => srv'.receivedEof
  BY <1>1, <1>5 DEF SrvCalm, Soft
<1>7. Down'
  BY <1>5, <1>6, DownTaken DEF Order
<1>8. Refused => Refused'
  BY <1>2, <1>4, <1>5, <1>6, StaysRefused
<1>9. Tells(srv, pub)' => Tells(srv, pub) /\ pub'.inq = pub.inq
  BY <1>5, <1>6 DEF Tells, SoftIn
<1>10. Up'
  <2> HIDE DEF Refused
  <2> QED
    BY <1>2, <1>4, <1>5, <1>8, <1>9, UpBlank DEF Order
<1> QED
  BY <1>7, <1>10 DEF Order

\* The server's end and the frames unchanged, and its socket read from or
\* written to by nobody but the party behind it.
LEMMA PubIdle ==
  ASSUME IInv, Order, srv' = srv, UNCHANGED <<cVars, linkVars, serviceSaid>>,
         pub' \in Socket(Bytes), SoftOut(pub', pub), SoftIn(pub', pub),
         visitorSaid' = visitorSaid
  PROVE  Order'
<1>1. /\ cli' = cli /\ loc' = loc /\ linkUp' = linkUp /\ toAgent' = toAgent
      /\ toServer' = toServer /\ serviceSaid' = serviceSaid
  BY DEF cVars, linkVars
<1>2. /\ <<>> \in Seq(WireFrame) /\ "DATA" \notin TypesIn(<<>>)
      /\ toAgent \in Seq(WireFrame) /\ toServer \in Seq(WireFrame)
  BY Places, EmptySeen
<1>3. toServer = <<>> \o toServer' /\ toAgent' = toAgent \o <<>>
  BY <1>1, <1>2
<1>4. Down'
  BY <1>1, <1>2, <1>3, DownTaken DEF Order
<1>5. Refused => Refused'
  BY <1>1 DEF Refused
<1>6. Tells(srv, pub)' => Tells(srv, pub) /\ pub'.inq = pub.inq
  BY <1>1 DEF Tells, SoftIn
<1>7. Up'
  <2> HIDE DEF Refused
  <2> QED
    BY <1>1, <1>2, <1>3, <1>5, <1>6, UpBlank DEF Order
<1> QED
  BY <1>4, <1>7 DEF Order

\* The turn of a callback is calm against itself.
LEMMA SrvTurnCalm ==
  ASSUME IInv
  PROVE  /\ S!Turn \in SrvTurn /\ SrvCalm(S!Turn, S!Turn)
         /\ S!Turn.st = srv /\ S!Turn.sock = pub /\ S!Turn.sent = <<>>
         /\ pub \in Socket(Bytes)
         /\ \A s \in Socket(Bytes) : Soft(s, pub) =>
               /\ [S!Turn EXCEPT !.sock = s] \in SrvTurn
               /\ SrvCalm([S!Turn EXCEPT !.sock = s], S!Turn)
<1>1. pub \in Socket(Bytes)
  BY Places
<1>2. /\ S!Turn \in SrvTurn
      /\ S!Turn.st = srv /\ S!Turn.sock = pub /\ S!Turn.sent = <<>>
      /\ \A s \in Socket(Bytes) : [S!Turn EXCEPT !.sock = s] \in SrvTurn
  BY <1>1, SrvTurnStarts
<1> DEFINE h == S!Turn
<1>3. h \in SrvTurn /\ h.sock = pub
  BY <1>2
<1> HIDE DEF h
<1>4. SrvCalm(h, h) /\ \A s \in Socket(Bytes) : Soft(s, pub) =>
                          SrvCalm([h EXCEPT !.sock = s], h)
  BY <1>3, CalmSelf, CalmSock
<1> QED
  BY <1>1, <1>2, <1>4 DEF h

\* The callbacks that pass no byte on.
LEMMA SrvCallbackCalm ==
  ASSUME IInv, Order, NEW r, SrvCalm(r, S!Turn), S!Commit(r),
         UNCHANGED <<cVars, linkUp, toServer, srvClosed, visitorSaid, serviceSaid>>,
         srvCongested' \in BOOLEAN,
         congestions' \in [{"server", "agent"} -> 0..MaxCongestions]
  PROVE  Order'
<1>1. r \in SrvTurn
  BY DEF SrvCalm
<1> DEFINE t == <<>>
<1>2. SrvCommitted(r, t)
  BY <1>1, SrvCallback
<1>3. "DATA" \notin TypesIn(t)
  BY EmptySeen
<1> HIDE DEF t
<1> QED
  BY <1>2, <1>3, SrvCalmStep

LEMMA SocketEndOrder ==
  ASSUME IInv, Order, S!SocketEnd, UNCHANGED <<cVars, outsideVars>>
  PROVE  Order'
<1>1. /\ S!Commit([S!OnSocketEnd(S!Turn) EXCEPT !.sock = S!EmitEnd(@)])
      /\ UNCHANGED <<cVars, linkUp, toServer, srvClosed, visitorSaid, serviceSaid,
                     srvCongested, congestions>>
  BY DEF S!SocketEnd, outsideVars
<1> DEFINE h == S!Turn
           q == S!OnSocketEnd(h)
           s == EmitEnd(q.sock)
           r == [q EXCEPT !.sock = s]
<1>2. h \in SrvTurn
  BY SrvTurnCalm
<1>3. S!Commit(r)
  <2>1. [S!OnSocketEnd(S!Turn) EXCEPT !.sock = S!EmitEnd(@)] = r
    BY SameOperators
  <2> QED
    BY <1>1, <2>1
<1> HIDE DEF h
<1>4. SrvCalm(q, h)
  BY <1>2, SrvCalmEnd
<1> HIDE DEF q
<1>5. q \in SrvTurn /\ q.sock \in Socket(Bytes)
  BY <1>4 DEF SrvCalm, SrvTurn
<1>6. s \in Socket(Bytes) /\ Soft(s, q.sock)
  BY <1>5, SocketEvents, SoftCalls
<1> HIDE DEF s
<1>7. SrvCalm(r, q)
  BY <1>5, <1>6, CalmSock
<1> HIDE DEF r
<1>8. SrvCalm(r, S!Turn)
  BY <1>4, <1>7, CalmTwice DEF h
<1>9. srvCongested' \in BOOLEAN /\ congestions' \in [{"server", "agent"} -> 0..MaxCongestions]
  BY <1>1 DEF IInv, Types
<1> QED
  BY <1>1, <1>3, <1>8, <1>9, SrvCallbackCalm

LEMMA SocketDrainOrder ==
  ASSUME IInv, Order, S!SocketDrain, UNCHANGED <<cVars, outsideVars>>
  PROVE  Order'
<1> DEFINE s == Drained(pub)
           h == [S!Turn EXCEPT !.sock = s]
           r == S!FlushAck(h)
<1>1. UNCHANGED <<cVars, linkUp, toServer, srvClosed, visitorSaid, serviceSaid,
                  srvCongested, congestions>>
  BY DEF S!SocketDrain, outsideVars
<1>2. S!Commit(r)
  <2>1. S!Turn.sock = pub
    BY DEF S!Turn
  <2>2. [S!Turn EXCEPT !.sock = S!Drained(@)] = h
    BY <2>1, SameOperators
  <2> QED
    BY <2>2 DEF S!SocketDrain
<1>3. s \in Socket(Bytes) /\ Soft(s, pub)
  BY SrvTurnCalm, SocketEvents, SoftCalls
<1> HIDE DEF s
<1>4. h \in SrvTurn /\ SrvCalm(h, S!Turn)
  BY <1>3, SrvTurnCalm
<1> HIDE DEF h
<1>5. SrvCalm(r, h)
  BY <1>4, SrvCalmFlushAck
<1> HIDE DEF r
<1>6. SrvCalm(r, S!Turn)
  BY <1>4, <1>5, CalmTwice
<1>7. srvCongested' \in BOOLEAN /\ congestions' \in [{"server", "agent"} -> 0..MaxCongestions]
  BY <1>1 DEF IInv, Types
<1> QED
  BY <1>1, <1>2, <1>6, <1>7, SrvCallbackCalm

LEMMA SocketErrorOrder ==
  ASSUME IInv, Order, S!SocketError, UNCHANGED <<cVars, outsideVars>>
  PROVE  Order'
<1> DEFINE s == [pub EXCEPT !.error = FALSE]
           h == [S!Turn EXCEPT !.sock = s]
           r == S!Destroy(h, "socket_error")
<1>1. UNCHANGED <<cVars, linkUp, toServer, srvClosed, visitorSaid, serviceSaid,
                  srvCongested, congestions>>
  BY DEF S!SocketError, outsideVars
<1>2. S!Commit(r)
  <2>1. [S!Turn EXCEPT !.sock.error = FALSE] = h
    BY DEF S!Turn
  <2> QED
    BY <2>1 DEF S!SocketError
<1>3. s \in Socket(Bytes) /\ Soft(s, pub)
  BY SrvTurnCalm, SocketEvents, SoftCalls
<1> HIDE DEF s
<1>4. h \in SrvTurn /\ SrvCalm(h, S!Turn)
  BY <1>3, SrvTurnCalm
<1> HIDE DEF h
<1>5. SrvCalm(r, h)
  BY <1>4, SrvCalmDestroy
<1> HIDE DEF r
<1>6. SrvCalm(r, S!Turn)
  BY <1>4, <1>5, CalmTwice
<1>7. srvCongested' \in BOOLEAN /\ congestions' \in [{"server", "agent"} -> 0..MaxCongestions]
  BY <1>1 DEF IInv, Types
<1> QED
  BY <1>1, <1>2, <1>6, <1>7, SrvCallbackCalm

LEMMA SocketCloseOrder ==
  ASSUME IInv, Order, S!SocketClose, UNCHANGED <<cVars, outsideVars>>
  PROVE  Order'
<1> DEFINE h == S!Turn
           q == S!Finish(h)
           s == DestroySocket(q.sock)
           r == [q EXCEPT !.sock = s]
<1>1. UNCHANGED <<cVars, linkUp, toServer, srvClosed, visitorSaid, serviceSaid,
                  srvCongested, congestions>>
  BY DEF S!SocketClose, outsideVars
<1>2. S!Commit(r)
  <2>1. [S!Finish(S!Turn) EXCEPT !.sock = S!DestroySocket(@)] = r
    BY SameOperators
  <2> QED
    BY <2>1 DEF S!SocketClose
<1>3. h \in SrvTurn
  BY SrvTurnCalm
<1> HIDE DEF h
<1>4. SrvCalm(q, h)
  BY <1>3, SrvCalmFinish
<1> HIDE DEF q
<1>5. q \in SrvTurn /\ q.sock \in Socket(Bytes)
  BY <1>4 DEF SrvCalm, SrvTurn
<1>6. s \in Socket(Bytes) /\ Soft(s, q.sock)
  BY <1>5, SocketDestroyed, SoftCalls
<1> HIDE DEF s
<1>7. SrvCalm(r, q)
  BY <1>5, <1>6, CalmSock
<1> HIDE DEF r
<1>8. SrvCalm(r, S!Turn)
  BY <1>4, <1>7, CalmTwice DEF h
<1>9. srvCongested' \in BOOLEAN /\ congestions' \in [{"server", "agent"} -> 0..MaxCongestions]
  BY <1>1 DEF IInv, Types
<1> QED
  BY <1>1, <1>2, <1>8, <1>9, SrvCallbackCalm

\* Congestion, and its end.
LEMMA CongestionOrder ==
  ASSUME IInv, Order,
         \/ S!ClearCongestion /\ UNCHANGED <<cVars, outsideVars>>
         \/ ServerCongests
  PROVE  Order'
<1>1. PICK paused \in BOOLEAN :
        S!Commit(IF S!InStreams THEN S!SetGlobalPause(S!Turn, paused) ELSE S!Turn)
  BY DEF S!ClearCongestion, ServerCongests, S!Congest
<1>2. /\ UNCHANGED <<cVars, linkUp, toServer, srvClosed, visitorSaid, serviceSaid>>
      /\ srvCongested' \in BOOLEAN
  BY DEF S!ClearCongestion, ServerCongests, S!Congest, outsideVars
<1>3. congestions' \in [{"server", "agent"} -> 0..MaxCongestions]
  <2>1. congestions \in [{"server", "agent"} -> 0..MaxCongestions]
    BY DEF IInv, Types
  <2>2. CASE UNCHANGED congestions
    BY <2>1, <2>2
  <2>3. CASE ServerCongests
    BY <2>1, <2>3, BridgeAssumption, SMTT(40) DEF ServerCongests
  <2> QED
    BY <2>2, <2>3 DEF outsideVars
<1> DEFINE r == IF S!InStreams THEN S!SetGlobalPause(S!Turn, paused) ELSE S!Turn
<1>4. S!Turn \in SrvTurn /\ SrvCalm(S!Turn, S!Turn)
  BY SrvTurnCalm
<1>5. SrvCalm(S!SetGlobalPause(S!Turn, paused), S!Turn)
  BY <1>4, SrvCalmPause
<1>6. SrvCalm(r, S!Turn) /\ S!Commit(r)
  BY <1>1, <1>4, <1>5
<1> HIDE DEF r
<1> QED
  BY <1>2, <1>3, <1>6, SrvCallbackCalm

\* The session's teardown.
LEMMA SessionDestroyOrder ==
  ASSUME IInv, Order, S!SessionDestroy, UNCHANGED <<cVars, outsideVars>>
  PROVE  Order'
<1> DEFINE h == S!Turn
           c == IF srvCongested THEN S!SetGlobalPause(h, FALSE) ELSE h
           q == S!Destroy(c, "agent_gone")
           r == IF S!InStreams THEN q ELSE h
<1>1. /\ ~linkUp
      /\ UNCHANGED <<cVars, linkUp, toAgent, toServer, visitorSaid, serviceSaid,
                     congestions>>
      /\ srvClosed' \in BOOLEAN /\ srvCongested' \in BOOLEAN
  BY DEF S!SessionDestroy, outsideVars
<1>2. srv' = r.st /\ pub' = r.sock
  BY DEF S!SessionDestroy, S!Turn
<1>3. h \in SrvTurn /\ SrvCalm(h, h)
  BY SrvTurnCalm
<1> HIDE DEF h
<1>4. SrvCalm(S!SetGlobalPause(h, FALSE), h)
  BY <1>3, SrvCalmPause
<1>5. SrvCalm(c, h) /\ c \in SrvTurn
  BY <1>3, <1>4 DEF SrvCalm
<1> HIDE DEF c
<1>6. SrvCalm(q, c)
  BY <1>5, SrvCalmDestroy
<1> HIDE DEF q
<1>7. SrvCalm(q, h)
  BY <1>5, <1>6, CalmTwice
<1>8. SrvCalm(r, h) /\ r \in SrvTurn
  BY <1>3, <1>7 DEF SrvCalm
<1> HIDE DEF r
<1> DEFINE t == <<>>
<1>9. SrvCommitted(r, t)
  <2>1. /\ <<>> \in Seq(WireFrame) /\ toServer \in Seq(WireFrame)
        /\ toServer = <<>> \o toServer
    BY Nothing DEF IInv, Types
  <2>2. congestions' \in [{"server", "agent"} -> 0..MaxCongestions]
    BY <1>1 DEF IInv, Types
  <2> QED
    BY <1>1, <1>2, <1>8, <2>1, <2>2 DEF SrvCommitted
<1>10. "DATA" \notin TypesIn(t)
  BY EmptySeen
<1> HIDE DEF t
<1> QED
  BY <1>8, <1>9, <1>10, SrvCalmStep DEF h

\* A write either destroys the socket or is read after what was written before.
LEMMA Writes ==
  ASSUME NEW B, NEW s \in Socket(B), NEW b \in Seq(B)
  PROVE  /\ Write(s, b) \in Socket(B) /\ SoftIn(Write(s, b), s)
         /\ \/ SoftOut(Write(s, b), s) /\ Write(s, b).destroyed
            \/ /\ ReadBy(Write(s, b)) = ReadBy(s) \o b
               /\ ~Write(s, b).destroyed /\ ~s.destroyed
<1> DEFINE w == Write(s, b)
<1>1. w \in Socket(B)
  BY SocketWritten
<1>2. CASE s.ended \/ s.destroyed
  <2>1. w = Fail(s)
    BY <1>2 DEF Write
  <2> HIDE DEF w
  <2>2. Soft(w, s) /\ w.destroyed
    BY <2>1, SoftCalls
  <2> QED
    BY <1>1, <2>2 DEF Soft, w
<1>3. CASE ~(s.ended \/ s.destroyed)
  <2>1. /\ w.out = s.out \o b /\ w.got = s.got /\ w.inq = s.inq
        /\ ~w.destroyed /\ ~s.destroyed
    <3> DEFINE x == s.out \o b
               y == s.needDrain \/ Len(x) >= HighWater
    <3>1. w = [s EXCEPT !.out = x, !.needDrain = y]
      BY <1>3 DEF Write
    <3> HIDE DEF w, x, y
    <3>2. w.out = x /\ w.got = s.got /\ w.inq = s.inq /\ w.destroyed = s.destroyed
      BY <3>1 DEF Socket
    <3> QED
      BY <1>3, <3>1, <3>2 DEF x
  <2> HIDE DEF w
  <2> DEFINE g == s.got
             o == s.out
  <2>2. g \in Seq(B) /\ o \in Seq(B)
    BY DEF Socket
  <2>3. w.got \o w.out = g \o (o \o b)
    BY <2>1
  <2> HIDE DEF g, o
  <2>4. g \o (o \o b) = (g \o o) \o b
    BY <2>2, Concats
  <2>5. ReadBy(w) = ReadBy(s) \o b
    BY <2>3, <2>4 DEF ReadBy, g, o
  <2>6. SoftIn(w, s)
    BY <2>1 DEF SoftIn
  <2> QED
    BY <1>1, <2>1, <2>5, <2>6 DEF w
<1> QED
  BY <1>2, <1>3

\* An end that is over takes no more.
LEMMA DownOver ==
  ASSUME IInv, Down, pub' \in Socket(Bytes), SoftOut(pub', pub),
         ~Hears(srv', pub'), serviceSaid' = serviceSaid
  PROVE  Down'
<1> DEFINE new == pub'
           a == ReadBy(pub)
           b == ReadBy(new)
<1>1. pub \in Socket(Bytes) /\ new \in Socket(Bytes) /\ SoftOut(new, pub)
  BY Places
<1> HIDE DEF new
<1>2. /\ a \in Seq(Bytes) /\ b \in Seq(Bytes) /\ Len(b) <= Len(a)
      /\ \A i \in DOMAIN b : i \in DOMAIN a /\ b[i] = a[i]
  BY <1>1, SoftRead
<1>3. Len(a) \in Nat /\ Len(b) \in Nat /\ serviceSaid \in Nat
  BY <1>2, Places
<1>4. From(a, 0) /\ Len(a) <= serviceSaid
  BY DEF Down
<1> HIDE DEF a, b
<1>5. From(b, 0) /\ Len(b) <= serviceSaid
  BY <1>2, <1>3, <1>4 DEF From
<1>6. From(ReadBy(pub'), 0) /\ Len(ReadBy(pub')) <= serviceSaid'
  BY <1>5 DEF b, new
<1> QED
  BY <1>6 DEF Down

\* One run of bytes goes on from another.
LEMMA RunsOn ==
  ASSUME NEW B, NEW a \in Seq(B), NEW d \in Seq(B), NEW n \in Nat,
         From(a, n), From(d, n + Len(a))
  PROVE  From(a \o d, n)
<1> DEFINE x == a \o d
           m == Len(a)
           k == Len(d)
<1>1. /\ m \in Nat /\ k \in Nat /\ DOMAIN a = 1..m /\ DOMAIN d = 1..k
      /\ DOMAIN x = 1..(m + k)
      /\ \A i \in 1..m : x[i] = a[i]
      /\ \A i \in 1..k : x[m + i] = d[i]
  OBVIOUS
<1>2. From(a, n) /\ From(d, n + m)
  OBVIOUS
<1> HIDE DEF x, m, k
<1>3. ASSUME NEW i \in 1..(m + k) PROVE x[i] = n + i
  <2>1. CASE i <= m
    <3>1. i \in 1..m
      BY <1>1, <2>1
    <3> QED
      BY <1>1, <1>2, <3>1 DEF From
  <2>2. CASE i > m
    <3> DEFINE j == i - m
    <3>1. j \in 1..k /\ i = m + j
      BY <1>1, <2>2
    <3> HIDE DEF j
    <3>2. x[i] = (n + m) + j
      BY <1>1, <1>2, <3>1 DEF From
    <3>3. j \in Nat
      BY <3>1
    <3> QED
      BY <1>1, <3>1, <3>2, <3>3
  <2> QED
    BY <1>1, <2>1, <2>2
<1>4. From(x, n)
  BY <1>1, <1>3 DEF From
<1> QED
  BY <1>4 DEF x

\* A visitor that is heard has the data next.
LEMMA DownWritten ==
  ASSUME IInv, Down, NEW f \in WireFrame, f.type = "DATA", f.data \in Seq(Bytes),
         toServer' \in Seq(WireFrame), toServer = <<f>> \o toServer',
         ~srv.finished, ~srv.receivedEof, pub' = Write(pub, f.data),
         cli' = cli, loc' = loc, linkUp' = linkUp, serviceSaid' = serviceSaid
  PROVE  Down'
<1> DEFINE w == Write(pub, f.data)
<1>1. pub \in Socket(Bytes) /\ loc.inq \in Seq(Bytes) /\ serviceSaid \in Nat
  BY Places
<1>2. /\ w \in Socket(Bytes)
      /\ \/ SoftOut(w, pub) /\ w.destroyed
         \/ /\ ReadBy(w) = ReadBy(pub) \o f.data
            /\ ~w.destroyed /\ ~pub.destroyed
  BY <1>1, Writes
<1>3. pub' = w
  OBVIOUS
<1> HIDE DEF w
<1>4. CASE SoftOut(w, pub) /\ w.destroyed
  BY <1>2, <1>3, <1>4, DownOver DEF Hears
<1>5. CASE /\ ReadBy(w) = ReadBy(pub) \o f.data
           /\ ~w.destroyed /\ ~pub.destroyed
  <2> DEFINE a == ReadBy(pub)
             d == f.data
             c == toServer'
             p == Pieces(c)
             u == Tells(cli, loc)
             inq == loc.inq
             said == serviceSaid
             n == Len(a)
  <2>1. a \in Seq(Bytes) /\ d \in Seq(Bytes) /\ c \in Seq(WireFrame) /\ n \in Nat
    <3>1. pub.got \in Seq(Bytes) /\ pub.out \in Seq(Bytes)
      BY <1>1 DEF Socket
    <3>2. a \in Seq(Bytes)
      BY <3>1, Concats DEF ReadBy
    <3> QED
      BY <3>2
  <2>2. From(a, 0) /\ Way(Pieces(toServer), inq, n, said, u)
    BY <1>5 DEF Down, Hears
  <2>3. Pieces(toServer) = <<d>> \o p
    <3>1. <<f>> \in Seq(WireFrame) /\ Pieces(<<f>>) = <<d>>
      BY PiecesLaws
    <3> QED
      BY <2>1, <3>1, PiecesLaws
  <2>4. p \in Seq(Seq(Bytes)) /\ inq \in Seq(Bytes) /\ said \in Nat
    BY <1>1, <2>1, PiecesLaws
  <2>5. ReadBy(w) = a \o d /\ Tells(cli, loc)' = u /\ loc'.inq = inq /\ serviceSaid' = said
    BY <1>5 DEF Tells
  <2> HIDE DEF a, d, p, c, u, inq, said
  <2>6. Way(<<d>> \o p, inq, n, said, u)
    BY <2>2, <2>3
  <2>7. From(d, n) /\ n + Len(d) <= said /\ Way(p, inq, n + Len(d), said, u)
    BY <2>1, <2>4, <2>6, WayTaken
  <2>8. From(a \o d, 0)
    <3>1. 0 + Len(a) = n
      BY <2>1
    <3> QED
      BY <2>1, <2>2, <2>7, <3>1, RunsOn
  <2>9. Len(a \o d) = n + Len(d)
    BY <2>1
  <2>10. From(ReadBy(w), 0) /\ Len(ReadBy(w)) <= said /\ Way(p, inq, Len(ReadBy(w)), said, u)
    BY <2>5, <2>7, <2>8, <2>9
  <2>11. /\ From(ReadBy(pub'), 0) /\ Len(ReadBy(pub')) <= serviceSaid'
         /\ Way(Pieces(toServer'), loc'.inq, Len(ReadBy(pub')), serviceSaid', Tells(cli, loc)')
    BY <1>3, <2>5, <2>10 DEF p, c
  <2> QED
    BY <2>11 DEF Down
<1> QED
  BY <1>2, <1>4, <1>5

\* A frame that carries no data, or finds the stream over.
LEMMA ServerReceiveCalm ==
  ASSUME IInv, Order, S!ServerReceive, UNCHANGED <<cVars, outsideVars>>,
         ~S!InStreams \/ Head(toServer).type # "DATA"
  PROVE  Order'
<1> DEFINE f == Head(toServer)
           h == S!Turn
           r == S!HandleFrame(f)
           t == <<f>>
<1>1. /\ f \in WireFrame /\ f.type # "OPEN" /\ srv.opened /\ TypesIn(t) = {f.type}
      /\ S!Commit(r)
      /\ \A q : q \in SrvTurn /\ S!Commit(q) => SrvCommitted(q, t)
  BY SrvTaken
<1>2. h \in SrvTurn /\ SrvCalm(h, h)
  BY SrvTurnCalm
<1>3. f.type \in {"DATA", "EOF", "ACK", "RESET"} /\ (f.type = "ACK" => f.n \in Nat)
  BY <1>1 DEF WireFrame, SomeFrame
<1>4. ~S!InStreams \/ f.type # "DATA"
  OBVIOUS
<1> HIDE DEF f
<1>5. SrvCalm(r, h)
  <2>1. CASE ~S!InStreams
    <3>1. S!ResetFrame = ResetFrame
      BY SameOperators
    <3>2. r = h \/ r = S!Send(h, ResetFrame)
      BY <2>1, <3>1 DEF S!HandleFrame
    <3> HIDE DEF h
    <3> QED
      BY <1>2, <3>2, SrvCalmReset
  <2>2. CASE S!InStreams /\ f.type = "EOF"
    <3>1. r = S!OnEof(h)
      BY <2>2 DEF S!HandleFrame
    <3> HIDE DEF h
    <3> QED
      BY <1>2, <3>1, SrvCalmEof
  <2>3. CASE S!InStreams /\ f.type = "ACK"
    <3>1. r = S!OnAck(h, f.n)
      BY <2>3 DEF S!HandleFrame
    <3> HIDE DEF h
    <3> QED
      BY <1>2, <1>3, <2>3, <3>1, SrvCalmAck
  <2>4. CASE S!InStreams /\ f.type = "RESET"
    <3>1. r = S!Destroy(h, "peer_reset")
      BY <2>4 DEF S!HandleFrame
    <3> HIDE DEF h
    <3> QED
      BY <1>2, <3>1, SrvCalmDestroy
  <2> QED
    BY <1>3, <1>4, <2>1, <2>2, <2>3, <2>4
<1> HIDE DEF r
<1>6. SrvCommitted(r, t)
  BY <1>1, <1>5 DEF SrvCalm
<1>7. "DATA" \notin TypesIn(t) \/ ~Hears(srv, pub)
  BY <1>1, <1>4 DEF S!InStreams, Hears
<1> HIDE DEF t
<1> QED
  BY <1>5, <1>6, <1>7, SrvCalmStep DEF h

\* STREAM_DATA at a stream that lives.
LEMMA ServerReceiveData ==
  ASSUME IInv, Order, S!ServerReceive, UNCHANGED <<cVars, outsideVars>>,
         S!InStreams, Head(toServer).type = "DATA"
  PROVE  Order'
<1> DEFINE f == Head(toServer)
           h == S!Turn
           d == f.data
           r == S!OnData(h, d)
           t == <<f>>
<1>1. /\ f \in WireFrame /\ "DATA" \in TypesIn(toServer)
      /\ S!Commit(S!HandleFrame(f))
      /\ \A q : q \in SrvTurn /\ S!Commit(q) => SrvCommitted(q, t)
  BY SrvTaken
<1>2. S!HandleFrame(f) = r
  BY DEF S!HandleFrame
<1>3. d \in Seq(Bytes) /\ d # <<>> /\ f.type = "DATA"
  BY <1>1 DEF WireFrame, SomeFrame
<1>4. ~srv.finished /\ ~srv.receivedEof
  BY <1>1 DEF IInv, Eof, S!InStreams
<1>5. h \in SrvTurn /\ h.sent = <<>> /\ h.st = srv /\ h.sock = pub
  BY SrvTurnCalm
<1> HIDE DEF f, h
<1>6. /\ r \in SrvTurn /\ r.sock = Write(pub, d)
      /\ \/ /\ r.st = [srv EXCEPT !.recvUnacked = h.st.recvUnacked + Len(d)]
            /\ r.sent = h.sent
         \/ /\ r.st = [srv EXCEPT !.recvUnacked = 0]
            /\ r.sent = Append(h.sent, AckFrame(h.st.recvUnacked + Len(d)))
  BY <1>3, <1>4, <1>5, SrvOnData
<1>7. r.st.opened = srv.opened /\ r.st.finished = srv.finished /\ r.st.sentEof = srv.sentEof
  BY <1>6, Places DEF SrvType
<1>8. TypesIn(r.sent) \subseteq {"ACK"}
  <2>1. CASE r.sent = h.sent
    BY <1>5, <2>1, EmptySeen
  <2>2. CASE r.sent = Append(h.sent, AckFrame(h.st.recvUnacked + Len(d)))
    <3> DEFINE n == h.st.recvUnacked + Len(d)
    <3>1. n \in Nat \ {0}
      <4>1. h.st.recvUnacked \in Nat /\ Len(d) \in Nat \ {0}
        BY <1>3, <1>5, Places DEF SrvType
      <4> QED
        BY <4>1
    <3>2. r.sent = Append(<<>>, AckFrame(n))
      BY <1>5, <2>2
    <3> HIDE DEF n, r
    <3>3. AckFrame(n) \in WireFrame /\ AckFrame(n).type = "ACK"
      BY <3>1, FramesTyped
    <3>4. TypesIn(Append(<<>>, AckFrame(n))) = {"ACK"}
      BY <3>3, OneSent
    <3> QED
      BY <3>2, <3>4
  <2> QED
    BY <1>6, <2>1, <2>2
<1> HIDE DEF r
<1>9. SrvCommitted(r, t)
  BY <1>1, <1>2, <1>6
<1>10. /\ srv' = r.st /\ pub' = Write(pub, d) /\ cli' = cli /\ loc' = loc
       /\ linkUp' = linkUp /\ visitorSaid' = visitorSaid /\ serviceSaid' = serviceSaid
       /\ toServer' \in Seq(WireFrame) /\ toServer = t \o toServer'
  BY <1>6, <1>9 DEF SrvCommitted, cVars
<1>11. Down'
  BY <1>1, <1>3, <1>4, <1>10, DownWritten DEF Order
<1> DEFINE b == IF linkUp THEN r.sent ELSE <<>>
<1>12. /\ b \in Seq(WireFrame) /\ toAgent' = toAgent \o b
       /\ TypesIn(b) \subseteq TypesIn(r.sent)
  BY <1>9, SrvSent
<1> HIDE DEF b, d
<1>13. "DATA" \notin TypesIn(b) /\ "OPEN" \notin TypesIn(b)
  BY <1>8, <1>12
<1>14. SoftIn(pub', pub)
  BY <1>3, <1>10, Places, Writes DEF d
<1>15. Tells(srv, pub)' => Tells(srv, pub) /\ pub'.inq = pub.inq
  BY <1>7, <1>10, <1>14 DEF Tells, SoftIn
<1>16. Refused => Refused'
  BY <1>7, <1>10, <1>12, <1>13, StaysRefused
<1>17. Up'
  <2> HIDE DEF Refused
  <2> QED
    BY <1>10, <1>12, <1>13, <1>15, <1>16, UpBlank DEF Order
<1> QED
  BY <1>11, <1>17 DEF Order

\* The visitor sends, and hangs up, and its kernel takes what was written to it.
LEMMA VisitorSendOrder ==
  ASSUME IInv, Order, VisitorSend
  PROVE  Order'
<1> DEFINE new == [pub EXCEPT !.inq = Append(pub.inq, visitorSaid + 1)]
<1>1. /\ visitorSaid' = visitorSaid + 1 /\ pub' = new
      /\ srv' = srv /\ cli' = cli /\ loc' = loc /\ linkUp' = linkUp
      /\ toAgent' = toAgent /\ toServer' = toServer /\ serviceSaid' = serviceSaid
      /\ visitorSaid < UpBytes
  BY DEF VisitorSend, cVars, linkVars
<1>2. /\ pub \in Socket(Bytes) /\ visitorSaid \in Nat /\ UpBytes \in Nat /\ DownBytes \in Nat
      /\ pub.inq \in Seq(Bytes)
  BY Places, BridgeAssumption
<1>3. /\ new.inq = Append(pub.inq, visitorSaid + 1)
      /\ new.out = pub.out /\ new.got = pub.got /\ new.destroyed = pub.destroyed
      /\ new \in Socket(Bytes)
  <2>1. visitorSaid + 1 \in Bytes
    BY <1>1, <1>2 DEF Bytes
  <2>2. Append(pub.inq, visitorSaid + 1) \in Seq(Bytes)
    BY <1>2, <2>1
  <2> QED
    BY <1>2, <2>2 DEF Socket
<1> HIDE DEF new
<1>4. Down'
  <2>1. SoftOut(pub', pub) /\ pub' \in Socket(Bytes)
    BY <1>1, <1>3 DEF SoftOut
  <2>2. /\ <<>> \in Seq(WireFrame) /\ "DATA" \notin TypesIn(<<>>)
        /\ toServer \in Seq(WireFrame) /\ toServer = <<>> \o toServer'
    BY <1>1, Places, EmptySeen
  <2> QED
    BY <1>1, <2>1, <2>2, DownTaken DEF Order
<1>5. /\ AllSeen(cli'.rewriteHost, ReadBy(loc'))
      /\ Len(ReadBy(loc')) <= SeenLen(cli'.rewriteHost, visitorSaid')
      /\ cli'.connected => cli'.queued = <<>>
  <2>1. /\ AllSeen(cli.rewriteHost, ReadBy(loc))
        /\ Len(ReadBy(loc)) <= SeenLen(cli.rewriteHost, visitorSaid)
        /\ cli.connected => cli.queued = <<>>
    BY DEF Order, Up
  <2>2. SeenLen(cli.rewriteHost, visitorSaid) <= SeenLen(cli.rewriteHost, visitorSaid + 1)
    BY <1>2, SeenGrows
  <2>3. /\ SeenLen(cli.rewriteHost, visitorSaid) \in Nat
        /\ SeenLen(cli.rewriteHost, visitorSaid + 1) \in Nat
    BY <1>2, SeenGrows
  <2>4. Len(ReadBy(loc)) \in Nat
    <3>1. loc.got \in Seq(Bytes) /\ loc.out \in Seq(Bytes)
      BY Places DEF Socket
    <3>2. ReadBy(loc) \in Seq(Bytes)
      BY <3>1, Concats DEF ReadBy
    <3> QED
      BY <3>2
  <2> DEFINE x == SeenLen(cli.rewriteHost, visitorSaid)
             y == SeenLen(cli.rewriteHost, visitorSaid + 1)
             z == Len(ReadBy(loc))
  <2>5. z <= x /\ x <= y /\ x \in Nat /\ y \in Nat /\ z \in Nat
    BY <2>1, <2>2, <2>3, <2>4
  <2> HIDE DEF x, y, z
  <2>6. z <= y
    BY <2>5
  <2> QED
    BY <1>1, <2>1, <2>6 DEF y, z
<1>6. ASSUME Hears(cli', loc'), ~Refused'
      PROVE  \E n \in 0..visitorSaid' :
                /\ Taken(cli', ReadBy(loc'), n)
                /\ Way(cli'.queued \o Pieces(toAgent'), pub'.inq, n, visitorSaid',
                       Tells(srv, pub)')
  <2>1. Hears(cli, loc) /\ ~Refused
    BY <1>1, <1>6 DEF Refused
  <2>2. PICK n \in 0..visitorSaid :
           /\ Taken(cli, ReadBy(loc), n)
           /\ Way(cli.queued \o Pieces(toAgent), pub.inq, n, visitorSaid, Tells(srv, pub))
    BY <2>1 DEF Order, Up
  <2>3. Tells(srv, pub)' = Tells(srv, pub)
    BY <1>1, <1>3 DEF Tells
  <2> DEFINE u == Tells(srv, pub)
             x == cli.queued
             y == Pieces(toAgent)
             inq == pub.inq
  <2>4. /\ x \in Seq(Seq(Bytes)) /\ y \in Seq(Seq(Bytes)) /\ inq \in Seq(Bytes) /\ n \in Nat
        /\ Way(x \o y, inq, n, visitorSaid, u)
    BY <2>2, Places, PiecesLaws
  <2> HIDE DEF u, x, y, inq
  <2> DEFINE p == x \o y
  <2>5. p \in Seq(Seq(Bytes)) /\ Way(p, inq, n, visitorSaid, u)
    BY <2>4, Concats
  <2> HIDE DEF p
  <2>6. Way(p, Append(inq, visitorSaid + 1), n, visitorSaid + 1, u)
    BY <1>2, <2>4, <2>5, WaySaid
  <2>7. Way(cli'.queued \o Pieces(toAgent'), pub'.inq, n, visitorSaid', Tells(srv, pub)')
    BY <1>1, <1>3, <2>3, <2>6 DEF p, x, y, u, inq
  <2>8. n \in 0..visitorSaid' /\ Taken(cli', ReadBy(loc'), n)
    BY <1>1, <1>2, <2>2
  <2> QED
    BY <2>7, <2>8
<1>7. Up'
  BY <1>5, <1>6 DEF Up
<1> QED
  BY <1>4, <1>7 DEF Order

LEMMA VisitorOrder ==
  ASSUME IInv, Order, VisitorFin \/ VisitorAbort
  PROVE  Order'
<1>1. pub \in Socket(Bytes)
  BY Places
<1>2. pub' = [pub EXCEPT !.fin = TRUE] \/ pub' = Fail(pub)
  BY DEF VisitorFin, VisitorAbort
<1>3. /\ [pub EXCEPT !.fin = TRUE] \in Socket(Bytes) /\ Fail(pub) \in Socket(Bytes)
      /\ Soft([pub EXCEPT !.fin = TRUE], pub) /\ Soft(Fail(pub), pub)
  <2>1. [pub EXCEPT !.fin = TRUE] \in Socket(Bytes)
    BY <1>1 DEF Socket
  <2> QED
    BY <1>1, <2>1, SocketDestroyed, SoftCalls
<1>4. pub' \in Socket(Bytes) /\ SoftOut(pub', pub) /\ SoftIn(pub', pub)
  BY <1>2, <1>3 DEF Soft
<1>5. srv' = srv /\ UNCHANGED <<cVars, linkVars, serviceSaid>> /\ visitorSaid' = visitorSaid
  BY DEF VisitorFin, VisitorAbort, outsideVars
<1> QED
  BY <1>4, <1>5, PubIdle

\* A byte the kernel takes is read as it was going to be.
LEMMA FlushedRead ==
  ASSUME NEW B, NEW s \in Socket(B), s.out # <<>>
  PROVE  /\ ReadBy(FlushByte(s)) = ReadBy(s) /\ FlushByte(s) \in Socket(B)
         /\ FlushByte(s).inq = s.inq /\ FlushByte(s).destroyed = s.destroyed
<1> DEFINE g == s.got
           o == s.out
           x == Append(g, Head(o))
           y == Tail(o)
<1>1. g \in Seq(B) /\ o \in Seq(B) /\ o # <<>>
  BY DEF Socket
<1>2. FlushByte(s) = [s EXCEPT !.got = x, !.out = y]
  BY DEF FlushByte
<1> HIDE DEF g, o
<1>3. x = g \o <<Head(o)>> /\ o = <<Head(o)>> \o y
  BY <1>1, HeadTailSplit
<1>4. <<Head(o)>> \in Seq(B) /\ y \in Seq(B)
  BY <1>1
<1> DEFINE b == <<Head(o)>>
<1>5. b \in Seq(B) /\ y \in Seq(B) /\ x = g \o b /\ o = b \o y
  BY <1>3, <1>4
<1> HIDE DEF b, x, y
<1>6. (g \o b) \o y = g \o (b \o y)
  BY <1>1, <1>5, Concats
<1>7. x \o y = g \o o
  BY <1>5, <1>6
<1>8. /\ FlushByte(s).got = x /\ FlushByte(s).out = y
      /\ FlushByte(s).inq = s.inq /\ FlushByte(s).destroyed = s.destroyed
  BY <1>2 DEF Socket
<1>9. FlushByte(s) \in Socket(B)
  BY ByteFlushed
<1> QED
  BY <1>7, <1>8, <1>9 DEF ReadBy, g, o

LEMMA SocketFlushOrder ==
  ASSUME IInv, Order, S!SocketFlush, UNCHANGED <<cVars, outsideVars>>
  PROVE  Order'
<1>1. /\ pub' = FlushByte(pub) /\ pub.out # <<>>
      /\ srv' = srv /\ cli' = cli /\ loc' = loc /\ linkUp' = linkUp
      /\ toAgent' = toAgent /\ toServer' = toServer
      /\ visitorSaid' = visitorSaid /\ serviceSaid' = serviceSaid
  BY SameOperators DEF S!SocketFlush, S!CanFlush, cVars, outsideVars
<1>2. /\ ReadBy(pub') = ReadBy(pub) /\ pub'.inq = pub.inq
      /\ pub'.destroyed = pub.destroyed
  BY <1>1, Places, FlushedRead
<1>3. Hears(srv, pub)' = Hears(srv, pub) /\ Tells(srv, pub)' = Tells(srv, pub)
      /\ Tells(cli, loc)' = Tells(cli, loc)
  BY <1>1, <1>2 DEF Hears, Tells
<1>4. Down'
  BY <1>1, <1>2, <1>3 DEF Order, Down
<1>5. /\ <<>> \in Seq(WireFrame) /\ "DATA" \notin TypesIn(<<>>)
      /\ toAgent' = toAgent \o <<>>
  <2>1. toAgent \in Seq(WireFrame)
    BY Places
  <2> QED
    BY <1>1, <2>1, EmptySeen
<1>6. Refused => Refused'
  BY <1>1 DEF Refused
<1>7. Up'
  <2> HIDE DEF Refused
  <2> QED
    BY <1>1, <1>2, <1>3, <1>5, <1>6, UpBlank DEF Order
<1> QED
  BY <1>4, <1>7 DEF Order

\* The bytes of a socket, and where it stands.
SameBytes(t, s) ==
    t.inq = s.inq /\ t.out = s.out /\ t.got = s.got /\ t.destroyed = s.destroyed

LEMMA PausedBytes ==
  ASSUME NEW B, NEW s \in Socket(B)
  PROVE  SameBytes(Pause(s), s) /\ SameBytes(Resume(s), s)
  BY DEF Socket, SameBytes, Pause, Resume

\* A pause asked for changes neither the bytes nor what the stream has said.
LEMMA RepausedBytes ==
  ASSUME NEW h \in SrvTurn, NEW r, SrvRepaused(r, h)
  PROVE  /\ r \in SrvTurn /\ r.sent = h.sent /\ SameBytes(r.sock, h.sock)
         /\ r.st.opened = h.st.opened /\ r.st.finished = h.st.finished
         /\ r.st.sentEof = h.st.sentEof /\ r.st.receivedEof = h.st.receivedEof
<1>1. h.sock \in Socket(Bytes) /\ h.st \in SrvType
  BY DEF SrvTurn
<1>2. /\ SameBytes(h.sock, h.sock)
      /\ SameBytes(Pause(h.sock), h.sock) /\ SameBytes(Resume(h.sock), h.sock)
  BY <1>1, PausedBytes DEF SameBytes
<1> QED
  BY <1>1, <1>2 DEF SrvRepaused, SrvType

\* 'data' passed on, at the server: the socket keeps what was not taken.
LEMMA PassedOn ==
  ASSUME NEW h \in SrvTurn, NEW d \in Seq(Bytes), d # <<>>
  PROVE  LET r == S!OnSocketData(h, d)
         IN  /\ r \in SrvTurn /\ SameBytes(r.sock, h.sock)
             /\ r.st.opened = h.st.opened /\ r.st.finished = h.st.finished
             /\ r.st.sentEof = h.st.sentEof /\ r.st.receivedEof = h.st.receivedEof
             /\ h.st.finished \/ h.st.sentEof => r.sent = h.sent
             /\ ~(h.st.finished \/ h.st.sentEof) => r.sent = Append(h.sent, DataFrame(d))
<1> DEFINE r == S!OnSocketData(h, d)
<1>1. h.sock \in Socket(Bytes) /\ h.st \in SrvType
  BY DEF SrvTurn
<1>2. /\ h.st.finished \/ h.st.sentEof => r = h
      /\ ~(h.st.finished \/ h.st.sentEof) =>
            /\ r \in SrvTurn
            /\ r.sent = Append(h.sent, DataFrame(d))
            /\ \/ /\ r.st = [h.st EXCEPT !.sendCredit = h.st.sendCredit - Len(d)]
                  /\ r.sock = h.sock
               \/ /\ r.st = [h.st EXCEPT !.sendCredit = h.st.sendCredit - Len(d),
                                         !.pausedForCredit = TRUE]
                  /\ r.sock = Pause(h.sock)
  BY SrvSocketData
<1> HIDE DEF r
<1>3. SameBytes(h.sock, h.sock) /\ SameBytes(Pause(h.sock), h.sock)
  BY <1>1, PausedBytes DEF SameBytes
<1>4. CASE h.st.finished \/ h.st.sentEof
  BY <1>2, <1>3, <1>4 DEF r
<1>5. CASE ~(h.st.finished \/ h.st.sentEof)
  <2>1. /\ r.st.opened = h.st.opened /\ r.st.finished = h.st.finished
        /\ r.st.sentEof = h.st.sentEof /\ r.st.receivedEof = h.st.receivedEof
    BY <1>1, <1>2, <1>5 DEF SrvType
  <2> QED
    BY <1>2, <1>3, <1>5, <2>1 DEF r
<1> QED
  BY <1>4, <1>5

\* The first bytes of a queue, and the rest of it.
LEMMA TakenBytes ==
  ASSUME NEW B, NEW s \in Socket(B), NEW k \in Nat, k <= Len(s.inq)
  PROVE  /\ TakeData(s, k) \in Socket(B)
         /\ TakeData(s, k).inq = SubSeq(s.inq, k + 1, Len(s.inq))
         /\ TakeData(s, k).out = s.out /\ TakeData(s, k).got = s.got
         /\ TakeData(s, k).destroyed = s.destroyed
         /\ SubSeq(s.inq, 1, k) \in Seq(B)
         /\ k > 0 => SubSeq(s.inq, 1, k) # <<>>
         /\ k = 0 => SubSeq(s.inq, k + 1, Len(s.inq)) = s.inq
<1>1. /\ TakeData(s, k) \in Socket(B)
      /\ SubSeq(s.inq, 1, k) \in Seq(B) /\ Len(SubSeq(s.inq, 1, k)) = k
  BY DataTaken
<1>2. k > 0 => SubSeq(s.inq, 1, k) # <<>>
  <2>1. Len(<<>>) = 0
    OBVIOUS
  <2> QED
    BY <1>1, <2>1
<1> DEFINE q == SubSeq(s.inq, k + 1, Len(s.inq))
<1>3. TakeData(s, k) = [s EXCEPT !.inq = q]
  BY DEF TakeData
<1> HIDE DEF q
<1>4. /\ TakeData(s, k).inq = q
      /\ TakeData(s, k).out = s.out /\ TakeData(s, k).got = s.got
      /\ TakeData(s, k).destroyed = s.destroyed
  BY <1>3 DEF Socket
<1>5. k = 0 => q = s.inq
  <2>1. s.inq \in Seq(B)
    BY DEF Socket
  <2> DEFINE x == s.inq
  <2>2. x \in Seq(B)
    BY <2>1
  <2> HIDE DEF x
  <2>3. SubSeq(x, 1, Len(x)) = x
    BY <2>2
  <2>4. k = 0 => k + 1 = 1
    OBVIOUS
  <2> QED
    BY <2>3, <2>4 DEF x, q
<1> QED
  BY <1>1, <1>2, <1>4, <1>5 DEF q

\* 'data' at the server: what is sent is what the socket had first.
LEMMA SocketDataOrder ==
  ASSUME IInv, Order, S!SocketData, UNCHANGED <<cVars, outsideVars>>
  PROVE  Order'
<1>1. PICK k \in 1..MaxChunk :
        /\ S!CanEmitData(pub, k)
        /\ S!Commit(S!OnSocketData([S!Turn EXCEPT !.sock = S!TakeData(@, k)],
                                   SubSeq(pub.inq, 1, k)))
  BY DEF S!SocketData
<1>2. /\ k <= Len(pub.inq) /\ ~pub.destroyed
      /\ UNCHANGED <<cVars, linkUp, toServer, srvClosed, visitorSaid, serviceSaid,
                     srvCongested, congestions>>
  BY <1>1 DEF S!SocketData, S!CanEmitData, outsideVars
<1>3. k \in Nat /\ k > 0
  BY SocketAssumption
<1> DEFINE s == TakeData(pub, k)
           d == SubSeq(pub.inq, 1, k)
           rest == SubSeq(pub.inq, k + 1, Len(pub.inq))
           h == [S!Turn EXCEPT !.sock = s]
           r == S!OnSocketData(h, d)
<1>4. /\ pub \in Socket(Bytes) /\ s \in Socket(Bytes) /\ s.inq = rest
      /\ s.out = pub.out /\ s.got = pub.got /\ s.destroyed = pub.destroyed
      /\ d \in Seq(Bytes) /\ d # <<>>
  BY <1>2, <1>3, Places, TakenBytes
<1>5. S!Commit(r)
  <2>1. S!Turn.sock = pub
    BY DEF S!Turn
  <2>2. [S!Turn EXCEPT !.sock = S!TakeData(@, k)] = h
    BY <2>1, SameOperators
  <2> QED
    BY <1>1, <2>2
<1> HIDE DEF s
<1>6. h \in SrvTurn /\ h.st = srv /\ h.sock = s /\ h.sent = <<>>
  BY <1>4, SrvTurnStarts, SMTT(40)
<1> HIDE DEF h
<1>7. /\ r \in SrvTurn /\ SameBytes(r.sock, s)
      /\ r.st.opened = srv.opened /\ r.st.finished = srv.finished
      /\ r.st.sentEof = srv.sentEof /\ r.st.receivedEof = srv.receivedEof
      /\ srv.finished \/ srv.sentEof => r.sent = <<>>
      /\ ~(srv.finished \/ srv.sentEof) => r.sent = Append(<<>>, DataFrame(d))
  <2> HIDE DEF d
  <2> QED
    BY <1>4, <1>6, PassedOn, ZenonT(60)
<1> HIDE DEF r
<1>8. srvCongested' \in BOOLEAN /\ congestions' \in [{"server", "agent"} -> 0..MaxCongestions]
  BY <1>2 DEF IInv, Types
<1> DEFINE t == <<>>
<1>9. SrvCommitted(r, t)
  BY <1>2, <1>5, <1>7, <1>8, SrvCallback
<1>10. t \in Seq(WireFrame) /\ "DATA" \notin TypesIn(t) /\ "OPEN" \notin TypesIn(t)
  BY EmptySeen
<1> HIDE DEF t
<1>11. /\ srv' = r.st /\ pub' = r.sock /\ pub' \in Socket(Bytes)
       /\ cli' = cli /\ loc' = loc /\ linkUp' = linkUp
       /\ visitorSaid' = visitorSaid /\ serviceSaid' = serviceSaid
       /\ toServer' \in Seq(WireFrame) /\ toServer = t \o toServer'
       /\ toAgent' = IF linkUp THEN toAgent \o r.sent ELSE toAgent
  BY <1>9 DEF SrvCommitted, SrvTurn, cVars
<1>12. /\ SoftOut(pub', pub) /\ pub'.inq = rest /\ pub'.destroyed = pub.destroyed
  BY <1>4, <1>7, <1>11 DEF SameBytes, SoftOut
<1>13. Down'
  BY <1>7, <1>10, <1>11, <1>12, DownTaken DEF Order
<1>14. ASSUME Tells(srv, pub) PROVE Up'
  <2> DEFINE b == <<>>
  <2>1. b \in Seq(WireFrame) /\ "DATA" \notin TypesIn(b)
    BY EmptySeen
  <2>2. k \in 1..Len(pub.inq)
    BY <1>2, <1>3, <1>4, SocketTyped
  <2>3. toAgent' = toAgent \o (b \o <<DataFrame(SubSeq(pub.inq, 1, k))>>)
    <3> DEFINE f == DataFrame(d)
    <3>1. toAgent' = toAgent \o Append(<<>>, f)
      BY <1>7, <1>11, <1>14 DEF Tells
    <3> HIDE DEF f
    <3>2. Append(<<>>, f) = <<>> \o <<f>>
      OBVIOUS
    <3> QED
      BY <3>1, <3>2 DEF f
  <2>4. Refused => Refused'
    <3>1. SUFFICES ASSUME Refused PROVE Refused'
      OBVIOUS
    <3>2. toAgent' = toAgent \o r.sent
      BY <1>11, <1>14 DEF Tells
    <3>3. r.sent \in Seq(WireFrame) /\ "OPEN" \notin TypesIn(r.sent)
      <4> DEFINE f == DataFrame(d)
      <4>1. f \in WireFrame /\ f.type = "DATA"
        <5> HIDE DEF d
        <5> QED
          BY <1>4, FramesTyped
      <4>2. r.sent = Append(<<>>, f)
        BY <1>7, <1>14 DEF Tells
      <4> HIDE DEF f
      <4> QED
        BY <4>1, <4>2, OneSent
    <3> QED
      BY <1>7, <1>11, <3>1, <3>2, <3>3, StaysRefused
  <2> HIDE DEF b, Refused
  <2> QED
    BY <1>11, <1>12, <1>14, <2>1, <2>2, <2>3, <2>4, UpData DEF Order
<1>15. ASSUME ~Tells(srv, pub) PROVE Up'
  <2>1. ~linkUp \/ srv.finished \/ srv.sentEof
    BY <1>2, <1>15 DEF Tells
  <2> DEFINE b == <<>>
  <2>2. /\ b \in Seq(WireFrame) /\ "DATA" \notin TypesIn(b) /\ "OPEN" \notin TypesIn(b)
        /\ toAgent \in Seq(WireFrame)
    BY EmptySeen, Places
  <2>3. toAgent' = toAgent \o b
    BY <1>7, <1>11, <2>1, <2>2
  <2> HIDE DEF b
  <2>4. Refused => Refused'
    BY <1>7, <1>11, <2>2, <2>3, StaysRefused
  <2>5. ~Tells(srv, pub)'
    BY <1>7, <1>11, <2>1 DEF Tells
  <2> HIDE DEF Refused
  <2> QED
    BY <1>11, <2>2, <2>3, <2>4, <2>5, UpBlank DEF Order
<1> QED
  BY <1>13, <1>14, <1>15 DEF Order

\* openStream: the head goes first, behind STREAM_OPEN.
LEMMA OpenStreamOrder ==
  ASSUME IInv, Order, S!OpenStream, UNCHANGED <<cVars, outsideVars>>
  PROVE  Order'
<1>0. SrvFacts
  BY SrvKnown
<1>1. PICK size \in PrereadSizes :
        LET head    == SubSeq(pub.inq, 1, size)
            created == [S!Send(S!Turn, S!OpenFrame) EXCEPT
                          !.st.opened = TRUE,
                          !.sock.inq = SubSeq(@, size + 1, Len(@))]
            paused  == IF srvCongested THEN S!SetGlobalPause(created, TRUE)
                                       ELSE created
        IN  /\ ~srv.opened
            /\ ~srvClosed
            /\ ~pub.readEnded
            /\ ~pub.destroyed
            /\ size <= Len(pub.inq)
            /\ S!Commit([S!WritePreread(paused, head) EXCEPT !.sock = S!Resume(@)])
            /\ UNCHANGED <<srvCongested, srvClosed, linkUp, toServer>>
  BY ZenonT(60) DEF S!OpenStream
<1> DEFINE head == SubSeq(pub.inq, 1, size)
           opened == S!Send(S!Turn, OpenFrame)
           rest == SubSeq(pub.inq, size + 1, Len(pub.inq))
           left == TakeData(pub, size)
           created == [opened EXCEPT !.st.opened = TRUE, !.sock.inq = rest]
           paused == IF srvCongested THEN S!SetGlobalPause(created, TRUE) ELSE created
           q == S!WritePreread(paused, head)
           s == Resume(q.sock)
           r == [q EXCEPT !.sock = s]
<1>2. /\ ~srv.opened /\ ~pub.destroyed /\ size <= Len(pub.inq)
      /\ UNCHANGED <<cVars, linkUp, toServer, srvClosed, visitorSaid, serviceSaid,
                     srvCongested, congestions>>
  BY <1>1 DEF outsideVars
<1>3. /\ S!Turn \in SrvTurn /\ pub \in Socket(Bytes)
      /\ S!Turn.st = srv /\ S!Turn.sock = pub /\ S!Turn.sent = <<>>
  BY SrvTurnCalm
<1>4. S!Commit(r)
  <2>1. opened.sock = pub
    BY <1>3, FramesTyped, SrvSend
  <2>2. [S!Send(S!Turn, S!OpenFrame) EXCEPT
            !.st.opened = TRUE,
            !.sock.inq = SubSeq(@, size + 1, Len(@))] = created
    BY <2>1, SameOperators
  <2> QED
    BY <1>1, <2>2, SameOperators
<1>5. size \in Nat
  BY BridgeAssumption
<1>6. /\ left \in Socket(Bytes) /\ left.inq = rest
      /\ left.out = pub.out /\ left.got = pub.got /\ left.destroyed = pub.destroyed
      /\ head \in Seq(Bytes) /\ (size > 0 => head # <<>>) /\ (size = 0 => rest = pub.inq)
      /\ (size = 0 => head = <<>>)
  <2>1. /\ left \in Socket(Bytes) /\ left.inq = rest
        /\ left.out = pub.out /\ left.got = pub.got /\ left.destroyed = pub.destroyed
        /\ head \in Seq(Bytes) /\ (size > 0 => head # <<>>) /\ (size = 0 => rest = pub.inq)
    BY <1>2, <1>3, <1>5, TakenBytes
  <2>2. Len(head) = size
    BY <1>2, <1>3, <1>5, DataTaken
  <2> HIDE DEF head
  <2>3. size = 0 => head = <<>>
    BY <2>1, <2>2
  <2> QED
    BY <2>1, <2>3
<1>7. [pub EXCEPT !.inq = rest] = left
  BY DEF TakeData
<1> HIDE DEF left
<1>8. /\ opened \in SrvTurn /\ opened.st = srv /\ opened.sock = pub
      /\ opened.sent = Append(<<>>, OpenFrame)
  BY <1>3, FramesTyped, SrvSend, ZenonT(60)
<1> HIDE DEF opened
<1>9. srv = S!NoStream
  BY <1>2 DEF IInv, LifeOfServer
<1>10. /\ created \in SrvTurn /\ created.sent = Append(<<>>, OpenFrame)
       /\ created.st = [srv EXCEPT !.opened = TRUE]
       /\ created.sock = left
  <2>1. [srv EXCEPT !.opened = TRUE] \in SrvType
    BY <1>0 DEF SrvFacts, SrvType
  <2>2. created = [opened EXCEPT !.st.opened = TRUE, !.sock.inq = rest]
    OBVIOUS
  <2> HIDE DEF created, rest, head
  <2>3. created.sent = opened.sent
        /\ created.st = [srv EXCEPT !.opened = TRUE] /\ created.sock = left
    BY <1>7, <1>8, <2>2 DEF SrvTurn
  <2>4. created = [st |-> [srv EXCEPT !.opened = TRUE], sock |-> left, sent |-> opened.sent]
    BY <1>7, <1>8, <2>2 DEF SrvTurn
  <2>5. opened.sent \in Seq(WireFrame)
    BY <1>8 DEF SrvTurn
  <2>6. created \in SrvTurn
    BY <1>6, <2>1, <2>4, <2>5 DEF SrvTurn
  <2> QED
    BY <1>8, <2>3, <2>6
<1>11. /\ created.st.opened
       /\ ~created.st.sentEof /\ ~created.st.receivedEof /\ ~created.st.finished
  BY <1>9, <1>10 DEF S!NoStream
<1> HIDE DEF created
<1>12. /\ paused \in SrvTurn /\ paused.sent = Append(<<>>, OpenFrame)
       /\ SameBytes(paused.sock, left)
       /\ paused.st.opened
       /\ ~paused.st.sentEof /\ ~paused.st.receivedEof /\ ~paused.st.finished
  <2>1. CASE srvCongested
    <3> DEFINE c == S!SetGlobalPause(created, TRUE)
    <3>1. SrvRepaused(c, created) /\ paused = c
      BY <1>10, <2>1, SrvGlobalPause
    <3> HIDE DEF c
    <3> QED
      BY <1>10, <1>11, <3>1, RepausedBytes
  <2>2. CASE ~srvCongested
    BY <1>10, <1>11, <2>2 DEF SameBytes
  <2> QED
    BY <2>1, <2>2
<1> HIDE DEF paused
<1>13. /\ q \in SrvTurn /\ SameBytes(q.sock, left)
       /\ q.st.opened /\ ~q.st.sentEof /\ ~q.st.receivedEof /\ ~q.st.finished
       /\ size = 0 => q.sent = Append(<<>>, OpenFrame)
       /\ size > 0 => q.sent = Append(Append(<<>>, OpenFrame), DataFrame(head))
  <2>1. CASE size = 0
    <3>1. q = paused
      BY <1>6, <2>1 DEF S!WritePreread
    <3> QED
      BY <1>12, <2>1, <3>1
  <2>2. CASE size # 0
    <3>1. size > 0 /\ head # <<>> /\ head \in Seq(Bytes)
      BY <1>5, <1>6, <2>2
    <3>2. q = S!OnSocketData(paused, head)
      BY <3>1 DEF S!WritePreread
    <3> HIDE DEF head
    <3> DEFINE x == S!OnSocketData(paused, head)
    <3>3. /\ x \in SrvTurn /\ SameBytes(x.sock, paused.sock)
          /\ x.st.opened = paused.st.opened /\ x.st.finished = paused.st.finished
          /\ x.st.sentEof = paused.st.sentEof /\ x.st.receivedEof = paused.st.receivedEof
          /\ ~(paused.st.finished \/ paused.st.sentEof) =>
                x.sent = Append(paused.sent, DataFrame(head))
      BY <1>12, <3>1, PassedOn
    <3> HIDE DEF x
    <3>4. SameBytes(x.sock, left)
      BY <1>12, <3>3 DEF SameBytes
    <3>5. q = x
      BY <3>2 DEF x
    <3> QED
      BY <1>12, <2>2, <3>1, <3>3, <3>4, <3>5
  <2> QED
    BY <2>1, <2>2
<1> HIDE DEF q
<1>14. s \in Socket(Bytes) /\ SameBytes(s, left)
  <2>1. q.sock \in Socket(Bytes)
    BY <1>13 DEF SrvTurn
  <2> DEFINE k == q.sock
  <2>2. k \in Socket(Bytes) /\ SameBytes(k, left)
    BY <1>13, <2>1
  <2> HIDE DEF k
  <2>3. Resume(k) \in Socket(Bytes) /\ SameBytes(Resume(k), k)
    BY <2>2, PauseResume, PausedBytes
  <2> QED
    BY <2>2, <2>3 DEF SameBytes, k
<1> HIDE DEF s
<1>15. r \in SrvTurn /\ r.st = q.st /\ r.sock = s /\ r.sent = q.sent
  BY <1>13, <1>14, SrvSock
<1> HIDE DEF r
<1>16. srvCongested' \in BOOLEAN /\ congestions' \in [{"server", "agent"} -> 0..MaxCongestions]
  BY <1>2 DEF IInv, Types
<1> DEFINE t == <<>>
<1>17. SrvCommitted(r, t)
  BY <1>2, <1>4, <1>15, <1>16, SrvCallback
<1>18. t \in Seq(WireFrame) /\ "DATA" \notin TypesIn(t)
  BY EmptySeen
<1> HIDE DEF t
<1>19. /\ srv' = r.st /\ pub' = r.sock /\ pub' \in Socket(Bytes)
       /\ cli' = cli /\ loc' = loc /\ linkUp' = linkUp
       /\ visitorSaid' = visitorSaid /\ serviceSaid' = serviceSaid
       /\ toServer' \in Seq(WireFrame) /\ toServer = t \o toServer'
       /\ toAgent' = IF linkUp THEN toAgent \o r.sent ELSE toAgent
  BY <1>17 DEF SrvCommitted, SrvTurn, cVars
<1>20. /\ pub'.inq = rest /\ pub'.out = pub.out /\ pub'.got = pub.got
       /\ pub'.destroyed = pub.destroyed
  BY <1>6, <1>14, <1>15, <1>19 DEF SameBytes
<1>21. SoftOut(pub', pub)
  BY <1>20 DEF SoftOut
<1>22. ~srv.finished /\ ~srv.receivedEof /\ ~srv.sentEof
  BY <1>9 DEF S!NoStream
<1>23. Down'
  BY <1>18, <1>19, <1>21, <1>22, DownTaken DEF Order
<1>24. ~Refused
  BY <1>2 DEF Refused
<1> DEFINE o == <<OpenFrame>>
<1>25. o \in Seq(WireFrame) /\ "DATA" \notin TypesIn(o) /\ o = Append(<<>>, OpenFrame)
  <2>1. OpenFrame \in WireFrame /\ OpenFrame.type = "OPEN"
    BY FramesTyped
  <2> DEFINE f == OpenFrame
  <2>2. f \in WireFrame /\ f.type = "OPEN"
    BY <2>1
  <2> HIDE DEF f
  <2>3. <<f>> = Append(<<>>, f)
    OBVIOUS
  <2> QED
    BY <2>2, <2>3, OneSent DEF f
<1> HIDE DEF o, Refused
<1>26. CASE ~linkUp
  <2> DEFINE b == <<>>
  <2>1. b \in Seq(WireFrame) /\ "DATA" \notin TypesIn(b) /\ toAgent' = toAgent \o b
    <3>1. toAgent \in Seq(WireFrame)
      BY Places
    <3> QED
      BY <1>19, <1>26, <3>1, EmptySeen
  <2>2. ~Tells(srv, pub)'
    BY <1>19, <1>26 DEF Tells
  <2> HIDE DEF b
  <2>3. Up'
    BY <1>19, <1>24, <2>1, <2>2, UpBlank DEF Order
  <2> QED
    BY <1>23, <2>3 DEF Order
<1>27. CASE linkUp /\ size = 0
  <2>1. toAgent' = toAgent \o o
    BY <1>13, <1>15, <1>19, <1>25, <1>27
  <2>2. Tells(srv, pub) /\ pub'.inq = pub.inq
    BY <1>2, <1>6, <1>20, <1>22, <1>27 DEF Tells
  <2>3. Up'
    BY <1>19, <1>24, <1>25, <2>1, <2>2, UpBlank DEF Order
  <2> QED
    BY <1>23, <2>3 DEF Order
<1>28. CASE linkUp /\ size > 0
  <2>1. size \in 1..Len(pub.inq)
    BY <1>2, <1>3, <1>5, <1>28, SocketTyped
  <2>2. toAgent' = toAgent \o (o \o <<DataFrame(head)>>)
    <3> DEFINE f == DataFrame(head)
    <3>1. toAgent' = toAgent \o Append(o, f)
      BY <1>13, <1>15, <1>19, <1>25, <1>28
    <3> HIDE DEF f
    <3>2. f \in WireFrame
      <4> HIDE DEF head
      <4> QED
        BY <1>6, <1>28, FramesTyped DEF f
    <3>3. Append(o, f) = o \o <<f>>
      BY <1>25, <3>2
    <3> QED
      BY <3>1, <3>3 DEF f
  <2>3. Tells(srv, pub)
    BY <1>2, <1>22, <1>28 DEF Tells
  <2>4. Up'
    BY <1>19, <1>20, <1>24, <1>25, <2>1, <2>2, <2>3, UpData DEF Order
  <2> QED
    BY <1>23, <2>4 DEF Order
<1> QED
  BY <1>5, <1>26, <1>27, <1>28

\* Every step on the visitor's side.
LEMMA ServerOrder ==
  ASSUME IInv, Order,
         VisitorSend \/ VisitorFin \/ VisitorAbort \/ ServerStep \/ ServerCongests
  PROVE  Order'
<1>1. CASE VisitorSend
  BY <1>1, VisitorSendOrder
<1>2. CASE VisitorFin \/ VisitorAbort
  BY <1>2, VisitorOrder
<1>3. CASE ServerCongests
  BY <1>3, CongestionOrder
<1>4. CASE ServerStep
  <2>1. UNCHANGED <<cVars, outsideVars>>
    BY <1>4 DEF ServerStep
  <2>2. CASE S!SocketFlush
    BY <2>1, <2>2, SocketFlushOrder
  <2>3. CASE S!OpenStream
    BY <2>1, <2>3, OpenStreamOrder
  <2>4. CASE S!SocketData
    BY <2>1, <2>4, SocketDataOrder
  <2>5. CASE S!SocketEnd
    BY <2>1, <2>5, SocketEndOrder
  <2>6. CASE S!SocketDrain
    BY <2>1, <2>6, SocketDrainOrder
  <2>7. CASE S!SocketError
    BY <2>1, <2>7, SocketErrorOrder
  <2>8. CASE S!SocketClose
    BY <2>1, <2>8, SocketCloseOrder
  <2>9. CASE S!ServerReceive
    BY <2>1, <2>9, ServerReceiveCalm, ServerReceiveData
  <2>10. CASE S!ClearCongestion
    BY <2>1, <2>10, CongestionOrder
  <2>11. CASE S!SessionDestroy
    BY <2>1, <2>11, SessionDestroyOrder
  <2> QED
    BY <1>4, <2>2, <2>3, <2>4, <2>5, <2>6, <2>7, <2>8, <2>9, <2>10, <2>11
       DEF ServerStep, S!ServerCallback
<1> QED
  BY <1>1, <1>2, <1>3, <1>4


-----------------------------------------------------------------------------
\* The agent's end.

\* What a committed turn adds to the frames under way.
LEMMA CliSent ==
  ASSUME IInv, NEW r, NEW t, CliCommitted(r, t)
  PROVE  LET b == IF linkUp THEN r.sent ELSE <<>>
         IN  /\ b \in Seq(WireFrame) /\ toServer' = toServer \o b
             /\ TypesIn(b) \subseteq TypesIn(r.sent)
<1>1. r.sent \in Seq(WireFrame) /\ <<>> \in Seq(WireFrame) /\ toServer \in Seq(WireFrame)
  BY Places DEF CliCommitted, CliTurn
<1>2. toServer \o <<>> = toServer
  BY <1>1
<1> QED
  BY <1>1, <1>2, EmptySeen DEF CliCommitted

\* A turn that passes nothing of its socket on.
LEMMA DownKept ==
  ASSUME IInv, Down, NEW r, NEW t, CliCommitted(r, t), "DATA" \notin TypesIn(r.sent),
         Tells(r.st, r.sock) => Tells(cli, loc) /\ r.sock.inq = loc.inq
  PROVE  Down'
<1> DEFINE b == IF linkUp THEN r.sent ELSE <<>>
<1>1. b \in Seq(WireFrame) /\ toServer' = toServer \o b /\ TypesIn(b) \subseteq TypesIn(r.sent)
  BY CliSent
<1> HIDE DEF b
<1>2. "DATA" \notin TypesIn(b)
  BY <1>1
<1>3. /\ cli' = r.st /\ loc' = r.sock /\ linkUp' = linkUp
      /\ srv' = srv /\ pub' = pub /\ serviceSaid' = serviceSaid
  BY DEF CliCommitted, sVars
<1>4. Tells(cli, loc)' => Tells(cli, loc) /\ loc'.inq = loc.inq
  BY <1>3 DEF Tells
<1> QED
  BY <1>1, <1>2, <1>3, <1>4, DownBlank

\* A stream refused stays so, whatever is taken from the channel.
LEMMA StillRefused ==
  ASSUME IInv, NEW t \in Seq(WireFrame), toAgent' \in Seq(WireFrame),
         toAgent = t \o toAgent', srv' = srv, cli'.dial = cli.dial, Refused
  PROVE  Refused'
<1> DEFINE c == toAgent'
<1>1. c \in Seq(WireFrame)
  OBVIOUS
<1> HIDE DEF c
<1>2. TypesIn(t \o c) = TypesIn(t) \cup TypesIn(c)
  BY <1>1, ConcatSeen DEF WireFrame
<1>3. "OPEN" \notin TypesIn(c)
  BY <1>2 DEF Refused, c
<1> QED
  BY <1>3 DEF Refused, c

\* A calm turn of the agent.
LEMMA CliCalmStep ==
  ASSUME IInv, Order, NEW r, NEW t, CliCommitted(r, t), CliCalm(r, C!Turn),
         "DATA" \notin TypesIn(t) \/ ~Hears(cli, loc) \/ Refused
  PROVE  Order'
<1>0. loc \in Socket(Bytes)
  BY Places
<1>1. /\ C!Turn.st = cli /\ C!Turn.sock = loc /\ C!Turn.sent = <<>>
  BY <1>0, CliTurnStarts
<1>2. /\ cli' = r.st /\ loc' = r.sock /\ loc' \in Socket(Bytes)
      /\ srv' = srv /\ pub' = pub /\ linkUp' = linkUp
      /\ visitorSaid' = visitorSaid /\ serviceSaid' = serviceSaid
      /\ t \in Seq(WireFrame) /\ toAgent' \in Seq(WireFrame) /\ toAgent = t \o toAgent'
  BY DEF CliCommitted, CliTurn, sVars
<1>3. "DATA" \notin TypesIn(r.sent)
  BY <1>1, EmptySeen DEF CliCalm
<1>4. /\ SoftOut(r.sock, loc) /\ SoftIn(r.sock, loc)
      /\ cli.finished => r.st.finished
      /\ cli.sentEof => r.st.sentEof
      /\ cli.receivedEof => r.st.receivedEof
      /\ r.st.dial = cli.dial /\ r.st.connected = cli.connected
      /\ r.st.queued = cli.queued
      /\ r.st.headBuf = cli.headBuf /\ r.st.headDone = cli.headDone
      /\ r.st.rewriteHost = cli.rewriteHost
  BY <1>1 DEF CliCalm, Soft
<1>5. Down'
  <2>1. Tells(r.st, r.sock) => Tells(cli, loc) /\ r.sock.inq = loc.inq
    BY <1>4 DEF Tells, SoftIn
  <2> QED
    BY <1>3, <2>1, DownKept DEF Order
<1>6. Refused => Refused'
  BY <1>2, <1>4, StillRefused
<1>7. Up'
  <2> HIDE DEF Refused
  <2> QED
    BY <1>2, <1>4, <1>6, UpTaken DEF Order
<1> QED
  BY <1>5, <1>7 DEF Order

\* The agent's end and the frames unchanged, and its socket read from or
\* written to by nobody but the service behind it.
LEMMA LocIdle ==
  ASSUME IInv, Order, cli' = cli, UNCHANGED <<sVars, linkVars, visitorSaid>>,
         loc' \in Socket(Bytes), SoftOut(loc', loc), SoftIn(loc', loc),
         serviceSaid' = serviceSaid
  PROVE  Order'
<1>1. /\ srv' = srv /\ pub' = pub /\ linkUp' = linkUp /\ toAgent' = toAgent
      /\ toServer' = toServer /\ visitorSaid' = visitorSaid
  BY DEF sVars, linkVars
<1>2. /\ <<>> \in Seq(WireFrame) /\ "DATA" \notin TypesIn(<<>>)
      /\ toAgent \in Seq(WireFrame) /\ toServer \in Seq(WireFrame)
  BY Places, EmptySeen
<1>3. toAgent = <<>> \o toAgent' /\ toServer' = toServer \o <<>>
  BY <1>1, <1>2
<1>4. Refused => Refused'
  BY <1>1 DEF Refused
<1>5. Tells(cli, loc)' => Tells(cli, loc) /\ loc'.inq = loc.inq
  BY <1>1 DEF Tells, SoftIn
<1>6. Down'
  BY <1>1, <1>2, <1>3, <1>5, DownBlank DEF Order
<1>7. Up'
  <2> HIDE DEF Refused
  <2> QED
    BY <1>1, <1>2, <1>3, <1>4, UpTaken DEF Order
<1> QED
  BY <1>6, <1>7 DEF Order

\* The turn of a callback is calm against itself.
LEMMA CliTurnCalm ==
  ASSUME IInv
  PROVE  /\ C!Turn \in CliTurn /\ CliCalm(C!Turn, C!Turn)
         /\ C!Turn.st = cli /\ C!Turn.sock = loc /\ C!Turn.sent = <<>>
         /\ loc \in Socket(Bytes)
         /\ \A s \in Socket(Bytes) : Soft(s, loc) =>
               /\ [C!Turn EXCEPT !.sock = s] \in CliTurn
               /\ CliCalm([C!Turn EXCEPT !.sock = s], C!Turn)
<1>1. loc \in Socket(Bytes)
  BY Places
<1>2. /\ C!Turn \in CliTurn
      /\ C!Turn.st = cli /\ C!Turn.sock = loc /\ C!Turn.sent = <<>>
      /\ \A s \in Socket(Bytes) : [C!Turn EXCEPT !.sock = s] \in CliTurn
  BY <1>1, CliTurnStarts
<1> DEFINE h == C!Turn
<1>3. h \in CliTurn /\ h.sock = loc
  BY <1>2
<1> HIDE DEF h
<1>4. CliCalm(h, h) /\ \A s \in Socket(Bytes) : Soft(s, loc) =>
                          CliCalm([h EXCEPT !.sock = s], h)
  BY <1>3, CalmSelf, CalmSock
<1> QED
  BY <1>1, <1>2, <1>4 DEF h

\* The callbacks that pass no byte on.
LEMMA CliCallbackCalm ==
  ASSUME IInv, Order, NEW r, CliCalm(r, C!Turn), C!Commit(r),
         UNCHANGED <<sVars, linkUp, toAgent, cliClosed, visitorSaid, serviceSaid>>,
         cliCongested' \in BOOLEAN,
         congestions' \in [{"server", "agent"} -> 0..MaxCongestions]
  PROVE  Order'
<1>1. r \in CliTurn
  BY DEF CliCalm
<1> DEFINE t == <<>>
<1>2. CliCommitted(r, t)
  BY <1>1, CliCallback
<1>3. "DATA" \notin TypesIn(t)
  BY EmptySeen
<1> HIDE DEF t
<1> QED
  BY <1>2, <1>3, CliCalmStep

LEMMA LocalEndOrder ==
  ASSUME IInv, Order, C!LocalEnd, UNCHANGED <<sVars, outsideVars>>
  PROVE  Order'
<1>1. /\ C!Commit([C!OnLocalEnd(C!Turn) EXCEPT !.sock = C!EmitEnd(@)])
      /\ UNCHANGED <<sVars, linkUp, toAgent, cliClosed, visitorSaid, serviceSaid,
                     cliCongested, congestions>>
  BY DEF C!LocalEnd, outsideVars
<1> DEFINE h == C!Turn
           q == C!OnLocalEnd(h)
           s == EmitEnd(q.sock)
           r == [q EXCEPT !.sock = s]
<1>2. h \in CliTurn
  BY CliTurnCalm
<1>3. C!Commit(r)
  <2>1. [C!OnLocalEnd(C!Turn) EXCEPT !.sock = C!EmitEnd(@)] = r
    BY SameOperators
  <2> QED
    BY <1>1, <2>1
<1> HIDE DEF h
<1>4. CliCalm(q, h)
  BY <1>2, CliCalmEnd
<1> HIDE DEF q
<1>5. q \in CliTurn /\ q.sock \in Socket(Bytes)
  BY <1>4 DEF CliCalm, CliTurn
<1>6. s \in Socket(Bytes) /\ Soft(s, q.sock)
  BY <1>5, SocketEvents, SoftCalls
<1> HIDE DEF s
<1>7. CliCalm(r, q)
  BY <1>5, <1>6, CalmSock
<1> HIDE DEF r
<1>8. CliCalm(r, C!Turn)
  BY <1>4, <1>7, CalmTwice DEF h
<1>9. cliCongested' \in BOOLEAN /\ congestions' \in [{"server", "agent"} -> 0..MaxCongestions]
  BY <1>1 DEF IInv, Types
<1> QED
  BY <1>1, <1>3, <1>8, <1>9, CliCallbackCalm

LEMMA LocalDrainOrder ==
  ASSUME IInv, Order, C!LocalDrain, UNCHANGED <<sVars, outsideVars>>
  PROVE  Order'
<1> DEFINE s == Drained(loc)
           h == [C!Turn EXCEPT !.sock = s]
           r == C!FlushAck(h)
<1>1. UNCHANGED <<sVars, linkUp, toAgent, cliClosed, visitorSaid, serviceSaid,
                  cliCongested, congestions>>
  BY DEF C!LocalDrain, outsideVars
<1>2. C!Commit(r)
  <2>1. C!Turn.sock = loc
    BY DEF C!Turn
  <2>2. [C!Turn EXCEPT !.sock = C!Drained(@)] = h
    BY <2>1, SameOperators
  <2> QED
    BY <2>2 DEF C!LocalDrain
<1>3. s \in Socket(Bytes) /\ Soft(s, loc)
  BY CliTurnCalm, SocketEvents, SoftCalls
<1> HIDE DEF s
<1>4. h \in CliTurn /\ CliCalm(h, C!Turn)
  BY <1>3, CliTurnCalm
<1> HIDE DEF h
<1>5. CliCalm(r, h)
  BY <1>4, CliCalmFlushAck
<1> HIDE DEF r
<1>6. CliCalm(r, C!Turn)
  BY <1>4, <1>5, CalmTwice
<1>7. cliCongested' \in BOOLEAN /\ congestions' \in [{"server", "agent"} -> 0..MaxCongestions]
  BY <1>1 DEF IInv, Types
<1> QED
  BY <1>1, <1>2, <1>6, <1>7, CliCallbackCalm

LEMMA LocalErrorOrder ==
  ASSUME IInv, Order, C!LocalError, UNCHANGED <<sVars, outsideVars>>
  PROVE  Order'
<1> DEFINE s == [loc EXCEPT !.error = FALSE]
           h == [C!Turn EXCEPT !.sock = s]
           r == C!Destroy(h, "local_error")
<1>1. UNCHANGED <<sVars, linkUp, toAgent, cliClosed, visitorSaid, serviceSaid,
                  cliCongested, congestions>>
  BY DEF C!LocalError, outsideVars
<1>2. C!Commit(r)
  <2>1. [C!Turn EXCEPT !.sock.error = FALSE] = h
    BY DEF C!Turn
  <2> QED
    BY <2>1 DEF C!LocalError
<1>3. s \in Socket(Bytes) /\ Soft(s, loc)
  BY CliTurnCalm, SocketEvents, SoftCalls
<1> HIDE DEF s
<1>4. h \in CliTurn /\ CliCalm(h, C!Turn)
  BY <1>3, CliTurnCalm
<1> HIDE DEF h
<1>5. CliCalm(r, h)
  BY <1>4, CliCalmDestroy
<1> HIDE DEF r
<1>6. CliCalm(r, C!Turn)
  BY <1>4, <1>5, CalmTwice
<1>7. cliCongested' \in BOOLEAN /\ congestions' \in [{"server", "agent"} -> 0..MaxCongestions]
  BY <1>1 DEF IInv, Types
<1> QED
  BY <1>1, <1>2, <1>6, <1>7, CliCallbackCalm

LEMMA LocalCloseOrder ==
  ASSUME IInv, Order, C!LocalClose, UNCHANGED <<sVars, outsideVars>>
  PROVE  Order'
<1> DEFINE h == C!Turn
           q == C!Finish(h)
           s == DestroySocket(q.sock)
           r == [q EXCEPT !.sock = s]
<1>1. UNCHANGED <<sVars, linkUp, toAgent, cliClosed, visitorSaid, serviceSaid,
                  cliCongested, congestions>>
  BY DEF C!LocalClose, outsideVars
<1>2. C!Commit(r)
  <2>1. [C!Finish(C!Turn) EXCEPT !.sock = C!DestroySocket(@)] = r
    BY SameOperators
  <2> QED
    BY <2>1 DEF C!LocalClose
<1>3. h \in CliTurn
  BY CliTurnCalm
<1> HIDE DEF h
<1>4. CliCalm(q, h)
  BY <1>3, CliCalmFinish
<1> HIDE DEF q
<1>5. q \in CliTurn /\ q.sock \in Socket(Bytes)
  BY <1>4 DEF CliCalm, CliTurn
<1>6. s \in Socket(Bytes) /\ Soft(s, q.sock)
  BY <1>5, SocketDestroyed, SoftCalls
<1> HIDE DEF s
<1>7. CliCalm(r, q)
  BY <1>5, <1>6, CalmSock
<1> HIDE DEF r
<1>8. CliCalm(r, C!Turn)
  BY <1>4, <1>7, CalmTwice DEF h
<1>9. cliCongested' \in BOOLEAN /\ congestions' \in [{"server", "agent"} -> 0..MaxCongestions]
  BY <1>1 DEF IInv, Types
<1> QED
  BY <1>1, <1>2, <1>8, <1>9, CliCallbackCalm

\* Congestion of the uplink, and its end.
LEMMA UplinkOrder ==
  ASSUME IInv, Order,
         \/ C!ClearUplink /\ UNCHANGED <<sVars, outsideVars>>
         \/ AgentCongests
  PROVE  Order'
<1>1. PICK paused \in BOOLEAN :
        C!Commit(IF C!InStreams THEN C!SetGlobalPause(C!Turn, paused) ELSE C!Turn)
  BY DEF C!ClearUplink, AgentCongests, C!CongestUplink
<1>2. /\ UNCHANGED <<sVars, linkUp, toAgent, cliClosed, visitorSaid, serviceSaid>>
      /\ cliCongested' \in BOOLEAN
  BY DEF C!ClearUplink, AgentCongests, C!CongestUplink, outsideVars
<1>3. congestions' \in [{"server", "agent"} -> 0..MaxCongestions]
  <2>1. congestions \in [{"server", "agent"} -> 0..MaxCongestions]
    BY DEF IInv, Types
  <2>2. CASE UNCHANGED congestions
    BY <2>1, <2>2
  <2>3. CASE AgentCongests
    BY <2>1, <2>3, BridgeAssumption, SMTT(40) DEF AgentCongests
  <2> QED
    BY <2>2, <2>3 DEF outsideVars
<1> DEFINE r == IF C!InStreams THEN C!SetGlobalPause(C!Turn, paused) ELSE C!Turn
<1>4. C!Turn \in CliTurn /\ CliCalm(C!Turn, C!Turn)
  BY CliTurnCalm
<1>5. CliCalm(C!SetGlobalPause(C!Turn, paused), C!Turn)
  BY <1>4, CliCalmPause
<1>6. CliCalm(r, C!Turn) /\ C!Commit(r)
  BY <1>1, <1>4, <1>5
<1> HIDE DEF r
<1> QED
  BY <1>2, <1>3, <1>6, CliCallbackCalm

\* The session's teardown.
LEMMA TeardownOrder ==
  ASSUME IInv, Order, C!TeardownSession, UNCHANGED <<sVars, outsideVars>>
  PROVE  Order'
<1> DEFINE h == C!Turn
           c == IF cliCongested THEN C!SetGlobalPause(h, FALSE) ELSE h
           q == C!Destroy(c, "peer_reset")
           r == IF C!InStreams THEN q ELSE h
<1>1. /\ ~linkUp
      /\ UNCHANGED <<sVars, linkUp, toAgent, toServer, visitorSaid, serviceSaid,
                     congestions>>
      /\ cliClosed' \in BOOLEAN /\ cliCongested' \in BOOLEAN
  BY DEF C!TeardownSession, outsideVars
<1>2. cli' = r.st /\ loc' = r.sock
  BY DEF C!TeardownSession, C!Turn
<1>3. h \in CliTurn /\ CliCalm(h, h)
  BY CliTurnCalm
<1> HIDE DEF h
<1>4. CliCalm(C!SetGlobalPause(h, FALSE), h)
  BY <1>3, CliCalmPause
<1>5. CliCalm(c, h) /\ c \in CliTurn
  BY <1>3, <1>4 DEF CliCalm
<1> HIDE DEF c
<1>6. CliCalm(q, c)
  BY <1>5, CliCalmDestroy
<1> HIDE DEF q
<1>7. CliCalm(q, h)
  BY <1>5, <1>6, CalmTwice
<1>8. CliCalm(r, h) /\ r \in CliTurn
  BY <1>3, <1>7 DEF CliCalm
<1> HIDE DEF r
<1> DEFINE t == <<>>
<1>9. CliCommitted(r, t)
  <2>1. /\ <<>> \in Seq(WireFrame) /\ toAgent \in Seq(WireFrame)
        /\ toAgent = <<>> \o toAgent
    BY Nothing DEF IInv, Types
  <2>2. congestions' \in [{"server", "agent"} -> 0..MaxCongestions]
    BY <1>1 DEF IInv, Types
  <2> QED
    BY <1>1, <1>2, <1>8, <2>1, <2>2 DEF CliCommitted
<1>10. "DATA" \notin TypesIn(t)
  BY EmptySeen
<1> HIDE DEF t
<1> QED
  BY <1>8, <1>9, <1>10, CliCalmStep DEF h

\* The service sends, and hangs up, and its kernel takes what was written to it.
LEMMA ServiceSendOrder ==
  ASSUME IInv, Order, ServiceSend
  PROVE  Order'
<1> DEFINE new == [loc EXCEPT !.inq = Append(loc.inq, serviceSaid + 1)]
<1>1. /\ serviceSaid' = serviceSaid + 1 /\ loc' = new
      /\ srv' = srv /\ cli' = cli /\ pub' = pub /\ linkUp' = linkUp
      /\ toAgent' = toAgent /\ toServer' = toServer /\ visitorSaid' = visitorSaid
      /\ serviceSaid < DownBytes
  BY DEF ServiceSend, sVars, linkVars
<1>2. /\ loc \in Socket(Bytes) /\ serviceSaid \in Nat /\ UpBytes \in Nat /\ DownBytes \in Nat
      /\ loc.inq \in Seq(Bytes)
  BY Places, BridgeAssumption
<1>3. /\ new.inq = Append(loc.inq, serviceSaid + 1)
      /\ new.out = loc.out /\ new.got = loc.got /\ new.destroyed = loc.destroyed
      /\ new \in Socket(Bytes)
  <2>1. serviceSaid + 1 \in Bytes
    BY <1>1, <1>2 DEF Bytes
  <2>2. Append(loc.inq, serviceSaid + 1) \in Seq(Bytes)
    BY <1>2, <2>1
  <2> QED
    BY <1>2, <2>2 DEF Socket
<1> HIDE DEF new
<1>4. Up'
  <2>1. SoftOut(loc', loc) /\ loc' \in Socket(Bytes)
    BY <1>1, <1>3 DEF SoftOut
  <2>2. /\ <<>> \in Seq(WireFrame) /\ "DATA" \notin TypesIn(<<>>)
        /\ toAgent \in Seq(WireFrame) /\ toAgent = <<>> \o toAgent'
    BY <1>1, Places, EmptySeen
  <2>3. Refused => Refused'
    BY <1>1 DEF Refused
  <2> HIDE DEF Refused
  <2> QED
    BY <1>1, <2>1, <2>2, <2>3, UpTaken DEF Order
<1>5. From(ReadBy(pub'), 0) /\ Len(ReadBy(pub')) <= serviceSaid'
  <2>1. pub.got \in Seq(Bytes) /\ pub.out \in Seq(Bytes)
    BY Places DEF Socket
  <2>2. ReadBy(pub) \in Seq(Bytes)
    BY <2>1, Concats DEF ReadBy
  <2> DEFINE z == Len(ReadBy(pub))
  <2>3. From(ReadBy(pub), 0) /\ z <= serviceSaid /\ z \in Nat
    BY <2>2 DEF Order, Down
  <2> HIDE DEF z
  <2>4. z <= serviceSaid + 1
    BY <1>2, <2>3
  <2> QED
    BY <1>1, <2>3, <2>4 DEF z
<1>6. ASSUME Hears(srv', pub')
      PROVE  Way(Pieces(toServer'), loc'.inq, Len(ReadBy(pub')), serviceSaid',
                 Tells(cli, loc)')
  <2> DEFINE u == Tells(cli, loc)
             p == Pieces(toServer)
             inq == loc.inq
             n == Len(ReadBy(pub))
  <2>1. Way(p, inq, n, serviceSaid, u)
    BY <1>1, <1>6 DEF Order, Down
  <2>2. Tells(cli, loc)' = u
    BY <1>1, <1>3 DEF Tells
  <2>3. p \in Seq(Seq(Bytes)) /\ inq \in Seq(Bytes) /\ n \in Nat
    <3>1. pub.got \in Seq(Bytes) /\ pub.out \in Seq(Bytes)
      BY Places DEF Socket
    <3>2. ReadBy(pub) \in Seq(Bytes)
      BY <3>1, Concats DEF ReadBy
    <3> QED
      BY <3>2, Places, PiecesLaws
  <2> HIDE DEF u, p, inq, n
  <2>4. Way(p, Append(inq, serviceSaid + 1), n, serviceSaid + 1, u)
    BY <1>2, <2>1, <2>3, WaySaid
  <2> QED
    BY <1>1, <1>3, <2>2, <2>4 DEF p, u, inq, n
<1>7. Down'
  BY <1>5, <1>6 DEF Down
<1> QED
  BY <1>4, <1>7 DEF Order

LEMMA ServiceOrder ==
  ASSUME IInv, Order, ServiceFin \/ ServiceAbort
  PROVE  Order'
<1>1. loc \in Socket(Bytes)
  BY Places
<1>2. loc' = [loc EXCEPT !.fin = TRUE] \/ loc' = Fail(loc)
  BY DEF ServiceFin, ServiceAbort
<1>3. /\ [loc EXCEPT !.fin = TRUE] \in Socket(Bytes) /\ Fail(loc) \in Socket(Bytes)
      /\ Soft([loc EXCEPT !.fin = TRUE], loc) /\ Soft(Fail(loc), loc)
  <2>1. [loc EXCEPT !.fin = TRUE] \in Socket(Bytes)
    BY <1>1 DEF Socket
  <2> QED
    BY <1>1, <2>1, SocketDestroyed, SoftCalls
<1>4. loc' \in Socket(Bytes) /\ SoftOut(loc', loc) /\ SoftIn(loc', loc)
  BY <1>2, <1>3 DEF Soft
<1>5. cli' = cli /\ UNCHANGED <<sVars, linkVars, visitorSaid>> /\ serviceSaid' = serviceSaid
  BY DEF ServiceFin, ServiceAbort, outsideVars
<1> QED
  BY <1>4, <1>5, LocIdle

LEMMA LocalFlushOrder ==
  ASSUME IInv, Order, C!LocalFlush, UNCHANGED <<sVars, outsideVars>>
  PROVE  Order'
<1>1. /\ loc' = FlushByte(loc) /\ loc.out # <<>>
      /\ srv' = srv /\ cli' = cli /\ pub' = pub /\ linkUp' = linkUp
      /\ toAgent' = toAgent /\ toServer' = toServer
      /\ visitorSaid' = visitorSaid /\ serviceSaid' = serviceSaid
  BY SameOperators DEF C!LocalFlush, C!CanFlush, sVars, outsideVars
<1>2. /\ ReadBy(loc') = ReadBy(loc) /\ loc'.inq = loc.inq
      /\ loc'.destroyed = loc.destroyed
  BY <1>1, Places, FlushedRead
<1>3. Hears(cli, loc)' = Hears(cli, loc) /\ Tells(srv, pub)' = Tells(srv, pub)
      /\ Tells(cli, loc)' = Tells(cli, loc) /\ Refused' = Refused
  BY <1>1, <1>2 DEF Hears, Tells, Refused
<1>4. Up'
  <2> HIDE DEF Refused
  <2> QED
    BY <1>1, <1>2, <1>3 DEF Order, Up
<1>5. /\ <<>> \in Seq(WireFrame) /\ "DATA" \notin TypesIn(<<>>)
      /\ toServer' = toServer \o <<>>
  <2>1. toServer \in Seq(WireFrame)
    BY Places
  <2> QED
    BY <1>1, <2>1, EmptySeen
<1>6. Down'
  BY <1>1, <1>2, <1>3, <1>5, DownBlank DEF Order
<1> QED
  BY <1>4, <1>6 DEF Order

\* 'data' passed on, at the agent: the socket keeps what was not taken.
LEMMA PassedOnLocally ==
  ASSUME NEW h \in CliTurn, NEW d \in Seq(Bytes), d # <<>>
  PROVE  LET r == C!OnLocalData(h, d)
         IN  /\ r \in CliTurn /\ SameBytes(r.sock, h.sock)
             /\ r.st.dial = h.st.dial /\ r.st.connected = h.st.connected
             /\ r.st.queued = h.st.queued
             /\ r.st.headBuf = h.st.headBuf /\ r.st.headDone = h.st.headDone
             /\ r.st.rewriteHost = h.st.rewriteHost /\ r.st.finished = h.st.finished
             /\ r.st.sentEof = h.st.sentEof /\ r.st.receivedEof = h.st.receivedEof
             /\ h.st.finished \/ h.st.sentEof => r.sent = h.sent
             /\ ~(h.st.finished \/ h.st.sentEof) => r.sent = Append(h.sent, DataFrame(d))
<1> DEFINE r == C!OnLocalData(h, d)
<1>1. h.sock \in Socket(Bytes) /\ h.st \in CliType
  BY DEF CliTurn
<1>2. /\ h.st.finished \/ h.st.sentEof => r = h
      /\ ~(h.st.finished \/ h.st.sentEof) =>
            /\ r \in CliTurn
            /\ r.sent = Append(h.sent, DataFrame(d))
            /\ \/ /\ r.st = [h.st EXCEPT !.sendCredit = h.st.sendCredit - Len(d)]
                  /\ r.sock = h.sock
               \/ /\ r.st = [h.st EXCEPT !.sendCredit = h.st.sendCredit - Len(d),
                                         !.pausedForCredit = TRUE]
                  /\ r.sock = Pause(h.sock)
  BY CliLocalData
<1> HIDE DEF r
<1>3. SameBytes(h.sock, h.sock) /\ SameBytes(Pause(h.sock), h.sock)
  BY <1>1, PausedBytes DEF SameBytes
<1>4. CASE h.st.finished \/ h.st.sentEof
  BY <1>2, <1>3, <1>4 DEF r
<1>5. CASE ~(h.st.finished \/ h.st.sentEof)
  <2>1. /\ r.st.dial = h.st.dial /\ r.st.connected = h.st.connected
        /\ r.st.queued = h.st.queued
        /\ r.st.headBuf = h.st.headBuf /\ r.st.headDone = h.st.headDone
        /\ r.st.rewriteHost = h.st.rewriteHost /\ r.st.finished = h.st.finished
        /\ r.st.sentEof = h.st.sentEof /\ r.st.receivedEof = h.st.receivedEof
    BY <1>1, <1>2, <1>5 DEF CliType
  <2> QED
    BY <1>2, <1>3, <1>5, <2>1 DEF r
<1> QED
  BY <1>4, <1>5

\* 'data' at the agent: what is sent is what the socket had first.
LEMMA LocalDataOrder ==
  ASSUME IInv, Order, C!LocalData, UNCHANGED <<sVars, outsideVars>>
  PROVE  Order'
<1>1. PICK k \in 1..MaxChunk :
        /\ C!CanEmitData(loc, k)
        /\ C!Commit(C!OnLocalData([C!Turn EXCEPT !.sock = C!TakeData(@, k)],
                                   SubSeq(loc.inq, 1, k)))
  BY DEF C!LocalData
<1>2. /\ k <= Len(loc.inq) /\ ~loc.destroyed
      /\ UNCHANGED <<sVars, linkUp, toAgent, cliClosed, visitorSaid, serviceSaid,
                     cliCongested, congestions>>
  BY <1>1 DEF C!LocalData, C!CanEmitData, outsideVars
<1>3. k \in Nat /\ k > 0
  BY SocketAssumption
<1> DEFINE s == TakeData(loc, k)
           d == SubSeq(loc.inq, 1, k)
           rest == SubSeq(loc.inq, k + 1, Len(loc.inq))
           h == [C!Turn EXCEPT !.sock = s]
           r == C!OnLocalData(h, d)
<1>4. /\ loc \in Socket(Bytes) /\ s \in Socket(Bytes) /\ s.inq = rest
      /\ s.out = loc.out /\ s.got = loc.got /\ s.destroyed = loc.destroyed
      /\ d \in Seq(Bytes) /\ d # <<>>
  BY <1>2, <1>3, Places, TakenBytes
<1>5. C!Commit(r)
  <2>1. C!Turn.sock = loc
    BY DEF C!Turn
  <2>2. [C!Turn EXCEPT !.sock = C!TakeData(@, k)] = h
    BY <2>1, SameOperators
  <2> QED
    BY <1>1, <2>2
<1> HIDE DEF s
<1>6. h \in CliTurn /\ h.st = cli /\ h.sock = s /\ h.sent = <<>>
  BY <1>4, CliTurnStarts, SMTT(40)
<1> HIDE DEF h
<1>7. /\ r \in CliTurn /\ SameBytes(r.sock, s)
      /\ r.st.dial = cli.dial /\ r.st.connected = cli.connected
      /\ r.st.queued = cli.queued
      /\ r.st.headBuf = cli.headBuf /\ r.st.headDone = cli.headDone
      /\ r.st.rewriteHost = cli.rewriteHost /\ r.st.finished = cli.finished
      /\ r.st.sentEof = cli.sentEof /\ r.st.receivedEof = cli.receivedEof
      /\ cli.finished \/ cli.sentEof => r.sent = <<>>
      /\ ~(cli.finished \/ cli.sentEof) => r.sent = Append(<<>>, DataFrame(d))
  <2>1. /\ r \in CliTurn /\ SameBytes(r.sock, h.sock)
        /\ r.st.dial = h.st.dial /\ r.st.connected = h.st.connected
        /\ r.st.queued = h.st.queued
        /\ r.st.headBuf = h.st.headBuf /\ r.st.headDone = h.st.headDone
        /\ r.st.rewriteHost = h.st.rewriteHost /\ r.st.finished = h.st.finished
        /\ r.st.sentEof = h.st.sentEof /\ r.st.receivedEof = h.st.receivedEof
        /\ h.st.finished \/ h.st.sentEof => r.sent = h.sent
        /\ ~(h.st.finished \/ h.st.sentEof) => r.sent = Append(h.sent, DataFrame(d))
    <3> HIDE DEF d
    <3> QED
      BY <1>4, <1>6, PassedOnLocally
  <2> HIDE DEF r, d
  <2> QED
    BY <1>6, <2>1
<1> HIDE DEF r
<1>8. cliCongested' \in BOOLEAN /\ congestions' \in [{"server", "agent"} -> 0..MaxCongestions]
  BY <1>2 DEF IInv, Types
<1> DEFINE t == <<>>
<1>9. CliCommitted(r, t)
  BY <1>2, <1>5, <1>7, <1>8, CliCallback
<1>10. t \in Seq(WireFrame) /\ "DATA" \notin TypesIn(t)
  BY EmptySeen
<1> HIDE DEF t
<1>11. /\ cli' = r.st /\ loc' = r.sock /\ loc' \in Socket(Bytes)
       /\ srv' = srv /\ pub' = pub /\ linkUp' = linkUp
       /\ visitorSaid' = visitorSaid /\ serviceSaid' = serviceSaid
       /\ toAgent' \in Seq(WireFrame) /\ toAgent = t \o toAgent'
       /\ toServer' = IF linkUp THEN toServer \o r.sent ELSE toServer
  BY <1>9 DEF CliCommitted, CliTurn, sVars
<1>12. /\ SoftOut(loc', loc) /\ loc'.inq = rest /\ loc'.destroyed = loc.destroyed
  BY <1>4, <1>7, <1>11 DEF SameBytes, SoftOut
<1>13. Up'
  <2>1. Refused => Refused'
    BY <1>7, <1>10, <1>11, StillRefused
  <2> HIDE DEF Refused
  <2> QED
    BY <1>7, <1>10, <1>11, <1>12, <2>1, UpTaken DEF Order
<1>14. ASSUME Tells(cli, loc) PROVE Down'
  <2>1. k \in 1..Len(loc.inq)
    BY <1>2, <1>3, <1>4, SocketTyped
  <2>2. toServer' = toServer \o <<DataFrame(SubSeq(loc.inq, 1, k))>>
    <3> DEFINE f == DataFrame(d)
    <3>1. toServer' = toServer \o Append(<<>>, f)
      BY <1>7, <1>11, <1>14 DEF Tells
    <3> HIDE DEF f
    <3>2. Append(<<>>, f) = <<f>>
      OBVIOUS
    <3> QED
      BY <3>1, <3>2 DEF f
  <2> QED
    BY <1>11, <1>12, <1>14, <2>1, <2>2, DownData DEF Order
<1>15. ASSUME ~Tells(cli, loc) PROVE Down'
  <2>1. ~linkUp \/ cli.finished \/ cli.sentEof
    BY <1>2, <1>15 DEF Tells
  <2> DEFINE b == <<>>
  <2>2. b \in Seq(WireFrame) /\ "DATA" \notin TypesIn(b) /\ toServer \in Seq(WireFrame)
    BY EmptySeen, Places
  <2>3. toServer' = toServer \o b
    BY <1>7, <1>11, <2>1, <2>2
  <2> HIDE DEF b
  <2>4. ~Tells(cli, loc)'
    BY <1>7, <1>11, <2>1 DEF Tells
  <2> QED
    BY <1>11, <2>2, <2>3, <2>4, DownBlank DEF Order
<1> QED
  BY <1>13, <1>14, <1>15 DEF Order

\* The dial is refused, fails or takes too long.
LEMMA DialFailOrder ==
  ASSUME IInv, Order, C!DialFail, UNCHANGED <<sVars, outsideVars>>
  PROVE  Order'
<1> DEFINE h == [C!Turn EXCEPT !.st.dial = "over"]
           s == DestroySocket(loc)
           over == [h EXCEPT !.sock = s]
           said == C!Send(over, ResetFrame)
           r == IF cli.finished THEN over ELSE C!Finish(said)
<1>1. /\ cli.dial = "pending"
      /\ UNCHANGED <<sVars, linkUp, toAgent, cliClosed, serviceSaid, visitorSaid,
                     cliCongested, congestions>>
  BY DEF C!DialFail, outsideVars
<1>2. C!Commit(r)
  <2>1. C!Turn.sock = loc /\ C!Turn = [st |-> cli, sock |-> loc, sent |-> <<>>]
    BY DEF C!Turn
  <2>2. [C!Turn EXCEPT !.st.dial = "over", !.sock = C!DestroySocket(@)] = over
    BY <2>1, SameOperators
  <2> QED
    BY <2>2, SameOperators DEF C!DialFail
<1>3. h \in CliTurn /\ h.st = [cli EXCEPT !.dial = "over"] /\ h.sock = loc /\ h.sent = <<>>
  BY <1>1, CliDialled
<1> HIDE DEF h
<1>4. loc \in Socket(Bytes) /\ cli \in CliType
  BY Places
<1>5. s \in Socket(Bytes) /\ SoftOut(s, loc) /\ s.destroyed
  BY <1>4, SocketDestroyed, SoftCalls DEF Soft
<1> HIDE DEF s
<1>6. over \in CliTurn /\ over.st = h.st /\ over.sock = s /\ over.sent = <<>>
  BY <1>3, <1>5, CliSock
<1> HIDE DEF over
<1>7. /\ said \in CliTurn /\ said.st = h.st /\ said.sock = s
      /\ said.sent = Append(<<>>, ResetFrame)
  BY <1>6, FramesTyped, CliSend, ZenonT(60)
<1> HIDE DEF said
<1>8. /\ C!Finish(said) \in CliTurn
      /\ C!Finish(said).st = [h.st EXCEPT !.finished = TRUE]
      /\ C!Finish(said).sock = s
      /\ C!Finish(said).sent = Append(<<>>, ResetFrame)
  BY <1>7, CliFinish
<1>9. r \in CliTurn /\ r.sock = s /\ (r.sent = <<>> \/ r.sent = Append(<<>>, ResetFrame))
      /\ ((cli.finished /\ r.st = h.st) \/ r.st = [h.st EXCEPT !.finished = TRUE])
  BY <1>6, <1>8
<1> HIDE DEF r
<1>10. /\ r.st.finished /\ r.st.rewriteHost = cli.rewriteHost
       /\ r.st.connected = cli.connected
  <2>1. /\ h.st \in CliType /\ h.st.finished = cli.finished
        /\ h.st.rewriteHost = cli.rewriteHost /\ h.st.connected = cli.connected
    BY <1>3, <1>4 DEF CliTurn, CliType
  <2> DEFINE x == h.st
  <2> HIDE DEF x
  <2>2. /\ x \in CliType /\ x.finished = cli.finished
        /\ x.rewriteHost = cli.rewriteHost /\ x.connected = cli.connected
        /\ (cli.finished /\ r.st = x) \/ r.st = [x EXCEPT !.finished = TRUE]
    BY <1>9, <2>1 DEF x
  <2> QED
    BY <2>2 DEF CliType
<1>11. "DATA" \notin TypesIn(r.sent)
  <2>1. CASE r.sent = <<>>
    BY <2>1, EmptySeen
  <2>2. CASE r.sent = Append(<<>>, ResetFrame)
    <3>1. ResetFrame \in WireFrame /\ ResetFrame.type = "RESET"
      BY FramesTyped
    <3> QED
      BY <2>2, <3>1, OneSent
  <2> QED
    BY <1>9, <2>1, <2>2
<1> DEFINE t == <<>>
<1>12. CliCommitted(r, t)
  BY <1>1, <1>2, <1>9, CliCallback DEF IInv, Types
<1> HIDE DEF t
<1>13. Down'
  <2>1. ~Tells(r.st, r.sock)
    BY <1>10 DEF Tells
  <2> QED
    BY <1>11, <1>12, <2>1, DownKept DEF Order
<1>14. Up'
  <2>1. cli' = r.st /\ loc' = s /\ visitorSaid' = visitorSaid
    BY <1>9, <1>12 DEF CliCommitted
  <2>2. ~cli'.connected
    BY <1>1, <1>10, <2>1 DEF IInv, LifeOfAgent
  <2>3. ~Hears(cli', loc')
    BY <1>10, <2>1 DEF Hears
  <2> HIDE DEF Refused
  <2> QED
    BY <1>5, <1>10, <2>1, <2>2, <2>3, UpOver DEF Order
<1> QED
  BY <1>13, <1>14 DEF Order

-----------------------------------------------------------------------------
\* What is written to the service.

\* The elements of a concatenation.
LEMMA Joined ==
  ASSUME NEW B, NEW a \in Seq(B), NEW d \in Seq(B)
  PROVE  /\ a \o d \in Seq(B)
         /\ Len(a) \in Nat /\ Len(d) \in Nat /\ Len(a \o d) = Len(a) + Len(d)
         /\ DOMAIN a = 1..Len(a) /\ DOMAIN d = 1..Len(d)
         /\ DOMAIN (a \o d) = 1..(Len(a) + Len(d))
         /\ \A i \in 1..Len(a) : (a \o d)[i] = a[i]
         /\ \A i \in 1..Len(d) : (a \o d)[Len(a) + i] = d[i]
  OBVIOUS

\* Behind a head that went out the bytes are the visitor's.
LEMMA SeenOn ==
  ASSUME NEW r, NEW n \in Nat, NEW s \in Seq(Bytes), NEW d \in Seq(Bytes),
         AllSeen(r, s), Len(s) = SeenLen(r, n), Rewriting(r) => HostByte <= n,
         From(d, n)
  PROVE  /\ AllSeen(r, s \o d) /\ Len(s \o d) = SeenLen(r, n + Len(d))
         /\ Rewriting(r) => HostByte <= n + Len(d)
<1> DEFINE m == Len(s)
           k == Len(d)
           x == s \o d
<1>1. /\ m \in Nat /\ k \in Nat /\ Len(x) = m + k
      /\ DOMAIN s = 1..m /\ DOMAIN d = 1..k /\ DOMAIN x = 1..(m + k)
      /\ \A i \in 1..m : x[i] = s[i]
      /\ \A i \in 1..k : x[m + i] = d[i]
  <2>1. /\ m \in Nat /\ k \in Nat /\ DOMAIN s = 1..m /\ DOMAIN d = 1..k
        /\ DOMAIN x = 1..(m + k)
        /\ \A i \in 1..m : x[i] = s[i]
        /\ \A i \in 1..k : x[m + i] = d[i]
    OBVIOUS
  <2>2. Len(x) = m + k
    BY ConcatTyped
  <2> QED
    BY <2>1, <2>2
<1>2. m = SeenLen(r, n)
  OBVIOUS
<1> HIDE DEF m, k, x
<1> DEFINE g == Growth
<1>3. g \in Nat
  BY SeenGrows
<1>4. Rewriting(r) => HostByte \in Nat
  BY BridgeAssumption DEF Rewriting
<1>5. /\ ~Rewriting(r) => m = n
      /\ Rewriting(r) => m = n + g /\ HostByte <= n
  BY <1>2 DEF SeenLen
<1>6. ASSUME NEW i \in 1..k PROVE x[m + i] = SeenAt(r, m + i)
  <2>1. x[m + i] = n + i
    BY <1>1, <1>6 DEF From
  <2>2. CASE ~Rewriting(r)
    BY <1>5, <2>1, <2>2 DEF SeenAt
  <2>3. CASE Rewriting(r)
    <3>1. /\ m + i = (n + g) + i /\ (n + g) + i > HostByte + g
          /\ (n + g) + i >= HostByte /\ ((n + g) + i) - g = n + i
      BY <1>1, <1>3, <1>4, <1>5, <2>3
    <3>2. SeenAt(r, m + i) = (m + i) - g
      <4>1. ~(m + i < HostByte) /\ ~(m + i <= HostByte + g)
        BY <1>1, <1>3, <1>4, <2>3, <3>1
      <4> QED
        BY <2>3, <4>1 DEF SeenAt
    <3> QED
      BY <2>1, <3>1, <3>2
  <2> QED
    BY <2>2, <2>3
<1> HIDE DEF g
<1>7. ASSUME NEW i \in 1..(m + k) PROVE x[i] = SeenAt(r, i)
  <2>1. CASE i <= m
    <3>1. i \in 1..m
      BY <1>1, <2>1
    <3> QED
      BY <1>1, <3>1 DEF AllSeen
  <2>2. CASE i > m
    <3> DEFINE j == i - m
    <3>1. j \in 1..k /\ i = m + j
      BY <1>1, <2>2
    <3> HIDE DEF j
    <3> QED
      BY <1>6, <3>1
  <2> QED
    BY <1>1, <2>1, <2>2
<1>8. AllSeen(r, x)
  BY <1>1, <1>7 DEF AllSeen
<1>9. Len(x) = SeenLen(r, n + k)
  <2>1. CASE ~Rewriting(r)
    BY <1>1, <1>5, <2>1 DEF SeenLen
  <2>2. CASE Rewriting(r)
    <3>1. HostByte <= n + k /\ m + k = (n + k) + g
      BY <1>1, <1>3, <1>4, <1>5, <2>2
    <3> QED
      BY <1>1, <2>2, <3>1 DEF SeenLen, g
  <2> QED
    BY <2>1, <2>2
<1>10. Rewriting(r) => HostByte <= n + k
  BY <1>1, <1>4, <1>5
<1> QED
  BY <1>8, <1>9, <1>10 DEF x, k

\* A head goes out as the service is to read it.
LEMMA HeadSeen ==
  ASSUME NEW head \in Seq(Bytes), From(head, 0), Len(head) <= UpBytes
  PROVE  LET out == C!RewriteHostHeader(head)
         IN  AllSeen(TRUE, out) /\ Len(out) = SeenLen(TRUE, Len(head))
<1> DEFINE n == Len(head)
           out == C!RewriteHostHeader(head)
           m == Len(TargetBytes)
<1> SUFFICES AllSeen(TRUE, out) /\ Len(out) = SeenLen(TRUE, n)
  OBVIOUS
<1>1. n \in Nat /\ DOMAIN head = 1..n /\ \A i \in 1..n : head[i] = i
  <2>1. n \in Nat /\ DOMAIN head = 1..n
    OBVIOUS
  <2> HIDE DEF n
  <2>2. ASSUME NEW i \in 1..n PROVE head[i] = i
    <3>1. head[i] = 0 + i
      BY <2>1 DEF From
    <3> QED
      BY <2>1, <3>1
  <2> QED
    BY <2>1, <2>2
<1>2. m \in Nat \ {0} /\ TargetBytes \in Seq(Bytes) /\ UpBytes \in Nat /\ n <= UpBytes
  <2>1. TargetBytes \in Seq(Nat) /\ TargetBytes # <<>>
    BY BridgeAssumption
  <2>2. /\ m \in Nat \ {0} /\ DOMAIN TargetBytes = 1..m
        /\ TargetBytes = [i \in 1..m |-> TargetBytes[i]]
    BY <2>1
  <2>3. \A i \in 1..m : TargetBytes[i] \in Bytes
    BY <2>2 DEF Bytes, ToSet
  <2> QED
    BY <2>2, <2>3, BridgeAssumption
<1>3. HostByte \in ToSet(head) <=> HostByte \in 1..n
  <2> HIDE DEF n
  <2>1. ToSet(head) = {head[i] : i \in 1..n}
    BY <1>1 DEF ToSet
  <2> QED
    BY <1>1, <2>1
<1>4. CASE HostByte \notin 1..n
  <2>1. out = head
    BY <1>3, <1>4 DEF C!RewriteHostHeader, ToSet, C!ToSet
  <2> HIDE DEF n, out
  <2>2. Rewriting(TRUE) => HostByte > n /\ HostByte \in Nat
    BY <1>1, <1>2, <1>4 DEF Rewriting
  <2>3. ASSUME NEW i \in 1..n PROVE head[i] = SeenAt(TRUE, i)
    <3>1. ASSUME Rewriting(TRUE) PROVE i < HostByte
      BY <1>1, <2>2, <3>1
    <3> QED
      BY <1>1, <3>1 DEF SeenAt
  <2>4. SeenLen(TRUE, n) = n
    <3>1. ASSUME Rewriting(TRUE) PROVE ~(HostByte <= n)
      BY <1>1, <2>2, <3>1
    <3> QED
      BY <3>1 DEF SeenLen
  <2>5. Len(head) = n
    BY DEF n
  <2> QED
    BY <1>1, <2>1, <2>3, <2>4, <2>5 DEF AllSeen
<1>5. CASE HostByte \in 1..n
  <2> DEFINE I == {j \in 1..n : head[j] = HostByte}
             i == CHOOSE j \in I : \A k \in I : j <= k
  <2>1. I = {HostByte} /\ I # {} /\ I \in SUBSET Nat
    BY <1>1, <1>5
  <2>2. i \in I
    BY <2>1, LeastNumber
  <2>3. i = HostByte
    BY <2>1, <2>2
  <2>4. out = SubSeq(head, 1, i - 1) \o TargetBytes \o SubSeq(head, i + 1, n)
    BY <1>3, <1>5, <2>1 DEF C!RewriteHostHeader, ToSet, C!ToSet, SelectInSeq,
                            C!SelectInSeq, C!Min, Min
  <2> DEFINE k == HostByte
             before == SubSeq(head, 1, k - 1)
             after == SubSeq(head, k + 1, n)
             start == before \o TargetBytes
  <2>5. out = start \o after
    BY <2>3, <2>4
  <2> HIDE DEF i, I, out, n
  <2>6. k \in 1..n /\ k \in Nat
    BY <1>5
  <2> HIDE DEF k
  <2>7. /\ before \in Seq(Bytes) /\ Len(before) = k - 1
        /\ \A j \in 1..(k - 1) : before[j] = head[j]
    <3>1. \A j \in 1..(k - 1) : j \in 1..Len(head)
      BY <1>1, <2>6 DEF n
    <3>2. k - 1 \in 0..Len(head) /\ k - 1 \in Int /\ 1 \in Int
      BY <1>1, <2>6 DEF n
    <3> DEFINE e == k - 1
    <3> HIDE DEF e
    <3>3. e \in Int /\ e <= Len(head) /\ e >= 0 /\ \A j \in 1..e : j \in 1..Len(head)
      BY <1>1, <3>1, <3>2 DEF e, n
    <3>4. /\ SubSeq(head, 1, e) \in Seq(Bytes) /\ Len(SubSeq(head, 1, e)) = e
          /\ \A j \in 1..e : SubSeq(head, 1, e)[j] = head[j]
      BY <3>3
    <3> QED
      BY <3>4 DEF e
  <2>8. /\ after \in Seq(Bytes) /\ Len(after) = n - k
        /\ \A j \in 1..(n - k) : after[j] = head[k + j]
    <3>1. k + 1 \in 1..(Len(head) + 1)
      BY <1>1, <2>6 DEF n
    <3> DEFINE e == k + 1
    <3>2. e \in 1..(Len(head) + 1) /\ e = k + 1
      BY <3>1
    <3> HIDE DEF e
    <3>3. /\ SubSeq(head, e, Len(head)) \in Seq(Bytes)
          /\ Len(SubSeq(head, e, Len(head))) = Len(head) - (e - 1)
      BY <3>2, SubSeqTyped
    <3>4. \A j \in 1..(Len(head) - (e - 1)) : SubSeq(head, e, Len(head))[j] = head[e + j - 1]
      BY <3>2, SubSeqProperties
    <3>5. Len(head) = n /\ n - k = n - (e - 1) /\ \A j \in 1..(n - k) : e + j - 1 = k + j
      BY <1>1, <2>6, <3>2 DEF n
    <3> QED
      BY <3>2, <3>3, <3>4, <3>5
  <2>9. k - 1 \in Nat /\ n - k \in Nat
    BY <1>1, <2>6
  <2> HIDE DEF before, after
  <2>10. /\ start \in Seq(Bytes) /\ Len(start) = (k - 1) + m
         /\ \A j \in 1..(k - 1) : start[j] = before[j]
         /\ \A j \in 1..m : start[(k - 1) + j] = TargetBytes[j]
    <3> DEFINE T == TargetBytes
    <3>1. T \in Seq(Bytes) /\ Len(T) = m
      BY <1>2
    <3> HIDE DEF T
    <3> DEFINE c == before \o T
    <3>2. /\ c \in Seq(Bytes) /\ Len(c) = Len(before) + Len(T)
          /\ \A j \in 1..Len(before) : c[j] = before[j]
          /\ \A j \in 1..Len(T) : c[Len(before) + j] = T[j]
      <4>1. before \in Seq(Bytes) /\ T \in Seq(Bytes)
        BY <2>7, <3>1
      <4> QED
        BY ONLY <4>1, Joined
    <3> HIDE DEF c, m
    <3>3. /\ c \in Seq(Bytes) /\ Len(c) = (k - 1) + m
          /\ \A j \in 1..(k - 1) : c[j] = before[j]
          /\ \A j \in 1..m : c[(k - 1) + j] = T[j]
      BY <2>7, <3>1, <3>2
    <3> QED
      BY <3>3 DEF c, T
  <2> HIDE DEF start, m
  <2> DEFINE p == (k - 1) + m
  <2>11. /\ Len(start \o after) = p + (n - k)
         /\ DOMAIN (start \o after) = 1..(p + (n - k))
         /\ \A j \in 1..p : (start \o after)[j] = start[j]
         /\ \A j \in 1..(n - k) : (start \o after)[p + j] = after[j]
    <3> DEFINE c == start \o after
    <3>1. /\ Len(c) = Len(start) + Len(after)
          /\ DOMAIN c = 1..(Len(start) + Len(after))
          /\ \A j \in 1..Len(start) : c[j] = start[j]
          /\ \A j \in 1..Len(after) : c[Len(start) + j] = after[j]
      <4>1. start \in Seq(Bytes) /\ after \in Seq(Bytes)
        BY <2>8, <2>10
      <4> QED
        BY ONLY <4>1
    <3> HIDE DEF c
    <3>2. Len(start) = p /\ Len(after) = n - k
      BY <2>8, <2>10
    <3> HIDE DEF p
    <3> QED
      BY <3>1, <3>2 DEF c
  <2>12. p \in Nat /\ p = k + (m - 1)
    BY <1>2, <2>6, <2>9
  <2>13. Rewriting(TRUE) /\ Growth = m - 1
    BY <1>1, <1>2, <2>6 DEF Rewriting, Growth, m, k
  <2> HIDE DEF p
  <2>14. ASSUME NEW j \in 1..(p + (n - k)) PROVE (start \o after)[j] = SeenAt(TRUE, j)
    <3>1. CASE j < k
      <4>1. j \in 1..(k - 1) /\ j \in 1..p /\ j \in 1..n
        BY <1>1, <1>2, <2>6, <2>12, <3>1
      <4>2. (start \o after)[j] = j
        BY <1>1, <2>7, <2>10, <2>11, <4>1
      <4> QED
        BY <3>1, <4>2 DEF SeenAt, k
    <3>2. CASE j >= k /\ j <= p
      <4> DEFINE l == j - (k - 1)
      <4>1. l \in 1..m /\ j = (k - 1) + l /\ j \in 1..p /\ l = j - k + 1
        BY <1>2, <2>6, <2>12, <3>2
      <4> HIDE DEF l
      <4>2. (start \o after)[j] = TargetBytes[j - k + 1]
        BY <2>10, <2>11, <4>1
      <4>3. ~(j < k) /\ j <= k + (m - 1)
        BY <1>2, <2>6, <2>12, <3>2
      <4> QED
        BY <2>13, <4>2, <4>3 DEF SeenAt, k
    <3>3. CASE j > p
      <4> DEFINE l == j - p
      <4>1. l \in 1..(n - k) /\ j = p + l /\ k + l \in 1..n /\ k + l = j - (m - 1)
        BY <1>1, <1>2, <2>6, <2>9, <2>12, <3>3
      <4> HIDE DEF l
      <4>2. (start \o after)[j] = j - (m - 1)
        BY <1>1, <2>8, <2>11, <4>1
      <4>3. ~(j < k) /\ ~(j <= k + (m - 1))
        BY <1>2, <2>6, <2>12, <3>3
      <4> QED
        BY <2>13, <4>2, <4>3 DEF SeenAt, k
    <3>4. j < k \/ (j >= k /\ j <= p) \/ j > p
      <4>1. j \in Int /\ k \in Int /\ p \in Int
        BY <2>6, <2>9, <2>12
      <4> QED
        BY <4>1
    <3> QED
      BY <3>1, <3>2, <3>3, <3>4
  <2>15. p + (n - k) = n + (m - 1) /\ k <= n
    BY <1>1, <1>2, <2>6, <2>12
  <2>16. SeenLen(TRUE, n) = n + (m - 1)
    BY <2>13, <2>15 DEF SeenLen, k
  <2> QED
    BY <2>5, <2>11, <2>14, <2>15, <2>16 DEF AllSeen
<1> QED
  BY <1>4, <1>5

\* A complete head has the Host header's value.
LEMMA HeadHasHost ==
  ASSUME HostInHead, NEW head \in Seq(Bytes), From(head, 0), C!HeadComplete(head),
         Rewriting(TRUE)
  PROVE  HostByte <= Len(head)
<1>1. /\ HostByte \in Nat /\ MaxHead \in Nat /\ Len(head) \in Nat
      /\ HostByte <= HeadEnd /\ HostByte <= MaxHead
  BY BridgeAssumption DEF HostInHead, Rewriting
<1>2. CASE Len(head) >= MaxHead
  BY <1>1, <1>2
<1>3. CASE HeadEnd \in C!ToSet(head)
  <2>1. PICK i \in 1..Len(head) : head[i] = HeadEnd
    BY <1>3 DEF C!ToSet
  <2>2. HeadEnd = 0 + i
    BY <2>1 DEF From
  <2> QED
    BY <1>1, <2>2
<1> QED
  BY <1>2, <1>3 DEF C!HeadComplete

\* A write of what the service is to read next.
LEMMA WrittenSeen ==
  ASSUME NEW s \in Socket(Bytes), NEW b \in Seq(Bytes), NEW w, w = Write(s, b),
         NEW r, NEW n \in Nat, NEW m \in Nat, n <= m,
         AllSeen(r, ReadBy(s)), Len(ReadBy(s)) <= SeenLen(r, n),
         ~s.destroyed => /\ AllSeen(r, ReadBy(s) \o b)
                         /\ Len(ReadBy(s) \o b) = SeenLen(r, m)
  PROVE  /\ w \in Socket(Bytes) /\ SoftIn(w, s)
         /\ AllSeen(r, ReadBy(w)) /\ Len(ReadBy(w)) <= SeenLen(r, m)
         /\ ~w.destroyed => Len(ReadBy(w)) = SeenLen(r, m)
<1>1. /\ w \in Socket(Bytes) /\ SoftIn(w, s)
      /\ \/ SoftOut(w, s) /\ w.destroyed
         \/ /\ ReadBy(w) = ReadBy(s) \o b
            /\ ~w.destroyed /\ ~s.destroyed
  BY Writes
<1>2. /\ SeenLen(r, n) \in Nat /\ SeenLen(r, m) \in Nat
      /\ SeenLen(r, n) <= SeenLen(r, m)
  BY SeenGrows
<1>3. CASE SoftOut(w, s) /\ w.destroyed
  <2>1. AllSeen(r, ReadBy(w)) /\ Len(ReadBy(w)) <= SeenLen(r, n) /\ ReadBy(w) \in Seq(Bytes)
    BY <1>1, <1>3, SeenKept, SoftRead
  <2> DEFINE x == SeenLen(r, n)
             y == SeenLen(r, m)
             z == Len(ReadBy(w))
  <2>2. x \in Nat /\ y \in Nat /\ x <= y /\ z \in Nat /\ z <= x
    BY <1>2, <2>1
  <2> HIDE DEF x, y, z
  <2>3. z <= y
    BY <2>2
  <2> QED
    BY <1>1, <1>3, <2>1, <2>3 DEF z, y
<1>4. CASE ReadBy(w) = ReadBy(s) \o b /\ ~s.destroyed
  <2> DEFINE y == SeenLen(r, m)
             z == Len(ReadBy(w))
  <2>1. AllSeen(r, ReadBy(w)) /\ z = y /\ y \in Nat
    BY <1>2, <1>4
  <2> HIDE DEF y, z
  <2>2. z <= y
    BY <2>1
  <2> QED
    BY <1>1, <2>1, <2>2 DEF y, z
<1> QED
  BY <1>1, <1>3, <1>4

\* When n bytes came for the service in the turn h, what it reads is right.
Delivers(h, n) ==
    /\ AllSeen(h.st.rewriteHost, ReadBy(h.sock))
    /\ Len(ReadBy(h.sock)) <= SeenLen(h.st.rewriteHost, n)
    /\ ~h.sock.destroyed => Taken(h.st, ReadBy(h.sock), n)

\* A call that neither writes to the service nor touches the head leaves that.
LEMMA DeliversKept ==
  ASSUME NEW h \in CliTurn, NEW r \in CliTurn, NEW n \in Nat, Delivers(h, n),
         SoftOut(r.sock, h.sock),
         r.st.headBuf = h.st.headBuf, r.st.headDone = h.st.headDone,
         r.st.rewriteHost = h.st.rewriteHost
  PROVE  Delivers(r, n)
<1>1. h.sock \in Socket(Bytes) /\ r.sock \in Socket(Bytes)
  BY DEF CliTurn
<1> DEFINE s == h.sock
           t == r.sock
           b == h.st.rewriteHost
<1>2. /\ s \in Socket(Bytes) /\ t \in Socket(Bytes) /\ SoftOut(t, s)
      /\ AllSeen(b, ReadBy(s)) /\ Len(ReadBy(s)) <= SeenLen(b, n)
      /\ ~s.destroyed => Taken(h.st, ReadBy(s), n)
  BY <1>1 DEF Delivers
<1> HIDE DEF s, t, b
<1>3. AllSeen(b, ReadBy(t)) /\ Len(ReadBy(t)) <= SeenLen(b, n)
  BY <1>2, SeenKept
<1>4. ~t.destroyed => ReadBy(t) = ReadBy(s) /\ ~s.destroyed
  BY <1>2, SoftRead DEF SoftOut
<1>5. ~t.destroyed => Taken(r.st, ReadBy(t), n)
  BY <1>2, <1>4 DEF Taken
<1> QED
  BY <1>3, <1>5 DEF Delivers, t, b

\* So does a calm one.
LEMMA DeliversCalm ==
  ASSUME NEW h \in CliTurn, NEW r, NEW n \in Nat, Delivers(h, n), CliCalm(r, h)
  PROVE  Delivers(r, n)
  BY DeliversKept DEF CliCalm, Soft

LEMMA CliCalmAckIfFlushed ==
  ASSUME NEW h \in CliTurn
  PROVE  CliCalm(C!AckIfFlushed(h), h)
<1>1. CliCalm(C!FlushAck(h), h) /\ CliCalm(h, h)
  BY CliCalmFlushAck, CalmSelf
<1> QED
  BY <1>1 DEF C!AckIfFlushed

\* What a call may do to the socket it reads from, and say, when it passes
\* nothing on.
Quiet(r, h) ==
    /\ SoftIn(r.sock, h.sock)
    /\ TypesIn(r.sent) \subseteq TypesIn(h.sent) \cup {"EOF", "ACK", "RESET"}

LEMMA QuietTwice ==
  ASSUME NEW q, NEW r, NEW h, Quiet(q, r), Quiet(r, h)
  PROVE  Quiet(q, h)
  BY DEF Quiet, SoftIn

\* A write to the service, of the next bytes the visitor said.
LEMMA WrittenLocally ==
  ASSUME HostInHead, NEW h \in CliTurn, NEW n \in Nat, NEW d \in Seq(Bytes), d # <<>>,
         From(d, n), n + Len(d) <= UpBytes, HeadRule(h), Delivers(h, n)
  PROVE  /\ Delivers(C!WriteLocal(h, d), n + Len(d))
         /\ Quiet(C!WriteLocal(h, d), h)
<1> DEFINE head == h.st.headBuf \o d
           got == [h EXCEPT !.st.recvUnacked = @ + Len(d)]
           total == h.st.recvUnacked + Len(d)
           straight == [got EXCEPT !.sock = Write(@, d)]
           released == C!ReleaseHead(got, head)
           held == [got EXCEPT !.st.headBuf = head]
           r == C!WriteLocal(h, d)
           m == n + Len(d)
           p == h.st.rewriteHost
           s == h.sock
<1> SUFFICES Delivers(r, m) /\ Quiet(r, h)
  OBVIOUS
<1>1. /\ Len(d) \in Nat \ {0} /\ total \in Nat \ {0} /\ m \in Nat /\ n <= m
      /\ h.st \in CliType /\ s \in Socket(Bytes) /\ p \in BOOLEAN
      /\ h.st.headBuf \in Seq(Bytes)
  BY DEF CliTurn, CliType
<1>2. head \in Seq(Bytes) /\ Len(head) = Len(h.st.headBuf) + Len(d)
  BY <1>1, ConcatTyped
<1>3. r = IF h.st.headDone THEN C!AckIfFlushed(straight)
          ELSE IF C!HeadComplete(head) THEN C!AckIfFlushed(released)
          ELSE C!FlushAck(held)
  <2>1. straight = [got EXCEPT !.sock = C!Write(@, d)]
    BY SameOperators
  <2> HIDE DEF straight
  <2> QED
    BY <2>1 DEF C!WriteLocal
<1>4. /\ got \in CliTurn /\ got.st = [h.st EXCEPT !.recvUnacked = total]
      /\ got.sock = s /\ got.sent = h.sent
  <2>1. [h.st EXCEPT !.recvUnacked = total] \in CliType
    BY <1>1 DEF CliType
  <2> QED
    BY <1>1, <2>1 DEF CliTurn
<1>5. /\ AllSeen(p, ReadBy(s)) /\ Len(ReadBy(s)) <= SeenLen(p, n)
      /\ ~s.destroyed => Taken(h.st, ReadBy(s), n)
  BY DEF Delivers
<1>6. ReadBy(s) \in Seq(Bytes)
  BY <1>1, SoftRead, SoftCalls DEF Soft
<1>7. Len(h.st.headBuf) = n /\ From(h.st.headBuf, 0) => From(head, 0) /\ Len(head) = m
  <2> DEFINE x == h.st.headBuf
  <2>1. x \in Seq(Bytes) /\ Len(head) = Len(x) + Len(d)
    BY <1>1, <1>2
  <2> HIDE DEF x
  <2>2. ASSUME Len(x) = n, From(x, 0) PROVE From(x \o d, 0)
    <3>1. From(d, 0 + Len(x))
      <4>1. 0 + Len(x) = n
        BY <2>2
      <4> QED
        BY <4>1
    <3> QED
      BY <2>1, <2>2, <3>1, RunsOn
  <2> QED
    BY <2>1, <2>2 DEF x
<1> HIDE DEF head, got, r, m, s, p
<1>8. /\ got.st.headDone = h.st.headDone /\ got.st.headBuf = h.st.headBuf
      /\ got.st.rewriteHost = p
  BY <1>1, <1>4 DEF CliType, p
\* The bytes b go to a socket whose head is out.
<1>9. ASSUME NEW b \in Seq(Bytes), NEW q \in CliTurn,
             q.sock = Write(s, b), q.sent = h.sent, q.st.headDone, q.st.rewriteHost = p,
             ~s.destroyed => /\ AllSeen(p, ReadBy(s) \o b)
                             /\ Len(ReadBy(s) \o b) = SeenLen(p, m)
                             /\ Rewriting(p) => HostByte <= m,
             r = C!AckIfFlushed(q)
      PROVE  Delivers(r, m) /\ Quiet(r, h)
  <2> DEFINE w == q.sock
  <2>1. w = Write(s, b)
    BY <1>9
  <2> HIDE DEF w
  <2>2. /\ w \in Socket(Bytes) /\ SoftIn(w, s)
        /\ AllSeen(p, ReadBy(w)) /\ Len(ReadBy(w)) <= SeenLen(p, m)
        /\ ~w.destroyed => Len(ReadBy(w)) = SeenLen(p, m)
    BY <1>1, <1>5, <1>9, <2>1, WrittenSeen
  <2>3. ~w.destroyed => ~s.destroyed
    BY <2>2 DEF SoftIn
  <2>4. Delivers(q, m)
    BY <1>9, <2>2, <2>3 DEF Delivers, Taken, w
  <2>5. CliCalm(r, q)
    BY <1>9, CliCalmAckIfFlushed
  <2>6. Delivers(r, m)
    BY <1>1, <1>9, <2>4, <2>5, DeliversCalm
  <2>7. Quiet(r, q)
    BY <2>5 DEF CliCalm, Quiet, Soft
  <2>8. Quiet(q, h)
    BY <1>9, <2>2 DEF Quiet, w, s
  <2> QED
    BY <2>6, <2>7, <2>8, QuietTwice
<1>10. CASE h.st.headDone
  <2>1. Write(got.sock, d) \in Socket(Bytes)
    BY <1>1, <1>4, SocketWritten
  <2>2. /\ straight \in CliTurn /\ straight.st = got.st
        /\ straight.sock = Write(s, d) /\ straight.sent = h.sent
    BY <1>4, <2>1 DEF CliTurn
  <2> HIDE DEF straight
  <2>3. r = C!AckIfFlushed(straight)
    BY <1>3, <1>10
  <2>4. ASSUME ~s.destroyed
        PROVE  /\ AllSeen(p, ReadBy(s) \o d)
               /\ Len(ReadBy(s) \o d) = SeenLen(p, m)
               /\ Rewriting(p) => HostByte <= m
    <3>1. /\ AllSeen(p, ReadBy(s)) /\ Len(ReadBy(s)) = SeenLen(p, n)
          /\ Rewriting(p) => HostByte <= n
      BY <1>5, <1>10, <2>4 DEF Taken, p
    <3> DEFINE x == ReadBy(s)
    <3> HIDE DEF x
    <3>2. /\ x \in Seq(Bytes) /\ AllSeen(p, x) /\ Len(x) = SeenLen(p, n)
          /\ Rewriting(p) => HostByte <= n
      BY <1>6, <3>1 DEF x
    <3>3. /\ AllSeen(p, x \o d) /\ Len(x \o d) = SeenLen(p, n + Len(d))
          /\ Rewriting(p) => HostByte <= n + Len(d)
      BY <3>2, SeenOn
    <3> QED
      BY <3>3 DEF x, m
  <2>5. straight.st.headDone /\ straight.st.rewriteHost = p
    BY <1>8, <1>10, <2>2
  <2> QED
    BY <1>9, <2>2, <2>3, <2>4, <2>5
<1>11. CASE ~h.st.headDone /\ C!HeadComplete(head)
  <2> DEFINE b == C!RewriteHostHeader(head)
  <2>1. b \in Seq(Bytes)
    BY <1>2, Rewritten
  <2>2. /\ released \in CliTurn
        /\ released.st = [got.st EXCEPT !.headBuf = <<>>, !.headDone = TRUE]
        /\ released.sock = Write(s, b)
        /\ released.sent = h.sent
    BY <1>2, <1>4, CliReleaseHead, ZenonT(60)
  <2> HIDE DEF released
  <2>3. r = C!AckIfFlushed(released)
    BY <1>3, <1>11
  <2>4. p = TRUE
    BY <1>1, <1>11 DEF HeadRule, p
  <2>5. ASSUME ~s.destroyed
        PROVE  /\ AllSeen(p, ReadBy(s) \o b)
               /\ Len(ReadBy(s) \o b) = SeenLen(p, m)
               /\ Rewriting(p) => HostByte <= m
    <3>1. ReadBy(s) = <<>> /\ From(h.st.headBuf, 0) /\ Len(h.st.headBuf) = n
      BY <1>5, <1>11, <2>5 DEF Taken
    <3>2. From(head, 0) /\ Len(head) = m /\ m <= UpBytes
      BY <1>7, <3>1 DEF m
    <3>3. AllSeen(TRUE, b) /\ Len(b) = SeenLen(TRUE, m)
      <4>1. Len(head) <= UpBytes
        BY <3>2
      <4>2. AllSeen(TRUE, b) /\ Len(b) = SeenLen(TRUE, Len(head))
        BY <1>2, <3>2, <4>1, HeadSeen
      <4> QED
        BY <3>2, <4>2
    <3>4. Rewriting(p) => HostByte <= m
      BY <1>2, <1>11, <2>4, <3>2, HeadHasHost
    <3>5. ReadBy(s) \o b = b
      <4> HIDE DEF b
      <4>1. <<>> \o b = b
        BY <2>1
      <4> QED
        BY <3>1, <4>1
    <3> HIDE DEF b
    <3> QED
      BY <2>4, <3>3, <3>4, <3>5
  <2>6. released.st.headDone /\ released.st.rewriteHost = p
    BY <1>4, <1>8, <2>2 DEF CliTurn, CliType
  <2> HIDE DEF b
  <2> QED
    BY <1>9, <2>1, <2>2, <2>3, <2>5, <2>6
<1>12. CASE ~h.st.headDone /\ ~C!HeadComplete(head)
  <2>1. [got.st EXCEPT !.headBuf = head] \in CliType
    BY <1>2, <1>4 DEF CliTurn, CliType
  <2>2. /\ held \in CliTurn /\ held.st = [got.st EXCEPT !.headBuf = head]
        /\ held.sock = s /\ held.sent = h.sent
    BY <1>4, <2>1 DEF CliTurn
  <2> HIDE DEF held
  <2>3. r = C!FlushAck(held)
    BY <1>3, <1>12
  <2>4. held.st.headBuf = head /\ held.st.headDone = h.st.headDone /\ held.st.rewriteHost = p
    BY <1>4, <1>8, <2>2 DEF CliTurn, CliType
  <2>5. Len(ReadBy(s)) <= SeenLen(p, m)
    <3>1. /\ SeenLen(p, n) \in Nat /\ SeenLen(p, m) \in Nat
          /\ SeenLen(p, n) <= SeenLen(p, m)
      BY <1>1, SeenGrows
    <3> DEFINE x == SeenLen(p, n)
               y == SeenLen(p, m)
               z == Len(ReadBy(s))
    <3>2. x \in Nat /\ y \in Nat /\ x <= y /\ z \in Nat /\ z <= x
      BY <1>5, <1>6, <3>1
    <3> HIDE DEF x, y, z
    <3>3. z <= y
      BY <3>2
    <3> QED
      BY <3>3 DEF z, y
  <2>6. ~s.destroyed => Taken(held.st, ReadBy(s), m)
    BY <1>5, <1>7, <1>12, <2>4 DEF Taken
  <2>7. Delivers(held, m)
    BY <1>5, <2>2, <2>4, <2>5, <2>6 DEF Delivers
  <2>8. CliCalm(r, held)
    BY <2>2, <2>3, CliCalmFlushAck
  <2>9. Delivers(r, m)
    BY <1>1, <2>2, <2>7, <2>8, DeliversCalm
  <2>10. Quiet(r, h)
    BY <2>2, <2>8 DEF CliCalm, Quiet, Soft, s
  <2> QED
    BY <2>9, <2>10
<1> QED
  BY <1>10, <1>11, <1>12

\* The end of the visitor's bytes, passed on: a head still held back goes out,
\* and no more is taken.
LEMMA EndedLocally ==
  ASSUME NEW h \in CliTurn, NEW n \in Nat, n <= UpBytes, HeadRule(h), Delivers(h, n),
         h.st.connected, ~h.st.finished, ~h.st.receivedEof
  PROVE  LET r == C!OnEof(h)
         IN  /\ AllSeen(h.st.rewriteHost, ReadBy(r.sock))
             /\ Len(ReadBy(r.sock)) <= SeenLen(h.st.rewriteHost, n)
             /\ Quiet(r, h)
<1> DEFINE half == [h EXCEPT !.st.receivedEof = TRUE]
           out == IF h.st.headBuf = <<>> THEN half
                  ELSE C!ReleaseHead(half, half.st.headBuf)
           acked == C!FlushAck(out)
           done == [acked EXCEPT !.sock = EndWrite(@)]
           r == C!OnEof(h)
           p == h.st.rewriteHost
           s == h.sock
           Reads(q) == /\ AllSeen(p, ReadBy(q.sock))
                       /\ Len(ReadBy(q.sock)) <= SeenLen(p, n)
                       /\ Quiet(q, h)
<1> SUFFICES Reads(r)
  OBVIOUS
<1>1. h.st \in CliType /\ s \in Socket(Bytes) /\ h.st.headBuf \in Seq(Bytes)
  BY DEF CliTurn, CliType
<1>2. /\ half \in CliTurn /\ half.st = [h.st EXCEPT !.receivedEof = TRUE]
      /\ half.sock = s /\ half.sent = h.sent
  <2>1. [h.st EXCEPT !.receivedEof = TRUE] \in CliType
    BY <1>1 DEF CliType
  <2> QED
    BY <2>1 DEF CliTurn
<1> HIDE DEF half
<1>3. half.st.headBuf = h.st.headBuf
  BY <1>1, <1>2 DEF CliType
<1>4. r = IF h.st.sentEof THEN C!Finish(done) ELSE done
  <2>1. half.st.sentEof = h.st.sentEof
    BY <1>1, <1>2 DEF CliType
  <2> QED
    BY <1>3, <2>1, SameOperators DEF C!OnEof, half
\* Quiet calls that leave what is written.
<1>5. ASSUME NEW q \in CliTurn, NEW k \in CliTurn, Reads(k), CliCalm(q, k)
      PROVE  Reads(q)
  <2> DEFINE a == q.sock
             b == k.sock
  <2>1. a \in Socket(Bytes) /\ b \in Socket(Bytes) /\ SoftOut(a, b) /\ Quiet(q, k)
    BY <1>5 DEF CliTurn, CliCalm, Soft, Quiet
  <2>2. AllSeen(p, ReadBy(b)) /\ Len(ReadBy(b)) <= SeenLen(p, n) /\ Quiet(k, h)
    BY <1>5
  <2> HIDE DEF a, b
  <2>3. AllSeen(p, ReadBy(a)) /\ Len(ReadBy(a)) <= SeenLen(p, n)
    BY <2>1, <2>2, SeenKept
  <2>4. Quiet(q, h)
    BY <2>1, <2>2, QuietTwice
  <2> QED
    BY <2>3, <2>4 DEF a
<1>6. out \in CliTurn /\ Reads(out)
  <2>1. CASE h.st.headBuf = <<>>
    <3>1. out = half
      BY <2>1
    <3>2. SoftIn(s, s)
      BY <1>1, SoftCalls DEF Soft
    <3> HIDE DEF out
    <3> QED
      BY <1>2, <3>1, <3>2 DEF Delivers, Quiet
  <2>2. CASE h.st.headBuf # <<>>
    <3> DEFINE head == h.st.headBuf
               b == C!RewriteHostHeader(head)
    <3>1. out = C!ReleaseHead(half, head) /\ head \in Seq(Bytes)
      BY <1>1, <1>3, <2>2
    <3>2. ~h.st.headDone /\ p = TRUE
      BY <1>1, <2>2 DEF HeadRule, CliType
    <3> HIDE DEF out
    <3>3. b \in Seq(Bytes)
      BY <3>1, Rewritten
    <3>4. out \in CliTurn /\ out.sock = Write(s, b) /\ out.sent = h.sent
      <4> HIDE DEF head
      <4>1. /\ C!ReleaseHead(half, head) \in CliTurn
            /\ C!ReleaseHead(half, head).sock = Write(half.sock, b)
            /\ C!ReleaseHead(half, head).sent = half.sent
        BY <1>2, <3>1, CliReleaseHead, ZenonT(60)
      <4> QED
        BY <1>2, <3>1, <4>1
    <3>5. ASSUME ~s.destroyed
          PROVE  AllSeen(p, ReadBy(s) \o b) /\ Len(ReadBy(s) \o b) = SeenLen(p, n)
      <4>1. ReadBy(s) = <<>> /\ From(head, 0) /\ Len(head) = n
        BY <3>2, <3>5 DEF Delivers, Taken
      <4> HIDE DEF head
      <4>2. AllSeen(TRUE, b) /\ Len(b) = SeenLen(TRUE, Len(head))
        BY <3>1, <4>1, HeadSeen
      <4> HIDE DEF b
      <4>3. <<>> \o b = b
        BY <3>3
      <4> QED
        BY <3>2, <4>1, <4>2, <4>3
    <3> DEFINE w == out.sock
    <3>6. w = Write(s, b) /\ n <= n
      BY <3>4
    <3>7. AllSeen(p, ReadBy(s)) /\ Len(ReadBy(s)) <= SeenLen(p, n)
      BY DEF Delivers
    <3> HIDE DEF b, w, p, s
    <3>8. SoftIn(w, s) /\ AllSeen(p, ReadBy(w)) /\ Len(ReadBy(w)) <= SeenLen(p, n)
      BY <1>1, <3>3, <3>5, <3>6, <3>7, WrittenSeen
    <3>9. Quiet(out, h)
      BY <3>4, <3>8 DEF Quiet, w, s
    <3> QED
      BY <3>4, <3>8, <3>9 DEF w
  <2> QED
    BY <2>1, <2>2
<1> HIDE DEF out
<1>7. CliCalm(acked, out) /\ acked \in CliTurn
  BY <1>6, CliCalmFlushAck DEF CliCalm
<1> HIDE DEF acked
<1>8. CliCalm(done, acked) /\ done \in CliTurn
  <2> DEFINE t == EndWrite(acked.sock)
  <2>1. t \in Socket(Bytes) /\ Soft(t, acked.sock)
    <3>1. acked.sock \in Socket(Bytes)
      BY <1>7 DEF CliTurn
    <3> QED
      BY <3>1, SocketEvents, SoftCalls
  <2> HIDE DEF t
  <2>2. CliCalm([acked EXCEPT !.sock = t], acked)
    BY <1>7, <2>1, CalmSock
  <2> QED
    BY <2>2 DEF t, CliCalm
<1> HIDE DEF done
<1>9. CliCalm(C!Finish(done), done) /\ C!Finish(done) \in CliTurn
  BY <1>8, CliCalmFinish DEF CliCalm
<1> HIDE DEF Reads
<1>10. Reads(acked)
  BY <1>5, <1>6, <1>7
<1>11. Reads(done)
  BY <1>5, <1>7, <1>8, <1>10
<1>12. Reads(C!Finish(done))
  BY <1>5, <1>8, <1>9, <1>11
<1> QED
  BY <1>4, <1>11, <1>12

\* The agent's own frames end with what it was told to open.
LEMMA NothingOpens ==
  ASSUME IInv, toAgent # <<>>, Head(toAgent).type # "OPEN", cli.dial = "none"
  PROVE  Refused
<1> DEFINE c == toAgent
<1>1. /\ c \in Seq(WireFrame) /\ c # <<>> /\ Orderly(c) /\ Head(c).type # "OPEN"
      /\ srv.opened
  BY Places DEF IInv, Chan, LifeOfServer
<1> HIDE DEF c
<1>2. Len(c) \in Nat \ {0} /\ DOMAIN c = 1..Len(c) /\ Head(c) = c[1]
  BY <1>1
<1>3. ASSUME NEW j \in DOMAIN c PROVE c[j].type # "OPEN"
  <2>1. CASE j = 1
    BY <1>1, <1>2, <2>1
  <2>2. CASE j # 1
    <3>1. 1 \in DOMAIN c /\ 1 < j
      BY <1>2, <2>2
    <3> QED
      BY <1>1, <3>1 DEF Orderly
  <2> QED
    BY <2>1, <2>2
<1>4. "OPEN" \notin TypesIn(c)
  BY <1>3 DEF TypesIn
<1> QED
  BY <1>1, <1>4 DEF Refused, c

\* A frame that carries no data, or finds no stream, or that the agent notes.
LEMMA ClientReceiveCalm ==
  ASSUME IInv, Order, C!ClientReceive, UNCHANGED <<sVars, outsideVars>>,
         Head(toAgent).type # "OPEN",
         \/ ~C!InStreams
         \/ Head(toAgent).type \in {"ACK", "RESET"}
         \/ Head(toAgent).type = "EOF" /\ (~cli.connected \/ cli.receivedEof)
  PROVE  Order'
<1> DEFINE f == Head(toAgent)
           h == C!Turn
           t == <<f>>
<1>1. PICK known \in BOOLEAN : C!Commit(C!HandleFrame(f, known))
  BY CliTaken
<1> DEFINE r == C!HandleFrame(f, known)
<1>2. /\ f \in WireFrame /\ TypesIn(t) = {f.type}
      /\ \A q : q \in CliTurn /\ C!Commit(q) => CliCommitted(q, t)
  BY CliTaken
<1>3. h \in CliTurn /\ CliCalm(h, h) /\ h.st = cli
  BY CliTurnCalm
<1>4. f.type \in {"DATA", "EOF", "ACK", "RESET"} /\ (f.type = "ACK" => f.n \in Nat)
  BY <1>2 DEF WireFrame, SomeFrame
<1>5. \/ ~C!InStreams
      \/ f.type \in {"ACK", "RESET"}
      \/ f.type = "EOF" /\ (~cli.connected \/ cli.receivedEof)
  OBVIOUS
<1>6. "DATA" \notin TypesIn(t) \/ ~Hears(cli, loc) \/ Refused
  <2>1. CASE f.type = "DATA" /\ cli.dial = "none"
    <3>1. toAgent # <<>>
      BY DEF C!ClientReceive
    <3> QED
      BY <2>1, <3>1, NothingOpens
  <2>2. CASE f.type = "DATA" /\ cli.dial # "none"
    BY <1>5, <2>2 DEF C!InStreams, Hears
  <2>3. CASE f.type # "DATA"
    BY <1>2, <2>3
  <2> QED
    BY <2>1, <2>2, <2>3
<1> HIDE DEF f
<1>7. CliCalm(r, h)
  <2>1. CASE ~C!InStreams
    <3>1. C!ResetFrame = ResetFrame
      BY SameOperators
    <3>2. r = h \/ r = C!Send(h, ResetFrame)
      BY <1>4, <2>1, <3>1 DEF C!HandleFrame
    <3> HIDE DEF h
    <3> QED
      BY <1>3, <3>2, CliCalmReset
  <2>2. CASE C!InStreams /\ f.type = "ACK"
    <3>1. r = C!OnAck(h, f.n)
      BY <2>2 DEF C!HandleFrame
    <3> HIDE DEF h
    <3> QED
      BY <1>3, <1>4, <2>2, <3>1, CliCalmAck
  <2>3. CASE C!InStreams /\ f.type = "RESET"
    <3>1. r = C!Destroy(h, "peer_reset")
      BY <2>3 DEF C!HandleFrame
    <3> HIDE DEF h
    <3> QED
      BY <1>3, <3>1, CliCalmDestroy
  <2>4. CASE C!InStreams /\ f.type = "EOF"
    <3>1. r = C!OnEof(h)
      BY <2>4 DEF C!HandleFrame
    <3>2. ~cli.connected \/ cli.receivedEof
      BY <1>5, <2>4
    <3> DEFINE q == [h EXCEPT !.st.queuedEof = TRUE]
    <3> HIDE DEF h
    <3>3. r = h \/ r = q
      BY <1>3, <3>1, <3>2 DEF C!OnEof
    <3>4. CliCalm(q, h)
      <4>1. h.st \in CliType
        BY <1>3 DEF CliTurn
      <4>2. [h.st EXCEPT !.queuedEof = TRUE] \in CliType
        BY <4>1 DEF CliType
      <4>3. /\ q \in CliTurn /\ q.st = [h.st EXCEPT !.queuedEof = TRUE]
            /\ q.sock = h.sock /\ q.sent = h.sent
        BY <1>3, <4>2 DEF CliTurn
      <4> HIDE DEF q
      <4>4. /\ q.st.dial = h.st.dial /\ q.st.connected = h.st.connected
            /\ q.st.finished = h.st.finished /\ q.st.sentEof = h.st.sentEof
            /\ q.st.receivedEof = h.st.receivedEof /\ q.st.queued = h.st.queued
            /\ q.st.headBuf = h.st.headBuf /\ q.st.headDone = h.st.headDone
            /\ q.st.rewriteHost = h.st.rewriteHost
        BY <4>1, <4>3 DEF CliType
      <4> QED
        BY <1>3, <4>3, <4>4 DEF CliCalm
    <3> HIDE DEF q
    <3> QED
      BY <1>3, <3>3, <3>4
  <2> QED
    BY <1>4, <1>5, <2>1, <2>2, <2>3, <2>4
<1> HIDE DEF r
<1>8. CliCommitted(r, t)
  BY <1>1, <1>2, <1>7 DEF CliCalm, r
<1> HIDE DEF t
<1> QED
  BY <1>6, <1>7, <1>8, CliCalmStep DEF h

\* A turn that passes nothing of its socket on, whatever it writes to it.
LEMMA QuietDown ==
  ASSUME IInv, Down, NEW r, NEW t, CliCommitted(r, t), Quiet(r, C!Turn),
         cli.finished => r.st.finished, cli.sentEof => r.st.sentEof
  PROVE  Down'
<1>1. C!Turn.sock = loc /\ C!Turn.sent = <<>>
  BY CliTurnCalm
<1>2. "DATA" \notin TypesIn(r.sent)
  BY <1>1, EmptySeen DEF Quiet
<1>3. Tells(r.st, r.sock) => Tells(cli, loc) /\ r.sock.inq = loc.inq
  BY <1>1 DEF Tells, Quiet, SoftIn
<1> QED
  BY <1>2, <1>3, DownKept

\* After a turn that took m bytes for the service.
LEMMA UpPassed ==
  ASSUME IInv, NEW r, NEW t, CliCommitted(r, t), NEW m \in 0..visitorSaid,
         AllSeen(r.st.rewriteHost, ReadBy(r.sock)),
         Len(ReadBy(r.sock)) <= SeenLen(r.st.rewriteHost, m),
         r.st.connected => r.st.queued = <<>>,
         Hears(r.st, r.sock) =>
            /\ Taken(r.st, ReadBy(r.sock), m)
            /\ Way(r.st.queued \o Pieces(toAgent'), pub.inq, m, visitorSaid, Tells(srv, pub))
  PROVE  Up'
<1>1. /\ cli' = r.st /\ loc' = r.sock /\ visitorSaid' = visitorSaid
      /\ srv' = srv /\ pub' = pub /\ linkUp' = linkUp /\ r.sock \in Socket(Bytes)
  BY DEF CliCommitted, CliTurn, sVars
<1>2. Tells(srv, pub)' = Tells(srv, pub)
  BY <1>1 DEF Tells
<1>3. Len(ReadBy(r.sock)) <= SeenLen(r.st.rewriteHost, visitorSaid)
  <2> DEFINE a == SeenLen(r.st.rewriteHost, m)
             b == SeenLen(r.st.rewriteHost, visitorSaid)
             x == Len(ReadBy(r.sock))
  <2>1. visitorSaid \in Nat /\ m \in Nat /\ m <= visitorSaid
    BY Places
  <2>2. a \in Nat /\ b \in Nat /\ a <= b
    BY <2>1, SeenGrows
  <2>3. x \in Nat
    <3>1. ReadBy(r.sock) \in Seq(Bytes)
      BY <1>1, SoftRead, SoftCalls DEF Soft
    <3> QED
      BY <3>1
  <2>4. x <= a
    OBVIOUS
  <2> HIDE DEF a, b, x
  <2>5. x <= b
    BY <2>2, <2>3, <2>4
  <2> QED
    BY <2>5 DEF x, b
<1>4. m \in 0..visitorSaid'
  BY <1>1
<1> QED
  BY <1>1, <1>2, <1>3, <1>4 DEF Up

\* A write to a socket that is gone.
LEMMA WrittenToNobody ==
  ASSUME NEW h \in CliTurn, NEW d \in Seq(Bytes), h.sock.destroyed
  PROVE  LET r == C!WriteLocal(h, d)
         IN  r \in CliTurn /\ SoftOut(r.sock, h.sock) /\ Quiet(r, h)
<1> DEFINE head == h.st.headBuf \o d
           got == [h EXCEPT !.st.recvUnacked = @ + Len(d)]
           total == h.st.recvUnacked + Len(d)
           straight == [got EXCEPT !.sock = Write(@, d)]
           released == C!ReleaseHead(got, head)
           held == [got EXCEPT !.st.headBuf = head]
           r == C!WriteLocal(h, d)
           s == h.sock
           Gone(q) == q \in CliTurn /\ SoftOut(q.sock, s) /\ Quiet(q, h)
<1> SUFFICES Gone(r)
  OBVIOUS
<1>1. /\ Len(d) \in Nat /\ total \in Nat
      /\ h.st \in CliType /\ s \in Socket(Bytes) /\ h.st.headBuf \in Seq(Bytes)
  BY DEF CliTurn, CliType
<1>2. head \in Seq(Bytes)
  BY <1>1, ConcatTyped
<1>3. r = IF h.st.headDone THEN C!AckIfFlushed(straight)
          ELSE IF C!HeadComplete(head) THEN C!AckIfFlushed(released)
          ELSE C!FlushAck(held)
  <2>1. straight = [got EXCEPT !.sock = C!Write(@, d)]
    BY SameOperators
  <2> HIDE DEF straight
  <2> QED
    BY <2>1 DEF C!WriteLocal
<1>4. /\ got \in CliTurn /\ got.st = [h.st EXCEPT !.recvUnacked = total]
      /\ got.sock = s /\ got.sent = h.sent
  <2>1. [h.st EXCEPT !.recvUnacked = total] \in CliType
    BY <1>1 DEF CliType
  <2> QED
    BY <1>1, <2>1 DEF CliTurn
<1> HIDE DEF head, got, r
<1>5. ASSUME NEW q \in CliTurn, NEW k \in CliTurn, Gone(k), CliCalm(q, k)
      PROVE  Gone(q)
  <2>1. Quiet(q, k) /\ SoftOut(q.sock, k.sock)
    BY <1>5 DEF CliCalm, Soft, Quiet
  <2>2. SoftOut(q.sock, s)
    BY <1>5, <2>1 DEF SoftOut
  <2> QED
    BY <1>5, <2>1, <2>2, QuietTwice
<1>6. ASSUME NEW b \in Seq(Bytes)
      PROVE  /\ Write(s, b) \in Socket(Bytes) /\ SoftIn(Write(s, b), s)
             /\ SoftOut(Write(s, b), s)
  <2>1. s.destroyed
    OBVIOUS
  <2> HIDE DEF s
  <2> QED
    BY <1>1, <2>1, Writes
<1>7. CASE h.st.headDone
  <2>1. /\ straight \in CliTurn /\ straight.sock = Write(s, d) /\ straight.sent = h.sent
    BY <1>4, <1>6 DEF CliTurn
  <2> HIDE DEF straight
  <2>2. Gone(straight)
    BY <1>6, <2>1 DEF Quiet
  <2>3. r = C!AckIfFlushed(straight)
    BY <1>3, <1>7
  <2>4. CliCalm(r, straight) /\ r \in CliTurn
    BY <2>1, <2>3, CliCalmAckIfFlushed DEF CliCalm
  <2> HIDE DEF Gone
  <2> QED
    BY <1>5, <2>1, <2>2, <2>4
<1>8. CASE ~h.st.headDone /\ C!HeadComplete(head)
  <2> DEFINE b == C!RewriteHostHeader(head)
  <2>1. b \in Seq(Bytes)
    BY <1>2, Rewritten
  <2>2. released \in CliTurn /\ released.sock = Write(s, b) /\ released.sent = h.sent
    <3>1. /\ released \in CliTurn
          /\ released.sock = Write(got.sock, b) /\ released.sent = got.sent
      BY <1>2, <1>4, CliReleaseHead, ZenonT(60)
    <3> QED
      BY <1>4, <3>1
  <2> HIDE DEF released, b
  <2>3. Gone(released)
    BY <1>6, <2>1, <2>2 DEF Quiet
  <2>4. r = C!AckIfFlushed(released)
    BY <1>3, <1>8
  <2>5. CliCalm(r, released) /\ r \in CliTurn
    BY <2>2, <2>4, CliCalmAckIfFlushed DEF CliCalm
  <2> HIDE DEF Gone
  <2> QED
    BY <1>5, <2>2, <2>3, <2>5
<1>9. CASE ~h.st.headDone /\ ~C!HeadComplete(head)
  <2>1. [got.st EXCEPT !.headBuf = head] \in CliType
    BY <1>2, <1>4 DEF CliTurn, CliType
  <2>2. held \in CliTurn /\ held.sock = s /\ held.sent = h.sent
    BY <1>4, <2>1 DEF CliTurn
  <2> HIDE DEF held
  <2>3. Gone(held)
    <3>1. SoftIn(s, s) /\ SoftOut(s, s)
      BY <1>1, SoftCalls DEF Soft
    <3> QED
      BY <2>2, <3>1 DEF Quiet
  <2>4. r = C!FlushAck(held)
    BY <1>3, <1>9
  <2>5. CliCalm(r, held) /\ r \in CliTurn
    BY <2>2, <2>4, CliCalmFlushAck DEF CliCalm
  <2> HIDE DEF Gone
  <2> QED
    BY <1>5, <2>2, <2>3, <2>5
<1> QED
  BY <1>7, <1>8, <1>9

\* How far a stream that lives has come, at the start of a callback.
LEMMA DeliveredSoFar ==
  ASSUME IInv, Up, ~cli.finished, ~cli.receivedEof, cli.dial # "none"
  PROVE  /\ HeadRule(C!Turn)
         /\ \E n \in 0..visitorSaid :
               /\ n \in Nat /\ n <= UpBytes
               /\ Delivers(C!Turn, n)
               /\ ~loc.destroyed =>
                     Way(cli.queued \o Pieces(toAgent), pub.inq, n, visitorSaid,
                         Tells(srv, pub))
<1> DEFINE h == C!Turn
<1>1. h.st = cli /\ h.sock = loc
  BY CliTurnCalm
<1> HIDE DEF h
<1>2. HeadRule(h)
  <2>1. CliFacts
    BY CliKnown
  <2> QED
    BY <1>1, <2>1 DEF HeadRule, CliFacts
<1>3. /\ visitorSaid \in Nat /\ visitorSaid <= UpBytes /\ UpBytes \in Nat
      /\ AllSeen(cli.rewriteHost, ReadBy(loc))
      /\ Len(ReadBy(loc)) <= SeenLen(cli.rewriteHost, visitorSaid)
  BY Places, BridgeAssumption DEF Up
<1>4. \A n \in 0..visitorSaid : n \in Nat /\ n <= UpBytes
  BY <1>3
<1>5. CASE loc.destroyed
  <2>1. Delivers(h, visitorSaid) /\ visitorSaid \in 0..visitorSaid
    BY <1>1, <1>3, <1>5 DEF Delivers
  <2> QED
    BY <1>2, <1>4, <1>5, <2>1 DEF h
<1>6. CASE ~loc.destroyed
  <2>1. Hears(cli, loc) /\ ~Refused
    BY <1>6 DEF Hears, Refused
  <2>2. PICK n \in 0..visitorSaid :
           /\ Taken(cli, ReadBy(loc), n)
           /\ Way(cli.queued \o Pieces(toAgent), pub.inq, n, visitorSaid, Tells(srv, pub))
    BY <2>1 DEF Up
  <2>3. Len(ReadBy(loc)) <= SeenLen(cli.rewriteHost, n)
    <3> DEFINE x == SeenLen(cli.rewriteHost, n)
               a == Len(ReadBy(loc))
    <3>1. x \in Nat
      BY <1>4, SeenGrows
    <3>2. a = x \/ a = 0
      <4>1. Len(<<>>) = 0
        OBVIOUS
      <4> QED
        BY <2>2, <4>1 DEF Taken
    <3> HIDE DEF x, a
    <3>3. a <= x
      BY <3>1, <3>2
    <3> QED
      BY <3>3 DEF a, x
  <2>4. Delivers(h, n)
    BY <1>1, <1>3, <2>2, <2>3 DEF Delivers
  <2> QED
    BY <1>2, <1>4, <2>2, <2>4 DEF h
<1> QED
  BY <1>5, <1>6

\* STREAM_DATA at a stream whose dial is under way: it waits.
LEMMA ClientReceiveQueued ==
  ASSUME IInv, Order, C!ClientReceive, UNCHANGED <<sVars, outsideVars>>,
         C!InStreams, Head(toAgent).type = "DATA", ~cli.connected
  PROVE  Order'
<1> DEFINE f == Head(toAgent)
           h == C!Turn
           t == <<f>>
           d == f.data
           r == [h EXCEPT !.st.queued = Append(@, d)]
<1>1. PICK known \in BOOLEAN : C!Commit(C!HandleFrame(f, known))
  BY CliTaken
<1>2. /\ f \in WireFrame /\ f.type \in TypesIn(toAgent)
      /\ \A q : q \in CliTurn /\ C!Commit(q) => CliCommitted(q, t)
  BY CliTaken
<1>3. d \in Seq(Bytes) /\ d # <<>>
  BY <1>2 DEF WireFrame, SomeFrame
<1>4. f.type = "DATA" /\ ~cli.finished /\ ~cli.receivedEof /\ cli.dial # "none"
  BY <1>2 DEF IInv, Eof, C!InStreams
<1> HIDE DEF f
<1>5. h \in CliTurn /\ h.st = cli /\ h.sock = loc /\ h.sent = <<>>
  BY CliTurnCalm
<1> HIDE DEF h
<1>6. C!HandleFrame(f, known) = r
  <2>1. C!HandleFrame(f, known) = C!OnData(h, d)
    BY <1>4 DEF C!HandleFrame, h
  <2> QED
    BY <1>4, <1>5, <2>1 DEF C!OnData
<1>7. /\ r \in CliTurn /\ r.st = [cli EXCEPT !.queued = Append(cli.queued, d)]
      /\ r.sock = loc /\ r.sent = <<>>
  <2>1. cli \in CliType
    BY Places
  <2>2. Append(cli.queued, d) \in Seq(Seq(Bytes) \ {<<>>})
    BY <1>3, <2>1 DEF CliType
  <2>3. [cli EXCEPT !.queued = Append(cli.queued, d)] \in CliType
    BY <2>1, <2>2 DEF CliType
  <2> QED
    BY <1>5, <2>3 DEF CliTurn
<1> HIDE DEF r
<1>8. CliCommitted(r, t)
  BY <1>1, <1>2, <1>6, <1>7
<1>9. /\ r.st.dial = cli.dial /\ r.st.connected = cli.connected
      /\ r.st.finished = cli.finished /\ r.st.sentEof = cli.sentEof
      /\ r.st.receivedEof = cli.receivedEof
      /\ r.st.headBuf = cli.headBuf /\ r.st.headDone = cli.headDone
      /\ r.st.rewriteHost = cli.rewriteHost
      /\ r.st.queued = Append(cli.queued, d)
  <2>1. cli \in CliType
    BY Places
  <2> QED
    BY <1>7, <2>1 DEF CliType
<1>10. Down'
  <2>1. "DATA" \notin TypesIn(r.sent)
    BY <1>7, EmptySeen
  <2>2. Tells(r.st, r.sock) => Tells(cli, loc) /\ r.sock.inq = loc.inq
    BY <1>7, <1>9 DEF Tells
  <2> QED
    BY <1>8, <2>1, <2>2, DownKept DEF Order
<1>11. PICK n \in 0..visitorSaid :
          /\ n \in Nat
          /\ Delivers(h, n)
          /\ ~loc.destroyed =>
                Way(cli.queued \o Pieces(toAgent), pub.inq, n, visitorSaid, Tells(srv, pub))
  BY <1>4, DeliveredSoFar DEF Order, h
<1>12. r.st.queued \o Pieces(toAgent') = cli.queued \o Pieces(toAgent)
  <2> DEFINE q == cli.queued
             c == toAgent'
             x == <<d>>
  <2>1. c \in Seq(WireFrame) /\ toAgent = <<f>> \o c /\ q \in Seq(Seq(Bytes))
    BY <1>8, Places DEF CliCommitted
  <2>2. <<f>> \in Seq(WireFrame) /\ Pieces(<<f>>) = x /\ x \in Seq(Seq(Bytes))
    BY <1>2, <1>3, <1>4, PiecesLaws
  <2> HIDE DEF c, q
  <2>3. Append(q, d) = q \o x
    <3> DEFINE D == Seq(Bytes)
               e == d
    <3>1. q \in Seq(D) /\ e \in D
      BY <1>3, <2>1
    <3> HIDE DEF D, e
    <3>2. Append(q, e) = q \o <<e>>
      BY <3>1
    <3> QED
      BY <3>2 DEF e
  <2> HIDE DEF x
  <2>4. Pieces(toAgent) = x \o Pieces(c) /\ Pieces(c) \in Seq(Seq(Bytes))
    BY <2>1, <2>2, PiecesLaws
  <2> DEFINE D == Seq(Bytes)
             p == Pieces(c)
  <2>5. p \in Seq(D) /\ x \in Seq(D) /\ q \in Seq(D)
    BY <2>1, <2>2, <2>4
  <2> HIDE DEF D, p
  <2>6. (q \o x) \o p = q \o (x \o p)
    BY <2>5, Concats
  <2> QED
    BY <1>9, <2>3, <2>4, <2>6 DEF p, q, c
<1>13. Up'
  <2>1. /\ AllSeen(r.st.rewriteHost, ReadBy(r.sock))
        /\ Len(ReadBy(r.sock)) <= SeenLen(r.st.rewriteHost, n)
    BY <1>5, <1>7, <1>9, <1>11 DEF Delivers
  <2>2. Hears(r.st, r.sock) =>
           /\ Taken(r.st, ReadBy(r.sock), n)
           /\ Way(r.st.queued \o Pieces(toAgent'), pub.inq, n, visitorSaid, Tells(srv, pub))
    BY <1>5, <1>7, <1>9, <1>11, <1>12 DEF Hears, Delivers, Taken
  <2> QED
    BY <1>8, <1>9, <2>1, <2>2, UpPassed
<1> QED
  BY <1>10, <1>13 DEF Order

\* STREAM_DATA at a connected stream: it is written, or joins the head.
LEMMA ClientReceiveData ==
  ASSUME HostInHead, IInv, Order, C!ClientReceive, UNCHANGED <<sVars, outsideVars>>,
         C!InStreams, Head(toAgent).type = "DATA", cli.connected
  PROVE  Order'
<1> DEFINE f == Head(toAgent)
           h == C!Turn
           t == <<f>>
           d == f.data
           r == C!WriteLocal(h, d)
           c == toAgent'
           p == Pieces(c)
           inq == pub.inq
           said == visitorSaid
           u == Tells(srv, pub)
<1>1. PICK known \in BOOLEAN : C!Commit(C!HandleFrame(f, known))
  BY CliTaken
<1>2. /\ f \in WireFrame /\ f.type \in TypesIn(toAgent)
      /\ \A q : q \in CliTurn /\ C!Commit(q) => CliCommitted(q, t)
  BY CliTaken
<1>3. d \in Seq(Bytes) /\ d # <<>>
  BY <1>2 DEF WireFrame, SomeFrame
<1>4. f.type = "DATA" /\ ~cli.finished /\ ~cli.receivedEof /\ cli.dial # "none"
  BY <1>2 DEF IInv, Eof, C!InStreams
<1>5. h \in CliTurn /\ h.st = cli /\ h.sock = loc /\ h.sent = <<>>
  BY CliTurnCalm
<1>6. PICK n \in 0..visitorSaid :
         /\ n \in Nat
         /\ Delivers(h, n)
         /\ ~loc.destroyed =>
               Way(cli.queued \o Pieces(toAgent), pub.inq, n, visitorSaid, Tells(srv, pub))
  BY <1>4, DeliveredSoFar DEF Order
<1>7. HeadRule(h)
  BY <1>4, DeliveredSoFar DEF Order
<1> HIDE DEF f
<1>8. C!HandleFrame(f, known) = r
  <2>1. C!HandleFrame(f, known) = C!OnData(h, d)
    BY <1>4 DEF C!HandleFrame
  <2> HIDE DEF h
  <2> QED
    BY <1>4, <1>5, <2>1 DEF C!OnData
<1> HIDE DEF h
<1>9. r \in CliTurn /\ SameStream(r.st, cli)
  BY <1>3, <1>4, <1>5, <1>7, CliWriteLocal
<1>10. CliCommitted(r, t)
  BY <1>1, <1>2, <1>8, <1>9
<1>11. cli.queued = <<>>
  BY DEF Order, Up
<1>12. /\ r.st.finished = cli.finished /\ r.st.sentEof = cli.sentEof
       /\ r.st.receivedEof = cli.receivedEof /\ r.st.queued = <<>>
       /\ r.st.connected /\ r.st.rewriteHost = cli.rewriteHost
  BY <1>9, <1>11 DEF SameStream
<1> HIDE DEF r
<1>13. ASSUME Quiet(r, h) PROVE Down'
  BY <1>10, <1>12, <1>13, QuietDown DEF Order, h
<1>14. CASE loc.destroyed
  <2>1. SoftOut(r.sock, loc) /\ Quiet(r, h) /\ r.sock \in Socket(Bytes)
    BY <1>3, <1>5, <1>9, <1>14, WrittenToNobody DEF r, CliTurn
  <2>2. /\ loc' = r.sock /\ cli' = r.st /\ visitorSaid' = visitorSaid
    BY <1>10 DEF CliCommitted
  <2>3. ~Hears(cli', loc')
    BY <1>14, <2>1, <2>2 DEF Hears, SoftOut
  <2>4. Up'
    BY <1>12, <2>1, <2>2, <2>3, UpOver DEF Order
  <2> QED
    BY <1>13, <2>1, <2>4 DEF Order
<1>15. CASE ~loc.destroyed
  <2>1. c \in Seq(WireFrame) /\ toAgent = <<f>> \o c
    BY <1>10 DEF CliCommitted
  <2>2. /\ p \in Seq(Seq(Bytes)) /\ inq \in Seq(Bytes) /\ said \in Nat /\ said <= UpBytes
    BY <2>1, Places, PiecesLaws
  <2>3. cli.queued \o Pieces(toAgent) = <<d>> \o p
    <3> DEFINE a == <<d>> \o p
    <3>1. <<f>> \in Seq(WireFrame) /\ Pieces(<<f>>) = <<d>>
      BY <1>2, <1>4, PiecesLaws
    <3> HIDE DEF c
    <3>2. Pieces(toAgent) = a
      BY <2>1, <3>1, PiecesLaws
    <3>3. a \in Seq(Seq(Bytes))
      <4> HIDE DEF p, d
      <4> QED
        BY <1>3, <2>2
    <3> HIDE DEF a
    <3>4. <<>> \o a = a
      BY <3>3
    <3> QED
      BY <1>11, <3>2, <3>4 DEF a
  <2>4. Way(<<d>> \o p, inq, n, said, u)
    BY <1>6, <1>15, <2>3
  <2>5. p = Pieces(toAgent')
    OBVIOUS
  <2> HIDE DEF p, inq, said, u, d, c
  <2>6. From(d, n) /\ n + Len(d) <= said /\ Way(p, inq, n + Len(d), said, u)
    BY <1>3, <1>6, <2>2, <2>4, WayTaken
  <2> DEFINE m == n + Len(d)
  <2>7. Len(d) \in Nat /\ UpBytes \in Nat
    BY <1>3, BridgeAssumption
  <2>8. m \in 0..said /\ m <= UpBytes
    BY <1>6, <2>2, <2>6, <2>7
  <2>9. Delivers(r, m) /\ Quiet(r, h)
    BY <1>3, <1>5, <1>6, <1>7, <2>6, <2>8, WrittenLocally DEF r
  <2> HIDE DEF m
  <2>10. r.st.queued \o p = p
    <3>1. <<>> \o p = p
      BY <2>2
    <3> QED
      BY <1>12, <3>1
  <2>11. /\ AllSeen(r.st.rewriteHost, ReadBy(r.sock))
         /\ Len(ReadBy(r.sock)) <= SeenLen(r.st.rewriteHost, m)
         /\ Hears(r.st, r.sock) => Taken(r.st, ReadBy(r.sock), m)
    BY <2>9 DEF Delivers, Hears
  <2>12. Way(r.st.queued \o p, inq, m, said, u)
    BY <2>6, <2>10 DEF m
  <2>13. /\ m \in 0..visitorSaid
         /\ Way(r.st.queued \o Pieces(toAgent'), pub.inq, m, visitorSaid, Tells(srv, pub))
    BY <2>5, <2>8, <2>12 DEF said, inq, u
  <2>14. Up'
    BY <1>10, <1>12, <2>11, <2>13, UpPassed
  <2> QED
    BY <1>13, <2>9, <2>14 DEF Order
<1> QED
  BY <1>14, <1>15

\* STREAM_EOF at a connected stream.
LEMMA ClientReceiveEof ==
  ASSUME HostInHead, IInv, Order, C!ClientReceive, UNCHANGED <<sVars, outsideVars>>,
         C!InStreams, Head(toAgent).type = "EOF", cli.connected, ~cli.receivedEof
  PROVE  Order'
<1> DEFINE f == Head(toAgent)
           h == C!Turn
           t == <<f>>
           r == C!OnEof(h)
<1>1. PICK known \in BOOLEAN : C!Commit(C!HandleFrame(f, known))
  BY CliTaken
<1>2. \A q : q \in CliTurn /\ C!Commit(q) => CliCommitted(q, t)
  BY CliTaken
<1>3. f.type = "EOF" /\ ~cli.finished /\ cli.dial # "none"
  BY DEF C!InStreams
<1>4. h \in CliTurn /\ h.st = cli /\ h.sock = loc /\ h.sent = <<>>
  BY CliTurnCalm
<1>5. PICK n \in 0..visitorSaid : n \in Nat /\ n <= UpBytes /\ Delivers(h, n)
  BY <1>3, DeliveredSoFar DEF Order
<1>6. HeadRule(h)
  BY <1>3, DeliveredSoFar DEF Order
<1> HIDE DEF f
<1>7. C!HandleFrame(f, known) = r
  BY <1>3 DEF C!HandleFrame
<1> HIDE DEF h
<1>8. Passed(r, h)
  BY <1>3, <1>4, <1>6, CliOnEof
<1>9. /\ AllSeen(cli.rewriteHost, ReadBy(r.sock))
      /\ Len(ReadBy(r.sock)) <= SeenLen(cli.rewriteHost, n)
      /\ Quiet(r, h)
  BY <1>3, <1>4, <1>5, <1>6, EndedLocally
<1>10. cli.queued = <<>> /\ cli.sentEof \in BOOLEAN
  BY CliKnown DEF Order, Up, CliFacts
<1> HIDE DEF r
<1>11. /\ r \in CliTurn /\ r.st.receivedEof /\ r.st.finished = cli.sentEof
       /\ r.st.sentEof = cli.sentEof /\ r.st.queued = <<>>
       /\ r.st.rewriteHost = cli.rewriteHost
  BY <1>4, <1>8, <1>10 DEF Passed
<1>12. CliCommitted(r, t)
  BY <1>1, <1>2, <1>7, <1>11
<1>13. Down'
  BY <1>3, <1>9, <1>11, <1>12, QuietDown DEF Order, h
<1>14. ~Hears(r.st, r.sock)
  BY <1>11 DEF Hears
<1>15. Up'
  BY <1>9, <1>11, <1>12, <1>14, UpPassed
<1> QED
  BY <1>13, <1>15 DEF Order

\* STREAM_OPEN: refused, or the dial begins.
LEMMA ClientReceiveOpen ==
  ASSUME IInv, Order, C!ClientReceive, UNCHANGED <<sVars, outsideVars>>,
         Head(toAgent).type = "OPEN"
  PROVE  Order'
<1> DEFINE f == Head(toAgent)
           h == C!Turn
           t == <<f>>
<1>1. PICK known \in BOOLEAN : C!Commit(C!HandleFrame(f, known))
  BY CliTaken
<1> DEFINE r == C!OnStreamOpen(h, known)
           dial == [h EXCEPT !.st.dial = "pending"]
<1>2. /\ f.type \in TypesIn(toAgent) /\ TypesIn(t) = {f.type} /\ cli.dial = "none"
      /\ \A q : q \in CliTurn /\ C!Commit(q) => CliCommitted(q, t)
  BY CliTaken
<1>3. C!HandleFrame(f, known) = r /\ f.type = "OPEN"
  BY DEF C!HandleFrame
<1> HIDE DEF f, t
<1>4. h \in CliTurn /\ h.sent = <<>> /\ h.st = cli /\ h.sock = loc
  BY CliTurnCalm
<1>5. \/ /\ r \in CliTurn /\ r.st = h.st /\ r.sock = h.sock
         /\ r.sent = Append(h.sent, ResetFrame)
      \/ /\ dial \in CliTurn
         /\ dial.st = [h.st EXCEPT !.dial = "pending"]
         /\ dial.sock = h.sock /\ dial.sent = h.sent
         /\ r = dial \/ CliRepaused(r, dial)
  <2> HIDE DEF h
  <2> QED
    BY <1>4, CliOnStreamOpen
<1>6. "DATA" \notin TypesIn(t)
  BY <1>2, <1>3
<1> HIDE DEF h, r, dial
<1>7. CASE /\ r \in CliTurn /\ r.st = h.st /\ r.sock = h.sock
           /\ r.sent = Append(h.sent, ResetFrame)
  <2>1. CliCalm(r, h)
    <3>1. h.sock \in Socket(Bytes) /\ h.sent \in Seq(WireFrame)
      BY <1>4 DEF CliTurn
    <3>2. Soft(h.sock, h.sock)
      BY <3>1, SoftCalls
    <3>3. TypesIn(Append(h.sent, ResetFrame)) \subseteq TypesIn(h.sent) \cup {"EOF", "ACK", "RESET"}
      BY <3>1, OneMoreFrame
    <3> QED
      BY <1>7, <3>2, <3>3 DEF CliCalm
  <2>2. CliCommitted(r, t)
    BY <1>1, <1>2, <1>3, <1>7
  <2> QED
    BY <1>6, <2>1, <2>2, CliCalmStep DEF h
<1>8. CASE /\ dial \in CliTurn
           /\ dial.st = [h.st EXCEPT !.dial = "pending"]
           /\ dial.sock = h.sock /\ dial.sent = h.sent
           /\ r = dial \/ CliRepaused(r, dial)
  <2>1. cli \in CliType /\ loc \in Socket(Bytes)
    BY Places
  <2>2. r \in CliTurn /\ r.sent = <<>> /\ Soft(r.sock, loc)
    BY <1>4, <1>8, <2>1, SoftCalls DEF CliRepaused
  <2>3. dial.st = [cli EXCEPT !.dial = "pending"]
    BY <1>4, <1>8
  <2>4. dial.st \in CliType
    BY <1>8 DEF CliTurn
  <2>5. /\ r.st.finished = dial.st.finished /\ r.st.sentEof = dial.st.sentEof
        /\ r.st.receivedEof = dial.st.receivedEof
        /\ r.st.connected = dial.st.connected /\ r.st.queued = dial.st.queued
        /\ r.st.headBuf = dial.st.headBuf /\ r.st.headDone = dial.st.headDone
        /\ r.st.rewriteHost = dial.st.rewriteHost
    <3>1. CASE r = dial
      BY <3>1
    <3>2. CASE CliRepaused(r, dial)
      BY <2>4, <3>2 DEF CliRepaused, CliType
    <3> QED
      BY <1>8, <3>1, <3>2
  <2>6. /\ r.st.finished = cli.finished /\ r.st.sentEof = cli.sentEof
        /\ r.st.receivedEof = cli.receivedEof
        /\ r.st.connected = cli.connected /\ r.st.queued = cli.queued
        /\ r.st.headBuf = cli.headBuf /\ r.st.headDone = cli.headDone
        /\ r.st.rewriteHost = cli.rewriteHost
    BY <2>1, <2>3, <2>5 DEF CliType
  <2>7. CliCommitted(r, t)
    BY <1>1, <1>2, <1>3, <2>2
  <2>8. Down'
    <3>1. "DATA" \notin TypesIn(r.sent)
      BY <2>2, EmptySeen
    <3>2. Tells(r.st, r.sock) => Tells(cli, loc) /\ r.sock.inq = loc.inq
      BY <2>2, <2>6 DEF Tells, Soft, SoftIn
    <3> QED
      BY <2>7, <3>1, <3>2, DownKept DEF Order
  <2>9. ~Refused
    BY <1>2, <1>3 DEF Refused
  <2>10. /\ cli' = r.st /\ loc' = r.sock /\ loc' \in Socket(Bytes)
         /\ srv' = srv /\ pub' = pub /\ linkUp' = linkUp /\ visitorSaid' = visitorSaid
         /\ t \in Seq(WireFrame) /\ toAgent' \in Seq(WireFrame) /\ toAgent = t \o toAgent'
    BY <2>7 DEF CliCommitted, CliTurn, sVars
  <2>11. Up'
    <3> HIDE DEF Refused
    <3> QED
      BY <1>6, <2>2, <2>6, <2>9, <2>10, UpTaken DEF Order, Soft
  <2> QED
    BY <2>8, <2>11 DEF Order
<1> QED
  BY <1>5, <1>7, <1>8

\* Whatever frame the agent takes.
LEMMA ClientReceiveOrder ==
  ASSUME HostInHead, IInv, Order, C!ClientReceive, UNCHANGED <<sVars, outsideVars>>
  PROVE  Order'
<1> DEFINE kind == Head(toAgent).type
<1>1. kind \in {"OPEN", "DATA", "EOF", "ACK", "RESET"}
  BY CliTaken DEF WireFrame, SomeFrame
<1>2. CASE kind = "OPEN"
  BY <1>2, ClientReceiveOpen
<1>3. CASE kind = "DATA" /\ C!InStreams /\ ~cli.connected
  BY <1>3, ClientReceiveQueued
<1>4. CASE kind = "DATA" /\ C!InStreams /\ cli.connected
  BY <1>4, ClientReceiveData
<1>5. CASE kind = "EOF" /\ C!InStreams /\ cli.connected /\ ~cli.receivedEof
  BY <1>5, ClientReceiveEof
<1>6. CASE /\ kind # "OPEN"
           /\ \/ ~C!InStreams
              \/ kind \in {"ACK", "RESET"}
              \/ kind = "EOF" /\ (~cli.connected \/ cli.receivedEof)
  BY <1>6, ClientReceiveCalm
<1> QED
  BY <1>1, <1>2, <1>3, <1>4, <1>5, <1>6

\* The pieces before the i-th, and what they carry.
LEMMA PiecesBefore ==
  ASSUME NEW B, NEW q \in Seq(Seq(B)), NEW i \in 1..Len(q)
  PROVE  /\ Total(SubSeq(q, 1, i)) = Total(SubSeq(q, 1, i - 1)) + Len(q[i])
         /\ Total(SubSeq(q, 1, i)) \in Nat /\ Total(SubSeq(q, 1, i - 1)) \in Nat
         /\ Total(SubSeq(q, 1, i)) <= Total(q)
<1> DEFINE D == Seq(B)
           n == Len(q)
           a == SubSeq(q, 1, i - 1)
           b == SubSeq(q, 1, i)
           c == SubSeq(q, i + 1, n)
           d == q[i]
<1>1. q \in Seq(D) /\ d \in D /\ n \in Nat /\ i \in 1..n
  OBVIOUS
<1> HIDE DEF D
<1>2. /\ a \in Seq(D) /\ Len(a) = i - 1 /\ \A j \in 1..(i - 1) : a[j] = q[j]
      /\ b \in Seq(D) /\ Len(b) = i /\ \A j \in 1..i : b[j] = q[j]
      /\ c \in Seq(D) /\ Len(c) = n - i /\ \A j \in 1..(n - i) : c[j] = q[i + j]
  BY <1>1
<1> HIDE DEF a, b, c, n
<1>3. b = a \o <<d>>
  <2> DEFINE x == a \o <<d>>
  <2>1. /\ x \in Seq(D) /\ Len(x) = i
        /\ \A j \in 1..(i - 1) : x[j] = a[j]
        /\ x[i] = d
    <3> DEFINE e == <<d>>
    <3> HIDE DEF d
    <3>1. e \in Seq(D) /\ Len(e) = 1 /\ e[1] = d /\ 1 \in 1..Len(e)
      BY <1>1
    <3>2. x = a \o e
      OBVIOUS
    <3> HIDE DEF e, x
    <3>3. /\ a \o e \in Seq(D) /\ Len(a \o e) = Len(a) + Len(e)
          /\ \A j \in 1..Len(a) : (a \o e)[j] = a[j]
          /\ \A j \in 1..Len(e) : (a \o e)[Len(a) + j] = e[j]
      <4>1. a \in Seq(D) /\ e \in Seq(D)
        BY <1>2, <3>1
      <4> QED
        BY ONLY <4>1, Joined
    <3>4. /\ x \in Seq(D) /\ Len(x) = Len(a) + Len(e)
          /\ \A j \in 1..Len(a) : x[j] = a[j]
          /\ \A j \in 1..Len(e) : x[Len(a) + j] = e[j]
      BY <3>2, <3>3, Zenon
    <3>5. i \in Nat /\ (i - 1) + 1 = i
      BY <1>1
    <3> QED
      BY <1>2, <3>1, <3>4, <3>5
  <2> HIDE DEF x
  <2>2. \A j \in 1..i : j \in 1..(i - 1) \/ j = i
    BY <1>1
  <2>3. \A j \in 1..i : b[j] = x[j]
    BY <1>2, <2>1, <2>2 DEF d
  <2>4. b = x
    BY <1>2, <2>1, <2>3, SeqEqual
  <2> QED
    BY <2>4 DEF x
<1>4. q = b \o c
  <2> DEFINE x == b \o c
  <2>1. /\ x \in Seq(D) /\ Len(x) = n
        /\ \A j \in 1..i : x[j] = b[j]
        /\ \A j \in 1..(n - i) : x[i + j] = c[j]
    <3>1. /\ x \in Seq(D) /\ Len(x) = Len(b) + Len(c)
          /\ \A j \in 1..Len(b) : x[j] = b[j]
          /\ \A j \in 1..Len(c) : x[Len(b) + j] = c[j]
      <4>1. b \in Seq(D) /\ c \in Seq(D)
        BY <1>2
      <4>2. /\ b \o c \in Seq(D) /\ Len(b \o c) = Len(b) + Len(c)
            /\ \A j \in 1..Len(b) : (b \o c)[j] = b[j]
            /\ \A j \in 1..Len(c) : (b \o c)[Len(b) + j] = c[j]
        BY ONLY <4>1, Joined
      <4> QED
        BY <4>2
    <3>2. i + (n - i) = n
      BY <1>1
    <3> QED
      BY <1>2, <3>1, <3>2
  <2> HIDE DEF x
  <2>2. ASSUME NEW j \in 1..n PROVE q[j] = x[j]
    <3>1. CASE j <= i
      <4>1. j \in 1..i
        BY <1>1, <3>1
      <4> QED
        BY <1>2, <2>1, <4>1
    <3>2. CASE j > i
      <4> DEFINE k == j - i
      <4>1. k \in 1..(n - i) /\ j = i + k
        BY <1>1, <3>2
      <4> HIDE DEF k
      <4> QED
        BY <1>2, <2>1, <4>1
    <3> QED
      BY <1>1, <3>1, <3>2
  <2>3. q = x
    BY <1>1, <2>1, <2>2, SeqEqual DEF n
  <2> QED
    BY <2>3 DEF x
<1>5. a \in Seq(Seq(B)) /\ b \in Seq(Seq(B)) /\ c \in Seq(Seq(B)) /\ d \in Seq(B)
      /\ <<d>> \in Seq(Seq(B))
  BY <1>1, <1>2 DEF D
<1>6. /\ Total(a) \in Nat /\ Total(b) \in Nat /\ Total(c) \in Nat /\ Total(<<d>>) = Len(d)
  BY <1>5, LengthsTyped, TotalLaws
<1>7. Total(b) = Total(a) + Len(d) /\ Total(q) = Total(b) + Total(c)
  <2> HIDE DEF d
  <2>1. Total(a \o <<d>>) = Total(a) + Total(<<d>>)
    BY <1>5, TotalLaws
  <2>2. Total(b \o c) = Total(b) + Total(c)
    BY <1>5, TotalLaws
  <2> QED
    BY <1>3, <1>4, <1>6, <2>1, <2>2
<1>8. Total(b) <= Total(q)
  <2> DEFINE x == Total(b)
             y == Total(c)
             z == Total(q)
  <2>1. x \in Nat /\ y \in Nat /\ z = x + y
    BY <1>6, <1>7
  <2> HIDE DEF x, y, z
  <2>2. x <= z
    BY <2>1
  <2> QED
    BY <2>2 DEF x, z
<1> QED
  BY <1>6, <1>7, <1>8 DEF a, b, d

\* The turn t of the replay that began with the turn up, m bytes on.
OnWay(t, up, m) ==
    /\ t \in CliTurn
    /\ SameStream(t.st, up.st)
    /\ HeadRule(t)
    /\ Delivers(t, m)
    /\ Quiet(t, up)

\* What waited for the dial is written in order.
LEMMA ReplaySeen ==
  ASSUME HostInHead, NEW up \in CliTurn, NEW q \in Seq(Seq(Bytes) \ {<<>>}),
         ~up.st.finished, HeadRule(up), NEW m \in Nat, Delivers(up, m),
         Runs(q, m), m + Total(q) <= UpBytes
  PROVE  LET written[n \in 0..Len(q)] ==
               IF n = 0 THEN up ELSE C!WriteLocal(written[n - 1], q[n])
         IN  OnWay(written[Len(q)], up, m + Total(q))
<1> DEFINE n == Len(q)
           W(x, i) == C!WriteLocal(x, q[i])
           f == CHOOSE f : f = [i \in 0..n |-> IF i = 0 THEN up ELSE W(f[i - 1], i)]
           before(i) == Total(SubSeq(q, 1, i))
<1>1. /\ n \in Nat /\ DOMAIN q = 1..n /\ UpBytes \in Nat
      /\ \A i \in 1..n : q[i] \in Seq(Bytes) /\ q[i] # <<>> /\ Len(q[i]) \in Nat
  BY BridgeAssumption
<1>2. f[0] = up /\ \A i \in 1..n : f[i] = W(f[i - 1], i)
  BY WrittenOneByOne
<1>3. q \in Seq(Seq(Bytes))
  BY SeqMonotonic
<1>4. before(0) = 0 /\ before(n) = Total(q)
  <2>1. SubSeq(q, 1, 0) = <<>> /\ SubSeq(q, 1, n) = q
    OBVIOUS
  <2> QED
    BY <2>1, TotalLaws
<1>5. \A i \in 1..n : /\ before(i) = before(i - 1) + Len(q[i])
                      /\ before(i) \in Nat /\ before(i - 1) \in Nat
                      /\ before(i) <= Total(q)
  BY <1>3, PiecesBefore
<1>6. \A i \in 1..n : From(q[i], m + before(i - 1))
  BY <1>1 DEF Runs
<1>7. Total(q) \in Nat
  BY <1>3, LengthsTyped
<1> HIDE DEF n, W, f, before
<1> DEFINE T == {i \in 0..n : before(i) \in Nat /\ OnWay(f[i], up, m + before(i))}
<1>8. 0 \in T
  <2>1. SoftIn(up.sock, up.sock)
    BY SoftCalls DEF CliTurn, Soft
  <2>2. OnWay(up, up, m)
    BY <2>1 DEF OnWay, SameStream, Quiet
  <2>3. m + 0 = m
    OBVIOUS
  <2> QED
    BY <1>1, <1>2, <1>4, <2>2, <2>3
<1>9. ASSUME NEW i \in 1..n, i - 1 \in T PROVE i \in T
  <2> DEFINE t == f[i - 1]
             d == q[i]
             b == before(i - 1)
             k == m + b
             e == before(i)
             r == W(t, i)
  <2>1. OnWay(t, up, k) /\ b \in Nat
    BY <1>9
  <2>2. /\ d \in Seq(Bytes) /\ d # <<>> /\ Len(d) \in Nat /\ From(d, k)
        /\ e = b + Len(d) /\ e \in Nat /\ e <= Total(q) /\ f[i] = r
        /\ r = C!WriteLocal(t, d)
    BY <1>1, <1>2, <1>5, <1>6 DEF W
  <2> HIDE DEF t, d, b, e, r
  <2>3. k \in Nat /\ k + Len(d) = m + e /\ k + Len(d) <= UpBytes
    BY <1>1, <1>7, <2>1, <2>2
  <2> HIDE DEF k
  <2>4. t \in CliTurn /\ SameStream(t.st, up.st) /\ HeadRule(t) /\ Delivers(t, k) /\ Quiet(t, up)
    BY <2>1 DEF OnWay
  <2>5. ~t.st.finished
    BY <2>4 DEF SameStream
  <2>6. r \in CliTurn /\ SameStream(r.st, t.st) /\ HeadRule(r)
    BY <2>2, <2>4, <2>5, CliWriteLocal
  <2>7. Delivers(r, k + Len(d)) /\ Quiet(r, t)
    BY <2>2, <2>3, <2>4, WrittenLocally
  <2>8. SameStream(r.st, up.st)
    BY <2>4, <2>6 DEF SameStream
  <2>9. Quiet(r, up)
    BY <2>4, <2>7, QuietTwice
  <2>10. OnWay(r, up, m + e)
    BY <2>3, <2>6, <2>7, <2>8, <2>9 DEF OnWay
  <2>11. i \in 0..n
    BY <1>1
  <2> QED
    BY <2>2, <2>10, <2>11 DEF e
<1> HIDE DEF T
<1>10. \A i \in 0..n : i \in T
  BY <1>1, <1>8, <1>9, Induction
<1>11. n \in T
  BY <1>1, <1>10
<1>12. OnWay(f[n], up, m + Total(q))
  BY <1>4, <1>11 DEF T
<1> QED
  BY <1>12 DEF f, n, W

\* attach: what waited for the dial is written, and its end passed on if that
\* waited too.
LEMMA AttachSeen ==
  ASSUME HostInHead, NEW h \in CliTurn, ~h.st.finished, ~h.st.receivedEof, HeadRule(h),
         NEW m \in Nat, Delivers(h, m), Runs(h.st.queued, m),
         m + Total(h.st.queued) <= UpBytes
  PROVE  LET r == C!Attach(h)
             k == m + Total(h.st.queued)
         IN  /\ AllSeen(h.st.rewriteHost, ReadBy(r.sock))
             /\ Len(ReadBy(r.sock)) <= SeenLen(h.st.rewriteHost, k)
             /\ Quiet(r, h)
             /\ ~h.st.queuedEof /\ ~r.sock.destroyed => Taken(r.st, ReadBy(r.sock), k)
<1> DEFINE qs == h.st.queued
           k == m + Total(qs)
           p == h.st.rewriteHost
           s == h.sock
           up == [h EXCEPT !.st.connected = TRUE, !.sock = C!Resume(@)]
           written[n \in 0..Len(h.st.queued)] ==
             IF n = 0 THEN up ELSE C!WriteLocal(written[n - 1], h.st.queued[n])
           last == written[Len(h.st.queued)]
           replayed == [last EXCEPT !.st.queued = <<>>]
           ended == IF h.st.queuedEof THEN C!OnEof(replayed) ELSE replayed
           r == C!Attach(h)
           Reads(q) == /\ AllSeen(p, ReadBy(q.sock))
                       /\ Len(ReadBy(q.sock)) <= SeenLen(p, k)
                       /\ Quiet(q, h)
                       /\ q \in CliTurn
           Takes(q) == ~h.st.queuedEof /\ ~q.sock.destroyed => Taken(q.st, ReadBy(q.sock), k)
<1> SUFFICES Reads(r) /\ Takes(r)
  OBVIOUS
<1>1. h.st \in CliType /\ s \in Socket(Bytes)
  BY DEF CliTurn
<1>2. r = IF h.st.pausedGlobally THEN [ended EXCEPT !.sock = C!Pause(@)] ELSE ended
  BY DEF C!Attach
<1>3. /\ up \in CliTurn /\ up.st = [h.st EXCEPT !.connected = TRUE]
      /\ up.sock = Resume(s) /\ up.sent = h.sent
  <2>1. [h.st EXCEPT !.connected = TRUE] \in CliType
    BY <1>1 DEF CliType
  <2>2. Resume(s) \in Socket(Bytes) /\ C!Resume(s) = Resume(s)
    BY <1>1, PauseResume, SameOperators
  <2> QED
    BY <2>1, <2>2 DEF CliTurn
<1> HIDE DEF up
<1>4. /\ up.st.connected /\ ~up.st.receivedEof /\ ~up.st.finished
      /\ up.st.rewriteHost = p /\ up.st.recvUnacked = h.st.recvUnacked
      /\ up.st.headDone = h.st.headDone /\ up.st.headBuf = h.st.headBuf
  BY <1>1, <1>3 DEF CliType
<1>5. Soft(up.sock, s) /\ up.sock.out = s.out
  BY <1>1, <1>3, SoftCalls, PauseResume
<1>6. HeadRule(up)
  BY <1>4, <1>5 DEF HeadRule
<1>7. Delivers(up, m) /\ Quiet(up, h)
  <2>1. Delivers(up, m)
    BY <1>3, <1>4, <1>5, DeliversKept DEF Soft
  <2> QED
    BY <1>3, <1>5, <2>1 DEF Quiet, Soft
<1>8. qs \in Seq(Seq(Bytes) \ {<<>>}) /\ qs \in Seq(Seq(Bytes))
  <2>1. qs \in Seq(Seq(Bytes) \ {<<>>})
    BY <1>1 DEF CliType
  <2> QED
    BY <2>1, SeqMonotonic
<1>9. OnWay(last, up, k)
  <2>1. Runs(qs, m) /\ k <= UpBytes
    OBVIOUS
  <2> HIDE DEF qs
  <2>2. LET w[n \in 0..Len(qs)] ==
              IF n = 0 THEN up ELSE C!WriteLocal(w[n - 1], qs[n])
        IN  OnWay(w[Len(qs)], up, m + Total(qs))
    BY <1>3, <1>4, <1>6, <1>7, <1>8, <2>1, ReplaySeen
  <2> QED
    BY <2>2 DEF qs
<1>10. k \in Nat /\ k <= UpBytes
  <2> HIDE DEF qs
  <2>1. Total(qs) \in Nat
    BY <1>8, LengthsTyped
  <2>2. m + Total(qs) <= UpBytes
    BY DEF qs
  <2> QED
    BY <2>1, <2>2
<1> HIDE DEF last, qs, k, p, s, r
<1>11. /\ last \in CliTurn /\ last.st \in CliType /\ SameStream(last.st, up.st)
       /\ HeadRule(last) /\ Delivers(last, k) /\ Quiet(last, up)
  BY <1>9 DEF OnWay, CliTurn
<1>12. /\ replayed \in CliTurn /\ replayed.st = [last.st EXCEPT !.queued = <<>>]
       /\ replayed.sock = last.sock /\ replayed.sent = last.sent
  <2>1. <<>> \in Seq(Seq(Bytes) \ {<<>>})
    OBVIOUS
  <2>2. [last.st EXCEPT !.queued = <<>>] \in CliType
    BY <1>11, <2>1 DEF CliType
  <2> QED
    BY <1>11, <2>2 DEF CliTurn
<1> HIDE DEF replayed
<1>13. /\ replayed.st.connected = last.st.connected
       /\ replayed.st.receivedEof = last.st.receivedEof
       /\ replayed.st.finished = last.st.finished
       /\ replayed.st.rewriteHost = last.st.rewriteHost
       /\ replayed.st.recvUnacked = last.st.recvUnacked
       /\ replayed.st.headDone = last.st.headDone
       /\ replayed.st.headBuf = last.st.headBuf
  BY <1>11, <1>12 DEF CliType
<1>14. /\ replayed.st.connected /\ ~replayed.st.receivedEof /\ ~replayed.st.finished
       /\ replayed.st.rewriteHost = p
  BY <1>4, <1>11, <1>13 DEF SameStream
<1>15. HeadRule(replayed)
  BY <1>11, <1>12, <1>13 DEF HeadRule
<1>16. Delivers(replayed, k) /\ Quiet(replayed, h)
  <2>1. replayed.sock \in Socket(Bytes)
    BY <1>12 DEF CliTurn
  <2>2. Soft(replayed.sock, last.sock)
    BY <1>12, <2>1, SoftCalls
  <2>3. Delivers(replayed, k)
    BY <1>10, <1>11, <1>12, <1>13, <2>2, DeliversKept DEF Soft
  <2>4. Quiet(last, h)
    BY <1>7, <1>11, QuietTwice
  <2> QED
    BY <1>12, <2>3, <2>4 DEF Quiet
<1>17. Reads(ended) /\ Takes(ended)
  <2>1. CASE h.st.queuedEof
    <3>1. ended = C!OnEof(replayed)
      BY <2>1
    <3> HIDE DEF ended
    <3>2. /\ AllSeen(p, ReadBy(ended.sock)) /\ Len(ReadBy(ended.sock)) <= SeenLen(p, k)
          /\ Quiet(ended, replayed)
      BY <1>10, <1>12, <1>14, <1>15, <1>16, <3>1, EndedLocally
    <3>3. ended \in CliTurn
      BY <1>12, <1>14, <1>15, <3>1, CliOnEof DEF Passed
    <3>4. Quiet(ended, h)
      BY <1>16, <3>2, QuietTwice
    <3> QED
      BY <2>1, <3>2, <3>3, <3>4
  <2>2. CASE ~h.st.queuedEof
    <3>1. ended = replayed
      BY <2>2
    <3> HIDE DEF ended
    <3> QED
      BY <1>12, <1>14, <1>16, <3>1 DEF Delivers
  <2> QED
    BY <2>1, <2>2
<1> HIDE DEF ended
<1> DEFINE q == [ended EXCEPT !.sock = Pause(@)]
<1>18. Reads(q) /\ Takes(q)
  <2> DEFINE a == ended.sock
             b == Pause(a)
  <2>1. a \in Socket(Bytes) /\ ended \in CliTurn
    BY <1>17 DEF CliTurn
  <2>2. b \in Socket(Bytes) /\ Soft(b, a)
    BY <2>1, PauseResume, SoftCalls
  <2> HIDE DEF b
  <2>3. q \in CliTurn /\ q.sock = b /\ q.st = ended.st /\ q.sent = ended.sent
    <3>1. q = [ended EXCEPT !.sock = b]
      BY DEF b
    <3> HIDE DEF q
    <3> QED
      BY <2>1, <2>2, <3>1 DEF CliTurn
  <2> HIDE DEF q
  <2>4. AllSeen(p, ReadBy(a)) /\ Len(ReadBy(a)) <= SeenLen(p, k) /\ Quiet(ended, h)
    BY <1>17
  <2>5. ~a.destroyed /\ ~h.st.queuedEof => Taken(ended.st, ReadBy(a), k)
    BY <1>17
  <2> HIDE DEF a
  <2>6. AllSeen(p, ReadBy(b)) /\ Len(ReadBy(b)) <= SeenLen(p, k)
    BY <1>10, <2>1, <2>2, <2>4, SeenKept DEF Soft
  <2>7. ~b.destroyed => ~a.destroyed /\ ReadBy(b) = ReadBy(a)
    BY <2>1, <2>2, SoftRead DEF Soft, SoftOut
  <2>8. Quiet(q, h)
    <3>1. Quiet(q, ended)
      BY <2>2, <2>3 DEF Quiet, Soft, a
    <3> QED
      BY <2>4, <3>1, QuietTwice
  <2>9. Reads(q)
    BY <2>3, <2>6, <2>8
  <2>10. Takes(q)
    BY <2>3, <2>5, <2>7
  <2> QED
    BY <2>9, <2>10
<1>19. C!Pause(ended.sock) = Pause(ended.sock)
  BY SameOperators
<1> HIDE DEF Reads, Takes
<1>20. r = ended \/ r = q
  BY <1>2, <1>19
<1> HIDE DEF q
<1> QED
  BY <1>17, <1>18, <1>20

\* Many pieces are taken like one.
LEMMA WayTakenAll ==
  ASSUME NEW B, NEW q \in Seq(Seq(B)), NEW p \in Seq(Seq(B)), NEW inq \in Seq(B),
         NEW n \in Nat, NEW said \in Nat, NEW tells,
         Way(q \o p, inq, n, said, tells)
  PROVE  /\ Runs(q, n) /\ n + Total(q) \in Nat /\ n + Total(q) <= said
         /\ Way(p, inq, n + Total(q), said, tells)
<1>1. Total(q) \in Nat /\ Total(p) \in Nat
  BY LengthsTyped
<1>2. Total(q \o p) = Total(q) + Total(p)
  BY TotalLaws
<1>3. Runs(q, n) /\ Runs(p, n + Total(q))
  BY RunsLaws DEF Way
<1>4. /\ n + Total(q) \in Nat
      /\ n + Total(q \o p) = (n + Total(q)) + Total(p)
  <2> DEFINE x == Total(q)
             y == Total(p)
  <2>1. x \in Nat /\ y \in Nat /\ Total(q \o p) = x + y
    BY <1>1, <1>2
  <2> HIDE DEF x, y
  <2>2. n + x \in Nat /\ n + Total(q \o p) = (n + x) + y
    BY <2>1
  <2> QED
    BY <2>2 DEF x, y
<1>5. n + Total(q) <= said
  <2> DEFINE x == n + Total(q)
             y == Total(p)
             z == n + Total(q \o p)
  <2>1. x \in Nat /\ y \in Nat /\ z = x + y /\ z <= said
    BY <1>1, <1>4 DEF Way
  <2> HIDE DEF x, y, z
  <2>2. x <= said
    BY <2>1
  <2> QED
    BY <2>2 DEF x
<1> QED
  BY <1>3, <1>4, <1>5 DEF Way

\* The dial succeeds: what was queued is written.
LEMMA DialOkOrder ==
  ASSUME HostInHead, IInv, Order, C!DialOk, UNCHANGED <<sVars, outsideVars>>
  PROVE  Order'
<1> DEFINE h == [C!Turn EXCEPT !.st.dial = "over"]
           r == C!Attach(h)
           t == <<>>
           c == toAgent'
           p == Pieces(c)
           q == cli.queued
           inq == pub.inq
           said == visitorSaid
           u == Tells(srv, pub)
<1>1. /\ cli.dial = "pending" /\ C!Commit(r)
      /\ UNCHANGED <<sVars, linkUp, toAgent, cliClosed, serviceSaid, visitorSaid,
                     cliCongested, congestions>>
  BY DEF C!DialOk, outsideVars
<1>2. h \in CliTurn /\ h.st = [cli EXCEPT !.dial = "over"] /\ h.sock = loc /\ h.sent = <<>>
  BY <1>1, CliDialled
<1> HIDE DEF h
<1>3. /\ cli \in CliType /\ loc \in Socket(Bytes) /\ cli.finished \in BOOLEAN
      /\ cli.queuedEof \in BOOLEAN
  BY Places DEF CliType
<1>4. /\ h.st.connected = cli.connected
      /\ h.st.queued = q /\ h.st.queuedEof = cli.queuedEof
      /\ h.st.rewriteHost = cli.rewriteHost
      /\ h.st.headDone = cli.headDone /\ h.st.headBuf = cli.headBuf
      /\ h.st.finished = cli.finished
      /\ h.st.sentEof = cli.sentEof /\ h.st.receivedEof = cli.receivedEof
      /\ h.st.recvUnacked = cli.recvUnacked
  BY <1>2, <1>3 DEF CliType
<1>5. /\ ~cli.connected /\ ~loc.destroyed
      /\ ~cli.sentEof /\ ~cli.receivedEof /\ cli.recvUnacked = 0
  BY <1>1 DEF IInv, LifeOfAgent, NewSocket
<1>6. CASE cli.finished
  <2> DEFINE s == DestroySocket(loc)
  <2>1. r = [h EXCEPT !.sock = s]
    BY <1>2, <1>4, <1>6, SameOperators, ZenonT(60) DEF C!Attach
  <2>2. s \in Socket(Bytes) /\ SoftOut(s, loc) /\ SoftIn(s, loc) /\ s.destroyed
    BY <1>3, SocketDestroyed, SoftCalls DEF Soft
  <2> HIDE DEF s, r
  <2>3. r \in CliTurn /\ r.st = h.st /\ r.sock = s /\ r.sent = <<>>
    BY <1>2, <2>1, <2>2, CliSock
  <2>4. CliCommitted(r, t)
    BY <1>1, <2>3, CliCallback DEF IInv, Types
  <2> HIDE DEF t
  <2>5. Down'
    <3>1. ~Tells(r.st, r.sock) /\ "DATA" \notin TypesIn(r.sent)
      BY <2>2, <2>3, EmptySeen DEF Tells
    <3> QED
      BY <2>4, <3>1, DownKept DEF Order
  <2>6. Up'
    <3>1. cli' = h.st /\ loc' = s /\ visitorSaid' = visitorSaid
      BY <2>3, <2>4 DEF CliCommitted
    <3>2. ~cli'.connected /\ cli'.rewriteHost = cli.rewriteHost
      BY <1>4, <1>5, <3>1
    <3>3. ~Hears(cli', loc')
      BY <2>2, <3>1 DEF Hears
    <3> HIDE DEF Refused
    <3> QED
      BY <2>2, <3>1, <3>2, <3>3, UpOver DEF Order
  <2> QED
    BY <2>5, <2>6 DEF Order
<1>7. CASE ~cli.finished
  <2> DEFINE b == C!Turn
  <2>1. b \in CliTurn /\ b.st = cli /\ b.sock = loc /\ b.sent = <<>>
    BY CliTurnCalm
  <2>2. HeadRule(b)
    BY <1>1, <1>5, <1>7, DeliveredSoFar DEF Order
  <2>3. PICK n \in 0..visitorSaid :
           /\ n \in Nat /\ n <= UpBytes
           /\ Delivers(b, n)
           /\ Way(q \o Pieces(toAgent), inq, n, said, u)
    BY <1>1, <1>5, <1>7, DeliveredSoFar DEF Order
  <2> HIDE DEF b
  <2>4. HeadRule(h)
    BY <1>2, <1>4, <2>1, <2>2 DEF HeadRule
  <2>5. Delivers(h, n)
    BY <1>2, <1>4, <2>1, <2>3 DEF Delivers, Taken
  <2>6. c = toAgent
    BY <1>1
  <2>7. /\ q \in Seq(Seq(Bytes)) /\ p \in Seq(Seq(Bytes)) /\ inq \in Seq(Bytes)
        /\ said \in Nat /\ said <= UpBytes /\ UpBytes \in Nat
    BY <2>6, Places, PiecesLaws, BridgeAssumption
  <2>8. Way(q \o p, inq, n, said, u)
    BY <2>3, <2>6
  <2> DEFINE x == Total(q)
             k == n + x
  <2>9. said = visitorSaid /\ u = Tells(srv, pub) /\ inq = pub.inq /\ p = Pieces(toAgent')
    OBVIOUS
  <2> HIDE DEF p, q, c, inq, said, u
  <2>10. Runs(q, n) /\ k \in Nat /\ k <= said /\ Way(p, inq, k, said, u)
    BY <2>3, <2>7, <2>8, WayTakenAll
  <2>11. k <= UpBytes /\ k \in 0..said
    <3> HIDE DEF k
    <3> QED
      BY <2>7, <2>10
  <2>12. ~h.st.finished /\ ~h.st.receivedEof /\ h.sent = <<>> /\ h.st.recvUnacked = 0
    BY <1>2, <1>4, <1>5, <1>7
  <2>13. /\ AllSeen(h.st.rewriteHost, ReadBy(r.sock))
         /\ Len(ReadBy(r.sock)) <= SeenLen(h.st.rewriteHost, k)
         /\ Quiet(r, h)
         /\ ~h.st.queuedEof /\ ~r.sock.destroyed => Taken(r.st, ReadBy(r.sock), k)
    <3>1. n \in Nat /\ Runs(h.st.queued, n) /\ n + Total(h.st.queued) <= UpBytes
      BY <1>4, <2>3, <2>10, <2>11
    <3>2. k = n + Total(h.st.queued)
      BY <1>4
    <3> HIDE DEF k, r
    <3> QED
      BY <1>2, <2>4, <2>5, <2>12, <3>1, <3>2, AttachSeen DEF r
  <2> DEFINE z == SumOf([i \in DOMAIN h.st.queued |-> Len(h.st.queued[i])])
  <2>14. Attached(r, h, z)
    BY <1>2, <2>4, <2>12, CliAttach
  <2> HIDE DEF r, z, k
  <2>15. /\ r \in CliTurn /\ r.st.queued = <<>> /\ r.st.receivedEof = h.st.queuedEof
         /\ r.st.rewriteHost = h.st.rewriteHost
    BY <2>14 DEF Attached
  <2>16. CliCommitted(r, t)
    BY <1>1, <2>15, CliCallback DEF IInv, Types
  <2> HIDE DEF t
  <2>17. Down'
    <3>1. Quiet(r, C!Turn)
      BY <1>2, <2>1, <2>13 DEF b, Quiet
    <3> QED
      BY <1>5, <1>7, <2>16, <3>1, QuietDown DEF Order
  <2>18. Up'
    <3>1. r.st.queued \o p = p
      <4>1. <<>> \o p = p
        BY <2>7
      <4> QED
        BY <2>15, <4>1
    <3>2. Hears(r.st, r.sock) => Taken(r.st, ReadBy(r.sock), k)
      BY <2>13, <2>15 DEF Hears
    <3>3. Way(r.st.queued \o p, inq, k, said, u)
      BY <2>10, <3>1
    <3>4. k \in 0..visitorSaid
          /\ Way(r.st.queued \o Pieces(toAgent'), pub.inq, k, visitorSaid, Tells(srv, pub))
      BY <2>9, <2>11, <3>3
    <3>5. AllSeen(r.st.rewriteHost, ReadBy(r.sock))
          /\ Len(ReadBy(r.sock)) <= SeenLen(r.st.rewriteHost, k)
      BY <2>13, <2>15
    <3> QED
      BY <2>15, <2>16, <3>2, <3>4, <3>5, UpPassed
  <2> QED
    BY <2>17, <2>18 DEF Order
<1> QED
  BY <1>3, <1>6, <1>7

\* Every step on the service's side.
LEMMA ClientOrder ==
  ASSUME HostInHead, IInv, Order,
         ServiceSend \/ ServiceFin \/ ServiceAbort \/ ClientStep \/ AgentCongests
  PROVE  Order'
<1>1. CASE ServiceSend
  BY <1>1, ServiceSendOrder
<1>2. CASE ServiceFin \/ ServiceAbort
  BY <1>2, ServiceOrder
<1>3. CASE AgentCongests
  BY <1>3, UplinkOrder
<1>4. CASE ClientStep
  <2>1. UNCHANGED <<sVars, outsideVars>>
    BY <1>4 DEF ClientStep
  <2>2. CASE C!LocalFlush
    BY <2>1, <2>2, LocalFlushOrder
  <2>3. CASE C!DialFail
    BY <2>1, <2>3, DialFailOrder
  <2>4. CASE C!DialOk
    BY <2>1, <2>4, DialOkOrder
  <2>5. CASE C!LocalData
    BY <2>1, <2>5, LocalDataOrder
  <2>6. CASE C!LocalEnd
    BY <2>1, <2>6, LocalEndOrder
  <2>7. CASE C!LocalDrain
    BY <2>1, <2>7, LocalDrainOrder
  <2>8. CASE C!LocalError
    BY <2>1, <2>8, LocalErrorOrder
  <2>9. CASE C!LocalClose
    BY <2>1, <2>9, LocalCloseOrder
  <2>10. CASE C!ClientReceive
    BY <2>1, <2>10, ClientReceiveOrder
  <2>11. CASE C!ClearUplink
    BY <2>1, <2>11, UplinkOrder
  <2>12. CASE C!TeardownSession
    BY <2>1, <2>12, TeardownOrder
  <2> QED
    BY <1>4, <2>2, <2>3, <2>4, <2>5, <2>6, <2>7, <2>8, <2>9, <2>10, <2>11, <2>12
       DEF ClientStep, C!ClientCallback
<1> QED
  BY <1>1, <1>2, <1>3, <1>4

-----------------------------------------------------------------------------
\* The invariant, and the property.

\* What only the loss of the link, or nothing, changes.
LEMMA NothingMoves ==
  ASSUME IInv, Order, UNCHANGED <<sVars, cVars, toAgent, toServer, outsideVars>>,
         linkUp' => linkUp
  PROVE  Order'
<1>1. /\ srv' = srv /\ pub' = pub /\ cli' = cli /\ loc' = loc
      /\ toAgent' = toAgent /\ toServer' = toServer
      /\ visitorSaid' = visitorSaid /\ serviceSaid' = serviceSaid
  BY DEF sVars, cVars, outsideVars
<1>2. /\ Tells(srv, pub)' => Tells(srv, pub)
      /\ Tells(cli, loc)' => Tells(cli, loc)
  BY <1>1 DEF Tells
<1> DEFINE b == <<>>
<1>3. /\ b \in Seq(WireFrame) /\ "DATA" \notin TypesIn(b)
      /\ toAgent' = toAgent \o b /\ toServer' = toServer \o b
  <2>1. toAgent \o <<>> = toAgent /\ toServer \o <<>> = toServer
    <3>1. toAgent \in Seq(WireFrame) /\ toServer \in Seq(WireFrame)
      BY Places
    <3> QED
      BY <3>1
  <2>2. b \in Seq(WireFrame) /\ "DATA" \notin TypesIn(b)
    BY EmptySeen
  <2> QED
    BY <1>1, <2>1, <2>2
<1> HIDE DEF b
<1>4. Refused => Refused'
  BY <1>1 DEF Refused
<1>5. Down'
  BY <1>1, <1>2, <1>3, DownBlank DEF Order
<1>6. Up'
  <2> HIDE DEF Refused
  <2> QED
    BY <1>1, <1>2, <1>3, <1>4, UpBlank DEF Order
<1> QED
  BY <1>5, <1>6 DEF Order

\* Nothing was said yet.
LEMMA InitOrder == Init => Order
<1> SUFFICES ASSUME Init PROVE Order
  OBVIOUS
<1>1. /\ srv = S!NoStream /\ pub = NewSocket /\ loc = NewSocket
      /\ linkUp = TRUE /\ toAgent = <<>> /\ toServer = <<>>
      /\ visitorSaid = 0 /\ serviceSaid = 0
  BY SameOperators DEF Init, S!ServerInit, C!ClientInit
<1>2. PICK r \in RewriteHosts : cli = C!NoClientStream(r)
  BY DEF Init, C!ClientInit
<1>3. /\ ~cli.connected /\ cli.rewriteHost = r /\ cli.queued = <<>>
      /\ cli.headDone = ~r /\ cli.headBuf = <<>>
  BY <1>2 DEF C!NoClientStream
<1>4. ReadBy(pub) = <<>> /\ ReadBy(loc) = <<>> /\ loc.inq = <<>> /\ pub.inq = <<>>
      /\ Len(<<>>) = 0
  <2>1. NewSocket.got = <<>> /\ NewSocket.out = <<>> /\ NewSocket.inq = <<>>
    BY DEF NewSocket
  <2>2. <<>> \o <<>> = <<>> /\ Len(<<>>) = 0
    OBVIOUS
  <2> QED
    BY <1>1, <2>1, <2>2 DEF ReadBy
<1>5. /\ From(<<>>, 0) /\ AllSeen(cli.rewriteHost, <<>>) /\ 0 <= 0
  BY DEF From, AllSeen
<1>6. \A u : Way(<<>>, <<>>, 0, 0, u)
  <2>1. Runs(<<>>, 0) /\ Total(<<>>) = 0
    BY RunsLaws, TotalLaws
  <2>2. 0 + 0 <= 0 /\ 0 + 0 = 0 /\ 0 + 0 + 0 = 0
    OBVIOUS
  <2> QED
    BY <1>4, <1>5, <2>1, <2>2 DEF Way
<1>7. Up
  <2>1. 0 <= SeenLen(cli.rewriteHost, 0)
    BY SeenGrows
  <2>2. Taken(cli, <<>>, 0)
    <3>1. ~Rewriting(cli.rewriteHost) => SeenLen(cli.rewriteHost, 0) = 0
      BY DEF SeenLen
    <3>2. cli.headDone => ~Rewriting(cli.rewriteHost)
      BY <1>3 DEF Rewriting
    <3> QED
      BY <1>3, <1>4, <1>5, <3>1, <3>2 DEF Taken
  <2>3. Way(cli.queued \o Pieces(toAgent), pub.inq, 0, 0, Tells(srv, pub))
    <3>1. Pieces(<<>>) = <<>> /\ <<>> \o <<>> = <<>>
      BY DEF Pieces
    <3> QED
      BY <1>1, <1>3, <1>4, <1>6, <3>1
  <2>4. 0 \in 0..visitorSaid
    BY <1>1
  <2> HIDE DEF Refused
  <2> QED
    BY <1>1, <1>3, <1>4, <1>5, <2>1, <2>2, <2>3, <2>4 DEF Up
<1>8. Down
  <2>1. Pieces(<<>>) = <<>>
    BY DEF Pieces
  <2>2. Way(<<>>, <<>>, 0, 0, Tells(cli, loc))
    BY <1>6
  <2> QED
    BY <1>1, <1>4, <1>5, <2>1, <2>2 DEF Down
<1> QED
  BY <1>7, <1>8 DEF Order

\* Every step keeps it.
LEMMA StepOrder == HostInHead /\ IInv /\ Order /\ [Next]_vars => Order'
<1> SUFFICES ASSUME HostInHead, IInv, Order, [Next]_vars PROVE Order'
  OBVIOUS
<1>1. CASE VisitorSend \/ VisitorFin \/ VisitorAbort \/ ServerStep \/ ServerCongests
  BY <1>1, ServerOrder
<1>2. CASE ServiceSend \/ ServiceFin \/ ServiceAbort \/ ClientStep \/ AgentCongests
  BY <1>2, ClientOrder
<1>3. CASE LinkLost
  BY <1>3, NothingMoves DEF LinkLost
<1>4. CASE UNCHANGED vars
  <2>1. UNCHANGED <<sVars, cVars, toAgent, toServer, outsideVars>> /\ linkUp' = linkUp
    BY <1>4 DEF vars, linkVars
  <2> QED
    BY <2>1, NothingMoves
<1> QED
  BY <1>1, <1>2, <1>3, <1>4 DEF Next

\* A sequence that agrees with a longer one is a prefix of it.
LEMMA PrefixWhen ==
  ASSUME NEW B, NEW s \in Seq(B), NEW t \in Seq(B), Len(s) <= Len(t),
         \A i \in 1..Len(s) : s[i] = t[i]
  PROVE  IsPrefix(s, t)
<1> DEFINE n == Len(s)
           u == SubSeq(t, 1, n)
           v == SubSeq(s, 1, n)
<1>1. n \in Nat /\ Len(t) \in Nat /\ n <= Len(t)
  OBVIOUS
<1>2. \A i \in 1..n : i \in 1..Len(t)
  BY <1>1
<1> HIDE DEF n
<1>3. /\ v \in Seq(B) /\ Len(v) = n /\ \A i \in 1..n : v[i] = s[i]
      /\ u \in Seq(B) /\ Len(u) = n /\ \A i \in 1..n : u[i] = t[i]
  <2>1. n = Len(s) /\ n \in Int /\ \A i \in 1..n : i \in 1..Len(s)
    BY <1>1 DEF n
  <2> QED
    BY <1>1, <1>2, <2>1
<1> HIDE DEF u, v
<1>4. u = v
  <2>1. \A i \in 1..n : u[i] = v[i]
    BY <1>3 DEF n
  <2> QED
    BY <1>1, <1>3, <2>1
<1> QED
  BY <1>1, <1>4 DEF IsPrefix, n, u, v

\* What was read is in front of what will be.
LEMMA GotFirst ==
  ASSUME NEW sock \in Socket(Bytes)
  PROVE  /\ sock.got \in Seq(Bytes) /\ ReadBy(sock) \in Seq(Bytes)
         /\ Len(sock.got) <= Len(ReadBy(sock))
         /\ \A i \in 1..Len(sock.got) :
               i \in DOMAIN ReadBy(sock) /\ ReadBy(sock)[i] = sock.got[i]
<1> DEFINE g == sock.got
           o == sock.out
<1>1. g \in Seq(Bytes) /\ o \in Seq(Bytes)
  BY DEF Socket
<1> HIDE DEF g, o
<1>2. /\ g \o o \in Seq(Bytes) /\ Len(g) \in Nat /\ Len(o) \in Nat
      /\ Len(g \o o) = Len(g) + Len(o)
      /\ DOMAIN (g \o o) = 1..(Len(g) + Len(o))
      /\ \A i \in 1..Len(g) : (g \o o)[i] = g[i]
  BY <1>1, Joined
<1>3. Len(g) <= Len(g \o o) /\ \A i \in 1..Len(g) : i \in DOMAIN (g \o o)
  BY <1>2
<1> QED
  BY <1>1, <1>2, <1>3 DEF ReadBy, g, o

\* What n bytes should read like, byte by byte.
LEMMA SaidSeen ==
  ASSUME NEW n \in Nat, n <= UpBytes, cli.rewriteHost \in BOOLEAN
  PROVE  /\ AsSeenByService(n) \in Seq(Bytes)
         /\ AllSeen(cli.rewriteHost, AsSeenByService(n))
         /\ Len(AsSeenByService(n)) = SeenLen(cli.rewriteHost, n)
<1> DEFINE said == [i \in 1..n |-> i]
<1>1. \A i \in 1..n : i \in Bytes
  BY BridgeAssumption DEF Bytes
<1>2. said \in Seq(Bytes) /\ Len(said) = n /\ DOMAIN said = 1..n
      /\ \A i \in 1..n : said[i] = i
  BY <1>1
<1> HIDE DEF said
<1>3. From(said, 0)
  BY <1>2 DEF From
<1>4. CASE cli.rewriteHost
  <2>1. AsSeenByService(n) = C!RewriteHostHeader(said)
    BY <1>4 DEF AsSeenByService, said
  <2>2. C!RewriteHostHeader(said) \in Seq(Bytes)
    BY <1>2, Rewritten
  <2>3. cli.rewriteHost = TRUE
    BY <1>4
  <2> QED
    BY <1>2, <1>3, <2>1, <2>2, <2>3, HeadSeen
<1>5. CASE ~cli.rewriteHost
  <2>1. AsSeenByService(n) = said
    BY <1>5 DEF AsSeenByService, said
  <2>2. ~Rewriting(cli.rewriteHost)
    BY <1>5 DEF Rewriting
  <2>3. SeenLen(cli.rewriteHost, n) = n /\ \A i : SeenAt(cli.rewriteHost, i) = i
    BY <2>2 DEF SeenLen, SeenAt
  <2> QED
    BY <1>2, <2>1, <2>3 DEF AllSeen
<1> QED
  BY <1>4, <1>5

\* The places hold the property.
LEMMA OrderShows ==
  ASSUME IInv, Order
  PROVE  InOrder
<1>1. /\ pub \in Socket(Bytes) /\ loc \in Socket(Bytes) /\ cli.rewriteHost \in BOOLEAN
      /\ visitorSaid \in Nat /\ visitorSaid <= UpBytes /\ serviceSaid \in Nat
  BY Places
<1>2. IsPrefix(loc.got, AsSeenByService(visitorSaid))
  <2> DEFINE g == loc.got
             t == AsSeenByService(visitorSaid)
             s == ReadBy(loc)
             r == cli.rewriteHost
  <2>1. /\ g \in Seq(Bytes) /\ s \in Seq(Bytes) /\ Len(g) <= Len(s)
        /\ \A i \in 1..Len(g) : i \in DOMAIN s /\ s[i] = g[i]
    BY <1>1, GotFirst
  <2>2. /\ t \in Seq(Bytes) /\ AllSeen(r, t) /\ Len(t) = SeenLen(r, visitorSaid)
    BY <1>1, SaidSeen
  <2>3. AllSeen(r, s) /\ Len(s) <= SeenLen(r, visitorSaid)
    BY DEF Order, Up
  <2>4. IsPrefix(g, t)
    <3> HIDE DEF g, t, s, r
    <3>1. Len(g) \in Nat /\ Len(s) \in Nat /\ Len(t) \in Nat
      BY <2>1, <2>2
    <3>2. Len(g) <= Len(t)
      BY <2>1, <2>2, <2>3, <3>1
    <3>3. \A i \in 1..Len(g) : i \in DOMAIN t
      BY <2>2, <3>1, <3>2
    <3>4. \A i \in 1..Len(g) : g[i] = t[i]
      BY <2>1, <2>2, <2>3, <3>3 DEF AllSeen
    <3> QED
      BY <2>1, <2>2, <3>2, <3>4, PrefixWhen
  <2> QED
    BY <2>4
<1>3. IsPrefix(pub.got, [i \in 1..serviceSaid |-> i])
  <2> DEFINE g == pub.got
             t == [i \in 1..serviceSaid |-> i]
             s == ReadBy(pub)
             n == serviceSaid
  <2>1. /\ g \in Seq(Bytes) /\ s \in Seq(Bytes) /\ Len(g) <= Len(s)
        /\ \A i \in 1..Len(g) : i \in DOMAIN s /\ s[i] = g[i]
    BY <1>1, GotFirst
  <2>2. From(s, 0) /\ Len(s) <= n /\ n \in Nat
    BY <1>1 DEF Order, Down
  <2>3. t \in Seq(Int) /\ Len(t) = n /\ \A i \in 1..n : t[i] = i
    BY <1>1
  <2>4. g \in Seq(Int)
    <3>1. Bytes \subseteq Int
      <4>1. ToSet(TargetBytes) \subseteq Nat
        BY BridgeAssumption DEF ToSet
      <4> QED
        BY <4>1 DEF Bytes
    <3> HIDE DEF g
    <3> QED
      BY <2>1, <3>1, SeqMonotonic
  <2>5. IsPrefix(g, t)
    <3> HIDE DEF g, t, s, n
    <3>1. Len(g) \in Nat /\ Len(s) \in Nat
      BY <2>1
    <3>2. Len(g) <= Len(t) /\ \A i \in 1..Len(g) : i \in 1..n
      BY <2>1, <2>2, <2>3, <3>1
    <3>3. ASSUME NEW i \in 1..Len(g) PROVE g[i] = t[i]
      <4>1. s[i] = 0 + i
        BY <2>1, <2>2, <3>3 DEF From
      <4>2. i \in Nat
        BY <3>1
      <4> QED
        BY <2>1, <2>3, <3>2, <4>1, <4>2
    <3> QED
      BY <2>3, <2>4, <3>2, <3>3, PrefixWhen
  <2> QED
    BY <2>5
<1> QED
  BY <1>2, <1>3 DEF InOrder

\* Whatever dials, pauses, congestion, resets, hang-ups or the loss of the link
\* do, each party reads the other's bytes once, in order and without a gap: for
\* every window, chunk size, buffer size and number of bytes, and with the head
\* held back and its Host value, wherever in the head it is, replaced.
THEOREM ReadInOrder ==
  ASSUME HostInHead
  PROVE  Spec => []InOrder
<1>1. Init => IInv /\ Order
  BY InitInv, InitOrder
<1>2. IInv /\ Order /\ [Next]_vars => (IInv /\ Order)'
  BY StepInv, StepOrder
<1>3. IInv /\ Order => InOrder
  BY OrderShows
<1> QED
  BY <1>1, <1>2, <1>3, PTL DEF Spec
=============================================================================
