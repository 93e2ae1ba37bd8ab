------------------------- MODULE StreamBridgeProofs -------------------------
(***************************************************************************)
(* Theorems about StreamBridge, for every value of the constants.          *)
(* First what a channel of frames carries (the sums of StreamFrames when   *)
(* frames are appended or taken) and the operators of the two stream       *)
(* classes (S and C), one by one.  Then the inductive invariant IInv of    *)
(* the bridge, and the law of a turn: a turn says some frames e and takes  *)
(* some frames t, none or one, and the law relates e and t to what the     *)
(* turn does to the stream.  A turn that obeys it keeps IInv, whichever    *)
(* handler it ran.  Then every action: each is a turn that obeys the law,  *)
(* or the loss of the link.  From IInv follow the type invariant, the      *)
(* discipline of the channels, that no end gives up behind the other's     *)
(* back, the bounds on the buffers, and that each direction implements     *)
(* CreditWindow.                                                           *)
(***************************************************************************)
EXTENDS StreamBridge, SequenceTheorems, WellFoundedInduction, TLAPS

-----------------------------------------------------------------------------
\* What a channel of frames carries, for channels of any length.  SumOf is a
\* recursive function, and the library states induction over an operator: here
\* a first number that fails is the least of a set, which WFMin provides.

\* A set of numbers has a least one.
LEMMA LeastNumber ==
  ASSUME NEW T \in SUBSET Nat, T # {}
  PROVE  \E m \in T : \A n \in T : m <= n
<1> DEFINE R == OpToRel(<, Nat)
<1>1. IsWellFoundedOn(R, Nat)
  BY NatLessThanWellFounded
<1>2. R = {ss \in Nat \X Nat : ss[1] < ss[2]}
  BY DEF OpToRel
<1> HIDE DEF R
<1>3. PICK x \in T : \A y \in T : ~ (<<y, x>> \in R)
  BY <1>1, WFMin
<1>4. \A y \in T : ~(y < x)
  BY <1>2, <1>3
<1>5. \A y \in T : y \in Int /\ x \in Int
  OBVIOUS
<1> QED
  BY <1>4, <1>5

\* Induction along a finite range, over a set.
LEMMA Induction ==
  ASSUME NEW n \in Nat, NEW T, 0 \in T, \A k \in 1..n : k - 1 \in T => k \in T
  PROVE  \A k \in 0..n : k \in T
<1> DEFINE F == {k \in 0..n : k \notin T}
<1> SUFFICES ASSUME F # {} PROVE FALSE
  OBVIOUS
<1>1. F \in SUBSET Nat
  OBVIOUS
<1>2. PICK m \in F : \A k \in F : m <= k
  BY <1>1, LeastNumber
<1>3. m \in 1..n /\ m - 1 \in 0..n /\ ~(m <= m - 1)
  OBVIOUS
<1>4. m - 1 \in T
  BY <1>2, <1>3
<1> QED
  BY <1>3, <1>4

Iteration(g, A, a, n, G) ==
    /\ g \in [0..n -> A]
    /\ g[0] = a
    /\ \A i \in 1..n : g[i] = G[i][g[i - 1]]

\* Primitive recursion along a finite range.
LEMMA Iterates ==
  ASSUME NEW A, NEW a \in A, NEW n \in Nat, NEW G \in [1..n -> [A -> A]]
  PROVE  \E g : Iteration(g, A, a, n, G)
<1> DEFINE Good(k) == \E g \in [0..k -> A] :
                         g[0] = a /\ \A i \in 1..k : g[i] = G[i][g[i - 1]]
           T == {k \in 0..n : Good(k)}
<1>1. Good(0)
  <2> DEFINE g == [i \in 0..0 |-> a]
  <2>1. g \in [0..0 -> A] /\ g[0] = a /\ \A i \in 1..0 : g[i] = G[i][g[i - 1]]
    OBVIOUS
  <2> QED BY <2>1
<1>2. ASSUME NEW k \in 1..n, Good(k - 1)
      PROVE  Good(k)
  <2>1. PICK g \in [0..(k - 1) -> A] :
          g[0] = a /\ \A i \in 1..(k - 1) : g[i] = G[i][g[i - 1]]
    BY <1>2
  <2> DEFINE e == G[k][g[k - 1]]
             h == [i \in 0..k |-> IF i = k THEN e ELSE g[i]]
  <2>2. k - 1 \in 0..(k - 1) /\ g[k - 1] \in A
    OBVIOUS
  <2>3. G[k] \in [A -> A]
    OBVIOUS
  <2>4. e \in A
    BY <2>2, <2>3
  <2> HIDE DEF e
  <2>5. h \in [0..k -> A]
    BY <2>4
  <2>6. h[0] = a
    BY <2>1
  <2>7. ASSUME NEW i \in 1..k PROVE h[i] = G[i][h[i - 1]]
    <3>1. CASE i = k
      BY <3>1 DEF e
    <3>2. CASE i # k
      BY <3>2, <2>1
    <3> QED BY <3>1, <3>2
  <2> HIDE DEF h
  <2> QED BY <2>5, <2>6, <2>7
<1> HIDE DEF Good
<1>3. 0 \in T /\ \A k \in 1..n : k - 1 \in T => k \in T
  BY <1>1, <1>2
<1> HIDE DEF T
<1>4. n \in T
  <2>1. \A k \in 0..n : k \in T
    BY <1>3, Induction
  <2> QED
    BY <2>1
<1> QED
  BY <1>4 DEF Good, T, Iteration

\* SumOf adds its counts up one by one.
LEMMA SumUpTo ==
  ASSUME NEW ns \in Seq(Int)
  PROVE  \E g \in [0..Len(ns) -> Int] :
           /\ g[0] = 0
           /\ \A i \in 1..Len(ns) : g[i] = g[i - 1] + ns[i]
           /\ SumOf(ns) = g[Len(ns)]
<1> DEFINE n == Len(ns)
           f == CHOOSE f : f = [i \in 0..n |-> IF i = 0 THEN 0 ELSE f[i - 1] + ns[i]]
           G == [i \in 1..n |-> [s \in Int |-> s + ns[i]]]
<1>1. n \in Nat /\ \A i \in 1..n : ns[i] \in Int
  OBVIOUS
<1>2. G \in [1..n -> [Int -> Int]]
  BY <1>1
<1>3. \A i \in 1..n : \A s \in Int : G[i][s] = s + ns[i]
  OBVIOUS
<1> HIDE DEF n, G
<1>4. PICK g : Iteration(g, Int, 0, n, G)
  <2>1. 0 \in Int
    OBVIOUS
  <2> QED
    BY ONLY <1>1, <1>2, <2>1, Iterates
<1>4a. \A i \in 1..n : g[i] = g[i - 1] + ns[i]
  <2> TAKE i \in 1..n
  <2>1. i - 1 \in 0..n
    BY <1>1
  <2> QED
    BY <2>1, <1>3, <1>4 DEF Iteration
<1>5. g = [i \in 0..n |-> IF i = 0 THEN 0 ELSE g[i - 1] + ns[i]]
  <2> DEFINE h == [i \in 0..n |-> IF i = 0 THEN 0 ELSE g[i - 1] + ns[i]]
  <2>1. \A i \in 0..n : h[i] = g[i]
    BY <1>1, <1>4, <1>4a DEF Iteration
  <2>2. DOMAIN g = 0..n /\ DOMAIN h = 0..n
    BY <1>4 DEF Iteration
  <2>3. g = [i \in 0..n |-> g[i]]
    BY <1>4 DEF Iteration
  <2> QED BY <2>1, <2>2, <2>3
<1>6. f = [i \in 0..n |-> IF i = 0 THEN 0 ELSE f[i - 1] + ns[i]]
  BY <1>5
<1>7. SumOf(ns) = f[n]
  BY DEF SumOf, n
<1> HIDE DEF f
<1>8. f[0] = 0 /\ \A i \in 1..n : f[i] = f[i - 1] + ns[i]
  <2>1. f[0] = 0
    BY <1>1, <1>6
  <2>2. ASSUME NEW i \in 1..n PROVE f[i] = f[i - 1] + ns[i]
    BY <1>1, <1>6
  <2> QED
    BY <2>1, <2>2
<1>9. \A i \in 0..n : f[i] \in Int
  <2> DEFINE T == {j \in 0..n : f[j] \in Int}
  <2>1. 0 \in T
    BY <1>1, <1>8
  <2>2. ASSUME NEW k \in 1..n, k - 1 \in T PROVE k \in T
    <3>1. k \in 0..n /\ f[k - 1] \in Int /\ ns[k] \in Int
      BY <1>1, <2>2
    <3> QED
      BY <3>1, <1>8
  <2> HIDE DEF T
  <2>3. \A i \in 0..n : i \in T
    BY <1>1, <2>1, <2>2, Induction
  <2> QED
    BY <2>3 DEF T
<1>10. f \in [0..n -> Int]
  BY <1>6, <1>9
<1> QED BY <1>7, <1>8, <1>10 DEF n

-----------------------------------------------------------------------------
\* Sums.

\* No counts sum to nothing,
LEMMA SumEmpty == SumOf(<<>>) = 0
<1>1. <<>> \in Seq(Int) /\ Len(<<>>) = 0
  OBVIOUS
<1> QED
  BY <1>1, SumUpTo

\* one to itself,
LEMMA SumOne ==
  ASSUME NEW x \in Int
  PROVE  SumOf(<<x>>) = x
<1>1. <<x>> \in Seq(Int) /\ Len(<<x>>) = 1 /\ <<x>>[1] = x
  OBVIOUS
<1>2. PICK g \in [0..1 -> Int] : /\ g[0] = 0
                                 /\ \A i \in 1..1 : g[i] = g[i - 1] + <<x>>[i]
                                 /\ SumOf(<<x>>) = g[1]
  BY <1>1, SumUpTo
<1>3. 1 \in 1..1 /\ 1 - 1 = 0
  OBVIOUS
<1> QED
  BY <1>1, <1>2, <1>3

\* and those of two pieces to the sum of their sums.
LEMMA SumPieces ==
  ASSUME NEW ns \in Seq(Int), NEW ms \in Seq(Int), NEW all \in Seq(Int),
         Len(all) = Len(ns) + Len(ms),
         \A i \in 1..Len(ns) : all[i] = ns[i],
         \A i \in 1..Len(ms) : all[Len(ns) + i] = ms[i]
  PROVE  SumOf(all) = SumOf(ns) + SumOf(ms)
<1> DEFINE n == Len(ns)
           m == Len(ms)
<1>1. /\ n \in Nat /\ m \in Nat
      /\ Len(all) = n + m
      /\ \A i \in 1..n : all[i] = ns[i]
      /\ \A i \in 1..m : all[n + i] = ms[i]
      /\ \A i \in 1..m : ms[i] \in Int
  OBVIOUS
<1>2. PICK f \in [0..n -> Int] : /\ f[0] = 0
                                 /\ \A i \in 1..n : f[i] = f[i - 1] + ns[i]
                                 /\ SumOf(ns) = f[n]
  BY SumUpTo
<1>3. PICK g \in [0..m -> Int] : /\ g[0] = 0
                                 /\ \A i \in 1..m : g[i] = g[i - 1] + ms[i]
                                 /\ SumOf(ms) = g[m]
  BY SumUpTo
<1>4. PICK h \in [0..(n + m) -> Int] :
         /\ h[0] = 0
         /\ \A i \in 1..(n + m) : h[i] = h[i - 1] + all[i]
         /\ SumOf(all) = h[n + m]
  <2> HIDE DEF n, m
  <2> QED
    BY <1>1, SumUpTo
<1> HIDE DEF n, m
<1>5. h[n] = f[n]
  <2> DEFINE T == {k \in 0..n : h[k] = f[k]}
  <2>1. 0 \in T
    BY <1>1, <1>2, <1>4
  <2>2. ASSUME NEW k \in 1..n, k - 1 \in T PROVE k \in T
    <3>1. k \in 0..n /\ k \in 1..(n + m) /\ h[k - 1] = f[k - 1]
      BY <1>1, <2>2
    <3>2. h[k] = h[k - 1] + all[k] /\ f[k] = f[k - 1] + ns[k] /\ all[k] = ns[k]
      BY <3>1, <1>1, <1>2, <1>4
    <3> QED
      BY <3>1, <3>2
  <2> HIDE DEF T
  <2>3. n \in T
    <3>1. n \in 0..n
      BY <1>1
    <3>2. \A k \in 0..n : k \in T
      BY <1>1, <2>1, <2>2, Induction
    <3> QED
      BY <3>1, <3>2
  <2> QED
    BY <2>3 DEF T
<1>6. h[n + m] = f[n] + g[m]
  <2> DEFINE T == {k \in 0..m : h[n + k] = f[n] + g[k]}
  <2>1. 0 \in T
    <3>1. f[n] \in Int /\ n + 0 = n /\ 0 \in 0..m
      BY <1>1
    <3> QED
      BY <3>1, <1>3, <1>5
  <2>2. ASSUME NEW k \in 1..m, k - 1 \in T PROVE k \in T
    <3>1. /\ k \in 0..m /\ k - 1 \in 0..m
          /\ n + k \in 1..(n + m) /\ (n + k) - 1 = n + (k - 1)
          /\ h[n + (k - 1)] = f[n] + g[k - 1]
      BY <1>1, <2>2
    <3>2. f[n] \in Int /\ g[k - 1] \in Int /\ ms[k] \in Int
      BY <1>1, <3>1
    <3>3. h[n + k] = h[n + (k - 1)] + ms[k]
      BY <3>1, <1>1, <1>4
    <3>4. g[k] = g[k - 1] + ms[k]
      BY <1>3
    <3>5. h[n + k] = f[n] + g[k]
      BY ONLY <3>1, <3>2, <3>3, <3>4
    <3> QED
      BY <3>1, <3>5
  <2> HIDE DEF T
  <2>3. m \in T
    <3>1. m \in 0..m
      BY <1>1
    <3>2. \A k \in 0..m : k \in T
      BY <1>1, <2>1, <2>2, Induction
    <3> QED
      BY <3>1, <3>2
  <2> QED
    BY <2>3 DEF T
<1> QED
  BY <1>2, <1>3, <1>4, <1>6

\* Counts are not negative, and none is larger than their sum.
LEMMA SumBounds ==
  ASSUME NEW ns \in Seq(Nat)
  PROVE  SumOf(ns) \in Nat /\ \A i \in 1..Len(ns) : ns[i] <= SumOf(ns)
<1> DEFINE n == Len(ns)
<1>1. n \in Nat /\ ns \in Seq(Int) /\ \A i \in 1..n : ns[i] \in Nat
  OBVIOUS
<1>2. PICK f \in [0..n -> Int] : /\ f[0] = 0
                                 /\ \A i \in 1..n : f[i] = f[i - 1] + ns[i]
                                 /\ SumOf(ns) = f[n]
  BY <1>1, SumUpTo
<1> HIDE DEF n
<1> DEFINE T == {k \in 0..n : f[k] >= 0 /\ \A i \in 1..k : ns[i] <= f[k]}
<1>3. 0 \in T
  BY <1>1, <1>2
<1>4. ASSUME NEW k \in 1..n, k - 1 \in T PROVE k \in T
  <2>1. /\ k \in 0..n /\ k - 1 \in 0..n
        /\ f[k - 1] >= 0 /\ \A i \in 1..(k - 1) : ns[i] <= f[k - 1]
    BY <1>1, <1>4
  <2>2. f[k] = f[k - 1] + ns[k] /\ f[k - 1] \in Int /\ ns[k] \in Nat /\ f[k] \in Int
    BY <1>1, <1>2, <2>1
  <2>3. ASSUME NEW i \in 1..k PROVE ns[i] <= f[k]
    <3>1. CASE i = k
      BY <3>1, <2>1, <2>2
    <3>2. CASE i # k
      <4>1. i \in 1..(k - 1) /\ i \in 1..n
        BY <1>1, <3>2
      <4>2. ns[i] \in Nat /\ ns[i] <= f[k - 1]
        BY <4>1, <1>1, <2>1
      <4> QED
        BY ONLY <4>2, <2>2
    <3> QED
      BY <3>1, <3>2
  <2> QED
    BY <2>1, <2>2, <2>3
<1> HIDE DEF T
<1>5. n \in T
  <2>1. n \in 0..n
    BY <1>1
  <2>2. \A k \in 0..n : k \in T
    BY <1>1, <1>3, <1>4, Induction
  <2> QED
    BY <2>1, <2>2
<1> QED
  BY <1>1, <1>2, <1>5 DEF T, n

-----------------------------------------------------------------------------
\* Channels.

\* Frames as the two ends build them: no handler sends an empty STREAM_DATA,
\* nor acknowledges nothing.
SomeFrame(B) ==
    [type : {"OPEN", "EOF", "RESET"}]
      \cup [type : {"DATA"}, data : Seq(B) \ {<<>>}]
      \cup [type : {"ACK"}, n : Nat \ {0}]

\* What a frame counts as, by its type.
LEMMA FrameKinds ==
  ASSUME NEW B, NEW f \in SomeFrame(B)
  PROVE  /\ f.type \in {"OPEN", "DATA", "EOF", "ACK", "RESET"}
         /\ f.type = "DATA" => /\ f.data \in Seq(B) /\ f.data # <<>>
                               /\ DataOf(f) = Len(f.data) /\ Len(f.data) \in Nat \ {0}
         /\ f.type # "DATA" => DataOf(f) = 0
         /\ f.type = "ACK" => f.n \in Nat \ {0} /\ AckOf(f) = f.n
         /\ f.type # "ACK" => AckOf(f) = 0
         /\ DataOf(f) \in Nat
         /\ AckOf(f) \in Nat
<1>1. /\ f.type \in {"OPEN", "DATA", "EOF", "ACK", "RESET"}
      /\ f.type = "DATA" => f.data \in Seq(B) /\ f.data # <<>>
      /\ f.type = "ACK" => f.n \in Nat \ {0}
  BY DEF SomeFrame
<1>2. f.type = "DATA" => Len(f.data) \in Nat \ {0}
  <2>1. \A s \in Seq(B) : s # <<>> => Len(s) \in Nat \ {0}
    OBVIOUS
  <2> QED
    BY <1>1, <2>1
<1>3. DataOf(f) = IF f.type = "DATA" THEN Len(f.data) ELSE 0
  BY DEF DataOf
<1>4. AckOf(f) = IF f.type = "ACK" THEN f.n ELSE 0
  BY DEF AckOf
<1> QED
  BY <1>1, <1>2, <1>3, <1>4

\* The frames the two classes build are frames.
LEMMA BuiltFrames ==
  ASSUME NEW B
  PROVE  /\ OpenFrame \in SomeFrame(B) /\ OpenFrame.type = "OPEN"
         /\ EofFrame \in SomeFrame(B) /\ EofFrame.type = "EOF"
         /\ ResetFrame \in SomeFrame(B) /\ ResetFrame.type = "RESET"
         /\ \A n \in Nat \ {0} : /\ AckFrame(n) \in SomeFrame(B)
                                  /\ AckFrame(n).type = "ACK"
                                  /\ AckFrame(n).n = n
         /\ \A d \in Seq(B) : /\ d # <<>> => DataFrame(d) \in SomeFrame(B)
                                  /\ DataFrame(d).type = "DATA"
                                  /\ DataFrame(d).data = d
  BY DEF SomeFrame, OpenFrame, EofFrame, ResetFrame, AckFrame, DataFrame

\* Counts are numbers.
LEMMA CountsTyped ==
  ASSUME NEW B, NEW c \in Seq(SomeFrame(B))
  PROVE  /\ [i \in DOMAIN c |-> DataOf(c[i])] \in Seq(Nat)
         /\ [i \in DOMAIN c |-> AckOf(c[i])] \in Seq(Nat)
         /\ [i \in DOMAIN c |-> DataOf(c[i])] \in Seq(Int)
         /\ [i \in DOMAIN c |-> AckOf(c[i])] \in Seq(Int)
<1> DEFINE F == SomeFrame(B)
           n == Len(c)
<1>1. n \in Nat /\ DOMAIN c = 1..n /\ \A i \in 1..n : c[i] \in F
  OBVIOUS
<1>2. \A i \in 1..n : DataOf(c[i]) \in Nat /\ AckOf(c[i]) \in Nat
  <2> TAKE i \in 1..n
  <2>1. c[i] \in SomeFrame(B)
    BY <1>1
  <2> HIDE DEF n
  <2> QED
    BY ONLY <2>1, FrameKinds
<1> HIDE DEF n, F
<1>3. /\ [i \in 1..n |-> DataOf(c[i])] \in Seq(Nat)
      /\ [i \in 1..n |-> AckOf(c[i])] \in Seq(Nat)
  BY <1>1, <1>2
<1>4. /\ [i \in 1..n |-> DataOf(c[i])] \in Seq(Int)
      /\ [i \in 1..n |-> AckOf(c[i])] \in Seq(Int)
  BY <1>1, <1>2
<1> QED
  BY <1>1, <1>3, <1>4

\* A queue is its head and its tail.
LEMMA HeadTailSplit ==
  ASSUME NEW T, NEW s \in Seq(T), s # <<>>
  PROVE  Head(s) \in T /\ Tail(s) \in Seq(T) /\ s = <<Head(s)>> \o Tail(s)
<1>1. Head(s) \in T /\ Tail(s) \in Seq(T) /\ Len(s) \in Nat \ {0} /\ Len(Tail(s)) = Len(s) - 1
  OBVIOUS
<1>2. <<Head(s)>> \o Tail(s) \in Seq(T) /\ Len(<<Head(s)>> \o Tail(s)) = Len(s)
  BY <1>1
<1>3. \A i \in 1..Len(s) : (<<Head(s)>> \o Tail(s))[i] = s[i]
  BY <1>1
<1> QED
  BY <1>2, <1>3

\* An empty channel carries nothing.
LEMMA EmptySeen ==
  TypesIn(<<>>) = {} /\ DataIn(<<>>) = 0 /\ AcksIn(<<>>) = 0
<1>1. /\ [i \in DOMAIN <<>> |-> DataOf(<<>>[i])] = <<>>
      /\ [i \in DOMAIN <<>> |-> AckOf(<<>>[i])] = <<>>
  OBVIOUS
<1> QED
  BY <1>1, SumEmpty DEF TypesIn, DataIn, AcksIn

\* Two channels one after the other carry what both do.
LEMMA ConcatSeen ==
  ASSUME NEW B, NEW c \in Seq(SomeFrame(B)), NEW d \in Seq(SomeFrame(B))
  PROVE  /\ c \o d \in Seq(SomeFrame(B))
         /\ TypesIn(c \o d) = TypesIn(c) \cup TypesIn(d)
         /\ DataIn(c \o d) = DataIn(c) + DataIn(d)
         /\ AcksIn(c \o d) = AcksIn(c) + AcksIn(d)
<1> DEFINE F == SomeFrame(B)
           n == Len(c)
           m == Len(d)
           all == c \o d
<1>1. /\ n \in Nat /\ m \in Nat
      /\ DOMAIN c = 1..n /\ DOMAIN d = 1..m
      /\ all \in Seq(F) /\ DOMAIN all = 1..(n + m)
      /\ \A i \in 1..n : all[i] = c[i]
      /\ \A i \in 1..m : all[n + i] = d[i]
  OBVIOUS
<1> HIDE DEF n, m, all, F
<1>2. \A i \in 1..(n + m) : i \in 1..n \/ (i - n \in 1..m /\ n + (i - n) = i)
  BY <1>1
<1>3. TypesIn(all) = TypesIn(c) \cup TypesIn(d)
  <2>1. ASSUME NEW t \in TypesIn(all) PROVE t \in TypesIn(c) \cup TypesIn(d)
    <3>1. PICK i \in 1..(n + m) : t = all[i].type
      BY <2>1, <1>1 DEF TypesIn
    <3>2. CASE i \in 1..n
      BY <3>1, <3>2, <1>1 DEF TypesIn
    <3>3. CASE i - n \in 1..m /\ n + (i - n) = i
      <4>1. all[i] = d[i - n]
        BY <3>3, <1>1
      <4> QED
        BY <3>1, <3>3, <4>1, <1>1 DEF TypesIn
    <3> QED
      BY <3>2, <3>3, <1>2
  <2>2. ASSUME NEW t \in TypesIn(c) PROVE t \in TypesIn(all)
    <3>1. PICK i \in 1..n : t = c[i].type
      BY <2>2, <1>1 DEF TypesIn
    <3>2. i \in 1..(n + m)
      BY <1>1
    <3> QED
      BY <3>1, <3>2, <1>1 DEF TypesIn
  <2>3. ASSUME NEW t \in TypesIn(d) PROVE t \in TypesIn(all)
    <3>1. PICK i \in 1..m : t = d[i].type
      BY <2>3, <1>1 DEF TypesIn
    <3>2. n + i \in 1..(n + m)
      BY <1>1
    <3> QED
      BY <3>1, <3>2, <1>1 DEF TypesIn
  <2> QED
    BY <2>1, <2>2, <2>3
<1>4. ASSUME NEW G \in Seq(Int), NEW H \in Seq(Int), NEW K \in Seq(Int),
             G = [i \in 1..n |-> DataOf(c[i])], H = [i \in 1..m |-> DataOf(d[i])],
             K = [i \in 1..(n + m) |-> DataOf(all[i])]
      PROVE  SumOf(K) = SumOf(G) + SumOf(H)
  <2>1. Len(G) = n /\ Len(H) = m /\ Len(K) = n + m
    BY <1>1, <1>4
  <2>2. \A i \in 1..Len(G) : K[i] = G[i]
    BY <1>1, <1>4, <2>1
  <2>3. \A i \in 1..Len(H) : K[Len(G) + i] = H[i]
    BY <1>1, <1>4, <2>1
  <2> QED
    BY <2>1, <2>2, <2>3, SumPieces
<1>5. ASSUME NEW G \in Seq(Int), NEW H \in Seq(Int), NEW K \in Seq(Int),
             G = [i \in 1..n |-> AckOf(c[i])], H = [i \in 1..m |-> AckOf(d[i])],
             K = [i \in 1..(n + m) |-> AckOf(all[i])]
      PROVE  SumOf(K) = SumOf(G) + SumOf(H)
  <2>1. Len(G) = n /\ Len(H) = m /\ Len(K) = n + m
    BY <1>1, <1>5
  <2>2. \A i \in 1..Len(G) : K[i] = G[i]
    BY <1>1, <1>5, <2>1
  <2>3. \A i \in 1..Len(H) : K[Len(G) + i] = H[i]
    BY <1>1, <1>5, <2>1
  <2> QED
    BY <2>1, <2>2, <2>3, SumPieces
<1>6. DataIn(all) = DataIn(c) + DataIn(d)
  <2>1. /\ [i \in DOMAIN c |-> DataOf(c[i])] \in Seq(Int)
        /\ [i \in DOMAIN d |-> DataOf(d[i])] \in Seq(Int)
        /\ [i \in DOMAIN all |-> DataOf(all[i])] \in Seq(Int)
    BY <1>1, CountsTyped DEF F
  <2> QED
    BY <1>1, <1>4, <2>1 DEF DataIn
<1>7. AcksIn(all) = AcksIn(c) + AcksIn(d)
  <2>1. /\ [i \in DOMAIN c |-> AckOf(c[i])] \in Seq(Int)
        /\ [i \in DOMAIN d |-> AckOf(d[i])] \in Seq(Int)
        /\ [i \in DOMAIN all |-> AckOf(all[i])] \in Seq(Int)
    BY <1>1, CountsTyped DEF F
  <2> QED
    BY <1>1, <1>5, <2>1 DEF AcksIn
<1> QED
  BY <1>1, <1>3, <1>6, <1>7 DEF F, all

\* One frame carries what it says.
LEMMA OneSeen ==
  ASSUME NEW B, NEW f \in SomeFrame(B)
  PROVE  /\ <<f>> \in Seq(SomeFrame(B))
         /\ TypesIn(<<f>>) = {f.type}
         /\ DataIn(<<f>>) = DataOf(f)
         /\ AcksIn(<<f>>) = AckOf(f)
<1>1. DOMAIN <<f>> = 1..1 /\ <<f>>[1] = f
  OBVIOUS
<1>2. /\ [i \in DOMAIN <<f>> |-> DataOf(<<f>>[i])] = <<DataOf(f)>>
      /\ [i \in DOMAIN <<f>> |-> AckOf(<<f>>[i])] = <<AckOf(f)>>
  BY <1>1
<1>3. DataOf(f) \in Int /\ AckOf(f) \in Int
  BY FrameKinds
<1>4. SumOf(<<DataOf(f)>>) = DataOf(f) /\ SumOf(<<AckOf(f)>>) = AckOf(f)
  BY <1>3, SumOne
<1>5. TypesIn(<<f>>) = {f.type}
  BY <1>1 DEF TypesIn
<1> QED
  BY <1>2, <1>4, <1>5 DEF DataIn, AcksIn

\* One more frame.
LEMMA SentSeen ==
  ASSUME NEW B, NEW c \in Seq(SomeFrame(B)), NEW f \in SomeFrame(B)
  PROVE  /\ c \o <<f>> \in Seq(SomeFrame(B))
         /\ TypesIn(c \o <<f>>) = TypesIn(c) \cup {f.type}
         /\ DataIn(c \o <<f>>) = DataIn(c) + DataOf(f)
         /\ AcksIn(c \o <<f>>) = AcksIn(c) + AckOf(f)
<1>1. /\ <<f>> \in Seq(SomeFrame(B))
      /\ TypesIn(<<f>>) = {f.type} /\ DataIn(<<f>>) = DataOf(f) /\ AcksIn(<<f>>) = AckOf(f)
  BY OneSeen
<1>2. /\ c \o <<f>> \in Seq(SomeFrame(B))
      /\ TypesIn(c \o <<f>>) = TypesIn(c) \cup TypesIn(<<f>>)
      /\ DataIn(c \o <<f>>) = DataIn(c) + DataIn(<<f>>)
      /\ AcksIn(c \o <<f>>) = AcksIn(c) + AcksIn(<<f>>)
  BY <1>1, ConcatSeen
<1> QED
  BY <1>1, <1>2

\* One frame less.
LEMMA TakenSeen ==
  ASSUME NEW B, NEW c \in Seq(SomeFrame(B)), c # <<>>
  PROVE  /\ Head(c) \in SomeFrame(B)
         /\ Tail(c) \in Seq(SomeFrame(B))
         /\ TypesIn(c) = {Head(c).type} \cup TypesIn(Tail(c))
         /\ DataIn(c) = DataOf(Head(c)) + DataIn(Tail(c))
         /\ AcksIn(c) = AckOf(Head(c)) + AcksIn(Tail(c))
<1> DEFINE F == SomeFrame(B)
<1>1. \A T : \A s \in Seq(T) : s # <<>> =>
         Head(s) \in T /\ Tail(s) \in Seq(T) /\ s = <<Head(s)>> \o Tail(s)
  BY HeadTailSplit
<1> HIDE DEF F
<1>2. Head(c) \in F /\ Tail(c) \in Seq(F) /\ c = <<Head(c)>> \o Tail(c)
  BY <1>1 DEF F
<1>3. <<Head(c)>> \in Seq(F)
  BY <1>2
<1>4. /\ TypesIn(<<Head(c)>>) = {Head(c).type}
      /\ DataIn(<<Head(c)>>) = DataOf(Head(c))
      /\ AcksIn(<<Head(c)>>) = AckOf(Head(c))
  BY <1>2, OneSeen DEF F
<1>5. /\ TypesIn(<<Head(c)>> \o Tail(c)) = TypesIn(<<Head(c)>>) \cup TypesIn(Tail(c))
      /\ DataIn(<<Head(c)>> \o Tail(c)) = DataIn(<<Head(c)>>) + DataIn(Tail(c))
      /\ AcksIn(<<Head(c)>> \o Tail(c)) = AcksIn(<<Head(c)>>) + AcksIn(Tail(c))
  BY <1>2, <1>3, ConcatSeen DEF F
<1> QED
  BY <1>2, <1>4, <1>5 DEF F

\* No count in a channel is larger than what the channel carries.
LEMMA CountsBounded ==
  ASSUME NEW B, NEW c \in Seq(SomeFrame(B))
  PROVE  /\ DataIn(c) \in Nat
         /\ AcksIn(c) \in Nat
         /\ \A i \in DOMAIN c : c[i].type = "ACK" => c[i].n <= AcksIn(c)
<1>1. DataIn(c) \in Nat
  BY CountsTyped, SumBounds DEF DataIn
<1>2. /\ AcksIn(c) \in Nat
      /\ \A i \in DOMAIN c : AckOf(c[i]) <= AcksIn(c)
  <2> DEFINE ns == [i \in DOMAIN c |-> AckOf(c[i])]
  <2>1. ns \in Seq(Nat)
    BY CountsTyped
  <2>2. DOMAIN c = 1..Len(ns) /\ \A i \in DOMAIN c : ns[i] = AckOf(c[i])
    BY <2>1
  <2>3. AcksIn(c) = SumOf(ns)
    BY DEF AcksIn
  <2> HIDE DEF ns
  <2> QED
    BY <2>1, <2>2, <2>3, SumBounds
<1> QED
  BY <1>1, <1>2 DEF AckOf

-----------------------------------------------------------------------------
\* The instances.

\* The operators of NodeSocket and StreamFrames are the same ones in the two
\* instances.
LEMMA SameOperators ==
  ASSUME NEW s, NEW b
  PROVE  /\ S!Write(s, b) = Write(s, b) /\ C!Write(s, b) = Write(s, b)
         /\ S!Pause(s) = Pause(s) /\ C!Pause(s) = Pause(s)
         /\ S!Resume(s) = Resume(s) /\ C!Resume(s) = Resume(s)
         /\ S!DestroySocket(s) = DestroySocket(s) /\ C!DestroySocket(s) = DestroySocket(s)
         /\ S!EndWrite(s) = EndWrite(s) /\ C!EndWrite(s) = EndWrite(s)
         /\ S!Flushed(s) = Flushed(s) /\ C!Flushed(s) = Flushed(s)
         /\ S!TakeData(s, b) = TakeData(s, b) /\ C!TakeData(s, b) = TakeData(s, b)
         /\ S!EmitEnd(s) = EmitEnd(s) /\ C!EmitEnd(s) = EmitEnd(s)
         /\ S!Drained(s) = Drained(s) /\ C!Drained(s) = Drained(s)
         /\ S!FlushByte(s) = FlushByte(s) /\ C!FlushByte(s) = FlushByte(s)
         /\ S!DataFrame(b) = DataFrame(b) /\ C!DataFrame(b) = DataFrame(b)
         /\ S!AckFrame(b) = AckFrame(b) /\ C!AckFrame(b) = AckFrame(b)
         /\ S!OpenFrame = OpenFrame /\ S!EofFrame = EofFrame /\ S!ResetFrame = ResetFrame
         /\ C!EofFrame = EofFrame /\ C!ResetFrame = ResetFrame
         /\ S!NewSocket = NewSocket /\ C!NewSocket = NewSocket
<1>1. S!Write(s, b) = Write(s, b) /\ C!Write(s, b) = Write(s, b)
  BY DEF Write, S!Write, C!Write, Fail, S!Fail, C!Fail,
         DestroySocket, S!DestroySocket, C!DestroySocket
<1>2. /\ S!Pause(s) = Pause(s) /\ C!Pause(s) = Pause(s)
      /\ S!Resume(s) = Resume(s) /\ C!Resume(s) = Resume(s)
      /\ S!DestroySocket(s) = DestroySocket(s) /\ C!DestroySocket(s) = DestroySocket(s)
      /\ S!EndWrite(s) = EndWrite(s) /\ C!EndWrite(s) = EndWrite(s)
  BY DEF Pause, S!Pause, C!Pause, Resume, S!Resume, C!Resume,
         DestroySocket, S!DestroySocket, C!DestroySocket, EndWrite, S!EndWrite, C!EndWrite
<1>3. /\ S!Flushed(s) = Flushed(s) /\ C!Flushed(s) = Flushed(s)
      /\ S!TakeData(s, b) = TakeData(s, b) /\ C!TakeData(s, b) = TakeData(s, b)
      /\ S!EmitEnd(s) = EmitEnd(s) /\ C!EmitEnd(s) = EmitEnd(s)
      /\ S!Drained(s) = Drained(s) /\ C!Drained(s) = Drained(s)
      /\ S!FlushByte(s) = FlushByte(s) /\ C!FlushByte(s) = FlushByte(s)
  BY DEF Flushed, S!Flushed, C!Flushed, TakeData, S!TakeData, C!TakeData,
         EmitEnd, S!EmitEnd, C!EmitEnd, Drained, S!Drained, C!Drained,
         FlushByte, S!FlushByte, C!FlushByte
<1>4. /\ S!DataFrame(b) = DataFrame(b) /\ C!DataFrame(b) = DataFrame(b)
      /\ S!AckFrame(b) = AckFrame(b) /\ C!AckFrame(b) = AckFrame(b)
      /\ S!OpenFrame = OpenFrame /\ S!EofFrame = EofFrame /\ S!ResetFrame = ResetFrame
      /\ C!EofFrame = EofFrame /\ C!ResetFrame = ResetFrame
      /\ S!NewSocket = NewSocket /\ C!NewSocket = NewSocket
  BY DEF DataFrame, S!DataFrame, C!DataFrame, AckFrame, S!AckFrame, C!AckFrame,
         OpenFrame, S!OpenFrame, EofFrame, S!EofFrame, C!EofFrame,
         ResetFrame, S!ResetFrame, C!ResetFrame, NewSocket, S!NewSocket, C!NewSocket
<1> QED
  BY <1>1, <1>2, <1>3, <1>4

-----------------------------------------------------------------------------
\* Sockets.

\* What the calls on a socket leave of it, as far as the streams care.
Shrunk(t, s) == /\ t.readEnded = s.readEnded
                /\ Len(t.inq) <= Len(s.inq)
                /\ t.flowing => s.flowing

\* The parts of a socket have the types of its parts.
LEMMA SocketTyped ==
  ASSUME NEW B, NEW s \in Socket(B)
  PROVE  /\ s.inq \in Seq(B) /\ Len(s.inq) \in Nat
         /\ s.out \in Seq(B) /\ Len(s.out) \in Nat
         /\ s.flowing \in BOOLEAN /\ s.readEnded \in BOOLEAN
  BY DEF Socket

\* pause() and resume() change whether the socket emits, nothing else.
LEMMA PauseResume ==
  ASSUME NEW B, NEW s \in Socket(B)
  PROVE  /\ Pause(s) \in Socket(B) /\ Shrunk(Pause(s), s)
         /\ ~Pause(s).flowing /\ Pause(s).out = s.out /\ Pause(s).inq = s.inq
         /\ Resume(s) \in Socket(B)
         /\ Resume(s).flowing /\ Resume(s).out = s.out /\ Resume(s).inq = s.inq
         /\ Resume(s).readEnded = s.readEnded
<1>1. Pause(s) \in Socket(B) /\ Resume(s) \in Socket(B)
  BY DEF Socket, Pause, Resume
<1>2. /\ ~Pause(s).flowing /\ Pause(s).out = s.out
      /\ Pause(s).inq = s.inq /\ Pause(s).readEnded = s.readEnded
  BY DEF Socket, Pause
<1>3. /\ Resume(s).flowing /\ Resume(s).out = s.out
      /\ Resume(s).inq = s.inq /\ Resume(s).readEnded = s.readEnded
  BY DEF Socket, Resume
<1> QED
  BY <1>1, <1>2, <1>3, SocketTyped DEF Shrunk

\* destroy() and what it leaves of the buffers.
LEMMA SocketDestroyed ==
  ASSUME NEW B, NEW s \in Socket(B)
  PROVE  /\ DestroySocket(s) \in Socket(B) /\ Shrunk(DestroySocket(s), s)
         /\ DestroySocket(s).out = <<>> /\ ~DestroySocket(s).flowing
         /\ Fail(s) \in Socket(B) /\ Shrunk(Fail(s), s)
         /\ Fail(s).out = <<>> /\ ~Fail(s).flowing
<1>0. <<>> \in Seq(B)
  OBVIOUS
<1>1. /\ DestroySocket(s) \in Socket(B)
      /\ DestroySocket(s).readEnded = s.readEnded
      /\ DestroySocket(s).inq = <<>> /\ DestroySocket(s).out = <<>>
      /\ ~DestroySocket(s).flowing
  <2>1. DestroySocket(s) \in Socket(B)
    BY <1>0 DEF Socket, DestroySocket
  <2>2. /\ DestroySocket(s).readEnded = s.readEnded
        /\ DestroySocket(s).inq = <<>> /\ DestroySocket(s).out = <<>>
    BY DEF Socket, DestroySocket
  <2>3. ~DestroySocket(s).flowing
    BY DEF Socket, DestroySocket
  <2> QED
    BY <2>1, <2>2, <2>3
<1>2. /\ Fail(s) \in Socket(B)
      /\ Fail(s).readEnded = s.readEnded
      /\ Fail(s).inq = <<>> /\ Fail(s).out = <<>>
      /\ ~Fail(s).flowing
  BY <1>1 DEF Socket, Fail
<1>3. Len(s.inq) \in Nat /\ Len(<<>>) = 0
  BY SocketTyped
<1> QED
  BY <1>1, <1>2, <1>3 DEF Shrunk

\* write() buffers what it is given, or drops it on a socket that cannot
\* send any more; a FALSE from write() is a full buffer.
LEMMA SocketWritten ==
  ASSUME NEW B, NEW s \in Socket(B), NEW b \in Seq(B)
  PROVE  /\ Write(s, b) \in Socket(B) /\ Shrunk(Write(s, b), s)
         /\ \/ Write(s, b).out = s.out \o b
            \/ Write(s, b).out = <<>>
<1>1. CASE s.ended \/ s.destroyed
  BY <1>1, SocketDestroyed DEF Write
<1>2. CASE ~(s.ended \/ s.destroyed)
  <2> DEFINE t == [s EXCEPT !.out = s.out \o b,
                            !.needDrain = @ \/ Len(s.out \o b) >= HighWater]
  <2>1. Write(s, b) = t
    BY <1>2 DEF Write
  <2>2. s.out \o b \in Seq(B) /\ (s.needDrain \/ Len(s.out \o b) >= HighWater) \in BOOLEAN
    BY SocketTyped DEF Socket
  <2>3. t \in Socket(B)
    BY <2>2 DEF Socket
  <2>4. t.out = s.out \o b /\ t.readEnded = s.readEnded /\ t.inq = s.inq /\ t.flowing = s.flowing
    BY DEF Socket
  <2> HIDE DEF t
  <2> QED
    BY <2>1, <2>3, <2>4, SocketTyped DEF Shrunk
<1> QED
  BY <1>1, <1>2

\* What the socket's own events leave of it.
LEMMA SocketEvents ==
  ASSUME NEW B, NEW s \in Socket(B)
  PROVE  /\ EndWrite(s) \in Socket(B) /\ Shrunk(EndWrite(s), s)
         /\ EndWrite(s).out = s.out
         /\ Drained(s) \in Socket(B) /\ Shrunk(Drained(s), s)
         /\ Drained(s).out = s.out
         /\ EmitEnd(s) \in Socket(B)
         /\ EmitEnd(s).inq = s.inq /\ EmitEnd(s).out = s.out
         /\ EmitEnd(s).flowing = s.flowing
         /\ [s EXCEPT !.error = FALSE] \in Socket(B)
         /\ Shrunk([s EXCEPT !.error = FALSE], s)
         /\ [s EXCEPT !.error = FALSE].out = s.out
<1>1. /\ EndWrite(s) \in Socket(B) /\ EndWrite(s).out = s.out
      /\ EndWrite(s).inq = s.inq /\ EndWrite(s).readEnded = s.readEnded
      /\ EndWrite(s).flowing = s.flowing
  BY DEF Socket, EndWrite
<1>2. /\ Drained(s) \in Socket(B) /\ Drained(s).out = s.out
      /\ Drained(s).inq = s.inq /\ Drained(s).readEnded = s.readEnded
      /\ Drained(s).flowing = s.flowing
  BY DEF Socket, Drained
<1>3. /\ EmitEnd(s) \in Socket(B) /\ EmitEnd(s).out = s.out
      /\ EmitEnd(s).inq = s.inq /\ EmitEnd(s).flowing = s.flowing
  BY DEF Socket, EmitEnd
<1>4. LET t == [s EXCEPT !.error = FALSE]
      IN  /\ t \in Socket(B) /\ t.out = s.out /\ t.inq = s.inq
          /\ t.readEnded = s.readEnded /\ t.flowing = s.flowing
  BY DEF Socket
<1> QED
  BY <1>1, <1>2, <1>3, <1>4, SocketTyped DEF Shrunk

\* A 'data' event takes what it carries from the front of the queue.
LEMMA DataTaken ==
  ASSUME NEW B, NEW s \in Socket(B), NEW k \in Nat, k <= Len(s.inq)
  PROVE  /\ TakeData(s, k) \in Socket(B)
         /\ TakeData(s, k).readEnded = s.readEnded
         /\ TakeData(s, k).flowing = s.flowing
         /\ TakeData(s, k).out = s.out
         /\ Len(TakeData(s, k).inq) = Len(s.inq) - k
         /\ SubSeq(s.inq, 1, k) \in Seq(B)
         /\ Len(SubSeq(s.inq, 1, k)) = k
<1>1. s.inq \in Seq(B) /\ Len(s.inq) \in Nat
  BY SocketTyped
<1>2. /\ SubSeq(s.inq, k + 1, Len(s.inq)) \in Seq(B)
      /\ Len(SubSeq(s.inq, k + 1, Len(s.inq))) = Len(s.inq) - k
      /\ SubSeq(s.inq, 1, k) \in Seq(B)
      /\ Len(SubSeq(s.inq, 1, k)) = k
  BY <1>1
<1> QED
  BY <1>2 DEF Socket, TakeData

\* The kernel taking a byte only shortens what is buffered.
LEMMA ByteFlushed ==
  ASSUME NEW B, NEW s \in Socket(B), s.out # <<>>
  PROVE  /\ FlushByte(s) \in Socket(B) /\ Shrunk(FlushByte(s), s)
         /\ Len(FlushByte(s).out) = Len(s.out) - 1
<1>1. s.out \in Seq(B) /\ s.got \in Seq(B) /\ Len(s.inq) \in Nat
  BY DEF Socket
<1>2. Head(s.out) \in B /\ Tail(s.out) \in Seq(B) /\ Len(Tail(s.out)) = Len(s.out) - 1
  BY <1>1
<1>3. Append(s.got, Head(s.out)) \in Seq(B)
  BY <1>1, <1>2
<1>4. FlushByte(s) \in Socket(B)
  BY <1>2, <1>3 DEF Socket, FlushByte
<1>5. /\ FlushByte(s).out = Tail(s.out) /\ FlushByte(s).inq = s.inq
      /\ FlushByte(s).readEnded = s.readEnded /\ FlushByte(s).flowing = s.flowing
  BY DEF Socket, FlushByte
<1> QED
  BY <1>1, <1>2, <1>4, <1>5 DEF Shrunk

-----------------------------------------------------------------------------
\* The server's turns.

\* The server's stream with no bounds on its counts.
SrvType == [opened : BOOLEAN, sendCredit : Int, recvUnacked : Nat,
            pausedForCredit : BOOLEAN, pausedGlobally : BOOLEAN,
            sentEof : BOOLEAN, receivedEof : BOOLEAN, finished : BOOLEAN]

\* Frames as the two classes build them: no empty STREAM_DATA, no zero ACK.
WireFrame == SomeFrame(Bytes)

\* What a handler of the server has in hand (see ServerStream): the stream, its
\* socket, and the frames said so far in this turn.
SrvTurn == [st : SrvType, sock : Socket(Bytes), sent : Seq(WireFrame)]

\* sendFrame
LEMMA SrvSend ==
  ASSUME NEW h \in SrvTurn, NEW f \in WireFrame
  PROVE  /\ S!Send(h, f) \in SrvTurn
         /\ S!Send(h, f).st = h.st
         /\ S!Send(h, f).sock = h.sock
         /\ S!Send(h, f).sent = Append(h.sent, f)
  BY DEF SrvTurn, S!Send

\* finish
LEMMA SrvFinish ==
  ASSUME NEW h \in SrvTurn
  PROVE  /\ S!Finish(h) \in SrvTurn
         /\ S!Finish(h).st = [h.st EXCEPT !.finished = TRUE]
         /\ S!Finish(h).sock = h.sock
         /\ S!Finish(h).sent = h.sent
  BY DEF SrvTurn, SrvType, S!Finish

\* destroy, of the server's class
LEMMA SrvDestroy ==
  ASSUME NEW h \in SrvTurn, NEW reason
  PROVE  LET r == S!Destroy(h, reason)
         IN  /\ h.st.finished => r = h
             /\ ~h.st.finished =>
                   /\ r \in SrvTurn
                   /\ r.st = [h.st EXCEPT !.finished = TRUE]
                   /\ r.sock = DestroySocket(h.sock)
                   /\ r.sent = IF reason = "peer_reset" THEN h.sent
                               ELSE Append(h.sent, ResetFrame)
<1> DEFINE told == IF reason = "peer_reset" THEN h ELSE S!Send(h, ResetFrame)
           fin == S!Finish(told)
           r == [fin EXCEPT !.sock = DestroySocket(@)]
<1>1. /\ told \in SrvTurn /\ told.st = h.st /\ told.sock = h.sock
      /\ told.sent = IF reason = "peer_reset" THEN h.sent ELSE Append(h.sent, ResetFrame)
  BY SrvSend, BuiltFrames DEF WireFrame
<1> HIDE DEF told
<1>2. /\ fin \in SrvTurn /\ fin.st = [h.st EXCEPT !.finished = TRUE]
      /\ fin.sock = h.sock /\ fin.sent = told.sent
  BY <1>1, SrvFinish
<1> HIDE DEF fin
<1>3. DestroySocket(fin.sock) \in Socket(Bytes)
  BY <1>2, SocketDestroyed DEF SrvTurn
<1>4. /\ r \in SrvTurn /\ r.st = fin.st /\ r.sock = DestroySocket(fin.sock)
      /\ r.sent = fin.sent
  BY <1>2, <1>3 DEF SrvTurn
<1>5. S!Destroy(h, reason) = IF h.st.finished THEN h ELSE r
  BY SameOperators DEF S!Destroy, told, fin
<1> HIDE DEF r
<1> QED
  BY <1>1, <1>2, <1>4, <1>5

\* onSocketData, of the server's class: one STREAM_DATA, paid for; a socket
\* whose credit is gone is paused.
LEMMA SrvSocketData ==
  ASSUME NEW h \in SrvTurn, NEW d \in Seq(Bytes), d # <<>>
  PROVE  LET r      == S!OnSocketData(h, d)
             credit == h.st.sendCredit - Len(d)
         IN  /\ h.st.finished \/ h.st.sentEof => r = h
             /\ ~(h.st.finished \/ h.st.sentEof) =>
                   /\ r \in SrvTurn
                   /\ r.sent = Append(h.sent, DataFrame(d))
                   /\ \/ /\ credit > 0 \/ h.st.pausedForCredit
                         /\ r.st = [h.st EXCEPT !.sendCredit = credit]
                         /\ r.sock = h.sock
                      \/ /\ credit <= 0
                         /\ r.st = [h.st EXCEPT !.sendCredit = credit,
                                                !.pausedForCredit = TRUE]
                         /\ r.sock = Pause(h.sock)
<1> DEFINE credit == h.st.sendCredit - Len(d)
           stop == credit <= 0 /\ ~h.st.pausedForCredit
           said == S!Send(h, DataFrame(d))
           sent == [said EXCEPT !.st.sendCredit = credit]
           held == [sent EXCEPT !.st.pausedForCredit = TRUE, !.sock = Pause(@)]
<1>0. credit \in Int
  BY DEF SrvTurn, SrvType
<1>1. /\ said \in SrvTurn /\ said.st = h.st /\ said.sock = h.sock
      /\ said.sent = Append(h.sent, DataFrame(d))
  BY SrvSend, BuiltFrames DEF WireFrame
<1> HIDE DEF said, credit
<1>2. /\ sent \in SrvTurn /\ sent.st = [said.st EXCEPT !.sendCredit = credit]
      /\ sent.sock = said.sock /\ sent.sent = said.sent
  BY <1>0, <1>1 DEF SrvTurn, SrvType
<1> HIDE DEF sent
<1>3. Pause(sent.sock) \in Socket(Bytes)
  BY <1>2, PauseResume DEF SrvTurn
<1>4. /\ held \in SrvTurn /\ held.st = [sent.st EXCEPT !.pausedForCredit = TRUE]
      /\ held.sock = Pause(sent.sock) /\ held.sent = sent.sent
  BY <1>2, <1>3 DEF SrvTurn, SrvType
<1>5. S!OnSocketData(h, d) = IF h.st.finished \/ h.st.sentEof THEN h
                             ELSE IF stop THEN held ELSE sent
  BY SameOperators DEF S!OnSocketData, sent, said, credit
<1> HIDE DEF held
<1>6. credit > 0 \/ h.st.pausedForCredit \/ stop
  BY <1>0
<1>7. held.st = [h.st EXCEPT !.sendCredit = credit, !.pausedForCredit = TRUE]
  BY <1>1, <1>2, <1>4
<1> QED
  BY <1>1, <1>2, <1>4, <1>5, <1>6, <1>7 DEF credit

\* onSocketEnd, of the server's class: STREAM_EOF once, then finish() if the
\* other direction is over too.
LEMMA SrvSocketEnd ==
  ASSUME NEW h \in SrvTurn
  PROVE  LET r == S!OnSocketEnd(h)
         IN  /\ h.st.finished \/ h.st.sentEof => r = h
             /\ ~(h.st.finished \/ h.st.sentEof) =>
                   /\ r \in SrvTurn
                   /\ \/ /\ h.st.receivedEof
                         /\ r.st = [h.st EXCEPT !.sentEof = TRUE, !.finished = TRUE]
                      \/ /\ ~h.st.receivedEof
                         /\ r.st = [h.st EXCEPT !.sentEof = TRUE]
                   /\ r.sock = h.sock
                   /\ r.sent = Append(h.sent, EofFrame)
<1> DEFINE said == S!Send(h, EofFrame)
           sent == [said EXCEPT !.st.sentEof = TRUE]
<1>1. /\ said \in SrvTurn /\ said.st = h.st /\ said.sock = h.sock
      /\ said.sent = Append(h.sent, EofFrame)
  BY SrvSend, BuiltFrames DEF WireFrame
<1> HIDE DEF said
<1>2. /\ sent \in SrvTurn /\ sent.st = [h.st EXCEPT !.sentEof = TRUE]
      /\ sent.sock = h.sock /\ sent.sent = said.sent
  BY <1>1 DEF SrvTurn, SrvType
<1>3. S!OnSocketEnd(h) = IF h.st.finished \/ h.st.sentEof THEN h
                         ELSE IF h.st.receivedEof THEN S!Finish(sent) ELSE sent
  BY SameOperators DEF S!OnSocketEnd, said
<1> HIDE DEF sent
<1>4. /\ S!Finish(sent) \in SrvTurn
      /\ S!Finish(sent).st = [sent.st EXCEPT !.finished = TRUE]
      /\ S!Finish(sent).sock = sent.sock /\ S!Finish(sent).sent = sent.sent
  BY <1>2, SrvFinish
<1>5. [sent.st EXCEPT !.finished = TRUE]
        = [h.st EXCEPT !.sentEof = TRUE, !.finished = TRUE]
  BY <1>2
<1> QED
  BY <1>1, <1>2, <1>3, <1>4, <1>5

\* flushAck, of the server's class: all that is unacknowledged, or nothing.
LEMMA SrvFlushAck ==
  ASSUME NEW h \in SrvTurn
  PROVE  LET r == S!FlushAck(h)
         IN  /\ h.st.recvUnacked = 0 \/ h.st.finished => r = h
             /\ ~(h.st.recvUnacked = 0 \/ h.st.finished) =>
                   /\ r \in SrvTurn
                   /\ r.st = [h.st EXCEPT !.recvUnacked = 0]
                   /\ r.sock = h.sock
                   /\ r.sent = Append(h.sent, AckFrame(h.st.recvUnacked))
<1> DEFINE said == S!Send(h, AckFrame(h.st.recvUnacked))
           acked == [said EXCEPT !.st.recvUnacked = 0]
<1>1. CASE h.st.recvUnacked = 0 \/ h.st.finished
  BY <1>1 DEF S!FlushAck
<1>2. CASE ~(h.st.recvUnacked = 0 \/ h.st.finished)
  <2>1. h.st.recvUnacked \in Nat \ {0}
    BY <1>2 DEF SrvTurn, SrvType
  <2>2. AckFrame(h.st.recvUnacked) \in WireFrame
    BY <2>1, BuiltFrames DEF WireFrame
  <2>3. /\ said \in SrvTurn /\ said.st = h.st /\ said.sock = h.sock
        /\ said.sent = Append(h.sent, AckFrame(h.st.recvUnacked))
    BY <2>2, SrvSend
  <2>4. S!FlushAck(h) = acked
    BY <1>2, SameOperators DEF S!FlushAck
  <2> HIDE DEF said
  <2>5. /\ acked \in SrvTurn /\ acked.st = [said.st EXCEPT !.recvUnacked = 0]
        /\ acked.sock = said.sock /\ acked.sent = said.sent
    BY <2>3 DEF SrvTurn, SrvType
  <2> QED
    BY <1>2, <2>3, <2>4, <2>5
<1> QED
  BY <1>1, <1>2

\* onData, of the server's class: what is written is acknowledged at once, or
\* waits for 'drain'.
LEMMA SrvOnData ==
  ASSUME NEW h \in SrvTurn, NEW d \in Seq(Bytes), d # <<>>
  PROVE  LET r     == S!OnData(h, d)
             total == h.st.recvUnacked + Len(d)
         IN  /\ h.st.finished \/ h.st.receivedEof => r = h
             /\ ~(h.st.finished \/ h.st.receivedEof) =>
                   /\ r \in SrvTurn
                   /\ r.sock = Write(h.sock, d)
                   /\ \/ /\ r.st = [h.st EXCEPT !.recvUnacked = total]
                         /\ r.sent = h.sent
                      \/ /\ Flushed(r.sock)
                         /\ r.st = [h.st EXCEPT !.recvUnacked = 0]
                         /\ r.sent = Append(h.sent, AckFrame(total))
<1> DEFINE total == h.st.recvUnacked + Len(d)
           sock == Write(h.sock, d)
           written == [h EXCEPT !.sock = sock, !.st.recvUnacked = @ + Len(d)]
           acked == S!FlushAck(written)
<1>0. total \in Nat \ {0}
  BY DEF SrvTurn, SrvType
<1>1. sock \in Socket(Bytes)
  BY SocketWritten DEF SrvTurn
<1>2. S!OnData(h, d) = IF h.st.finished \/ h.st.receivedEof THEN h
                       ELSE IF Flushed(sock) THEN acked ELSE written
  <2>1. S!Write(h.sock, d) = sock /\ S!Flushed(sock) = Flushed(sock)
    BY SameOperators
  <2> HIDE DEF sock
  <2> QED
    BY <2>1 DEF S!OnData
<1> HIDE DEF sock
<1>3. /\ written \in SrvTurn /\ written.st = [h.st EXCEPT !.recvUnacked = total]
      /\ written.sock = sock /\ written.sent = h.sent
  BY <1>0, <1>1 DEF SrvTurn, SrvType
<1> HIDE DEF written, total
<1>4. CASE h.st.finished \/ h.st.receivedEof
  BY <1>2, <1>4
<1>5. CASE ~(h.st.finished \/ h.st.receivedEof)
  <2>1. written.st.recvUnacked = total /\ written.st.finished = h.st.finished
    BY <1>3 DEF SrvTurn, SrvType
  <2>2. /\ acked \in SrvTurn /\ acked.st = [written.st EXCEPT !.recvUnacked = 0]
        /\ acked.sock = written.sock /\ acked.sent = Append(written.sent, AckFrame(total))
    BY <1>0, <1>3, <1>5, <2>1, SrvFlushAck
  <2>3. acked.st = [h.st EXCEPT !.recvUnacked = 0]
    BY <1>3, <2>2 DEF SrvTurn, SrvType
  <2> HIDE DEF acked
  <2> QED
    BY <1>2, <1>3, <1>5, <2>2, <2>3 DEF sock, total
<1> QED
  BY <1>4, <1>5

\* onEof, of the server's class
LEMMA SrvOnEof ==
  ASSUME NEW h \in SrvTurn
  PROVE  LET r == S!OnEof(h)
         IN  /\ h.st.finished \/ h.st.receivedEof => r = h
             /\ ~(h.st.finished \/ h.st.receivedEof) =>
                   /\ r \in SrvTurn
                   /\ r.st = [h.st EXCEPT !.receivedEof = TRUE, !.recvUnacked = 0,
                                          !.finished = h.st.sentEof]
                   /\ r.sock = EndWrite(h.sock)
                   /\ r.sent = IF h.st.recvUnacked = 0 THEN h.sent
                               ELSE Append(h.sent, AckFrame(h.st.recvUnacked))
<1> DEFINE half == [h EXCEPT !.st.receivedEof = TRUE]
           acked == S!FlushAck(half)
           done == [acked EXCEPT !.sock = EndWrite(@)]
<1>1. CASE h.st.finished \/ h.st.receivedEof
  BY <1>1 DEF S!OnEof
<1>2. CASE ~(h.st.finished \/ h.st.receivedEof)
  <2>1. S!OnEof(h) = IF h.st.sentEof THEN S!Finish(done) ELSE done
    BY <1>2, SameOperators DEF S!OnEof
  <2>2. /\ half \in SrvTurn /\ half.st = [h.st EXCEPT !.receivedEof = TRUE]
        /\ half.sock = h.sock /\ half.sent = h.sent
    BY DEF SrvTurn, SrvType
  <2> HIDE DEF half
  <2>3. half.st.recvUnacked = h.st.recvUnacked /\ half.st.finished = h.st.finished
    BY <2>2 DEF SrvTurn, SrvType
  <2>4. /\ acked \in SrvTurn
        /\ acked.st = [h.st EXCEPT !.receivedEof = TRUE, !.recvUnacked = 0]
        /\ acked.sock = h.sock
        /\ acked.sent = IF h.st.recvUnacked = 0 THEN h.sent
                        ELSE Append(h.sent, AckFrame(h.st.recvUnacked))
    <3>1. CASE h.st.recvUnacked = 0
      <4>1. acked = half
        BY <1>2, <2>2, <2>3, <3>1, SrvFlushAck
      <4>2. half.st = [h.st EXCEPT !.receivedEof = TRUE, !.recvUnacked = 0]
        BY <2>2, <3>1 DEF SrvTurn, SrvType
      <4> QED
        BY <2>2, <3>1, <4>1, <4>2
    <3>2. CASE h.st.recvUnacked # 0
      BY <1>2, <2>2, <2>3, <3>2, SrvFlushAck
    <3> QED
      BY <3>1, <3>2
  <2> HIDE DEF acked
  <2>5. EndWrite(acked.sock) \in Socket(Bytes)
    BY <2>4, SocketEvents DEF SrvTurn
  <2>6. /\ done \in SrvTurn /\ done.st = acked.st
        /\ done.sock = EndWrite(h.sock) /\ done.sent = acked.sent
    BY <2>4, <2>5 DEF SrvTurn
  <2> HIDE DEF done
  <2>7. /\ S!Finish(done) \in SrvTurn
        /\ S!Finish(done).st = [done.st EXCEPT !.finished = TRUE]
        /\ S!Finish(done).sock = done.sock /\ S!Finish(done).sent = done.sent
    BY <2>6, SrvFinish
  <2>8. h.st \in SrvType
    BY DEF SrvTurn
  <2>9. CASE h.st.sentEof
    <3>1. [done.st EXCEPT !.finished = TRUE]
            = [h.st EXCEPT !.receivedEof = TRUE, !.recvUnacked = 0,
                           !.finished = h.st.sentEof]
      BY <2>4, <2>6, <2>8, <2>9 DEF SrvType
    <3> QED
      BY <1>2, <2>1, <2>4, <2>6, <2>7, <2>9, <3>1
  <2>10. CASE ~h.st.sentEof
    <3>1. done.st = [h.st EXCEPT !.receivedEof = TRUE, !.recvUnacked = 0,
                                 !.finished = h.st.sentEof]
      BY <1>2, <2>4, <2>6, <2>8, <2>10, ZenonT(60) DEF SrvType
    <3> QED
      BY <1>2, <2>1, <2>4, <2>6, <2>10, <3>1
  <2> QED
    BY <2>9, <2>10
<1> QED
  BY <1>1, <1>2

\* Resumed or left as it was.
LEMMA SrvMaybeResume ==
  ASSUME NEW h \in SrvTurn
  PROVE  LET r == S!MaybeResume(h)
         IN  \/ r = h
             \/ /\ h.st.sendCredit > 0
                /\ r \in SrvTurn
                /\ r.st = [h.st EXCEPT !.pausedForCredit = FALSE]
                /\ r.sock = Resume(h.sock)
                /\ r.sent = h.sent
<1> DEFINE r == [h EXCEPT !.st.pausedForCredit = FALSE, !.sock = Resume(@)]
<1>1. Resume(h.sock) \in Socket(Bytes)
  BY PauseResume DEF SrvTurn
<1>2. /\ r \in SrvTurn /\ r.st = [h.st EXCEPT !.pausedForCredit = FALSE]
      /\ r.sock = Resume(h.sock) /\ r.sent = h.sent
  BY <1>1 DEF SrvTurn, SrvType
<1>3. S!MaybeResume(h) = h \/ (h.st.sendCredit > 0 /\ S!MaybeResume(h) = r)
  <2>1. h.st.sendCredit \in Int
    BY DEF SrvTurn, SrvType
  <2>2. h.st.sendCredit <= 0 \/ h.st.sendCredit > 0
    BY <2>1
  <2>3. CASE h.st.sendCredit <= 0
    BY <2>3 DEF S!MaybeResume
  <2>4. CASE h.st.sendCredit > 0
    BY <2>4, SameOperators DEF S!MaybeResume
  <2> QED
    BY <2>2, <2>3, <2>4
<1> HIDE DEF r
<1> QED
  BY <1>2, <1>3

\* onAck, of the server's class
LEMMA SrvOnAck ==
  ASSUME NEW h \in SrvTurn, NEW n \in Nat
  PROVE  LET r == S!OnAck(h, n)
         IN  /\ h.st.finished => r = h
             /\ ~h.st.finished =>
                   /\ r \in SrvTurn
                   /\ r.sent = h.sent
                   /\ \/ /\ r.st = [h.st EXCEPT !.sendCredit = h.st.sendCredit + n]
                         /\ r.sock = h.sock
                      \/ /\ h.st.sendCredit + n > 0
                         /\ r.st = [h.st EXCEPT !.sendCredit = h.st.sendCredit + n,
                                                !.pausedForCredit = FALSE]
                         /\ r.sock = Resume(h.sock)
<1> DEFINE more == [h EXCEPT !.st.sendCredit = h.st.sendCredit + n]
<1>1. S!OnAck(h, n) = IF h.st.finished THEN h ELSE S!MaybeResume(more)
  BY DEF S!OnAck
<1>2. /\ more \in SrvTurn
      /\ more.st = [h.st EXCEPT !.sendCredit = h.st.sendCredit + n]
      /\ more.st.sendCredit = h.st.sendCredit + n
      /\ more.sock = h.sock /\ more.sent = h.sent
  <2>1. h.st \in SrvType /\ h.st.sendCredit + n \in Int
    BY DEF SrvTurn, SrvType
  <2>2. [h.st EXCEPT !.sendCredit = h.st.sendCredit + n] \in SrvType
    BY <2>1 DEF SrvType
  <2>3. /\ more.st = [h.st EXCEPT !.sendCredit = h.st.sendCredit + n]
        /\ more.sock = h.sock /\ more.sent = h.sent
    BY DEF SrvTurn
  <2>4. more \in SrvTurn
    BY <2>2 DEF SrvTurn
  <2> QED
    BY <2>1, <2>3, <2>4 DEF SrvType
<1> HIDE DEF more
<1>3. \/ S!MaybeResume(more) = more
      \/ /\ more.st.sendCredit > 0
         /\ S!MaybeResume(more) \in SrvTurn
         /\ S!MaybeResume(more).st = [more.st EXCEPT !.pausedForCredit = FALSE]
         /\ S!MaybeResume(more).sock = Resume(more.sock)
         /\ S!MaybeResume(more).sent = more.sent
  BY <1>2, SrvMaybeResume
<1>4. [more.st EXCEPT !.pausedForCredit = FALSE]
        = [h.st EXCEPT !.sendCredit = h.st.sendCredit + n, !.pausedForCredit = FALSE]
  BY <1>2
<1> QED
  BY <1>1, <1>2, <1>3, <1>4

\* A global pause or its end touches the pause flags and the socket's flow.
SrvRepaused(r, h) ==
    /\ r \in SrvTurn
    /\ r.sent = h.sent
    /\ \/ r.st = h.st /\ r.sock = h.sock
       \/ /\ \/ r.st = [h.st EXCEPT !.pausedGlobally = TRUE]
             \/ r.st = [h.st EXCEPT !.pausedGlobally = FALSE]
          /\ r.sock = h.sock \/ r.sock = Pause(h.sock)
       \/ /\ h.st.sendCredit > 0
          /\ r.st = [h.st EXCEPT !.pausedGlobally = FALSE, !.pausedForCredit = FALSE]
          /\ r.sock = Resume(h.sock)

\* setGlobalPause, of the server's class
LEMMA SrvGlobalPause ==
  ASSUME NEW h \in SrvTurn, NEW paused \in BOOLEAN
  PROVE  SrvRepaused(S!SetGlobalPause(h, paused), h)
<1> DEFINE set == [h EXCEPT !.st.pausedGlobally = paused]
           stopped == [set EXCEPT !.sock = Pause(@)]
           r == S!SetGlobalPause(h, paused)
<1> SUFFICES SrvRepaused(r, h)
  OBVIOUS
<1>1. /\ set \in SrvTurn /\ set.st = [h.st EXCEPT !.pausedGlobally = paused]
      /\ set.sock = h.sock /\ set.sent = h.sent
      /\ set.st.sendCredit = h.st.sendCredit
  BY DEF SrvTurn, SrvType
<1>2. r = IF h.st.pausedGlobally = paused \/ h.st.finished THEN h
          ELSE IF paused THEN stopped ELSE S!MaybeResume(set)
  BY SameOperators DEF S!SetGlobalPause
<1> HIDE DEF set, r
<1>3. CASE r = h
  BY <1>3 DEF SrvRepaused
<1>4. CASE paused /\ r = stopped
  <2>1. Pause(set.sock) \in Socket(Bytes)
    BY <1>1, PauseResume DEF SrvTurn
  <2>2. /\ stopped \in SrvTurn /\ stopped.st = set.st
        /\ stopped.sock = Pause(set.sock) /\ stopped.sent = set.sent
    BY <1>1, <2>1 DEF SrvTurn
  <2>3. paused = TRUE
    BY <1>4
  <2> HIDE DEF stopped
  <2> QED
    BY <1>1, <1>4, <2>2, <2>3 DEF SrvRepaused
<1>5. CASE ~paused /\ r = S!MaybeResume(set)
  <2>1. paused = FALSE
    BY <1>5
  <2>2. \/ r = set
        \/ /\ set.st.sendCredit > 0
           /\ r \in SrvTurn
           /\ r.st = [set.st EXCEPT !.pausedForCredit = FALSE]
           /\ r.sock = Resume(set.sock)
           /\ r.sent = set.sent
    BY <1>1, <1>5, SrvMaybeResume
  <2>3. [set.st EXCEPT !.pausedForCredit = FALSE]
          = [h.st EXCEPT !.pausedGlobally = FALSE, !.pausedForCredit = FALSE]
    BY <1>1, <2>1
  <2> QED
    BY <1>1, <2>1, <2>2, <2>3 DEF SrvRepaused
<1> QED
  BY <1>2, <1>3, <1>4, <1>5

-----------------------------------------------------------------------------
\* The agent's turns.

\* The agent's stream with no bounds on its counts; a chunk it queues is never
\* empty.
CliType == [dial : {"none", "pending", "over"}, connected : BOOLEAN,
            sendCredit : Int, recvUnacked : Nat,
            pausedForCredit : BOOLEAN, pausedGlobally : BOOLEAN,
            sentEof : BOOLEAN, receivedEof : BOOLEAN, finished : BOOLEAN,
            queued : Seq(Seq(Bytes) \ {<<>>}), queuedEof : BOOLEAN,
            headBuf : Seq(Bytes), headDone : BOOLEAN, rewriteHost : BOOLEAN]

\* What a handler of the agent has in hand.
CliTurn == [st : CliType, sock : Socket(Bytes), sent : Seq(WireFrame)]

\* sendFrame, of the agent's class
LEMMA CliSend ==
  ASSUME NEW h \in CliTurn, NEW f \in WireFrame
  PROVE  /\ C!Send(h, f) \in CliTurn
         /\ C!Send(h, f).st = h.st
         /\ C!Send(h, f).sock = h.sock
         /\ C!Send(h, f).sent = Append(h.sent, f)
  BY DEF CliTurn, C!Send

\* finish, of the agent's class
LEMMA CliFinish ==
  ASSUME NEW h \in CliTurn
  PROVE  /\ C!Finish(h) \in CliTurn
         /\ C!Finish(h).st = [h.st EXCEPT !.finished = TRUE]
         /\ C!Finish(h).sock = h.sock
         /\ C!Finish(h).sent = h.sent
  BY DEF CliTurn, CliType, C!Finish

\* onLocalData: one STREAM_DATA, paid for; a socket whose credit is gone is
\* paused.
LEMMA CliLocalData ==
  ASSUME NEW h \in CliTurn, NEW d \in Seq(Bytes), d # <<>>
  PROVE  LET r      == C!OnLocalData(h, d)
             credit == h.st.sendCredit - Len(d)
         IN  /\ h.st.finished \/ h.st.sentEof => r = h
             /\ ~(h.st.finished \/ h.st.sentEof) =>
                   /\ r \in CliTurn
                   /\ r.sent = Append(h.sent, DataFrame(d))
                   /\ \/ /\ credit > 0 \/ h.st.pausedForCredit
                         /\ r.st = [h.st EXCEPT !.sendCredit = credit]
                         /\ r.sock = h.sock
                      \/ /\ credit <= 0
                         /\ r.st = [h.st EXCEPT !.sendCredit = credit,
                                                !.pausedForCredit = TRUE]
                         /\ r.sock = Pause(h.sock)
<1> DEFINE credit == h.st.sendCredit - Len(d)
           stop == credit <= 0 /\ ~h.st.pausedForCredit
           said == C!Send(h, DataFrame(d))
           sent == [said EXCEPT !.st.sendCredit = credit]
           held == [sent EXCEPT !.st.pausedForCredit = TRUE, !.sock = Pause(@)]
<1>0. credit \in Int
  BY DEF CliTurn, CliType
<1>1. /\ said \in CliTurn /\ said.st = h.st /\ said.sock = h.sock
      /\ said.sent = Append(h.sent, DataFrame(d))
  BY CliSend, BuiltFrames DEF WireFrame
<1> HIDE DEF said, credit
<1>2. /\ sent \in CliTurn /\ sent.st = [said.st EXCEPT !.sendCredit = credit]
      /\ sent.sock = said.sock /\ sent.sent = said.sent
  BY <1>0, <1>1 DEF CliTurn, CliType
<1> HIDE DEF sent
<1>3. Pause(sent.sock) \in Socket(Bytes)
  BY <1>2, PauseResume DEF CliTurn
<1>4. /\ held \in CliTurn /\ held.st = [sent.st EXCEPT !.pausedForCredit = TRUE]
      /\ held.sock = Pause(sent.sock) /\ held.sent = sent.sent
  BY <1>2, <1>3 DEF CliTurn, CliType
<1>5. C!OnLocalData(h, d) = IF h.st.finished \/ h.st.sentEof THEN h
                             ELSE IF stop THEN held ELSE sent
  BY SameOperators DEF C!OnLocalData, sent, said, credit
<1> HIDE DEF held
<1>6. credit > 0 \/ h.st.pausedForCredit \/ stop
  BY <1>0
<1>7. held.st = [h.st EXCEPT !.sendCredit = credit, !.pausedForCredit = TRUE]
  BY <1>1, <1>2, <1>4
<1> QED
  BY <1>1, <1>2, <1>4, <1>5, <1>6, <1>7 DEF credit

\* onLocalEnd
LEMMA CliLocalEnd ==
  ASSUME NEW h \in CliTurn
  PROVE  LET r == C!OnLocalEnd(h)
         IN  /\ h.st.finished \/ h.st.sentEof => r = h
             /\ ~(h.st.finished \/ h.st.sentEof) =>
                   /\ r \in CliTurn
                   /\ \/ /\ h.st.receivedEof
                         /\ r.st = [h.st EXCEPT !.sentEof = TRUE, !.finished = TRUE]
                      \/ /\ ~h.st.receivedEof
                         /\ r.st = [h.st EXCEPT !.sentEof = TRUE]
                   /\ r.sock = h.sock
                   /\ r.sent = Append(h.sent, EofFrame)
<1> DEFINE said == C!Send(h, EofFrame)
           sent == [said EXCEPT !.st.sentEof = TRUE]
<1>1. /\ said \in CliTurn /\ said.st = h.st /\ said.sock = h.sock
      /\ said.sent = Append(h.sent, EofFrame)
  BY CliSend, BuiltFrames DEF WireFrame
<1> HIDE DEF said
<1>2. /\ sent \in CliTurn /\ sent.st = [h.st EXCEPT !.sentEof = TRUE]
      /\ sent.sock = h.sock /\ sent.sent = said.sent
  BY <1>1 DEF CliTurn, CliType
<1>3. C!OnLocalEnd(h) = IF h.st.finished \/ h.st.sentEof THEN h
                         ELSE IF h.st.receivedEof THEN C!Finish(sent) ELSE sent
  BY SameOperators DEF C!OnLocalEnd, said
<1> HIDE DEF sent
<1>4. /\ C!Finish(sent) \in CliTurn
      /\ C!Finish(sent).st = [sent.st EXCEPT !.finished = TRUE]
      /\ C!Finish(sent).sock = sent.sock /\ C!Finish(sent).sent = sent.sent
  BY <1>2, CliFinish
<1>5. [sent.st EXCEPT !.finished = TRUE]
        = [h.st EXCEPT !.sentEof = TRUE, !.finished = TRUE]
  BY <1>2
<1> QED
  BY <1>1, <1>2, <1>3, <1>4, <1>5

\* flushAck, of the agent's class
LEMMA CliFlushAck ==
  ASSUME NEW h \in CliTurn
  PROVE  LET r == C!FlushAck(h)
         IN  /\ h.st.recvUnacked = 0 \/ h.st.finished => r = h
             /\ ~(h.st.recvUnacked = 0 \/ h.st.finished) =>
                   /\ r \in CliTurn
                   /\ r.st = [h.st EXCEPT !.recvUnacked = 0]
                   /\ r.sock = h.sock
                   /\ r.sent = Append(h.sent, AckFrame(h.st.recvUnacked))
<1> DEFINE said == C!Send(h, AckFrame(h.st.recvUnacked))
           acked == [said EXCEPT !.st.recvUnacked = 0]
<1>1. CASE h.st.recvUnacked = 0 \/ h.st.finished
  BY <1>1 DEF C!FlushAck
<1>2. CASE ~(h.st.recvUnacked = 0 \/ h.st.finished)
  <2>1. h.st.recvUnacked \in Nat \ {0}
    BY <1>2 DEF CliTurn, CliType
  <2>2. AckFrame(h.st.recvUnacked) \in WireFrame
    BY <2>1, BuiltFrames DEF WireFrame
  <2>3. /\ said \in CliTurn /\ said.st = h.st /\ said.sock = h.sock
        /\ said.sent = Append(h.sent, AckFrame(h.st.recvUnacked))
    BY <2>2, CliSend
  <2>4. C!FlushAck(h) = acked
    BY <1>2, SameOperators DEF C!FlushAck
  <2> HIDE DEF said
  <2>5. /\ acked \in CliTurn /\ acked.st = [said.st EXCEPT !.recvUnacked = 0]
        /\ acked.sock = said.sock /\ acked.sent = said.sent
    BY <2>3 DEF CliTurn, CliType
  <2> QED
    BY <1>2, <2>3, <2>4, <2>5
<1> QED
  BY <1>1, <1>2

\* maybeResume, of the agent's class
LEMMA CliMaybeResume ==
  ASSUME NEW h \in CliTurn
  PROVE  LET r == C!MaybeResume(h)
         IN  \/ r = h
             \/ /\ h.st.sendCredit > 0 /\ h.st.pausedForCredit
                /\ r \in CliTurn
                /\ r.st = [h.st EXCEPT !.pausedForCredit = FALSE]
                /\ r.sock = Resume(h.sock)
                /\ r.sent = h.sent
<1> DEFINE r == [h EXCEPT !.st.pausedForCredit = FALSE, !.sock = Resume(@)]
<1>1. Resume(h.sock) \in Socket(Bytes)
  BY PauseResume DEF CliTurn
<1>2. /\ r \in CliTurn /\ r.st = [h.st EXCEPT !.pausedForCredit = FALSE]
      /\ r.sock = Resume(h.sock) /\ r.sent = h.sent
  BY <1>1 DEF CliTurn, CliType
<1>3. \/ C!MaybeResume(h) = h
      \/ h.st.sendCredit > 0 /\ h.st.pausedForCredit /\ C!MaybeResume(h) = r
  <2>1. h.st.sendCredit \in Int
    BY DEF CliTurn, CliType
  <2>2. h.st.sendCredit <= 0 \/ h.st.sendCredit > 0
    BY <2>1
  <2>3. CASE h.st.sendCredit <= 0
    BY <2>3 DEF C!MaybeResume
  <2>4. CASE h.st.sendCredit > 0
    BY <2>4, SameOperators DEF C!MaybeResume
  <2> QED
    BY <2>2, <2>3, <2>4
<1> HIDE DEF r
<1> QED
  BY <1>2, <1>3

\* onAck, of the agent's class
LEMMA CliOnAck ==
  ASSUME NEW h \in CliTurn, NEW n \in Nat
  PROVE  LET r == C!OnAck(h, n)
         IN  /\ h.st.finished => r = h
             /\ ~h.st.finished =>
                   /\ r \in CliTurn
                   /\ r.sent = h.sent
                   /\ \/ /\ r.st = [h.st EXCEPT !.sendCredit = h.st.sendCredit + n]
                         /\ r.sock = h.sock
                      \/ /\ h.st.sendCredit + n > 0 /\ h.st.pausedForCredit
                         /\ r.st = [h.st EXCEPT !.sendCredit = h.st.sendCredit + n,
                                                !.pausedForCredit = FALSE]
                         /\ r.sock = Resume(h.sock)
<1> DEFINE more == [h EXCEPT !.st.sendCredit = h.st.sendCredit + n]
<1>1. C!OnAck(h, n) = IF h.st.finished THEN h ELSE C!MaybeResume(more)
  BY DEF C!OnAck
<1>2. /\ more \in CliTurn
      /\ more.st = [h.st EXCEPT !.sendCredit = h.st.sendCredit + n]
      /\ more.st.sendCredit = h.st.sendCredit + n
      /\ more.st.pausedForCredit = h.st.pausedForCredit
      /\ more.sock = h.sock /\ more.sent = h.sent
  <2>1. h.st \in CliType /\ h.st.sendCredit + n \in Int
    BY DEF CliTurn, CliType
  <2>2. [h.st EXCEPT !.sendCredit = h.st.sendCredit + n] \in CliType
    BY <2>1 DEF CliType
  <2>3. /\ more.st = [h.st EXCEPT !.sendCredit = h.st.sendCredit + n]
        /\ more.sock = h.sock /\ more.sent = h.sent
    BY DEF CliTurn
  <2>4. more \in CliTurn
    BY <2>2 DEF CliTurn
  <2> HIDE DEF more
  <2>5. /\ more.st.sendCredit = h.st.sendCredit + n
        /\ more.st.pausedForCredit = h.st.pausedForCredit
    BY <2>1, <2>3 DEF CliType
  <2> QED
    BY <2>3, <2>4, <2>5
<1> HIDE DEF more
<1>3. \/ C!MaybeResume(more) = more
      \/ /\ more.st.sendCredit > 0 /\ more.st.pausedForCredit
         /\ C!MaybeResume(more) \in CliTurn
         /\ C!MaybeResume(more).st = [more.st EXCEPT !.pausedForCredit = FALSE]
         /\ C!MaybeResume(more).sock = Resume(more.sock)
         /\ C!MaybeResume(more).sent = more.sent
  BY <1>2, CliMaybeResume
<1>4. [more.st EXCEPT !.pausedForCredit = FALSE]
        = [h.st EXCEPT !.sendCredit = h.st.sendCredit + n, !.pausedForCredit = FALSE]
  BY <1>2
<1> QED
  BY <1>1, <1>2, <1>3, <1>4

\* What setGlobalPause may change: whether the socket emits, and the flags of
\* the pauses.
CliRepaused(r, h) ==
    /\ r \in CliTurn
    /\ r.sent = h.sent
    /\ \/ r.st = h.st /\ r.sock = h.sock
       \/ /\ \/ r.st = [h.st EXCEPT !.pausedGlobally = TRUE]
             \/ r.st = [h.st EXCEPT !.pausedGlobally = FALSE]
          /\ r.sock = h.sock \/ r.sock = Pause(h.sock)
       \/ /\ h.st.sendCredit > 0 /\ h.st.pausedForCredit
          /\ r.st = [h.st EXCEPT !.pausedGlobally = FALSE, !.pausedForCredit = FALSE]
          /\ r.sock = Resume(h.sock)

\* setGlobalPause, of the agent's class
LEMMA CliGlobalPause ==
  ASSUME NEW h \in CliTurn, NEW paused \in BOOLEAN
  PROVE  CliRepaused(C!SetGlobalPause(h, paused), h)
<1> DEFINE set == [h EXCEPT !.st.pausedGlobally = paused]
           stopped == [set EXCEPT !.sock = Pause(@)]
           r == C!SetGlobalPause(h, paused)
<1> SUFFICES CliRepaused(r, h)
  OBVIOUS
<1>1. /\ set \in CliTurn /\ set.st = [h.st EXCEPT !.pausedGlobally = paused]
      /\ set.sock = h.sock /\ set.sent = h.sent
      /\ set.st.sendCredit = h.st.sendCredit
      /\ set.st.pausedForCredit = h.st.pausedForCredit
  BY DEF CliTurn, CliType
<1>2. r = IF h.st.pausedGlobally = paused \/ h.st.finished THEN h
          ELSE IF paused THEN stopped ELSE C!MaybeResume(set)
  BY SameOperators DEF C!SetGlobalPause
<1> HIDE DEF set, r
<1>3. CASE r = h
  BY <1>3 DEF CliRepaused
<1>4. CASE paused /\ r = stopped
  <2>1. Pause(set.sock) \in Socket(Bytes)
    BY <1>1, PauseResume DEF CliTurn
  <2>2. /\ stopped \in CliTurn /\ stopped.st = set.st
        /\ stopped.sock = Pause(set.sock) /\ stopped.sent = set.sent
    BY <1>1, <2>1 DEF CliTurn
  <2>3. paused = TRUE
    BY <1>4
  <2> HIDE DEF stopped
  <2> QED
    BY <1>1, <1>4, <2>2, <2>3 DEF CliRepaused
<1>5. CASE ~paused /\ r = C!MaybeResume(set)
  <2>1. paused = FALSE
    BY <1>5
  <2>2. \/ r = set
        \/ /\ set.st.sendCredit > 0 /\ set.st.pausedForCredit
           /\ r \in CliTurn
           /\ r.st = [set.st EXCEPT !.pausedForCredit = FALSE]
           /\ r.sock = Resume(set.sock)
           /\ r.sent = set.sent
    BY <1>1, <1>5, CliMaybeResume
  <2>3. [set.st EXCEPT !.pausedForCredit = FALSE]
          = [h.st EXCEPT !.pausedGlobally = FALSE, !.pausedForCredit = FALSE]
    BY <1>1, <2>1
  <2> QED
    BY <1>1, <2>1, <2>2, <2>3 DEF CliRepaused
<1> QED
  BY <1>2, <1>3, <1>4, <1>5

\* A concatenation of sequences over B is one.
LEMMA ConcatTyped ==
  ASSUME NEW B, NEW s \in Seq(B), NEW t \in Seq(B)
  PROVE  s \o t \in Seq(B) /\ Len(s \o t) = Len(s) + Len(t)
  OBVIOUS

\* So is a piece of one.
LEMMA SubSeqTyped ==
  ASSUME NEW B, NEW s \in Seq(B), NEW m \in 1..(Len(s) + 1)
  PROVE  /\ SubSeq(s, m, Len(s)) \in Seq(B)
         /\ Len(SubSeq(s, m, Len(s))) = Len(s) - (m - 1)
  BY SubSeqProperties

\* destroy, of the agent's class
LEMMA CliDestroy ==
  ASSUME NEW h \in CliTurn, NEW reason
  PROVE  LET r == C!Destroy(h, reason)
         IN  /\ h.st.finished => r = h
             /\ ~h.st.finished =>
                   /\ r \in CliTurn
                   /\ r.st = [h.st EXCEPT !.finished = TRUE]
                   /\ \/ h.st.connected /\ r.sock = DestroySocket(h.sock)
                      \/ ~h.st.connected /\ r.sock = h.sock
                   /\ r.sent = IF reason = "peer_reset" THEN h.sent
                               ELSE Append(h.sent, ResetFrame)
<1> DEFINE told == IF reason = "peer_reset" THEN h ELSE C!Send(h, ResetFrame)
           fin == C!Finish(told)
           r == [fin EXCEPT !.sock = IF h.st.connected THEN DestroySocket(@) ELSE @]
<1>1. /\ told \in CliTurn /\ told.st = h.st /\ told.sock = h.sock
      /\ told.sent = IF reason = "peer_reset" THEN h.sent ELSE Append(h.sent, ResetFrame)
  BY CliSend, BuiltFrames DEF WireFrame
<1> HIDE DEF told
<1>2. /\ fin \in CliTurn /\ fin.st = [h.st EXCEPT !.finished = TRUE]
      /\ fin.sock = h.sock /\ fin.sent = told.sent
  BY <1>1, CliFinish
<1> HIDE DEF fin
<1>3. DestroySocket(fin.sock) \in Socket(Bytes)
  BY <1>2, SocketDestroyed DEF CliTurn
<1>4. /\ r \in CliTurn /\ r.st = fin.st /\ r.sent = fin.sent
      /\ r.sock = IF h.st.connected THEN DestroySocket(fin.sock) ELSE fin.sock
  BY <1>2, <1>3 DEF CliTurn
<1>5. C!Destroy(h, reason) = IF h.st.finished THEN h ELSE r
  BY SameOperators DEF C!Destroy, told, fin
<1> HIDE DEF r
<1> QED
  BY <1>1, <1>2, <1>4, <1>5

\* A rewrite replaces one byte of the head by the target's.
LEMMA Rewritten ==
  ASSUME NEW head \in Seq(Bytes)
  PROVE  /\ C!RewriteHostHeader(head) \in Seq(Bytes)
         /\ Len(C!RewriteHostHeader(head)) <= Len(head) + Len(TargetBytes) - 1
<1>1. /\ TargetBytes \in Seq(Bytes)
      /\ Len(TargetBytes) \in Nat \ {0}
  <2>1. /\ TargetBytes \in Seq(Nat) /\ TargetBytes # <<>>
    BY BridgeAssumption
  <2>2. /\ Len(TargetBytes) \in Nat \ {0}
        /\ DOMAIN TargetBytes = 1..Len(TargetBytes)
        /\ TargetBytes = [i \in 1..Len(TargetBytes) |-> TargetBytes[i]]
    BY <2>1
  <2>3. \A i \in 1..Len(TargetBytes) : TargetBytes[i] \in Bytes
    BY <2>2 DEF Bytes, ToSet
  <2> QED
    BY <2>2, <2>3
<1>2. Len(head) \in Nat /\ DOMAIN head = 1..Len(head)
  OBVIOUS
<1>3. CASE HostByte \in ToSet(head)
  <2> DEFINE I == {j \in 1..Len(head) : head[j] = HostByte}
             i == CHOOSE j \in I : \A k \in I : j <= k
  <2>1. I # {} /\ I \in SUBSET Nat
    BY <1>2, <1>3 DEF ToSet
  <2>2. i \in I
    BY <2>1, LeastNumber
  <2>3. i \in 1..Len(head)
    BY <2>2
  <2>4. C!RewriteHostHeader(head)
          = SubSeq(head, 1, i - 1) \o TargetBytes \o SubSeq(head, i + 1, Len(head))
    BY <1>3, <2>1 DEF C!RewriteHostHeader, ToSet, C!ToSet, SelectInSeq, C!SelectInSeq,
                      C!Min, Min
  <2> HIDE DEF i, I
  <2>5. /\ SubSeq(head, 1, i - 1) \in Seq(Bytes)
        /\ Len(SubSeq(head, 1, i - 1)) = i - 1
    BY <1>2, <2>3
  <2>6. /\ SubSeq(head, i + 1, Len(head)) \in Seq(Bytes)
        /\ Len(SubSeq(head, i + 1, Len(head))) = Len(head) - i
    <3>1. i + 1 \in 1..(Len(head) + 1)
      BY <1>2, <2>3
    <3> DEFINE m == i + 1
    <3>2. m \in 1..(Len(head) + 1) /\ m - 1 = i
      BY <1>2, <2>3, <3>1
    <3> HIDE DEF m
    <3>3. /\ SubSeq(head, m, Len(head)) \in Seq(Bytes)
          /\ Len(SubSeq(head, m, Len(head))) = Len(head) - (m - 1)
      BY <3>2, SubSeqTyped
    <3> QED
      BY <3>2, <3>3 DEF m
  <2> DEFINE before == SubSeq(head, 1, i - 1)
             after == SubSeq(head, i + 1, Len(head))
  <2>7. /\ before \in Seq(Bytes) /\ Len(before) = i - 1
        /\ after \in Seq(Bytes) /\ Len(after) = Len(head) - i
        /\ C!RewriteHostHeader(head) = before \o TargetBytes \o after
    BY <2>4, <2>5, <2>6
  <2> HIDE DEF before, after
  <2>8. /\ before \o TargetBytes \in Seq(Bytes)
        /\ Len(before \o TargetBytes) = i - 1 + Len(TargetBytes)
    BY <1>1, <2>3, <2>7, ConcatTyped
  <2> DEFINE start == before \o TargetBytes
  <2> HIDE DEF start
  <2>9. start \o after \in Seq(Bytes) /\ Len(start \o after) = Len(start) + Len(after)
    BY <2>7, <2>8, ConcatTyped DEF start
  <2>10. C!RewriteHostHeader(head) = start \o after
    BY <2>7 DEF start
  <2>11. Len(start) = i - 1 + Len(TargetBytes)
    BY <2>8 DEF start
  <2> QED
    BY <1>1, <1>2, <2>3, <2>7, <2>9, <2>10, <2>11
<1>4. CASE HostByte \notin ToSet(head)
  BY <1>1, <1>2, <1>4 DEF C!RewriteHostHeader, ToSet, C!ToSet
<1> QED
  BY <1>3, <1>4

\* What writing to the local service leaves alone.
SameStream(t, s) ==
    /\ t.dial = s.dial /\ t.connected = s.connected
    /\ t.sendCredit = s.sendCredit
    /\ t.pausedForCredit = s.pausedForCredit /\ t.pausedGlobally = s.pausedGlobally
    /\ t.sentEof = s.sentEof /\ t.receivedEof = s.receivedEof
    /\ t.finished = s.finished
    /\ t.queued = s.queued /\ t.queuedEof = s.queuedEof
    /\ t.rewriteHost = s.rewriteHost

\* How much longer than the unacknowledged bytes a head held back can be.
RoomFor(rewriteHost) == IF rewriteHost THEN MaxHead - 1 + Len(TargetBytes) - 1 ELSE 0

\* What the local socket buffers, against what is not acknowledged.
HeadRule(h) ==
    /\ h.st.headDone =>
          /\ h.st.headBuf = <<>>
          /\ Len(h.sock.out) < h.st.recvUnacked + HighWater + RoomFor(h.st.rewriteHost)
    /\ ~h.st.headDone => /\ h.st.rewriteHost
                         /\ h.st.recvUnacked = 0
                         /\ h.sock.out = <<>>
                         /\ Len(h.st.headBuf) < MaxHead

\* n bytes arrived: they are unacknowledged, or all there was is acknowledged.
Counted(r, h, n) ==
    \/ /\ r.st.recvUnacked = h.st.recvUnacked + n
       /\ r.sent = h.sent
    \/ /\ r.st.recvUnacked = 0
       /\ r.sent = Append(h.sent, AckFrame(h.st.recvUnacked + n))

\* The constants, as the arithmetic below needs them.
LEMMA RoomTyped ==
  /\ MaxHead \in Nat \ {0} /\ HighWater \in Nat \ {0} /\ MaxChunk \in Nat \ {0}
  /\ Window \in Nat \ {0}
  /\ Len(TargetBytes) \in Nat \ {0}
  /\ \A b \in BOOLEAN : RoomFor(b) \in Nat
  /\ RoomFor(TRUE) = MaxHead - 1 + Len(TargetBytes) - 1
<1>1. Len(TargetBytes) \in Nat \ {0}
  <2>1. TargetBytes \in Seq(Nat) /\ TargetBytes # <<>>
    BY BridgeAssumption
  <2> QED
    BY <2>1
<1> QED
  BY <1>1, BridgeAssumption, SocketAssumption DEF RoomFor

\* flushAck or not, after a write
LEMMA CliAckIfFlushed ==
  ASSUME NEW h \in CliTurn, h.st.recvUnacked # 0, ~h.st.finished
  PROVE  LET r == C!AckIfFlushed(h)
         IN  \/ r = h
             \/ /\ Len(h.sock.out) < HighWater
                /\ r \in CliTurn
                /\ r.st = [h.st EXCEPT !.recvUnacked = 0]
                /\ r.sock = h.sock
                /\ r.sent = Append(h.sent, AckFrame(h.st.recvUnacked))
  BY CliFlushAck, SameOperators DEF C!AckIfFlushed, Flushed

\* The head goes out once, rewritten, when it is complete, too long or at its
\* end of stream.
LEMMA CliReleaseHead ==
  ASSUME NEW h \in CliTurn, NEW head \in Seq(Bytes)
  PROVE  LET r == C!ReleaseHead(h, head)
         IN  /\ r \in CliTurn
             /\ r.st = [h.st EXCEPT !.headBuf = <<>>, !.headDone = TRUE]
             /\ r.sock = Write(h.sock, C!RewriteHostHeader(head))
             /\ r.sent = h.sent
<1> DEFINE out == C!RewriteHostHeader(head)
<1>1. Write(h.sock, out) \in Socket(Bytes) /\ <<>> \in Seq(Bytes)
  BY Rewritten, SocketWritten DEF CliTurn
<1>2. C!ReleaseHead(h, head) = [h EXCEPT !.st.headBuf = <<>>, !.st.headDone = TRUE,
                                         !.sock = C!Write(@, out)]
  BY DEF C!ReleaseHead
<1> DEFINE r == [h EXCEPT !.st.headBuf = <<>>, !.st.headDone = TRUE,
                          !.sock = C!Write(@, out)]
<1>3. C!Write(h.sock, out) = Write(h.sock, out)
  BY SameOperators
<1> HIDE DEF out
<1>4. [h.st EXCEPT !.headBuf = <<>>, !.headDone = TRUE] \in CliType
  BY <1>1 DEF CliTurn, CliType
<1>5. /\ r.st = [h.st EXCEPT !.headBuf = <<>>, !.headDone = TRUE]
      /\ r.sock = Write(h.sock, out)
      /\ r.sent = h.sent
  BY <1>1, <1>3 DEF CliTurn
<1>6. r \in CliTurn
  BY <1>1, <1>3, <1>4 DEF CliTurn
<1> HIDE DEF r
<1> QED
  BY <1>2, <1>5, <1>6 DEF out, r

\* writeLocal: through consumeHead while the head is held back, then straight
\* to the socket; what is not written stays unacknowledged or is in the head.
LEMMA CliWriteLocal ==
  ASSUME NEW h \in CliTurn, NEW d \in Seq(Bytes), d # <<>>,
         ~h.st.finished, HeadRule(h)
  PROVE  LET r == C!WriteLocal(h, d)
         IN  /\ r \in CliTurn
             /\ SameStream(r.st, h.st)
             /\ Shrunk(r.sock, h.sock)
             /\ Counted(r, h, Len(d))
             /\ HeadRule(r)
<1> DEFINE head == h.st.headBuf \o d
           got == [h EXCEPT !.st.recvUnacked = @ + Len(d)]
           total == h.st.recvUnacked + Len(d)
           straight == [got EXCEPT !.sock = Write(@, d)]
           released == C!ReleaseHead(got, head)
           held == [got EXCEPT !.st.headBuf = head]
           r == C!WriteLocal(h, d)
<1> SUFFICES /\ r \in CliTurn /\ SameStream(r.st, h.st) /\ Shrunk(r.sock, h.sock)
             /\ Counted(r, h, Len(d)) /\ HeadRule(r)
  OBVIOUS
<1>1. /\ Len(d) \in Nat \ {0} /\ total \in Nat \ {0}
      /\ h.st \in CliType /\ h.sock \in Socket(Bytes)
  BY DEF CliTurn, CliType
<1>2. head \in Seq(Bytes) /\ Len(head) = Len(h.st.headBuf) + Len(d)
  BY <1>1, ConcatTyped DEF CliType
<1>3. r = IF h.st.headDone THEN C!AckIfFlushed(straight)
          ELSE IF C!HeadComplete(head) THEN C!AckIfFlushed(released)
          ELSE C!FlushAck(held)
  <2>1. straight = [got EXCEPT !.sock = C!Write(@, d)]
    BY SameOperators
  <2> HIDE DEF straight
  <2> QED
    BY <2>1 DEF C!WriteLocal
<1>4. /\ got \in CliTurn /\ got.st = [h.st EXCEPT !.recvUnacked = total]
      /\ got.sock = h.sock /\ got.sent = h.sent
  <2>1. [h.st EXCEPT !.recvUnacked = total] \in CliType
    BY <1>1 DEF CliType
  <2> QED
    BY <1>1, <2>1 DEF CliTurn
<1> HIDE DEF got, head, r
<1>5. /\ got.st.recvUnacked = total /\ got.st.finished = h.st.finished
      /\ got.st.headDone = h.st.headDone /\ got.st.headBuf = h.st.headBuf
      /\ got.st.rewriteHost = h.st.rewriteHost
      /\ SameStream(got.st, h.st)
  BY <1>1, <1>4 DEF CliType, SameStream
<1>6. CASE h.st.headDone
  <2>1. Write(got.sock, d) \in Socket(Bytes)
    BY <1>1, <1>4, SocketWritten
  <2>2. /\ straight \in CliTurn /\ straight.st = got.st
        /\ straight.sock = Write(h.sock, d) /\ straight.sent = h.sent
    BY <1>4, <2>1 DEF CliTurn
  <2> HIDE DEF straight
  <2>3. \/ r = straight
        \/ /\ Len(straight.sock.out) < HighWater
           /\ r \in CliTurn
           /\ r.st = [straight.st EXCEPT !.recvUnacked = 0]
           /\ r.sock = straight.sock
           /\ r.sent = Append(straight.sent, AckFrame(straight.st.recvUnacked))
    BY <1>1, <1>3, <1>5, <1>6, <2>2, CliAckIfFlushed
  <2>4. /\ Shrunk(straight.sock, h.sock)
        /\ Len(straight.sock.out) \in Nat
        /\ Len(straight.sock.out) <= Len(h.sock.out) + Len(d)
    <3>1. /\ Shrunk(straight.sock, h.sock)
          /\ straight.sock.out = h.sock.out \o d \/ straight.sock.out = <<>>
          /\ straight.sock \in Socket(Bytes)
      BY <1>1, <2>2, SocketWritten, ZenonT(60)
    <3>2. Len(h.sock.out \o d) = Len(h.sock.out) + Len(d) /\ Len(h.sock.out) \in Nat
      BY <1>1, SocketTyped, ConcatTyped
    <3>3. Len(<<>>) = 0
      OBVIOUS
    <3> QED
      BY <1>1, <3>1, <3>2, <3>3, SMTT(40)
  <2>5. /\ Len(h.sock.out) \in Nat
        /\ h.st.recvUnacked \in Nat /\ RoomFor(h.st.rewriteHost) \in Nat
    BY <1>1, SocketTyped, RoomTyped DEF CliType
  <2>6. /\ h.st.headBuf = <<>>
        /\ Len(h.sock.out) < h.st.recvUnacked + HighWater + RoomFor(h.st.rewriteHost)
    BY <1>6 DEF HeadRule
  <2>7. CASE r = straight
    <3>1. /\ r.st.headDone /\ r.st.headBuf = <<>> /\ r.st.recvUnacked = total
          /\ r.st.rewriteHost = h.st.rewriteHost
      BY <1>5, <1>6, <2>2, <2>6, <2>7
    <3>2. Len(straight.sock.out) < total + HighWater + RoomFor(h.st.rewriteHost)
      <4> DEFINE x == Len(straight.sock.out)
                 y == Len(h.sock.out)
                 a == h.st.recvUnacked
                 c == RoomFor(h.st.rewriteHost)
      <4>1. /\ HighWater \in Nat /\ Len(d) \in Nat
            /\ x \in Nat /\ y \in Nat /\ a \in Nat /\ c \in Nat
            /\ x <= y + Len(d) /\ y < a + HighWater + c
        BY <1>1, <2>4, <2>5, <2>6, RoomTyped
      <4> HIDE DEF x, y, a, c
      <4>2. x < (a + Len(d)) + HighWater + c
        BY <4>1
      <4> QED
        BY <4>2 DEF x, a, c
    <3>3. HeadRule(r)
      BY <2>7, <3>1, <3>2 DEF HeadRule
    <3> QED
      BY <1>5, <2>2, <2>4, <2>7, <3>3 DEF Counted
  <2>8. CASE r # straight
    <3>1. straight.st \in CliType /\ r.st = [straight.st EXCEPT !.recvUnacked = 0]
      BY <1>4, <2>2, <2>3, <2>8 DEF CliTurn
    <3>2. /\ r.st.recvUnacked = 0 /\ r.st.headDone = straight.st.headDone
          /\ r.st.headBuf = straight.st.headBuf
          /\ SameStream(r.st, straight.st)
      BY <3>1 DEF SameStream, CliType
    <3>3. /\ r.st.headDone /\ r.st.headBuf = <<>>
          /\ r.st.rewriteHost = h.st.rewriteHost
          /\ SameStream(r.st, h.st)
      BY <1>5, <1>6, <2>2, <2>6, <3>2 DEF SameStream
    <3>4. Len(straight.sock.out) < 0 + HighWater + RoomFor(h.st.rewriteHost)
      BY <2>3, <2>4, <2>5, <2>8, RoomTyped, SMTT(40)
    <3>5. HeadRule(r)
      BY <2>3, <2>8, <3>2, <3>3, <3>4 DEF HeadRule
    <3> QED
      BY <1>5, <2>2, <2>3, <2>4, <2>8, <3>2, <3>3, <3>5 DEF Counted
  <2> QED
    BY <2>7, <2>8
<1>7. CASE ~h.st.headDone /\ C!HeadComplete(head)
  <2>1. /\ released \in CliTurn
        /\ released.st = [got.st EXCEPT !.headBuf = <<>>, !.headDone = TRUE]
        /\ released.sock = Write(h.sock, C!RewriteHostHeader(head))
        /\ released.sent = h.sent
    BY <1>2, <1>4, CliReleaseHead, ZenonT(60)
  <2> HIDE DEF released
  <2>2. /\ released.st.recvUnacked = total /\ ~released.st.finished
        /\ released.st.headBuf = <<>> /\ released.st.headDone
        /\ released.st.rewriteHost = h.st.rewriteHost
        /\ SameStream(released.st, h.st)
    BY <1>4, <1>5, <2>1 DEF SameStream, CliTurn, CliType
  <2>3. \/ r = released
        \/ /\ Len(released.sock.out) < HighWater
           /\ r \in CliTurn
           /\ r.st = [released.st EXCEPT !.recvUnacked = 0]
           /\ r.sock = released.sock
           /\ r.sent = Append(released.sent, AckFrame(released.st.recvUnacked))
    BY <1>1, <1>3, <1>7, <2>1, <2>2, CliAckIfFlushed
  <2>4. /\ h.st.rewriteHost /\ h.st.recvUnacked = 0 /\ h.sock.out = <<>>
        /\ Len(h.st.headBuf) < MaxHead
    BY <1>7 DEF HeadRule
  <2>5. /\ Shrunk(released.sock, h.sock)
        /\ Len(released.sock.out) \in Nat
        /\ Len(released.sock.out) <= Len(head) + Len(TargetBytes) - 1
    <3> DEFINE out == C!RewriteHostHeader(head)
    <3>1. out \in Seq(Bytes) /\ Len(out) <= Len(head) + Len(TargetBytes) - 1
      BY <1>2, Rewritten
    <3> HIDE DEF out
    <3>2. /\ Shrunk(released.sock, h.sock)
          /\ released.sock.out = h.sock.out \o out \/ released.sock.out = <<>>
          /\ released.sock \in Socket(Bytes)
      <4>1. /\ Write(h.sock, out) \in Socket(Bytes) /\ Shrunk(Write(h.sock, out), h.sock)
            /\ \/ Write(h.sock, out).out = h.sock.out \o out
               \/ Write(h.sock, out).out = <<>>
        BY <1>1, <3>1, SocketWritten
      <4>2. released.sock = Write(h.sock, out)
        BY <2>1 DEF out
      <4> QED
        BY <4>1, <4>2
    <3>3. h.sock.out \o out = out
      BY <2>4, <3>1
    <3>4. Len(<<>>) = 0 /\ Len(out) \in Nat /\ Len(head) \in Nat
      BY <1>2, <3>1
    <3> QED
      BY <3>1, <3>2, <3>3, <3>4, RoomTyped
  <2>6. Len(h.st.headBuf) \in Nat
    BY <1>1 DEF CliType
  <2>7. CASE r = released
    <3>1. h.st.rewriteHost = TRUE
      BY <1>1, <2>4 DEF CliType
    <3>2. Len(released.sock.out) < released.st.recvUnacked + HighWater + RoomFor(TRUE)
      <4> DEFINE x == Len(released.sock.out)
                 y == Len(h.st.headBuf)
                 z == Len(head)
                 n == Len(d)
                 m == Len(TargetBytes)
      <4>1. /\ HighWater \in Nat \ {0} /\ MaxHead \in Nat /\ m \in Nat
            /\ n \in Nat /\ x \in Nat /\ y \in Nat /\ z \in Nat
            /\ x <= z + m - 1 /\ z = y + n /\ y < MaxHead
        BY <1>1, <1>2, <2>4, <2>5, <2>6, RoomTyped
      <4>2. total = n
        BY <1>1, <2>4
      <4> HIDE DEF x, y, z, n, m, total
      <4>3. x < total + HighWater + (MaxHead - 1 + m - 1)
        BY <4>1, <4>2
      <4> QED
        BY <2>2, <4>3, RoomTyped DEF x, m
    <3>3. HeadRule(r)
      BY <2>2, <2>7, <3>1, <3>2 DEF HeadRule
    <3> QED
      BY <2>1, <2>2, <2>5, <2>7, <3>3 DEF Counted
  <2>8. CASE r # released
    <3>1. released.st \in CliType /\ r.st = [released.st EXCEPT !.recvUnacked = 0]
      BY <2>1, <2>3, <2>8 DEF CliTurn
    <3>2. /\ r.st.recvUnacked = 0 /\ r.st.headDone = released.st.headDone
          /\ r.st.headBuf = released.st.headBuf
          /\ SameStream(r.st, released.st)
      BY <3>1 DEF SameStream, CliType
    <3>3. /\ r.st.headDone /\ r.st.headBuf = <<>>
          /\ r.st.rewriteHost = h.st.rewriteHost
          /\ SameStream(r.st, h.st)
      BY <2>2, <3>2 DEF SameStream
    <3>4. RoomFor(h.st.rewriteHost) \in Nat
      BY <1>1, RoomTyped DEF CliType
    <3>5. Len(released.sock.out) < 0 + HighWater + RoomFor(h.st.rewriteHost)
      BY <2>3, <2>5, <2>8, <3>4, RoomTyped, SMTT(40)
    <3>6. HeadRule(r)
      BY <2>3, <2>8, <3>2, <3>3, <3>5 DEF HeadRule
    <3> QED
      BY <2>1, <2>2, <2>3, <2>5, <2>8, <3>2, <3>3, <3>6 DEF Counted
  <2> QED
    BY <2>7, <2>8
<1>8. CASE ~h.st.headDone /\ ~C!HeadComplete(head)
  <2>1. /\ held \in CliTurn /\ held.st = [got.st EXCEPT !.headBuf = head]
        /\ held.sock = h.sock /\ held.sent = h.sent
    <3>1. [got.st EXCEPT !.headBuf = head] \in CliType
      BY <1>2, <1>4 DEF CliTurn, CliType
    <3> QED
      BY <1>4, <3>1 DEF CliTurn
  <2> HIDE DEF held
  <2>2. /\ held.st.recvUnacked = total /\ ~held.st.finished
        /\ held.st.headBuf = head /\ ~held.st.headDone
        /\ SameStream(held.st, h.st)
    BY <1>4, <1>5, <1>8, <2>1 DEF SameStream, CliTurn, CliType
  <2>3. /\ r \in CliTurn /\ r.st = [held.st EXCEPT !.recvUnacked = 0]
        /\ r.sock = held.sock /\ r.sent = Append(held.sent, AckFrame(total))
    BY <1>1, <1>3, <1>8, <2>1, <2>2, CliFlushAck
  <2>4. /\ r.st.recvUnacked = 0 /\ ~r.st.headDone /\ r.st.headBuf = head
        /\ r.st.rewriteHost = h.st.rewriteHost /\ SameStream(r.st, h.st)
    BY <2>1, <2>2, <2>3 DEF SameStream, CliTurn, CliType
  <2>5. Len(head) < MaxHead
    BY <1>2, <1>8, RoomTyped DEF C!HeadComplete
  <2>6. Shrunk(r.sock, h.sock)
    BY <1>1, <2>1, <2>3, SocketTyped DEF Shrunk
  <2>7. HeadRule(r)
    BY <1>8, <2>1, <2>3, <2>4, <2>5 DEF HeadRule
  <2> QED
    BY <2>1, <2>3, <2>4, <2>6, <2>7 DEF Counted
<1> QED
  BY <1>6, <1>7, <1>8

\* onData, of the agent's class: queued until the dial is over, else written.
LEMMA CliOnData ==
  ASSUME NEW h \in CliTurn, NEW d \in Seq(Bytes), d # <<>>,
         ~h.st.finished, ~h.st.receivedEof, HeadRule(h)
  PROVE  LET r == C!OnData(h, d)
         IN  /\ r \in CliTurn
             /\ \/ /\ h.st.connected
                   /\ SameStream(r.st, h.st)
                   /\ Shrunk(r.sock, h.sock)
                   /\ Counted(r, h, Len(d))
                   /\ HeadRule(r)
                \/ /\ ~h.st.connected
                   /\ r.st = [h.st EXCEPT !.queued = Append(h.st.queued, d)]
                   /\ r.sock = h.sock
                   /\ r.sent = h.sent
<1>1. CASE h.st.connected
  BY <1>1, CliWriteLocal DEF C!OnData
<1>2. CASE ~h.st.connected
  <2> DEFINE r == [h EXCEPT !.st.queued = Append(@, d)]
  <2>1. C!OnData(h, d) = r
    BY <1>2 DEF C!OnData
  <2>2. h.st \in CliType /\ Append(h.st.queued, d) \in Seq(Seq(Bytes) \ {<<>>})
    BY DEF CliTurn, CliType
  <2>3. [h.st EXCEPT !.queued = Append(h.st.queued, d)] \in CliType
    BY <2>2 DEF CliType
  <2>4. /\ r \in CliTurn /\ r.st = [h.st EXCEPT !.queued = Append(h.st.queued, d)]
        /\ r.sock = h.sock /\ r.sent = h.sent
    BY <2>3 DEF CliTurn
  <2> HIDE DEF r
  <2> QED
    BY <1>2, <2>1, <2>4
<1> QED
  BY <1>1, <1>2

\* The end of the visitor's bytes, once there is a socket to pass it to.
Passed(r, h) ==
    /\ r \in CliTurn
    /\ r.st.dial = h.st.dial /\ r.st.connected = h.st.connected
    /\ r.st.sendCredit = h.st.sendCredit
    /\ r.st.pausedForCredit = h.st.pausedForCredit
    /\ r.st.pausedGlobally = h.st.pausedGlobally
    /\ r.st.sentEof = h.st.sentEof
    /\ r.st.receivedEof
    /\ r.st.finished = h.st.sentEof
    /\ r.st.queued = h.st.queued /\ r.st.queuedEof = h.st.queuedEof
    /\ r.st.rewriteHost = h.st.rewriteHost
    /\ r.st.recvUnacked = 0
    /\ r.sent = IF h.st.recvUnacked = 0 THEN h.sent
                ELSE Append(h.sent, AckFrame(h.st.recvUnacked))
    /\ Shrunk(r.sock, h.sock)
    /\ Len(r.sock.out) < h.st.recvUnacked + HighWater + RoomFor(h.st.rewriteHost)
    /\ r.st.headDone => r.st.headBuf = <<>>
    /\ ~r.st.headDone => /\ r.st.rewriteHost
                         /\ r.sock.out = <<>>
                         /\ Len(r.st.headBuf) < MaxHead

\* A head held back goes out, whatever it holds.
LEMMA CliHeadOut ==
  ASSUME NEW h \in CliTurn, HeadRule(h), h.st.headBuf # <<>>
  PROVE  LET r == C!ReleaseHead(h, h.st.headBuf)
         IN  /\ r \in CliTurn /\ SameStream(r.st, h.st)
             /\ r.st.recvUnacked = h.st.recvUnacked
             /\ r.st.headDone /\ r.st.headBuf = <<>>
             /\ r.sent = h.sent
             /\ Shrunk(r.sock, h.sock)
             /\ Len(r.sock.out) < h.st.recvUnacked + HighWater + RoomFor(h.st.rewriteHost)
<1> DEFINE head == h.st.headBuf
           out == C!RewriteHostHeader(head)
           r == C!ReleaseHead(h, head)
<1> SUFFICES /\ r \in CliTurn /\ SameStream(r.st, h.st)
             /\ r.st.recvUnacked = h.st.recvUnacked
             /\ r.st.headDone /\ r.st.headBuf = <<>>
             /\ r.sent = h.sent
             /\ Shrunk(r.sock, h.sock)
             /\ Len(r.sock.out) < h.st.recvUnacked + HighWater + RoomFor(h.st.rewriteHost)
  OBVIOUS
<1>1. /\ h.st \in CliType /\ h.sock \in Socket(Bytes) /\ head \in Seq(Bytes)
  BY DEF CliTurn, CliType
<1>2. /\ h.st.rewriteHost = TRUE /\ h.st.recvUnacked = 0 /\ h.sock.out = <<>>
      /\ Len(head) < MaxHead
  BY <1>1 DEF HeadRule, CliType
<1>3. /\ out \in Seq(Bytes) /\ Len(out) <= Len(head) + Len(TargetBytes) - 1
  BY <1>1, Rewritten
<1>4. /\ r \in CliTurn
      /\ r.st = [h.st EXCEPT !.headBuf = <<>>, !.headDone = TRUE]
      /\ r.sock = Write(h.sock, out)
      /\ r.sent = h.sent
  BY <1>1, CliReleaseHead, ZenonT(60)
<1> HIDE DEF r, out, head
<1>5. /\ r.st.recvUnacked = h.st.recvUnacked
      /\ r.st.headDone /\ r.st.headBuf = <<>>
      /\ SameStream(r.st, h.st)
  BY <1>1, <1>4 DEF SameStream, CliType
<1>6. /\ Shrunk(r.sock, h.sock)
      /\ r.sock.out = out \/ r.sock.out = <<>>
  <2>1. <<>> \o out = out
    BY <1>3
  <2>2. /\ Shrunk(Write(h.sock, out), h.sock)
        /\ \/ Write(h.sock, out).out = h.sock.out \o out
           \/ Write(h.sock, out).out = <<>>
    BY <1>1, <1>3, SocketWritten
  <2> QED
    BY <1>2, <1>4, <2>1, <2>2
<1>7. Len(r.sock.out) < 0 + HighWater + RoomFor(TRUE)
  <2> DEFINE x == Len(r.sock.out)
  <2>1. Len(<<>>) = 0 /\ Len(head) \in Nat /\ Len(out) \in Nat
    BY <1>1, <1>3
  <2>2. x = Len(out) \/ x = 0
    BY <1>6, <2>1
  <2> DEFINE y == Len(head)
             z == Len(out)
             m == Len(TargetBytes)
  <2>3. /\ HighWater \in Nat \ {0} /\ MaxHead \in Nat \ {0} /\ m \in Nat \ {0}
        /\ y \in Nat /\ z \in Nat /\ y < MaxHead /\ z <= y + m - 1
        /\ x = z \/ x = 0
    BY <1>2, <1>3, <2>1, <2>2, RoomTyped
  <2> HIDE DEF x, y, z, m
  <2>4. x < 0 + HighWater + (MaxHead - 1 + m - 1)
    BY <2>3
  <2> QED
    BY <2>4, RoomTyped DEF x, m
<1> QED
  BY <1>2, <1>4, <1>5, <1>6, <1>7

\* onEof, of the agent's class: it may have to let an unfinished head go.
LEMMA CliOnEof ==
  ASSUME NEW h \in CliTurn, ~h.st.finished, ~h.st.receivedEof, HeadRule(h)
  PROVE  LET r == C!OnEof(h)
         IN  \/ h.st.connected /\ Passed(r, h)
             \/ /\ ~h.st.connected
                /\ r \in CliTurn
                /\ r.st = [h.st EXCEPT !.queuedEof = TRUE]
                /\ r.sock = h.sock
                /\ r.sent = h.sent
<1> DEFINE half == [h EXCEPT !.st.receivedEof = TRUE]
           out == IF h.st.headBuf = <<>> THEN half
                  ELSE C!ReleaseHead(half, half.st.headBuf)
           acked == C!FlushAck(out)
           done == [acked EXCEPT !.sock = EndWrite(@)]
           r == C!OnEof(h)
<1>1. h.st \in CliType /\ h.sock \in Socket(Bytes)
  BY DEF CliTurn
<1>2. CASE ~h.st.connected
  <2> DEFINE q == [h EXCEPT !.st.queuedEof = TRUE]
  <2>1. r = q
    BY <1>2 DEF C!OnEof
  <2>2. [h.st EXCEPT !.queuedEof = TRUE] \in CliType
    BY <1>1 DEF CliType
  <2>3. /\ q \in CliTurn /\ q.st = [h.st EXCEPT !.queuedEof = TRUE]
        /\ q.sock = h.sock /\ q.sent = h.sent
    BY <2>2 DEF CliTurn
  <2> HIDE DEF q, r
  <2> QED
    BY <1>2, <2>1, <2>3 DEF r
<1>3. CASE h.st.connected
  <2>1. /\ half \in CliTurn /\ half.st = [h.st EXCEPT !.receivedEof = TRUE]
        /\ half.sock = h.sock /\ half.sent = h.sent
    <3>1. [h.st EXCEPT !.receivedEof = TRUE] \in CliType
      BY <1>1 DEF CliType
    <3> QED
      BY <3>1 DEF CliTurn
  <2> HIDE DEF half
  <2>2. /\ half.st.headBuf = h.st.headBuf /\ half.st.headDone = h.st.headDone
        /\ half.st.recvUnacked = h.st.recvUnacked
        /\ half.st.dial = h.st.dial /\ half.st.connected = h.st.connected
        /\ half.st.sendCredit = h.st.sendCredit
        /\ half.st.pausedForCredit = h.st.pausedForCredit
        /\ half.st.pausedGlobally = h.st.pausedGlobally
        /\ half.st.sentEof = h.st.sentEof /\ half.st.receivedEof
        /\ half.st.finished = h.st.finished
        /\ half.st.queued = h.st.queued /\ half.st.queuedEof = h.st.queuedEof
        /\ half.st.rewriteHost = h.st.rewriteHost
    BY <1>1, <2>1 DEF CliType
  <2>3. r = IF h.st.sentEof THEN C!Finish(done) ELSE done
    BY <1>3, <2>2, SameOperators DEF C!OnEof, half
  <2>4. HeadRule(half)
    BY <2>1, <2>2 DEF HeadRule
  <2>5. /\ out \in CliTurn /\ SameStream(out.st, half.st)
        /\ out.st.recvUnacked = h.st.recvUnacked
        /\ out.sent = h.sent
        /\ Shrunk(out.sock, h.sock)
        /\ Len(out.sock.out) < h.st.recvUnacked + HighWater + RoomFor(h.st.rewriteHost)
        /\ out.st.headDone => out.st.headBuf = <<>>
        /\ ~out.st.headDone => /\ out.st.rewriteHost
                               /\ out.sock.out = <<>>
                               /\ Len(out.st.headBuf) < MaxHead
    <3>1. CASE h.st.headBuf = <<>>
      <4>1. out = half
        BY <3>1
      <4>2. SameStream(half.st, half.st) /\ Shrunk(half.sock, h.sock)
        BY <1>1, <2>1, SocketTyped DEF SameStream, Shrunk
      <4>3. Len(half.sock.out) < h.st.recvUnacked + HighWater + RoomFor(h.st.rewriteHost)
        <5>1. CASE h.st.headDone
          BY <2>1, <5>1 DEF HeadRule
        <5>2. CASE ~h.st.headDone
          <6>1. /\ half.sock.out = <<>> /\ h.st.recvUnacked = 0 /\ Len(<<>>) = 0
                /\ h.st.rewriteHost \in BOOLEAN
            BY <1>1, <2>1, <5>2 DEF HeadRule, CliType
          <6> DEFINE room == RoomFor(h.st.rewriteHost)
          <6>2. room \in Nat /\ HighWater \in Nat \ {0}
            BY <6>1, RoomTyped
          <6> HIDE DEF room
          <6>3. 0 < 0 + HighWater + room
            BY <6>2
          <6> QED
            BY <6>1, <6>3 DEF room
        <5> QED
          BY <5>1, <5>2
      <4> HIDE DEF out
      <4> QED
        BY <2>1, <2>2, <2>4, <4>1, <4>2, <4>3 DEF HeadRule
    <3>2. CASE h.st.headBuf # <<>>
      <4>1. out = C!ReleaseHead(half, half.st.headBuf)
        BY <3>2
      <4> HIDE DEF out
      <4> QED
        BY <2>1, <2>2, <2>4, <3>2, <4>1, CliHeadOut
    <3> QED
      BY <3>1, <3>2
  <2> HIDE DEF out
  <2>6. out.st \in CliType /\ out.sock \in Socket(Bytes)
    BY <2>5 DEF CliTurn
  <2>7. ~out.st.finished
    BY <2>2, <2>5 DEF SameStream
  <2>8. /\ acked \in CliTurn /\ SameStream(acked.st, out.st)
        /\ acked.st.recvUnacked = 0
        /\ acked.st.headDone = out.st.headDone /\ acked.st.headBuf = out.st.headBuf
        /\ acked.sock = out.sock
        /\ acked.sent = IF h.st.recvUnacked = 0 THEN h.sent
                        ELSE Append(h.sent, AckFrame(h.st.recvUnacked))
    <3>1. CASE out.st.recvUnacked = 0
      <4>1. acked = out
        BY <2>5, <3>1, CliFlushAck
      <4> HIDE DEF acked
      <4> QED
        BY <2>5, <3>1, <4>1 DEF SameStream
    <3>2. CASE out.st.recvUnacked # 0
      <4>1. /\ acked \in CliTurn /\ acked.st = [out.st EXCEPT !.recvUnacked = 0]
            /\ acked.sock = out.sock
            /\ acked.sent = Append(out.sent, AckFrame(out.st.recvUnacked))
        BY <2>5, <2>7, <3>2, CliFlushAck
      <4> HIDE DEF acked
      <4>2. /\ SameStream(acked.st, out.st) /\ acked.st.recvUnacked = 0
            /\ acked.st.headDone = out.st.headDone /\ acked.st.headBuf = out.st.headBuf
        BY <2>6, <4>1 DEF SameStream, CliType
      <4> QED
        BY <2>5, <3>2, <4>1, <4>2
    <3> QED
      BY <3>1, <3>2
  <2> HIDE DEF acked
  <2>9. /\ EndWrite(acked.sock) \in Socket(Bytes)
        /\ EndWrite(acked.sock).out = out.sock.out
        /\ Shrunk(EndWrite(acked.sock), out.sock)
    BY <2>6, <2>8, SocketEvents
  <2>10. /\ done \in CliTurn /\ done.st = acked.st
         /\ done.sock = EndWrite(acked.sock) /\ done.sent = acked.sent
    BY <2>8, <2>9 DEF CliTurn
  <2>11. Shrunk(EndWrite(acked.sock), h.sock)
    BY <1>1, <2>5, <2>6, <2>9, SocketTyped DEF Shrunk
  <2> HIDE DEF done
  <2>12. /\ r \in CliTurn /\ r.sock = done.sock /\ r.sent = done.sent
         /\ \/ h.st.sentEof /\ r.st = [done.st EXCEPT !.finished = TRUE]
            \/ ~h.st.sentEof /\ r.st = done.st
    BY <2>3, <2>10, CliFinish
  <2>13. done.st \in CliType /\ h.st.sentEof \in BOOLEAN
    BY <1>1, <2>10 DEF CliTurn, CliType
  <2> HIDE DEF r
  <2>14. /\ r.st.dial = acked.st.dial /\ r.st.connected = acked.st.connected
         /\ r.st.sendCredit = acked.st.sendCredit
         /\ r.st.pausedForCredit = acked.st.pausedForCredit
         /\ r.st.pausedGlobally = acked.st.pausedGlobally
         /\ r.st.sentEof = acked.st.sentEof
         /\ r.st.receivedEof = acked.st.receivedEof
         /\ r.st.queued = acked.st.queued /\ r.st.queuedEof = acked.st.queuedEof
         /\ r.st.rewriteHost = acked.st.rewriteHost
         /\ r.st.recvUnacked = acked.st.recvUnacked
         /\ r.st.headDone = acked.st.headDone /\ r.st.headBuf = acked.st.headBuf
    BY <2>10, <2>12, <2>13 DEF CliType
  <2>15. r.st.finished = h.st.sentEof
    <3>1. CASE h.st.sentEof
      BY <2>12, <2>13, <3>1 DEF CliType
    <3>2. CASE ~h.st.sentEof
      <4>1. r.st.finished = acked.st.finished
        BY <2>10, <2>12, <3>2
      <4>2. acked.st.finished = h.st.finished /\ h.st.finished \in BOOLEAN
        BY <1>1, <2>2, <2>5, <2>8 DEF SameStream, CliType
      <4> QED
        BY <2>13, <3>2, <4>1, <4>2
    <3> QED
      BY <3>1, <3>2
  <2>16. r.sock.out = out.sock.out /\ Shrunk(r.sock, h.sock)
    BY <2>9, <2>10, <2>11, <2>12
  <2>17. Passed(r, h)
    BY <2>2, <2>5, <2>8, <2>10, <2>12, <2>14, <2>15, <2>16 DEF SameStream, Passed
  <2> QED
    BY <1>3, <2>17 DEF r
<1> QED
  BY <1>2, <1>3

\* A queue with one more chunk.
LEMMA AppendSeen ==
  ASSUME NEW c \in Seq(WireFrame), NEW f \in WireFrame
  PROVE  /\ Append(c, f) \in Seq(WireFrame)
         /\ TypesIn(Append(c, f)) = TypesIn(c) \cup {f.type}
         /\ DataIn(Append(c, f)) = DataIn(c) + DataOf(f)
         /\ AcksIn(Append(c, f)) = AcksIn(c) + AckOf(f)
<1>1. Append(c, f) = c \o <<f>>
  OBVIOUS
<1> QED
  BY <1>1, SentSeen DEF WireFrame

\* onStreamOpen: a stream that is dialled, or a reset.
LEMMA CliOnStreamOpen ==
  ASSUME NEW h \in CliTurn, NEW known \in BOOLEAN
  PROVE  LET r    == C!OnStreamOpen(h, known)
             dial == [h EXCEPT !.st.dial = "pending"]
         IN  \/ /\ ~known
                /\ r \in CliTurn /\ r.st = h.st /\ r.sock = h.sock
                /\ r.sent = Append(h.sent, ResetFrame)
             \/ /\ known
                /\ dial \in CliTurn
                /\ dial.st = [h.st EXCEPT !.dial = "pending"]
                /\ dial.sock = h.sock /\ dial.sent = h.sent
                /\ r = dial \/ CliRepaused(r, dial)
<1> DEFINE dial == [h EXCEPT !.st.dial = "pending"]
<1>1. h.st \in CliType
  BY DEF CliTurn
<1>2. [h.st EXCEPT !.dial = "pending"] \in CliType
  BY <1>1 DEF CliType
<1>3. /\ dial \in CliTurn /\ dial.st = [h.st EXCEPT !.dial = "pending"]
      /\ dial.sock = h.sock /\ dial.sent = h.sent
  BY <1>2 DEF CliTurn
<1>4. C!OnStreamOpen(h, known) =
        IF ~known THEN C!Send(h, ResetFrame)
        ELSE IF cliCongested THEN C!SetGlobalPause(dial, TRUE) ELSE dial
  BY SameOperators DEF C!OnStreamOpen
<1> HIDE DEF dial
<1>5. CliRepaused(C!SetGlobalPause(dial, TRUE), dial)
  BY <1>3, CliGlobalPause
<1>6. ResetFrame \in WireFrame
  BY BuiltFrames DEF WireFrame
<1>7. CASE ~known
  BY <1>4, <1>6, <1>7, CliSend
<1>8. CASE known
  BY <1>3, <1>4, <1>5, <1>8 DEF dial
<1> QED
  BY <1>7, <1>8

\* The turn t after replaying a count of n bytes into the turn up.
Replayed(t, up, n) ==
    /\ t \in CliTurn
    /\ SameStream(t.st, up.st)
    /\ Shrunk(t.sock, up.sock)
    /\ HeadRule(t)
    /\ TypesIn(t.sent) \subseteq {"ACK"}
    /\ DataIn(t.sent) = 0
    /\ t.st.recvUnacked + AcksIn(t.sent) = n

\* One step of the replay by attach: one queued chunk, written and counted.
LEMMA ReplayOne ==
  ASSUME NEW up \in CliTurn, NEW t, NEW n \in Nat, Replayed(t, up, n),
         ~up.st.finished, NEW d \in Seq(Bytes), d # <<>>
  PROVE  Replayed(C!WriteLocal(t, d), up, n + Len(d))
<1> DEFINE r == C!WriteLocal(t, d)
<1> SUFFICES Replayed(r, up, n + Len(d))
  OBVIOUS
<1>1. t \in CliTurn /\ ~t.st.finished /\ HeadRule(t)
  BY DEF Replayed, SameStream
<1>2. /\ r \in CliTurn /\ SameStream(r.st, t.st) /\ Shrunk(r.sock, t.sock)
      /\ Counted(r, t, Len(d)) /\ HeadRule(r)
  BY <1>1, CliWriteLocal
<1> HIDE DEF r
<1>3. /\ SameStream(r.st, up.st)
      /\ Shrunk(r.sock, up.sock)
  <2>1. SameStream(r.st, up.st)
    BY <1>2 DEF Replayed, SameStream
  <2>2. /\ Len(r.sock.inq) \in Nat /\ Len(t.sock.inq) \in Nat /\ Len(up.sock.inq) \in Nat
    BY <1>1, <1>2, SocketTyped DEF CliTurn
  <2>3. Shrunk(r.sock, up.sock)
    BY <1>2, <2>2, SMTT(40) DEF Replayed, Shrunk
  <2> QED
    BY <2>1, <2>3
<1> DEFINE u == t.st.recvUnacked
           v == r.st.recvUnacked
           m == Len(d)
           a == AcksIn(t.sent)
<1>4. /\ t.sent \in Seq(WireFrame) /\ u \in Nat /\ m \in Nat \ {0}
      /\ a \in Nat
  BY <1>1, CountsBounded, SMTT(40) DEF CliTurn, CliType, WireFrame
<1>5. u + a = n /\ DataIn(t.sent) = 0 /\ TypesIn(t.sent) \subseteq {"ACK"}
  BY DEF Replayed
<1>6. CASE v = u + m /\ r.sent = t.sent
  <2> HIDE DEF u, v, m, a
  <2>1. v + a = n + m
    BY <1>4, <1>5, <1>6
  <2>2. r.st.recvUnacked + AcksIn(r.sent) = n + Len(d)
    BY <1>6, <2>1 DEF a, v, m
  <2> QED
    BY <1>2, <1>3, <1>5, <1>6, <2>2 DEF Replayed
<1>7. CASE v = 0 /\ r.sent = Append(t.sent, AckFrame(u + m))
  <2>1. u + m \in Nat \ {0}
    BY <1>4
  <2> DEFINE f == AckFrame(u + m)
  <2>2. /\ f \in WireFrame /\ f.type = "ACK"
        /\ DataOf(f) = 0 /\ AckOf(f) = u + m
    <3> DEFINE x == u + m
    <3>1. x \in Nat \ {0}
      BY <2>1
    <3> HIDE DEF x
    <3>2. AckFrame(x) \in WireFrame /\ AckFrame(x).type = "ACK" /\ AckFrame(x).n = x
      BY <3>1, BuiltFrames DEF WireFrame, AckFrame
    <3>3. DataOf(AckFrame(x)) = 0 /\ AckOf(AckFrame(x)) = x
      BY <3>2 DEF DataOf, AckOf
    <3> QED
      BY <3>2, <3>3 DEF x
  <2> HIDE DEF f
  <2>3. /\ TypesIn(r.sent) = TypesIn(t.sent) \cup {"ACK"}
        /\ DataIn(r.sent) = DataIn(t.sent) + 0
        /\ AcksIn(r.sent) = a + (u + m)
    BY <1>4, <1>7, <2>2, AppendSeen DEF f
  <2>4. TypesIn(r.sent) \subseteq {"ACK"} /\ DataIn(r.sent) = 0
    BY <1>5, <2>3
  <2> DEFINE b == AcksIn(r.sent)
  <2>5. v = 0 /\ b = a + (u + m)
    BY <1>7, <2>3
  <2> HIDE DEF u, v, m, a, b
  <2>6. v + b = n + m
    BY <1>4, <1>5, <2>5
  <2>7. r.st.recvUnacked + AcksIn(r.sent) = n + Len(d)
    BY <2>6 DEF v, m, b
  <2> QED
    BY <1>2, <1>3, <2>4, <2>7 DEF Replayed
<1> QED
  BY <1>2, <1>6, <1>7 DEF Counted

\* The replay by attach, step by step.
LEMMA WrittenOneByOne ==
  ASSUME NEW up \in CliTurn, NEW q \in Seq(Seq(Bytes) \ {<<>>}),
         ~up.st.finished, HeadRule(up)
  PROVE  LET written[n \in 0..Len(q)] ==
               IF n = 0 THEN up ELSE C!WriteLocal(written[n - 1], q[n])
         IN  /\ written[0] = up
             /\ \A i \in 1..Len(q) : written[i] = C!WriteLocal(written[i - 1], q[i])
<1> DEFINE n == Len(q)
           W(x, i) == C!WriteLocal(x, q[i])
           f == CHOOSE f : f = [i \in 0..n |-> IF i = 0 THEN up ELSE W(f[i - 1], i)]
           A == {t \in CliTurn : HeadRule(t) /\ ~t.st.finished}
           G == [i \in 1..n |-> [t \in A |-> W(t, i)]]
<1>1. /\ n \in Nat /\ DOMAIN q = 1..n
      /\ \A i \in 1..n : q[i] \in Seq(Bytes) /\ q[i] # <<>> /\ Len(q[i]) \in Nat
  OBVIOUS
<1>2. G \in [1..n -> [A -> A]]
  <2>1. ASSUME NEW i \in 1..n, NEW t \in A PROVE W(t, i) \in A
    <3>1. q[i] \in Seq(Bytes) /\ q[i] # <<>>
      BY <1>1
    <3>2. W(t, i) \in CliTurn /\ HeadRule(W(t, i)) /\ SameStream(W(t, i).st, t.st)
      BY <3>1, CliWriteLocal
    <3> HIDE DEF W
    <3> QED
      BY <3>2 DEF SameStream
  <2> HIDE DEF W, A
  <2> QED
    BY <2>1
<1>3. \A i \in 1..n : \A t \in A : G[i][t] = W(t, i)
  OBVIOUS
<1>4. up \in A
  OBVIOUS
<1> HIDE DEF n, G, A, W
<1>5. PICK k : Iteration(k, A, up, n, G)
  BY ONLY <1>1, <1>2, <1>4, Iterates
<1>6. \A i \in 1..n : k[i] = W(k[i - 1], i)
  <2> TAKE i \in 1..n
  <2>1. i - 1 \in 0..n
    BY <1>1
  <2>2. k[i - 1] \in A
    BY <2>1, <1>5 DEF Iteration
  <2> QED
    BY <2>2, <1>3, <1>5 DEF Iteration
<1>7. k = [i \in 0..n |-> IF i = 0 THEN up ELSE W(k[i - 1], i)]
  <2> DEFINE h == [i \in 0..n |-> IF i = 0 THEN up ELSE W(k[i - 1], i)]
  <2>1. \A i \in 0..n : h[i] = k[i]
    BY <1>1, <1>5, <1>6 DEF Iteration
  <2>2. k = [i \in 0..n |-> k[i]]
    BY <1>5 DEF Iteration
  <2> QED
    BY <2>1, <2>2
<1>8. f = [i \in 0..n |-> IF i = 0 THEN up ELSE W(f[i - 1], i)]
  BY <1>7
<1> HIDE DEF f
<1>9. f[0] = up /\ \A i \in 1..n : f[i] = W(f[i - 1], i)
  <2>1. f[0] = up
    BY <1>1, <1>8
  <2>2. ASSUME NEW i \in 1..n PROVE f[i] = W(f[i - 1], i)
    BY <1>1, <1>8
  <2> QED
    BY <2>1, <2>2
<1> QED
  BY <1>9 DEF f, n, W

\* The frames queued while the dial was under way, written one by one.
LEMMA CliReplay ==
  ASSUME NEW up \in CliTurn, NEW q \in Seq(Seq(Bytes) \ {<<>>}),
         ~up.st.finished, HeadRule(up), up.sent = <<>>, up.st.recvUnacked = 0
  PROVE  LET written[n \in 0..Len(q)] ==
               IF n = 0 THEN up ELSE C!WriteLocal(written[n - 1], q[n])
         IN  Replayed(written[Len(q)], up, SumOf([i \in DOMAIN q |-> Len(q[i])]))
<1> DEFINE n == Len(q)
           W(x, i) == C!WriteLocal(x, q[i])
           f == CHOOSE f : f = [i \in 0..n |-> IF i = 0 THEN up ELSE W(f[i - 1], i)]
           lens == [i \in DOMAIN q |-> Len(q[i])]
<1>1. /\ n \in Nat /\ DOMAIN q = 1..n
      /\ \A i \in 1..n : q[i] \in Seq(Bytes) /\ q[i] # <<>> /\ Len(q[i]) \in Nat
  OBVIOUS
<1>2. /\ lens \in Seq(Int) /\ lens \in Seq(Nat) /\ Len(lens) = n
      /\ \A i \in 1..n : lens[i] = Len(q[i])
  BY <1>1
<1>3. f[0] = up /\ \A i \in 1..n : f[i] = W(f[i - 1], i)
  BY WrittenOneByOne
<1> HIDE DEF n, W, lens, f
<1>4. PICK g \in [0..n -> Int] : /\ g[0] = 0
                                 /\ \A i \in 1..n : g[i] = g[i - 1] + lens[i]
                                 /\ SumOf(lens) = g[n]
  <2>1. \E g \in [0..Len(lens) -> Int] :
           /\ g[0] = 0
           /\ \A i \in 1..Len(lens) : g[i] = g[i - 1] + lens[i]
           /\ SumOf(lens) = g[Len(lens)]
    BY <1>2, SumUpTo
  <2> QED
    BY <1>2, <2>1
<1>5. \A i \in 0..n : g[i] \in Nat /\ Replayed(f[i], up, g[i])
  <2> DEFINE T == {i \in 0..n : g[i] \in Nat /\ Replayed(f[i], up, g[i])}
  <2>1. 0 \in T
    <3>1. Len(up.sock.inq) \in Nat
      BY SocketTyped DEF CliTurn
    <3>2. SameStream(up.st, up.st) /\ Shrunk(up.sock, up.sock)
      BY <3>1 DEF SameStream, Shrunk
    <3>3. Replayed(up, up, 0)
      BY <3>2, EmptySeen DEF Replayed
    <3> QED
      BY <1>1, <1>3, <1>4, <3>3
  <2>2. ASSUME NEW i \in 1..n, i - 1 \in T PROVE i \in T
    <3>1. /\ i \in 0..n /\ g[i - 1] \in Nat /\ Replayed(f[i - 1], up, g[i - 1])
      BY <1>1, <2>2
    <3>2. /\ f[i] = W(f[i - 1], i) /\ g[i] = g[i - 1] + Len(q[i])
          /\ q[i] \in Seq(Bytes) /\ q[i] # <<>> /\ Len(q[i]) \in Nat
      BY <1>1, <1>2, <1>3, <1>4
    <3>3. Replayed(C!WriteLocal(f[i - 1], q[i]), up, g[i - 1] + Len(q[i]))
      BY <3>1, <3>2, ReplayOne
    <3>4. g[i] \in Nat /\ Replayed(f[i], up, g[i])
      BY <3>1, <3>2, <3>3 DEF W
    <3> QED
      BY <3>1, <3>4
  <2> HIDE DEF T
  <2>3. \A i \in 0..n : i \in T
    BY <1>1, <2>1, <2>2, Induction
  <2> QED
    BY <2>3 DEF T
<1>6. Replayed(f[n], up, SumOf(lens))
  BY <1>1, <1>4, <1>5
<1> QED
  BY <1>6 DEF f, n, W, lens

\* The dial has succeeded: what was queued, q bytes, is written and counts as
\* received, and so does the end of stream if it was queued too.
Attached(r, h, q) ==
    /\ r \in CliTurn
    /\ r.st.dial = h.st.dial /\ r.st.connected
    /\ r.st.sendCredit = h.st.sendCredit
    /\ r.st.pausedForCredit = h.st.pausedForCredit
    /\ r.st.pausedGlobally = h.st.pausedGlobally
    /\ r.st.sentEof = h.st.sentEof
    /\ r.st.receivedEof = h.st.queuedEof
    /\ r.st.queued = <<>> /\ r.st.queuedEof = h.st.queuedEof
    /\ r.st.finished => h.st.sentEof
    /\ r.st.rewriteHost = h.st.rewriteHost
    /\ TypesIn(r.sent) \subseteq {"ACK"}
    /\ DataIn(r.sent) = 0
    /\ r.st.recvUnacked + AcksIn(r.sent) = q
    /\ r.sock.readEnded = h.sock.readEnded
    /\ Len(r.sock.inq) <= Len(h.sock.inq)
    /\ Len(r.sock.out) < q + HighWater + RoomFor(h.st.rewriteHost)
    /\ ~h.st.queuedEof => HeadRule(r)
    /\ r.st.headDone => r.st.headBuf = <<>>
    /\ ~r.st.headDone => /\ r.st.rewriteHost
                         /\ r.st.recvUnacked = 0
                         /\ r.sock.out = <<>>
                         /\ Len(r.st.headBuf) < MaxHead

\* A stream attached while the uplink is congested starts paused.
LEMMA AttachedPaused ==
  ASSUME NEW h, NEW q, NEW r, Attached(r, h, q)
  PROVE  Attached([r EXCEPT !.sock = Pause(@)], h, q)
<1> DEFINE p == [r EXCEPT !.sock = Pause(@)]
<1>1. r \in CliTurn /\ r.sock \in Socket(Bytes)
  BY DEF Attached, CliTurn
<1>2. /\ Pause(r.sock) \in Socket(Bytes) /\ Pause(r.sock).out = r.sock.out
      /\ Pause(r.sock).inq = r.sock.inq /\ Shrunk(Pause(r.sock), r.sock)
  BY <1>1, PauseResume
<1>3. /\ p \in CliTurn /\ p.st = r.st /\ p.sent = r.sent /\ p.sock = Pause(r.sock)
  BY <1>1, <1>2 DEF CliTurn
<1> HIDE DEF p
<1>4. p.sock.out = r.sock.out /\ p.sock.inq = r.sock.inq /\ p.sock.readEnded = r.sock.readEnded
  BY <1>2, <1>3 DEF Shrunk
<1>5. HeadRule(r) => HeadRule(p)
  BY <1>3, <1>4 DEF HeadRule
<1>6. Attached(p, h, q)
  BY <1>3, <1>4, <1>5 DEF Attached
<1> QED
  BY <1>6 DEF p

\* attach: the replay of what was queued, its end of stream included, and a
\* socket that reads from now on.
LEMMA CliAttach ==
  ASSUME NEW h \in CliTurn, ~h.st.finished, ~h.st.receivedEof, HeadRule(h),
         h.sent = <<>>, h.st.recvUnacked = 0
  PROVE  Attached(C!Attach(h), h,
                  SumOf([i \in DOMAIN h.st.queued |-> Len(h.st.queued[i])]))
<1> DEFINE qs == h.st.queued
           q == SumOf([i \in DOMAIN h.st.queued |-> Len(h.st.queued[i])])
           up == [h EXCEPT !.st.connected = TRUE, !.sock = C!Resume(@)]
           written[n \in 0..Len(h.st.queued)] ==
             IF n = 0 THEN up ELSE C!WriteLocal(written[n - 1], h.st.queued[n])
           last == written[Len(h.st.queued)]
           replayed == [last EXCEPT !.st.queued = <<>>]
           ended == IF h.st.queuedEof THEN C!OnEof(replayed) ELSE replayed
           room == RoomFor(h.st.rewriteHost)
<1>1. h.st \in CliType /\ h.sock \in Socket(Bytes)
  BY DEF CliTurn
<1>2. C!Attach(h) = IF h.st.pausedGlobally THEN [ended EXCEPT !.sock = C!Pause(@)]
                    ELSE ended
  BY DEF C!Attach
<1>3. /\ up \in CliTurn /\ up.st = [h.st EXCEPT !.connected = TRUE]
      /\ up.sock = Resume(h.sock) /\ up.sent = <<>>
  <2>1. [h.st EXCEPT !.connected = TRUE] \in CliType
    BY <1>1 DEF CliType
  <2>2. Resume(h.sock) \in Socket(Bytes) /\ C!Resume(h.sock) = Resume(h.sock)
    BY <1>1, PauseResume, SameOperators
  <2> QED
    BY <2>1, <2>2 DEF CliTurn
<1> HIDE DEF up
<1>4. /\ up.st.dial = h.st.dial /\ up.st.connected
      /\ up.st.sendCredit = h.st.sendCredit
      /\ up.st.pausedForCredit = h.st.pausedForCredit
      /\ up.st.pausedGlobally = h.st.pausedGlobally
      /\ up.st.sentEof = h.st.sentEof /\ ~up.st.receivedEof
      /\ ~up.st.finished
      /\ up.st.queued = h.st.queued /\ up.st.queuedEof = h.st.queuedEof
      /\ up.st.rewriteHost = h.st.rewriteHost
  BY <1>1, <1>3 DEF CliType
<1>5. /\ up.st.recvUnacked = 0
      /\ up.st.headDone = h.st.headDone /\ up.st.headBuf = h.st.headBuf
  BY <1>1, <1>3 DEF CliType
<1>6. /\ up.sock.out = h.sock.out /\ up.sock.inq = h.sock.inq
      /\ up.sock.readEnded = h.sock.readEnded
  BY <1>1, <1>3, PauseResume
<1>7. HeadRule(up)
  BY <1>4, <1>5, <1>6 DEF HeadRule
<1>8. qs \in Seq(Seq(Bytes) \ {<<>>})
  BY <1>1 DEF CliType
<1>9. Replayed(last, up, q)
  <2> HIDE DEF qs
  <2>1. LET w[n \in 0..Len(qs)] ==
              IF n = 0 THEN up ELSE C!WriteLocal(w[n - 1], qs[n])
        IN  Replayed(w[Len(qs)], up, SumOf([i \in DOMAIN qs |-> Len(qs[i])]))
    BY <1>3, <1>4, <1>5, <1>7, <1>8, CliReplay
  <2> QED
    BY <2>1 DEF qs
<1> HIDE DEF last, q, qs
<1>10. /\ last \in CliTurn /\ last.st \in CliType /\ last.sock \in Socket(Bytes)
       /\ last.sent \in Seq(WireFrame)
       /\ SameStream(last.st, up.st) /\ Shrunk(last.sock, up.sock) /\ HeadRule(last)
       /\ TypesIn(last.sent) \subseteq {"ACK"} /\ DataIn(last.sent) = 0
       /\ last.st.recvUnacked + AcksIn(last.sent) = q
  BY <1>9 DEF Replayed, CliTurn
<1>11. /\ replayed \in CliTurn /\ replayed.st = [last.st EXCEPT !.queued = <<>>]
       /\ replayed.sock = last.sock /\ replayed.sent = last.sent
  <2>1. <<>> \in Seq(Seq(Bytes) \ {<<>>})
    OBVIOUS
  <2>2. [last.st EXCEPT !.queued = <<>>] \in CliType
    BY <1>10, <2>1 DEF CliType
  <2> QED
    BY <1>10, <2>2 DEF CliTurn
<1> HIDE DEF replayed
<1>12. /\ replayed.st.dial = last.st.dial /\ replayed.st.connected = last.st.connected
       /\ replayed.st.sendCredit = last.st.sendCredit
       /\ replayed.st.pausedForCredit = last.st.pausedForCredit
       /\ replayed.st.pausedGlobally = last.st.pausedGlobally
       /\ replayed.st.sentEof = last.st.sentEof
       /\ replayed.st.receivedEof = last.st.receivedEof
       /\ replayed.st.finished = last.st.finished
       /\ replayed.st.queued = <<>> /\ replayed.st.queuedEof = last.st.queuedEof
       /\ replayed.st.rewriteHost = last.st.rewriteHost
  BY <1>10, <1>11 DEF CliType
<1>13. /\ replayed.st.recvUnacked = last.st.recvUnacked
       /\ replayed.st.headDone = last.st.headDone
       /\ replayed.st.headBuf = last.st.headBuf
  BY <1>10, <1>11 DEF CliType
<1>14. HeadRule(replayed)
  BY <1>10, <1>11, <1>12, <1>13 DEF HeadRule
<1>15. /\ replayed.st.dial = h.st.dial /\ replayed.st.connected
       /\ replayed.st.sendCredit = h.st.sendCredit
       /\ replayed.st.pausedForCredit = h.st.pausedForCredit
       /\ replayed.st.pausedGlobally = h.st.pausedGlobally
       /\ replayed.st.sentEof = h.st.sentEof /\ ~replayed.st.receivedEof
       /\ ~replayed.st.finished
       /\ replayed.st.queued = <<>> /\ replayed.st.queuedEof = h.st.queuedEof
       /\ replayed.st.rewriteHost = h.st.rewriteHost
  BY <1>4, <1>10, <1>12 DEF SameStream
<1>16. /\ replayed.sock.readEnded = h.sock.readEnded
       /\ Len(replayed.sock.inq) <= Len(h.sock.inq)
  BY <1>6, <1>10, <1>11 DEF Shrunk
<1> DEFINE u == last.st.recvUnacked
           a == AcksIn(last.sent)
<1>17. u \in Nat /\ a \in Nat /\ u + a = q
  BY <1>10, CountsBounded DEF CliType, WireFrame
<1>18. room \in Nat /\ HighWater \in Nat \ {0}
  BY <1>1, RoomTyped DEF CliType
<1> HIDE DEF room
<1>19. Len(replayed.sock.out) < u + HighWater + room
  <2>1. CASE replayed.st.headDone
    BY <1>13, <1>14, <1>15, <2>1 DEF HeadRule, room
  <2>2. CASE ~replayed.st.headDone
    <3>1. Len(replayed.sock.out) = 0 /\ u = 0
      BY <1>13, <1>14, <2>2 DEF HeadRule
    <3> HIDE DEF u
    <3> QED
      BY <1>17, <1>18, <3>1
  <2> QED
    BY <2>1, <2>2
<1>20. Len(replayed.sock.out) \in Nat
  BY <1>11, SocketTyped DEF CliTurn
<1>21. Attached(ended, h, q)
  <2>1. CASE ~h.st.queuedEof
    <3>1. ended = replayed
      BY <2>1
    <3>2. Len(replayed.sock.out) < q + HighWater + room
      <4> DEFINE x == Len(replayed.sock.out)
      <4>1. x \in Nat /\ x < u + HighWater + room
        BY <1>19, <1>20
      <4> HIDE DEF x, u, a
      <4>2. x < q + HighWater + room
        BY <1>17, <1>18, <4>1
      <4> QED
        BY <4>2 DEF x
    <3>3. h.st.queuedEof = FALSE
      BY <1>1, <2>1 DEF CliType
    <3>4. replayed.st.receivedEof = FALSE
      BY <1>11, <1>15 DEF CliTurn, CliType
    <3>5. /\ TypesIn(replayed.sent) \subseteq {"ACK"} /\ DataIn(replayed.sent) = 0
          /\ replayed.st.recvUnacked + AcksIn(replayed.sent) = q
      BY <1>10, <1>11, <1>13
    <3>6. /\ replayed.st.headDone => replayed.st.headBuf = <<>>
          /\ ~replayed.st.headDone => /\ replayed.st.rewriteHost
                                      /\ replayed.st.recvUnacked = 0
                                      /\ replayed.sock.out = <<>>
                                      /\ Len(replayed.st.headBuf) < MaxHead
      BY <1>14 DEF HeadRule
    <3>7. Attached(replayed, h, q)
      BY <1>11, <1>14, <1>15, <1>16, <3>2, <3>3, <3>4, <3>5, <3>6 DEF Attached, room
    <3> HIDE DEF ended
    <3> QED
      BY <3>1, <3>7
  <2>2. CASE h.st.queuedEof
    <3>1. Passed(ended, replayed)
      BY <1>11, <1>14, <1>15, <2>2, CliOnEof
    <3> HIDE DEF ended
    <3>2. /\ TypesIn(ended.sent) \subseteq {"ACK"}
          /\ DataIn(ended.sent) = 0
          /\ AcksIn(ended.sent) = q
      <4>1. CASE u = 0
        <5>1. ended.sent = last.sent
          BY <1>11, <1>13, <3>1, <4>1 DEF Passed
        <5>2. a = q
          <6> HIDE DEF u, a
          <6> QED
            BY <1>17, <4>1
        <5> QED
          BY <1>10, <5>1, <5>2
      <4>2. CASE u # 0
        <5>1. ended.sent = Append(last.sent, AckFrame(u))
          BY <1>11, <1>13, <3>1, <4>2 DEF Passed
        <5>2. /\ AckFrame(u) \in WireFrame /\ AckFrame(u).type = "ACK"
              /\ DataOf(AckFrame(u)) = 0 /\ AckOf(AckFrame(u)) = u
          <6> HIDE DEF u
          <6>1. u \in Nat \ {0}
            BY <1>17, <4>2
          <6>2. AckFrame(u) \in WireFrame /\ AckFrame(u).type = "ACK" /\ AckFrame(u).n = u
            BY <6>1, BuiltFrames DEF WireFrame, AckFrame
          <6> QED
            BY <6>2 DEF DataOf, AckOf
        <5> DEFINE f == AckFrame(u)
        <5> HIDE DEF f
        <5>3. /\ TypesIn(ended.sent) = TypesIn(last.sent) \cup {"ACK"}
              /\ DataIn(ended.sent) = DataIn(last.sent) + 0
              /\ AcksIn(ended.sent) = a + u
          BY <1>10, <5>1, <5>2, AppendSeen DEF f
        <5>4. a + u = q
          <6> HIDE DEF u, a
          <6> QED
            BY <1>17
        <5> QED
          BY <1>10, <5>3, <5>4
      <4> QED
        BY <4>1, <4>2
    <3>3. /\ ended \in CliTurn /\ ended.st.recvUnacked = 0 /\ ended.st.receivedEof
          /\ Shrunk(ended.sock, replayed.sock)
          /\ Len(ended.sock.out) < u + HighWater + room
      BY <1>13, <1>15, <3>1 DEF Passed, room
    <3>4. /\ Len(ended.sock.out) \in Nat /\ Len(ended.sock.inq) \in Nat
          /\ Len(replayed.sock.inq) \in Nat /\ Len(h.sock.inq) \in Nat
      BY <1>1, <1>11, <3>3, SocketTyped DEF CliTurn
    <3>5. /\ ended.sock.readEnded = h.sock.readEnded
          /\ Len(ended.sock.inq) <= Len(h.sock.inq)
      BY <1>16, <3>3, <3>4, SMTT(40) DEF Shrunk
    <3>6. Len(ended.sock.out) < q + HighWater + room
      <4> DEFINE x == Len(ended.sock.out)
      <4>1. x \in Nat /\ x < u + HighWater + room
        BY <3>3, <3>4
      <4> HIDE DEF x, u, a
      <4>2. x < q + HighWater + room
        BY <1>17, <1>18, <4>1
      <4> QED
        BY <4>2 DEF x
    <3>7. ended.st.recvUnacked + AcksIn(ended.sent) = q
      <4>1. q \in Nat
        <5> HIDE DEF u, a
        <5> QED
          BY <1>17
      <4> QED
        BY <3>2, <3>3, <4>1
    <3>8. h.st.queuedEof = TRUE /\ ended.st.receivedEof = TRUE
      BY <1>1, <2>2, <3>3 DEF CliType, CliTurn
    <3> QED
      BY <1>15, <2>2, <3>1, <3>2, <3>3, <3>5, <3>6, <3>7, <3>8, ZenonT(60) DEF Attached, Passed, room
  <2> QED
    BY <2>1, <2>2
<1> HIDE DEF ended
<1>22. C!Pause(ended.sock) = Pause(ended.sock)
  BY SameOperators
<1>23. Attached([ended EXCEPT !.sock = Pause(@)], h, q)
  BY <1>21, AttachedPaused
<1>24. Attached(C!Attach(h), h, q)
  BY <1>2, <1>21, <1>22, <1>23
<1> QED
  BY <1>24 DEF q

-----------------------------------------------------------------------------
\* The inductive invariant, by what it is about.

\* Types, with no bounds on the counts yet: those follow from Flow.
Types ==
    /\ srv \in SrvType
    /\ pub \in Socket(Bytes)
    /\ srvCongested \in BOOLEAN
    /\ srvClosed \in BOOLEAN
    /\ cli \in CliType
    /\ loc \in Socket(Bytes)
    /\ cliCongested \in BOOLEAN
    /\ cliClosed \in BOOLEAN
    /\ linkUp \in BOOLEAN
    /\ toAgent \in Seq(WireFrame)
    /\ toServer \in Seq(WireFrame)
    /\ visitorSaid \in 0..UpBytes
    /\ serviceSaid \in 0..DownBytes
    /\ congestions \in [{"server", "agent"} -> 0..MaxCongestions]

\* What has not begun has left no trace: a stream is opened, then announced,
\* then dialled, then connected, and only a connected socket is used.
LifeOfServer ==
    /\ ~srv.opened => /\ srv = S!NoStream
                      /\ toAgent = <<>>
                      /\ toServer = <<>>
                      /\ cli.dial = "none"
    /\ srvClosed => ~linkUp
    /\ cliClosed => ~linkUp

\* The same for the agent's stream, which waits for its dial.
LifeOfAgent ==
    /\ cli.dial = "none" => cli = C!NoClientStream(cli.rewriteHost)
    /\ cli.dial # "over" => ~cli.connected /\ loc = NewSocket
    /\ cli.dial = "over" => cli.connected \/ cli.finished
    /\ ~cli.connected => /\ serviceSaid = 0
                         /\ loc.inq = <<>> /\ loc.out = <<>>
                         /\ ~loc.flowing /\ ~loc.readEnded
                         /\ ~cli.pausedForCredit
                         /\ ~cli.sentEof /\ ~cli.receivedEof
                         /\ cli.recvUnacked = 0
                         /\ cli.headBuf = <<>> /\ cli.headDone = ~cli.rewriteHost

\* Frames in the queues agree with what their senders have done.
Chan ==
    /\ Orderly(toAgent)
    /\ "EOF" \in TypesIn(toAgent) => srv.sentEof
    /\ "RESET" \in TypesIn(toAgent) => srv.finished
    /\ "OPEN" \in TypesIn(toAgent) => cli.dial = "none" /\ toServer = <<>>
    /\ Orderly(toServer)
    /\ "EOF" \in TypesIn(toServer) => cli.sentEof
    /\ "RESET" \in TypesIn(toServer) =>
           cli.finished \/ (cli.dial = "none" /\ "OPEN" \notin TypesIn(toAgent))
    /\ "OPEN" \notin TypesIn(toServer)
    /\ cli.dial = "none" => TypesIn(toServer) \subseteq {"RESET"}

\* Whoever is done with its own direction has said so, or need not.
Ended == {"EOF", "RESET"}

\* Whoever is done with its own direction has said so, or need not.
Informed ==
    /\ pub.readEnded => srv.sentEof \/ srv.finished
    /\ loc.readEnded => cli.sentEof \/ cli.finished
    /\ linkUp /\ (srv.sentEof \/ srv.finished) =>
           \/ cli.dial = "none" /\ "OPEN" \notin TypesIn(toAgent)
           \/ cli.finished \/ cli.queuedEof \/ cli.receivedEof
           \/ Ended \cap TypesIn(toAgent) # {}
    /\ linkUp /\ (cli.sentEof \/ cli.finished) =>
           \/ srv.finished \/ srv.receivedEof
           \/ Ended \cap TypesIn(toServer) # {}

\* An end of stream is the last of the data.
Eof ==
    /\ cli.receivedEof \/ cli.queuedEof =>
           srv.sentEof /\ "DATA" \notin TypesIn(toAgent)
    /\ srv.receivedEof => cli.sentEof /\ "DATA" \notin TypesIn(toServer)

\* The places where a byte of the visitor's window can be.
UpSum == srv.sendCredit + DataIn(toAgent) + QueuedBytes + cli.recvUnacked
           + AcksIn(toServer)

\* The places where a byte of the service's window can be.
DownSum == cli.sendCredit + DataIn(toServer) + srv.recvUnacked + AcksIn(toAgent)

\* Credit is conserved while both ends work on the stream and never made, and
\* a sender's credit is what its socket has not emitted.
Flow ==
    /\ UpSum <= Window /\ (BothLive => UpSum = Window)
    /\ DownSum <= Window /\ (BothLive => DownSum = Window)
    /\ srv.sendCredit + visitorSaid - Len(pub.inq) >= Window
    /\ cli.sendCredit + serviceSaid - Len(loc.inq) >= Window

\* A socket emits 'data' only while there is credit.
SrvPauses ==
    /\ srv.pausedForCredit => ~pub.flowing
    /\ srv.sendCredit <= 0 => srv.pausedForCredit
    /\ srv.sendCredit > -MaxChunk

\* The same at the agent.
CliPauses ==
    /\ cli.pausedForCredit => ~loc.flowing
    /\ cli.sendCredit <= 0 => cli.pausedForCredit
    /\ cli.sendCredit > -MaxChunk

\* What is unacknowledged is at most this.
WindowAndChunk == Window + MaxChunk - 1

\* What a socket buffers is not yet acknowledged, but for a buffer that write()
\* called free and a head that was held back.
SrvBuffers ==
    /\ Len(pub.out) < WindowAndChunk + HighWater
    /\ ~srv.receivedEof => Len(pub.out) < srv.recvUnacked + HighWater

\* The same at the agent, with the head that waits for its rewrite.
CliBuffers ==
    /\ Len(loc.out) < WindowAndChunk + HighWater + RoomFor(cli.rewriteHost)
    /\ ~cli.receivedEof =>
           Len(loc.out) < cli.recvUnacked + HighWater + RoomFor(cli.rewriteHost)
    /\ ~cli.headDone => /\ cli.rewriteHost
                        /\ cli.recvUnacked = 0
                        /\ loc.out = <<>>
                        /\ Len(cli.headBuf) < MaxHead
    /\ cli.headDone => cli.headBuf = <<>>

\* The inductive invariant.
IInv == /\ Types /\ LifeOfServer /\ LifeOfAgent /\ Chan /\ Informed /\ Eof
        /\ Flow /\ SrvPauses /\ CliPauses /\ SrvBuffers /\ CliBuffers

-----------------------------------------------------------------------------
\* Channels.

\* An empty queue carries nothing.
LEMMA NoFrames ==
  ASSUME NEW c \in Seq(WireFrame)
  PROVE  c = <<>> <=> TypesIn(c) = {}
<1>1. c # <<>> => Head(c).type \in TypesIn(c)
  BY TakenSeen DEF WireFrame
<1> QED
  BY <1>1, EmptySeen

\* The frames e follow what is in the channel, unless the link is gone.
LEMMA Grown ==
  ASSUME NEW c \in Seq(WireFrame), NEW e \in Seq(WireFrame), NEW c2,
         c2 = IF linkUp THEN c \o e ELSE c
  PROVE  /\ c2 \in Seq(WireFrame)
         /\ TypesIn(c2) = IF linkUp THEN TypesIn(c) \cup TypesIn(e) ELSE TypesIn(c)
         /\ DataIn(c2) = IF linkUp THEN DataIn(c) + DataIn(e) ELSE DataIn(c)
         /\ AcksIn(c2) = IF linkUp THEN AcksIn(c) + AcksIn(e) ELSE AcksIn(c)
         /\ DataIn(c2) \in Nat /\ AcksIn(c2) \in Nat
         /\ DataIn(c) \in Nat /\ AcksIn(c) \in Nat
         /\ DataIn(e) \in Nat /\ AcksIn(e) \in Nat
<1>1. CASE linkUp
  BY <1>1, ConcatSeen, CountsBounded, SMTT(40) DEF WireFrame
<1>2. CASE ~linkUp
  BY <1>2, CountsBounded DEF WireFrame
<1> QED
  BY <1>1, <1>2

\* Frames said in order by a sender that keeps its promises leave a queue in
\* order.
LEMMA GrownOrderly ==
  ASSUME NEW c \in Seq(WireFrame), NEW e \in Seq(WireFrame), NEW c2,
         c2 = IF linkUp THEN c \o e ELSE c,
         Orderly(c), Orderly(e),
         "EOF" \in TypesIn(c) => "DATA" \notin TypesIn(e),
         "RESET" \in TypesIn(c) => TypesIn(e) \subseteq {"RESET"},
         "OPEN" \in TypesIn(e) => c = <<>>
  PROVE  Orderly(c2)
<1>1. CASE ~linkUp
  BY <1>1
<1>2. CASE linkUp
  <2> DEFINE n == Len(c)
             m == Len(e)
  <2>1. /\ n \in Nat /\ m \in Nat
        /\ DOMAIN c = 1..n /\ DOMAIN e = 1..m
        /\ DOMAIN c2 = 1..(n + m)
        /\ \A i \in 1..n : c2[i] = c[i]
        /\ \A i \in 1..m : c2[n + i] = e[i]
        /\ c = <<>> => n = 0
    BY <1>2
  <2> HIDE DEF n, m
  <2>2. SUFFICES ASSUME NEW i \in 1..(n + m), NEW j \in 1..(n + m), i < j
                 PROVE  /\ c2[i].type = "EOF" => c2[j].type # "DATA"
                        /\ c2[i].type = "RESET" => c2[j].type = "RESET"
                        /\ c2[j].type # "OPEN"
    <3>1. DOMAIN c2 = 1..(n + m)
      BY <2>1
    <3> QED
      BY ONLY <2>2, <3>1 DEF Orderly
  <2>3. CASE j \in 1..n
    <3>1. i \in 1..n
      BY <2>1, <2>2, <2>3
    <3> QED
      BY <2>1, <2>2, <2>3, <3>1, SMTT(40) DEF Orderly
  <2>4. CASE i \in 1..n /\ j \notin 1..n
    <3>1. j - n \in 1..m /\ j = n + (j - n)
      BY <2>1, <2>2, <2>4
    <3>2. c2[i] = c[i] /\ c2[j] = e[j - n]
      BY <2>1, <2>4, <3>1
    <3>3. c[i].type \in TypesIn(c) /\ e[j - n].type \in TypesIn(e)
      BY <2>1, <2>4, <3>1 DEF TypesIn
    <3>4. n # 0
      BY <2>1, <2>4
    <3> QED
      BY <2>1, <3>2, <3>3, <3>4, SMTT(40)
  <2>5. CASE i \notin 1..n
    <3>1. /\ i - n \in 1..m /\ i = n + (i - n)
          /\ j - n \in 1..m /\ j = n + (j - n)
          /\ i - n < j - n
      BY <2>1, <2>2, <2>5
    <3> DEFINE a == i - n
               b == j - n
    <3>2. /\ a \in DOMAIN e /\ b \in DOMAIN e /\ a < b
          /\ c2[i] = e[a] /\ c2[j] = e[b]
      BY <2>1, <3>1
    <3> HIDE DEF a, b
    <3> QED
      BY <3>2, ZenonT(60) DEF Orderly
  <2> QED
    BY <2>3, <2>4, <2>5
<1> QED
  BY <1>1, <1>2

\* The frames t, one or none, are taken from the front.
LEMMA Shortened ==
  ASSUME NEW c \in Seq(WireFrame), NEW t \in Seq(WireFrame)
  PROVE  /\ TypesIn(t \o c) = TypesIn(t) \cup TypesIn(c)
         /\ DataIn(t \o c) = DataIn(t) + DataIn(c)
         /\ AcksIn(t \o c) = AcksIn(t) + AcksIn(c)
         /\ DataIn(t) \in Nat /\ AcksIn(t) \in Nat
         /\ DataIn(c) \in Nat /\ AcksIn(c) \in Nat
         /\ t \o c = <<>> => t = <<>> /\ c = <<>>
         /\ TypesIn(t) = {} <=> t = <<>>
<1>1. /\ TypesIn(t \o c) = TypesIn(t) \cup TypesIn(c)
      /\ DataIn(t \o c) = DataIn(t) + DataIn(c)
      /\ AcksIn(t \o c) = AcksIn(t) + AcksIn(c)
  BY ConcatSeen DEF WireFrame
<1>2. /\ DataIn(t) \in Nat /\ AcksIn(t) \in Nat
      /\ DataIn(c) \in Nat /\ AcksIn(c) \in Nat
  BY CountsBounded DEF WireFrame
<1>3. TypesIn(t) = {} <=> t = <<>>
  BY NoFrames
<1>4. t \o c = <<>> => t = <<>> /\ c = <<>>
  OBVIOUS
<1> QED
  BY <1>1, <1>2, <1>3, <1>4

\* What is left of a queue in order is in order, and an announcement taken is
\* gone.
LEMMA ShortenedOrderly ==
  ASSUME NEW c \in Seq(WireFrame), NEW t \in Seq(WireFrame),
         NEW c2 \in Seq(WireFrame), c = t \o c2, Orderly(c)
  PROVE  /\ Orderly(c2)
         /\ "EOF" \in TypesIn(t) => "DATA" \notin TypesIn(c2)
         /\ "RESET" \in TypesIn(t) => TypesIn(c2) \subseteq {"RESET"}
         /\ t # <<>> => "OPEN" \notin TypesIn(c2)
<1> DEFINE n == Len(t)
           m == Len(c2)
<1>1. /\ n \in Nat /\ m \in Nat
      /\ DOMAIN t = 1..n /\ DOMAIN c2 = 1..m /\ DOMAIN c = 1..(n + m)
      /\ \A i \in 1..n : c[i] = t[i]
      /\ \A i \in 1..m : c[n + i] = c2[i]
      /\ t # <<>> => n # 0
  OBVIOUS
<1> HIDE DEF n, m
<1>2. Orderly(c2)
  <2>1. SUFFICES ASSUME NEW i \in 1..m, NEW j \in 1..m, i < j
                 PROVE  /\ c2[i].type = "EOF" => c2[j].type # "DATA"
                        /\ c2[i].type = "RESET" => c2[j].type = "RESET"
                        /\ c2[j].type # "OPEN"
    BY <1>1 DEF Orderly
  <2>2. n + i \in 1..(n + m) /\ n + j \in 1..(n + m) /\ n + i < n + j
    BY <1>1, <2>1
  <2>3. c[n + i] = c2[i] /\ c[n + j] = c2[j]
    BY <1>1
  <2> DEFINE a == n + i
             b == n + j
  <2> HIDE DEF a, b
  <2>4. a \in DOMAIN c /\ b \in DOMAIN c /\ a < b /\ c[a] = c2[i] /\ c[b] = c2[j]
    BY <1>1, <2>2, <2>3 DEF a, b
  <2> QED
    BY <2>4, SMTT(40) DEF Orderly
<1>3. ASSUME NEW i \in 1..n, NEW j \in 1..m
      PROVE  /\ t[i].type = "EOF" => c2[j].type # "DATA"
             /\ t[i].type = "RESET" => c2[j].type = "RESET"
             /\ c2[j].type # "OPEN"
  <2> DEFINE b == n + j
  <2>1. i \in DOMAIN c /\ b \in DOMAIN c /\ i < b /\ c[i] = t[i] /\ c[b] = c2[j]
    BY <1>1
  <2> HIDE DEF b
  <2> QED
    BY <2>1, ZenonT(60) DEF Orderly
<1>4. n # 0 => 1 \in 1..n
  BY <1>1
<1> QED
  BY <1>1, <1>2, <1>3, <1>4 DEF TypesIn

\* None, and one.
LEMMA FewFrames ==
  /\ <<>> \in Seq(WireFrame) /\ Orderly(<<>>)
  /\ TypesIn(<<>>) = {} /\ DataIn(<<>>) = 0 /\ AcksIn(<<>>) = 0
  /\ \A f \in WireFrame : /\ <<f>> \in Seq(WireFrame) /\ Orderly(<<f>>)
                          /\ TypesIn(<<f>>) = {f.type}
                          /\ DataIn(<<f>>) = DataOf(f)
                          /\ AcksIn(<<f>>) = AckOf(f)
<1>1. <<>> \in Seq(WireFrame) /\ Orderly(<<>>)
  BY DEF Orderly
<1>2. ASSUME NEW f \in WireFrame
      PROVE  /\ <<f>> \in Seq(WireFrame) /\ Orderly(<<f>>)
             /\ TypesIn(<<f>>) = {f.type}
             /\ DataIn(<<f>>) = DataOf(f)
             /\ AcksIn(<<f>>) = AckOf(f)
  <2>1. /\ <<f>> \in Seq(WireFrame)
        /\ TypesIn(<<f>>) = {f.type}
        /\ DataIn(<<f>>) = DataOf(f)
        /\ AcksIn(<<f>>) = AckOf(f)
    BY OneSeen DEF WireFrame
  <2>2. Orderly(<<f>>)
    <3>1. DOMAIN <<f>> = 1..1
      OBVIOUS
    <3>2. \A i, j \in 1..1 : ~(i < j)
      OBVIOUS
    <3> QED
      BY <3>1, <3>2 DEF Orderly
  <2> QED
    BY <2>1, <2>2
<1> QED
  BY <1>1, <1>2, EmptySeen

-----------------------------------------------------------------------------
\* What a turn of the server's end does, seen from the rest of the system: it
\* says the frames e, having taken the frames t, one or none, from its queue.

\* The frames and everything a turn of the server may not touch.
SrvWire(e, t) ==
    /\ e \in Seq(WireFrame) /\ t \in Seq(WireFrame) /\ Orderly(e)
    /\ toAgent' = IF linkUp THEN toAgent \o e ELSE toAgent
    /\ toServer' \in Seq(WireFrame) /\ toServer = t \o toServer'
    /\ UNCHANGED <<cVars, linkUp, serviceSaid>>
    /\ visitorSaid' \in 0..UpBytes
    /\ congestions' \in [{"server", "agent"} -> 0..MaxCongestions]
    /\ srv' \in SrvType /\ pub' \in Socket(Bytes)
    /\ srvCongested' \in BOOLEAN /\ srvClosed' \in BOOLEAN
    /\ srvClosed' => ~linkUp

\* Its promises: what is said agrees with what the stream then remembers.
SrvWord(e, t) ==
    /\ srv.opened => srv'.opened
    /\ ~srv'.opened => srv' = S!NoStream /\ e = <<>>
    /\ "OPEN" \in TypesIn(e) => ~srv.opened
    /\ srv'.opened /\ ~srv.opened /\ linkUp => "OPEN" \in TypesIn(e)
    /\ srv.sentEof => srv'.sentEof /\ "DATA" \notin TypesIn(e)
    /\ srv.finished => srv'.finished /\ TypesIn(e) \subseteq {"RESET"}
    /\ srv.receivedEof => srv'.receivedEof
    /\ "EOF" \in TypesIn(e) => srv'.sentEof
    /\ srv'.sentEof => srv.sentEof \/ "EOF" \in TypesIn(e)
    /\ "RESET" \in TypesIn(e) => srv'.finished
    /\ srv'.finished => \/ srv.finished \/ srv'.sentEof \/ ~linkUp
                        \/ "RESET" \in TypesIn(e) \/ "RESET" \in TypesIn(t)
    /\ "EOF" \in TypesIn(t) => srv'.receivedEof \/ srv'.finished
    /\ "RESET" \in TypesIn(t) => srv'.finished
    /\ srv'.receivedEof => srv.receivedEof \/ "EOF" \in TypesIn(t)
    /\ pub'.readEnded => srv'.sentEof \/ srv'.finished

\* Its accounts: what is sent is paid for, what is taken is owed or
\* acknowledged, and only data that were paid for leave the socket.
SrvBytes(e, t) ==
    /\ srv'.sendCredit + DataIn(e) <= srv.sendCredit + AcksIn(t)
    /\ srv'.recvUnacked + AcksIn(e) <= srv.recvUnacked + DataIn(t)
    /\ ~srv'.finished =>
          /\ srv'.sendCredit + DataIn(e) = srv.sendCredit + AcksIn(t)
          /\ srv'.recvUnacked + AcksIn(e) = srv.recvUnacked + DataIn(t)
    /\ DataIn(e) > 0 => /\ srv.sendCredit > 0
                        /\ DataIn(e) <= Largest
                        /\ t = <<>>
    /\ srv'.sendCredit + visitorSaid' - Len(pub'.inq) >= Window
    /\ SrvPauses'
    /\ ~srv'.receivedEof => Len(pub'.out) < srv'.recvUnacked + HighWater
    /\ srv'.receivedEof => Len(pub'.out) < WindowAndChunk + HighWater

\* The law of a turn of the server's end.
SrvLaw(e, t) == SrvWire(e, t) /\ SrvWord(e, t) /\ SrvBytes(e, t)

\* The bytes of the queued chunks are a count.
LEMMA QueuedTyped ==
  ASSUME NEW s \in CliType
  PROVE  /\ [i \in DOMAIN s.queued |-> Len(s.queued[i])] \in Seq(Nat)
         /\ [i \in DOMAIN s.queued |-> Len(s.queued[i])] \in Seq(Int)
         /\ SumOf([i \in DOMAIN s.queued |-> Len(s.queued[i])]) \in Nat
<1> DEFINE q == s.queued
           lens == [i \in DOMAIN q |-> Len(q[i])]
<1>1. q \in Seq(Seq(Bytes) \ {<<>>})
  BY DEF CliType
<1> HIDE DEF q
<1>2. Len(q) \in Nat /\ DOMAIN q = 1..Len(q)
      /\ \A i \in 1..Len(q) : Len(q[i]) \in Nat
  BY <1>1
<1>3. lens \in Seq(Nat) /\ lens \in Seq(Int)
  BY <1>2
<1> HIDE DEF lens
<1>4. SumOf(lens) \in Nat
  BY <1>3, SumBounds
<1> QED
  BY <1>3, <1>4 DEF q, lens

\* What the queues carry after such a turn.
LEMMA SrvSeen ==
  ASSUME IInv, NEW e, NEW t, SrvWire(e, t)
  PROVE  /\ Types'
         /\ TypesIn(toAgent') = IF linkUp THEN TypesIn(toAgent) \cup TypesIn(e)
                                ELSE TypesIn(toAgent)
         /\ DataIn(toAgent') = IF linkUp THEN DataIn(toAgent) + DataIn(e)
                               ELSE DataIn(toAgent)
         /\ AcksIn(toAgent') = IF linkUp THEN AcksIn(toAgent) + AcksIn(e)
                               ELSE AcksIn(toAgent)
         /\ TypesIn(toServer) = TypesIn(t) \cup TypesIn(toServer')
         /\ DataIn(toServer) = DataIn(t) + DataIn(toServer')
         /\ AcksIn(toServer) = AcksIn(t) + AcksIn(toServer')
         /\ DataIn(e) \in Nat /\ AcksIn(e) \in Nat
         /\ DataIn(t) \in Nat /\ AcksIn(t) \in Nat
         /\ DataIn(toAgent) \in Nat /\ AcksIn(toAgent) \in Nat
         /\ DataIn(toServer') \in Nat /\ AcksIn(toServer') \in Nat
         /\ toServer = <<>> => t = <<>> /\ toServer' = <<>>
         /\ TypesIn(t) = {} <=> t = <<>>
<1>1. Types
  BY DEF IInv
<1>2. /\ e \in Seq(WireFrame) /\ t \in Seq(WireFrame)
      /\ toAgent \in Seq(WireFrame) /\ toServer \in Seq(WireFrame)
      /\ toAgent' = IF linkUp THEN toAgent \o e ELSE toAgent
      /\ toServer' \in Seq(WireFrame) /\ toServer = t \o toServer'
  BY <1>1 DEF Types, SrvWire
<1>3. /\ toAgent' \in Seq(WireFrame)
      /\ TypesIn(toAgent') = IF linkUp THEN TypesIn(toAgent) \cup TypesIn(e)
                             ELSE TypesIn(toAgent)
      /\ DataIn(toAgent') = IF linkUp THEN DataIn(toAgent) + DataIn(e)
                            ELSE DataIn(toAgent)
      /\ AcksIn(toAgent') = IF linkUp THEN AcksIn(toAgent) + AcksIn(e)
                            ELSE AcksIn(toAgent)
      /\ DataIn(toAgent) \in Nat /\ AcksIn(toAgent) \in Nat
      /\ DataIn(e) \in Nat /\ AcksIn(e) \in Nat
  <2> DEFINE c == toAgent
             c2 == toAgent'
  <2>1. /\ c \in Seq(WireFrame) /\ e \in Seq(WireFrame)
        /\ c2 = IF linkUp THEN c \o e ELSE c
    BY <1>2
  <2> HIDE DEF c, c2
  <2>2. /\ c2 \in Seq(WireFrame)
        /\ TypesIn(c2) = IF linkUp THEN TypesIn(c) \cup TypesIn(e) ELSE TypesIn(c)
        /\ DataIn(c2) = IF linkUp THEN DataIn(c) + DataIn(e) ELSE DataIn(c)
        /\ AcksIn(c2) = IF linkUp THEN AcksIn(c) + AcksIn(e) ELSE AcksIn(c)
        /\ DataIn(c) \in Nat /\ AcksIn(c) \in Nat
        /\ DataIn(e) \in Nat /\ AcksIn(e) \in Nat
    BY ONLY <2>1, Grown
  <2> QED
    BY ONLY <2>2 DEF c, c2
<1>4. /\ TypesIn(toServer) = TypesIn(t) \cup TypesIn(toServer')
      /\ DataIn(toServer) = DataIn(t) + DataIn(toServer')
      /\ AcksIn(toServer) = AcksIn(t) + AcksIn(toServer')
      /\ DataIn(t) \in Nat /\ AcksIn(t) \in Nat
      /\ DataIn(toServer') \in Nat /\ AcksIn(toServer') \in Nat
      /\ toServer = <<>> => t = <<>> /\ toServer' = <<>>
      /\ TypesIn(t) = {} <=> t = <<>>
  <2> DEFINE c == toServer
             c2 == toServer'
  <2>1. /\ c \in Seq(WireFrame) /\ t \in Seq(WireFrame)
        /\ c2 \in Seq(WireFrame) /\ c = t \o c2
    BY <1>2
  <2> HIDE DEF c, c2
  <2>2. /\ TypesIn(c) = TypesIn(t) \cup TypesIn(c2)
        /\ DataIn(c) = DataIn(t) + DataIn(c2)
        /\ AcksIn(c) = AcksIn(t) + AcksIn(c2)
        /\ DataIn(t) \in Nat /\ AcksIn(t) \in Nat
        /\ DataIn(c2) \in Nat /\ AcksIn(c2) \in Nat
        /\ c = <<>> => t = <<>> /\ c2 = <<>>
        /\ TypesIn(t) = {} <=> t = <<>>
    BY ONLY <2>1, Shortened
  <2> QED
    BY ONLY <2>2 DEF c, c2
<1>5. Types'
  BY <1>1, <1>2, <1>3 DEF Types, SrvWire, cVars
<1> QED
  BY <1>3, <1>4, <1>5

\* A turn that keeps its promises keeps the parts of the invariant that are
\* about promises.
LEMMA SrvKeepsWord ==
  ASSUME IInv, NEW e, NEW t, SrvWire(e, t), SrvWord(e, t)
  PROVE  LifeOfServer' /\ LifeOfAgent' /\ Chan' /\ Informed' /\ Eof'
<1>1. /\ Types /\ LifeOfServer /\ LifeOfAgent /\ Chan /\ Informed /\ Eof
  BY DEF IInv
<1>2. /\ TypesIn(toAgent') = IF linkUp THEN TypesIn(toAgent) \cup TypesIn(e)
                             ELSE TypesIn(toAgent)
      /\ TypesIn(toServer) = TypesIn(t) \cup TypesIn(toServer')
      /\ toServer = <<>> => t = <<>> /\ toServer' = <<>>
      /\ TypesIn(t) = {} <=> t = <<>>
  BY SrvSeen
<1>3. /\ cli' = cli /\ loc' = loc /\ cliClosed' = cliClosed /\ linkUp' = linkUp
      /\ serviceSaid' = serviceSaid
      /\ srvClosed' => ~linkUp
  BY DEF SrvWire, cVars
<1>4. /\ e \in Seq(WireFrame) /\ t \in Seq(WireFrame) /\ Orderly(e)
      /\ toAgent \in Seq(WireFrame) /\ toServer \in Seq(WireFrame)
      /\ toServer' \in Seq(WireFrame)
      /\ toAgent' = IF linkUp THEN toAgent \o e ELSE toAgent
      /\ toServer = t \o toServer'
  BY <1>1 DEF Types, SrvWire
<1>5. LifeOfServer'
  <2>1. ~srv'.opened => toAgent' = <<>> /\ toServer' = <<>> /\ cli'.dial = "none"
    <3>1. SUFFICES ASSUME ~srv'.opened
                   PROVE  toAgent' = <<>> /\ toServer' = <<>> /\ cli'.dial = "none"
      OBVIOUS
    <3>2. toAgent = <<>> /\ toServer = <<>> /\ cli.dial = "none" /\ e = <<>>
      BY <1>1, <3>1 DEF SrvWord, LifeOfServer
    <3>3. toAgent' = <<>>
      BY <1>4, <3>2
    <3> QED
      BY <1>2, <1>3, <3>2, <3>3
  <2> QED
    BY <1>1, <1>3, <2>1 DEF LifeOfServer, SrvWord
<1>6. LifeOfAgent'
  BY <1>1, <1>3 DEF LifeOfAgent
<1>7. srv.opened \/ t = <<>>
  BY <1>1, <1>2 DEF LifeOfServer
<1>8. Orderly(toAgent') /\ Orderly(toServer')
  <2>1. Orderly(toServer')
    BY <1>1, <1>4, ShortenedOrderly DEF Chan
  <2>2. "OPEN" \in TypesIn(e) => toAgent = <<>>
    BY <1>1 DEF SrvWord, LifeOfServer
  <2>3. /\ "EOF" \in TypesIn(toAgent) => "DATA" \notin TypesIn(e)
        /\ "RESET" \in TypesIn(toAgent) => TypesIn(e) \subseteq {"RESET"}
    BY <1>1 DEF SrvWord, Chan
  <2>4. Orderly(toAgent')
    BY <1>1, <1>4, <2>2, <2>3, GrownOrderly DEF Chan
  <2> QED
    BY <2>1, <2>4
<1>9. Chan'
  <2>1. "EOF" \in TypesIn(toAgent') => srv'.sentEof
    BY <1>1, <1>2 DEF Chan, SrvWord
  <2>2. "RESET" \in TypesIn(toAgent') => srv'.finished
    BY <1>1, <1>2 DEF Chan, SrvWord
  <2>3. "OPEN" \in TypesIn(toAgent') => cli.dial = "none" /\ toServer' = <<>>
    BY <1>1, <1>2 DEF Chan, SrvWord, LifeOfServer
  <2>4. "EOF" \in TypesIn(toServer') => cli.sentEof
    BY <1>1, <1>2 DEF Chan
  <2>5. "RESET" \in TypesIn(toServer') =>
          cli.finished \/ (cli.dial = "none" /\ "OPEN" \notin TypesIn(toAgent'))
    <3>1. SUFFICES ASSUME "RESET" \in TypesIn(toServer')
                   PROVE  \/ cli.finished
                          \/ cli.dial = "none" /\ "OPEN" \notin TypesIn(toAgent')
      OBVIOUS
    <3>2. toServer # <<>>
      BY <1>2, <3>1, EmptySeen
    <3>3. srv.opened
      BY <1>1, <3>2 DEF LifeOfServer
    <3> QED
      BY <1>1, <1>2, <3>1, <3>3 DEF Chan, SrvWord
  <2>6. /\ "OPEN" \notin TypesIn(toServer')
        /\ cli.dial = "none" => TypesIn(toServer') \subseteq {"RESET"}
    BY <1>1, <1>2 DEF Chan
  <2> QED
    BY <1>3, <1>8, <2>1, <2>2, <2>3, <2>4, <2>5, <2>6 DEF Chan
<1>10. Informed'
  <2>1. pub'.readEnded => srv'.sentEof \/ srv'.finished
    BY DEF SrvWord
  <2>2. loc'.readEnded => cli'.sentEof \/ cli'.finished
    BY <1>1, <1>3 DEF Informed
  <2>3. linkUp /\ (srv'.sentEof \/ srv'.finished) =>
           \/ cli.dial = "none" /\ "OPEN" \notin TypesIn(toAgent')
           \/ cli.finished \/ cli.queuedEof \/ cli.receivedEof
           \/ Ended \cap TypesIn(toAgent') # {}
    <3>1. SUFFICES ASSUME linkUp, srv'.sentEof \/ srv'.finished,
                          "EOF" \notin TypesIn(e), "RESET" \notin TypesIn(e)
                   PROVE  \/ cli.dial = "none" /\ "OPEN" \notin TypesIn(toAgent')
                          \/ cli.finished \/ cli.queuedEof \/ cli.receivedEof
                          \/ Ended \cap TypesIn(toAgent') # {}
      BY <1>2 DEF Ended
    <3>2. srv.sentEof \/ srv.finished \/ "RESET" \in TypesIn(t)
      BY <3>1 DEF SrvWord
    <3>3. CASE srv.sentEof \/ srv.finished
      <4>1. srv.opened
        BY <1>1, <3>3 DEF LifeOfServer, S!NoStream
      <4>2. "OPEN" \notin TypesIn(e)
        BY <4>1 DEF SrvWord
      <4> QED
        BY <1>1, <1>2, <3>1, <3>3, <4>2 DEF Informed
    <3>4. CASE "RESET" \in TypesIn(t)
      <4>1. "OPEN" \notin TypesIn(e)
        BY <1>2, <1>7, <3>4 DEF SrvWord
      <4>2. cli.finished \/ (cli.dial = "none" /\ "OPEN" \notin TypesIn(toAgent))
        BY <1>1, <1>2, <3>4 DEF Chan
      <4> QED
        BY <1>2, <4>1, <4>2
    <3> QED
      BY <3>2, <3>3, <3>4
  <2>4. linkUp /\ (cli.sentEof \/ cli.finished) =>
           \/ srv'.finished \/ srv'.receivedEof
           \/ Ended \cap TypesIn(toServer') # {}
    BY <1>1, <1>2 DEF Informed, SrvWord, Ended
  <2> QED
    BY <1>3, <2>1, <2>2, <2>3, <2>4 DEF Informed
<1>11. Eof'
  <2>1. cli.receivedEof \/ cli.queuedEof =>
           srv'.sentEof /\ "DATA" \notin TypesIn(toAgent')
    BY <1>1, <1>2 DEF Eof, SrvWord
  <2>2. srv'.receivedEof => cli.sentEof /\ "DATA" \notin TypesIn(toServer')
    <3>1. CASE srv.receivedEof
      BY <1>1, <1>2, <3>1 DEF Eof
    <3>2. CASE "EOF" \in TypesIn(t)
      BY <1>1, <1>2, <1>4, <3>2, ShortenedOrderly DEF Chan
    <3> QED
      BY <3>1, <3>2 DEF SrvWord
  <2> QED
    BY <1>3, <2>1, <2>2 DEF Eof
<1> QED
  BY <1>5, <1>6, <1>9, <1>10, <1>11

\* A stream that one end has given up stays given up.
LEMMA SrvStaysOver ==
  ASSUME IInv, NEW e, NEW t, SrvWire(e, t), SrvWord(e, t), BothLive'
  PROVE  BothLive /\ ~srv'.finished
<1>1. /\ TypesIn(toAgent') = IF linkUp THEN TypesIn(toAgent) \cup TypesIn(e)
                             ELSE TypesIn(toAgent)
  BY SrvSeen
<1>2. cli' = cli /\ linkUp' = linkUp
  BY DEF SrvWire, cVars
<1> QED
  BY <1>1, <1>2 DEF BothLive, Refused, SrvWord

\* A turn that keeps its accounts keeps the parts that are about counts.
LEMMA SrvKeepsBytes ==
  ASSUME IInv, NEW e, NEW t, SrvLaw(e, t)
  PROVE  Flow' /\ SrvPauses' /\ CliPauses' /\ SrvBuffers' /\ CliBuffers'
<1>1. /\ Types /\ Flow /\ SrvPauses /\ CliPauses /\ SrvBuffers /\ CliBuffers
      /\ SrvWire(e, t) /\ SrvWord(e, t) /\ SrvBytes(e, t)
  BY DEF IInv, SrvLaw
<1>2. /\ Types'
      /\ DataIn(toAgent') = IF linkUp THEN DataIn(toAgent) + DataIn(e)
                            ELSE DataIn(toAgent)
      /\ AcksIn(toAgent') = IF linkUp THEN AcksIn(toAgent) + AcksIn(e)
                            ELSE AcksIn(toAgent)
      /\ DataIn(toServer) = DataIn(t) + DataIn(toServer')
      /\ AcksIn(toServer) = AcksIn(t) + AcksIn(toServer')
      /\ DataIn(e) \in Nat /\ AcksIn(e) \in Nat
      /\ DataIn(t) \in Nat /\ AcksIn(t) \in Nat
      /\ DataIn(toAgent) \in Nat /\ AcksIn(toAgent) \in Nat
      /\ DataIn(toServer') \in Nat /\ AcksIn(toServer') \in Nat
  BY <1>1, SrvSeen
<1>3. cli' = cli /\ loc' = loc /\ linkUp' = linkUp /\ serviceSaid' = serviceSaid
  BY <1>1 DEF SrvWire, cVars
<1>4. QueuedBytes' = QueuedBytes /\ QueuedBytes \in Nat
  BY <1>1, <1>3, QueuedTyped DEF QueuedBytes, Types
<1>5. /\ srv.sendCredit \in Int /\ srv.recvUnacked \in Nat
      /\ srv'.sendCredit \in Int /\ srv'.recvUnacked \in Nat
      /\ cli.sendCredit \in Int /\ cli.recvUnacked \in Nat
      /\ Window \in Nat /\ MaxChunk \in Nat /\ HighWater \in Nat
  BY <1>1, <1>2, RoomTyped DEF Types, SrvType, CliType
<1>6. BothLive' => BothLive /\ ~srv'.finished /\ linkUp
  BY <1>1, <1>3, SrvStaysOver DEF BothLive
<1>7. /\ srv'.sendCredit + DataIn(e) <= srv.sendCredit + AcksIn(t)
      /\ srv'.recvUnacked + AcksIn(e) <= srv.recvUnacked + DataIn(t)
      /\ ~srv'.finished =>
            /\ srv'.sendCredit + DataIn(e) = srv.sendCredit + AcksIn(t)
            /\ srv'.recvUnacked + AcksIn(e) = srv.recvUnacked + DataIn(t)
  BY <1>1 DEF SrvBytes
<1>8. /\ UpSum \in Int /\ UpSum <= Window /\ (BothLive => UpSum = Window)
      /\ DownSum \in Int /\ DownSum <= Window /\ (BothLive => DownSum = Window)
  <2>1. DataIn(toServer) \in Nat /\ AcksIn(toServer) \in Nat
    BY <1>2
  <2>2. UpSum \in Int
    BY <1>2, <1>4, <1>5, <2>1 DEF UpSum
  <2>3. DownSum \in Int
    BY <1>2, <1>5, <2>1 DEF DownSum
  <2> QED
    BY <1>1, <2>2, <2>3 DEF Flow
<1>9. UpSum' <= Window /\ (BothLive' => UpSum' = Window)
  <2>1. UpSum' = srv'.sendCredit + DataIn(toAgent') + QueuedBytes + cli.recvUnacked
                   + AcksIn(toServer')
    BY <1>3, <1>4 DEF UpSum
  <2>2. UpSum' <= UpSum /\ (linkUp /\ ~srv'.finished => UpSum' = UpSum)
    BY <1>2, <1>4, <1>5, <1>7, <2>1 DEF UpSum
  <2>3. UpSum' \in Int
    BY <1>2, <1>4, <1>5, <2>1
  <2> QED
    BY <1>5, <1>6, <1>8, <2>2, <2>3
<1>10. DownSum' <= Window /\ (BothLive' => DownSum' = Window)
  <2>1. DownSum' = cli.sendCredit + DataIn(toServer') + srv'.recvUnacked
                     + AcksIn(toAgent')
    BY <1>3 DEF DownSum
  <2>2. DownSum' <= DownSum /\ (linkUp /\ ~srv'.finished => DownSum' = DownSum)
    BY <1>2, <1>4, <1>5, <1>7, <2>1 DEF DownSum
  <2>3. DownSum' \in Int
    BY <1>2, <1>4, <1>5, <2>1
  <2> QED
    BY <1>5, <1>6, <1>8, <2>2, <2>3
<1>11. Flow'
  BY <1>1, <1>3, <1>9, <1>10 DEF Flow, SrvBytes
<1>12. CliPauses' /\ CliBuffers' /\ SrvPauses'
  BY <1>1, <1>3 DEF CliPauses, CliBuffers, SrvBytes
<1>13. SrvBuffers'
  <2>1. Len(pub'.out) \in Nat
    BY <1>2, SocketTyped DEF Types
  <2>2. srv'.recvUnacked <= WindowAndChunk
    <3>1. cli.sendCredit >= -MaxChunk + 1
      BY <1>1, <1>5 DEF CliPauses
    <3>2. DownSum' = cli.sendCredit + DataIn(toServer') + srv'.recvUnacked
                     + AcksIn(toAgent')
      BY <1>3 DEF DownSum
    <3>3. AcksIn(toAgent') \in Nat
      BY <1>2
    <3> QED
      BY <1>2, <1>5, <1>10, <3>1, <3>2, <3>3 DEF WindowAndChunk
  <2>3. ~srv'.receivedEof => Len(pub'.out) < srv'.recvUnacked + HighWater
    BY <1>1 DEF SrvBytes
  <2>4. srv'.receivedEof => Len(pub'.out) < WindowAndChunk + HighWater
    BY <1>1 DEF SrvBytes
  <2>5. Len(pub'.out) < WindowAndChunk + HighWater
    BY <1>5, <2>1, <2>2, <2>3, <2>4 DEF WindowAndChunk
  <2> QED
    BY <2>3, <2>5 DEF SrvBuffers, WindowAndChunk
<1> QED
  BY <1>11, <1>12, <1>13

\* A turn of the server's end that obeys the law keeps the invariant.
LEMMA SrvKeeps ==
  ASSUME IInv, NEW e, NEW t, SrvLaw(e, t)
  PROVE  IInv'
<1>1. SrvWire(e, t) /\ SrvWord(e, t)
  BY DEF SrvLaw
<1>2. Types'
  BY <1>1, SrvSeen
<1>3. LifeOfServer' /\ LifeOfAgent' /\ Chan' /\ Informed' /\ Eof'
  BY <1>1, SrvKeepsWord
<1>4. Flow' /\ SrvPauses' /\ CliPauses' /\ SrvBuffers' /\ CliBuffers'
  BY SrvKeepsBytes
<1> QED
  BY <1>2, <1>3, <1>4 DEF IInv

-----------------------------------------------------------------------------
\* The same for a turn of the agent's end.  Its stream is refused when it
\* answers STREAM_OPEN with a reset and does not dial.

\* The agent's end has the visitor's end of stream, read or still queued.
Heard(s) == s.receivedEof \/ s.queuedEof

\* The frames and everything a turn of the agent may not touch.
CliWire(e, t) ==
    /\ e \in Seq(WireFrame) /\ t \in Seq(WireFrame) /\ Orderly(e)
    /\ toServer' = IF linkUp THEN toServer \o e ELSE toServer
    /\ toAgent' \in Seq(WireFrame) /\ toAgent = t \o toAgent'
    /\ UNCHANGED <<sVars, linkUp, visitorSaid>>
    /\ serviceSaid' \in 0..DownBytes
    /\ congestions' \in [{"server", "agent"} -> 0..MaxCongestions]
    /\ cli' \in CliType /\ loc' \in Socket(Bytes)
    /\ cliCongested' \in BOOLEAN /\ cliClosed' \in BOOLEAN
    /\ cliClosed' => ~linkUp

\* Its promises.
CliWord(e, t) ==
    /\ LifeOfAgent'
    /\ cli'.rewriteHost = cli.rewriteHost
    /\ cli.dial # "none" => cli'.dial # "none"
    /\ cli'.dial # "none" => cli.dial # "none" \/ "OPEN" \in TypesIn(t)
    /\ cli'.dial = "none" => /\ TypesIn(e) \subseteq {"RESET"}
                             /\ t = <<>> => e = <<>>
    /\ "OPEN" \notin TypesIn(e)
    /\ cli.sentEof => cli'.sentEof /\ "DATA" \notin TypesIn(e)
    /\ cli.finished => cli'.finished /\ TypesIn(e) \subseteq {"RESET"}
    /\ Heard(cli) => Heard(cli')
    /\ "EOF" \in TypesIn(e) => cli'.sentEof
    /\ cli'.sentEof => cli.sentEof \/ "EOF" \in TypesIn(e)
    /\ "RESET" \in TypesIn(e) => cli'.finished \/ (cli'.dial = "none" /\ t # <<>>)
    /\ cli'.finished => \/ cli.finished \/ cli'.sentEof \/ ~linkUp
                        \/ "RESET" \in TypesIn(e) \/ "RESET" \in TypesIn(t)
    /\ "EOF" \in TypesIn(t) => Heard(cli') \/ cli'.finished \/ cli'.dial = "none"
    /\ "RESET" \in TypesIn(t) => cli'.finished \/ cli'.dial = "none"
    /\ Heard(cli') => Heard(cli) \/ "EOF" \in TypesIn(t)
    /\ loc'.readEnded => cli'.sentEof \/ cli'.finished

\* Its accounts, the queued bytes counting as received.
CliBytes(e, t) ==
    LET was == QueuedBytes + cli.recvUnacked
        is  == QueuedBytes' + cli'.recvUnacked
    IN  /\ cli'.sendCredit + DataIn(e) <= cli.sendCredit + AcksIn(t)
        /\ is + AcksIn(e) <= was + DataIn(t)
        /\ ~cli'.finished /\ ~(cli'.dial = "none" /\ t # <<>>) =>
              /\ cli'.sendCredit + DataIn(e) = cli.sendCredit + AcksIn(t)
              /\ is + AcksIn(e) = was + DataIn(t)
        /\ DataIn(e) > 0 => /\ cli.sendCredit > 0
                            /\ DataIn(e) <= MaxChunk
                            /\ t = <<>>
        /\ cli'.sendCredit + serviceSaid' - Len(loc'.inq) >= Window
        /\ CliPauses'
        /\ ~cli'.receivedEof => Len(loc'.out) < cli'.recvUnacked + HighWater
                                                 + RoomFor(cli'.rewriteHost)
        /\ cli'.receivedEof => Len(loc'.out) < WindowAndChunk + HighWater
                                                + RoomFor(cli'.rewriteHost)
        /\ ~cli'.headDone => /\ cli'.rewriteHost
                             /\ cli'.recvUnacked = 0
                             /\ loc'.out = <<>>
                             /\ Len(cli'.headBuf) < MaxHead
        /\ cli'.headDone => cli'.headBuf = <<>>

\* The law of a turn of the agent's end.
CliLaw(e, t) == CliWire(e, t) /\ CliWord(e, t) /\ CliBytes(e, t)

\* What the queues carry after such a turn.
LEMMA CliSeen ==
  ASSUME IInv, NEW e, NEW t, CliWire(e, t)
  PROVE  /\ Types'
         /\ TypesIn(toServer') = IF linkUp THEN TypesIn(toServer) \cup TypesIn(e)
                                 ELSE TypesIn(toServer)
         /\ DataIn(toServer') = IF linkUp THEN DataIn(toServer) + DataIn(e)
                                ELSE DataIn(toServer)
         /\ AcksIn(toServer') = IF linkUp THEN AcksIn(toServer) + AcksIn(e)
                                ELSE AcksIn(toServer)
         /\ TypesIn(toAgent) = TypesIn(t) \cup TypesIn(toAgent')
         /\ DataIn(toAgent) = DataIn(t) + DataIn(toAgent')
         /\ AcksIn(toAgent) = AcksIn(t) + AcksIn(toAgent')
         /\ DataIn(e) \in Nat /\ AcksIn(e) \in Nat
         /\ DataIn(t) \in Nat /\ AcksIn(t) \in Nat
         /\ DataIn(toServer) \in Nat /\ AcksIn(toServer) \in Nat
         /\ DataIn(toAgent') \in Nat /\ AcksIn(toAgent') \in Nat
         /\ toAgent = <<>> => t = <<>> /\ toAgent' = <<>>
         /\ TypesIn(t) = {} <=> t = <<>>
<1>1. Types
  BY DEF IInv
<1>2. /\ e \in Seq(WireFrame) /\ t \in Seq(WireFrame)
      /\ toAgent \in Seq(WireFrame) /\ toServer \in Seq(WireFrame)
      /\ toServer' = IF linkUp THEN toServer \o e ELSE toServer
      /\ toAgent' \in Seq(WireFrame) /\ toAgent = t \o toAgent'
  BY <1>1 DEF Types, CliWire
<1>3. /\ toServer' \in Seq(WireFrame)
      /\ TypesIn(toServer') = IF linkUp THEN TypesIn(toServer) \cup TypesIn(e)
                              ELSE TypesIn(toServer)
      /\ DataIn(toServer') = IF linkUp THEN DataIn(toServer) + DataIn(e)
                             ELSE DataIn(toServer)
      /\ AcksIn(toServer') = IF linkUp THEN AcksIn(toServer) + AcksIn(e)
                             ELSE AcksIn(toServer)
      /\ DataIn(toServer) \in Nat /\ AcksIn(toServer) \in Nat
      /\ DataIn(e) \in Nat /\ AcksIn(e) \in Nat
  <2> DEFINE c == toServer
             c2 == toServer'
  <2>1. /\ c \in Seq(WireFrame) /\ e \in Seq(WireFrame)
        /\ c2 = IF linkUp THEN c \o e ELSE c
    BY <1>2
  <2> HIDE DEF c, c2
  <2>2. /\ c2 \in Seq(WireFrame)
        /\ TypesIn(c2) = IF linkUp THEN TypesIn(c) \cup TypesIn(e) ELSE TypesIn(c)
        /\ DataIn(c2) = IF linkUp THEN DataIn(c) + DataIn(e) ELSE DataIn(c)
        /\ AcksIn(c2) = IF linkUp THEN AcksIn(c) + AcksIn(e) ELSE AcksIn(c)
        /\ DataIn(c) \in Nat /\ AcksIn(c) \in Nat
        /\ DataIn(e) \in Nat /\ AcksIn(e) \in Nat
    BY ONLY <2>1, Grown
  <2> QED
    BY ONLY <2>2 DEF c, c2
<1>4. /\ TypesIn(toAgent) = TypesIn(t) \cup TypesIn(toAgent')
      /\ DataIn(toAgent) = DataIn(t) + DataIn(toAgent')
      /\ AcksIn(toAgent) = AcksIn(t) + AcksIn(toAgent')
      /\ DataIn(t) \in Nat /\ AcksIn(t) \in Nat
      /\ DataIn(toAgent') \in Nat /\ AcksIn(toAgent') \in Nat
      /\ toAgent = <<>> => t = <<>> /\ toAgent' = <<>>
      /\ TypesIn(t) = {} <=> t = <<>>
  <2> DEFINE c == toAgent
             c2 == toAgent'
  <2>1. /\ c \in Seq(WireFrame) /\ t \in Seq(WireFrame)
        /\ c2 \in Seq(WireFrame) /\ c = t \o c2
    BY <1>2
  <2> HIDE DEF c, c2
  <2>2. /\ TypesIn(c) = TypesIn(t) \cup TypesIn(c2)
        /\ DataIn(c) = DataIn(t) + DataIn(c2)
        /\ AcksIn(c) = AcksIn(t) + AcksIn(c2)
        /\ DataIn(t) \in Nat /\ AcksIn(t) \in Nat
        /\ DataIn(c2) \in Nat /\ AcksIn(c2) \in Nat
        /\ c = <<>> => t = <<>> /\ c2 = <<>>
        /\ TypesIn(t) = {} <=> t = <<>>
    BY ONLY <2>1, Shortened
  <2> QED
    BY ONLY <2>2 DEF c, c2
<1>5. Types'
  BY <1>1, <1>2, <1>3 DEF Types, CliWire, sVars
<1> QED
  BY <1>3, <1>4, <1>5

\* A turn that keeps its promises keeps the parts of the invariant that are
\* about promises.
LEMMA CliKeepsWord ==
  ASSUME IInv, NEW e, NEW t, CliWire(e, t), CliWord(e, t)
  PROVE  LifeOfServer' /\ LifeOfAgent' /\ Chan' /\ Informed' /\ Eof'
<1>1. /\ Types /\ LifeOfServer /\ LifeOfAgent /\ Chan /\ Informed /\ Eof
  BY DEF IInv
<1>2. /\ TypesIn(toServer') = IF linkUp THEN TypesIn(toServer) \cup TypesIn(e)
                              ELSE TypesIn(toServer)
      /\ TypesIn(toAgent) = TypesIn(t) \cup TypesIn(toAgent')
      /\ toAgent = <<>> => t = <<>> /\ toAgent' = <<>>
      /\ TypesIn(t) = {} <=> t = <<>>
  BY CliSeen
<1>3. /\ srv' = srv /\ pub' = pub /\ srvClosed' = srvClosed /\ linkUp' = linkUp
      /\ visitorSaid' = visitorSaid
      /\ cliClosed' => ~linkUp
  BY DEF CliWire, sVars
<1>4. /\ e \in Seq(WireFrame) /\ t \in Seq(WireFrame) /\ Orderly(e)
      /\ toAgent \in Seq(WireFrame) /\ toServer \in Seq(WireFrame)
      /\ toAgent' \in Seq(WireFrame)
      /\ toServer' = IF linkUp THEN toServer \o e ELSE toServer
      /\ toAgent = t \o toAgent'
  BY <1>1 DEF Types, CliWire
<1>5. LifeOfServer'
  <2>1. ~srv.opened => toAgent' = <<>> /\ toServer' = <<>> /\ cli'.dial = "none"
    <3>1. SUFFICES ASSUME ~srv.opened
                   PROVE  toAgent' = <<>> /\ toServer' = <<>> /\ cli'.dial = "none"
      OBVIOUS
    <3>2. toAgent = <<>> /\ toServer = <<>> /\ cli.dial = "none"
      BY <1>1, <3>1 DEF LifeOfServer
    <3>3. t = <<>> /\ TypesIn(t) = {}
      BY <1>2, <3>2
    <3>4. cli'.dial = "none" /\ e = <<>>
      BY <3>2, <3>3 DEF CliWord
    <3>5. toServer' = <<>>
      BY <1>4, <3>2, <3>4
    <3> QED
      BY <1>2, <3>2, <3>4, <3>5
  <2> QED
    BY <1>1, <1>3, <2>1 DEF LifeOfServer
<1>6. LifeOfAgent'
  BY DEF CliWord
<1>7. t # <<>> => "OPEN" \notin TypesIn(toAgent')
  <2> DEFINE c == toAgent
             c2 == toAgent'
  <2>1. /\ c \in Seq(WireFrame) /\ t \in Seq(WireFrame) /\ c2 \in Seq(WireFrame)
        /\ c = t \o c2 /\ Orderly(c)
    BY <1>1, <1>4 DEF Chan
  <2> HIDE DEF c, c2
  <2>2. t # <<>> => "OPEN" \notin TypesIn(c2)
    BY ONLY <2>1, ShortenedOrderly, ZenonT(60)
  <2> QED
    BY ONLY <2>2 DEF c2
<1>8. Orderly(toAgent') /\ Orderly(toServer')
  <2>1. Orderly(toAgent')
    BY <1>1, <1>4, ShortenedOrderly DEF Chan
  <2>2. /\ "EOF" \in TypesIn(toServer) => "DATA" \notin TypesIn(e)
        /\ "OPEN" \notin TypesIn(e)
    BY <1>1 DEF CliWord, Chan
  <2>3. "RESET" \in TypesIn(toServer) => TypesIn(e) \subseteq {"RESET"}
    BY <1>1, <1>2 DEF CliWord, Chan
  <2>4. Orderly(toServer')
    BY <1>1, <1>4, <2>2, <2>3, GrownOrderly DEF Chan
  <2> QED
    BY <2>1, <2>4
<1>9. Chan'
  <2>1. /\ "EOF" \in TypesIn(toAgent') => srv.sentEof
        /\ "RESET" \in TypesIn(toAgent') => srv.finished
    BY <1>1, <1>2 DEF Chan
  <2>2. "OPEN" \in TypesIn(toAgent') => cli'.dial = "none" /\ toServer' = <<>>
    <3>1. SUFFICES ASSUME "OPEN" \in TypesIn(toAgent')
                   PROVE  cli'.dial = "none" /\ toServer' = <<>>
      OBVIOUS
    <3>2. t = <<>> /\ TypesIn(t) = {}
      BY <1>2, <1>7, <3>1
    <3>3. cli.dial = "none" /\ toServer = <<>>
      BY <1>1, <1>2, <3>1 DEF Chan
    <3>4. cli'.dial = "none" /\ e = <<>>
      BY <3>2, <3>3 DEF CliWord
    <3> QED
      BY <1>4, <3>3, <3>4
  <2>3. "EOF" \in TypesIn(toServer') => cli'.sentEof
    BY <1>1, <1>2 DEF Chan, CliWord
  <2>4. "RESET" \in TypesIn(toServer') =>
          cli'.finished \/ (cli'.dial = "none" /\ "OPEN" \notin TypesIn(toAgent'))
    <3>1. CASE "RESET" \in TypesIn(toServer)
      BY <1>1, <1>2, <3>1 DEF Chan, CliWord
    <3>2. CASE "RESET" \in TypesIn(e)
      BY <1>7, <3>2 DEF CliWord
    <3> QED
      BY <1>2, <3>1, <3>2
  <2>5. "OPEN" \notin TypesIn(toServer')
    BY <1>1, <1>2 DEF Chan, CliWord
  <2>6. cli'.dial = "none" => TypesIn(toServer') \subseteq {"RESET"}
    BY <1>1, <1>2 DEF Chan, CliWord
  <2> QED
    BY <1>3, <1>8, <2>1, <2>2, <2>3, <2>4, <2>5, <2>6 DEF Chan
<1>10. Informed'
  <2>1. /\ pub'.readEnded => srv'.sentEof \/ srv'.finished
        /\ loc'.readEnded => cli'.sentEof \/ cli'.finished
    BY <1>1, <1>3 DEF Informed, CliWord
  <2>2. linkUp /\ (srv.sentEof \/ srv.finished) =>
           \/ cli'.dial = "none" /\ "OPEN" \notin TypesIn(toAgent')
           \/ cli'.finished \/ Heard(cli')
           \/ Ended \cap TypesIn(toAgent') # {}
    <3>1. SUFFICES ASSUME linkUp, srv.sentEof \/ srv.finished
                   PROVE  \/ cli'.dial = "none" /\ "OPEN" \notin TypesIn(toAgent')
                          \/ cli'.finished \/ Heard(cli')
                          \/ Ended \cap TypesIn(toAgent') # {}
      OBVIOUS
    <3>2. CASE cli.dial = "none" /\ "OPEN" \notin TypesIn(toAgent)
      BY <1>2, <3>2 DEF CliWord
    <3>3. CASE cli.finished \/ Heard(cli)
      BY <3>3 DEF CliWord
    <3>4. CASE Ended \cap TypesIn(toAgent) # {}
      <4>1. CASE Ended \cap TypesIn(t) # {}
        <5>1. t # <<>>
          BY <1>2, <4>1
        <5>2. \/ Heard(cli') \/ cli'.finished \/ cli'.dial = "none"
          BY <4>1 DEF CliWord, Ended
        <5> QED
          BY <1>7, <5>1, <5>2
      <4> QED
        BY <1>2, <3>4, <4>1
    <3> QED
      BY <1>1, <3>1, <3>2, <3>3, <3>4 DEF Informed, Heard
  <2>3. linkUp /\ (cli'.sentEof \/ cli'.finished) =>
           \/ srv.finished \/ srv.receivedEof
           \/ Ended \cap TypesIn(toServer') # {}
    <3>1. SUFFICES ASSUME linkUp, cli'.sentEof \/ cli'.finished,
                          "EOF" \notin TypesIn(e), "RESET" \notin TypesIn(e)
                   PROVE  \/ srv.finished \/ srv.receivedEof
                          \/ Ended \cap TypesIn(toServer') # {}
      BY <1>2 DEF Ended
    <3>2. cli.sentEof \/ cli.finished \/ "RESET" \in TypesIn(t)
      BY <3>1 DEF CliWord
    <3>3. CASE cli.sentEof \/ cli.finished
      BY <1>1, <1>2, <3>1, <3>3 DEF Informed
    <3>4. CASE "RESET" \in TypesIn(t)
      BY <1>1, <1>2, <3>4 DEF Chan
    <3> QED
      BY <3>2, <3>3, <3>4
  <2> QED
    BY <1>3, <2>1, <2>2, <2>3 DEF Informed, Heard
<1>11. Eof'
  <2>1. Heard(cli') => srv.sentEof /\ "DATA" \notin TypesIn(toAgent')
    <3>1. CASE Heard(cli)
      BY <1>1, <1>2, <3>1 DEF Eof, Heard
    <3>2. CASE "EOF" \in TypesIn(t)
      BY <1>1, <1>2, <1>4, <3>2, ShortenedOrderly DEF Chan
    <3> QED
      BY <3>1, <3>2 DEF CliWord
  <2>2. srv.receivedEof => cli'.sentEof /\ "DATA" \notin TypesIn(toServer')
    BY <1>1, <1>2 DEF Eof, CliWord
  <2> QED
    BY <1>3, <2>1, <2>2 DEF Eof, Heard
<1> QED
  BY <1>5, <1>6, <1>9, <1>10, <1>11

\* A turn of the agent's end does not bring a stream back that was over.
LEMMA CliStaysOver ==
  ASSUME IInv, NEW e, NEW t, CliWire(e, t), CliWord(e, t), BothLive'
  PROVE  BothLive /\ ~cli'.finished /\ ~(cli'.dial = "none" /\ t # <<>>)
<1>1. /\ TypesIn(toAgent) = TypesIn(t) \cup TypesIn(toAgent')
      /\ toAgent = <<>> => t = <<>>
  BY CliSeen
<1>2. srv' = srv /\ linkUp' = linkUp
  BY DEF CliWire, sVars
<1>3. t # <<>> => "OPEN" \notin TypesIn(toAgent') /\ srv.opened
  BY <1>1, ShortenedOrderly DEF IInv, Types, Chan, LifeOfServer, CliWire
<1>4. ~(cli'.dial = "none" /\ t # <<>>)
  BY <1>2, <1>3 DEF BothLive, Refused
<1>5. ~Refused
  BY <1>1, <1>2 DEF BothLive, Refused, CliWord
<1> QED
  BY <1>2, <1>4, <1>5 DEF BothLive, CliWord

\* A turn that keeps its accounts keeps the parts that are about counts.
LEMMA CliKeepsBytes ==
  ASSUME IInv, NEW e, NEW t, CliLaw(e, t)
  PROVE  Flow' /\ SrvPauses' /\ CliPauses' /\ SrvBuffers' /\ CliBuffers'
<1>1. /\ Types /\ Flow /\ SrvPauses /\ CliPauses /\ SrvBuffers /\ CliBuffers
      /\ CliWire(e, t) /\ CliWord(e, t) /\ CliBytes(e, t)
  BY DEF IInv, CliLaw
<1>2. /\ Types'
      /\ DataIn(toServer') = IF linkUp THEN DataIn(toServer) + DataIn(e)
                             ELSE DataIn(toServer)
      /\ AcksIn(toServer') = IF linkUp THEN AcksIn(toServer) + AcksIn(e)
                             ELSE AcksIn(toServer)
      /\ DataIn(toAgent) = DataIn(t) + DataIn(toAgent')
      /\ AcksIn(toAgent) = AcksIn(t) + AcksIn(toAgent')
      /\ DataIn(e) \in Nat /\ AcksIn(e) \in Nat
      /\ DataIn(t) \in Nat /\ AcksIn(t) \in Nat
      /\ DataIn(toServer) \in Nat /\ AcksIn(toServer) \in Nat
      /\ DataIn(toAgent') \in Nat /\ AcksIn(toAgent') \in Nat
  BY <1>1, CliSeen
<1>3. srv' = srv /\ pub' = pub /\ linkUp' = linkUp /\ visitorSaid' = visitorSaid
  BY <1>1 DEF CliWire, sVars
<1>4. QueuedBytes \in Nat /\ QueuedBytes' \in Nat
  <2>1. cli \in CliType /\ cli' \in CliType
    BY <1>1, <1>2 DEF Types
  <2> DEFINE s == cli'
  <2> HIDE DEF s
  <2>2. SumOf([i \in DOMAIN s.queued |-> Len(s.queued[i])]) \in Nat
    BY <2>1, QueuedTyped DEF s
  <2> QED
    BY <2>1, <2>2, QueuedTyped DEF QueuedBytes, s
<1>5. /\ srv.sendCredit \in Int /\ srv.recvUnacked \in Nat
      /\ cli.sendCredit \in Int /\ cli.recvUnacked \in Nat
      /\ cli'.sendCredit \in Int /\ cli'.recvUnacked \in Nat
      /\ Window \in Nat /\ MaxChunk \in Nat /\ HighWater \in Nat
  BY <1>1, <1>2, RoomTyped DEF Types, SrvType, CliType
<1>6. BothLive' =>
        BothLive /\ ~cli'.finished /\ ~(cli'.dial = "none" /\ t # <<>>) /\ linkUp
  BY <1>1, <1>3, CliStaysOver DEF BothLive
<1>7. /\ cli'.sendCredit + DataIn(e) <= cli.sendCredit + AcksIn(t)
      /\ QueuedBytes' + cli'.recvUnacked + AcksIn(e)
           <= QueuedBytes + cli.recvUnacked + DataIn(t)
      /\ ~cli'.finished /\ ~(cli'.dial = "none" /\ t # <<>>) =>
            /\ cli'.sendCredit + DataIn(e) = cli.sendCredit + AcksIn(t)
            /\ QueuedBytes' + cli'.recvUnacked + AcksIn(e)
                 = QueuedBytes + cli.recvUnacked + DataIn(t)
  BY <1>1 DEF CliBytes
<1>8. /\ UpSum \in Int /\ UpSum <= Window /\ (BothLive => UpSum = Window)
      /\ DownSum \in Int /\ DownSum <= Window /\ (BothLive => DownSum = Window)
  <2>1. DataIn(toAgent) \in Nat /\ AcksIn(toAgent) \in Nat
    BY <1>2
  <2>2. UpSum \in Int
    BY <1>2, <1>4, <1>5, <2>1 DEF UpSum
  <2>3. DownSum \in Int
    BY <1>2, <1>5, <2>1 DEF DownSum
  <2> QED
    BY <1>1, <2>2, <2>3 DEF Flow
<1>9. UpSum' \in Int /\ UpSum' <= Window /\ (BothLive' => UpSum' = Window)
  <2> DEFINE c == srv.sendCredit
             d == DataIn(toAgent')
             q == QueuedBytes
             q2 == QueuedBytes'
             u == cli.recvUnacked
             u2 == cli'.recvUnacked
             a == AcksIn(toServer)
             a2 == AcksIn(toServer')
             dt == DataIn(t)
             ae == AcksIn(e)
             live == ~cli'.finished /\ ~(cli'.dial = "none" /\ t # <<>>)
  <2>1. UpSum = c + (dt + d) + q + u + a
    BY <1>2 DEF UpSum
  <2>2. UpSum' = c + d + q2 + u2 + a2
    BY <1>3 DEF UpSum
  <2>3. /\ c \in Int /\ u \in Int /\ u2 \in Int
        /\ q \in Int /\ q2 \in Int
        /\ d \in Int /\ dt \in Int /\ ae \in Nat
    BY <1>2, <1>4, <1>5
  <2>4. a \in Int /\ a2 = IF linkUp THEN a + ae ELSE a
    BY <1>2
  <2>5. /\ q2 + u2 + ae <= q + u + dt
        /\ live => q2 + u2 + ae = q + u + dt
    BY <1>7
  <2> HIDE DEF c, d, q, q2, u, u2, a, a2, dt, ae, live
  <2>6. UpSum' \in Int
    BY ONLY <2>2, <2>3, <2>4
  <2>7. UpSum' <= UpSum
    BY ONLY <2>1, <2>2, <2>3, <2>4, <2>5
  <2>8. linkUp /\ live => UpSum' = UpSum
    BY ONLY <2>1, <2>2, <2>3, <2>4, <2>5
  <2> QED
    BY <1>5, <1>6, <1>8, <2>6, <2>7, <2>8 DEF live
<1>10. DownSum' <= Window /\ (BothLive' => DownSum' = Window)
  <2> DEFINE c == cli.sendCredit
             c2 == cli'.sendCredit
             d == DataIn(toServer)
             d2 == DataIn(toServer')
             u == srv.recvUnacked
             a == AcksIn(toAgent')
             de == DataIn(e)
             at == AcksIn(t)
             live == ~cli'.finished /\ ~(cli'.dial = "none" /\ t # <<>>)
  <2>1. DownSum = c + d + u + (at + a)
    BY <1>2 DEF DownSum
  <2>2. DownSum' = c2 + d2 + u + a
    BY <1>3 DEF DownSum
  <2>3. /\ c \in Int /\ c2 \in Int /\ u \in Int
        /\ a \in Int /\ at \in Int /\ de \in Nat
    BY <1>2, <1>5
  <2>4. d \in Int /\ d2 = IF linkUp THEN d + de ELSE d
    BY <1>2
  <2>5. c2 + de <= c + at /\ (live => c2 + de = c + at)
    BY <1>7
  <2> HIDE DEF c, c2, d, d2, u, a, de, at, live
  <2>6. DownSum' \in Int
    BY ONLY <2>2, <2>3, <2>4
  <2>7. DownSum' <= DownSum
    BY ONLY <2>1, <2>2, <2>3, <2>4, <2>5
  <2>8. linkUp /\ live => DownSum' = DownSum
    BY ONLY <2>1, <2>2, <2>3, <2>4, <2>5
  <2> QED
    BY <1>5, <1>6, <1>8, <2>6, <2>7, <2>8 DEF live
<1>11. Flow'
  BY <1>1, <1>3, <1>9, <1>10 DEF Flow, CliBytes
<1>12. SrvPauses' /\ SrvBuffers' /\ CliPauses'
  BY <1>1, <1>3 DEF SrvPauses, SrvBuffers, CliBytes
<1>13. CliBuffers'
  <2>1. Len(loc'.out) \in Nat /\ RoomFor(cli'.rewriteHost) \in Nat
    BY <1>2, SocketTyped, RoomTyped DEF Types, CliType
  <2>2. cli'.recvUnacked <= WindowAndChunk
    <3> DEFINE q2 == QueuedBytes'
               u2 == cli'.recvUnacked
    <3>1. srv.sendCredit >= -MaxChunk + 1
      BY <1>1, <1>5 DEF SrvPauses
    <3>2. UpSum' = srv.sendCredit + DataIn(toAgent') + q2 + u2 + AcksIn(toServer')
      BY <1>3 DEF UpSum
    <3>3. q2 \in Nat /\ u2 \in Nat
      BY <1>4, <1>5
    <3>4. AcksIn(toServer') \in Nat
      BY <1>2
    <3> HIDE DEF q2, u2
    <3>5. u2 <= WindowAndChunk
      BY <1>2, <1>5, <1>9, <3>1, <3>2, <3>3, <3>4 DEF WindowAndChunk
    <3> QED
      BY <3>5 DEF u2
  <2>3. Len(loc'.out) < WindowAndChunk + HighWater + RoomFor(cli'.rewriteHost)
    <3>1. CASE cli'.receivedEof
      BY <1>1, <3>1 DEF CliBytes
    <3>2. CASE ~cli'.receivedEof
      <4>1. Len(loc'.out) < cli'.recvUnacked + HighWater + RoomFor(cli'.rewriteHost)
        BY <1>1, <3>2 DEF CliBytes
      <4>2. WindowAndChunk \in Int
        BY <1>5 DEF WindowAndChunk
      <4> QED
        BY <1>5, <2>1, <2>2, <4>1, <4>2
    <3> QED
      BY <3>1, <3>2
  <2> QED
    BY <1>1, <2>3 DEF CliBytes, CliBuffers, WindowAndChunk
<1> QED
  BY <1>11, <1>12, <1>13

\* A turn of the agent's end that obeys the law keeps the invariant.
LEMMA CliKeeps ==
  ASSUME IInv, NEW e, NEW t, CliLaw(e, t)
  PROVE  IInv'
<1>1. CliWire(e, t) /\ CliWord(e, t)
  BY DEF CliLaw
<1>2. Types'
  BY <1>1, CliSeen
<1>3. LifeOfServer' /\ LifeOfAgent' /\ Chan' /\ Informed' /\ Eof'
  BY <1>1, CliKeepsWord
<1>4. Flow' /\ SrvPauses' /\ CliPauses' /\ SrvBuffers' /\ CliBuffers'
  BY CliKeepsBytes
<1> QED
  BY <1>2, <1>3, <1>4 DEF IInv

-----------------------------------------------------------------------------
\* Every step of the server's end and of the visitor obeys the law.

\* The frames of the laws: none, or one.
LEMMA Nothing ==
  ASSUME NEW c \in Seq(WireFrame)
  PROVE  /\ c = c \o <<>> /\ c = <<>> \o c
         /\ c = IF linkUp THEN c \o <<>> ELSE c
  OBVIOUS

\* The first frame of a queue, taken.
LEMMA FirstTaken ==
  ASSUME NEW c \in Seq(WireFrame), c # <<>>
  PROVE  /\ Head(c) \in WireFrame /\ Tail(c) \in Seq(WireFrame)
         /\ c = <<Head(c)>> \o Tail(c)
         /\ <<Head(c)>> \in Seq(WireFrame)
         /\ TypesIn(<<Head(c)>>) = {Head(c).type}
         /\ DataIn(<<Head(c)>>) = DataOf(Head(c))
         /\ AcksIn(<<Head(c)>>) = AckOf(Head(c))
         /\ Head(c).type \in TypesIn(c)
<1>1. Head(c) \in WireFrame /\ Tail(c) \in Seq(WireFrame)
  BY TakenSeen DEF WireFrame
<1>2. c = <<Head(c)>> \o Tail(c)
  BY HeadTailSplit
<1>3. Head(c).type \in TypesIn(c)
  BY TakenSeen DEF WireFrame
<1> DEFINE f == Head(c)
<1>4. f \in WireFrame
  BY <1>1
<1> HIDE DEF f
<1>5. /\ <<f>> \in Seq(WireFrame) /\ TypesIn(<<f>>) = {f.type}
      /\ DataIn(<<f>>) = DataOf(f) /\ AcksIn(<<f>>) = AckOf(f)
  BY <1>4, FewFrames
<1> QED
  BY <1>1, <1>2, <1>3, <1>5 DEF f

\* What the frames carry.
LEMMA FramesTyped ==
  /\ OpenFrame \in WireFrame /\ EofFrame \in WireFrame /\ ResetFrame \in WireFrame
  /\ \A d \in Seq(Bytes) : d # <<>> =>
        /\ DataFrame(d) \in WireFrame
        /\ DataFrame(d).type = "DATA"
        /\ DataOf(DataFrame(d)) = Len(d) /\ AckOf(DataFrame(d)) = 0
  /\ \A n \in Nat \ {0} :
        /\ AckFrame(n) \in WireFrame
        /\ AckFrame(n).type = "ACK"
        /\ DataOf(AckFrame(n)) = 0 /\ AckOf(AckFrame(n)) = n
  /\ OpenFrame.type = "OPEN" /\ EofFrame.type = "EOF" /\ ResetFrame.type = "RESET"
  /\ DataOf(OpenFrame) = 0 /\ AckOf(OpenFrame) = 0
  /\ DataOf(EofFrame) = 0 /\ AckOf(EofFrame) = 0
  /\ DataOf(ResetFrame) = 0 /\ AckOf(ResetFrame) = 0
  BY DEF WireFrame, SomeFrame, OpenFrame, EofFrame, ResetFrame, DataFrame, AckFrame,
         DataOf, AckOf

\* What a turn sends when it sends one frame.
LEMMA OneSent ==
  ASSUME NEW f \in WireFrame, NEW sent, sent = Append(<<>>, f)
  PROVE  /\ sent \in Seq(WireFrame) /\ Orderly(sent)
         /\ TypesIn(sent) = {f.type}
         /\ DataIn(sent) = DataOf(f) /\ AcksIn(sent) = AckOf(f)
<1>1. sent = <<f>>
  OBVIOUS
<1> QED
  BY <1>1, FewFrames

\* The largest chunk exists, and bounds what one STREAM_DATA carries.
LEMMA LargestBounds ==
  /\ Largest \in Nat /\ MaxChunk <= Largest
  /\ \A n \in PrereadSizes : n <= Largest
<1> DEFINE sizes == PrereadSizes \cup {MaxChunk}
           Bound(b) == \A m \in sizes : m <= b
<1>1. sizes \subseteq Nat /\ MaxChunk \in sizes /\ Window \in Nat /\ MaxChunk \in Nat
  BY BridgeAssumption, SocketAssumption
<1>2. \A m \in sizes : m <= Window + MaxChunk
  BY BridgeAssumption, SocketAssumption
<1>3. \E n \in sizes : \A m \in sizes : m <= n
  <2> DEFINE Tops == {b \in Nat : Bound(b)}
  <2>1. Tops \subseteq Nat /\ Window + MaxChunk \in Tops
    BY <1>1, <1>2
  <2> HIDE DEF Tops
  <2>2. PICK b \in Tops : \A c \in Tops : b <= c
    BY <2>1, LeastNumber
  <2>3. b \in Nat /\ Bound(b)
    BY <2>2 DEF Tops
  <2>4. b \in sizes
    <3>1. SUFFICES ASSUME b \notin sizes PROVE FALSE
      OBVIOUS
    <3>2. \A m \in sizes : m < b /\ m <= b - 1
      BY <1>1, <2>3, <3>1
    <3>3. b - 1 \in Nat
      BY <1>1, <2>3, <3>2
    <3>4. b - 1 \in Tops
      BY <3>2, <3>3 DEF Tops
    <3> QED
      BY <2>2, <2>3, <3>4
  <2> QED
    BY <2>3, <2>4
<1>4. Largest = CHOOSE n \in sizes : \A m \in sizes : m <= n
  BY DEF Largest
<1> HIDE DEF sizes
<1>5. Largest \in sizes /\ \A m \in sizes : m <= Largest
  BY <1>3, <1>4
<1> QED
  BY <1>1, <1>5 DEF sizes

\* The server's end unchanged, its socket at most shrunk.
LEMMA SrvIdle ==
  ASSUME IInv, srv' = srv, toAgent' = toAgent, toServer' = toServer,
         UNCHANGED <<cVars, linkUp, serviceSaid, congestions>>,
         srvCongested' = srvCongested, srvClosed' = srvClosed,
         pub' \in Socket(Bytes), visitorSaid' \in 0..UpBytes,
         pub'.readEnded = pub.readEnded, pub'.flowing => pub.flowing,
         Len(pub'.out) <= Len(pub.out),
         visitorSaid' - Len(pub'.inq) >= visitorSaid - Len(pub.inq)
  PROVE  SrvLaw(<<>>, <<>>)
<1>1. /\ Types /\ LifeOfServer /\ Chan /\ Informed /\ Flow /\ SrvPauses /\ SrvBuffers
  BY DEF IInv
<1>2. /\ <<>> \in Seq(WireFrame) /\ Orderly(<<>>)
      /\ TypesIn(<<>>) = {} /\ DataIn(<<>>) = 0 /\ AcksIn(<<>>) = 0
  BY FewFrames
<1>3. SrvWire(<<>>, <<>>)
  BY <1>1, <1>2, Nothing DEF SrvWire, Types, LifeOfServer
<1>4. SrvWord(<<>>, <<>>)
  BY <1>1, <1>2 DEF SrvWord, LifeOfServer, Informed
<1>5. SrvBytes(<<>>, <<>>)
  <2>1. /\ srv.sendCredit \in Int /\ srv.recvUnacked \in Nat /\ HighWater \in Nat
        /\ Window \in Nat /\ MaxChunk \in Nat /\ WindowAndChunk \in Int
    BY <1>1, RoomTyped DEF Types, SrvType, WindowAndChunk
  <2>2. /\ Len(pub.out) \in Nat /\ Len(pub'.out) \in Nat
        /\ Len(pub.inq) \in Nat /\ Len(pub'.inq) \in Nat
    BY <1>1, SocketTyped DEF Types
  <2>3. visitorSaid \in Nat /\ visitorSaid' \in Nat
    BY <1>1, BridgeAssumption DEF Types
  <2>4. srv'.sendCredit + visitorSaid' - Len(pub'.inq) >= Window
    BY <1>1, <2>1, <2>2, <2>3, SMTT(40) DEF Flow
  <2>5. SrvPauses'
    BY <1>1 DEF SrvPauses
  <2>6. /\ ~srv'.receivedEof => Len(pub'.out) < srv'.recvUnacked + HighWater
        /\ srv'.receivedEof => Len(pub'.out) < WindowAndChunk + HighWater
    BY <1>1, <2>1, <2>2, SMTT(40) DEF SrvBuffers, WindowAndChunk
  <2> QED
    BY <1>2, <2>1, <2>4, <2>5, <2>6 DEF SrvBytes
<1> QED
  BY <1>3, <1>4, <1>5 DEF SrvLaw

\* What the visitor and the kernel on its side do.
LEMMA VisitorSteps ==
  ASSUME IInv,
         \/ VisitorSend \/ VisitorFin \/ VisitorAbort
         \/ S!SocketFlush /\ UNCHANGED <<cVars, outsideVars>>
  PROVE  SrvLaw(<<>>, <<>>)
<1>1. /\ pub \in Socket(Bytes) /\ visitorSaid \in 0..UpBytes
      /\ UpBytes \in Nat /\ DownBytes \in Nat
  BY BridgeAssumption DEF IInv, Types
<1>2. Len(pub.inq) \in Nat /\ Len(pub.out) \in Nat /\ pub.inq \in Seq(Bytes)
  BY <1>1, SocketTyped
<1>3. CASE VisitorSend
  <2>1. visitorSaid + 1 \in Bytes /\ visitorSaid' = visitorSaid + 1
        /\ visitorSaid + 1 \in 0..UpBytes
    BY <1>1, <1>3 DEF VisitorSend, Bytes
  <2>2. pub' = [pub EXCEPT !.inq = Append(pub.inq, visitorSaid + 1)]
    BY <1>3 DEF VisitorSend
  <2>3. /\ Append(pub.inq, visitorSaid + 1) \in Seq(Bytes)
        /\ Len(Append(pub.inq, visitorSaid + 1)) = Len(pub.inq) + 1
    BY <1>2, <2>1
  <2>4. /\ pub' \in Socket(Bytes)
        /\ pub'.readEnded = pub.readEnded /\ pub'.flowing = pub.flowing
        /\ pub'.out = pub.out /\ Len(pub'.inq) = Len(pub.inq) + 1
    BY <1>1, <2>2, <2>3 DEF Socket
  <2> QED
    BY <1>1, <1>2, <1>3, <2>1, <2>4, SrvIdle DEF VisitorSend, linkVars
<1>4. CASE VisitorFin
  <2>1. /\ pub' \in Socket(Bytes)
        /\ pub'.readEnded = pub.readEnded /\ pub'.flowing = pub.flowing
        /\ pub'.out = pub.out /\ pub'.inq = pub.inq
    BY <1>1, <1>4 DEF VisitorFin, Socket
  <2> QED
    BY <1>1, <1>2, <1>4, <2>1, SrvIdle DEF VisitorFin, linkVars, outsideVars
<1>5. CASE VisitorAbort
  <2>1. pub' = Fail(pub)
    BY <1>5 DEF VisitorAbort
  <2>2. /\ pub' \in Socket(Bytes) /\ Shrunk(pub', pub)
        /\ pub'.out = <<>>
    BY <1>1, <2>1, SocketDestroyed
  <2>3. Len(pub'.inq) \in Nat
    BY <2>2, SocketTyped
  <2> QED
    BY <1>1, <1>2, <1>5, <2>2, <2>3, SrvIdle
       DEF VisitorAbort, linkVars, outsideVars, Shrunk
<1>6. CASE S!SocketFlush /\ UNCHANGED <<cVars, outsideVars>>
  <2>1. pub' = FlushByte(pub) /\ pub.out # <<>>
    BY <1>6, SameOperators DEF S!SocketFlush, S!CanFlush
  <2>2. /\ pub' \in Socket(Bytes) /\ Shrunk(pub', pub)
        /\ Len(pub'.out) = Len(pub.out) - 1
    BY <1>1, <2>1, ByteFlushed
  <2>3. Len(pub'.inq) \in Nat
    BY <2>2, SocketTyped
  <2> QED
    BY <1>1, <1>2, <1>6, <2>2, <2>3, SrvIdle
       DEF S!SocketFlush, linkVars, outsideVars, Shrunk
<1> QED
  BY <1>3, <1>4, <1>5, <1>6

\* A turn r of the server's end, which took the frames t, is committed.
SrvCommitted(r, t) ==
    /\ r \in SrvTurn
    /\ srv' = r.st /\ pub' = r.sock
    /\ toAgent' = IF linkUp THEN toAgent \o r.sent ELSE toAgent
    /\ t \in Seq(WireFrame) /\ toServer' \in Seq(WireFrame)
    /\ toServer = t \o toServer'
    /\ UNCHANGED <<cVars, linkUp, visitorSaid, serviceSaid>>
    /\ srvCongested' \in BOOLEAN /\ srvClosed' \in BOOLEAN
    /\ srvClosed' => ~linkUp
    /\ congestions' \in [{"server", "agent"} -> 0..MaxCongestions]

\* A turn of a callback takes no frame.
LEMMA SrvWired ==
  ASSUME IInv, NEW r, NEW t, SrvCommitted(r, t), NEW e, e = r.sent, Orderly(e)
  PROVE  SrvWire(e, t)
<1>1. Types /\ LifeOfServer
  BY DEF IInv
<1>2. r.st \in SrvType /\ r.sock \in Socket(Bytes) /\ r.sent \in Seq(WireFrame)
  BY DEF SrvCommitted, SrvTurn
<1> QED
  BY <1>1, <1>2 DEF SrvWire, SrvCommitted, Types, LifeOfServer, cVars

\* What the invariant says of the server's end, in one place.
SrvFacts ==
    /\ srv \in SrvType /\ pub \in Socket(Bytes)
    /\ srv.opened \in BOOLEAN /\ srv.finished \in BOOLEAN
    /\ srv.sentEof \in BOOLEAN /\ srv.receivedEof \in BOOLEAN
    /\ srv.pausedForCredit \in BOOLEAN
    /\ srv.sendCredit \in Int /\ srv.recvUnacked \in Nat
    /\ Len(pub.inq) \in Nat /\ Len(pub.out) \in Nat
    /\ visitorSaid \in Int
    /\ srv.sendCredit + visitorSaid - Len(pub.inq) >= Window
    /\ srv.pausedForCredit => ~pub.flowing
    /\ srv.sendCredit <= 0 => srv.pausedForCredit
    /\ srv.sendCredit > -MaxChunk
    /\ Len(pub.out) < WindowAndChunk + HighWater
    /\ ~srv.receivedEof => Len(pub.out) < srv.recvUnacked + HighWater
    /\ pub.readEnded => srv.sentEof \/ srv.finished
    /\ MaxChunk \in Nat \ {0} /\ HighWater \in Nat \ {0}
    /\ Window \in Nat \ {0} /\ WindowAndChunk \in Nat
    /\ MaxChunk <= Largest /\ Largest \in Nat

\* What the invariant says of the server's end.
LEMMA SrvKnown ==
  ASSUME IInv
  PROVE  SrvFacts
<1>1. Types /\ Informed /\ Flow /\ SrvPauses /\ SrvBuffers
  BY DEF IInv
<1>2. /\ srv \in SrvType /\ pub \in Socket(Bytes) /\ visitorSaid \in 0..UpBytes
  BY <1>1 DEF Types
<1>3. /\ srv.opened \in BOOLEAN /\ srv.finished \in BOOLEAN
      /\ srv.sentEof \in BOOLEAN /\ srv.receivedEof \in BOOLEAN
      /\ srv.pausedForCredit \in BOOLEAN
      /\ srv.sendCredit \in Int /\ srv.recvUnacked \in Nat
  BY <1>2 DEF SrvType
<1>4. Len(pub.inq) \in Nat /\ Len(pub.out) \in Nat
  BY <1>2, SocketTyped
<1>5. /\ MaxChunk \in Nat \ {0} /\ HighWater \in Nat \ {0} /\ Window \in Nat \ {0}
      /\ WindowAndChunk \in Nat /\ visitorSaid \in Int
      /\ MaxChunk <= Largest /\ Largest \in Nat
  BY <1>2, RoomTyped, BridgeAssumption, LargestBounds DEF WindowAndChunk
<1> QED
  BY <1>1, <1>2, <1>3, <1>4, <1>5
     DEF SrvFacts, Informed, Flow, SrvPauses, SrvBuffers, WindowAndChunk

\* The turn of a callback starts from what the end and its socket are.
LEMMA SrvTurnStarts ==
  ASSUME IInv, NEW s \in Socket(Bytes)
  PROVE  /\ S!Turn \in SrvTurn
         /\ S!Turn.st = srv /\ S!Turn.sock = pub /\ S!Turn.sent = <<>>
         /\ [S!Turn EXCEPT !.sock = s] \in SrvTurn
         /\ [S!Turn EXCEPT !.sock = s].st = srv
         /\ [S!Turn EXCEPT !.sock = s].sock = s
         /\ [S!Turn EXCEPT !.sock = s].sent = <<>>
<1>1. srv \in SrvType /\ pub \in Socket(Bytes) /\ <<>> \in Seq(WireFrame)
  BY SrvKnown DEF SrvFacts
<1> QED
  BY <1>1 DEF S!Turn, SrvTurn

\* A callback that takes no frame commits its turn.
LEMMA SrvCallback ==
  ASSUME IInv, NEW r \in SrvTurn, S!Commit(r),
         UNCHANGED <<cVars, linkUp, toServer, srvClosed, visitorSaid, serviceSaid>>,
         srvCongested' \in BOOLEAN,
         congestions' \in [{"server", "agent"} -> 0..MaxCongestions]
  PROVE  SrvCommitted(r, <<>>)
<1>1. Types /\ LifeOfServer
  BY DEF IInv
<1>2. toAgent' = IF linkUp THEN toAgent \o r.sent ELSE toAgent
  BY <1>1 DEF S!Commit, LifeOfServer
<1>3. /\ <<>> \in Seq(WireFrame) /\ toServer \in Seq(WireFrame)
      /\ toServer = <<>> \o toServer
  BY <1>1, Nothing DEF Types
<1> QED
  BY <1>1, <1>2, <1>3 DEF S!Commit, SrvCommitted, LifeOfServer, Types

\* 'data' at the server obeys the law.
LEMMA SocketDataLaw ==
  ASSUME IInv, S!SocketData, UNCHANGED <<cVars, outsideVars>>
  PROVE  \E e, t : SrvLaw(e, t)
<1>0. SrvFacts
  BY SrvKnown
<1>1. PICK k \in 1..MaxChunk :
        /\ S!CanEmitData(pub, k)
        /\ S!Commit(S!OnSocketData([S!Turn EXCEPT !.sock = S!TakeData(@, k)],
                                   SubSeq(pub.inq, 1, k)))
  BY DEF S!SocketData
<1>2. /\ pub.flowing /\ k <= Len(pub.inq) /\ srv.opened
      /\ UNCHANGED <<cVars, linkUp, toServer, srvClosed, visitorSaid, serviceSaid,
                     srvCongested, congestions>>
  BY <1>1 DEF S!SocketData, S!CanEmitData, outsideVars
<1>3. srv.sendCredit > 0 /\ ~srv.pausedForCredit /\ k \in Nat /\ k > 0 /\ k <= MaxChunk
  BY <1>2, <1>0 DEF SrvFacts
<1> DEFINE s == TakeData(pub, k)
           d == SubSeq(pub.inq, 1, k)
           h == [S!Turn EXCEPT !.sock = s]
           r == S!OnSocketData(h, d)
<1>4. /\ s \in Socket(Bytes) /\ s.readEnded = pub.readEnded /\ s.flowing = pub.flowing
      /\ s.out = pub.out /\ Len(s.inq) = Len(pub.inq) - k
      /\ d \in Seq(Bytes) /\ Len(d) = k /\ d # <<>>
  <2>1. /\ s \in Socket(Bytes) /\ s.readEnded = pub.readEnded
        /\ s.flowing = pub.flowing
        /\ s.out = pub.out /\ Len(s.inq) = Len(pub.inq) - k
        /\ d \in Seq(Bytes) /\ Len(d) = k
    BY <1>2, <1>3, <1>0, DataTaken, ZenonT(60) DEF SrvFacts
  <2> QED
    BY <1>3, <2>1
<1>5. S!Commit(r)
  <2>1. S!Turn.sock = pub
    BY DEF S!Turn
  <2>2. [S!Turn EXCEPT !.sock = S!TakeData(@, k)] = h
    BY <2>1, SameOperators
  <2> QED
    BY <1>1, <2>2
<1> HIDE DEF s, d
<1>6. h \in SrvTurn /\ h.st = srv /\ h.sock = s /\ h.sent = <<>>
  BY <1>4, SrvTurnStarts, SMTT(40)
<1> HIDE DEF h
<1>7. /\ srv.finished \/ srv.sentEof => r = h
      /\ ~(srv.finished \/ srv.sentEof) =>
            /\ r \in SrvTurn
            /\ r.sent = Append(<<>>, DataFrame(d))
            /\ \/ /\ srv.sendCredit - k > 0 \/ srv.pausedForCredit
                  /\ r.st = [srv EXCEPT !.sendCredit = srv.sendCredit - k]
                  /\ r.sock = s
               \/ /\ srv.sendCredit - k <= 0
                  /\ r.st = [srv EXCEPT !.sendCredit = srv.sendCredit - k,
                                        !.pausedForCredit = TRUE]
                  /\ r.sock = Pause(s)
  BY <1>4, <1>6, SrvSocketData, ZenonT(60)
<1> DEFINE e == r.sent
<1> HIDE DEF r
<1>8. r \in SrvTurn
  BY <1>6, <1>7
<1>9. SrvCommitted(r, <<>>)
  BY <1>2, <1>5, <1>8, SrvCallback, <1>0 DEF IInv, Types, SrvFacts
<1>10. CASE srv.finished \/ srv.sentEof
  <2>1. e = <<>> /\ srv' = srv /\ pub' = s
    BY <1>6, <1>7, <1>9, <1>10 DEF SrvCommitted
  <2> HIDE DEF e
  <2>2. SrvWire(e, <<>>)
    BY <1>9, <2>1, SrvWired, FewFrames DEF SrvCommitted, e
  <2>3. SrvWord(e, <<>>)
    BY <1>2, <1>4, <2>1, <1>0, FewFrames DEF SrvWord, SrvFacts
  <2>4. SrvBytes(e, <<>>)
    <3>1. DataIn(e) = 0 /\ AcksIn(e) = 0 /\ DataIn(<<>>) = 0 /\ AcksIn(<<>>) = 0
      BY <2>1, EmptySeen
    <3>2. SrvPauses'
      BY <1>4, <2>1, <1>0 DEF SrvPauses, SrvFacts
    <3>3. srv'.sendCredit + visitorSaid' - Len(pub'.inq) >= Window
      BY <1>2, <1>3, <1>4, <2>1, <1>0, SMTT(40) DEF SrvFacts
    <3> QED
      BY <1>4, <2>1, <3>1, <3>2, <3>3, <1>0, SMTT(40) DEF SrvBytes, SrvFacts
  <2> QED
    BY <2>2, <2>3, <2>4 DEF SrvLaw
<1>11. CASE ~(srv.finished \/ srv.sentEof)
  <2>1. /\ e \in Seq(WireFrame) /\ Orderly(e)
        /\ TypesIn(e) = {"DATA"} /\ DataIn(e) = k /\ AcksIn(e) = 0
    <3> DEFINE f == DataFrame(d)
    <3>1. /\ f \in WireFrame /\ f.type = "DATA" /\ DataOf(f) = k /\ AckOf(f) = 0
      BY <1>4, FramesTyped
    <3>2. e = Append(<<>>, f)
      BY <1>7, <1>11
    <3> HIDE DEF e, f
    <3> QED
      BY <3>1, <3>2, OneSent
  <2>2. /\ srv'.opened = srv.opened /\ srv'.finished = srv.finished
        /\ srv'.sentEof = srv.sentEof /\ srv'.receivedEof = srv.receivedEof
        /\ srv'.recvUnacked = srv.recvUnacked
        /\ srv'.sendCredit = srv.sendCredit - k
    BY <1>7, <1>9, <1>11, <1>0 DEF SrvCommitted, SrvType, SrvFacts
  <2>3. /\ pub'.readEnded = pub.readEnded
        /\ Len(pub'.inq) = Len(pub.inq) - k
        /\ pub'.out = pub.out
    BY <1>4, <1>7, <1>9, <1>11, PauseResume DEF SrvCommitted, Shrunk
  <2>4. SrvPauses'
    <3>1. \/ srv.sendCredit - k > 0 /\ srv'.pausedForCredit = srv.pausedForCredit
          \/ srv'.pausedForCredit /\ ~pub'.flowing
      BY <1>3, <1>4, <1>7, <1>9, <1>11, <1>0, PauseResume, ZenonT(60) DEF SrvCommitted, SrvType, SrvFacts
    <3> QED
      BY <1>3, <2>2, <3>1, <1>0, SMTT(40) DEF SrvPauses, SrvFacts
  <2> HIDE DEF e
  <2>5. SrvWire(e, <<>>)
    BY <1>9, <2>1, SrvWired DEF e
  <2>6. SrvWord(e, <<>>)
    BY <1>2, <1>11, <2>1, <2>2, <2>3, <1>0, FewFrames DEF SrvWord, SrvFacts
  <2>7. SrvBytes(e, <<>>)
    <3>1. DataIn(<<>>) = 0 /\ AcksIn(<<>>) = 0
      BY EmptySeen
    <3>2. srv'.sendCredit + visitorSaid' - Len(pub'.inq) >= Window
      BY <1>2, <1>3, <2>2, <2>3, <1>0, SMTT(40) DEF SrvFacts
    <3> QED
      BY <1>3, <2>1, <2>2, <2>3, <2>4, <3>1, <3>2, <1>0, SMTT(40) DEF SrvBytes, SrvFacts
  <2> QED
    BY <2>5, <2>6, <2>7 DEF SrvLaw
<1> QED
  BY <1>10, <1>11

\* A turn with its socket replaced.
LEMMA SrvSock ==
  ASSUME NEW h \in SrvTurn, NEW s \in Socket(Bytes)
  PROVE  /\ [h EXCEPT !.sock = s] \in SrvTurn
         /\ [h EXCEPT !.sock = s].st = h.st
         /\ [h EXCEPT !.sock = s].sock = s
         /\ [h EXCEPT !.sock = s].sent = h.sent
  BY DEF SrvTurn

\* 'end' at the server obeys the law.
LEMMA SocketEndLaw ==
  ASSUME IInv, S!SocketEnd, UNCHANGED <<cVars, outsideVars>>
  PROVE  \E e, t : SrvLaw(e, t)
<1>0. SrvFacts
  BY SrvKnown
<1>1. /\ srv.opened
      /\ S!Commit([S!OnSocketEnd(S!Turn) EXCEPT !.sock = S!EmitEnd(@)])
      /\ UNCHANGED <<cVars, linkUp, toServer, srvClosed, visitorSaid, serviceSaid,
                     srvCongested, congestions>>
  BY DEF S!SocketEnd, outsideVars
<1> DEFINE h == S!Turn
           q == S!OnSocketEnd(h)
           s == EmitEnd(q.sock)
           r == [q EXCEPT !.sock = s]
           e == r.sent
<1>2. h \in SrvTurn /\ h.st = srv /\ h.sock = pub /\ h.sent = <<>>
  BY <1>0, SrvTurnStarts DEF SrvFacts
<1>3. S!Commit(r)
  <2>1. [S!OnSocketEnd(S!Turn) EXCEPT !.sock = S!EmitEnd(@)] = r
    BY SameOperators
  <2> QED
    BY <1>1, <2>1
<1> HIDE DEF h
<1>4. /\ srv.finished \/ srv.sentEof => q = h
      /\ ~(srv.finished \/ srv.sentEof) =>
            /\ q \in SrvTurn
            /\ \/ /\ srv.receivedEof
                  /\ q.st = [srv EXCEPT !.sentEof = TRUE, !.finished = TRUE]
               \/ /\ ~srv.receivedEof
                  /\ q.st = [srv EXCEPT !.sentEof = TRUE]
            /\ q.sock = pub
            /\ q.sent = Append(<<>>, EofFrame)
  BY <1>2, SrvSocketEnd, ZenonT(60)
<1> HIDE DEF q
<1>5. q \in SrvTurn /\ q.sock = pub
  BY <1>2, <1>4
<1>6. /\ s \in Socket(Bytes) /\ s.inq = pub.inq /\ s.out = pub.out
      /\ s.flowing = pub.flowing
  BY <1>0, <1>5, SocketEvents DEF SrvFacts
<1> HIDE DEF s
<1>7. r \in SrvTurn /\ r.st = q.st /\ r.sock = s /\ r.sent = q.sent
  BY <1>5, <1>6, SrvSock
<1> HIDE DEF r
<1>8. SrvCommitted(r, <<>>)
  BY <1>1, <1>3, <1>7, SrvCallback DEF IInv, Types
<1>9. srv' = q.st /\ pub' = s
  BY <1>7, <1>8 DEF SrvCommitted
<1>10. /\ srv'.opened = srv.opened
       /\ srv'.sentEof \/ srv'.finished
       /\ srv.sentEof => srv'.sentEof
       /\ srv.finished => srv'.finished
       /\ srv'.finished => srv.finished \/ srv'.sentEof
       /\ srv'.receivedEof = srv.receivedEof
       /\ srv'.recvUnacked = srv.recvUnacked /\ srv'.sendCredit = srv.sendCredit
       /\ srv'.pausedForCredit = srv.pausedForCredit
  <2>1. CASE srv.finished \/ srv.sentEof
    BY <1>0, <1>2, <1>4, <1>9, <2>1 DEF SrvFacts
  <2>2. CASE ~(srv.finished \/ srv.sentEof)
    BY <1>0, <1>4, <1>9, <2>2 DEF SrvFacts, SrvType
  <2> QED
    BY <2>1, <2>2
<1>11. /\ e \in Seq(WireFrame) /\ Orderly(e) /\ DataIn(e) = 0 /\ AcksIn(e) = 0
       /\ \/ TypesIn(e) = {} /\ srv'.sentEof = srv.sentEof
          \/ TypesIn(e) = {"EOF"} /\ srv'.sentEof /\ ~srv.finished
  <2>1. CASE srv.finished \/ srv.sentEof
    BY <1>2, <1>4, <1>7, <1>9, <2>1, FewFrames
  <2>2. CASE ~(srv.finished \/ srv.sentEof)
    <3>1. e = Append(<<>>, EofFrame)
      BY <1>4, <1>7, <2>2
    <3> HIDE DEF e
    <3>2. /\ e \in Seq(WireFrame) /\ Orderly(e) /\ DataIn(e) = 0 /\ AcksIn(e) = 0
          /\ TypesIn(e) = {"EOF"}
      BY <3>1, FramesTyped, OneSent
    <3>3. srv'.sentEof
      BY <1>0, <1>4, <1>9, <2>2 DEF SrvFacts, SrvType
    <3> QED
      BY <2>2, <3>2, <3>3
  <2> QED
    BY <2>1, <2>2
<1>12. TypesIn(<<>>) = {} /\ DataIn(<<>>) = 0 /\ AcksIn(<<>>) = 0
  BY EmptySeen
<1>13. SrvWire(e, <<>>)
  BY <1>8, <1>11, SrvWired
<1> HIDE DEF e
<1>14. SrvWord(e, <<>>)
  BY <1>0, <1>1, <1>10, <1>11, <1>12 DEF SrvWord, SrvFacts
<1>15. SrvBytes(e, <<>>)
  <2>1. SrvPauses'
    BY <1>0, <1>6, <1>9, <1>10 DEF SrvPauses, SrvFacts
  <2>2. srv'.sendCredit + visitorSaid' - Len(pub'.inq) >= Window
    BY <1>0, <1>1, <1>6, <1>9, <1>10 DEF SrvFacts
  <2> QED
    BY <1>0, <1>6, <1>9, <1>10, <1>11, <1>12, <2>1, <2>2, SMTT(40) DEF SrvBytes, SrvFacts
<1> QED
  BY <1>13, <1>14, <1>15 DEF SrvLaw

\* 'drain' at the server obeys the law.
LEMMA SocketDrainLaw ==
  ASSUME IInv, S!SocketDrain, UNCHANGED <<cVars, outsideVars>>
  PROVE  \E e, t : SrvLaw(e, t)
<1>0. SrvFacts
  BY SrvKnown
<1> DEFINE s == Drained(pub)
           h == [S!Turn EXCEPT !.sock = s]
           r == S!FlushAck(h)
           e == r.sent
<1>1. /\ srv.opened /\ pub.out = <<>>
      /\ UNCHANGED <<cVars, linkUp, toServer, srvClosed, visitorSaid, serviceSaid,
                     srvCongested, congestions>>
  BY DEF S!SocketDrain, S!DrainDue, outsideVars
<1>2. S!Commit(r)
  <2>1. S!Turn.sock = pub
    BY DEF S!Turn
  <2>2. [S!Turn EXCEPT !.sock = S!Drained(@)] = h
    BY <2>1, SameOperators
  <2> QED
    BY <2>2 DEF S!SocketDrain
<1>3. /\ s \in Socket(Bytes) /\ s.out = <<>> /\ s.readEnded = pub.readEnded
      /\ Len(s.inq) <= Len(pub.inq) /\ Len(s.inq) \in Nat
      /\ s.flowing => pub.flowing
  BY <1>0, <1>1, SocketEvents, SocketTyped DEF SrvFacts, Shrunk
<1> HIDE DEF s
<1>4. h \in SrvTurn /\ h.st = srv /\ h.sock = s /\ h.sent = <<>>
  BY <1>3, SrvTurnStarts
<1> HIDE DEF h
<1>5. /\ srv.recvUnacked = 0 \/ srv.finished => r = h
      /\ ~(srv.recvUnacked = 0 \/ srv.finished) =>
            /\ r \in SrvTurn
            /\ r.st = [srv EXCEPT !.recvUnacked = 0]
            /\ r.sock = s
            /\ r.sent = Append(<<>>, AckFrame(srv.recvUnacked))
  BY <1>4, SrvFlushAck
<1> HIDE DEF r
<1>6. r \in SrvTurn /\ r.sock = s
  BY <1>4, <1>5
<1>7. SrvCommitted(r, <<>>)
  BY <1>1, <1>2, <1>6, SrvCallback DEF IInv, Types
<1>8. srv' = r.st /\ pub' = s
  BY <1>6, <1>7 DEF SrvCommitted
<1>9. /\ srv'.opened = srv.opened /\ srv'.finished = srv.finished
      /\ srv'.sentEof = srv.sentEof /\ srv'.receivedEof = srv.receivedEof
      /\ srv'.sendCredit = srv.sendCredit
      /\ srv'.pausedForCredit = srv.pausedForCredit
      /\ srv'.recvUnacked \in Nat
  <2>1. CASE srv.recvUnacked = 0 \/ srv.finished
    BY <1>0, <1>4, <1>5, <1>8, <2>1 DEF SrvFacts
  <2>2. CASE ~(srv.recvUnacked = 0 \/ srv.finished)
    BY <1>0, <1>5, <1>8, <2>2, SMTT(40) DEF SrvFacts, SrvType
  <2> QED
    BY <2>1, <2>2
<1>10. /\ e \in Seq(WireFrame) /\ Orderly(e) /\ DataIn(e) = 0
       /\ AcksIn(e) \in Nat /\ srv'.recvUnacked + AcksIn(e) = srv.recvUnacked
       /\ TypesIn(e) = {} \/ (TypesIn(e) = {"ACK"} /\ ~srv.finished)
  <2>1. CASE srv.recvUnacked = 0 \/ srv.finished
    <3>1. e = <<>> /\ srv' = srv
      BY <1>4, <1>5, <1>8, <2>1
    <3> HIDE DEF e
    <3>2. e \in Seq(WireFrame) /\ Orderly(e) /\ TypesIn(e) = {}
          /\ DataIn(e) = 0 /\ AcksIn(e) = 0
      BY <3>1, FewFrames
    <3> QED
      BY <1>0, <3>1, <3>2 DEF SrvFacts
  <2>2. CASE ~(srv.recvUnacked = 0 \/ srv.finished)
    <3> DEFINE f == AckFrame(srv.recvUnacked)
    <3>1. e = Append(<<>>, f)
      BY <1>5, <2>2
    <3>2. /\ f \in WireFrame /\ f.type = "ACK" /\ DataOf(f) = 0
          /\ AckOf(f) = srv.recvUnacked
      BY <1>0, <2>2, FramesTyped DEF SrvFacts
    <3> HIDE DEF e, f
    <3>3. /\ e \in Seq(WireFrame) /\ Orderly(e) /\ DataIn(e) = 0
          /\ AcksIn(e) = srv.recvUnacked /\ TypesIn(e) = {"ACK"}
      BY <3>1, <3>2, OneSent
    <3>4. srv'.recvUnacked = 0
      BY <1>0, <1>5, <1>8, <2>2 DEF SrvFacts, SrvType
    <3> QED
      BY <1>0, <2>2, <3>3, <3>4 DEF SrvFacts
  <2> QED
    BY <2>1, <2>2
<1>11. TypesIn(<<>>) = {} /\ DataIn(<<>>) = 0 /\ AcksIn(<<>>) = 0
  BY EmptySeen
<1>12. SrvWire(e, <<>>)
  BY <1>7, <1>10, SrvWired
<1> HIDE DEF e
<1>13. SrvWord(e, <<>>)
  BY <1>0, <1>1, <1>3, <1>8, <1>9, <1>10, <1>11 DEF SrvWord, SrvFacts
<1>14. SrvBytes(e, <<>>)
  <2>1. SrvPauses'
    BY <1>0, <1>3, <1>8, <1>9 DEF SrvPauses, SrvFacts
  <2>2. srv'.sendCredit + visitorSaid' - Len(pub'.inq) >= Window
    BY <1>0, <1>1, <1>3, <1>8, <1>9, SMTT(40) DEF SrvFacts
  <2>3. Len(pub'.out) = 0
    BY <1>3, <1>8
  <2>4. /\ HighWater \in Nat \ {0} /\ WindowAndChunk \in Nat
        /\ srv.sendCredit \in Int /\ srv.recvUnacked \in Nat
        /\ srv'.sendCredit = srv.sendCredit /\ srv'.recvUnacked \in Nat
    BY <1>0, <1>9 DEF SrvFacts
  <2>5. /\ srv'.sendCredit + DataIn(e) = srv.sendCredit + AcksIn(<<>>)
        /\ srv'.recvUnacked + AcksIn(e) = srv.recvUnacked + DataIn(<<>>)
        /\ ~(DataIn(e) > 0)
    BY ONLY <1>10, <1>11, <2>4
  <2>6. /\ srv'.sendCredit + DataIn(e) <= srv.sendCredit + AcksIn(<<>>)
        /\ srv'.recvUnacked + AcksIn(e) <= srv.recvUnacked + DataIn(<<>>)
    BY ONLY <1>10, <1>11, <2>4
  <2>7. /\ Len(pub'.out) < srv'.recvUnacked + HighWater
        /\ Len(pub'.out) < WindowAndChunk + HighWater
    BY ONLY <2>3, <2>4
  <2> QED
    BY ONLY <2>1, <2>2, <2>5, <2>6, <2>7 DEF SrvBytes
<1> QED
  BY <1>12, <1>13, <1>14 DEF SrvLaw

\* A turn that moves no bytes: it may end the stream, and may pause or resume
\* its socket.
SrvQuiet(r) ==
    /\ r \in SrvTurn
    /\ r.sock.readEnded = pub.readEnded
    /\ Len(r.sock.inq) <= Len(pub.inq)
    /\ r.sock.out = <<>> \/ r.sock.out = pub.out
    /\ r.st.opened = srv.opened
    /\ srv.finished => r.st.finished
    /\ r.st.sentEof = srv.sentEof /\ r.st.receivedEof = srv.receivedEof
    /\ r.st.sendCredit = srv.sendCredit /\ r.st.recvUnacked = srv.recvUnacked
    /\ \/ /\ r.st.pausedForCredit = srv.pausedForCredit
          /\ r.sock.flowing => pub.flowing
       \/ ~r.st.pausedForCredit /\ srv.sendCredit > 0

\* A turn that moves no byte and takes nothing but a reset obeys the law.
LEMMA SrvQuietLaw ==
  ASSUME IInv, NEW r, NEW t, SrvCommitted(r, t), SrvQuiet(r),
         srv.opened \/ (r.st = srv /\ r.sent = <<>>),
         NEW e, e = r.sent, Orderly(e), TypesIn(e) \subseteq {"RESET"},
         DataIn(e) = 0, AcksIn(e) = 0,
         TypesIn(e) # {} => r.st.finished,
         TypesIn(t) \subseteq {"RESET"} \/ srv.finished,
         "RESET" \in TypesIn(t) => r.st.finished,
         r.st.finished => \/ srv.finished \/ srv.sentEof \/ ~linkUp
                          \/ "RESET" \in TypesIn(e) \/ "RESET" \in TypesIn(t)
  PROVE  SrvLaw(e, t)
<1>0. SrvFacts
  BY SrvKnown
<1>1. /\ srv' = r.st /\ pub' = r.sock /\ visitorSaid' = visitorSaid
      /\ r.sock \in Socket(Bytes) /\ t \in Seq(WireFrame)
  BY DEF SrvCommitted, SrvTurn
<1>2. /\ srv'.opened = srv.opened
      /\ srv.finished => srv'.finished
      /\ srv'.sentEof = srv.sentEof /\ srv'.receivedEof = srv.receivedEof
      /\ srv'.sendCredit = srv.sendCredit
      /\ srv'.recvUnacked = srv.recvUnacked
      /\ \/ /\ srv'.pausedForCredit = srv.pausedForCredit
            /\ pub'.flowing => pub.flowing
         \/ ~srv'.pausedForCredit /\ srv.sendCredit > 0
  BY <1>1 DEF SrvQuiet
<1>3. /\ Len(pub'.inq) <= Len(pub.inq) /\ Len(pub'.inq) \in Nat
      /\ pub'.readEnded = pub.readEnded
      /\ Len(pub'.out) <= Len(pub.out) /\ Len(pub'.out) \in Nat
  BY <1>0, <1>1, SocketTyped DEF SrvQuiet, SrvFacts
<1>4. DataIn(t) \in Nat /\ AcksIn(t) \in Nat /\ visitorSaid' = visitorSaid
  BY <1>1, CountsBounded DEF WireFrame
<1>5. ~srv'.finished => DataIn(t) = 0 /\ AcksIn(t) = 0
  <2>1. SUFFICES ASSUME ~srv'.finished PROVE DataIn(t) = 0 /\ AcksIn(t) = 0
    OBVIOUS
  <2>2. TypesIn(t) = {}
    BY <1>1, <1>2, <2>1
  <2>3. t = <<>>
    BY <1>1, <2>2, NoFrames
  <2> QED
    BY <2>3, EmptySeen
<1>6. SrvWire(e, t)
  BY SrvWired
<1>7. SrvWord(e, t)
  <2>1. ~srv'.opened => srv' = S!NoStream /\ e = <<>>
    BY <1>1, <1>2 DEF IInv, LifeOfServer
  <2>2. "OPEN" \notin TypesIn(e) /\ "EOF" \notin TypesIn(e) /\ "DATA" \notin TypesIn(e)
    OBVIOUS
  <2> QED
    BY <1>0, <1>1, <1>2, <1>3, <2>1, <2>2 DEF SrvWord, SrvFacts
<1>8. SrvBytes(e, t)
  <2>1. SrvPauses'
    BY <1>0, <1>2, <1>3 DEF SrvPauses, SrvFacts
  <2>2. srv'.sendCredit + visitorSaid' - Len(pub'.inq) >= Window
    BY <1>0, <1>2, <1>3, <1>4, SMTT(40) DEF SrvFacts
  <2>3. /\ ~srv'.receivedEof => Len(pub'.out) < srv'.recvUnacked + HighWater
        /\ srv'.receivedEof => Len(pub'.out) < WindowAndChunk + HighWater
    <3> DEFINE bound == WindowAndChunk + HighWater
               limit == srv.recvUnacked + HighWater
               m == Len(pub.out)
               n == Len(pub'.out)
    <3>1. /\ bound \in Int /\ limit \in Int /\ m \in Int /\ n \in Int
          /\ n <= m /\ m < bound /\ (~srv.receivedEof => m < limit)
      BY <1>0, <1>3 DEF SrvFacts
    <3> HIDE DEF bound, limit, m, n
    <3>2. n < bound /\ (~srv.receivedEof => n < limit)
      BY ONLY <3>1
    <3> QED
      BY <1>2, <3>2 DEF bound, limit, n
  <2>4. /\ srv'.sendCredit + DataIn(e) <= srv.sendCredit + AcksIn(t)
        /\ srv'.recvUnacked + AcksIn(e) <= srv.recvUnacked + DataIn(t)
        /\ ~srv'.finished =>
              /\ srv'.sendCredit + DataIn(e) = srv.sendCredit + AcksIn(t)
              /\ srv'.recvUnacked + AcksIn(e) = srv.recvUnacked + DataIn(t)
    BY <1>0, <1>2, <1>4, <1>5 DEF SrvFacts
  <2> QED
    BY <2>1, <2>2, <2>3, <2>4 DEF SrvBytes
<1> QED
  BY <1>6, <1>7, <1>8 DEF SrvLaw

\* 'error' at the server obeys the law.
LEMMA SocketErrorLaw ==
  ASSUME IInv, S!SocketError, UNCHANGED <<cVars, outsideVars>>
  PROVE  \E e, t : SrvLaw(e, t)
<1>0. SrvFacts
  BY SrvKnown
<1> DEFINE s == [pub EXCEPT !.error = FALSE]
           h == [S!Turn EXCEPT !.sock = s]
           r == S!Destroy(h, "socket_error")
           e == r.sent
<1>1. /\ srv.opened
      /\ UNCHANGED <<cVars, linkUp, toServer, srvClosed, visitorSaid, serviceSaid,
                     srvCongested, congestions>>
  BY DEF S!SocketError, outsideVars
<1>2. S!Commit(r)
  <2>1. [S!Turn EXCEPT !.sock.error = FALSE] = h
    BY DEF S!Turn
  <2> QED
    BY <2>1 DEF S!SocketError
<1>3. s \in Socket(Bytes) /\ Shrunk(s, pub) /\ s.out = pub.out
  BY <1>0, SocketEvents DEF SrvFacts
<1> HIDE DEF s
<1>4. h \in SrvTurn /\ h.st = srv /\ h.sock = s /\ h.sent = <<>>
  BY <1>3, SrvTurnStarts
<1> HIDE DEF h
<1>5. /\ srv.finished => r = h
      /\ ~srv.finished =>
            /\ r \in SrvTurn
            /\ r.st = [srv EXCEPT !.finished = TRUE]
            /\ r.sock = DestroySocket(s)
            /\ r.sent = Append(<<>>, ResetFrame)
  <2> DEFINE why == "socket_error"
  <2>1. why # "peer_reset"
    OBVIOUS
  <2> HIDE DEF why
  <2>2. SUFFICES LET q == S!Destroy(h, why)
                 IN  /\ srv.finished => q = h
                     /\ ~srv.finished =>
                           /\ q \in SrvTurn
                           /\ q.st = [srv EXCEPT !.finished = TRUE]
                           /\ q.sock = DestroySocket(s)
                           /\ q.sent = Append(<<>>, ResetFrame)
    BY DEF why
  <2> QED
    BY <1>4, <2>1, SrvDestroy
<1>6. Shrunk(DestroySocket(s), pub) /\ DestroySocket(s).out = <<>>
  <2>1. /\ DestroySocket(s) \in Socket(Bytes) /\ Shrunk(DestroySocket(s), s)
        /\ DestroySocket(s).out = <<>>
    BY <1>3, SocketDestroyed
  <2>2. Len(DestroySocket(s).inq) \in Nat /\ Len(s.inq) \in Nat /\ Len(pub.inq) \in Nat
    BY <1>0, <1>3, <2>1, SocketTyped DEF SrvFacts
  <2> QED
    BY <1>3, <2>1, <2>2 DEF Shrunk
<1> HIDE DEF r
<1>7. SrvQuiet(r)
  BY <1>0, <1>3, <1>4, <1>5, <1>6, ZenonT(60) DEF SrvQuiet, Shrunk, SrvFacts, SrvType
<1>8. SrvCommitted(r, <<>>)
  BY <1>1, <1>2, <1>7, SrvCallback DEF IInv, Types, SrvQuiet
<1>9. /\ e \in Seq(WireFrame) /\ Orderly(e) /\ DataIn(e) = 0 /\ AcksIn(e) = 0
      /\ \/ TypesIn(e) = {} /\ srv.finished /\ r.st.finished
         \/ TypesIn(e) = {"RESET"} /\ r.st.finished
  <2>1. CASE srv.finished
    BY <1>4, <1>5, <2>1, FewFrames
  <2>2. CASE ~srv.finished
    <3>1. e = Append(<<>>, ResetFrame) /\ r.st.finished
      BY <1>0, <1>5, <2>2 DEF SrvFacts, SrvType
    <3> HIDE DEF e
    <3> QED
      BY <3>1, FramesTyped, OneSent
  <2> QED
    BY <2>1, <2>2
<1>10. TypesIn(<<>>) = {}
  BY EmptySeen
<1> HIDE DEF e
<1>11. SrvLaw(e, <<>>)
  BY <1>1, <1>7, <1>8, <1>9, <1>10, SrvQuietLaw DEF e
<1> QED
  BY <1>11

\* 'close' at the server obeys the law.
LEMMA SocketCloseLaw ==
  ASSUME IInv, S!SocketClose, UNCHANGED <<cVars, outsideVars>>
  PROVE  \E e, t : SrvLaw(e, t)
<1>0. SrvFacts
  BY SrvKnown
<1> DEFINE h == S!Turn
           q == S!Finish(h)
           s == DestroySocket(q.sock)
           r == [q EXCEPT !.sock = s]
           e == r.sent
<1>1. /\ srv.opened /\ pub.readEnded
      /\ UNCHANGED <<cVars, linkUp, toServer, srvClosed, visitorSaid, serviceSaid,
                     srvCongested, congestions>>
  BY DEF S!SocketClose, S!CanEmitClose, outsideVars
<1>2. S!Commit(r)
  <2>1. [S!Finish(S!Turn) EXCEPT !.sock = S!DestroySocket(@)] = r
    BY SameOperators
  <2> QED
    BY <2>1 DEF S!SocketClose
<1>3. h \in SrvTurn /\ h.st = srv /\ h.sock = pub /\ h.sent = <<>>
  BY <1>0, SrvTurnStarts DEF SrvFacts
<1> HIDE DEF h
<1>4. q \in SrvTurn /\ q.st = [srv EXCEPT !.finished = TRUE] /\ q.sock = pub
      /\ q.sent = <<>>
  BY <1>3, SrvFinish
<1> HIDE DEF q
<1>5. s \in Socket(Bytes) /\ Shrunk(s, pub) /\ s.out = <<>>
  BY <1>0, <1>4, SocketDestroyed DEF SrvFacts
<1> HIDE DEF s
<1>6. r \in SrvTurn /\ r.st = q.st /\ r.sock = s /\ r.sent = <<>>
  BY <1>4, <1>5, SrvSock
<1> HIDE DEF r
<1>7. SrvQuiet(r)
  BY <1>0, <1>4, <1>5, <1>6 DEF SrvQuiet, Shrunk, SrvFacts, SrvType
<1>8. SrvCommitted(r, <<>>)
  BY <1>1, <1>2, <1>7, SrvCallback DEF IInv, Types, SrvQuiet
<1>9. /\ e = <<>> /\ Orderly(e) /\ DataIn(e) = 0 /\ AcksIn(e) = 0 /\ TypesIn(e) = {}
  BY <1>6, FewFrames
<1>10. srv.finished \/ srv.sentEof
  BY <1>0, <1>1 DEF SrvFacts
<1>11. TypesIn(<<>>) = {}
  BY EmptySeen
<1> HIDE DEF e
<1>12. SrvLaw(e, <<>>)
  BY <1>1, <1>7, <1>8, <1>9, <1>10, <1>11, SrvQuietLaw DEF e
<1> QED
  BY <1>12

\* What setGlobalPause does to the server's end moves no bytes.
LEMMA SrvRepausedQuiet ==
  ASSUME IInv, NEW r, SrvRepaused(r, S!Turn)
  PROVE  SrvQuiet(r) /\ r.sent = <<>> /\ r.st.finished = srv.finished
<1>0. SrvFacts
  BY SrvKnown
<1>1. /\ S!Turn.st = srv /\ S!Turn.sock = pub /\ S!Turn.sent = <<>>
  BY <1>0, SrvTurnStarts DEF SrvFacts
<1>2. /\ Pause(pub).out = pub.out /\ Pause(pub).inq = pub.inq
      /\ Pause(pub).readEnded = pub.readEnded /\ ~Pause(pub).flowing
      /\ Resume(pub).out = pub.out /\ Resume(pub).inq = pub.inq
      /\ Resume(pub).readEnded = pub.readEnded
  BY <1>0, PauseResume DEF SrvFacts, Shrunk
<1>3. r \in SrvTurn /\ r.sent = <<>>
  BY <1>1 DEF SrvRepaused
<1>4. CASE r.st = srv /\ r.sock = pub
  BY <1>0, <1>3, <1>4 DEF SrvQuiet, SrvFacts
<1>5. CASE /\ \/ r.st = [srv EXCEPT !.pausedGlobally = TRUE]
              \/ r.st = [srv EXCEPT !.pausedGlobally = FALSE]
           /\ r.sock = pub \/ r.sock = Pause(pub)
  <2>1. /\ r.st.opened = srv.opened /\ r.st.finished = srv.finished
        /\ r.st.sentEof = srv.sentEof /\ r.st.receivedEof = srv.receivedEof
        /\ r.st.sendCredit = srv.sendCredit /\ r.st.recvUnacked = srv.recvUnacked
        /\ r.st.pausedForCredit = srv.pausedForCredit
    BY <1>0, <1>5 DEF SrvFacts, SrvType
  <2>2. /\ r.sock.readEnded = pub.readEnded
        /\ r.sock.inq = pub.inq /\ r.sock.out = pub.out
        /\ r.sock.flowing => pub.flowing
    BY <1>2, <1>5
  <2>3. Len(r.sock.inq) <= Len(pub.inq)
    BY <1>0, <2>2 DEF SrvFacts
  <2> QED
    BY <1>0, <1>3, <2>1, <2>2, <2>3 DEF SrvQuiet, SrvFacts
<1>6. CASE /\ srv.sendCredit > 0
           /\ r.st = [srv EXCEPT !.pausedGlobally = FALSE, !.pausedForCredit = FALSE]
           /\ r.sock = Resume(pub)
  <2>1. /\ r.st.opened = srv.opened /\ r.st.finished = srv.finished
        /\ r.st.sentEof = srv.sentEof /\ r.st.receivedEof = srv.receivedEof
        /\ r.st.sendCredit = srv.sendCredit /\ r.st.recvUnacked = srv.recvUnacked
        /\ ~r.st.pausedForCredit
    BY <1>0, <1>6 DEF SrvFacts, SrvType
  <2>2. /\ r.sock.readEnded = pub.readEnded
        /\ r.sock.inq = pub.inq /\ r.sock.out = pub.out
    BY <1>2, <1>6
  <2>3. Len(r.sock.inq) <= Len(pub.inq)
    BY <1>0, <2>2 DEF SrvFacts
  <2> QED
    BY <1>0, <1>3, <1>6, <2>1, <2>2, <2>3 DEF SrvQuiet, SrvFacts
<1> QED
  BY <1>1, <1>4, <1>5, <1>6 DEF SrvRepaused

\* A turn that has done nothing yet.
LEMMA SrvTurnQuiet ==
  ASSUME IInv
  PROVE  /\ SrvQuiet(S!Turn) /\ S!Turn.sent = <<>>
         /\ S!Turn.st = srv
<1>0. SrvFacts
  BY SrvKnown
<1>1. /\ S!Turn \in SrvTurn
      /\ S!Turn.st = srv /\ S!Turn.sock = pub /\ S!Turn.sent = <<>>
  BY <1>0, SrvTurnStarts DEF SrvFacts
<1> QED
  BY <1>0, <1>1 DEF SrvQuiet, SrvFacts

\* Congestion, and its end, obey the law.
LEMMA CongestionLaw ==
  ASSUME IInv,
         \/ S!ClearCongestion /\ UNCHANGED <<cVars, outsideVars>>
         \/ ServerCongests
  PROVE  \E e, t : SrvLaw(e, t)
<1>1. PICK paused \in BOOLEAN :
        S!Commit(IF S!InStreams THEN S!SetGlobalPause(S!Turn, paused) ELSE S!Turn)
  BY DEF S!ClearCongestion, ServerCongests, S!Congest
<1>2. /\ UNCHANGED <<cVars, linkUp, toServer, srvClosed, visitorSaid, serviceSaid>>
      /\ srvCongested' \in BOOLEAN
  BY DEF S!ClearCongestion, ServerCongests, S!Congest, outsideVars
<1>3. congestions' \in [{"server", "agent"} -> 0..MaxCongestions]
  <2>1. congestions \in [{"server", "agent"} -> 0..MaxCongestions]
    BY DEF IInv, Types
  <2>2. CASE UNCHANGED congestions
    BY <2>1, <2>2
  <2>3. CASE ServerCongests
    BY <2>1, <2>3, BridgeAssumption, SMTT(40) DEF ServerCongests
  <2> QED
    BY <2>2, <2>3 DEF outsideVars
<1> DEFINE r == IF S!InStreams THEN S!SetGlobalPause(S!Turn, paused) ELSE S!Turn
           e == r.sent
<1>4. SrvQuiet(r) /\ r.sent = <<>> /\ r.st.finished = srv.finished
      /\ (srv.opened \/ r.st = srv)
  <2>1. CASE S!InStreams
    <3>1. S!Turn \in SrvTurn
      BY SrvTurnQuiet DEF SrvQuiet
    <3> DEFINE q == S!SetGlobalPause(S!Turn, paused)
    <3>2. SrvRepaused(q, S!Turn) /\ r = q
      BY <2>1, <3>1, SrvGlobalPause
    <3> HIDE DEF q
    <3>3. SrvQuiet(q) /\ q.sent = <<>> /\ q.st.finished = srv.finished
      BY <3>2, SrvRepausedQuiet
    <3> QED
      BY <2>1, <3>2, <3>3 DEF S!InStreams
  <2>2. CASE ~S!InStreams
    BY <2>2, SrvTurnQuiet
  <2> QED
    BY <2>1, <2>2
<1> HIDE DEF r
<1>5. S!Commit(r)
  BY <1>1 DEF r
<1>6. SrvCommitted(r, <<>>)
  BY <1>2, <1>3, <1>4, <1>5, SrvCallback DEF SrvQuiet
<1>7. /\ e = <<>> /\ Orderly(e) /\ DataIn(e) = 0 /\ AcksIn(e) = 0 /\ TypesIn(e) = {}
      /\ TypesIn(<<>>) = {}
  BY <1>4, FewFrames
<1> HIDE DEF e
<1>8. SrvLaw(e, <<>>)
  BY <1>4, <1>6, <1>7, SrvQuietLaw DEF e
<1> QED
  BY <1>8

\* The session's teardown obeys the law.
LEMMA SessionDestroyLaw ==
  ASSUME IInv, S!SessionDestroy, UNCHANGED <<cVars, outsideVars>>
  PROVE  \E e, t : SrvLaw(e, t)
<1>0. SrvFacts
  BY SrvKnown
<1> DEFINE cleared == IF srvCongested THEN S!SetGlobalPause(S!Turn, FALSE) ELSE S!Turn
           q == S!Destroy(cleared, "agent_gone")
           r == IF S!InStreams THEN q ELSE S!Turn
           e == r.sent
<1>1. /\ ~linkUp
      /\ UNCHANGED <<cVars, linkUp, toAgent, toServer, visitorSaid, serviceSaid,
                     congestions>>
      /\ srvClosed' \in BOOLEAN /\ srvCongested' \in BOOLEAN
  BY DEF S!SessionDestroy, outsideVars
<1>2. srv' = r.st /\ pub' = r.sock
  BY DEF S!SessionDestroy, S!Turn
<1>3. /\ SrvQuiet(cleared) /\ cleared.sent = <<>> /\ cleared.st.finished = srv.finished
  <2>1. CASE srvCongested
    <3>1. S!Turn \in SrvTurn
      BY SrvTurnQuiet DEF SrvQuiet
    <3> DEFINE c == S!SetGlobalPause(S!Turn, FALSE)
    <3>2. SrvRepaused(c, S!Turn) /\ cleared = c
      BY <2>1, <3>1, SrvGlobalPause
    <3> HIDE DEF c
    <3>3. SrvQuiet(c) /\ c.sent = <<>> /\ c.st.finished = srv.finished
      BY <3>2, SrvRepausedQuiet
    <3> QED
      BY <3>2, <3>3
  <2>2. CASE ~srvCongested
    BY <2>2, SrvTurnQuiet
  <2> QED
    BY <2>1, <2>2
<1> HIDE DEF cleared
<1>4. cleared \in SrvTurn /\ cleared.st \in SrvType /\ cleared.sock \in Socket(Bytes)
  BY <1>3 DEF SrvQuiet, SrvTurn
<1>5. ~srv.finished => /\ q \in SrvTurn
                       /\ q.st = [cleared.st EXCEPT !.finished = TRUE]
                       /\ q.sock = DestroySocket(cleared.sock)
                       /\ q.sent = Append(<<>>, ResetFrame)
  <2> DEFINE why == "agent_gone"
             p == S!Destroy(cleared, why)
  <2>1. why # "peer_reset" /\ p = q
    OBVIOUS
  <2> HIDE DEF why
  <2>2. ~srv.finished => /\ p \in SrvTurn
                         /\ p.st = [cleared.st EXCEPT !.finished = TRUE]
                         /\ p.sock = DestroySocket(cleared.sock)
                         /\ p.sent = Append(<<>>, ResetFrame)
    BY <1>3, <1>4, <2>1, SrvDestroy, ZenonT(60)
  <2> HIDE DEF p, q
  <2> QED
    BY <2>1, <2>2
<1> HIDE DEF q
<1>6. /\ SrvQuiet(r)
      /\ \/ S!InStreams /\ r.sent = Append(<<>>, ResetFrame) /\ r.st.finished
         \/ ~S!InStreams /\ r.sent = <<>> /\ r.st = srv
  <2>1. CASE S!InStreams
    <3>1. ~srv.finished
      BY <2>1 DEF S!InStreams
    <3>2. DestroySocket(cleared.sock) \in Socket(Bytes)
          /\ Shrunk(DestroySocket(cleared.sock), cleared.sock)
          /\ DestroySocket(cleared.sock).out = <<>>
          /\ ~DestroySocket(cleared.sock).flowing
      BY <1>4, SocketDestroyed
    <3>3. /\ q.sock.readEnded = pub.readEnded
          /\ Len(q.sock.inq) <= Len(pub.inq)
          /\ q.sock.out = <<>> /\ ~q.sock.flowing
      <4>1. Len(q.sock.inq) \in Nat /\ Len(cleared.sock.inq) \in Nat
            /\ Len(pub.inq) \in Nat
        BY <1>0, <1>4, <1>5, <3>1, <3>2, SocketTyped DEF SrvFacts
      <4>2. /\ Len(q.sock.inq) <= Len(cleared.sock.inq)
            /\ Len(cleared.sock.inq) <= Len(pub.inq)
        BY <1>3, <1>5, <3>1, <3>2 DEF Shrunk, SrvQuiet
      <4> QED
        BY <1>3, <1>5, <3>1, <3>2, <4>1, <4>2 DEF Shrunk, SrvQuiet
    <3>4. /\ q.st.opened = srv.opened /\ q.st.finished
          /\ q.st.sentEof = srv.sentEof /\ q.st.receivedEof = srv.receivedEof
          /\ q.st.sendCredit = srv.sendCredit /\ q.st.recvUnacked = srv.recvUnacked
          /\ \/ q.st.pausedForCredit = srv.pausedForCredit
             \/ ~q.st.pausedForCredit /\ srv.sendCredit > 0
      BY <1>3, <1>4, <1>5, <3>1 DEF SrvQuiet, SrvType
    <3> QED
      BY <1>5, <2>1, <3>1, <3>3, <3>4 DEF SrvQuiet
  <2>2. CASE ~S!InStreams
    BY <2>2, SrvTurnQuiet
  <2> QED
    BY <2>1, <2>2
<1> HIDE DEF r
<1>7. SrvCommitted(r, <<>>)
  <2>1. /\ <<>> \in Seq(WireFrame) /\ toServer \in Seq(WireFrame)
        /\ toServer = <<>> \o toServer
    BY Nothing DEF IInv, Types
  <2>2. congestions' \in [{"server", "agent"} -> 0..MaxCongestions]
    BY <1>1 DEF IInv, Types
  <2> QED
    BY <1>1, <1>2, <1>6, <2>1, <2>2 DEF SrvCommitted, SrvQuiet
<1>8. /\ Orderly(e) /\ DataIn(e) = 0 /\ AcksIn(e) = 0
      /\ \/ TypesIn(e) = {"RESET"} /\ r.st.finished
         \/ TypesIn(e) = {}
  <2>1. CASE r.sent = Append(<<>>, ResetFrame) /\ r.st.finished
    <3>1. e = Append(<<>>, ResetFrame)
      BY <2>1
    <3> HIDE DEF e
    <3> QED
      BY <2>1, <3>1, FramesTyped, OneSent
  <2>2. CASE r.sent = <<>>
    BY <2>2, FewFrames
  <2> QED
    BY <1>6, <2>1, <2>2
<1>9. TypesIn(<<>>) = {} /\ (srv.opened \/ (r.st = srv /\ r.sent = <<>>))
  BY <1>6, EmptySeen DEF S!InStreams
<1> HIDE DEF e
<1>10. SrvLaw(e, <<>>)
  BY <1>1, <1>6, <1>7, <1>8, <1>9, SrvQuietLaw DEF e
<1> QED
  BY <1>10

\* The frame a receive takes is the first of the queue.
LEMMA SrvTaken ==
  ASSUME IInv, S!ServerReceive, UNCHANGED <<cVars, outsideVars>>
  PROVE  LET f == Head(toServer)
         IN  /\ f \in WireFrame /\ f.type # "OPEN" /\ f.type \in TypesIn(toServer)
             /\ srv.opened
             /\ TypesIn(<<f>>) = {f.type}
             /\ DataIn(<<f>>) = DataOf(f) /\ AcksIn(<<f>>) = AckOf(f)
             /\ S!Commit(S!HandleFrame(f))
             /\ \A r : r \in SrvTurn /\ S!Commit(r) => SrvCommitted(r, <<f>>)
<1>1. Types /\ LifeOfServer /\ Chan
  BY DEF IInv
<1>2. /\ toServer \in Seq(WireFrame) /\ toServer # <<>>
      /\ toServer' = Tail(toServer)
      /\ S!Commit(S!HandleFrame(Head(toServer)))
      /\ UNCHANGED <<cVars, linkUp, srvClosed, visitorSaid, serviceSaid,
                     srvCongested, congestions>>
  BY <1>1 DEF S!ServerReceive, Types, outsideVars
<1> DEFINE c == toServer
           f == Head(c)
           rest == Tail(c)
<1>3. c \in Seq(WireFrame) /\ c # <<>>
  BY <1>2
<1> HIDE DEF c
<1>4. /\ f \in WireFrame /\ rest \in Seq(WireFrame)
      /\ c = <<f>> \o rest /\ <<f>> \in Seq(WireFrame)
      /\ TypesIn(<<f>>) = {f.type}
      /\ DataIn(<<f>>) = DataOf(f) /\ AcksIn(<<f>>) = AckOf(f)
      /\ f.type \in TypesIn(c)
  BY <1>3, FirstTaken
<1> HIDE DEF f, rest
<1>5. f.type # "OPEN" /\ srv.opened
  BY <1>1, <1>2, <1>4 DEF Chan, LifeOfServer, c
<1>6. ASSUME NEW r, r \in SrvTurn, S!Commit(r)
      PROVE  SrvCommitted(r, <<f>>)
  <2>1. toAgent' = IF linkUp THEN toAgent \o r.sent ELSE toAgent
    BY <1>1, <1>6 DEF S!Commit, LifeOfServer
  <2>2. toServer' = rest /\ toServer = <<f>> \o rest
    BY <1>2, <1>4 DEF c, rest
  <2> QED
    BY <1>1, <1>2, <1>4, <1>6, <2>1, <2>2 DEF S!Commit, SrvCommitted, LifeOfServer, Types
<1>7. S!Commit(S!HandleFrame(f))
  BY <1>2 DEF f, c
<1>8. /\ f \in WireFrame /\ f.type # "OPEN" /\ f.type \in TypesIn(toServer)
      /\ srv.opened
      /\ TypesIn(<<f>>) = {f.type}
      /\ DataIn(<<f>>) = DataOf(f) /\ AcksIn(<<f>>) = AckOf(f)
      /\ S!Commit(S!HandleFrame(f))
      /\ \A r : r \in SrvTurn /\ S!Commit(r) => SrvCommitted(r, <<f>>)
  BY <1>4, <1>5, <1>6, <1>7 DEF c
<1> QED
  BY <1>8 DEF f, c

\* A frame for a stream the server has forgotten.
LEMMA SrvStrayLaw ==
  ASSUME IInv, S!ServerReceive, UNCHANGED <<cVars, outsideVars>>, ~S!InStreams
  PROVE  \E e, t : SrvLaw(e, t)
<1> DEFINE f == Head(toServer)
           h == S!Turn
           r == IF f.type = "RESET" THEN h ELSE S!Send(h, ResetFrame)
           e == r.sent
<1>0. SrvFacts
  BY SrvKnown
<1>1. /\ f \in WireFrame /\ srv.opened /\ TypesIn(<<f>>) = {f.type}
      /\ S!Commit(S!HandleFrame(f))
      /\ \A q : q \in SrvTurn /\ S!Commit(q) => SrvCommitted(q, <<f>>)
  BY SrvTaken
<1>2. S!HandleFrame(f) = r
  BY SameOperators DEF S!HandleFrame
<1> HIDE DEF f
<1>3. SrvQuiet(h) /\ h.sent = <<>> /\ h.st = srv
  BY SrvTurnQuiet
<1> HIDE DEF h
<1>4. srv.finished
  BY <1>1 DEF S!InStreams
<1>5. /\ S!Send(h, ResetFrame) \in SrvTurn /\ S!Send(h, ResetFrame).st = h.st
      /\ S!Send(h, ResetFrame).sock = h.sock
      /\ S!Send(h, ResetFrame).sent = Append(<<>>, ResetFrame)
  <2>1. h \in SrvTurn /\ ResetFrame \in WireFrame
    BY <1>3, FramesTyped DEF SrvQuiet
  <2> QED
    BY ONLY <1>3, <2>1, SrvSend
<1>6. SrvQuiet(r) /\ r.st = srv
  BY <1>3, <1>5 DEF SrvQuiet
<1>7. r.sent = <<>> \/ r.sent = Append(<<>>, ResetFrame)
  BY <1>3, <1>5
<1> HIDE DEF r
<1>8. SrvCommitted(r, <<f>>)
  BY <1>1, <1>2, <1>6 DEF SrvQuiet
<1>9. Orderly(e) /\ DataIn(e) = 0 /\ AcksIn(e) = 0 /\ TypesIn(e) \subseteq {"RESET"}
  <2>1. CASE r.sent = <<>>
    BY <2>1, FewFrames
  <2>2. CASE r.sent = Append(<<>>, ResetFrame)
    <3>1. e = Append(<<>>, ResetFrame)
      BY <2>2
    <3> HIDE DEF e
    <3> QED
      BY <3>1, FramesTyped, OneSent
  <2> QED
    BY <1>7, <2>1, <2>2
<1> DEFINE t == <<f>>
<1>10. SrvCommitted(r, t)
  BY <1>8
<1> HIDE DEF e, t
<1>11. SrvLaw(e, t)
  BY <1>1, <1>4, <1>6, <1>9, <1>10, SrvQuietLaw DEF e
<1> QED
  BY <1>11

\* STREAM_RESET at the server obeys the law.
LEMMA SrvResetLaw ==
  ASSUME IInv, S!ServerReceive, UNCHANGED <<cVars, outsideVars>>, S!InStreams,
         Head(toServer).type = "RESET"
  PROVE  \E e, t : SrvLaw(e, t)
<1> DEFINE f == Head(toServer)
           h == S!Turn
           r == S!Destroy(h, "peer_reset")
           e == r.sent
<1>0. SrvFacts
  BY SrvKnown
<1>1. /\ f \in WireFrame /\ srv.opened /\ TypesIn(<<f>>) = {"RESET"}
      /\ S!Commit(S!HandleFrame(f))
      /\ \A q : q \in SrvTurn /\ S!Commit(q) => SrvCommitted(q, <<f>>)
  BY SrvTaken
<1>2. S!HandleFrame(f) = r
  BY DEF S!HandleFrame
<1> HIDE DEF f
<1>3. h \in SrvTurn /\ h.sent = <<>> /\ h.st = srv /\ h.sock = pub
  BY <1>0, SrvTurnStarts DEF SrvFacts
<1> HIDE DEF h
<1>4. /\ r \in SrvTurn /\ r.st = [srv EXCEPT !.finished = TRUE]
      /\ r.sock = DestroySocket(pub) /\ r.sent = <<>>
  BY <1>3, SrvDestroy DEF S!InStreams
<1> HIDE DEF r
<1>5. SrvQuiet(r) /\ r.st.finished
  <2>1. Shrunk(DestroySocket(pub), pub) /\ DestroySocket(pub).out = <<>>
    BY <1>0, SocketDestroyed DEF SrvFacts
  <2> QED
    BY <1>0, <1>4, <2>1 DEF SrvQuiet, Shrunk, SrvFacts, SrvType
<1>6. SrvCommitted(r, <<f>>)
  BY <1>1, <1>2, <1>4
<1>7. /\ e = <<>> /\ Orderly(e) /\ DataIn(e) = 0 /\ AcksIn(e) = 0 /\ TypesIn(e) = {}
  BY <1>4, FewFrames
<1> DEFINE t == <<f>>
<1>8. SrvCommitted(r, t) /\ TypesIn(t) = {"RESET"}
  BY <1>1, <1>6
<1> HIDE DEF e, t
<1>9. SrvLaw(e, t)
  BY <1>1, <1>5, <1>7, <1>8, SrvQuietLaw DEF e
<1> QED
  BY <1>9

\* STREAM_DATA at the server obeys the law.
LEMMA SrvDataLaw ==
  ASSUME IInv, S!ServerReceive, UNCHANGED <<cVars, outsideVars>>, S!InStreams,
         Head(toServer).type = "DATA"
  PROVE  \E e, t : SrvLaw(e, t)
<1> DEFINE f == Head(toServer)
           h == S!Turn
           d == f.data
           r == S!OnData(h, d)
           e == r.sent
           t == <<f>>
           n == Len(d)
           u == srv.recvUnacked
<1>0. SrvFacts
  BY SrvKnown
<1>1. /\ f \in WireFrame /\ srv.opened
      /\ TypesIn(t) = {"DATA"} /\ DataIn(t) = DataOf(f) /\ AcksIn(t) = AckOf(f)
      /\ "DATA" \in TypesIn(toServer)
      /\ S!Commit(S!HandleFrame(f))
      /\ \A q : q \in SrvTurn /\ S!Commit(q) => SrvCommitted(q, t)
  BY SrvTaken
<1>2. S!HandleFrame(f) = r
  BY DEF S!HandleFrame
<1>3. /\ d \in Seq(Bytes) /\ d # <<>> /\ n \in Nat \ {0}
      /\ DataOf(f) = n /\ AckOf(f) = 0
  BY <1>1 DEF WireFrame, SomeFrame, DataOf, AckOf
<1>4. DataIn(t) = n /\ AcksIn(t) = 0
  BY <1>1, <1>3
<1>5. ~srv.finished /\ ~srv.receivedEof
  BY <1>1 DEF IInv, Eof, S!InStreams
<1> HIDE DEF f, t, d
<1>6. h \in SrvTurn /\ h.sent = <<>> /\ h.st = srv /\ h.sock = pub
  BY <1>0, SrvTurnStarts DEF SrvFacts
<1> HIDE DEF h
<1>7. /\ r \in SrvTurn /\ r.sock = Write(pub, d)
      /\ \/ /\ r.st = [srv EXCEPT !.recvUnacked = u + n]
            /\ r.sent = <<>>
         \/ /\ Flushed(r.sock)
            /\ r.st = [srv EXCEPT !.recvUnacked = 0]
            /\ r.sent = Append(<<>>, AckFrame(u + n))
  BY <1>3, <1>5, <1>6, SrvOnData
<1> HIDE DEF r
<1>8. SrvCommitted(r, t)
  BY <1>1, <1>2, <1>7
<1>9. srv' = r.st /\ pub' = r.sock
  BY <1>8 DEF SrvCommitted
<1>18. visitorSaid' = visitorSaid
  BY <1>8 DEF SrvCommitted
<1>10. /\ srv'.opened = srv.opened /\ srv'.finished = srv.finished
       /\ srv'.sentEof = srv.sentEof /\ srv'.receivedEof = srv.receivedEof
       /\ srv'.sendCredit = srv.sendCredit
       /\ srv'.pausedForCredit = srv.pausedForCredit
  BY <1>0, <1>7, <1>9, ZenonT(60) DEF SrvFacts, SrvType
<1>11. u \in Nat /\ u + n \in Nat \ {0}
  BY <1>0, <1>3 DEF SrvFacts
<1> HIDE DEF u, n
<1>12. /\ e \in Seq(WireFrame) /\ Orderly(e) /\ DataIn(e) = 0
       /\ TypesIn(e) \subseteq {"ACK"}
       /\ \/ AcksIn(e) = 0 /\ srv'.recvUnacked = u + n
          \/ AcksIn(e) = u + n /\ srv'.recvUnacked = 0 /\ Len(pub'.out) < HighWater
  <2>1. CASE r.st = [srv EXCEPT !.recvUnacked = u + n] /\ r.sent = <<>>
    <3>1. srv'.recvUnacked = u + n
      BY <1>0, <1>9, <2>1 DEF SrvFacts, SrvType
    <3> QED
      BY <2>1, <3>1, FewFrames
  <2>2. CASE /\ Flushed(r.sock)
             /\ r.st = [srv EXCEPT !.recvUnacked = 0]
             /\ r.sent = Append(<<>>, AckFrame(u + n))
    <3> DEFINE g == AckFrame(u + n)
    <3>1. g \in WireFrame /\ g.type = "ACK" /\ DataOf(g) = 0 /\ AckOf(g) = u + n
      BY <1>11, FramesTyped
    <3>2. e = Append(<<>>, g)
      BY <2>2
    <3> HIDE DEF e, g
    <3>3. /\ e \in Seq(WireFrame) /\ Orderly(e) /\ DataIn(e) = 0
          /\ TypesIn(e) = {"ACK"} /\ AcksIn(e) = u + n
      BY <3>1, <3>2, OneSent
    <3>4. srv'.recvUnacked = 0 /\ Len(pub'.out) < HighWater
      BY <1>0, <1>9, <2>2 DEF SrvFacts, SrvType, Flushed
    <3> QED
      BY <3>3, <3>4
  <2> QED
    BY <1>7, <2>1, <2>2
<1>13. /\ pub'.readEnded = pub.readEnded /\ (pub'.flowing => pub.flowing)
       /\ Len(pub'.inq) <= Len(pub.inq) /\ Len(pub'.inq) \in Nat
       /\ Len(pub'.out) \in Nat /\ Len(pub'.out) <= Len(pub.out) + n
  <2>1. /\ Write(pub, d) \in Socket(Bytes) /\ Shrunk(Write(pub, d), pub)
        /\ \/ Write(pub, d).out = pub.out \o d
           \/ Write(pub, d).out = <<>>
    BY <1>0, <1>3, SocketWritten DEF SrvFacts
  <2>2. Len(pub.out \o d) = Len(pub.out) + n
    BY <1>0, <1>3, SocketTyped, ConcatTyped DEF SrvFacts, n
  <2>3. Len(pub'.inq) \in Nat /\ Len(pub'.out) \in Nat
    BY <1>7, <1>9, <2>1, SocketTyped
  <2>6. pub' = Write(pub, d)
    BY <1>7, <1>9
  <2>4. Len(pub'.out) = Len(pub.out) + n \/ Len(pub'.out) = 0
    <3>1. CASE Write(pub, d).out = pub.out \o d
      BY <2>2, <2>6, <3>1
    <3>2. CASE Write(pub, d).out = <<>>
      BY <2>6, <3>2
    <3> QED
      BY <2>1, <3>1, <3>2
  <2>5. Len(pub'.out) <= Len(pub.out) + n
    BY <1>0, <1>3, <2>4 DEF SrvFacts, n
  <2> QED
    BY <1>7, <1>9, <2>1, <2>3, <2>5 DEF Shrunk
<1>14. SrvWire(e, t)
  BY <1>8, <1>12, SrvWired
<1> HIDE DEF e
<1>15. SrvWord(e, t)
  BY <1>0, <1>1, <1>5, <1>10, <1>12, <1>13 DEF SrvWord, SrvFacts
<1>16. SrvBytes(e, t)
  <2>1. SrvPauses'
    BY <1>0, <1>10, <1>13 DEF SrvPauses, SrvFacts
  <2>2. srv'.sendCredit + visitorSaid' - Len(pub'.inq) >= Window
    BY <1>0, <1>10, <1>13, <1>18, SMTT(40) DEF SrvFacts
  <2>3. Len(pub.out) < u + HighWater
    BY <1>0, <1>5 DEF SrvFacts, u
  <2>4. Len(pub'.out) < srv'.recvUnacked + HighWater
    <3> DEFINE m == Len(pub.out)
               k == Len(pub'.out)
               v == srv'.recvUnacked
    <3>1. /\ m \in Nat /\ k \in Nat /\ u \in Nat /\ n \in Nat
          /\ HighWater \in Nat
          /\ m < u + HighWater /\ k <= m + n
          /\ v = u + n \/ (v = 0 /\ k < HighWater)
      BY <1>0, <1>3, <1>11, <1>12, <1>13, <2>3 DEF SrvFacts, n
    <3> HIDE DEF m, k, v
    <3>2. k < v + HighWater
      BY ONLY <3>1
    <3> QED
      BY <3>2 DEF k, v
  <2>5. srv'.recvUnacked + AcksIn(e) = u + n
    BY <1>11, <1>12
  <2> QED
    BY <1>0, <1>4, <1>5, <1>10, <1>11, <1>12, <2>1, <2>2, <2>4, <2>5, SMTT(40)
       DEF SrvBytes, SrvFacts, u
<1>17. SrvLaw(e, t)
  BY <1>14, <1>15, <1>16 DEF SrvLaw
<1> QED
  BY <1>17

\* STREAM_EOF at the server obeys the law.
LEMMA SrvEofLaw ==
  ASSUME IInv, S!ServerReceive, UNCHANGED <<cVars, outsideVars>>, S!InStreams,
         Head(toServer).type = "EOF"
  PROVE  \E e, t : SrvLaw(e, t)
<1> DEFINE f == Head(toServer)
           h == S!Turn
           r == S!OnEof(h)
           e == r.sent
           t == <<f>>
           u == srv.recvUnacked
<1>0. SrvFacts
  BY SrvKnown
<1>1. /\ f \in WireFrame /\ srv.opened /\ f.type = "EOF"
      /\ TypesIn(t) = {"EOF"} /\ DataIn(t) = DataOf(f) /\ AcksIn(t) = AckOf(f)
      /\ S!Commit(S!HandleFrame(f))
      /\ \A q : q \in SrvTurn /\ S!Commit(q) => SrvCommitted(q, t)
  BY SrvTaken
<1>2. S!HandleFrame(f) = r
  BY DEF S!HandleFrame
<1>3. DataIn(t) = 0 /\ AcksIn(t) = 0
  BY <1>1 DEF DataOf, AckOf
<1>4. ~srv.finished
  BY DEF S!InStreams
<1> HIDE DEF f, t
<1>5. h \in SrvTurn /\ h.sent = <<>> /\ h.st = srv /\ h.sock = pub
  BY <1>0, SrvTurnStarts DEF SrvFacts
<1> HIDE DEF h
<1>6. /\ srv.receivedEof => r = h
      /\ ~srv.receivedEof =>
            /\ r \in SrvTurn
            /\ r.st = [srv EXCEPT !.receivedEof = TRUE, !.recvUnacked = 0,
                                  !.finished = srv.sentEof]
            /\ r.sock = EndWrite(pub)
            /\ r.sent = IF u = 0 THEN <<>> ELSE Append(<<>>, AckFrame(u))
  BY <1>4, <1>5, SrvOnEof, ZenonT(60)
<1> HIDE DEF r
<1>7. r \in SrvTurn
  BY <1>5, <1>6
<1>8. SrvCommitted(r, t)
  BY <1>1, <1>2, <1>7
<1>9. srv' = r.st /\ pub' = r.sock
  BY <1>8 DEF SrvCommitted
<1>18. visitorSaid' = visitorSaid
  BY <1>8 DEF SrvCommitted
<1>10. /\ srv'.opened = srv.opened /\ (srv'.finished => srv.sentEof)
       /\ srv'.sentEof = srv.sentEof /\ srv'.receivedEof
       /\ srv'.sendCredit = srv.sendCredit
       /\ srv'.pausedForCredit = srv.pausedForCredit
       /\ srv'.recvUnacked = IF srv.receivedEof THEN u ELSE 0
  <2>1. CASE srv.receivedEof
    BY <1>0, <1>4, <1>5, <1>6, <1>9, <2>1 DEF SrvFacts
  <2>2. CASE ~srv.receivedEof
    BY <1>0, <1>6, <1>9, <2>2, ZenonT(60) DEF SrvFacts, SrvType
  <2> QED
    BY <2>1, <2>2
<1>11. u \in Nat
  BY <1>0 DEF SrvFacts
<1> HIDE DEF u
<1>12. /\ e \in Seq(WireFrame) /\ Orderly(e) /\ DataIn(e) = 0
       /\ TypesIn(e) \subseteq {"ACK"}
       /\ AcksIn(e) = IF srv.receivedEof THEN 0 ELSE u
  <2>1. CASE r.sent = <<>> /\ (srv.receivedEof \/ u = 0)
    BY <2>1, FewFrames
  <2>2. CASE r.sent = Append(<<>>, AckFrame(u)) /\ ~srv.receivedEof /\ u # 0
    <3> DEFINE g == AckFrame(u)
    <3>1. g \in WireFrame /\ g.type = "ACK" /\ DataOf(g) = 0 /\ AckOf(g) = u
      BY <1>11, <2>2, FramesTyped
    <3>2. e = Append(<<>>, g)
      BY <2>2
    <3> HIDE DEF e, g
    <3> QED
      BY <2>2, <3>1, <3>2, OneSent
  <2> QED
    BY <1>5, <1>6, <2>1, <2>2
<1>13. /\ pub'.readEnded = pub.readEnded /\ (pub'.flowing => pub.flowing)
       /\ Len(pub'.inq) <= Len(pub.inq) /\ Len(pub'.inq) \in Nat
       /\ pub'.out = pub.out
  <2>1. /\ EndWrite(pub) \in Socket(Bytes) /\ Shrunk(EndWrite(pub), pub)
        /\ EndWrite(pub).out = pub.out
    BY <1>0, SocketEvents DEF SrvFacts
  <2>2. Len(EndWrite(pub).inq) \in Nat
    BY <2>1, SocketTyped
  <2>3. CASE srv.receivedEof
    BY <1>0, <1>5, <1>6, <1>9, <2>3, SMTT(40) DEF SrvFacts
  <2>4. CASE ~srv.receivedEof
    BY <1>6, <1>9, <2>1, <2>2, <2>4 DEF Shrunk
  <2> QED
    BY <2>3, <2>4
<1>14. SrvWire(e, t)
  BY <1>8, <1>12, SrvWired
<1> HIDE DEF e
<1>15. SrvWord(e, t)
  BY <1>0, <1>1, <1>4, <1>10, <1>12, <1>13 DEF SrvWord, SrvFacts
<1>16. SrvBytes(e, t)
  <2>1. SrvPauses'
    BY <1>0, <1>10, <1>13 DEF SrvPauses, SrvFacts
  <2>2. srv'.sendCredit + visitorSaid' - Len(pub'.inq) >= Window
    <3> DEFINE m == Len(pub.inq)
               k == Len(pub'.inq)
    <3>1. /\ m \in Nat /\ k \in Nat /\ k <= m /\ Window \in Nat
          /\ srv.sendCredit \in Int /\ visitorSaid \in Int
          /\ srv.sendCredit + visitorSaid - m >= Window
      BY <1>0, <1>13 DEF SrvFacts
    <3> HIDE DEF m, k
    <3>2. srv.sendCredit + visitorSaid - k >= Window
      BY ONLY <3>1
    <3> QED
      BY <1>10, <1>18, <3>2 DEF k
  <2>3. Len(pub'.out) < WindowAndChunk + HighWater
    BY <1>0, <1>13 DEF SrvFacts
  <2>4. srv'.recvUnacked + AcksIn(e) = u
    BY <1>10, <1>11, <1>12
  <2> QED
    BY <1>0, <1>3, <1>10, <1>11, <1>12, <2>1, <2>2, <2>3, <2>4, SMTT(40)
       DEF SrvBytes, SrvFacts, u
<1>17. SrvLaw(e, t)
  BY <1>14, <1>15, <1>16 DEF SrvLaw
<1> QED
  BY <1>17

\* STREAM_ACK at the server obeys the law.
LEMMA SrvAckLaw ==
  ASSUME IInv, S!ServerReceive, UNCHANGED <<cVars, outsideVars>>, S!InStreams,
         Head(toServer).type = "ACK"
  PROVE  \E e, t : SrvLaw(e, t)
<1> DEFINE f == Head(toServer)
           h == S!Turn
           n == f.n
           r == S!OnAck(h, n)
           e == r.sent
           t == <<f>>
<1>0. SrvFacts
  BY SrvKnown
<1>1. /\ f \in WireFrame /\ srv.opened /\ f.type = "ACK"
      /\ TypesIn(t) = {"ACK"} /\ DataIn(t) = DataOf(f) /\ AcksIn(t) = AckOf(f)
      /\ S!Commit(S!HandleFrame(f))
      /\ \A q : q \in SrvTurn /\ S!Commit(q) => SrvCommitted(q, t)
  BY SrvTaken
<1>2. S!HandleFrame(f) = r
  BY DEF S!HandleFrame
<1>3. n \in Nat /\ DataIn(t) = 0 /\ AcksIn(t) = n
  BY <1>1 DEF DataOf, AckOf, WireFrame, SomeFrame
<1>4. ~srv.finished
  BY DEF S!InStreams
<1> HIDE DEF f, t, n
<1>5. h \in SrvTurn /\ h.sent = <<>> /\ h.st = srv /\ h.sock = pub
  BY <1>0, SrvTurnStarts DEF SrvFacts
<1> HIDE DEF h
<1>6. /\ r \in SrvTurn /\ r.sent = <<>>
      /\ \/ /\ r.st = [srv EXCEPT !.sendCredit = srv.sendCredit + n]
            /\ r.sock = pub
         \/ /\ srv.sendCredit + n > 0
            /\ r.st = [srv EXCEPT !.sendCredit = srv.sendCredit + n,
                                  !.pausedForCredit = FALSE]
            /\ r.sock = Resume(pub)
  BY <1>3, <1>4, <1>5, SrvOnAck, ZenonT(60)
<1> HIDE DEF r
<1>7. SrvCommitted(r, t)
  BY <1>1, <1>2, <1>6
<1>8. srv' = r.st /\ pub' = r.sock
  BY <1>7 DEF SrvCommitted
<1>16. visitorSaid' = visitorSaid
  BY <1>7 DEF SrvCommitted
<1>9. /\ srv'.opened = srv.opened /\ srv'.finished = srv.finished
      /\ srv'.sentEof = srv.sentEof /\ srv'.receivedEof = srv.receivedEof
      /\ srv'.sendCredit = srv.sendCredit + n
      /\ srv'.recvUnacked = srv.recvUnacked
      /\ \/ srv'.pausedForCredit = srv.pausedForCredit /\ pub' = pub
         \/ ~srv'.pausedForCredit /\ srv.sendCredit + n > 0
  BY <1>0, <1>6, <1>8, ZenonT(60) DEF SrvFacts, SrvType
<1>10. pub'.readEnded = pub.readEnded /\ pub'.inq = pub.inq /\ pub'.out = pub.out
  BY <1>0, <1>6, <1>8, PauseResume, ZenonT(60) DEF SrvFacts
<1>11. /\ e = <<>> /\ Orderly(e) /\ DataIn(e) = 0 /\ AcksIn(e) = 0 /\ TypesIn(e) = {}
  BY <1>6, FewFrames
<1>12. SrvWire(e, t)
  BY <1>7, <1>11, SrvWired
<1> HIDE DEF e
<1>13. SrvWord(e, t)
  BY <1>0, <1>1, <1>4, <1>9, <1>10, <1>11 DEF SrvWord, SrvFacts
<1>14. SrvBytes(e, t)
  <2>1. SrvPauses'
    BY <1>0, <1>3, <1>9 DEF SrvPauses, SrvFacts
  <2>2. srv'.sendCredit + visitorSaid' - Len(pub'.inq) >= Window
    BY <1>0, <1>3, <1>9, <1>10, <1>16, SMTT(40) DEF SrvFacts
  <2>3. /\ ~srv'.receivedEof => Len(pub'.out) < srv'.recvUnacked + HighWater
        /\ srv'.receivedEof => Len(pub'.out) < WindowAndChunk + HighWater
    BY <1>0, <1>9, <1>10 DEF SrvFacts
  <2>4. /\ srv'.sendCredit + DataIn(e) = srv.sendCredit + AcksIn(t)
        /\ srv'.recvUnacked + AcksIn(e) = srv.recvUnacked + DataIn(t)
        /\ srv'.sendCredit \in Int /\ srv'.recvUnacked \in Int
        /\ ~(DataIn(e) > 0)
    BY <1>0, <1>3, <1>9, <1>11, SMTT(40) DEF SrvFacts
  <2>5. /\ srv'.sendCredit + DataIn(e) <= srv.sendCredit + AcksIn(t)
        /\ srv'.recvUnacked + AcksIn(e) <= srv.recvUnacked + DataIn(t)
    BY <1>11, <2>4
  <2> QED
    BY <2>1, <2>2, <2>3, <2>4, <2>5 DEF SrvBytes
<1>15. SrvLaw(e, t)
  BY <1>12, <1>13, <1>14 DEF SrvLaw
<1> QED
  BY <1>15

\* STREAM_OPEN, and with it the head a frontend had read, if there was one.
LEMMA OpenSent ==
  ASSUME NEW d \in Seq(Bytes), NEW e,
         \/ d = <<>> /\ e = Append(<<>>, OpenFrame)
         \/ d # <<>> /\ e = Append(Append(<<>>, OpenFrame), DataFrame(d))
  PROVE  /\ e \in Seq(WireFrame) /\ Orderly(e)
         /\ "OPEN" \in TypesIn(e) /\ TypesIn(e) \subseteq {"OPEN", "DATA"}
         /\ DataIn(e) = Len(d) /\ AcksIn(e) = 0
<1> DEFINE o == Append(<<>>, OpenFrame)
           f == DataFrame(d)
<1>1. /\ o \in Seq(WireFrame) /\ Orderly(o)
      /\ TypesIn(o) = {"OPEN"} /\ DataIn(o) = 0 /\ AcksIn(o) = 0
  BY FramesTyped, OneSent
<1>2. CASE d = <<>> /\ e = o
  BY <1>1, <1>2
<1>3. CASE d # <<>> /\ e = Append(o, f)
  <2>1. /\ f \in WireFrame /\ f.type = "DATA" /\ DataOf(f) = Len(d) /\ AckOf(f) = 0
        /\ Len(d) \in Nat
    BY <1>3, FramesTyped
  <2>2. Len(o) = 1 /\ o[1] = OpenFrame
    BY <1>1, FramesTyped
  <2> HIDE DEF o, f
  <2>3. /\ e \in Seq(WireFrame)
        /\ TypesIn(e) = {"OPEN"} \cup {"DATA"}
        /\ DataIn(e) = 0 + Len(d) /\ AcksIn(e) = 0 + 0
    BY <1>1, <1>3, <2>1, AppendSeen
  <2>4. Orderly(e)
    <3>1. /\ DOMAIN e = 1..2 /\ e[1] = OpenFrame /\ e[2] = f
      BY <1>1, <1>3, <2>1, <2>2
    <3>2. \A i, j \in 1..2 : i < j => i = 1 /\ j = 2
      OBVIOUS
    <3>3. e[1].type = "OPEN" /\ e[2].type = "DATA"
      BY <2>1, <3>1 DEF OpenFrame
    <3> QED
      BY <3>1, <3>2, <3>3 DEF Orderly
  <2> QED
    BY <2>1, <2>3, <2>4
<1> QED
  BY <1>2, <1>3

\* openStream, with the head it read, obeys the law: the head is paid for
\* before the socket flows.
LEMMA OpenStreamLaw ==
  ASSUME IInv, S!OpenStream, UNCHANGED <<cVars, outsideVars>>
  PROVE  \E e, t : SrvLaw(e, t)
<1>0. SrvFacts
  BY SrvKnown
<1>1. PICK size \in PrereadSizes :
        LET head    == SubSeq(pub.inq, 1, size)
            created == [S!Send(S!Turn, S!OpenFrame) EXCEPT
                          !.st.opened = TRUE,
                          !.sock.inq = SubSeq(@, size + 1, Len(@))]
            paused  == IF srvCongested THEN S!SetGlobalPause(created, TRUE)
                                       ELSE created
        IN  /\ ~srv.opened
            /\ ~srvClosed
            /\ ~pub.readEnded
            /\ ~pub.destroyed
            /\ size <= Len(pub.inq)
            /\ S!Commit([S!WritePreread(paused, head) EXCEPT !.sock = S!Resume(@)])
            /\ UNCHANGED <<srvCongested, srvClosed, linkUp, toServer>>
  BY ZenonT(60) DEF S!OpenStream
<1> DEFINE head == SubSeq(pub.inq, 1, size)
           opened == S!Send(S!Turn, OpenFrame)
           rest == SubSeq(pub.inq, size + 1, Len(pub.inq))
           created == [opened EXCEPT !.st.opened = TRUE, !.sock.inq = rest]
           paused == IF srvCongested THEN S!SetGlobalPause(created, TRUE) ELSE created
           q == S!WritePreread(paused, head)
           s == Resume(q.sock)
           r == [q EXCEPT !.sock = s]
           e == r.sent
<1>2. /\ ~srv.opened /\ ~pub.readEnded /\ size <= Len(pub.inq)
      /\ UNCHANGED <<cVars, linkUp, toServer, srvClosed, visitorSaid, serviceSaid,
                     srvCongested, congestions>>
  BY <1>1 DEF outsideVars
<1>3. /\ S!Turn \in SrvTurn
      /\ S!Turn.st = srv /\ S!Turn.sock = pub /\ S!Turn.sent = <<>>
  BY <1>0, SrvTurnStarts DEF SrvFacts
<1>4. S!Commit(r)
  <2>1. opened.sock = pub
    BY <1>3, FramesTyped, SrvSend
  <2>2. [S!Send(S!Turn, S!OpenFrame) EXCEPT
            !.st.opened = TRUE,
            !.sock.inq = SubSeq(@, size + 1, Len(@))] = created
    BY <2>1, SameOperators
  <2> QED
    BY <1>1, <2>2, SameOperators
<1>5. /\ size \in Nat /\ size < Window /\ size <= Largest
      /\ head \in Seq(Bytes) /\ Len(head) = size
      /\ rest \in Seq(Bytes) /\ Len(rest) = Len(pub.inq) - size
  <2>1. size \in Nat /\ size < Window /\ size <= Largest
    BY BridgeAssumption, LargestBounds
  <2>2. head \in Seq(Bytes) /\ Len(head) = size
    BY <1>0, <1>2, <2>1, DataTaken DEF SrvFacts
  <2> DEFINE m == size + 1
             inq == pub.inq
  <2>3. inq \in Seq(Bytes) /\ m \in 1..(Len(inq) + 1)
    BY <1>0, <1>2, <2>1, SocketTyped DEF SrvFacts
  <2> HIDE DEF m, inq
  <2>4. SubSeq(inq, m, Len(inq)) \in Seq(Bytes)
        /\ Len(SubSeq(inq, m, Len(inq))) = Len(inq) - (m - 1)
    BY <2>3, SubSeqTyped
  <2>5. m - 1 = size
    BY <2>1 DEF m
  <2> QED
    BY <2>1, <2>2, <2>4, <2>5 DEF m, inq
<1> HIDE DEF head, rest
<1>6. /\ opened \in SrvTurn /\ opened.st = srv /\ opened.sock = pub
      /\ opened.sent = Append(<<>>, OpenFrame)
  BY <1>3, FramesTyped, SrvSend, ZenonT(60)
<1> HIDE DEF opened
<1>7. srv = S!NoStream
  BY <1>2 DEF IInv, LifeOfServer
<1>8. /\ created \in SrvTurn /\ created.sent = Append(<<>>, OpenFrame)
      /\ created.st = [srv EXCEPT !.opened = TRUE]
      /\ created.sock = [pub EXCEPT !.inq = rest]
      /\ created.sock \in Socket(Bytes)
  <2>1. [srv EXCEPT !.opened = TRUE] \in SrvType
    BY <1>0 DEF SrvFacts, SrvType
  <2>2. [pub EXCEPT !.inq = rest] \in Socket(Bytes)
    BY <1>0, <1>5 DEF SrvFacts, Socket
  <2>4. opened.sent \in Seq(WireFrame)
    BY <1>6 DEF SrvTurn
  <2>5. created = [opened EXCEPT !.st.opened = TRUE, !.sock.inq = rest]
    OBVIOUS
  <2> HIDE DEF created
  <2>6. /\ opened.st = srv /\ opened.sock = pub /\ opened \in SrvTurn
        /\ [opened.st EXCEPT !.opened = TRUE] \in SrvType
        /\ [opened.sock EXCEPT !.inq = rest] \in Socket(Bytes)
    BY <1>6, <2>1, <2>2
  <2>7. created \in SrvTurn
    BY <2>5, <2>6 DEF SrvTurn
  <2>8. /\ created.sent = opened.sent
        /\ created.st = [srv EXCEPT !.opened = TRUE]
        /\ created.sock = [pub EXCEPT !.inq = rest]
    BY <2>5, <2>6 DEF SrvTurn
  <2> QED
    BY <1>6, <2>2, <2>7, <2>8
<1>9. /\ created.sock.inq = rest /\ created.sock.out = pub.out
      /\ created.sock.readEnded = pub.readEnded
  BY <1>0, <1>8 DEF SrvFacts, Socket
<1>10. /\ created.st.opened /\ created.st.sendCredit = Window
       /\ created.st.recvUnacked = 0 /\ ~created.st.pausedForCredit
       /\ ~created.st.sentEof /\ ~created.st.receivedEof /\ ~created.st.finished
  BY <1>7, <1>8 DEF S!NoStream
<1> HIDE DEF created
<1>11. /\ paused \in SrvTurn /\ paused.sent = Append(<<>>, OpenFrame)
       /\ paused.st.opened /\ paused.st.sendCredit = Window
       /\ paused.st.recvUnacked = 0 /\ ~paused.st.pausedForCredit
       /\ ~paused.st.sentEof /\ ~paused.st.receivedEof /\ ~paused.st.finished
       /\ paused.sock.inq = rest /\ paused.sock.out = pub.out
       /\ paused.sock.readEnded = pub.readEnded
  <2>1. CASE srvCongested
    <3> DEFINE c == S!SetGlobalPause(created, TRUE)
    <3>1. SrvRepaused(c, created) /\ paused = c
      BY <1>8, <2>1, SrvGlobalPause
    <3> HIDE DEF c
    <3>2. c \in SrvTurn /\ c.sent = created.sent
      BY <3>1 DEF SrvRepaused
    <3>3. /\ c.st.opened /\ c.st.sendCredit = Window
          /\ c.st.recvUnacked = 0 /\ ~c.st.pausedForCredit
          /\ ~c.st.sentEof /\ ~c.st.receivedEof /\ ~c.st.finished
      <4>1. created.st \in SrvType
        BY <1>8 DEF SrvTurn
      <4>2. \/ c.st = created.st
            \/ c.st = [created.st EXCEPT !.pausedGlobally = TRUE]
            \/ c.st = [created.st EXCEPT !.pausedGlobally = FALSE]
            \/ c.st = [created.st EXCEPT !.pausedGlobally = FALSE,
                                         !.pausedForCredit = FALSE]
        BY <3>1 DEF SrvRepaused
      <4> QED
        BY <1>10, <4>1, <4>2 DEF SrvType
    <3>4. /\ c.sock.inq = rest /\ c.sock.out = pub.out
          /\ c.sock.readEnded = pub.readEnded
      <4>1. \/ c.sock = created.sock \/ c.sock = Pause(created.sock)
            \/ c.sock = Resume(created.sock)
        BY <3>1 DEF SrvRepaused
      <4> DEFINE k == created.sock
                 paus == Pause(k)
                 res == Resume(k)
      <4>2. k \in Socket(Bytes) /\ k.inq = rest /\ k.out = pub.out
            /\ k.readEnded = pub.readEnded
        BY <1>8, <1>9
      <4> HIDE DEF k
      <4>3. paus.inq = rest /\ paus.out = pub.out /\ paus.readEnded = pub.readEnded
        BY <4>2, PauseResume DEF Shrunk
      <4>4. res.inq = rest /\ res.out = pub.out /\ res.readEnded = pub.readEnded
        BY <4>2, PauseResume
      <4>5. c.sock = k \/ c.sock = paus \/ c.sock = res
        BY <4>1 DEF k
      <4> HIDE DEF paus, res
      <4> QED
        BY <4>2, <4>3, <4>4, <4>5
    <3> QED
      BY <1>8, <3>1, <3>2, <3>3, <3>4
  <2>2. CASE ~srvCongested
    BY <1>8, <1>9, <1>10, <2>2
  <2> QED
    BY <2>1, <2>2
<1> HIDE DEF paused
<1>12. /\ q \in SrvTurn
       /\ \/ head = <<>> /\ q.sent = Append(<<>>, OpenFrame)
          \/ head # <<>> /\ q.sent = Append(Append(<<>>, OpenFrame), DataFrame(head))
       /\ q.st.opened /\ q.st.sendCredit = Window - size
       /\ q.st.recvUnacked = 0 /\ ~q.st.pausedForCredit
       /\ ~q.st.sentEof /\ ~q.st.receivedEof /\ ~q.st.finished
       /\ q.sock.inq = rest /\ q.sock.out = pub.out
       /\ q.sock.readEnded = pub.readEnded
  <2>1. CASE head = <<>>
    <3>1. size = 0 /\ q = paused
      BY <1>5, <2>1 DEF S!WritePreread
    <3> HIDE DEF q
    <3>2. Window - size = Window
      BY <1>0, <3>1 DEF SrvFacts
    <3> QED
      BY <1>11, <2>1, <3>1, <3>2
  <2>2. CASE head # <<>>
    <3>1. q = S!OnSocketData(paused, head)
      BY <2>2 DEF S!WritePreread
    <3> HIDE DEF q
    <3>2. /\ q \in SrvTurn
          /\ q.sent = Append(Append(<<>>, OpenFrame), DataFrame(head))
          /\ \/ /\ q.st = [paused.st EXCEPT !.sendCredit = Window - size]
                /\ q.sock = paused.sock
             \/ Window - size <= 0
      <4> DEFINE credit == paused.st.sendCredit - Len(head)
      <4>1. credit = Window - size
        BY <1>5, <1>11, SMTT(40)
      <4> HIDE DEF credit
      <4>2. /\ q \in SrvTurn
            /\ q.sent = Append(paused.sent, DataFrame(head))
            /\ \/ /\ q.st = [paused.st EXCEPT !.sendCredit = credit]
                  /\ q.sock = paused.sock
               \/ credit <= 0
        BY <1>5, <1>11, <2>2, <3>1, SrvSocketData, ZenonT(60) DEF credit
      <4> QED
        BY <1>11, <4>1, <4>2
    <3>3. ~(Window - size <= 0)
      BY <1>0, <1>5 DEF SrvFacts
    <3>4. q.st = [paused.st EXCEPT !.sendCredit = Window - size] /\ q.sock = paused.sock
      BY <3>2, <3>3
    <3>5. paused.st \in SrvType
      BY <1>11 DEF SrvTurn
    <3> QED
      BY <1>11, <2>2, <3>2, <3>4, <3>5 DEF SrvType
  <2> QED
    BY <2>1, <2>2
<1> HIDE DEF q
<1>13. /\ s \in Socket(Bytes) /\ s.inq = rest /\ s.out = pub.out
       /\ s.readEnded = pub.readEnded
  <2>1. q.sock \in Socket(Bytes)
    BY <1>12 DEF SrvTurn
  <2> QED
    BY <1>12, <2>1, PauseResume
<1> HIDE DEF s
<1>14. r \in SrvTurn /\ r.st = q.st /\ r.sock = s /\ r.sent = q.sent
  BY <1>12, <1>13, SrvSock
<1> HIDE DEF r
<1>15. SrvCommitted(r, <<>>)
  BY <1>2, <1>4, <1>14, SrvCallback DEF IInv, Types
<1>16. srv' = q.st /\ pub' = s
  BY <1>14, <1>15 DEF SrvCommitted
<1>17. /\ e \in Seq(WireFrame) /\ Orderly(e)
       /\ "OPEN" \in TypesIn(e) /\ TypesIn(e) \subseteq {"OPEN", "DATA"}
       /\ DataIn(e) = size /\ AcksIn(e) = 0
  <2>1. e = q.sent
    BY <1>14
  <2> HIDE DEF e
  <2> QED
    BY <1>5, <1>12, <2>1, OpenSent
<1>18. TypesIn(<<>>) = {} /\ DataIn(<<>>) = 0 /\ AcksIn(<<>>) = 0
  BY EmptySeen
<1>19. SrvWire(e, <<>>)
  BY <1>15, <1>17, SrvWired
<1>20. /\ srv'.opened /\ srv'.sendCredit = Window - size
       /\ srv'.recvUnacked = 0 /\ ~srv'.pausedForCredit
       /\ ~srv'.sentEof /\ ~srv'.receivedEof /\ ~srv'.finished
       /\ pub'.inq = rest /\ pub'.out = pub.out /\ ~pub'.readEnded
  BY <1>2, <1>12, <1>13, <1>16
<1> HIDE DEF e
<1>21. /\ srv.sendCredit = Window /\ srv.recvUnacked = 0
       /\ ~srv.sentEof /\ ~srv.receivedEof /\ ~srv.finished
  BY <1>7 DEF S!NoStream
<1>22. SrvWord(e, <<>>)
  BY <1>2, <1>17, <1>18, <1>20, <1>21 DEF SrvWord
<1>23. SrvBytes(e, <<>>)
  <2>1. SrvPauses'
    BY <1>0, <1>5, <1>20, SMTT(40) DEF SrvPauses, SrvFacts
  <2>2. visitorSaid' = visitorSaid
    BY <1>2
  <2>3. srv'.sendCredit + visitorSaid' - Len(pub'.inq) >= Window
    BY <1>0, <1>5, <1>20, <1>21, <2>2 DEF SrvFacts
  <2>4. Len(pub'.out) < srv'.recvUnacked + HighWater
    BY <1>0, <1>20, <1>21 DEF SrvFacts
  <2> QED
    BY <1>0, <1>5, <1>17, <1>18, <1>20, <1>21, <2>1, <2>3, <2>4 DEF SrvBytes, SrvFacts
<1> QED
  BY <1>19, <1>22, <1>23, SMTT(40) DEF SrvLaw

\* Whatever frame the server takes, its turn obeys the law.
LEMMA ServerReceiveLaw ==
  ASSUME IInv, S!ServerReceive, UNCHANGED <<cVars, outsideVars>>
  PROVE  \E e, t : SrvLaw(e, t)
<1> DEFINE kind == Head(toServer).type
<1>1. kind \in {"DATA", "EOF", "ACK", "RESET"}
  <2>1. Head(toServer) \in WireFrame /\ kind # "OPEN"
    BY SrvTaken
  <2> QED
    BY <2>1 DEF WireFrame, SomeFrame
<1>2. CASE ~S!InStreams
  BY <1>2, SrvStrayLaw
<1>3. CASE S!InStreams /\ kind = "DATA"
  BY <1>3, SrvDataLaw
<1>4. CASE S!InStreams /\ kind = "EOF"
  BY <1>4, SrvEofLaw
<1>5. CASE S!InStreams /\ kind = "ACK"
  BY <1>5, SrvAckLaw
<1>6. CASE S!InStreams /\ kind = "RESET"
  BY <1>6, SrvResetLaw
<1> QED
  BY <1>1, <1>2, <1>3, <1>4, <1>5, <1>6

\* Whatever the server's end or the visitor does obeys the law of a turn.
LEMMA ServerSide ==
  ASSUME IInv,
         VisitorSend \/ VisitorFin \/ VisitorAbort \/ ServerStep \/ ServerCongests
  PROVE  \E e, t : SrvLaw(e, t)
<1>1. CASE VisitorSend \/ VisitorFin \/ VisitorAbort
  BY <1>1, VisitorSteps
<1>2. CASE ServerCongests
  BY <1>2, CongestionLaw
<1>3. CASE ServerStep
  <2>1. UNCHANGED <<cVars, outsideVars>>
    BY <1>3 DEF ServerStep
  <2>2. CASE S!SocketFlush
    BY <2>1, <2>2, VisitorSteps
  <2>3. CASE S!OpenStream
    BY <2>1, <2>3, OpenStreamLaw
  <2>4. CASE S!SocketData
    BY <2>1, <2>4, SocketDataLaw
  <2>5. CASE S!SocketEnd
    BY <2>1, <2>5, SocketEndLaw
  <2>6. CASE S!SocketDrain
    BY <2>1, <2>6, SocketDrainLaw
  <2>7. CASE S!SocketError
    BY <2>1, <2>7, SocketErrorLaw
  <2>8. CASE S!SocketClose
    BY <2>1, <2>8, SocketCloseLaw
  <2>9. CASE S!ServerReceive
    BY <2>1, <2>9, ServerReceiveLaw
  <2>10. CASE S!ClearCongestion
    BY <2>1, <2>10, CongestionLaw
  <2>11. CASE S!SessionDestroy
    BY <2>1, <2>11, SessionDestroyLaw
  <2> QED
    BY <1>3, <2>2, <2>3, <2>4, <2>5, <2>6, <2>7, <2>8, <2>9, <2>10, <2>11
       DEF ServerStep, S!ServerCallback
<1> QED
  BY <1>1, <1>2, <1>3

-----------------------------------------------------------------------------
\* Every step of the agent's end and of the local service obeys the law.

\* What the invariant says of the agent's end, in one place.
CliFacts ==
    /\ cli \in CliType /\ loc \in Socket(Bytes)
    /\ cli.dial \in {"none", "pending", "over"} /\ cli.connected \in BOOLEAN
    /\ cli.finished \in BOOLEAN /\ cli.queuedEof \in BOOLEAN
    /\ cli.sentEof \in BOOLEAN /\ cli.receivedEof \in BOOLEAN
    /\ cli.pausedForCredit \in BOOLEAN /\ cli.headDone \in BOOLEAN
    /\ cli.rewriteHost \in BOOLEAN
    /\ cli.sendCredit \in Int /\ cli.recvUnacked \in Nat /\ QueuedBytes \in Nat
    /\ Len(loc.inq) \in Nat /\ Len(loc.out) \in Nat
    /\ serviceSaid \in Int
    /\ cli.connected => cli.dial = "over"
    /\ cli.sendCredit + serviceSaid - Len(loc.inq) >= Window
    /\ cli.pausedForCredit => ~loc.flowing
    /\ cli.sendCredit <= 0 => cli.pausedForCredit
    /\ cli.sendCredit > -MaxChunk
    /\ Len(loc.out) < WindowAndChunk + HighWater + RoomFor(cli.rewriteHost)
    /\ ~cli.receivedEof =>
           Len(loc.out) < cli.recvUnacked + HighWater + RoomFor(cli.rewriteHost)
    /\ ~cli.headDone => /\ cli.rewriteHost
                        /\ cli.recvUnacked = 0
                        /\ loc.out = <<>>
                        /\ Len(cli.headBuf) < MaxHead
    /\ cli.headDone => cli.headBuf = <<>>
    /\ loc.readEnded => cli.sentEof \/ cli.finished
    /\ MaxChunk \in Nat \ {0} /\ HighWater \in Nat \ {0}
    /\ Window \in Nat \ {0} /\ WindowAndChunk \in Nat
    /\ RoomFor(cli.rewriteHost) \in Nat

\* What the invariant says of the agent's end.
LEMMA CliKnown ==
  ASSUME IInv
  PROVE  CliFacts
<1>1. Types /\ LifeOfAgent /\ Informed /\ Flow /\ CliPauses /\ CliBuffers
  BY DEF IInv
<1>2. /\ cli \in CliType /\ loc \in Socket(Bytes) /\ serviceSaid \in 0..DownBytes
  BY <1>1 DEF Types
<1>3. /\ cli.dial \in {"none", "pending", "over"} /\ cli.connected \in BOOLEAN
      /\ cli.finished \in BOOLEAN /\ cli.queuedEof \in BOOLEAN
      /\ cli.sentEof \in BOOLEAN /\ cli.receivedEof \in BOOLEAN
      /\ cli.pausedForCredit \in BOOLEAN /\ cli.headDone \in BOOLEAN
      /\ cli.rewriteHost \in BOOLEAN
      /\ cli.sendCredit \in Int /\ cli.recvUnacked \in Nat
  BY <1>2 DEF CliType
<1>4. Len(loc.inq) \in Nat /\ Len(loc.out) \in Nat
  BY <1>2, SocketTyped
<1>5. /\ MaxChunk \in Nat \ {0} /\ HighWater \in Nat \ {0} /\ Window \in Nat \ {0}
      /\ WindowAndChunk \in Nat /\ serviceSaid \in Int
      /\ RoomFor(cli.rewriteHost) \in Nat
  BY <1>2, <1>3, RoomTyped, BridgeAssumption DEF WindowAndChunk
<1>6. QueuedBytes \in Nat
  BY <1>2, QueuedTyped DEF QueuedBytes
<1>7. cli.connected => cli.dial = "over"
  BY <1>1 DEF LifeOfAgent
<1> QED
  BY <1>1, <1>2, <1>3, <1>4, <1>5, <1>6, <1>7
     DEF CliFacts, Informed, Flow, CliPauses, CliBuffers

\* The part of the law about what the local socket buffers.
CliHolds ==
    /\ ~cli.receivedEof => Len(loc.out) < cli.recvUnacked + HighWater
                                            + RoomFor(cli.rewriteHost)
    /\ cli.receivedEof => Len(loc.out) < WindowAndChunk + HighWater
                                           + RoomFor(cli.rewriteHost)
    /\ ~cli.headDone => /\ cli.rewriteHost
                        /\ cli.recvUnacked = 0
                        /\ loc.out = <<>>
                        /\ Len(cli.headBuf) < MaxHead
    /\ cli.headDone => cli.headBuf = <<>>

\* A socket that buffers no more than it did.
LEMMA CliStillHolds ==
  ASSUME CliFacts,
         cli'.receivedEof = cli.receivedEof, cli'.recvUnacked = cli.recvUnacked,
         cli'.headDone = cli.headDone, cli'.headBuf = cli.headBuf,
         cli'.rewriteHost = cli.rewriteHost, loc' \in Socket(Bytes),
         Len(loc'.out) <= Len(loc.out)
  PROVE  CliHolds'
<1>1. loc'.out \in Seq(Bytes) /\ Len(loc'.out) \in Nat
  BY SocketTyped
<1>2. loc.out = <<>> => loc'.out = <<>>
  BY <1>1
<1> DEFINE bound == WindowAndChunk + HighWater + RoomFor(cli.rewriteHost)
           limit == cli.recvUnacked + HighWater + RoomFor(cli.rewriteHost)
           m == Len(loc.out)
           n == Len(loc'.out)
<1>3. /\ bound \in Int /\ limit \in Int /\ m \in Int /\ n \in Int
      /\ n <= m /\ m < bound /\ (~cli.receivedEof => m < limit)
  BY <1>1, SMTT(40) DEF CliFacts
<1>4. /\ WindowAndChunk + HighWater + RoomFor(cli'.rewriteHost) = bound
      /\ cli'.recvUnacked + HighWater + RoomFor(cli'.rewriteHost) = limit
  OBVIOUS
<1> HIDE DEF bound, limit, m, n
<1>5. n < bound /\ (~cli.receivedEof => n < limit)
  BY ONLY <1>3
<1> QED
  BY <1>2, <1>4, <1>5 DEF CliHolds, CliFacts, n

\* What of the agent's end only an opening or a dial changes.
CliStill ==
    /\ cli'.dial = cli.dial /\ cli'.connected = cli.connected
    /\ cli'.queued = cli.queued /\ cli'.queuedEof = cli.queuedEof
    /\ cli'.rewriteHost = cli.rewriteHost

\* A stream whose dial is over stays so.
LEMMA CliStillLives ==
  ASSUME IInv, cli.connected, CliStill
  PROVE  /\ LifeOfAgent' /\ QueuedBytes' = QueuedBytes
         /\ cli.dial # "none" /\ cli'.dial # "none"
<1>1. cli.dial = "over"
  BY CliKnown DEF CliFacts
<1> QED
  BY <1>1 DEF CliStill, LifeOfAgent, QueuedBytes

\* The agent's end unchanged, its socket at most shrunk.
LEMMA CliIdle ==
  ASSUME IInv, cli.connected, cli' = cli, toAgent' = toAgent, toServer' = toServer,
         UNCHANGED <<sVars, linkUp, visitorSaid, congestions>>,
         cliCongested' = cliCongested, cliClosed' = cliClosed,
         loc' \in Socket(Bytes), serviceSaid' \in 0..DownBytes,
         loc'.readEnded = loc.readEnded, loc'.flowing => loc.flowing,
         Len(loc'.out) <= Len(loc.out),
         serviceSaid' - Len(loc'.inq) >= serviceSaid - Len(loc.inq)
  PROVE  CliLaw(<<>>, <<>>)
<1>0. CliFacts
  BY CliKnown
<1>1. /\ Types /\ LifeOfServer
  BY DEF IInv
<1>2. /\ <<>> \in Seq(WireFrame) /\ Orderly(<<>>)
      /\ TypesIn(<<>>) = {} /\ DataIn(<<>>) = 0 /\ AcksIn(<<>>) = 0
  BY FewFrames
<1>3. CliWire(<<>>, <<>>)
  BY <1>1, <1>2, Nothing DEF CliWire, Types, LifeOfServer
<1>4. /\ LifeOfAgent' /\ QueuedBytes' = QueuedBytes
      /\ cli.dial # "none" /\ cli'.dial # "none"
  BY CliStillLives DEF CliStill
<1>5. CliWord(<<>>, <<>>)
  BY <1>0, <1>2, <1>4 DEF CliWord, CliFacts, Heard
<1>6. CliBytes(<<>>, <<>>)
  <2>1. CliHolds'
    BY <1>0, CliStillHolds
  <2>2. CliPauses'
    BY <1>0 DEF CliPauses, CliFacts
  <2>3. Len(loc'.inq) \in Nat /\ serviceSaid' \in Int
    BY SocketTyped, BridgeAssumption
  <2> DEFINE credit == cli.sendCredit
             a == Len(loc.inq)
             b == Len(loc'.inq)
             was == QueuedBytes + cli.recvUnacked
             p == serviceSaid
             q == serviceSaid'
  <2>4. credit + q - b >= Window
    <3>1. /\ credit \in Int /\ a \in Int /\ b \in Int /\ Window \in Int
          /\ p \in Int /\ q \in Int
          /\ q - b >= p - a
          /\ credit + p - a >= Window
      BY <1>0, <2>3 DEF CliFacts
    <3> HIDE DEF credit, a, b, p, q
    <3> QED
      BY ONLY <3>1
  <2>5. credit \in Int /\ was \in Int
    BY <1>0 DEF CliFacts
  <2>6. cli'.sendCredit = credit /\ QueuedBytes' + cli'.recvUnacked = was
    BY <1>4
  <2> HIDE DEF credit, was
  <2>7. /\ credit + 0 = credit /\ was + 0 = was
        /\ credit <= credit /\ was <= was
    BY ONLY <2>5
  <2> QED
    BY <1>2, <2>1, <2>2, <2>4, <2>6, <2>7 DEF CliBytes, CliHolds, credit, was
<1> QED
  BY <1>3, <1>5, <1>6 DEF CliLaw

\* What the service and the kernel on its side do.
LEMMA ServiceSteps ==
  ASSUME IInv,
         \/ ServiceSend \/ ServiceFin \/ ServiceAbort
         \/ C!LocalFlush /\ UNCHANGED <<sVars, outsideVars>>
  PROVE  CliLaw(<<>>, <<>>)
<1>1. /\ loc \in Socket(Bytes) /\ serviceSaid \in 0..DownBytes
      /\ UpBytes \in Nat /\ DownBytes \in Nat
  BY BridgeAssumption DEF IInv, Types
<1>2. Len(loc.inq) \in Nat /\ Len(loc.out) \in Nat /\ loc.inq \in Seq(Bytes)
  BY <1>1, SocketTyped
<1>3. CASE ServiceSend
  <2>1. serviceSaid + 1 \in Bytes /\ serviceSaid' = serviceSaid + 1
        /\ serviceSaid + 1 \in 0..DownBytes
    BY <1>1, <1>3 DEF ServiceSend, Bytes
  <2>2. loc' = [loc EXCEPT !.inq = Append(loc.inq, serviceSaid + 1)]
    BY <1>3 DEF ServiceSend
  <2>3. /\ Append(loc.inq, serviceSaid + 1) \in Seq(Bytes)
        /\ Len(Append(loc.inq, serviceSaid + 1)) = Len(loc.inq) + 1
    BY <1>2, <2>1
  <2>4. /\ loc' \in Socket(Bytes)
        /\ loc'.readEnded = loc.readEnded /\ loc'.flowing = loc.flowing
        /\ loc'.out = loc.out /\ Len(loc'.inq) = Len(loc.inq) + 1
    BY <1>1, <2>2, <2>3 DEF Socket
  <2> QED
    BY <1>1, <1>2, <1>3, <2>1, <2>4, CliIdle DEF ServiceSend, linkVars
<1>4. CASE ServiceFin
  <2>1. /\ loc' \in Socket(Bytes)
        /\ loc'.readEnded = loc.readEnded /\ loc'.flowing = loc.flowing
        /\ loc'.out = loc.out /\ loc'.inq = loc.inq
    BY <1>1, <1>4 DEF ServiceFin, Socket
  <2> QED
    BY <1>1, <1>2, <1>4, <2>1, CliIdle DEF ServiceFin, linkVars, outsideVars
<1>5. CASE ServiceAbort
  <2>1. loc' = Fail(loc)
    BY <1>5 DEF ServiceAbort
  <2>2. /\ loc' \in Socket(Bytes) /\ Shrunk(loc', loc)
        /\ loc'.out = <<>>
    BY <1>1, <2>1, SocketDestroyed
  <2>3. Len(loc'.inq) \in Nat
    BY <2>2, SocketTyped
  <2> QED
    BY <1>1, <1>2, <1>5, <2>2, <2>3, CliIdle
       DEF ServiceAbort, linkVars, outsideVars, Shrunk
<1>6. CASE C!LocalFlush /\ UNCHANGED <<sVars, outsideVars>>
  <2>1. loc' = FlushByte(loc) /\ loc.out # <<>>
    BY <1>6, SameOperators DEF C!LocalFlush, C!CanFlush
  <2>2. /\ loc' \in Socket(Bytes) /\ Shrunk(loc', loc)
        /\ Len(loc'.out) = Len(loc.out) - 1
    BY <1>1, <2>1, ByteFlushed
  <2>3. Len(loc'.inq) \in Nat
    BY <2>2, SocketTyped
  <2>4. cli.connected
    BY <2>1 DEF IInv, LifeOfAgent
  <2> QED
    BY <1>1, <1>2, <1>6, <2>2, <2>3, <2>4, CliIdle
       DEF C!LocalFlush, linkVars, outsideVars, Shrunk
<1> QED
  BY <1>3, <1>4, <1>5, <1>6

\* A turn r of the agent's end, which took the frames t, is committed.
CliCommitted(r, t) ==
    /\ r \in CliTurn
    /\ cli' = r.st /\ loc' = r.sock
    /\ toServer' = IF linkUp THEN toServer \o r.sent ELSE toServer
    /\ t \in Seq(WireFrame) /\ toAgent' \in Seq(WireFrame)
    /\ toAgent = t \o toAgent'
    /\ UNCHANGED <<sVars, linkUp, visitorSaid, serviceSaid>>
    /\ cliCongested' \in BOOLEAN /\ cliClosed' \in BOOLEAN
    /\ cliClosed' => ~linkUp
    /\ congestions' \in [{"server", "agent"} -> 0..MaxCongestions]

\* A turn of a callback takes no frame.
LEMMA CliWired ==
  ASSUME IInv, NEW r, NEW t, CliCommitted(r, t), NEW e, e = r.sent, Orderly(e)
  PROVE  CliWire(e, t)
<1>1. Types /\ LifeOfServer
  BY DEF IInv
<1>2. r.st \in CliType /\ r.sock \in Socket(Bytes) /\ r.sent \in Seq(WireFrame)
  BY DEF CliCommitted, CliTurn
<1> QED
  BY <1>1, <1>2 DEF CliWire, CliCommitted, Types, LifeOfServer, sVars

\* A turn that starts with its socket as the event left it.
LEMMA CliTurnStarts ==
  ASSUME IInv, NEW s \in Socket(Bytes)
  PROVE  /\ C!Turn \in CliTurn
         /\ C!Turn.st = cli /\ C!Turn.sock = loc /\ C!Turn.sent = <<>>
         /\ [C!Turn EXCEPT !.sock = s] \in CliTurn
         /\ [C!Turn EXCEPT !.sock = s].st = cli
         /\ [C!Turn EXCEPT !.sock = s].sock = s
         /\ [C!Turn EXCEPT !.sock = s].sent = <<>>
<1>1. cli \in CliType /\ loc \in Socket(Bytes) /\ <<>> \in Seq(WireFrame)
  BY CliKnown DEF CliFacts
<1> QED
  BY <1>1 DEF C!Turn, CliTurn

\* A turn of a callback, committed.
LEMMA CliCallback ==
  ASSUME IInv, NEW r \in CliTurn, C!Commit(r),
         UNCHANGED <<sVars, linkUp, toAgent, cliClosed, visitorSaid, serviceSaid>>,
         cliCongested' \in BOOLEAN,
         congestions' \in [{"server", "agent"} -> 0..MaxCongestions]
  PROVE  CliCommitted(r, <<>>)
<1>1. Types /\ LifeOfServer
  BY DEF IInv
<1>2. toServer' = IF linkUp THEN toServer \o r.sent ELSE toServer
  BY <1>1 DEF C!Commit, LifeOfServer
<1>3. /\ <<>> \in Seq(WireFrame) /\ toAgent \in Seq(WireFrame)
      /\ toAgent = <<>> \o toAgent
  BY <1>1, Nothing DEF Types
<1> QED
  BY <1>1, <1>2, <1>3 DEF C!Commit, CliCommitted, LifeOfServer, Types

\* A turn with its socket replaced.
LEMMA CliSock ==
  ASSUME NEW h \in CliTurn, NEW s \in Socket(Bytes)
  PROVE  /\ [h EXCEPT !.sock = s] \in CliTurn
         /\ [h EXCEPT !.sock = s].st = h.st
         /\ [h EXCEPT !.sock = s].sock = s
         /\ [h EXCEPT !.sock = s].sent = h.sent
  BY DEF CliTurn

\* The part of the law about bytes, for a turn that leaves the queue alone.
CliCounts(e, t) ==
    /\ cli'.sendCredit + DataIn(e) <= cli.sendCredit + AcksIn(t)
    /\ cli'.recvUnacked + AcksIn(e) <= cli.recvUnacked + DataIn(t)
    /\ ~cli'.finished /\ ~(cli'.dial = "none" /\ t # <<>>) =>
          /\ cli'.sendCredit + DataIn(e) = cli.sendCredit + AcksIn(t)
          /\ cli'.recvUnacked + AcksIn(e) = cli.recvUnacked + DataIn(t)
    /\ DataIn(e) > 0 => /\ cli.sendCredit > 0
                        /\ DataIn(e) <= MaxChunk
                        /\ t = <<>>
    /\ cli'.sendCredit + serviceSaid' - Len(loc'.inq) >= Window
    /\ CliPauses' /\ CliHolds'

\* Counts that agree for what is received agree with the queue too, when the
\* queue is as it was.
LEMMA CliCountsAll ==
  ASSUME IInv, NEW e \in Seq(WireFrame), NEW t \in Seq(WireFrame),
         cli' \in CliType, QueuedBytes' = QueuedBytes, CliCounts(e, t)
  PROVE  CliBytes(e, t)
<1> DEFINE q == QueuedBytes
           u == cli.recvUnacked
           v == cli'.recvUnacked
           a == AcksIn(e)
           d == DataIn(t)
           same == ~cli'.finished /\ ~(cli'.dial = "none" /\ t # <<>>)
<1>1. q \in Int /\ u \in Int
  BY CliKnown DEF CliFacts
<1>2. v \in Int
  BY DEF CliType
<1>3. a \in Int /\ d \in Int
  BY CountsBounded DEF WireFrame
<1>4. v + a <= u + d /\ (same => v + a = u + d)
  BY DEF CliCounts
<1> HIDE DEF q, u, v, a, d, same
<1>5. (q + v) + a <= (q + u) + d /\ (same => (q + v) + a = (q + u) + d)
  BY ONLY <1>1, <1>2, <1>3, <1>4
<1>6. /\ QueuedBytes' + cli'.recvUnacked = q + v
      /\ QueuedBytes + cli.recvUnacked = q + u
  BY DEF q, u, v
<1>7. /\ (QueuedBytes' + cli'.recvUnacked) + AcksIn(e)
           <= (QueuedBytes + cli.recvUnacked) + DataIn(t)
      /\ ~cli'.finished /\ ~(cli'.dial = "none" /\ t # <<>>) =>
            (QueuedBytes' + cli'.recvUnacked) + AcksIn(e)
              = (QueuedBytes + cli.recvUnacked) + DataIn(t)
  BY <1>5, <1>6 DEF a, d, same
<1> QED
  BY <1>7 DEF CliCounts, CliBytes, CliHolds

\* The law, for a turn of a connected stream.
LEMMA CliLawStill ==
  ASSUME IInv, NEW e, NEW t, cli.connected, CliStill,
         CliWire(e, t), CliWord(e, t), CliCounts(e, t)
  PROVE  CliLaw(e, t)
<1>1. QueuedBytes' = QueuedBytes
  BY CliStillLives
<1>2. e \in Seq(WireFrame) /\ t \in Seq(WireFrame) /\ cli' \in CliType
  BY DEF CliWire
<1> QED
  BY <1>1, <1>2, CliCountsAll DEF CliLaw

\* 'data' at the agent obeys the law.
LEMMA LocalDataLaw ==
  ASSUME IInv, C!LocalData, UNCHANGED <<sVars, outsideVars>>
  PROVE  \E e, t : CliLaw(e, t)
<1>0. CliFacts
  BY CliKnown
<1>1. PICK k \in 1..MaxChunk :
        /\ C!CanEmitData(loc, k)
        /\ C!Commit(C!OnLocalData([C!Turn EXCEPT !.sock = C!TakeData(@, k)],
                                   SubSeq(loc.inq, 1, k)))
  BY DEF C!LocalData
<1>2. /\ loc.flowing /\ k <= Len(loc.inq) /\ cli.connected
      /\ UNCHANGED <<sVars, linkUp, toAgent, cliClosed, serviceSaid, visitorSaid,
                     cliCongested, congestions>>
  BY <1>1 DEF C!LocalData, C!CanEmitData, outsideVars
<1>3. cli.sendCredit > 0 /\ ~cli.pausedForCredit /\ k \in Nat /\ k > 0 /\ k <= MaxChunk
  BY <1>2, <1>0 DEF CliFacts
<1> DEFINE s == TakeData(loc, k)
           d == SubSeq(loc.inq, 1, k)
           h == [C!Turn EXCEPT !.sock = s]
           r == C!OnLocalData(h, d)
<1>12. loc \in Socket(Bytes) /\ cli \in CliType /\ cli.sendCredit \in Int
  BY <1>0 DEF CliFacts
<1>4. /\ s \in Socket(Bytes) /\ s.readEnded = loc.readEnded /\ s.flowing = loc.flowing
      /\ s.out = loc.out /\ Len(s.inq) = Len(loc.inq) - k
      /\ d \in Seq(Bytes) /\ Len(d) = k /\ d # <<>>
  <2>1. /\ s \in Socket(Bytes) /\ s.readEnded = loc.readEnded
        /\ s.flowing = loc.flowing
        /\ s.out = loc.out /\ Len(s.inq) = Len(loc.inq) - k
        /\ d \in Seq(Bytes) /\ Len(d) = k
    BY <1>2, <1>3, <1>12, DataTaken
  <2> QED
    BY <1>3, <2>1
<1>5. C!Commit(r)
  <2>1. C!Turn.sock = loc
    BY DEF C!Turn
  <2>2. [C!Turn EXCEPT !.sock = C!TakeData(@, k)] = h
    BY <2>1, SameOperators
  <2> QED
    BY <1>1, <2>2
<1> HIDE DEF s, d
<1>6. h \in CliTurn /\ h.st = cli /\ h.sock = s /\ h.sent = <<>>
  BY <1>4, CliTurnStarts
<1> HIDE DEF h
<1>7. /\ cli.finished \/ cli.sentEof => r = h
      /\ ~(cli.finished \/ cli.sentEof) =>
            /\ r \in CliTurn
            /\ r.sent = Append(<<>>, DataFrame(d))
            /\ \/ /\ cli.sendCredit - k > 0 \/ cli.pausedForCredit
                  /\ r.st = [cli EXCEPT !.sendCredit = cli.sendCredit - k]
                  /\ r.sock = s
               \/ /\ cli.sendCredit - k <= 0
                  /\ r.st = [cli EXCEPT !.sendCredit = cli.sendCredit - k,
                                        !.pausedForCredit = TRUE]
                  /\ r.sock = Pause(s)
  BY <1>4, <1>6, CliLocalData
<1> DEFINE e == r.sent
<1> HIDE DEF r
<1>8. r \in CliTurn
  BY <1>6, <1>7
<1>9. CliCommitted(r, <<>>)
  BY <1>2, <1>5, <1>8, CliCallback, <1>0 DEF IInv, Types, CliFacts
<1>10. CASE cli.finished \/ cli.sentEof
  <2>1. e = <<>> /\ cli' = cli /\ loc' = s
    BY <1>6, <1>7, <1>9, <1>10 DEF CliCommitted
  <2> HIDE DEF e
  <2>5. CliStill
    BY <2>1 DEF CliStill
  <2>2. CliWire(e, <<>>)
    BY <1>9, <2>1, CliWired, FewFrames DEF CliCommitted, e
  <2>3. CliWord(e, <<>>)
    BY <1>2, <1>4, <2>1, <2>5, <1>0, FewFrames, CliStillLives
       DEF CliWord, CliFacts, Heard, CliStill
  <2>4. CliCounts(e, <<>>)
    <3>1. DataIn(e) = 0 /\ AcksIn(e) = 0 /\ DataIn(<<>>) = 0 /\ AcksIn(<<>>) = 0
      BY <2>1, EmptySeen
    <3>2. CliPauses'
      BY <1>4, <2>1, <1>0 DEF CliPauses, CliFacts
    <3>3. cli'.sendCredit + serviceSaid' - Len(loc'.inq) >= Window
      <4>1. /\ cli'.sendCredit = cli.sendCredit /\ serviceSaid' = serviceSaid
            /\ Len(loc'.inq) = Len(loc.inq) - k
        BY <1>2, <1>4, <2>1
      <4>2. /\ cli.sendCredit \in Int /\ serviceSaid \in Int
            /\ Len(loc.inq) \in Nat /\ Window \in Nat
            /\ cli.sendCredit + serviceSaid - Len(loc.inq) >= Window
        BY <1>0 DEF CliFacts
      <4> DEFINE c == cli.sendCredit
                 n == Len(loc.inq)
      <4>3. c + serviceSaid - (n - k) >= Window
        <5>1. c \in Int /\ n \in Nat /\ c + serviceSaid - n >= Window
          BY <4>2
        <5> HIDE DEF c, n
        <5> QED
          BY ONLY <1>3, <4>2, <5>1
      <4> QED
        BY ONLY <4>1, <4>3
    <3>4. CliHolds'
      BY <1>4, <2>1, <1>0, CliStillHolds DEF CliFacts
    <3> QED
      BY <1>4, <2>1, <3>1, <3>2, <3>3, <3>4, <1>0, SMTT(40) DEF CliCounts, CliFacts
  <2> QED
    BY <1>2, <2>2, <2>3, <2>4, <2>5, CliLawStill
<1>11. CASE ~(cli.finished \/ cli.sentEof)
  <2>1. /\ e \in Seq(WireFrame) /\ Orderly(e)
        /\ TypesIn(e) = {"DATA"} /\ DataIn(e) = k /\ AcksIn(e) = 0
    <3> DEFINE f == DataFrame(d)
    <3>1. /\ f \in WireFrame /\ f.type = "DATA" /\ DataOf(f) = k /\ AckOf(f) = 0
      BY <1>4, FramesTyped
    <3>2. e = Append(<<>>, f)
      BY <1>7, <1>11
    <3> HIDE DEF e, f
    <3> QED
      BY <3>1, <3>2, OneSent
  <2>2. /\ CliStill /\ cli'.headDone = cli.headDone /\ cli'.headBuf = cli.headBuf
        /\ cli'.finished = cli.finished
        /\ cli'.sentEof = cli.sentEof /\ cli'.receivedEof = cli.receivedEof
        /\ cli'.recvUnacked = cli.recvUnacked
        /\ cli'.sendCredit = cli.sendCredit - k
    <3>1. \/ cli' = [cli EXCEPT !.sendCredit = cli.sendCredit - k]
          \/ cli' = [cli EXCEPT !.sendCredit = cli.sendCredit - k, !.pausedForCredit = TRUE]
      BY <1>7, <1>9, <1>11 DEF CliCommitted
    <3> QED
      BY <1>12, <3>1 DEF CliType, CliStill
  <2>3. /\ loc'.readEnded = loc.readEnded
        /\ Len(loc'.inq) = Len(loc.inq) - k
        /\ loc'.out = loc.out
    BY <1>4, <1>7, <1>9, <1>11, PauseResume DEF CliCommitted, Shrunk
  <2>4. CliPauses'
    <3>1. \/ cli.sendCredit - k > 0 /\ cli'.pausedForCredit = cli.pausedForCredit
          \/ cli'.pausedForCredit /\ ~loc'.flowing
      <4>1. \/ /\ cli.sendCredit - k > 0 \/ cli.pausedForCredit
               /\ cli' = [cli EXCEPT !.sendCredit = cli.sendCredit - k]
               /\ loc' = s
            \/ /\ cli' = [cli EXCEPT !.sendCredit = cli.sendCredit - k,
                                      !.pausedForCredit = TRUE]
               /\ loc' = Pause(s)
        BY <1>7, <1>9, <1>11 DEF CliCommitted
      <4>2. ~Pause(s).flowing
        BY <1>4, PauseResume
      <4> QED
        BY <1>3, <1>12, <4>1, <4>2 DEF CliType
    <3> QED
      BY <1>3, <2>2, <3>1, <1>0 DEF CliPauses, CliFacts
  <2> HIDE DEF e
  <2>5. CliWire(e, <<>>)
    BY <1>9, <2>1, CliWired DEF e
  <2>6. CliWord(e, <<>>)
    BY <1>2, <1>11, <2>1, <2>2, <2>3, <1>0, FewFrames, CliStillLives
       DEF CliWord, CliFacts, Heard, CliStill
  <2>7. CliCounts(e, <<>>)
    <3>1. DataIn(<<>>) = 0 /\ AcksIn(<<>>) = 0
      BY EmptySeen
    <3>2. cli'.sendCredit + serviceSaid' - Len(loc'.inq) >= Window
      <4>1. serviceSaid' = serviceSaid
        BY <1>2
      <4>2. /\ cli.sendCredit \in Int /\ serviceSaid \in Int
            /\ Len(loc.inq) \in Nat /\ Window \in Nat
            /\ cli.sendCredit + serviceSaid - Len(loc.inq) >= Window
        BY <1>0 DEF CliFacts
      <4> DEFINE c == cli.sendCredit
                 n == Len(loc.inq)
      <4>3. (c - k) + serviceSaid - (n - k) >= Window
        <5>1. c \in Int /\ n \in Nat /\ c + serviceSaid - n >= Window
          BY <4>2
        <5> HIDE DEF c, n
        <5> QED
          BY ONLY <1>3, <4>2, <5>1
      <4> QED
        BY ONLY <2>2, <2>3, <4>1, <4>3
    <3>3. CliHolds'
      <4>1. loc' \in Socket(Bytes) /\ cli'.rewriteHost = cli.rewriteHost
        BY <1>9, <2>2 DEF CliCommitted, CliTurn, CliStill
      <4> QED
        BY <1>0, <2>2, <2>3, <4>1, CliStillHolds DEF CliFacts
    <3> DEFINE m == cli.sendCredit
               u == cli.recvUnacked
    <3>4. m \in Int /\ u \in Int /\ k \in Int /\ m > 0 /\ k <= MaxChunk
      BY <1>0, <1>3 DEF CliFacts
    <3>5. cli'.sendCredit = m - k /\ cli'.recvUnacked = u
      BY <2>2
    <3> HIDE DEF m, u
    <3>6. /\ (m - k) + k = m + 0 /\ u + 0 = u + 0
          /\ (m - k) + k <= m + 0 /\ u + 0 <= u + 0
      BY ONLY <3>4
    <3> QED
      BY <2>1, <2>4, <3>1, <3>2, <3>3, <3>4, <3>5, <3>6 DEF CliCounts, m, u
  <2> QED
    BY <1>2, <2>2, <2>5, <2>6, <2>7, CliLawStill
<1> QED
  BY <1>10, <1>11

\* 'end' at the agent obeys the law.
LEMMA LocalEndLaw ==
  ASSUME IInv, C!LocalEnd, UNCHANGED <<sVars, outsideVars>>
  PROVE  \E e, t : CliLaw(e, t)
<1>0. CliFacts
  BY CliKnown
<1>1. /\ cli.connected
      /\ C!Commit([C!OnLocalEnd(C!Turn) EXCEPT !.sock = C!EmitEnd(@)])
      /\ UNCHANGED <<sVars, linkUp, toAgent, cliClosed, serviceSaid, visitorSaid,
                     cliCongested, congestions>>
  BY DEF C!LocalEnd, outsideVars
<1> DEFINE h == C!Turn
           q == C!OnLocalEnd(h)
           s == EmitEnd(q.sock)
           r == [q EXCEPT !.sock = s]
           e == r.sent
<1>2. h \in CliTurn /\ h.st = cli /\ h.sock = loc /\ h.sent = <<>>
  BY <1>0, CliTurnStarts DEF CliFacts
<1>3. C!Commit(r)
  <2>1. [C!OnLocalEnd(C!Turn) EXCEPT !.sock = C!EmitEnd(@)] = r
    BY SameOperators
  <2> QED
    BY <1>1, <2>1
<1> HIDE DEF h
<1>4. /\ cli.finished \/ cli.sentEof => q = h
      /\ ~(cli.finished \/ cli.sentEof) =>
            /\ q \in CliTurn
            /\ \/ /\ cli.receivedEof
                  /\ q.st = [cli EXCEPT !.sentEof = TRUE, !.finished = TRUE]
               \/ /\ ~cli.receivedEof
                  /\ q.st = [cli EXCEPT !.sentEof = TRUE]
            /\ q.sock = loc
            /\ q.sent = Append(<<>>, EofFrame)
  BY <1>2, CliLocalEnd
<1> HIDE DEF q
<1>5. q \in CliTurn /\ q.sock = loc
  BY <1>2, <1>4
<1>6. /\ s \in Socket(Bytes) /\ s.inq = loc.inq /\ s.out = loc.out
      /\ s.flowing = loc.flowing
  BY <1>0, <1>5, SocketEvents DEF CliFacts
<1> HIDE DEF s
<1>7. r \in CliTurn /\ r.st = q.st /\ r.sock = s /\ r.sent = q.sent
  BY <1>5, <1>6, CliSock
<1> HIDE DEF r
<1>8. CliCommitted(r, <<>>)
  BY <1>1, <1>3, <1>7, CliCallback DEF IInv, Types
<1>9. cli' = q.st /\ loc' = s
  BY <1>7, <1>8 DEF CliCommitted
<1>10. /\ CliStill /\ cli'.headDone = cli.headDone /\ cli'.headBuf = cli.headBuf
       /\ cli'.sentEof \/ cli'.finished
       /\ cli.sentEof => cli'.sentEof
       /\ cli.finished => cli'.finished
       /\ cli'.finished => cli.finished \/ cli'.sentEof
       /\ cli'.receivedEof = cli.receivedEof
       /\ cli'.recvUnacked = cli.recvUnacked /\ cli'.sendCredit = cli.sendCredit
       /\ cli'.pausedForCredit = cli.pausedForCredit
  <2>1. CASE cli.finished \/ cli.sentEof
    BY <1>0, <1>2, <1>4, <1>9, <2>1 DEF CliFacts, CliStill
  <2>2. CASE ~(cli.finished \/ cli.sentEof)
    <3>1. \/ /\ cli.receivedEof
             /\ cli' = [cli EXCEPT !.sentEof = TRUE, !.finished = TRUE]
          \/ cli' = [cli EXCEPT !.sentEof = TRUE]
      BY <1>4, <1>9, <2>2
    <3>2. cli \in CliType
      BY <1>0 DEF CliFacts
    <3> QED
      BY <2>2, <3>1, <3>2 DEF CliType, CliStill
  <2> QED
    BY <2>1, <2>2
<1>11. /\ e \in Seq(WireFrame) /\ Orderly(e) /\ DataIn(e) = 0 /\ AcksIn(e) = 0
       /\ \/ TypesIn(e) = {} /\ cli'.sentEof = cli.sentEof
          \/ TypesIn(e) = {"EOF"} /\ cli'.sentEof /\ ~cli.finished
  <2>1. CASE cli.finished \/ cli.sentEof
    BY <1>2, <1>4, <1>7, <1>9, <2>1, FewFrames
  <2>2. CASE ~(cli.finished \/ cli.sentEof)
    <3>1. e = Append(<<>>, EofFrame)
      BY <1>4, <1>7, <2>2
    <3> HIDE DEF e
    <3>2. /\ e \in Seq(WireFrame) /\ Orderly(e) /\ DataIn(e) = 0 /\ AcksIn(e) = 0
          /\ TypesIn(e) = {"EOF"}
      BY <3>1, FramesTyped, OneSent
    <3>3. cli'.sentEof
      BY <1>0, <1>4, <1>9, <2>2 DEF CliFacts, CliType
    <3> QED
      BY <2>2, <3>2, <3>3
  <2> QED
    BY <2>1, <2>2
<1>12. TypesIn(<<>>) = {} /\ DataIn(<<>>) = 0 /\ AcksIn(<<>>) = 0
  BY EmptySeen
<1>13. CliWire(e, <<>>)
  BY <1>8, <1>11, CliWired
<1> HIDE DEF e
<1>14. CliWord(e, <<>>)
  BY <1>0, <1>1, <1>10, <1>11, <1>12, CliStillLives DEF CliWord, CliFacts, Heard, CliStill
<1>15. CliCounts(e, <<>>)
  <2>1. CliPauses'
    BY <1>0, <1>6, <1>9, <1>10 DEF CliPauses, CliFacts
  <2>2. cli'.sendCredit + serviceSaid' - Len(loc'.inq) >= Window
    BY <1>0, <1>1, <1>6, <1>9, <1>10 DEF CliFacts
  <2>3. CliHolds'
    BY <1>0, <1>6, <1>9, <1>10, CliStillHolds DEF CliFacts, CliStill
  <2> QED
    BY <1>0, <1>6, <1>9, <1>10, <1>11, <1>12, <2>1, <2>2, <2>3, SMTT(40) DEF CliCounts, CliFacts
<1>16. CliLaw(e, <<>>)
  BY <1>1, <1>10, <1>13, <1>14, <1>15, CliLawStill
<1> QED
  BY <1>16

\* 'drain' at the agent obeys the law.
LEMMA LocalDrainLaw ==
  ASSUME IInv, C!LocalDrain, UNCHANGED <<sVars, outsideVars>>
  PROVE  \E e, t : CliLaw(e, t)
<1>0. CliFacts
  BY CliKnown
<1> DEFINE s == Drained(loc)
           h == [C!Turn EXCEPT !.sock = s]
           r == C!FlushAck(h)
           e == r.sent
<1>1. /\ cli.connected /\ loc.out = <<>>
      /\ UNCHANGED <<sVars, linkUp, toAgent, cliClosed, serviceSaid, visitorSaid,
                     cliCongested, congestions>>
  BY DEF C!LocalDrain, C!DrainDue, outsideVars
<1>2. C!Commit(r)
  <2>1. C!Turn.sock = loc
    BY DEF C!Turn
  <2>2. [C!Turn EXCEPT !.sock = C!Drained(@)] = h
    BY <2>1, SameOperators
  <2> QED
    BY <2>2 DEF C!LocalDrain
<1>3. /\ s \in Socket(Bytes) /\ s.out = <<>> /\ s.readEnded = loc.readEnded
      /\ Len(s.inq) <= Len(loc.inq) /\ Len(s.inq) \in Nat
      /\ s.flowing => loc.flowing
  BY <1>0, <1>1, SocketEvents, SocketTyped, ZenonT(60) DEF CliFacts, Shrunk
<1> HIDE DEF s
<1>4. h \in CliTurn /\ h.st = cli /\ h.sock = s /\ h.sent = <<>>
  BY <1>3, CliTurnStarts
<1> HIDE DEF h
<1>5. /\ cli.recvUnacked = 0 \/ cli.finished => r = h
      /\ ~(cli.recvUnacked = 0 \/ cli.finished) =>
            /\ r \in CliTurn
            /\ r.st = [cli EXCEPT !.recvUnacked = 0]
            /\ r.sock = s
            /\ r.sent = Append(<<>>, AckFrame(cli.recvUnacked))
  BY <1>4, CliFlushAck
<1> HIDE DEF r
<1>6. r \in CliTurn /\ r.sock = s
  BY <1>4, <1>5
<1>7. CliCommitted(r, <<>>)
  BY <1>1, <1>2, <1>6, CliCallback DEF IInv, Types
<1>8. cli' = r.st /\ loc' = s
  BY <1>6, <1>7 DEF CliCommitted
<1>9. /\ CliStill /\ cli'.headDone = cli.headDone /\ cli'.headBuf = cli.headBuf
      /\ cli'.finished = cli.finished
      /\ cli'.sentEof = cli.sentEof /\ cli'.receivedEof = cli.receivedEof
      /\ cli'.sendCredit = cli.sendCredit
      /\ cli'.pausedForCredit = cli.pausedForCredit
      /\ cli'.recvUnacked \in Nat
      /\ cli.recvUnacked = 0 => cli'.recvUnacked = 0
  <2>1. CASE cli.recvUnacked = 0 \/ cli.finished
    BY <1>0, <1>4, <1>5, <1>8, <2>1 DEF CliFacts, CliStill
  <2>2. CASE ~(cli.recvUnacked = 0 \/ cli.finished)
    <3>1. cli' = [cli EXCEPT !.recvUnacked = 0]
      BY <1>5, <1>8, <2>2
    <3>2. cli \in CliType
      BY <1>0 DEF CliFacts
    <3> QED
      BY <2>2, <3>1, <3>2 DEF CliType, CliStill
  <2> QED
    BY <2>1, <2>2
<1>10. /\ e \in Seq(WireFrame) /\ Orderly(e) /\ DataIn(e) = 0
       /\ AcksIn(e) \in Nat /\ cli'.recvUnacked + AcksIn(e) = cli.recvUnacked
       /\ TypesIn(e) = {} \/ (TypesIn(e) = {"ACK"} /\ ~cli.finished)
  <2>1. CASE cli.recvUnacked = 0 \/ cli.finished
    <3>1. e = <<>> /\ cli' = cli
      BY <1>4, <1>5, <1>8, <2>1
    <3> HIDE DEF e
    <3>2. e \in Seq(WireFrame) /\ Orderly(e) /\ TypesIn(e) = {}
          /\ DataIn(e) = 0 /\ AcksIn(e) = 0
      BY <3>1, FewFrames
    <3> QED
      BY <1>0, <3>1, <3>2 DEF CliFacts
  <2>2. CASE ~(cli.recvUnacked = 0 \/ cli.finished)
    <3> DEFINE f == AckFrame(cli.recvUnacked)
    <3>1. e = Append(<<>>, f)
      BY <1>5, <2>2
    <3>2. /\ f \in WireFrame /\ f.type = "ACK" /\ DataOf(f) = 0
          /\ AckOf(f) = cli.recvUnacked
      BY <1>0, <2>2, FramesTyped DEF CliFacts
    <3> HIDE DEF e, f
    <3>3. /\ e \in Seq(WireFrame) /\ Orderly(e) /\ DataIn(e) = 0
          /\ AcksIn(e) = cli.recvUnacked /\ TypesIn(e) = {"ACK"}
      BY <3>1, <3>2, OneSent
    <3>4. cli'.recvUnacked = 0
      BY <1>0, <1>5, <1>8, <2>2 DEF CliFacts, CliType
    <3> QED
      BY <1>0, <2>2, <3>3, <3>4 DEF CliFacts
  <2> QED
    BY <2>1, <2>2
<1>11. TypesIn(<<>>) = {} /\ DataIn(<<>>) = 0 /\ AcksIn(<<>>) = 0
  BY EmptySeen
<1>12. CliWire(e, <<>>)
  BY <1>7, <1>10, CliWired
<1> HIDE DEF e
<1>13. CliWord(e, <<>>)
  BY <1>0, <1>1, <1>3, <1>8, <1>9, <1>10, <1>11, CliStillLives
     DEF CliWord, CliFacts, Heard, CliStill
<1>14. CliCounts(e, <<>>)
  <2>1. CliPauses'
    <3>1. /\ cli.pausedForCredit => ~loc.flowing
          /\ cli.sendCredit <= 0 => cli.pausedForCredit
          /\ cli.sendCredit > -MaxChunk
      BY <1>0 DEF CliFacts
    <3>2. loc'.flowing => loc.flowing
      BY <1>3, <1>8
    <3> QED
      BY ONLY <1>9, <3>1, <3>2 DEF CliPauses
  <2>2. cli'.sendCredit + serviceSaid' - Len(loc'.inq) >= Window
    <3> DEFINE c == cli.sendCredit
               n == Len(loc.inq)
               n2 == Len(loc'.inq)
    <3>1. /\ c \in Int /\ n \in Nat /\ serviceSaid \in Int /\ Window \in Nat
          /\ c + serviceSaid - n >= Window
      BY <1>0 DEF CliFacts
    <3>2. n2 \in Nat /\ n2 <= n
      BY <1>3, <1>8
    <3>3. cli'.sendCredit = c /\ serviceSaid' = serviceSaid
      BY <1>1, <1>9
    <3> HIDE DEF c, n, n2
    <3>4. c + serviceSaid - n2 >= Window
      BY ONLY <3>1, <3>2
    <3> QED
      BY ONLY <3>3, <3>4 DEF n2
  <2>3. Len(loc'.out) = 0 /\ loc'.out = <<>>
    BY <1>3, <1>8
  <2>4. cli'.rewriteHost = cli.rewriteHost
    BY <1>9 DEF CliStill
  <2>5. CliHolds'
    BY <1>0, <1>9, <2>3, <2>4 DEF CliHolds, CliFacts
  <2>6. cli.sendCredit \in Int /\ cli.recvUnacked \in Nat
    BY <1>0 DEF CliFacts
  <2>7. /\ cli'.sendCredit + DataIn(e) = cli.sendCredit + AcksIn(<<>>)
        /\ cli'.recvUnacked + AcksIn(e) = cli.recvUnacked + DataIn(<<>>)
        /\ ~(DataIn(e) > 0)
    BY ONLY <1>9, <1>10, <1>11, <2>6
  <2>8. /\ cli'.sendCredit + DataIn(e) <= cli.sendCredit + AcksIn(<<>>)
        /\ cli'.recvUnacked + AcksIn(e) <= cli.recvUnacked + DataIn(<<>>)
    BY ONLY <1>9, <1>10, <1>11, <2>6
  <2> QED
    BY ONLY <2>1, <2>2, <2>5, <2>7, <2>8 DEF CliCounts
<1>15. CliLaw(e, <<>>)
  BY <1>1, <1>9, <1>12, <1>13, <1>14, CliLawStill
<1> QED
  BY <1>15

\* A turn that moves no bytes: it may end the stream, and may pause or resume
\* its socket if there is one.
CliQuiet(r) ==
    /\ r \in CliTurn
    /\ r.sock.readEnded = loc.readEnded
    /\ Len(r.sock.inq) <= Len(loc.inq)
    /\ r.sock.out = <<>> \/ r.sock.out = loc.out
    /\ r.st.dial = cli.dial /\ r.st.connected = cli.connected
    /\ r.st.queued = cli.queued /\ r.st.queuedEof = cli.queuedEof
    /\ r.st.rewriteHost = cli.rewriteHost
    /\ r.st.headDone = cli.headDone /\ r.st.headBuf = cli.headBuf
    /\ cli.finished => r.st.finished
    /\ r.st.sentEof = cli.sentEof /\ r.st.receivedEof = cli.receivedEof
    /\ r.st.sendCredit = cli.sendCredit /\ r.st.recvUnacked = cli.recvUnacked
    /\ \/ /\ r.st.pausedForCredit = cli.pausedForCredit
          /\ r.sock.flowing => loc.flowing
       \/ ~r.st.pausedForCredit /\ cli.sendCredit > 0
    /\ ~cli.connected =>
          r.sock = loc /\ r.st.pausedForCredit = cli.pausedForCredit
    /\ cli.dial = "none" => r.st = cli

\* A turn that moves no byte does not undo the dial.
LEMMA CliQuietLives ==
  ASSUME IInv, NEW r, CliQuiet(r), cli' = r.st, loc' = r.sock,
         serviceSaid' = serviceSaid
  PROVE  LifeOfAgent'
<1>1. LifeOfAgent
  BY DEF IInv
<1>2. /\ cli'.dial = cli.dial /\ cli'.connected = cli.connected
      /\ cli'.rewriteHost = cli.rewriteHost
      /\ cli'.headDone = cli.headDone /\ cli'.headBuf = cli.headBuf
      /\ cli.finished => cli'.finished
      /\ cli'.sentEof = cli.sentEof /\ cli'.receivedEof = cli.receivedEof
      /\ cli'.recvUnacked = cli.recvUnacked
      /\ ~cli.connected => loc' = loc /\ cli'.pausedForCredit = cli.pausedForCredit
      /\ cli.dial = "none" => cli' = cli
  BY DEF CliQuiet
<1>3. cli.dial # "over" => ~cli.connected
  BY <1>1 DEF LifeOfAgent
<1>4. cli'.dial = "none" => cli' = C!NoClientStream(cli'.rewriteHost)
  BY <1>1, <1>2 DEF LifeOfAgent
<1>5. cli'.dial # "over" => ~cli'.connected /\ loc' = NewSocket
  BY <1>1, <1>2, <1>3 DEF LifeOfAgent
<1>6. cli'.dial = "over" => cli'.connected \/ cli'.finished
  BY <1>1, <1>2 DEF LifeOfAgent
<1>7. ~cli'.connected => /\ serviceSaid' = 0
                         /\ loc'.inq = <<>> /\ loc'.out = <<>>
                         /\ ~loc'.flowing /\ ~loc'.readEnded
                         /\ ~cli'.pausedForCredit
                         /\ ~cli'.sentEof /\ ~cli'.receivedEof
                         /\ cli'.recvUnacked = 0
                         /\ cli'.headBuf = <<>> /\ cli'.headDone = ~cli'.rewriteHost
  BY <1>1, <1>2 DEF LifeOfAgent
<1> QED
  BY <1>4, <1>5, <1>6, <1>7 DEF LifeOfAgent

\* A turn that moves no byte and takes nothing but a reset obeys the law.
LEMMA CliQuietLaw ==
  ASSUME IInv, NEW r, NEW t, CliCommitted(r, t), CliQuiet(r),
         NEW e, e = r.sent, Orderly(e), TypesIn(e) \subseteq {"RESET"},
         DataIn(e) = 0, AcksIn(e) = 0,
         TypesIn(e) # {} => r.st.finished \/ (cli.dial = "none" /\ t # <<>>),
         TypesIn(t) \subseteq {"RESET"} \/ cli.finished \/ cli.dial = "none",
         "RESET" \in TypesIn(t) => r.st.finished \/ cli.dial = "none",
         r.st.finished => \/ cli.finished \/ cli.sentEof \/ ~linkUp
                          \/ "RESET" \in TypesIn(e) \/ "RESET" \in TypesIn(t)
  PROVE  CliLaw(e, t)
<1>0. CliFacts
  BY CliKnown
<1>1. /\ cli' = r.st /\ loc' = r.sock /\ serviceSaid' = serviceSaid
      /\ r.sock \in Socket(Bytes) /\ t \in Seq(WireFrame) /\ e \in Seq(WireFrame)
  BY DEF CliCommitted, CliTurn
<1>2. /\ CliStill
      /\ cli'.headDone = cli.headDone /\ cli'.headBuf = cli.headBuf
      /\ cli.finished => cli'.finished
      /\ cli'.sentEof = cli.sentEof /\ cli'.receivedEof = cli.receivedEof
      /\ cli'.sendCredit = cli.sendCredit
      /\ cli'.recvUnacked = cli.recvUnacked
      /\ \/ /\ cli'.pausedForCredit = cli.pausedForCredit
            /\ loc'.flowing => loc.flowing
         \/ ~cli'.pausedForCredit /\ cli.sendCredit > 0
  BY <1>1 DEF CliQuiet, CliStill
<1>3. /\ Len(loc'.inq) <= Len(loc.inq) /\ Len(loc'.inq) \in Nat
      /\ loc'.readEnded = loc.readEnded
      /\ Len(loc'.out) <= Len(loc.out) /\ Len(loc'.out) \in Nat
      /\ loc' \in Socket(Bytes)
  <2>1. loc' \in Socket(Bytes) /\ Len(loc'.inq) \in Nat /\ Len(loc'.out) \in Nat
    BY <1>1, SocketTyped
  <2>2. loc'.out = <<>> \/ loc'.out = loc.out
    BY <1>1 DEF CliQuiet
  <2>3. Len(loc.out) \in Nat
    BY <1>0 DEF CliFacts
  <2>4. Len(loc'.out) <= Len(loc.out)
    BY <2>1, <2>2, <2>3
  <2> QED
    BY <1>1, <2>1, <2>4 DEF CliQuiet
<1>4. DataIn(t) \in Nat /\ AcksIn(t) \in Nat
  BY <1>1, CountsBounded DEF WireFrame
<1>5. ~cli'.finished /\ ~(cli'.dial = "none" /\ t # <<>>) =>
         DataIn(t) = 0 /\ AcksIn(t) = 0
  <2>1. SUFFICES ASSUME ~cli'.finished, ~(cli'.dial = "none" /\ t # <<>>)
                 PROVE DataIn(t) = 0 /\ AcksIn(t) = 0
    OBVIOUS
  <2>2. TypesIn(t) = {} \/ t = <<>>
    BY <1>1, <1>2, <2>1 DEF CliStill
  <2>3. t = <<>>
    BY <1>1, <2>2, NoFrames
  <2> QED
    BY <2>3, EmptySeen
<1>6. CliWire(e, t)
  BY CliWired
<1>7. CliWord(e, t)
  <2>1. LifeOfAgent'
    BY <1>1, CliQuietLives
  <2>2. "OPEN" \notin TypesIn(e) /\ "EOF" \notin TypesIn(e) /\ "DATA" \notin TypesIn(e)
    OBVIOUS
  <2>3. TypesIn(e) = {} => e = <<>>
    BY <1>1, NoFrames
  <2>4. cli'.dial = cli.dial /\ cli'.rewriteHost = cli.rewriteHost
        /\ cli'.queuedEof = cli.queuedEof
    BY <1>2 DEF CliStill
  <2>5. cli.dial = "none" => ~cli'.finished
    BY <1>1, <1>0 DEF IInv, LifeOfAgent, CliQuiet, C!NoClientStream
  <2> QED
    BY <1>0, <1>1, <1>2, <1>3, <2>1, <2>2, <2>3, <2>4, <2>5 DEF CliWord, CliFacts, Heard
<1>8. CliCounts(e, t)
  <2>1. CliPauses'
    BY <1>0, <1>2, <1>3, SMTT(40) DEF CliPauses, CliFacts
  <2> DEFINE credit == cli.sendCredit
             m == Len(loc.inq)
             n == Len(loc'.inq)
  <2>2. cli'.sendCredit + serviceSaid' - Len(loc'.inq) >= Window
    <3>1. /\ credit \in Int /\ m \in Int /\ n \in Int /\ n <= m
          /\ serviceSaid \in Int /\ Window \in Int
          /\ credit + serviceSaid - m >= Window
      BY <1>0, <1>3 DEF CliFacts
    <3> HIDE DEF credit, m, n
    <3>2. credit + serviceSaid - n >= Window
      BY ONLY <3>1
    <3> QED
      BY <1>1, <1>2, <3>2 DEF credit, n
  <2>3. CliHolds'
    <3>1. cli'.rewriteHost = cli.rewriteHost
      BY <1>2 DEF CliStill
    <3> QED
      BY <1>0, <1>2, <1>3, <3>1, CliStillHolds
  <2> DEFINE u == cli.recvUnacked
             d == DataIn(t)
             a == AcksIn(t)
             same == ~cli'.finished /\ ~(cli'.dial = "none" /\ t # <<>>)
  <2>4. /\ credit \in Int /\ u \in Int /\ d \in Nat /\ a \in Nat
        /\ same => d = 0 /\ a = 0
    BY <1>0, <1>4, <1>5 DEF CliFacts
  <2>5. cli'.sendCredit = credit /\ cli'.recvUnacked = u
    BY <1>2
  <2> HIDE DEF credit, u, d, a, same
  <2>6. /\ credit + 0 <= credit + a /\ u + 0 <= u + d
        /\ same => credit + 0 = credit + a /\ u + 0 = u + d
    BY ONLY <2>4
  <2> QED
    BY <2>1, <2>2, <2>3, <2>5, <2>6 DEF CliCounts, credit, u, d, a, same
<1>9. QueuedBytes' = QueuedBytes
  BY <1>2 DEF CliStill, QueuedBytes
<1>10. CliBytes(e, t)
  BY <1>1, <1>8, <1>9, CliCountsAll DEF CliTurn, CliQuiet
<1> QED
  BY <1>6, <1>7, <1>10 DEF CliLaw

\* Nothing done is quiet.
LEMMA CliTurnQuiet ==
  ASSUME IInv
  PROVE  /\ CliQuiet(C!Turn) /\ C!Turn.sent = <<>>
         /\ C!Turn.st = cli
<1>0. CliFacts
  BY CliKnown
<1>1. /\ C!Turn \in CliTurn
      /\ C!Turn.st = cli /\ C!Turn.sock = loc /\ C!Turn.sent = <<>>
  BY <1>0, CliTurnStarts DEF CliFacts
<1>2. Len(loc.inq) <= Len(loc.inq)
  BY <1>0 DEF CliFacts
<1> QED
  BY <1>1, <1>2 DEF CliQuiet

\* A quiet turn that then ends the stream is quiet.
LEMMA CliEndedQuiet ==
  ASSUME IInv, cli.dial # "none", NEW h, CliQuiet(h), NEW r \in CliTurn,
         r.st = [h.st EXCEPT !.finished = TRUE],
         \/ cli.connected /\ r.sock = DestroySocket(h.sock)
         \/ r.sock = h.sock
  PROVE  CliQuiet(r) /\ r.st.finished
<1>1. h.st \in CliType /\ h.sock \in Socket(Bytes)
  BY DEF CliQuiet, CliTurn
<1>2. /\ r.st.dial = h.st.dial /\ r.st.connected = h.st.connected
      /\ r.st.queued = h.st.queued /\ r.st.queuedEof = h.st.queuedEof
      /\ r.st.rewriteHost = h.st.rewriteHost
      /\ r.st.headDone = h.st.headDone /\ r.st.headBuf = h.st.headBuf
      /\ r.st.finished
      /\ r.st.sentEof = h.st.sentEof /\ r.st.receivedEof = h.st.receivedEof
      /\ r.st.sendCredit = h.st.sendCredit /\ r.st.recvUnacked = h.st.recvUnacked
      /\ r.st.pausedForCredit = h.st.pausedForCredit
  BY <1>1 DEF CliType
<1>3. /\ r.sock.readEnded = loc.readEnded
      /\ Len(r.sock.inq) <= Len(loc.inq)
      /\ r.sock.out = <<>> \/ r.sock.out = loc.out
      /\ r.sock.flowing => h.sock.flowing
      /\ ~cli.connected => r.sock = h.sock
  <2>1. CASE cli.connected /\ r.sock = DestroySocket(h.sock)
    <3> DEFINE s == DestroySocket(h.sock)
    <3>1. s \in Socket(Bytes) /\ Shrunk(s, h.sock) /\ s.out = <<>>
      BY <1>1, SocketDestroyed
    <3> HIDE DEF s
    <3>2. Len(s.inq) \in Nat /\ Len(h.sock.inq) \in Nat /\ Len(loc.inq) \in Nat
      BY <1>1, <3>1, SocketTyped, CliKnown DEF CliFacts
    <3>3. Len(s.inq) <= Len(h.sock.inq) /\ Len(h.sock.inq) <= Len(loc.inq)
      BY <3>1 DEF Shrunk, CliQuiet
    <3>4. Len(s.inq) <= Len(loc.inq)
      BY ONLY <3>2, <3>3
    <3>5. r.sock = s
      BY <2>1 DEF s
    <3> QED
      BY <2>1, <3>1, <3>4, <3>5 DEF Shrunk, CliQuiet
  <2>2. CASE r.sock = h.sock
    BY <2>2 DEF CliQuiet
  <2> QED
    BY <2>1, <2>2
<1> QED
  BY <1>2, <1>3 DEF CliQuiet

\* 'error' at the agent obeys the law.
LEMMA LocalErrorLaw ==
  ASSUME IInv, C!LocalError, UNCHANGED <<sVars, outsideVars>>
  PROVE  \E e, t : CliLaw(e, t)
<1>0. CliFacts
  BY CliKnown
<1> DEFINE s == [loc EXCEPT !.error = FALSE]
           h == [C!Turn EXCEPT !.sock = s]
           r == C!Destroy(h, "local_error")
           e == r.sent
<1>1. /\ cli.connected
      /\ UNCHANGED <<sVars, linkUp, toAgent, cliClosed, serviceSaid, visitorSaid,
                     cliCongested, congestions>>
  BY DEF C!LocalError, outsideVars
<1>2. C!Commit(r)
  <2>1. [C!Turn EXCEPT !.sock.error = FALSE] = h
    BY DEF C!Turn
  <2> QED
    BY <2>1 DEF C!LocalError
<1>3. s \in Socket(Bytes) /\ Shrunk(s, loc) /\ s.out = loc.out
  BY <1>0, SocketEvents DEF CliFacts
<1> HIDE DEF s
<1>4. h \in CliTurn /\ h.st = cli /\ h.sock = s /\ h.sent = <<>>
  BY <1>3, CliTurnStarts
<1> HIDE DEF h
<1>5. /\ cli.finished => r = h
      /\ ~cli.finished =>
            /\ r \in CliTurn
            /\ r.st = [cli EXCEPT !.finished = TRUE]
            /\ r.sock = DestroySocket(s)
            /\ r.sent = Append(<<>>, ResetFrame)
  <2> DEFINE why == "local_error"
  <2>1. why # "peer_reset"
    OBVIOUS
  <2> HIDE DEF why
  <2>2. SUFFICES LET q == C!Destroy(h, why)
                 IN  /\ cli.finished => q = h
                     /\ ~cli.finished =>
                           /\ q \in CliTurn
                           /\ q.st = [cli EXCEPT !.finished = TRUE]
                           /\ q.sock = DestroySocket(s)
                           /\ q.sent = Append(<<>>, ResetFrame)
    BY DEF why
  <2> DEFINE q == C!Destroy(h, why)
  <2>3. /\ h.st.finished => q = h
        /\ ~h.st.finished =>
              /\ q \in CliTurn
              /\ q.st = [h.st EXCEPT !.finished = TRUE]
              /\ \/ h.st.connected /\ q.sock = DestroySocket(h.sock)
                 \/ ~h.st.connected /\ q.sock = h.sock
              /\ q.sent = IF why = "peer_reset" THEN h.sent
                          ELSE Append(h.sent, ResetFrame)
    BY <1>4, CliDestroy
  <2> HIDE DEF q
  <2>4. cli.connected
    BY <1>1
  <2>5. /\ cli.finished => q = h
        /\ ~cli.finished =>
              /\ q \in CliTurn
              /\ q.st = [cli EXCEPT !.finished = TRUE]
              /\ q.sock = DestroySocket(s)
              /\ q.sent = Append(<<>>, ResetFrame)
    BY ONLY <1>4, <2>1, <2>3, <2>4
  <2> QED
    BY <2>5 DEF q
<1>6. CliQuiet(h)
  BY <1>0, <1>1, <1>3, <1>4 DEF CliQuiet, Shrunk, CliFacts
<1> HIDE DEF r
<1>7. CliQuiet(r)
  <2>1. CASE cli.finished
    BY <1>5, <1>6, <2>1
  <2>2. CASE ~cli.finished
    BY <1>0, <1>1, <1>4, <1>5, <1>6, <2>2, CliEndedQuiet DEF CliFacts
  <2> QED
    BY <2>1, <2>2
<1>8. CliCommitted(r, <<>>)
  BY <1>1, <1>2, <1>7, CliCallback DEF IInv, Types, CliQuiet
<1>9. /\ e \in Seq(WireFrame) /\ Orderly(e) /\ DataIn(e) = 0 /\ AcksIn(e) = 0
      /\ \/ TypesIn(e) = {} /\ cli.finished /\ r.st.finished
         \/ TypesIn(e) = {"RESET"} /\ r.st.finished
  <2>1. CASE cli.finished
    BY <1>4, <1>5, <2>1, FewFrames
  <2>2. CASE ~cli.finished
    <3>1. e = Append(<<>>, ResetFrame) /\ r.st.finished
      BY <1>0, <1>5, <2>2 DEF CliFacts, CliType
    <3> HIDE DEF e
    <3> QED
      BY <3>1, FramesTyped, OneSent
  <2> QED
    BY <2>1, <2>2
<1>10. TypesIn(<<>>) = {}
  BY EmptySeen
<1> HIDE DEF e
<1>11. CliLaw(e, <<>>)
  BY <1>1, <1>7, <1>8, <1>9, <1>10, CliQuietLaw DEF e
<1> QED
  BY <1>11

\* 'close' at the agent obeys the law.
LEMMA LocalCloseLaw ==
  ASSUME IInv, C!LocalClose, UNCHANGED <<sVars, outsideVars>>
  PROVE  \E e, t : CliLaw(e, t)
<1>0. CliFacts
  BY CliKnown
<1> DEFINE h == C!Turn
           q == C!Finish(h)
           s == DestroySocket(q.sock)
           r == [q EXCEPT !.sock = s]
           e == r.sent
<1>1. /\ cli.connected /\ loc.readEnded
      /\ UNCHANGED <<sVars, linkUp, toAgent, cliClosed, serviceSaid, visitorSaid,
                     cliCongested, congestions>>
  BY DEF C!LocalClose, C!CanEmitClose, outsideVars
<1>2. C!Commit(r)
  <2>1. [C!Finish(C!Turn) EXCEPT !.sock = C!DestroySocket(@)] = r
    BY SameOperators
  <2> QED
    BY <2>1 DEF C!LocalClose
<1>3. h \in CliTurn /\ h.st = cli /\ h.sock = loc /\ h.sent = <<>>
  BY <1>0, CliTurnStarts DEF CliFacts
<1> HIDE DEF h
<1>4. q \in CliTurn /\ q.st = [cli EXCEPT !.finished = TRUE] /\ q.sock = loc
      /\ q.sent = <<>>
  BY <1>3, CliFinish
<1> HIDE DEF q
<1>5. s \in Socket(Bytes) /\ Shrunk(s, loc) /\ s.out = <<>>
  BY <1>0, <1>4, SocketDestroyed DEF CliFacts
<1> HIDE DEF s
<1>6. r \in CliTurn /\ r.st = q.st /\ r.sock = s /\ r.sent = <<>>
  BY <1>4, <1>5, CliSock
<1> HIDE DEF r
<1>7. CliQuiet(r)
  <2>1. CliQuiet(h)
    BY CliTurnQuiet DEF h
  <2>2. r.st = [h.st EXCEPT !.finished = TRUE] /\ r.sock = DestroySocket(h.sock)
    BY <1>3, <1>4, <1>6 DEF s
  <2> QED
    BY <1>0, <1>1, <1>6, <2>1, <2>2, CliEndedQuiet DEF CliFacts
<1>8. CliCommitted(r, <<>>)
  BY <1>1, <1>2, <1>7, CliCallback DEF IInv, Types, CliQuiet
<1>9. /\ e = <<>> /\ Orderly(e) /\ DataIn(e) = 0 /\ AcksIn(e) = 0 /\ TypesIn(e) = {}
  BY <1>6, FewFrames
<1>10. cli.finished \/ cli.sentEof
  BY <1>0, <1>1 DEF CliFacts
<1>11. TypesIn(<<>>) = {}
  BY EmptySeen
<1> HIDE DEF e
<1>12. CliLaw(e, <<>>)
  BY <1>1, <1>7, <1>8, <1>9, <1>10, <1>11, CliQuietLaw DEF e
<1> QED
  BY <1>12

\* What setGlobalPause does to the agent's end moves no bytes.
LEMMA CliRepausedQuiet ==
  ASSUME IInv, cli.dial # "none", NEW r, CliRepaused(r, C!Turn)
  PROVE  CliQuiet(r) /\ r.sent = <<>> /\ r.st.finished = cli.finished
<1>0. CliFacts
  BY CliKnown
<1>1. /\ C!Turn.st = cli /\ C!Turn.sock = loc /\ C!Turn.sent = <<>>
  BY <1>0, CliTurnStarts DEF CliFacts
<1>2. /\ Pause(loc).out = loc.out /\ Pause(loc).inq = loc.inq
      /\ Pause(loc).readEnded = loc.readEnded /\ ~Pause(loc).flowing
      /\ Resume(loc).out = loc.out /\ Resume(loc).inq = loc.inq
      /\ Resume(loc).readEnded = loc.readEnded
  BY <1>0, PauseResume DEF CliFacts, Shrunk
<1>3. r \in CliTurn /\ r.sent = <<>>
  BY <1>1 DEF CliRepaused
<1>7. cli \in CliType
  BY <1>0 DEF CliFacts
<1>8. ~cli.connected => Pause(loc) = loc /\ ~cli.pausedForCredit
  <2>1. ~cli.connected => ~loc.flowing /\ ~cli.pausedForCredit
    BY DEF IInv, LifeOfAgent
  <2>2. loc \in Socket(Bytes)
    BY <1>0 DEF CliFacts
  <2>3. ~loc.flowing => Pause(loc) = loc
    BY <2>2 DEF Pause, Socket
  <2> QED
    BY <2>1, <2>3
<1>4. CASE r.st = cli /\ r.sock = loc
  <2>1. Len(loc.inq) <= Len(loc.inq)
    BY <1>0 DEF CliFacts
  <2> QED
    BY <1>3, <1>4, <2>1 DEF CliQuiet
<1>5. CASE /\ \/ r.st = [cli EXCEPT !.pausedGlobally = TRUE]
              \/ r.st = [cli EXCEPT !.pausedGlobally = FALSE]
           /\ r.sock = loc \/ r.sock = Pause(loc)
  <2>1. /\ r.st.dial = cli.dial /\ r.st.connected = cli.connected
        /\ r.st.queued = cli.queued /\ r.st.queuedEof = cli.queuedEof
        /\ r.st.rewriteHost = cli.rewriteHost
        /\ r.st.headDone = cli.headDone /\ r.st.headBuf = cli.headBuf
        /\ r.st.finished = cli.finished
        /\ r.st.sentEof = cli.sentEof /\ r.st.receivedEof = cli.receivedEof
        /\ r.st.sendCredit = cli.sendCredit /\ r.st.recvUnacked = cli.recvUnacked
        /\ r.st.pausedForCredit = cli.pausedForCredit
    BY <1>5, <1>7 DEF CliType
  <2>2. /\ r.sock.readEnded = loc.readEnded
        /\ r.sock.inq = loc.inq /\ r.sock.out = loc.out
        /\ r.sock.flowing => loc.flowing
    BY <1>2, <1>5
  <2>3. Len(r.sock.inq) <= Len(loc.inq)
    BY <1>0, <2>2 DEF CliFacts
  <2> QED
    BY <1>3, <1>5, <1>8, <2>1, <2>2, <2>3 DEF CliQuiet
<1>6. CASE /\ cli.sendCredit > 0 /\ cli.pausedForCredit
           /\ r.st = [cli EXCEPT !.pausedGlobally = FALSE, !.pausedForCredit = FALSE]
           /\ r.sock = Resume(loc)
  <2>1. /\ r.st.dial = cli.dial /\ r.st.connected = cli.connected
        /\ r.st.queued = cli.queued /\ r.st.queuedEof = cli.queuedEof
        /\ r.st.rewriteHost = cli.rewriteHost
        /\ r.st.headDone = cli.headDone /\ r.st.headBuf = cli.headBuf
        /\ r.st.finished = cli.finished
        /\ r.st.sentEof = cli.sentEof /\ r.st.receivedEof = cli.receivedEof
        /\ r.st.sendCredit = cli.sendCredit /\ r.st.recvUnacked = cli.recvUnacked
        /\ ~r.st.pausedForCredit
    BY <1>6, <1>7 DEF CliType
  <2>2. /\ r.sock.readEnded = loc.readEnded
        /\ r.sock.inq = loc.inq /\ r.sock.out = loc.out
    BY <1>2, <1>6
  <2>3. Len(r.sock.inq) <= Len(loc.inq)
    BY <1>0, <2>2 DEF CliFacts
  <2> QED
    BY <1>3, <1>6, <1>8, <2>1, <2>2, <2>3 DEF CliQuiet
<1> QED
  BY <1>1, <1>4, <1>5, <1>6 DEF CliRepaused

\* Congestion of the uplink, and its end, obey the law.
LEMMA UplinkLaw ==
  ASSUME IInv,
         \/ C!ClearUplink /\ UNCHANGED <<sVars, outsideVars>>
         \/ AgentCongests
  PROVE  \E e, t : CliLaw(e, t)
<1>1. PICK paused \in BOOLEAN :
        C!Commit(IF C!InStreams THEN C!SetGlobalPause(C!Turn, paused) ELSE C!Turn)
  BY DEF C!ClearUplink, AgentCongests, C!CongestUplink
<1>2. /\ UNCHANGED <<sVars, linkUp, toAgent, cliClosed, serviceSaid, visitorSaid>>
      /\ cliCongested' \in BOOLEAN
  BY DEF C!ClearUplink, AgentCongests, C!CongestUplink, outsideVars
<1>3. congestions' \in [{"server", "agent"} -> 0..MaxCongestions]
  <2>1. congestions \in [{"server", "agent"} -> 0..MaxCongestions]
    BY DEF IInv, Types
  <2>2. CASE UNCHANGED congestions
    BY <2>1, <2>2
  <2>3. CASE AgentCongests
    BY <2>1, <2>3, BridgeAssumption, SMTT(40) DEF AgentCongests
  <2> QED
    BY <2>2, <2>3 DEF outsideVars
<1> DEFINE r == IF C!InStreams THEN C!SetGlobalPause(C!Turn, paused) ELSE C!Turn
           e == r.sent
<1>4. CliQuiet(r) /\ r.sent = <<>> /\ r.st.finished = cli.finished
  <2>1. CASE C!InStreams
    <3>1. C!Turn \in CliTurn
      BY CliTurnQuiet DEF CliQuiet
    <3> DEFINE q == C!SetGlobalPause(C!Turn, paused)
    <3>2. CliRepaused(q, C!Turn) /\ r = q
      BY <2>1, <3>1, CliGlobalPause
    <3> HIDE DEF q
    <3>3. CliQuiet(q) /\ q.sent = <<>> /\ q.st.finished = cli.finished
      BY <2>1, <3>2, CliRepausedQuiet DEF C!InStreams
    <3> QED
      BY <2>1, <3>2, <3>3 DEF C!InStreams
  <2>2. CASE ~C!InStreams
    BY <2>2, CliTurnQuiet
  <2> QED
    BY <2>1, <2>2
<1> HIDE DEF r
<1>5. C!Commit(r)
  BY <1>1 DEF r
<1>6. CliCommitted(r, <<>>)
  BY <1>2, <1>3, <1>4, <1>5, CliCallback DEF CliQuiet
<1>7. /\ e = <<>> /\ Orderly(e) /\ DataIn(e) = 0 /\ AcksIn(e) = 0 /\ TypesIn(e) = {}
      /\ TypesIn(<<>>) = {}
  BY <1>4, FewFrames
<1> HIDE DEF e
<1>8. CliLaw(e, <<>>)
  BY <1>4, <1>6, <1>7, CliQuietLaw DEF e
<1> QED
  BY <1>8

\* Once the link is gone a stream may end without a word.
LEMMA TeardownQuiet ==
  ASSUME IInv, NEW r, CliQuiet(r), r.sent = <<>>, cli' = r.st, loc' = r.sock,
         ~linkUp,
         UNCHANGED <<sVars, linkUp, toServer, toAgent, serviceSaid, visitorSaid,
                     congestions>>,
         cliClosed' \in BOOLEAN, cliCongested' \in BOOLEAN
  PROVE  \E e, t : CliLaw(e, t)
<1> DEFINE e == r.sent
<1>1. CliCommitted(r, <<>>)
  <2>1. /\ <<>> \in Seq(WireFrame) /\ toAgent \in Seq(WireFrame)
        /\ toAgent = <<>> \o toAgent
    BY Nothing DEF IInv, Types
  <2>2. congestions' \in [{"server", "agent"} -> 0..MaxCongestions]
    BY DEF IInv, Types
  <2> QED
    BY <2>1, <2>2 DEF CliCommitted, CliQuiet
<1>2. /\ e = <<>> /\ Orderly(e) /\ DataIn(e) = 0 /\ AcksIn(e) = 0 /\ TypesIn(e) = {}
      /\ TypesIn(<<>>) = {}
  BY FewFrames
<1> HIDE DEF e
<1>3. CliLaw(e, <<>>)
  BY <1>1, <1>2, CliQuietLaw DEF e
<1> QED
  BY <1>3

\* The session's teardown obeys the law.
LEMMA TeardownLaw ==
  ASSUME IInv, C!TeardownSession, UNCHANGED <<sVars, outsideVars>>
  PROVE  \E e, t : CliLaw(e, t)
<1>0. CliFacts
  BY CliKnown
<1> DEFINE cleared == IF cliCongested THEN C!SetGlobalPause(C!Turn, FALSE) ELSE C!Turn
           q == C!Destroy(cleared, "peer_reset")
           r == IF C!InStreams THEN q ELSE C!Turn
           e == r.sent
<1>1. /\ ~linkUp
      /\ UNCHANGED <<sVars, linkUp, toServer, toAgent, serviceSaid, visitorSaid,
                     congestions>>
      /\ cliClosed' \in BOOLEAN /\ cliCongested' \in BOOLEAN
  BY DEF C!TeardownSession, outsideVars
<1>2. cli' = r.st /\ loc' = r.sock
  BY DEF C!TeardownSession, C!Turn
<1>3. CASE ~C!InStreams
  <2>1. r = C!Turn
    BY <1>3
  <2>2. CliQuiet(r) /\ r.sent = <<>> /\ r.st = cli
    BY <2>1, CliTurnQuiet
  <2> HIDE DEF r
  <2>3. CliQuiet(r) /\ e = <<>>
    BY <2>2
  <2>4. r.st.finished => cli.finished \/ cli.sentEof \/ ~linkUp
    BY <1>1
  <2> QED
    BY <1>1, <1>2, <2>3, TeardownQuiet
<1>4. CASE C!InStreams
  <2>1. cli.dial # "none" /\ ~cli.finished
    BY <1>4 DEF C!InStreams
  <2>2. CliQuiet(cleared) /\ cleared.sent = <<>> /\ cleared.st.finished = cli.finished
    <3>1. CASE cliCongested
      <4> DEFINE c == C!SetGlobalPause(C!Turn, FALSE)
      <4>1. C!Turn \in CliTurn
        BY CliTurnQuiet DEF CliQuiet
      <4>2. CliRepaused(c, C!Turn) /\ cleared = c
        BY <3>1, <4>1, CliGlobalPause
      <4> HIDE DEF c
      <4>3. CliQuiet(c) /\ c.sent = <<>> /\ c.st.finished = cli.finished
        BY <2>1, <4>2, CliRepausedQuiet
      <4> QED
        BY <4>2, <4>3
    <3>2. CASE ~cliCongested
      BY <3>2, CliTurnQuiet
    <3> QED
      BY <3>1, <3>2
  <2> HIDE DEF cleared
  <2>3. /\ cleared \in CliTurn /\ ~cleared.st.finished
        /\ cleared.st.connected = cli.connected
    BY <2>1, <2>2 DEF CliQuiet
  <2>4. /\ q \in CliTurn
        /\ q.st = [cleared.st EXCEPT !.finished = TRUE]
        /\ \/ cleared.st.connected /\ q.sock = DestroySocket(cleared.sock)
           \/ ~cleared.st.connected /\ q.sock = cleared.sock
        /\ q.sent = cleared.sent
    <3> DEFINE why == "peer_reset"
               p == C!Destroy(cleared, why)
    <3>1. why = "peer_reset" /\ p = q
      OBVIOUS
    <3> HIDE DEF why
    <3>2. /\ p \in CliTurn
          /\ p.st = [cleared.st EXCEPT !.finished = TRUE]
          /\ \/ cleared.st.connected /\ p.sock = DestroySocket(cleared.sock)
             \/ ~cleared.st.connected /\ p.sock = cleared.sock
          /\ p.sent = IF why = "peer_reset" THEN cleared.sent
                      ELSE Append(cleared.sent, ResetFrame)
      BY <2>3, CliDestroy
    <3> HIDE DEF p, q
    <3> QED
      BY <3>1, <3>2
  <2>5. r = q
    BY <1>4
  <2> HIDE DEF q, r
  <2>6. CliQuiet(r) /\ e = <<>>
    BY <2>1, <2>2, <2>3, <2>4, <2>5, CliEndedQuiet
  <2> QED
    BY <1>1, <1>2, <2>6, TeardownQuiet
<1> QED
  BY <1>3, <1>4

\* The frame a receive takes is the first of the queue.
LEMMA CliTaken ==
  ASSUME IInv, C!ClientReceive, UNCHANGED <<sVars, outsideVars>>
  PROVE  LET f == Head(toAgent)
         IN  /\ f \in WireFrame /\ f.type \in TypesIn(toAgent)
             /\ f.type = "OPEN" => cli.dial = "none"
             /\ <<f>> # <<>> /\ TypesIn(<<f>>) = {f.type}
             /\ DataIn(<<f>>) = DataOf(f) /\ AcksIn(<<f>>) = AckOf(f)
             /\ \E known \in BOOLEAN : C!Commit(C!HandleFrame(f, known))
             /\ \A r : r \in CliTurn /\ C!Commit(r) => CliCommitted(r, <<f>>)
<1>1. Types /\ LifeOfServer /\ Chan
  BY DEF IInv
<1>2. /\ toAgent \in Seq(WireFrame) /\ toAgent # <<>>
      /\ toAgent' = Tail(toAgent)
      /\ \E known \in BOOLEAN : C!Commit(C!HandleFrame(Head(toAgent), known))
      /\ UNCHANGED <<sVars, linkUp, cliClosed, serviceSaid, visitorSaid,
                     cliCongested, congestions>>
  BY <1>1, BridgeAssumption DEF C!ClientReceive, Types, outsideVars
<1> DEFINE c == toAgent
           f == Head(c)
           rest == Tail(c)
<1>3. c \in Seq(WireFrame) /\ c # <<>>
  BY <1>2
<1> HIDE DEF c
<1>4. /\ f \in WireFrame /\ rest \in Seq(WireFrame)
      /\ c = <<f>> \o rest /\ <<f>> \in Seq(WireFrame)
      /\ TypesIn(<<f>>) = {f.type}
      /\ DataIn(<<f>>) = DataOf(f) /\ AcksIn(<<f>>) = AckOf(f)
      /\ f.type \in TypesIn(c)
  BY <1>3, FirstTaken
<1> HIDE DEF f, rest
<1>5. f.type = "OPEN" => cli.dial = "none"
  BY <1>1, <1>4 DEF Chan, c
<1>6. ASSUME NEW r, r \in CliTurn, C!Commit(r)
      PROVE  CliCommitted(r, <<f>>)
  <2>1. toServer' = IF linkUp THEN toServer \o r.sent ELSE toServer
    BY <1>1, <1>6 DEF C!Commit, LifeOfServer
  <2>2. toAgent' = rest /\ toAgent = <<f>> \o rest
    BY <1>2, <1>4 DEF c, rest
  <2> QED
    BY <1>1, <1>2, <1>4, <1>6, <2>1, <2>2 DEF C!Commit, CliCommitted, LifeOfServer, Types
<1>7. \E known \in BOOLEAN : C!Commit(C!HandleFrame(f, known))
  BY <1>2 DEF f, c
<1>8. <<f>> # <<>>
  OBVIOUS
<1>9. /\ f \in WireFrame /\ f.type \in TypesIn(toAgent)
      /\ f.type = "OPEN" => cli.dial = "none"
      /\ <<f>> # <<>> /\ TypesIn(<<f>>) = {f.type}
      /\ DataIn(<<f>>) = DataOf(f) /\ AcksIn(<<f>>) = AckOf(f)
      /\ \E known \in BOOLEAN : C!Commit(C!HandleFrame(f, known))
      /\ \A r : r \in CliTurn /\ C!Commit(r) => CliCommitted(r, <<f>>)
  BY <1>4, <1>5, <1>6, <1>7, <1>8 DEF c
<1> QED
  BY <1>9 DEF f, c

\* Nothing, or one reset, is what the agent says of a stream it does not have.
LEMMA CliDeniedLaw ==
  ASSUME IInv, NEW r, NEW t, CliCommitted(r, t), CliQuiet(r),
         r.sent = <<>> \/ r.sent = Append(<<>>, ResetFrame),
         cli.finished \/ cli.dial = "none", t # <<>>, r.st = cli
  PROVE  \E e, u : CliLaw(e, u)
<1> DEFINE e == r.sent
<1>1. Orderly(e) /\ DataIn(e) = 0 /\ AcksIn(e) = 0 /\ TypesIn(e) \subseteq {"RESET"}
  <2>1. CASE r.sent = <<>>
    BY <2>1, FewFrames
  <2>2. CASE r.sent = Append(<<>>, ResetFrame)
    <3>1. e = Append(<<>>, ResetFrame)
      BY <2>2
    <3> HIDE DEF e
    <3> QED
      BY <3>1, FramesTyped, OneSent
  <2> QED
    BY <2>1, <2>2
<1>2. r.st.finished => cli.finished
  OBVIOUS
<1> HIDE DEF e
<1>3. CliLaw(e, t)
  BY <1>1, <1>2, CliQuietLaw DEF e
<1> QED
  BY <1>3

\* A frame for a stream the agent has forgotten, or refused.
LEMMA CliStrayLaw ==
  ASSUME IInv, C!ClientReceive, UNCHANGED <<sVars, outsideVars>>, ~C!InStreams,
         Head(toAgent).type # "OPEN"
  PROVE  \E e, t : CliLaw(e, t)
<1> DEFINE f == Head(toAgent)
           h == C!Turn
           r == IF f.type = "RESET" THEN h ELSE C!Send(h, ResetFrame)
           t == <<f>>
<1>1. PICK known \in BOOLEAN : C!Commit(C!HandleFrame(f, known))
  BY CliTaken
<1>2. /\ t # <<>>
      /\ \A q : q \in CliTurn /\ C!Commit(q) => CliCommitted(q, t)
  BY CliTaken
<1>3. C!HandleFrame(f, known) = r
  BY SameOperators DEF C!HandleFrame
<1> HIDE DEF f, t
<1>4. CliQuiet(h) /\ h.sent = <<>> /\ h.st = cli
  BY CliTurnQuiet
<1> HIDE DEF h
<1>5. cli.finished \/ cli.dial = "none"
  BY DEF C!InStreams
<1>6. /\ C!Send(h, ResetFrame) \in CliTurn /\ C!Send(h, ResetFrame).st = h.st
      /\ C!Send(h, ResetFrame).sock = h.sock
      /\ C!Send(h, ResetFrame).sent = Append(<<>>, ResetFrame)
  <2>1. ResetFrame \in WireFrame /\ h \in CliTurn
    BY <1>4, FramesTyped DEF CliQuiet
  <2> QED
    BY <1>4, <2>1, CliSend
<1>7. CliQuiet(r) /\ r.st = cli
  BY <1>4, <1>6 DEF CliQuiet
<1>8. r.sent = <<>> \/ r.sent = Append(<<>>, ResetFrame)
  BY <1>4, <1>6
<1> HIDE DEF r
<1>9. CliCommitted(r, t)
  BY <1>1, <1>2, <1>3, <1>7 DEF CliQuiet
<1> QED
  BY <1>2, <1>5, <1>7, <1>8, <1>9, CliDeniedLaw

\* STREAM_RESET at the agent obeys the law.
LEMMA CliResetLaw ==
  ASSUME IInv, C!ClientReceive, UNCHANGED <<sVars, outsideVars>>, C!InStreams,
         Head(toAgent).type = "RESET"
  PROVE  \E e, t : CliLaw(e, t)
<1> DEFINE f == Head(toAgent)
           h == C!Turn
           r == C!Destroy(h, "peer_reset")
           e == r.sent
           t == <<f>>
<1>1. PICK known \in BOOLEAN : C!Commit(C!HandleFrame(f, known))
  BY CliTaken
<1>2. /\ TypesIn(t) = {"RESET"}
      /\ \A q : q \in CliTurn /\ C!Commit(q) => CliCommitted(q, t)
  BY CliTaken
<1>3. C!HandleFrame(f, known) = r
  BY DEF C!HandleFrame
<1> HIDE DEF f, t
<1>4. CliQuiet(h) /\ h \in CliTurn /\ h.sent = <<>> /\ h.st = cli
  BY CliTurnQuiet DEF CliQuiet
<1> HIDE DEF h
<1>5. cli.dial # "none" /\ ~cli.finished
  BY DEF C!InStreams
<1>6. /\ r \in CliTurn /\ r.st = [h.st EXCEPT !.finished = TRUE]
      /\ \/ h.st.connected /\ r.sock = DestroySocket(h.sock)
         \/ ~h.st.connected /\ r.sock = h.sock
      /\ r.sent = <<>>
  <2> DEFINE why == "peer_reset"
             p == C!Destroy(h, why)
  <2>1. why = "peer_reset" /\ p = r
    OBVIOUS
  <2> HIDE DEF why
  <2>2. /\ p \in CliTurn
        /\ p.st = [h.st EXCEPT !.finished = TRUE]
        /\ \/ h.st.connected /\ p.sock = DestroySocket(h.sock)
           \/ ~h.st.connected /\ p.sock = h.sock
        /\ p.sent = IF why = "peer_reset" THEN h.sent
                    ELSE Append(h.sent, ResetFrame)
    BY <1>4, <1>5, CliDestroy
  <2> HIDE DEF p, r
  <2> QED
    BY <1>4, <2>1, <2>2
<1> HIDE DEF r
<1>7. CliQuiet(r) /\ r.st.finished
  BY <1>4, <1>5, <1>6, CliEndedQuiet
<1>8. CliCommitted(r, t)
  BY <1>1, <1>2, <1>3, <1>6
<1>9. /\ e = <<>> /\ Orderly(e) /\ DataIn(e) = 0 /\ AcksIn(e) = 0 /\ TypesIn(e) = {}
  BY <1>6, FewFrames
<1> HIDE DEF e
<1>10. CliLaw(e, t)
  BY <1>2, <1>7, <1>8, <1>9, CliQuietLaw DEF e
<1> QED
  BY <1>10

\* The stream exists from here on, whether or not the uplink is congested.
LEMMA CliOpenLaw ==
  ASSUME IInv, C!ClientReceive, UNCHANGED <<sVars, outsideVars>>,
         Head(toAgent).type = "OPEN"
  PROVE  \E e, t : CliLaw(e, t)
<1> DEFINE f == Head(toAgent)
           h == C!Turn
           t == <<f>>
<1>1. PICK known \in BOOLEAN : C!Commit(C!HandleFrame(f, known))
  BY CliTaken
<1> DEFINE r == C!OnStreamOpen(h, known)
           e == r.sent
           dial == [h EXCEPT !.st.dial = "pending"]
<1>2. /\ f \in WireFrame /\ t # <<>> /\ TypesIn(t) = {"OPEN"} /\ cli.dial = "none"
      /\ DataIn(t) = 0 /\ AcksIn(t) = 0
      /\ \A q : q \in CliTurn /\ C!Commit(q) => CliCommitted(q, t)
  BY CliTaken DEF DataOf, AckOf
<1>3. C!HandleFrame(f, known) = r
  BY DEF C!HandleFrame
<1> HIDE DEF f, t
<1>4. CliQuiet(h) /\ h \in CliTurn /\ h.sent = <<>> /\ h.st = cli /\ h.sock = loc
  BY CliTurnQuiet, CliTurnStarts, CliKnown DEF CliQuiet, CliFacts
<1>5. \/ /\ r \in CliTurn /\ r.st = h.st /\ r.sock = h.sock
         /\ r.sent = Append(h.sent, ResetFrame)
      \/ /\ dial \in CliTurn
         /\ dial.st = [h.st EXCEPT !.dial = "pending"]
         /\ dial.sock = h.sock /\ dial.sent = h.sent
         /\ r = dial \/ CliRepaused(r, dial)
  <2> HIDE DEF h
  <2> QED
    BY <1>4, CliOnStreamOpen
<1> HIDE DEF h, r, dial
<1>6. CASE /\ r \in CliTurn /\ r.st = h.st /\ r.sock = h.sock
           /\ r.sent = Append(h.sent, ResetFrame)
  <2>1. CliQuiet(r) /\ r.st = cli /\ r.sent = Append(<<>>, ResetFrame)
    BY <1>4, <1>6 DEF CliQuiet
  <2>2. CliCommitted(r, t)
    BY <1>1, <1>2, <1>3, <1>6
  <2> QED
    BY <1>2, <2>1, <2>2, CliDeniedLaw
<1>7. CASE /\ dial \in CliTurn
           /\ dial.st = [h.st EXCEPT !.dial = "pending"]
           /\ dial.sock = h.sock /\ dial.sent = h.sent
           /\ r = dial \/ CliRepaused(r, dial)
  <2>0. CliFacts
    BY CliKnown
  <2>1. /\ cli = C!NoClientStream(cli.rewriteHost) /\ loc = NewSocket
        /\ ~cli.connected /\ serviceSaid = 0
    BY <1>2 DEF IInv, LifeOfAgent
  <2>2. ~loc.flowing /\ Pause(loc) = loc
    <3>1. ~loc.flowing
      BY <2>1 DEF IInv, LifeOfAgent
    <3>2. loc \in Socket(Bytes)
      BY <2>0 DEF CliFacts
    <3> QED
      BY <3>1, <3>2 DEF Pause, Socket
  <2>3. cli \in CliType /\ ~cli.pausedForCredit
    BY <2>0, <2>1 DEF CliFacts, C!NoClientStream
  <2>4. dial.st = [cli EXCEPT !.dial = "pending"] /\ dial.sock = loc /\ dial.sent = <<>>
    BY <1>4, <1>7
  <2>5. ~dial.st.pausedForCredit
    BY <2>3, <2>4 DEF CliType
  <2>6. /\ r \in CliTurn /\ r.sent = <<>> /\ r.sock = loc
        /\ \/ r.st = [cli EXCEPT !.dial = "pending"]
           \/ r.st = [[cli EXCEPT !.dial = "pending"] EXCEPT !.pausedGlobally = TRUE]
           \/ r.st = [[cli EXCEPT !.dial = "pending"] EXCEPT !.pausedGlobally = FALSE]
    BY <1>7, <2>2, <2>4, <2>5 DEF CliRepaused
  <2>7. /\ r.st.dial = "pending" /\ r.st.connected = cli.connected
        /\ r.st.queued = cli.queued /\ r.st.queuedEof = cli.queuedEof
        /\ r.st.rewriteHost = cli.rewriteHost
        /\ r.st.headDone = cli.headDone /\ r.st.headBuf = cli.headBuf
        /\ r.st.finished = cli.finished
        /\ r.st.sentEof = cli.sentEof /\ r.st.receivedEof = cli.receivedEof
        /\ r.st.sendCredit = cli.sendCredit /\ r.st.recvUnacked = cli.recvUnacked
        /\ r.st.pausedForCredit = cli.pausedForCredit
    BY <2>3, <2>6 DEF CliType
  <2>8. CliCommitted(r, t)
    BY <1>1, <1>2, <1>3, <2>6
  <2>9. /\ e = <<>> /\ Orderly(e) /\ DataIn(e) = 0 /\ AcksIn(e) = 0 /\ TypesIn(e) = {}
    BY <2>6, FewFrames
  <2>10. CliWire(e, t)
    BY <2>8, <2>9, CliWired
  <2> HIDE DEF e
  <2>11. /\ cli' = r.st /\ loc' = loc /\ serviceSaid' = serviceSaid
    BY <2>6, <2>8 DEF CliCommitted
  <2>12. cli.finished = FALSE /\ cli.queuedEof = FALSE /\ cli.receivedEof = FALSE
    BY <2>1 DEF C!NoClientStream
  <2>13. LifeOfAgent'
    <3>1. LifeOfAgent
      BY DEF IInv
    <3> QED
      BY <2>1, <2>7, <2>11, <3>1 DEF LifeOfAgent
  <2>14. CliWord(e, t)
    BY <1>2, <2>0, <2>7, <2>9, <2>11, <2>12, <2>13 DEF CliWord, CliFacts, Heard
  <2>15. CliCounts(e, t)
    <3>1. CliHolds'
      BY <2>0, <2>7, <2>11, CliStillHolds DEF CliFacts
    <3>2. CliPauses'
      BY <2>0, <2>7, <2>11 DEF CliPauses, CliFacts
    <3>3. /\ cli.sendCredit \in Int /\ cli.recvUnacked \in Int
          /\ cli.sendCredit + serviceSaid - Len(loc.inq) >= Window
      BY <2>0 DEF CliFacts
    <3>4. /\ cli'.sendCredit = cli.sendCredit /\ cli'.recvUnacked = cli.recvUnacked
          /\ cli'.sendCredit + serviceSaid' - Len(loc'.inq) >= Window
      BY <2>7, <2>11, <3>3
    <3> QED
      BY <1>2, <2>9, <3>1, <3>2, <3>3, <3>4 DEF CliCounts
  <2>16. QueuedBytes' = QueuedBytes
    BY <2>7, <2>11 DEF QueuedBytes
  <2>17. e \in Seq(WireFrame) /\ t \in Seq(WireFrame) /\ cli' \in CliType
    BY <2>10 DEF CliWire
  <2>18. CliLaw(e, t)
    BY <2>10, <2>14, <2>15, <2>16, <2>17, CliCountsAll DEF CliLaw
  <2> QED
    BY <2>18
<1> QED
  BY <1>5, <1>6, <1>7

\* What an end holds unacknowledged is at most a window and a chunk.
LEMMA Unacknowledged ==
  ASSUME IInv
  PROVE  /\ QueuedBytes + cli.recvUnacked <= WindowAndChunk
         /\ cli.recvUnacked <= WindowAndChunk
         /\ srv.recvUnacked <= WindowAndChunk
<1>1. Types /\ Flow /\ SrvPauses /\ CliPauses
  BY DEF IInv
<1>2. /\ DataIn(toAgent) \in Nat /\ AcksIn(toAgent) \in Nat
      /\ DataIn(toServer) \in Nat /\ AcksIn(toServer) \in Nat
  BY <1>1, CountsBounded DEF Types, WireFrame
<1>3. /\ srv.sendCredit \in Int /\ srv.recvUnacked \in Nat
      /\ MaxChunk \in Int /\ Window \in Int
  BY <1>1, RoomTyped DEF Types, SrvType
<1>4. cli.sendCredit \in Int /\ cli.recvUnacked \in Nat /\ QueuedBytes \in Nat
  BY CliKnown DEF CliFacts
<1> DEFINE a == DataIn(toAgent)
           b == AcksIn(toAgent)
           c == DataIn(toServer)
           d == AcksIn(toServer)
           q == QueuedBytes
           u == cli.recvUnacked
           v == srv.recvUnacked
           x == srv.sendCredit
           y == cli.sendCredit
<1>5. /\ x + a + q + u + d <= Window /\ x > -MaxChunk
      /\ y + c + v + b <= Window /\ y > -MaxChunk
  BY <1>1 DEF Flow, UpSum, DownSum, SrvPauses, CliPauses
<1>6. /\ a \in Nat /\ b \in Nat /\ c \in Nat /\ d \in Nat /\ q \in Nat
      /\ u \in Nat /\ v \in Nat /\ x \in Int /\ y \in Int
  BY <1>2, <1>3, <1>4
<1> HIDE DEF a, b, c, d, q, u, v, x, y
<1>7. /\ q + u <= Window + MaxChunk - 1 /\ u <= Window + MaxChunk - 1
      /\ v <= Window + MaxChunk - 1
  BY ONLY <1>3, <1>5, <1>6
<1> QED
  BY <1>7 DEF WindowAndChunk, q, u, v

\* A chunk queued counts for its length.
LEMMA QueuedMore ==
  ASSUME NEW q \in Seq(Seq(Bytes) \ {<<>>}), NEW d \in Seq(Bytes) \ {<<>>},
         NEW p, p = Append(q, d)
  PROVE  SumOf([i \in DOMAIN p |-> Len(p[i])])
           = SumOf([i \in DOMAIN q |-> Len(q[i])]) + Len(d)
<1> DEFINE n == Len(q)
           ns == [i \in DOMAIN q |-> Len(q[i])]
           ms == <<Len(d)>>
           all == [i \in DOMAIN p |-> Len(p[i])]
<1>1. /\ n \in Nat /\ DOMAIN q = 1..n
      /\ Len(p) = n + 1 /\ DOMAIN p = 1..(n + 1)
      /\ \A i \in 1..n : p[i] = q[i] /\ Len(q[i]) \in Int
      /\ p[n + 1] = d /\ Len(d) \in Int
  OBVIOUS
<1> HIDE DEF n
<1>2. ns \in Seq(Int) /\ Len(ns) = n /\ \A i \in 1..n : ns[i] = Len(q[i])
  <2>1. ns \in [1..n -> Int]
    BY <1>1
  <2>2. ns \in Seq(Int) /\ Len(ns) = n
    BY <1>1, <2>1
  <2> QED
    BY <1>1, <2>2
<1>3. /\ all \in Seq(Int) /\ Len(all) = n + 1
      /\ \A i \in 1..(n + 1) : all[i] = Len(p[i])
  <2>1. \A i \in 1..(n + 1) : Len(p[i]) \in Int
    <3>1. \A i \in 1..(n + 1) : i \in 1..n \/ i = n + 1
      BY <1>1
    <3> QED
      BY <1>1, <3>1
  <2>2. all \in [1..(n + 1) -> Int] /\ n + 1 \in Nat
    BY <1>1, <2>1
  <2>3. all \in Seq(Int) /\ Len(all) = n + 1
    BY <2>2
  <2> QED
    BY <1>1, <2>3
<1>4. ms \in Seq(Int) /\ Len(ms) = 1 /\ ms[1] = Len(d)
  BY <1>1
<1>5. \A i \in 1..Len(ns) : all[i] = ns[i]
  BY <1>1, <1>2, <1>3
<1>6. \A i \in 1..Len(ms) : all[Len(ns) + i] = ms[i]
  <2>1. \A i \in 1..1 : i = 1
    OBVIOUS
  <2>2. all[n + 1] = Len(d)
    BY <1>1, <1>3
  <2> QED
    BY <1>2, <1>4, <2>1, <2>2
<1>7. SumOf(ms) = Len(d)
  BY <1>1, SumOne
<1> HIDE DEF ns, ms, all
<1>8. SumOf(all) = SumOf(ns) + SumOf(ms)
  <2>1. /\ ns \in Seq(Int) /\ ms \in Seq(Int) /\ all \in Seq(Int)
        /\ Len(all) = Len(ns) + Len(ms)
    BY <1>2, <1>3, <1>4
  <2> QED
    BY ONLY <1>5, <1>6, <2>1, SumPieces
<1> QED
  BY <1>7, <1>8 DEF ns, all

\* A frame that is only noted, the dial being under way, or was noted before.
LEMMA CliHeldLaw ==
  ASSUME IInv, cli.dial # "none", ~cli.finished, NEW r, NEW t, CliCommitted(r, t),
         r.sent = <<>>, r.sock = loc,
         r.st.dial = cli.dial, r.st.connected = cli.connected,
         r.st.sendCredit = cli.sendCredit, r.st.recvUnacked = cli.recvUnacked,
         r.st.pausedForCredit = cli.pausedForCredit,
         r.st.sentEof = cli.sentEof, r.st.receivedEof = cli.receivedEof,
         r.st.finished = cli.finished, r.st.headBuf = cli.headBuf,
         r.st.headDone = cli.headDone, r.st.rewriteHost = cli.rewriteHost,
         TypesIn(t) \subseteq {"DATA", "EOF"}, AcksIn(t) = 0,
         QueuedBytes' = QueuedBytes + DataIn(t),
         Heard(r.st) <=> Heard(cli) \/ "EOF" \in TypesIn(t)
  PROVE  CliLaw(<<>>, t)
<1>0. CliFacts
  BY CliKnown
<1> DEFINE e == r.sent
<1>1. /\ e = <<>> /\ Orderly(e) /\ DataIn(e) = 0 /\ AcksIn(e) = 0 /\ TypesIn(e) = {}
  BY FewFrames
<1>2. CliWire(e, t)
  BY <1>1, CliWired
<1> HIDE DEF e
<1>3. cli' = r.st /\ loc' = loc /\ serviceSaid' = serviceSaid
  BY DEF CliCommitted
<1>4. /\ cli'.dial = cli.dial /\ cli'.connected = cli.connected
      /\ cli'.sendCredit = cli.sendCredit /\ cli'.recvUnacked = cli.recvUnacked
      /\ cli'.pausedForCredit = cli.pausedForCredit
      /\ cli'.sentEof = cli.sentEof /\ cli'.receivedEof = cli.receivedEof
      /\ cli'.finished = cli.finished /\ cli'.headBuf = cli.headBuf
      /\ cli'.headDone = cli.headDone /\ cli'.rewriteHost = cli.rewriteHost
      /\ Heard(cli') <=> Heard(cli) \/ "EOF" \in TypesIn(t)
  BY <1>3
<1>5. LifeOfAgent'
  <2>1. LifeOfAgent
    BY DEF IInv
  <2> QED
    BY <1>3, <1>4, <2>1 DEF LifeOfAgent
<1>6. CliWord(e, t)
  <2>1. /\ cli.sentEof \in BOOLEAN /\ cli.finished = FALSE
        /\ loc.readEnded => cli.sentEof \/ cli.finished
    BY <1>0 DEF CliFacts
  <2> QED
    BY <1>1, <1>3, <1>4, <1>5, <2>1 DEF CliWord
<1>7. CliBytes(e, t)
  <2>1. CliHolds'
    BY <1>0, <1>3, <1>4, CliStillHolds DEF CliFacts
  <2>2. CliPauses'
    BY <1>0, <1>3, <1>4 DEF CliPauses, CliFacts
  <2> DEFINE c == cli.sendCredit
             u == cli.recvUnacked
             q == QueuedBytes
             q2 == QueuedBytes'
             n == DataIn(t)
             m == Len(loc.inq)
  <2>3. /\ c \in Int /\ u \in Int /\ q \in Int /\ q2 = q + n
        /\ c + serviceSaid - m >= Window
    BY <1>0 DEF CliFacts
  <2>4. n \in Int
    BY <1>2, CountsBounded DEF CliWire, WireFrame
  <2>5. /\ cli'.sendCredit = c /\ cli'.recvUnacked = u
        /\ serviceSaid' = serviceSaid /\ Len(loc'.inq) = m
    BY <1>3, <1>4
  <2> HIDE DEF c, u, q, q2, n, m
  <2>6. /\ c + 0 = c + 0 /\ c + 0 <= c + 0
        /\ (q2 + u) + 0 = (q + u) + n /\ (q2 + u) + 0 <= (q + u) + n
    BY ONLY <2>3, <2>4
  <2> QED
    BY <1>1, <2>1, <2>2, <2>3, <2>5, <2>6
       DEF CliBytes, CliHolds, c, u, q, q2, n, m
<1> QED
  BY <1>1, <1>2, <1>6, <1>7 DEF CliLaw

\* STREAM_DATA at the agent obeys the law, dialled or still dialling.
LEMMA CliDataLaw ==
  ASSUME IInv, C!ClientReceive, UNCHANGED <<sVars, outsideVars>>, C!InStreams,
         Head(toAgent).type = "DATA"
  PROVE  \E e, t : CliLaw(e, t)
<1> DEFINE f == Head(toAgent)
           h == C!Turn
           d == f.data
           r == C!OnData(h, d)
           e == r.sent
           t == <<f>>
           n == Len(d)
           u == cli.recvUnacked
<1>0. CliFacts
  BY CliKnown
<1>1. PICK known \in BOOLEAN : C!Commit(C!HandleFrame(f, known))
  BY CliTaken
<1>2. /\ f \in WireFrame /\ t # <<>>
      /\ TypesIn(t) = {"DATA"} /\ DataIn(t) = DataOf(f) /\ AcksIn(t) = AckOf(f)
      /\ "DATA" \in TypesIn(toAgent)
      /\ \A q : q \in CliTurn /\ C!Commit(q) => CliCommitted(q, t)
  BY CliTaken
<1>3. C!HandleFrame(f, known) = r
  BY DEF C!HandleFrame
<1>4. /\ d \in Seq(Bytes) /\ d # <<>> /\ n \in Nat \ {0}
      /\ DataOf(f) = n /\ AckOf(f) = 0
  BY <1>2 DEF WireFrame, SomeFrame, DataOf, AckOf
<1>5. DataIn(t) = n /\ AcksIn(t) = 0
  BY <1>2, <1>4
<1>6. ~cli.finished /\ ~cli.receivedEof /\ ~cli.queuedEof /\ cli.dial # "none"
  BY <1>2 DEF IInv, Eof, C!InStreams
<1> HIDE DEF f, t, d
<1>7. h \in CliTurn /\ h.sent = <<>> /\ h.st = cli /\ h.sock = loc
  BY <1>0, CliTurnStarts DEF CliFacts
<1> HIDE DEF h
<1>8. HeadRule(h)
  BY <1>0, <1>6, <1>7 DEF HeadRule, CliFacts
<1>9. /\ r \in CliTurn
      /\ \/ /\ h.st.connected
            /\ SameStream(r.st, h.st)
            /\ Shrunk(r.sock, h.sock)
            /\ Counted(r, h, n)
            /\ HeadRule(r)
         \/ /\ ~h.st.connected
            /\ r.st = [h.st EXCEPT !.queued = Append(h.st.queued, d)]
            /\ r.sock = h.sock
            /\ r.sent = h.sent
  BY <1>4, <1>6, <1>7, <1>8, CliOnData
<1> HIDE DEF r
<1>10. CliCommitted(r, t)
  BY <1>1, <1>2, <1>3, <1>9
<1>11. cli' = r.st /\ loc' = r.sock /\ serviceSaid' = serviceSaid
  BY <1>10 DEF CliCommitted
<1>12. CASE /\ ~h.st.connected
            /\ r.st = [h.st EXCEPT !.queued = Append(h.st.queued, d)]
            /\ r.sock = h.sock
            /\ r.sent = h.sent
  <2>1. cli \in CliType
    BY <1>0 DEF CliFacts
  <2>2. r.st = [cli EXCEPT !.queued = Append(cli.queued, d)]
    BY <1>7, <1>12
  <2>3. /\ r.st.dial = cli.dial /\ r.st.connected = cli.connected
        /\ r.st.sendCredit = cli.sendCredit /\ r.st.recvUnacked = cli.recvUnacked
        /\ r.st.pausedForCredit = cli.pausedForCredit
        /\ r.st.sentEof = cli.sentEof /\ r.st.receivedEof = cli.receivedEof
        /\ r.st.finished = cli.finished /\ r.st.headBuf = cli.headBuf
        /\ r.st.headDone = cli.headDone /\ r.st.rewriteHost = cli.rewriteHost
        /\ r.st.queuedEof = cli.queuedEof
        /\ r.st.queued = Append(cli.queued, d)
        /\ cli.queued \in Seq(Seq(Bytes) \ {<<>>})
    BY <2>1, <2>2 DEF CliType
  <2> DEFINE p == cli'.queued
  <2>4. p = Append(cli.queued, d)
    BY <1>11, <2>3
  <2> HIDE DEF p
  <2>5. SumOf([i \in DOMAIN p |-> Len(p[i])])
           = SumOf([i \in DOMAIN cli.queued |-> Len(cli.queued[i])]) + n
    BY <1>4, <2>3, <2>4, QueuedMore, ZenonT(60)
  <2>6. QueuedBytes' = QueuedBytes + DataIn(t)
    BY <1>5, <2>5 DEF QueuedBytes, p
  <2>7. Heard(r.st) <=> Heard(cli) \/ "EOF" \in TypesIn(t)
    BY <1>2, <2>3 DEF Heard
  <2>8. CliLaw(<<>>, t)
    BY <1>2, <1>5, <1>6, <1>7, <1>10, <1>12, <2>3, <2>6, <2>7, CliHeldLaw
  <2> QED
    BY <2>8
<1>13. CASE /\ h.st.connected
            /\ SameStream(r.st, h.st)
            /\ Shrunk(r.sock, h.sock)
            /\ Counted(r, h, n)
            /\ HeadRule(r)
  <2>1. /\ cli.connected /\ CliStill
        /\ cli'.finished = cli.finished
        /\ cli'.sentEof = cli.sentEof /\ cli'.receivedEof = cli.receivedEof
        /\ cli'.sendCredit = cli.sendCredit
        /\ cli'.pausedForCredit = cli.pausedForCredit
    BY <1>7, <1>11, <1>13 DEF SameStream, CliStill
  <2>2. u \in Nat /\ u + n \in Nat \ {0}
    BY <1>0, <1>4 DEF CliFacts
  <2>3. Counted(r, h, n) /\ h.st.recvUnacked = u
    BY <1>7, <1>13
  <2> HIDE DEF u, n
  <2>4. /\ e \in Seq(WireFrame) /\ Orderly(e) /\ DataIn(e) = 0
        /\ TypesIn(e) \subseteq {"ACK"}
        /\ cli'.recvUnacked + AcksIn(e) = u + n
    <3>1. CASE r.st.recvUnacked = u + n /\ r.sent = <<>>
      BY <1>11, <2>2, <3>1, FewFrames
    <3>2. CASE r.st.recvUnacked = 0 /\ r.sent = Append(<<>>, AckFrame(u + n))
      <4> DEFINE g == AckFrame(u + n)
      <4>1. g \in WireFrame /\ g.type = "ACK" /\ DataOf(g) = 0 /\ AckOf(g) = u + n
        BY <2>2, FramesTyped
      <4>2. e = Append(<<>>, g)
        BY <3>2
      <4> HIDE DEF e, g
      <4>3. /\ e \in Seq(WireFrame) /\ Orderly(e) /\ DataIn(e) = 0
            /\ TypesIn(e) = {"ACK"} /\ AcksIn(e) = u + n
        BY <4>1, <4>2, OneSent
      <4>4. cli'.recvUnacked = 0
        BY <1>11, <3>2
      <4> QED
        BY <2>2, <4>3, <4>4
    <3> QED
      BY <1>7, <2>3, <3>1, <3>2 DEF Counted
  <2>5. /\ loc'.readEnded = loc.readEnded /\ (loc'.flowing => loc.flowing)
        /\ Len(loc'.inq) <= Len(loc.inq)
    BY <1>7, <1>11, <1>13 DEF Shrunk
  <2>6. CliWire(e, t)
    BY <1>10, <2>4, CliWired
  <2>7. /\ Len(loc'.inq) \in Nat /\ Len(loc'.out) \in Nat /\ loc'.out \in Seq(Bytes)
    BY <2>6, SocketTyped DEF CliWire
  <2> HIDE DEF e
  <2>8. CliWord(e, t)
    <3>1. LifeOfAgent' /\ cli'.dial = cli.dial /\ cli'.rewriteHost = cli.rewriteHost
          /\ cli'.queuedEof = cli.queuedEof
      BY <2>1, CliStillLives DEF CliStill
    <3>2. /\ cli.sentEof \in BOOLEAN /\ cli.finished = FALSE
          /\ loc.readEnded => cli.sentEof \/ cli.finished
      BY <1>0, <1>6 DEF CliFacts
    <3> QED
      BY <1>2, <1>6, <2>1, <2>4, <2>5, <3>1, <3>2 DEF CliWord, Heard
  <2>9. CliCounts(e, t)
    <3>1. CliPauses'
      BY <1>0, <2>1, <2>5 DEF CliPauses, CliFacts
    <3> DEFINE c == cli.sendCredit
               m == Len(loc.inq)
               k == Len(loc'.inq)
    <3>2. /\ c \in Int /\ m \in Int /\ k \in Int /\ k <= m /\ serviceSaid \in Int
          /\ Window \in Int /\ c + serviceSaid - m >= Window
      BY <1>0, <2>5, <2>7 DEF CliFacts
    <3>3. cli'.sendCredit = c
      BY <2>1
    <3> HIDE DEF c, m, k
    <3>4. c + serviceSaid - k >= Window /\ c + 0 = c + 0 /\ c + 0 <= c + 0
      BY ONLY <3>2
    <3>5. CliHolds'
      <4>1. HeadRule(r) /\ ~cli'.receivedEof
        BY <1>6, <1>13, <2>1
      <4>2. /\ HighWater \in Nat \ {0} /\ RoomFor(cli.rewriteHost) \in Nat
            /\ cli'.rewriteHost = cli.rewriteHost
        BY <1>0, <2>1 DEF CliFacts, CliStill
      <4>3. cli'.headDone \in BOOLEAN
        BY <2>6 DEF CliWire, CliType
      <4>4. loc'.out = <<>> => Len(loc'.out) = 0
        OBVIOUS
      <4>5. ~cli'.headDone =>
               Len(loc'.out) < cli'.recvUnacked + HighWater + RoomFor(cli'.rewriteHost)
        BY <1>11, <4>1, <4>2, <4>4 DEF HeadRule
      <4> QED
        BY <1>11, <4>1, <4>3, <4>5 DEF HeadRule, CliHolds
    <3>6. cli'.recvUnacked \in Int /\ AcksIn(e) \in Int
      BY <2>6, CountsBounded DEF CliWire, CliType, WireFrame
    <3>7. /\ cli'.recvUnacked + AcksIn(e) = u + n
          /\ cli'.recvUnacked + AcksIn(e) <= u + n
      BY <2>2, <2>4, <1>4, <3>6 DEF n
    <3> QED
      BY <1>5, <1>11, <2>4, <3>1, <3>3, <3>4, <3>5, <3>7 DEF CliCounts, c, k, u
  <2>10. CliLaw(e, t)
    BY <2>1, <2>6, <2>8, <2>9, CliLawStill
  <2> QED
    BY <2>10
<1> QED
  BY <1>9, <1>12, <1>13

\* STREAM_EOF at the agent obeys the law, dialled or still dialling.
LEMMA CliEofLaw ==
  ASSUME IInv, C!ClientReceive, UNCHANGED <<sVars, outsideVars>>, C!InStreams,
         Head(toAgent).type = "EOF"
  PROVE  \E e, t : CliLaw(e, t)
<1> DEFINE f == Head(toAgent)
           h == C!Turn
           r == C!OnEof(h)
           e == r.sent
           t == <<f>>
           u == cli.recvUnacked
<1>0. CliFacts
  BY CliKnown
<1>1. PICK known \in BOOLEAN : C!Commit(C!HandleFrame(f, known))
  BY CliTaken
<1>2. /\ f \in WireFrame /\ t # <<>>
      /\ TypesIn(t) = {"EOF"} /\ DataIn(t) = 0 /\ AcksIn(t) = 0
      /\ \A q : q \in CliTurn /\ C!Commit(q) => CliCommitted(q, t)
  BY CliTaken DEF DataOf, AckOf
<1>3. C!HandleFrame(f, known) = r
  BY DEF C!HandleFrame
<1>4. ~cli.finished /\ cli.dial # "none"
  BY DEF C!InStreams
<1> HIDE DEF f, t
<1>5. h \in CliTurn /\ h.sent = <<>> /\ h.st = cli /\ h.sock = loc
  BY <1>0, CliTurnStarts DEF CliFacts
<1> HIDE DEF h
<1>6. ~cli.receivedEof => HeadRule(h)
  BY <1>0, <1>5 DEF HeadRule, CliFacts
<1>7. /\ cli.receivedEof => r = h
      /\ ~cli.receivedEof =>
            \/ h.st.connected /\ Passed(r, h)
            \/ /\ ~h.st.connected
               /\ r \in CliTurn
               /\ r.st = [h.st EXCEPT !.queuedEof = TRUE]
               /\ r.sock = h.sock
               /\ r.sent = h.sent
  <2>1. CASE cli.receivedEof
    BY <1>5, <2>1 DEF C!OnEof
  <2>2. CASE ~cli.receivedEof
    BY <1>4, <1>5, <1>6, <2>2, CliOnEof
  <2> QED
    BY <2>1, <2>2
<1> HIDE DEF r
<1>8. r \in CliTurn
  BY <1>5, <1>7 DEF Passed
<1>9. CliCommitted(r, t)
  BY <1>1, <1>2, <1>3, <1>8
<1>10. cli' = r.st /\ loc' = r.sock /\ serviceSaid' = serviceSaid
  BY <1>9 DEF CliCommitted
<1>11. CASE cli.receivedEof \/ ~cli.connected
  <2>1. cli \in CliType
    BY <1>0 DEF CliFacts
  <2>2. /\ r.sent = <<>> /\ r.sock = loc
        /\ \/ r.st = cli /\ cli.receivedEof
           \/ r.st = [cli EXCEPT !.queuedEof = TRUE]
    BY <1>5, <1>7, <1>11
  <2>3. /\ r.st.dial = cli.dial /\ r.st.connected = cli.connected
        /\ r.st.sendCredit = cli.sendCredit /\ r.st.recvUnacked = cli.recvUnacked
        /\ r.st.pausedForCredit = cli.pausedForCredit
        /\ r.st.sentEof = cli.sentEof /\ r.st.receivedEof = cli.receivedEof
        /\ r.st.finished = cli.finished /\ r.st.headBuf = cli.headBuf
        /\ r.st.headDone = cli.headDone /\ r.st.rewriteHost = cli.rewriteHost
        /\ r.st.queued = cli.queued
        /\ cli.receivedEof \/ r.st.queuedEof
    BY <2>1, <2>2 DEF CliType
  <2>4. QueuedBytes \in Int
    BY <1>0 DEF CliFacts
  <2>5. QueuedBytes' = QueuedBytes
    BY <1>10, <2>3 DEF QueuedBytes
  <2>6. QueuedBytes' = QueuedBytes + DataIn(t)
    BY <1>2, <2>4, <2>5
  <2>7. Heard(r.st) <=> Heard(cli) \/ "EOF" \in TypesIn(t)
    BY <1>2, <2>3 DEF Heard
  <2>8. CliLaw(<<>>, t)
    BY <1>2, <1>4, <1>9, <2>2, <2>3, <2>6, <2>7, CliHeldLaw
  <2> QED
    BY <2>8
<1>12. CASE ~cli.receivedEof /\ cli.connected
  <2>1. Passed(r, h)
    BY <1>5, <1>7, <1>12
  <2>2. /\ CliStill
        /\ cli'.sentEof = cli.sentEof /\ cli'.receivedEof
        /\ cli'.finished = cli.sentEof
        /\ cli'.sendCredit = cli.sendCredit
        /\ cli'.pausedForCredit = cli.pausedForCredit
        /\ cli'.recvUnacked = 0
    BY <1>5, <1>10, <2>1 DEF Passed, CliStill
  <2>3. /\ loc'.readEnded = loc.readEnded /\ (loc'.flowing => loc.flowing)
        /\ Len(loc'.inq) <= Len(loc.inq)
        /\ Len(loc'.out) < u + HighWater + RoomFor(cli.rewriteHost)
        /\ cli'.headDone => cli'.headBuf = <<>>
        /\ ~cli'.headDone => /\ cli'.rewriteHost
                             /\ loc'.out = <<>>
                             /\ Len(cli'.headBuf) < MaxHead
        /\ r.sent = IF u = 0 THEN <<>> ELSE Append(<<>>, AckFrame(u))
    BY <1>5, <1>10, <2>1 DEF Passed, Shrunk
  <2>4. u \in Nat /\ u <= WindowAndChunk
    BY <1>0, Unacknowledged DEF CliFacts
  <2> HIDE DEF u
  <2>5. /\ e \in Seq(WireFrame) /\ Orderly(e) /\ DataIn(e) = 0
        /\ TypesIn(e) \subseteq {"ACK"} /\ AcksIn(e) = u
    <3>1. CASE u = 0
      BY <2>3, <3>1, FewFrames
    <3>2. CASE u # 0
      <4> DEFINE g == AckFrame(u)
      <4>1. g \in WireFrame /\ g.type = "ACK" /\ DataOf(g) = 0 /\ AckOf(g) = u
        BY <2>4, <3>2, FramesTyped
      <4>2. e = Append(<<>>, g)
        BY <2>3, <3>2
      <4> HIDE DEF e, g
      <4> QED
        BY <4>1, <4>2, OneSent
    <3> QED
      BY <3>1, <3>2
  <2>6. CliWire(e, t)
    BY <1>9, <2>5, CliWired
  <2>7. /\ Len(loc'.inq) \in Nat /\ Len(loc'.out) \in Nat
        /\ cli'.headDone \in BOOLEAN
    BY <2>6, SocketTyped DEF CliWire, CliType
  <2> HIDE DEF e
  <2>8. CliWord(e, t)
    <3>1. LifeOfAgent' /\ cli'.dial = cli.dial /\ cli'.rewriteHost = cli.rewriteHost
          /\ cli'.queuedEof = cli.queuedEof
      BY <1>12, <2>2, CliStillLives DEF CliStill
    <3>2. /\ cli.sentEof \in BOOLEAN /\ cli.finished = FALSE
          /\ loc.readEnded => cli.sentEof \/ cli.finished
      BY <1>0, <1>4 DEF CliFacts
    <3> QED
      BY <1>2, <1>4, <2>2, <2>3, <2>5, <3>1, <3>2 DEF CliWord, Heard
  <2>9. CliCounts(e, t)
    <3>1. CliPauses'
      BY <1>0, <2>2, <2>3 DEF CliPauses, CliFacts
    <3> DEFINE c == cli.sendCredit
               m == Len(loc.inq)
               k == Len(loc'.inq)
               o == Len(loc'.out)
               room == RoomFor(cli.rewriteHost)
    <3>2. /\ c \in Int /\ m \in Int /\ k \in Int /\ k <= m /\ serviceSaid \in Int
          /\ Window \in Int /\ c + serviceSaid - m >= Window
          /\ o \in Int /\ o < u + HighWater + room /\ u <= WindowAndChunk
          /\ u \in Int /\ HighWater \in Int /\ WindowAndChunk \in Int /\ room \in Int
      BY <1>0, <2>3, <2>4, <2>7 DEF CliFacts
    <3>3. cli'.sendCredit = c
      BY <2>2
    <3> HIDE DEF c, m, k, o, room
    <3>4. /\ c + serviceSaid - k >= Window
          /\ c + 0 = c + 0 /\ c + 0 <= c + 0
          /\ 0 + u = u + 0 /\ 0 + u <= u + 0
          /\ o < WindowAndChunk + HighWater + room
      BY ONLY <3>2
    <3>5. CliHolds'
      <4>1. cli'.rewriteHost = cli.rewriteHost
        BY <2>2 DEF CliStill
      <4> QED
        BY <2>2, <2>3, <2>7, <3>4, <4>1 DEF CliHolds, o, room
    <3> QED
      BY <1>2, <1>10, <2>2, <2>5, <3>1, <3>3, <3>4, <3>5 DEF CliCounts, c, k, u
  <2>10. CliLaw(e, t)
    BY <1>12, <2>2, <2>6, <2>8, <2>9, CliLawStill
  <2> QED
    BY <2>10
<1> QED
  BY <1>11, <1>12

\* STREAM_ACK at the agent obeys the law.
LEMMA CliAckLaw ==
  ASSUME IInv, C!ClientReceive, UNCHANGED <<sVars, outsideVars>>, C!InStreams,
         Head(toAgent).type = "ACK"
  PROVE  \E e, t : CliLaw(e, t)
<1> DEFINE f == Head(toAgent)
           h == C!Turn
           n == f.n
           r == C!OnAck(h, n)
           e == r.sent
           t == <<f>>
<1>0. CliFacts
  BY CliKnown
<1>1. PICK known \in BOOLEAN : C!Commit(C!HandleFrame(f, known))
  BY CliTaken
<1>2. /\ f \in WireFrame /\ t # <<>>
      /\ TypesIn(t) = {"ACK"} /\ DataIn(t) = DataOf(f) /\ AcksIn(t) = AckOf(f)
      /\ \A q : q \in CliTurn /\ C!Commit(q) => CliCommitted(q, t)
  BY CliTaken
<1>3. C!HandleFrame(f, known) = r
  BY DEF C!HandleFrame
<1>4. n \in Nat /\ DataIn(t) = 0 /\ AcksIn(t) = n
  BY <1>2 DEF DataOf, AckOf, WireFrame, SomeFrame
<1>5. ~cli.finished /\ cli.dial # "none"
  BY DEF C!InStreams
<1> HIDE DEF f, t, n
<1>6. h \in CliTurn /\ h.sent = <<>> /\ h.st = cli /\ h.sock = loc
  BY <1>0, CliTurnStarts DEF CliFacts
<1> HIDE DEF h
<1>7. /\ r \in CliTurn /\ r.sent = <<>>
      /\ \/ /\ r.st = [cli EXCEPT !.sendCredit = cli.sendCredit + n]
            /\ r.sock = loc
         \/ /\ cli.sendCredit + n > 0 /\ cli.pausedForCredit
            /\ r.st = [cli EXCEPT !.sendCredit = cli.sendCredit + n,
                                  !.pausedForCredit = FALSE]
            /\ r.sock = Resume(loc)
  BY <1>4, <1>5, <1>6, CliOnAck, ZenonT(60)
<1> HIDE DEF r
<1>8. CliCommitted(r, t)
  BY <1>1, <1>2, <1>3, <1>7
<1>9. cli' = r.st /\ loc' = r.sock /\ serviceSaid' = serviceSaid
  BY <1>8 DEF CliCommitted
<1>10. cli \in CliType
  BY <1>0 DEF CliFacts
<1>11. /\ r.st.dial = cli.dial /\ r.st.connected = cli.connected
       /\ r.st.queued = cli.queued /\ r.st.queuedEof = cli.queuedEof
       /\ r.st.rewriteHost = cli.rewriteHost
       /\ r.st.headDone = cli.headDone /\ r.st.headBuf = cli.headBuf
       /\ r.st.finished = cli.finished
       /\ r.st.sentEof = cli.sentEof /\ r.st.receivedEof = cli.receivedEof
       /\ r.st.sendCredit = cli.sendCredit + n
       /\ r.st.recvUnacked = cli.recvUnacked
       /\ \/ r.st.pausedForCredit = cli.pausedForCredit /\ r.sock = loc
          \/ /\ ~r.st.pausedForCredit /\ cli.pausedForCredit
             /\ cli.sendCredit + n > 0 /\ r.sock = Resume(loc)
  BY <1>7, <1>10 DEF CliType
<1>12. /\ loc'.readEnded = loc.readEnded /\ loc'.inq = loc.inq /\ loc'.out = loc.out
       /\ loc' \in Socket(Bytes)
  <2>1. loc \in Socket(Bytes)
    BY <1>0 DEF CliFacts
  <2> DEFINE res == Resume(loc)
  <2>2. /\ res.readEnded = loc.readEnded /\ res.inq = loc.inq /\ res.out = loc.out
        /\ res \in Socket(Bytes)
    BY <2>1, PauseResume
  <2>3. loc' = loc \/ loc' = res
    BY <1>9, <1>11
  <2> HIDE DEF res
  <2> QED
    BY <2>1, <2>2, <2>3
<1>13. /\ e = <<>> /\ Orderly(e) /\ DataIn(e) = 0 /\ AcksIn(e) = 0 /\ TypesIn(e) = {}
  BY <1>7, FewFrames
<1>14. CliWire(e, t)
  BY <1>8, <1>13, CliWired
<1> HIDE DEF e
<1>15. CliWord(e, t)
  <2>1. LifeOfAgent'
    <3>1. LifeOfAgent
      BY DEF IInv
    <3>2. ~cli.connected => loc' = loc /\ cli'.pausedForCredit = cli.pausedForCredit
      BY <1>9, <1>11, <3>1 DEF LifeOfAgent
    <3>3. cli.dial # "over" => ~cli.connected
      BY <3>1 DEF LifeOfAgent
    <3> QED
      BY <1>5, <1>9, <1>11, <3>1, <3>2, <3>3 DEF LifeOfAgent
  <2>2. /\ cli.sentEof \in BOOLEAN /\ cli.finished = FALSE
        /\ loc.readEnded => cli.sentEof \/ cli.finished
    BY <1>0, <1>5 DEF CliFacts
  <2> QED
    BY <1>2, <1>5, <1>9, <1>11, <1>12, <1>13, <2>1, <2>2 DEF CliWord, Heard
<1>16. CliCounts(e, t)
  <2> DEFINE c == cli.sendCredit
             m == Len(loc.inq)
             u == cli.recvUnacked
  <2>1. /\ c \in Int /\ m \in Int /\ u \in Int /\ serviceSaid \in Int /\ Window \in Int
        /\ c + serviceSaid - m >= Window /\ c > -MaxChunk
        /\ MaxChunk \in Int
        /\ cli.pausedForCredit => ~loc.flowing
        /\ c <= 0 => cli.pausedForCredit
    BY <1>0 DEF CliFacts
  <2>2. CliPauses'
    <3>1. /\ cli'.sendCredit = c + n
          /\ cli'.pausedForCredit => cli.pausedForCredit /\ loc' = loc
          /\ ~cli'.pausedForCredit => ~cli.pausedForCredit \/ c + n > 0
      BY <1>9, <1>11
    <3> HIDE DEF c
    <3>2. (c + n <= 0 => c <= 0) /\ c + n > -MaxChunk
      BY <1>4, <2>1
    <3> QED
      BY <1>4, <2>1, <3>1, <3>2 DEF CliPauses
  <2>3. /\ cli'.sendCredit = c + n /\ cli'.recvUnacked = u
        /\ serviceSaid' = serviceSaid /\ Len(loc'.inq) = m
    BY <1>9, <1>11, <1>12
  <2>4. CliHolds'
    <3>1. Len(loc'.out) <= Len(loc.out)
      BY <1>0, <1>12 DEF CliFacts
    <3> QED
      BY <1>0, <1>9, <1>11, <1>12, <3>1, CliStillHolds
  <2> HIDE DEF c, m, u
  <2>5. /\ (c + n) + 0 = c + n /\ (c + n) + 0 <= c + n
        /\ u + 0 = u + 0 /\ u + 0 <= u + 0
        /\ (c + n) + serviceSaid - m >= Window
    BY <1>4, <2>1
  <2> QED
    BY <1>4, <1>13, <2>2, <2>3, <2>4, <2>5 DEF CliCounts, c, m, u
<1>17. QueuedBytes' = QueuedBytes
  BY <1>9, <1>11 DEF QueuedBytes
<1>18. e \in Seq(WireFrame) /\ t \in Seq(WireFrame) /\ cli' \in CliType
  BY <1>14 DEF CliWire
<1>19. CliLaw(e, t)
  BY <1>14, <1>15, <1>16, <1>17, <1>18, CliCountsAll DEF CliLaw
<1> QED
  BY <1>19

\* A dial that ends without a socket for the stream.
LEMMA CliDialOverLaw ==
  ASSUME IInv, cli.dial = "pending", NEW r, CliCommitted(r, <<>>),
         r.sock = DestroySocket(loc),
         \/ /\ cli.finished /\ r.sent = <<>>
            /\ r.st = [cli EXCEPT !.dial = "over"]
         \/ /\ ~cli.finished /\ r.sent = Append(<<>>, ResetFrame)
            /\ r.st = [[cli EXCEPT !.dial = "over"] EXCEPT !.finished = TRUE]
  PROVE  \E e, t : CliLaw(e, t)
<1>0. CliFacts
  BY CliKnown
<1> DEFINE e == r.sent
           t == <<>>
<1>1. cli' = r.st /\ loc' = r.sock /\ serviceSaid' = serviceSaid
  BY DEF CliCommitted
<1>2. cli \in CliType /\ loc \in Socket(Bytes)
  BY <1>0 DEF CliFacts
<1>3. /\ r.st.dial = "over" /\ r.st.connected = cli.connected
      /\ r.st.queued = cli.queued /\ r.st.queuedEof = cli.queuedEof
      /\ r.st.rewriteHost = cli.rewriteHost
      /\ r.st.headDone = cli.headDone /\ r.st.headBuf = cli.headBuf
      /\ r.st.finished
      /\ r.st.sentEof = cli.sentEof /\ r.st.receivedEof = cli.receivedEof
      /\ r.st.sendCredit = cli.sendCredit /\ r.st.recvUnacked = cli.recvUnacked
      /\ r.st.pausedForCredit = cli.pausedForCredit
  BY <1>2 DEF CliType
<1>4. /\ LifeOfAgent /\ ~cli.connected
      /\ loc.inq = <<>> /\ loc.out = <<>> /\ ~loc.readEnded /\ serviceSaid = 0
  BY DEF IInv, LifeOfAgent
<1>5. /\ loc' \in Socket(Bytes) /\ ~loc'.flowing /\ loc'.readEnded = loc.readEnded
      /\ loc'.out = <<>> /\ loc'.inq = <<>>
  <2> DEFINE s == DestroySocket(loc)
  <2>1. s \in Socket(Bytes) /\ Shrunk(s, loc) /\ s.out = <<>> /\ ~s.flowing
    BY <1>2, SocketDestroyed
  <2>2. s.inq = <<>>
    BY <1>2 DEF DestroySocket, Socket
  <2>3. loc' = s
    BY <1>1
  <2> HIDE DEF s
  <2> QED
    BY <2>1, <2>2, <2>3 DEF Shrunk
<1>6. /\ e \in Seq(WireFrame) /\ Orderly(e) /\ DataIn(e) = 0 /\ AcksIn(e) = 0
      /\ TypesIn(e) \subseteq {"RESET"}
      /\ ~cli.finished => TypesIn(e) = {"RESET"}
      /\ t \in Seq(WireFrame) /\ TypesIn(t) = {} /\ DataIn(t) = 0 /\ AcksIn(t) = 0
  <2>1. CASE r.sent = <<>> /\ cli.finished
    BY <2>1, FewFrames
  <2>2. CASE r.sent = Append(<<>>, ResetFrame)
    <3>1. e = Append(<<>>, ResetFrame)
      BY <2>2
    <3> HIDE DEF e
    <3> QED
      BY <3>1, FramesTyped, OneSent, FewFrames
  <2> QED
    BY <2>1, <2>2
<1>7. CliWire(e, t)
  BY <1>6, CliWired
<1> HIDE DEF e
<1>8. CliWord(e, t)
  <2>1. LifeOfAgent'
    BY <1>1, <1>3, <1>4, <1>5 DEF LifeOfAgent
  <2>2. cli.sentEof \in BOOLEAN /\ cli.finished \in BOOLEAN
    BY <1>0 DEF CliFacts
  <2> QED
    BY <1>1, <1>3, <1>4, <1>5, <1>6, <2>1, <2>2 DEF CliWord, Heard
<1>9. CliCounts(e, t)
  <2>1. Len(loc'.out) <= Len(loc.out) /\ loc'.inq = loc.inq
    BY <1>4, <1>5
  <2>2. CliHolds'
    BY <1>0, <1>1, <1>3, <1>5, <2>1, CliStillHolds
  <2>3. CliPauses'
    BY <1>0, <1>1, <1>3, <1>5 DEF CliPauses, CliFacts
  <2>4. /\ cli.sendCredit \in Int /\ cli.recvUnacked \in Int
        /\ cli.sendCredit + serviceSaid - Len(loc.inq) >= Window
    BY <1>0 DEF CliFacts
  <2>5. /\ cli'.sendCredit = cli.sendCredit /\ cli'.recvUnacked = cli.recvUnacked
        /\ cli'.sendCredit + serviceSaid' - Len(loc'.inq) >= Window
    BY <1>1, <1>3, <2>1, <2>4
  <2> QED
    BY <1>6, <2>2, <2>3, <2>4, <2>5 DEF CliCounts
<1>10. QueuedBytes' = QueuedBytes
  BY <1>1, <1>3 DEF QueuedBytes
<1>11. cli' \in CliType
  BY <1>7 DEF CliWire
<1>12. CliLaw(e, t)
  BY <1>6, <1>7, <1>8, <1>9, <1>10, <1>11, CliCountsAll DEF CliLaw
<1> QED
  BY <1>12

\* The turn of a dial that is over, before anything else is done.
LEMMA CliDialled ==
  ASSUME IInv, cli.dial = "pending",
         NEW h, h = [C!Turn EXCEPT !.st.dial = "over"]
  PROVE  /\ h \in CliTurn /\ h.st = [cli EXCEPT !.dial = "over"]
         /\ h.sock = loc /\ h.sent = <<>>
<1>1. cli \in CliType /\ loc \in Socket(Bytes)
  BY CliKnown DEF CliFacts
<1>2. C!Turn \in CliTurn /\ C!Turn.st = cli /\ C!Turn.sock = loc /\ C!Turn.sent = <<>>
  BY <1>1, CliTurnStarts
<1> DEFINE b == C!Turn
<1>3. b \in CliTurn /\ b.st = cli /\ b.sock = loc /\ b.sent = <<>>
  BY <1>2
<1>4. h = [b EXCEPT !.st.dial = "over"]
  OBVIOUS
<1> HIDE DEF b
<1>5. h.st = [b.st EXCEPT !.dial = "over"] /\ h.sock = b.sock /\ h.sent = b.sent
  BY <1>3, <1>4 DEF CliTurn
<1>6. h.st \in CliType
  <2>1. h.st = [cli EXCEPT !.dial = "over"]
    BY <1>3, <1>5
  <2> QED
    BY ONLY <1>1, <2>1 DEF CliType
<1>7. h = [st |-> h.st, sock |-> h.sock, sent |-> h.sent]
  BY <1>3, <1>4 DEF CliTurn
<1>8. h.sock \in Socket(Bytes) /\ h.sent \in Seq(WireFrame)
  BY <1>1, <1>3, <1>5, FewFrames
<1>9. h \in CliTurn
  BY <1>6, <1>7, <1>8 DEF CliTurn
<1> QED
  BY <1>3, <1>5, <1>9

\* The dial is refused, fails or takes too long.
LEMMA DialFailLaw ==
  ASSUME IInv, C!DialFail, UNCHANGED <<sVars, outsideVars>>
  PROVE  \E e, t : CliLaw(e, t)
<1> DEFINE h == [C!Turn EXCEPT !.st.dial = "over"]
           s == DestroySocket(loc)
           over == [h EXCEPT !.sock = s]
           said == C!Send(over, ResetFrame)
           r == IF cli.finished THEN over ELSE C!Finish(said)
<1>1. /\ cli.dial = "pending"
      /\ UNCHANGED <<sVars, linkUp, toAgent, cliClosed, serviceSaid, visitorSaid,
                     cliCongested, congestions>>
  BY DEF C!DialFail, outsideVars
<1>2. C!Commit(r)
  <2>1. C!Turn.sock = loc /\ C!Turn = [st |-> cli, sock |-> loc, sent |-> <<>>]
    BY DEF C!Turn
  <2>2. [C!Turn EXCEPT !.st.dial = "over", !.sock = C!DestroySocket(@)] = over
    BY <2>1, SameOperators
  <2> QED
    BY <2>2, SameOperators DEF C!DialFail
<1>3. h \in CliTurn /\ h.st = [cli EXCEPT !.dial = "over"] /\ h.sock = loc /\ h.sent = <<>>
  BY <1>1, CliDialled
<1> HIDE DEF h
<1>4. loc \in Socket(Bytes) /\ cli.finished \in BOOLEAN
  BY CliKnown DEF CliFacts
<1>5. s \in Socket(Bytes)
  BY <1>4, SocketDestroyed
<1>6. s = DestroySocket(loc)
  OBVIOUS
<1> HIDE DEF s
<1>7. over \in CliTurn /\ over.st = h.st /\ over.sock = s /\ over.sent = <<>>
  BY <1>3, <1>5, CliSock
<1> HIDE DEF over
<1>8. /\ said \in CliTurn /\ said.st = h.st /\ said.sock = s
      /\ said.sent = Append(<<>>, ResetFrame)
  BY <1>7, FramesTyped, CliSend, ZenonT(60)
<1> HIDE DEF said
<1>9. /\ C!Finish(said) \in CliTurn
      /\ C!Finish(said).st = [h.st EXCEPT !.finished = TRUE]
      /\ C!Finish(said).sock = s
      /\ C!Finish(said).sent = Append(<<>>, ResetFrame)
  BY <1>8, CliFinish
<1>10. /\ r \in CliTurn /\ r.sock = s
       /\ \/ cli.finished /\ r.sent = <<>> /\ r.st = h.st
          \/ /\ ~cli.finished /\ r.sent = Append(<<>>, ResetFrame)
             /\ r.st = [h.st EXCEPT !.finished = TRUE]
  BY <1>7, <1>9
<1> HIDE DEF r
<1>11. CliCommitted(r, <<>>)
  BY <1>1, <1>2, <1>10, CliCallback DEF IInv, Types
<1> QED
  BY <1>1, <1>3, <1>6, <1>10, <1>11, CliDialOverLaw

\* What was queued is written and counted when the dial succeeds.
LEMMA DialOkLaw ==
  ASSUME IInv, C!DialOk, UNCHANGED <<sVars, outsideVars>>
  PROVE  \E e, t : CliLaw(e, t)
<1> DEFINE h == [C!Turn EXCEPT !.st.dial = "over"]
           r == C!Attach(h)
           e == r.sent
           t == <<>>
<1>0. CliFacts
  BY CliKnown
<1>1. /\ cli.dial = "pending" /\ C!Commit(r)
      /\ UNCHANGED <<sVars, linkUp, toAgent, cliClosed, serviceSaid, visitorSaid,
                     cliCongested, congestions>>
  BY DEF C!DialOk, outsideVars
<1>2. h \in CliTurn /\ h.st = [cli EXCEPT !.dial = "over"] /\ h.sock = loc /\ h.sent = <<>>
  BY <1>1, CliDialled
<1> HIDE DEF h
<1>3. cli \in CliType /\ loc \in Socket(Bytes) /\ cli.finished \in BOOLEAN
  BY <1>0 DEF CliFacts
<1>4. /\ h.st.dial = "over" /\ h.st.connected = cli.connected
      /\ h.st.queued = cli.queued /\ h.st.queuedEof = cli.queuedEof
      /\ h.st.rewriteHost = cli.rewriteHost
      /\ h.st.headDone = cli.headDone /\ h.st.headBuf = cli.headBuf
      /\ h.st.finished = cli.finished
      /\ h.st.sentEof = cli.sentEof /\ h.st.receivedEof = cli.receivedEof
      /\ h.st.sendCredit = cli.sendCredit /\ h.st.recvUnacked = cli.recvUnacked
      /\ h.st.pausedForCredit = cli.pausedForCredit
  BY <1>2, <1>3 DEF CliType
<1>5. /\ LifeOfAgent /\ ~cli.connected
      /\ loc.inq = <<>> /\ loc.out = <<>> /\ ~loc.readEnded /\ serviceSaid = 0
      /\ ~cli.pausedForCredit /\ ~cli.sentEof /\ ~cli.receivedEof
      /\ cli.recvUnacked = 0 /\ cli.headBuf = <<>>
      /\ cli.headDone = ~cli.rewriteHost
  BY <1>1 DEF IInv, LifeOfAgent
<1>6. CASE cli.finished
  <2>1. r = [h EXCEPT !.sock = DestroySocket(loc)]
    BY <1>2, <1>4, <1>6, SameOperators, ZenonT(60) DEF C!Attach
  <2> HIDE DEF r
  <2>2. r \in CliTurn /\ r.st = h.st /\ r.sock = DestroySocket(loc) /\ r.sent = <<>>
    <3> DEFINE s == DestroySocket(loc)
    <3>1. s \in Socket(Bytes)
      BY <1>3, SocketDestroyed
    <3>2. r = [h EXCEPT !.sock = s]
      BY <2>1
    <3> HIDE DEF s
    <3>3. r \in CliTurn /\ r.st = h.st /\ r.sock = s /\ r.sent = <<>>
      BY <1>2, <3>1, <3>2, CliSock
    <3> QED
      BY <3>3 DEF s
  <2>3. CliCommitted(r, <<>>)
    BY <1>1, <2>2, CliCallback DEF IInv, Types
  <2> QED
    BY <1>1, <1>2, <1>6, <2>2, <2>3, CliDialOverLaw
<1>7. CASE ~cli.finished
  <2>1. HeadRule(h)
    <3>1. Len(loc.out) = 0 /\ Len(cli.headBuf) = 0
      BY <1>5
    <3>2. /\ MaxHead \in Nat \ {0} /\ HighWater \in Nat \ {0}
          /\ RoomFor(cli.rewriteHost) \in Nat /\ cli.rewriteHost \in BOOLEAN
      BY <1>0, RoomTyped DEF CliFacts
    <3>3. /\ h.sock.out = <<>> /\ Len(h.sock.out) = 0 /\ Len(h.st.headBuf) = 0
          /\ h.st.recvUnacked = 0 /\ h.st.headBuf = <<>>
          /\ h.st.headDone = ~h.st.rewriteHost
      BY <1>2, <1>4, <1>5, <3>1
    <3>4. /\ HighWater \in Nat \ {0} /\ RoomFor(h.st.rewriteHost) \in Nat
          /\ h.st.rewriteHost \in BOOLEAN
      BY <1>4, <3>2
    <3>5. 0 < 0 + HighWater + RoomFor(h.st.rewriteHost) /\ 0 < MaxHead
      BY <3>2, <3>4
    <3> QED
      BY <3>3, <3>4, <3>5 DEF HeadRule
  <2> DEFINE q == SumOf([i \in DOMAIN h.st.queued |-> Len(h.st.queued[i])])
  <2>2. Attached(r, h, q)
    BY <1>2, <1>4, <1>5, <1>7, <2>1, CliAttach
  <2>3. q = QueuedBytes
    BY <1>4 DEF QueuedBytes
  <2>4. q \in Nat /\ q <= WindowAndChunk
    <3>1. QueuedBytes \in Nat /\ QueuedBytes + cli.recvUnacked <= WindowAndChunk
      BY <1>0, Unacknowledged DEF CliFacts
    <3> QED
      BY <1>5, <2>3, <3>1
  <2> HIDE DEF r, q
  <2>5. r \in CliTurn
    BY <2>2 DEF Attached
  <2>6. CliCommitted(r, <<>>)
    BY <1>1, <2>5, CliCallback DEF IInv, Types
  <2>7. cli' = r.st /\ loc' = r.sock /\ serviceSaid' = serviceSaid
    BY <2>6 DEF CliCommitted
  <2>8. /\ cli'.dial = "over" /\ cli'.connected
        /\ cli'.sendCredit = cli.sendCredit /\ ~cli'.pausedForCredit
        /\ ~cli'.sentEof /\ cli'.receivedEof = cli.queuedEof
        /\ cli'.queued = <<>> /\ cli'.queuedEof = cli.queuedEof
        /\ ~cli'.finished /\ cli'.rewriteHost = cli.rewriteHost
        /\ cli'.recvUnacked + AcksIn(e) = q
        /\ ~loc'.readEnded /\ Len(loc'.inq) <= Len(loc.inq)
        /\ Len(loc'.out) < q + HighWater + RoomFor(cli.rewriteHost)
        /\ ~cli.queuedEof => HeadRule(r)
        /\ cli'.headDone => cli'.headBuf = <<>>
        /\ ~cli'.headDone => /\ cli'.rewriteHost
                             /\ cli'.recvUnacked = 0
                             /\ loc'.out = <<>>
                             /\ Len(cli'.headBuf) < MaxHead
    BY <1>2, <1>4, <1>5, <2>2, <2>7 DEF Attached
  <2>9. /\ e \in Seq(WireFrame) /\ TypesIn(e) \subseteq {"ACK"} /\ DataIn(e) = 0
        /\ Orderly(e)
    <3>1. TypesIn(e) \subseteq {"ACK"} /\ DataIn(e) = 0 /\ e \in Seq(WireFrame)
      BY <2>2 DEF Attached, CliTurn
    <3>2. \A i \in DOMAIN e : e[i].type = "ACK"
      BY <3>1 DEF TypesIn
    <3> QED
      BY <3>1, <3>2 DEF Orderly
  <2>10. t \in Seq(WireFrame) /\ TypesIn(t) = {} /\ DataIn(t) = 0 /\ AcksIn(t) = 0
    BY FewFrames
  <2>11. CliWire(e, t)
    BY <2>6, <2>9, CliWired
  <2>12. /\ Len(loc'.inq) \in Nat /\ Len(loc'.out) \in Nat
         /\ cli'.headDone \in BOOLEAN /\ cli'.recvUnacked \in Nat
         /\ AcksIn(e) \in Nat
    BY <2>9, <2>11, SocketTyped, CountsBounded DEF CliWire, CliType, WireFrame
  <2> HIDE DEF e
  <2>13. CliWord(e, t)
    <3>1. LifeOfAgent'
      BY <2>8 DEF LifeOfAgent
    <3> QED
      BY <1>1, <1>5, <1>7, <2>8, <2>9, <2>10, <3>1 DEF CliWord, Heard
  <2>14. QueuedBytes' = 0
    <3>1. [i \in DOMAIN cli'.queued |-> Len(cli'.queued[i])] = <<>>
      BY <2>8
    <3> QED
      BY <3>1, SumEmpty DEF QueuedBytes
  <2>15. CliHolds'
    <3> DEFINE o == Len(loc'.out)
               room == RoomFor(cli.rewriteHost)
               u == cli'.recvUnacked
    <3>1. /\ o \in Int /\ room \in Nat /\ HighWater \in Nat \ {0}
          /\ WindowAndChunk \in Int /\ u \in Nat
          /\ o < q + HighWater + room
      BY <1>0, <2>8, <2>12 DEF CliFacts
    <3>2. RoomFor(cli'.rewriteHost) = room
      BY <2>8
    <3>3. ~cli'.headDone => o = 0
      BY <2>8
    <3>4. ~cli'.receivedEof /\ cli'.headDone => o < u + HighWater + room
      BY <2>7, <2>8, <3>2 DEF HeadRule
    <3> HIDE DEF o, room, u
    <3>5. /\ o < WindowAndChunk + HighWater + room
          /\ o = 0 => o < u + HighWater + room
      BY <2>4, <3>1
    <3>6. /\ ~cli'.receivedEof => o < u + HighWater + room
          /\ o < WindowAndChunk + HighWater + room
      BY <3>3, <3>4, <3>5
    <3> QED
      BY <2>8, <3>2, <3>6 DEF CliHolds, o, u
  <2>16. CliPauses'
    BY <1>0, <1>5, <2>8 DEF CliPauses, CliFacts
  <2>17. CliBytes(e, t)
    <3> DEFINE c == cli.sendCredit
               m == Len(loc.inq)
               k == Len(loc'.inq)
               u == cli'.recvUnacked
               a == AcksIn(e)
    <3>1. /\ c \in Int /\ m \in Int /\ k \in Int /\ k <= m /\ serviceSaid \in Int
          /\ Window \in Int /\ c + serviceSaid - m >= Window
          /\ u \in Int /\ a \in Int /\ u + a = q
      BY <1>0, <2>8, <2>12 DEF CliFacts
    <3>2. cli'.sendCredit = c /\ QueuedBytes' = 0 /\ cli.recvUnacked = 0
      BY <1>5, <2>8, <2>14
    <3> HIDE DEF c, m, k, u, a
    <3>3. /\ c + serviceSaid - k >= Window
          /\ c + 0 = c + 0 /\ c + 0 <= c + 0
          /\ (0 + u) + a = (q + 0) + 0 /\ (0 + u) + a <= (q + 0) + 0
      BY <2>4, <3>1
    <3> QED
      BY <2>3, <2>7, <2>9, <2>10, <2>15, <2>16, <3>2, <3>3
         DEF CliBytes, CliHolds, c, k, u, a
  <2>18. CliLaw(e, t)
    BY <2>11, <2>13, <2>17 DEF CliLaw
  <2> QED
    BY <2>18
<1> QED
  BY <1>6, <1>7

\* Whatever frame the agent takes, its turn obeys the law.
LEMMA ClientReceiveLaw ==
  ASSUME IInv, C!ClientReceive, UNCHANGED <<sVars, outsideVars>>
  PROVE  \E e, t : CliLaw(e, t)
<1> DEFINE kind == Head(toAgent).type
<1>1. kind \in {"OPEN", "DATA", "EOF", "ACK", "RESET"}
  <2>1. Head(toAgent) \in WireFrame
    BY CliTaken
  <2> QED
    BY <2>1 DEF WireFrame, SomeFrame
<1>2. CASE kind = "OPEN"
  BY <1>2, CliOpenLaw
<1>3. CASE ~C!InStreams /\ kind # "OPEN"
  BY <1>3, CliStrayLaw
<1>4. CASE C!InStreams /\ kind = "DATA"
  BY <1>4, CliDataLaw
<1>5. CASE C!InStreams /\ kind = "EOF"
  BY <1>5, CliEofLaw
<1>6. CASE C!InStreams /\ kind = "ACK"
  BY <1>6, CliAckLaw
<1>7. CASE C!InStreams /\ kind = "RESET"
  BY <1>7, CliResetLaw
<1> QED
  BY <1>1, <1>2, <1>3, <1>4, <1>5, <1>6, <1>7

\* Whatever the agent's end or the local service does obeys the law of a turn.
LEMMA ClientSide ==
  ASSUME IInv,
         ServiceSend \/ ServiceFin \/ ServiceAbort \/ ClientStep \/ AgentCongests
  PROVE  \E e, t : CliLaw(e, t)
<1>1. CASE ServiceSend \/ ServiceFin \/ ServiceAbort
  BY <1>1, ServiceSteps
<1>2. CASE AgentCongests
  BY <1>2, UplinkLaw
<1>3. CASE ClientStep
  <2>1. UNCHANGED <<sVars, outsideVars>>
    BY <1>3 DEF ClientStep
  <2>2. CASE C!LocalFlush
    BY <2>1, <2>2, ServiceSteps
  <2>3. CASE C!DialFail
    BY <2>1, <2>3, DialFailLaw
  <2>4. CASE C!DialOk
    BY <2>1, <2>4, DialOkLaw
  <2>5. CASE C!LocalData
    BY <2>1, <2>5, LocalDataLaw
  <2>6. CASE C!LocalEnd
    BY <2>1, <2>6, LocalEndLaw
  <2>7. CASE C!LocalDrain
    BY <2>1, <2>7, LocalDrainLaw
  <2>8. CASE C!LocalError
    BY <2>1, <2>8, LocalErrorLaw
  <2>9. CASE C!LocalClose
    BY <2>1, <2>9, LocalCloseLaw
  <2>10. CASE C!ClientReceive
    BY <2>1, <2>10, ClientReceiveLaw
  <2>11. CASE C!ClearUplink
    BY <2>1, <2>11, UplinkLaw
  <2>12. CASE C!TeardownSession
    BY <2>1, <2>12, TeardownLaw
  <2> QED
    BY <1>3, <2>2, <2>3, <2>4, <2>5, <2>6, <2>7, <2>8, <2>9, <2>10, <2>11, <2>12
       DEF ClientStep, C!ClientCallback
<1> QED
  BY <1>1, <1>2, <1>3

-----------------------------------------------------------------------------
\* The invariant.

\* A step is a turn of one of the two ends, or the loss of the link.
LEMMA EveryStep ==
  ASSUME IInv, Next
  PROVE  (\E e, t : SrvLaw(e, t)) \/ (\E e, t : CliLaw(e, t)) \/ LinkLost
  BY ServerSide, ClientSide DEF Next

\* What only the loss of the link, or nothing, changes.
LEMMA NothingSaid ==
  ASSUME IInv, UNCHANGED <<sVars, cVars, toAgent, toServer, outsideVars>>,
         linkUp' \in BOOLEAN, linkUp' => linkUp
  PROVE  IInv'
<1>1. /\ Types /\ LifeOfServer /\ LifeOfAgent /\ Chan /\ Informed /\ Eof
      /\ Flow /\ SrvPauses /\ CliPauses /\ SrvBuffers /\ CliBuffers
  BY DEF IInv
<1>2. /\ srv' = srv /\ pub' = pub /\ srvCongested' = srvCongested
      /\ srvClosed' = srvClosed
      /\ cli' = cli /\ loc' = loc /\ cliCongested' = cliCongested
      /\ cliClosed' = cliClosed
      /\ toAgent' = toAgent /\ toServer' = toServer
      /\ visitorSaid' = visitorSaid /\ serviceSaid' = serviceSaid
      /\ congestions' = congestions
  BY DEF sVars, cVars, outsideVars
<1>3. Types' /\ LifeOfServer' /\ LifeOfAgent' /\ Chan' /\ Informed' /\ Eof'
  BY <1>1, <1>2 DEF Types, LifeOfServer, LifeOfAgent, Chan, Informed, Eof
<1>4. SrvPauses' /\ CliPauses' /\ SrvBuffers' /\ CliBuffers'
  BY <1>1, <1>2 DEF SrvPauses, CliPauses, SrvBuffers, CliBuffers
<1>5. Flow'
  <2>1. QueuedBytes' = QueuedBytes
    BY <1>2 DEF QueuedBytes
  <2>2. UpSum' = UpSum /\ DownSum' = DownSum
    BY <1>2, <2>1 DEF UpSum, DownSum
  <2>3. BothLive' => BothLive
    BY <1>2 DEF BothLive, Refused
  <2> QED
    BY <1>1, <1>2, <2>2, <2>3 DEF Flow
<1> QED
  BY <1>3, <1>4, <1>5 DEF IInv

\* Nothing has happened yet.
LEMMA InitInv == Init => IInv
<1> SUFFICES ASSUME Init PROVE IInv
  OBVIOUS
<1>1. /\ srv = S!NoStream /\ pub = NewSocket
      /\ srvCongested = FALSE /\ srvClosed = FALSE
      /\ loc = NewSocket /\ cliCongested = FALSE /\ cliClosed = FALSE
      /\ linkUp = TRUE /\ toAgent = <<>> /\ toServer = <<>>
      /\ visitorSaid = 0 /\ serviceSaid = 0
      /\ congestions = [server |-> 0, agent |-> 0]
  BY SameOperators DEF Init, S!ServerInit, C!ClientInit
<1>2. PICK r \in RewriteHosts : cli = C!NoClientStream(r)
  BY DEF Init, C!ClientInit
<1>3. /\ r \in BOOLEAN /\ Window \in Nat \ {0}
      /\ UpBytes \in Nat /\ DownBytes \in Nat /\ MaxCongestions \in Nat
  BY BridgeAssumption
<1>4. /\ cli.dial = "none" /\ ~cli.connected /\ cli.sendCredit = Window
      /\ cli.recvUnacked = 0 /\ ~cli.pausedForCredit /\ ~cli.pausedGlobally
      /\ ~cli.sentEof /\ ~cli.receivedEof /\ ~cli.finished
      /\ cli.queued = <<>> /\ ~cli.queuedEof
      /\ cli.headBuf = <<>> /\ cli.headDone = ~r /\ cli.rewriteHost = r
  BY <1>2 DEF C!NoClientStream
<1>5. /\ ~srv.opened /\ srv.sendCredit = Window /\ srv.recvUnacked = 0
      /\ ~srv.pausedForCredit /\ ~srv.pausedGlobally
      /\ ~srv.sentEof /\ ~srv.receivedEof /\ ~srv.finished
  BY <1>1 DEF S!NoStream
<1>6. Types
  <2>1. srv \in SrvType
    BY <1>1, <1>3 DEF SrvType, S!NoStream
  <2>2. cli \in CliType
    <3>1. <<>> \in Seq(Seq(Bytes) \ {<<>>}) /\ <<>> \in Seq(Bytes)
      OBVIOUS
    <3> QED
      BY <1>2, <1>3, <3>1 DEF CliType, C!NoClientStream
  <2>3. NewSocket \in Socket(Bytes)
    BY DEF NewSocket, Socket
  <2>4. [server |-> 0, agent |-> 0] \in [{"server", "agent"} -> 0..MaxCongestions]
    BY <1>3
  <2>5. /\ toAgent \in Seq(WireFrame) /\ toServer \in Seq(WireFrame)
    <3>1. <<>> \in Seq(WireFrame)
      BY FewFrames
    <3> QED
      BY <1>1, <3>1
  <2>6. visitorSaid \in 0..UpBytes /\ serviceSaid \in 0..DownBytes
    <3>1. 0 \in 0..UpBytes /\ 0 \in 0..DownBytes
      BY ONLY <1>3
    <3> QED
      BY <1>1, <3>1
  <2>7. /\ srvCongested \in BOOLEAN /\ srvClosed \in BOOLEAN
        /\ cliCongested \in BOOLEAN /\ cliClosed \in BOOLEAN
        /\ linkUp \in BOOLEAN
    BY ONLY <1>1
  <2>8. /\ pub \in Socket(Bytes) /\ loc \in Socket(Bytes)
        /\ congestions \in [{"server", "agent"} -> 0..MaxCongestions]
    BY ONLY <1>1, <2>3, <2>4
  <2> QED
    BY ONLY <2>1, <2>2, <2>5, <2>6, <2>7, <2>8 DEF Types
<1>7. LifeOfServer
  BY <1>1, <1>4, <1>5 DEF LifeOfServer
<1>8. LifeOfAgent
  BY <1>1, <1>2, <1>4 DEF LifeOfAgent, NewSocket
<1>9. Chan /\ Informed /\ Eof
  BY <1>1, <1>4, <1>5, FewFrames DEF Chan, Informed, Eof, NewSocket
<1>10. Flow
  <2>1. QueuedBytes = 0
    <3>1. [i \in DOMAIN cli.queued |-> Len(cli.queued[i])] = <<>>
      BY <1>4
    <3> QED
      BY <3>1, SumEmpty DEF QueuedBytes
  <2>2. UpSum = Window /\ DownSum = Window
    BY <1>1, <1>3, <1>4, <1>5, <2>1, FewFrames DEF UpSum, DownSum
  <2>3. Len(pub.inq) = 0 /\ Len(loc.inq) = 0
    BY <1>1 DEF NewSocket
  <2> QED
    BY <1>1, <1>3, <1>4, <1>5, <2>2, <2>3 DEF Flow
<1>11. SrvPauses /\ CliPauses
  BY <1>3, <1>4, <1>5, RoomTyped DEF SrvPauses, CliPauses
<1>12. SrvBuffers /\ CliBuffers
  <2>1. /\ pub.out = <<>> /\ loc.out = <<>> /\ Len(pub.out) = 0 /\ Len(loc.out) = 0
        /\ Len(cli.headBuf) = 0
    BY <1>1, <1>4 DEF NewSocket
  <2>2. /\ HighWater \in Nat \ {0} /\ MaxHead \in Nat \ {0}
        /\ RoomFor(cli.rewriteHost) \in Nat /\ WindowAndChunk \in Nat
    BY <1>3, <1>4, RoomTyped DEF WindowAndChunk
  <2>3. /\ 0 < WindowAndChunk + HighWater
        /\ 0 < 0 + HighWater
        /\ 0 < WindowAndChunk + HighWater + RoomFor(cli.rewriteHost)
        /\ 0 < 0 + HighWater + RoomFor(cli.rewriteHost)
        /\ 0 < MaxHead
    <3> DEFINE room == RoomFor(cli.rewriteHost)
               wide == WindowAndChunk
    <3>1. room \in Nat /\ wide \in Nat
      BY <2>2
    <3> HIDE DEF room, wide
    <3>2. /\ 0 < wide + HighWater /\ 0 < 0 + HighWater
          /\ 0 < wide + HighWater + room /\ 0 < 0 + HighWater + room
          /\ 0 < MaxHead
      BY ONLY <3>1, <2>2
    <3> QED
      BY ONLY <3>2 DEF room, wide
  <2>4. SrvBuffers
    BY ONLY <1>5, <2>1, <2>3 DEF SrvBuffers
  <2>5. CliBuffers
    <3>1. ~cli.headDone => cli.rewriteHost
      BY <1>3, <1>4
    <3> QED
      BY ONLY <1>4, <2>1, <2>3, <3>1 DEF CliBuffers
  <2> QED
    BY <2>4, <2>5
<1> QED
  BY <1>6, <1>7, <1>8, <1>9, <1>10, <1>11, <1>12 DEF IInv

\* Every step keeps the invariant.
LEMMA StepInv == IInv /\ [Next]_vars => IInv'
<1> SUFFICES ASSUME IInv, [Next]_vars PROVE IInv'
  OBVIOUS
<1>1. CASE Next
  <2>1. CASE \E e, t : SrvLaw(e, t)
    BY <2>1, SrvKeeps
  <2>2. CASE \E e, t : CliLaw(e, t)
    BY <2>2, CliKeeps
  <2>3. CASE LinkLost
    BY <2>3, NothingSaid DEF LinkLost
  <2> QED
    BY <1>1, <2>1, <2>2, <2>3, EveryStep
<1>2. CASE UNCHANGED vars
  <2>1. UNCHANGED <<sVars, cVars, toAgent, toServer, outsideVars>> /\ linkUp' = linkUp
    BY <1>2 DEF vars, linkVars
  <2>2. linkUp \in BOOLEAN
    BY DEF IInv, Types
  <2> QED
    BY <2>1, <2>2, NothingSaid
<1> QED
  BY <1>1, <1>2

\* The invariant holds.
LEMMA Invariance == Spec => []IInv
  BY InitInv, StepInv, PTL DEF Spec

-----------------------------------------------------------------------------
\* The properties of the runs.

\* Each sender keeps the promises its frames make, in both directions and for
\* every window, chunk size and interleaving.
THEOREM ChannelsDisciplined == Spec => []ChannelDiscipline
<1>1. IInv => ChannelDiscipline
  BY DEF IInv, Chan, ChannelDiscipline
<1> QED
  BY <1>1, Invariance, PTL

\* No end gives a stream up behind the other's back.
THEOREM PeersAreTold == Spec => []PeerIsTold
<1>1. IInv => PeerIsTold
  BY DEF IInv, Informed, PeerIsTold, Told, Ended
<1> QED
  BY <1>1, Invariance, PTL

\* What a slow visitor or a slow service leaves in memory is bounded by the
\* window, a chunk and the socket's own buffer.
THEOREM BuffersBounded == Spec => []BoundedBuffers
<1>1. IInv => BoundedBuffers
  <2> SUFFICES ASSUME IInv PROVE BoundedBuffers
    OBVIOUS
  <2>0. CliFacts
    BY CliKnown
  <2>1. /\ pub \in Socket(Bytes) /\ SrvBuffers
    BY DEF IInv, Types
  <2>2. Len(pub.out) \in Nat
    BY <2>1, SocketTyped
  <2>3. /\ HighWater \in Nat \ {0} /\ WindowAndChunk \in Nat
        /\ Len(loc.out) \in Nat /\ cli.rewriteHost \in BOOLEAN
        /\ cli.headDone \in BOOLEAN
        /\ Len(loc.out) < WindowAndChunk + HighWater + RoomFor(cli.rewriteHost)
        /\ ~cli.headDone => /\ cli.rewriteHost
                            /\ loc.out = <<>>
                            /\ Len(cli.headBuf) < MaxHead
        /\ cli.headDone => cli.headBuf = <<>>
    BY <2>0 DEF CliFacts
  <2>4. Len(cli.headBuf) \in Nat
    BY <2>0 DEF CliFacts, CliType
  <2>5. /\ MaxHead \in Nat \ {0} /\ Len(TargetBytes) \in Nat \ {0}
        /\ RoomFor(cli.rewriteHost) \in Nat
        /\ cli.rewriteHost => RoomFor(cli.rewriteHost) = MaxHead - 1 + Len(TargetBytes) - 1
    BY <2>3, RoomTyped
  <2> DEFINE o == Len(loc.out)
             b == Len(cli.headBuf)
             p == Len(pub.out)
             room == RoomFor(cli.rewriteHost)
  <2>6. p <= WindowAndChunk + HighWater - 1
    BY <2>1, <2>2, <2>3 DEF SrvBuffers
  <2>7. o + b <= WindowAndChunk + HighWater - 1 + room
    <3>1. CASE cli.headDone
      <4>1. b = 0
        BY <2>3, <3>1
      <4> HIDE DEF o, b, room
      <4> QED
        BY <2>3, <2>5, <4>1 DEF o, room
    <3>2. CASE ~cli.headDone
      <4>1. o = 0 /\ b < MaxHead /\ b \in Nat /\ o \in Nat
            /\ room = MaxHead - 1 + Len(TargetBytes) - 1
        BY <2>3, <2>4, <2>5, <3>2
      <4> HIDE DEF o, b, room
      <4> QED
        BY <2>3, <2>5, <4>1
    <3> QED
      BY <3>1, <3>2
  <2>8. room = IF cli.rewriteHost THEN MaxHead - 1 + Len(TargetBytes) - 1 ELSE 0
    BY DEF RoomFor
  <2>9. QueuedBytes + cli.recvUnacked <= WindowAndChunk
    BY Unacknowledged
  <2> QED
    BY <2>6, <2>7, <2>8, <2>9 DEF BoundedBuffers, WindowAndChunk
<1> QED
  BY <1>1, Invariance, PTL

\* A sum bounds each of its terms.
LEMMA TermsBounded ==
  ASSUME NEW w \in Nat, NEW lo \in Int, NEW a \in Int, NEW b \in Nat, NEW c \in Nat,
         NEW d \in Nat, NEW e \in Nat, a + b + c + d + e <= w, w - lo <= a
  PROVE  a <= w /\ b <= lo /\ c <= lo /\ d <= lo /\ e <= lo
  OBVIOUS

\* What conservation says of each count: a sender has at most the window and
\* at least what it has not yet overdrawn, and nothing else exceeds what was said.
LEMMA CountsInFlow ==
  ASSUME IInv
  PROVE  /\ srv.sendCredit \in (-MaxCount)..Window
         /\ cli.sendCredit \in (-MaxCount)..Window
         /\ srv.recvUnacked \in 0..MaxCount
         /\ cli.recvUnacked \in 0..MaxCount
         /\ AcksIn(toAgent) <= MaxCount
         /\ AcksIn(toServer) <= MaxCount
<1>1. Types /\ Flow
  BY DEF IInv
<1>2. /\ Window \in Nat /\ UpBytes \in Nat /\ DownBytes \in Nat
  BY BridgeAssumption
<1>3. /\ toAgent \in Seq(WireFrame) /\ toServer \in Seq(WireFrame)
      /\ visitorSaid \in 0..UpBytes /\ serviceSaid \in 0..DownBytes
      /\ pub \in Socket(Bytes) /\ loc \in Socket(Bytes)
      /\ srv \in SrvType /\ cli \in CliType
  BY <1>1 DEF Types
<1>4. /\ DataIn(toAgent) \in Nat /\ AcksIn(toAgent) \in Nat
      /\ DataIn(toServer) \in Nat /\ AcksIn(toServer) \in Nat
  BY <1>3, CountsBounded DEF WireFrame
<1>5. QueuedBytes \in Nat
  BY <1>3, QueuedTyped DEF QueuedBytes
<1>6. Len(pub.inq) \in Nat /\ Len(loc.inq) \in Nat
  BY <1>3, SocketTyped
<1>7. /\ srv.sendCredit \in Int /\ srv.recvUnacked \in Nat
  BY <1>3 DEF SrvType
<1>8. /\ cli.sendCredit \in Int /\ cli.recvUnacked \in Nat
  BY <1>3 DEF CliType
<1>9. /\ srv.sendCredit + DataIn(toAgent) + QueuedBytes + cli.recvUnacked
           + AcksIn(toServer) <= Window
      /\ cli.sendCredit + DataIn(toServer) + srv.recvUnacked + AcksIn(toAgent)
           <= Window
      /\ srv.sendCredit + visitorSaid - Len(pub.inq) >= Window
      /\ cli.sendCredit + serviceSaid - Len(loc.inq) >= Window
  BY <1>1 DEF Flow, UpSum, DownSum
<1> DEFINE sc == srv.sendCredit
           cc == cli.sendCredit
           su == srv.recvUnacked
           cu == cli.recvUnacked
           q  == QueuedBytes
           da == DataIn(toAgent)
           ds == DataIn(toServer)
           aa == AcksIn(toAgent)
           at == AcksIn(toServer)
           pi == Len(pub.inq)
           li == Len(loc.inq)
<1>10. /\ sc \in Int /\ cc \in Int /\ su \in Nat /\ cu \in Nat /\ q \in Nat
       /\ da \in Nat /\ ds \in Nat /\ aa \in Nat /\ at \in Nat
       /\ pi \in Nat /\ li \in Nat
       /\ sc + da + q + cu + at <= Window
       /\ cc + ds + su + aa <= Window
       /\ sc + visitorSaid - pi >= Window
       /\ cc + serviceSaid - li >= Window
       /\ visitorSaid \in 0..UpBytes /\ serviceSaid \in 0..DownBytes
  BY <1>3, <1>4, <1>5, <1>6, <1>7, <1>8, <1>9
<1> HIDE DEF sc, cc, su, cu, q, da, ds, aa, at, pi, li
<1>11. /\ sc \in (-MaxCount)..Window /\ cc \in (-MaxCount)..Window
       /\ su \in 0..MaxCount /\ cu \in 0..MaxCount
       /\ aa <= MaxCount /\ at <= MaxCount
  <2>1. /\ MaxCount \in Nat /\ Window <= MaxCount
        /\ UpBytes <= MaxCount /\ DownBytes <= MaxCount
    BY ONLY <1>2 DEF MaxCount
  <2>2. sc >= Window - UpBytes /\ cc >= Window - DownBytes
    BY ONLY <1>2, <1>10
  <2>3. sc <= Window /\ cu <= UpBytes /\ at <= UpBytes
    <3>1. sc + da + q + cu + at <= Window /\ Window - UpBytes <= sc
      BY ONLY <1>2, <1>10, <2>2
    <3>2. /\ Window \in Nat /\ UpBytes \in Int /\ sc \in Int /\ da \in Nat
          /\ q \in Nat /\ cu \in Nat /\ at \in Nat
      BY ONLY <1>2, <1>10
    <3> QED
      BY ONLY <3>1, <3>2, TermsBounded
  <2>4. cc <= Window /\ su <= DownBytes /\ aa <= DownBytes
    <3>1. cc + ds + su + aa + 0 <= Window
      BY ONLY <1>2, <1>10
    <3> QED
      BY ONLY <1>2, <1>10, <2>2, <3>1, TermsBounded
  <2>5. sc >= -MaxCount /\ cc >= -MaxCount
    BY ONLY <1>2, <1>10, <2>1, <2>2
  <2>6. /\ su <= MaxCount /\ cu <= MaxCount /\ aa <= MaxCount /\ at <= MaxCount
        /\ su \in Nat /\ cu \in Nat
    <3>1. su \in Nat /\ cu \in Nat /\ aa \in Nat /\ at \in Nat
      BY ONLY <1>10
    <3>2. cu <= MaxCount /\ at <= MaxCount
      BY ONLY <1>2, <2>1, <2>3, <3>1
    <3>3. su <= MaxCount /\ aa <= MaxCount
      BY ONLY <1>2, <2>1, <2>4, <3>1
    <3> QED
      BY ONLY <3>1, <3>2, <3>3
  <2>7. sc \in (-MaxCount)..Window /\ cc \in (-MaxCount)..Window
    BY ONLY <1>2, <1>10, <2>1, <2>3, <2>4, <2>5
  <2>8. su \in 0..MaxCount /\ cu \in 0..MaxCount
    BY ONLY <2>1, <2>6
  <2> QED
    BY ONLY <2>6, <2>7, <2>8
<1> QED
  BY <1>11 DEF sc, cc, su, cu, aa, at

\* A queue that acknowledges so much has only frames that acknowledge so much.
LEMMA FramesBounded ==
  ASSUME NEW c \in Seq(WireFrame), NEW m \in Nat, AcksIn(c) <= m
  PROVE  c \in Seq(Frame(Bytes, m))
<1>1. /\ AcksIn(c) \in Nat
      /\ \A i \in DOMAIN c : c[i].type = "ACK" => c[i].n <= AcksIn(c)
  BY CountsBounded DEF WireFrame
<1>2. \A i \in DOMAIN c : c[i] \in Frame(Bytes, m)
  <2> TAKE i \in DOMAIN c
  <2>1. c[i] \in WireFrame
    OBVIOUS
  <2> DEFINE f == c[i]
  <2>2. f.type = "ACK" => f.n <= m
    <3> SUFFICES ASSUME f.type = "ACK" PROVE f.n <= m
      OBVIOUS
    <3>1. f.n \in Nat /\ f.n <= AcksIn(c)
      BY <1>1, <2>1, FrameKinds DEF WireFrame
    <3> HIDE DEF f
    <3> QED
      BY ONLY <1>1, <3>1, AcksIn(c) <= m, m \in Nat
  <2>3. f \in WireFrame
    BY <2>1
  <2> HIDE DEF f
  <2>4. f \in Frame(Bytes, m)
    BY ONLY <2>2, <2>3, m \in Nat DEF WireFrame, SomeFrame, Frame
  <2> QED
    BY <2>4 DEF f
<1> QED
  BY <1>2

\* The type invariant, with the bounds on credit, on what is unacknowledged and
\* on what a STREAM_ACK carries.
THEOREM TypeCorrect == Spec => []TypeOK
<1>1. IInv => TypeOK
  <2> SUFFICES ASSUME IInv PROVE TypeOK
    OBVIOUS
  <2>1. Types
    BY DEF IInv
  <2>2. /\ srv.sendCredit \in (-MaxCount)..Window
        /\ cli.sendCredit \in (-MaxCount)..Window
        /\ srv.recvUnacked \in 0..MaxCount
        /\ cli.recvUnacked \in 0..MaxCount
        /\ AcksIn(toAgent) <= MaxCount
        /\ AcksIn(toServer) <= MaxCount
    BY CountsInFlow
  <2>3. MaxCount \in Nat
    BY BridgeAssumption DEF MaxCount
  <2>4. toAgent \in Seq(Frame(Bytes, MaxCount)) /\ toServer \in Seq(Frame(Bytes, MaxCount))
    BY <2>1, <2>2, <2>3, FramesBounded DEF Types
  <2>5. S!ServerTypeOK(Bytes, MaxCount)
    <3>1. srv \in [opened : BOOLEAN,
                   sendCredit : (-MaxCount)..Window, recvUnacked : 0..MaxCount,
                   pausedForCredit : BOOLEAN, pausedGlobally : BOOLEAN,
                   sentEof : BOOLEAN, receivedEof : BOOLEAN, finished : BOOLEAN]
      <4>1. srv \in SrvType
        BY <2>1 DEF Types
      <4> QED
        BY ONLY <2>2, <4>1 DEF SrvType
    <3> QED
      BY <2>1, <3>1 DEF Types, S!ServerTypeOK, Socket, S!Socket
  <2>6. C!ClientTypeOK(Bytes, MaxCount)
    <3>1. cli \in [dial : {"none", "pending", "over"}, connected : BOOLEAN,
                   sendCredit : (-MaxCount)..Window, recvUnacked : 0..MaxCount,
                   pausedForCredit : BOOLEAN, pausedGlobally : BOOLEAN,
                   sentEof : BOOLEAN, receivedEof : BOOLEAN, finished : BOOLEAN,
                   queued : Seq(Seq(Bytes)), queuedEof : BOOLEAN,
                   headBuf : Seq(Bytes), headDone : BOOLEAN,
                   rewriteHost : BOOLEAN]
      <4>1. cli \in CliType
        BY <2>1 DEF Types
      <4>2. cli.queued \in Seq(Seq(Bytes) \ {<<>>})
        BY <4>1 DEF CliType
      <4>3. cli.queued \in Seq(Seq(Bytes))
        BY <4>2
      <4> QED
        BY ONLY <2>2, <4>1, <4>3 DEF CliType
    <3> QED
      BY <2>1, <3>1 DEF Types, C!ClientTypeOK, Socket, C!Socket
  <2> QED
    BY <2>1, <2>4, <2>5, <2>6 DEF Types, TypeOK
<1> QED
  BY <1>1, Invariance, PTL

-----------------------------------------------------------------------------
\* The refinement: the law of a turn, read as a step of a credit window.

\* What the abstract state of each direction is made of.
LEMMA CountsKnown ==
  ASSUME IInv
  PROVE  /\ srv.sendCredit \in Int /\ srv.recvUnacked \in Nat
         /\ cli.sendCredit \in Int /\ cli.recvUnacked \in Nat
         /\ QueuedBytes \in Nat /\ QueuedBytes + cli.recvUnacked \in Nat
         /\ DataIn(toAgent) \in Nat /\ AcksIn(toAgent) \in Nat
         /\ DataIn(toServer) \in Nat /\ AcksIn(toServer) \in Nat
<1>1. /\ toAgent \in Seq(WireFrame) /\ toServer \in Seq(WireFrame)
      /\ srv \in SrvType /\ cli \in CliType
  BY DEF IInv, Types
<1>2. /\ DataIn(toAgent) \in Nat /\ AcksIn(toAgent) \in Nat
      /\ DataIn(toServer) \in Nat /\ AcksIn(toServer) \in Nat
  BY <1>1, CountsBounded DEF WireFrame
<1>3. QueuedBytes \in Nat
  BY <1>1, QueuedTyped DEF QueuedBytes
<1>4. srv.sendCredit \in Int /\ srv.recvUnacked \in Nat
  BY <1>1 DEF SrvType
<1>5. cli.sendCredit \in Int /\ cli.recvUnacked \in Nat
  BY <1>1 DEF CliType
<1>6. QueuedBytes + cli.recvUnacked \in Nat
  BY ONLY <1>3, <1>5
<1> QED
  BY <1>2, <1>3, <1>4, <1>5, <1>6

\* Once an end has finished, or the link is gone, the window means nothing, and
\* giving it up is a step of its own.
LEMMA NotLiveIsOver ==
  ASSUME BothLive \in BOOLEAN, BothLive' \in BOOLEAN, BothLive' => BothLive, ~BothLive'
  PROVE  [Upward!Next]_(Upward!vars) /\ [Downward!Next]_(Downward!vars)
<1>1. CASE BothLive
  <2>1. Upward!Abandon /\ Downward!Abandon
    BY <1>1 DEF Upward!Abandon, Downward!Abandon, Live
  <2> QED
    BY <2>1 DEF Upward!Next, Downward!Next
<1>2. CASE ~BothLive
  <2>1. UNCHANGED Upward!vars /\ UNCHANGED Downward!vars
    BY <1>2 DEF Upward!vars, Downward!vars, Live
  <2> QED
    BY <2>1
<1> QED
  BY <1>1, <1>2

\* A direction as its sender's turns move it: it sends up to a chunk while it
\* has credit, or it is granted what was acknowledged, or it does neither.
SenderMoves(credit, inflight, ackflight, credit2, inflight2, ackflight2, largest) ==
    \/ /\ credit > 0
       /\ \E k \in 1..largest : credit2 = credit - k /\ inflight2 = inflight + k
       /\ ackflight2 = ackflight
    \/ /\ \E n \in 1..ackflight : credit2 = credit + n /\ ackflight2 = ackflight - n
       /\ inflight2 = inflight
    \/ credit2 = credit /\ inflight2 = inflight /\ ackflight2 = ackflight

\* A direction as its receiver's turns move it.
ReceiverMoves(inflight, unacked, ackflight, inflight2, unacked2, ackflight2) ==
    \/ \E k \in 1..inflight : \E n \in 0..(unacked + k) :
          /\ inflight2 = inflight - k
          /\ unacked2 = unacked + k - n
          /\ ackflight2 = ackflight + n
    \/ /\ \E n \in 1..unacked : unacked2 = unacked - n /\ ackflight2 = ackflight + n
       /\ inflight2 = inflight
    \/ inflight2 = inflight /\ unacked2 = unacked /\ ackflight2 = ackflight

\* The sender's equation (it pays de, having taken grants of gt) is such a move.
LEMMA SenderLaw ==
  ASSUME NEW c \in Int, NEW i \in Nat, NEW a \in Nat,
         NEW c2 \in Int, NEW i2 \in Nat, NEW a2 \in Nat,
         NEW de \in Nat, NEW gt \in Nat, NEW largest \in Nat,
         c2 + de = c + gt, i2 = i + de, a = gt + a2,
         de > 0 => c > 0 /\ de <= largest /\ gt = 0
  PROVE  SenderMoves(c, i, a, c2, i2, a2, largest)
<1>1. CASE de > 0
  <2>1. /\ c > 0 /\ de \in 1..largest /\ c2 = c - de /\ i2 = i + de /\ a2 = a
    BY <1>1
  <2> QED
    BY ONLY <2>1 DEF SenderMoves
<1>2. CASE de = 0 /\ gt > 0
  <2>1. gt \in 1..a /\ c2 = c + gt /\ a2 = a - gt /\ i2 = i
    BY <1>2
  <2> QED
    BY ONLY <2>1 DEF SenderMoves
<1>3. CASE de = 0 /\ gt = 0
  <2>1. c2 = c /\ i2 = i /\ a2 = a
    BY <1>3
  <2> QED
    BY ONLY <2>1 DEF SenderMoves
<1> QED
  BY <1>1, <1>2, <1>3

\* So is the receiver's: it takes dt and acknowledges ge.
LEMMA ReceiverLaw ==
  ASSUME NEW i \in Nat, NEW u \in Nat, NEW a \in Nat,
         NEW i2 \in Nat, NEW u2 \in Nat, NEW a2 \in Nat,
         NEW dt \in Nat, NEW ge \in Nat,
         u2 + ge = u + dt, i = dt + i2, a2 = a + ge
  PROVE  ReceiverMoves(i, u, a, i2, u2, a2)
<1>1. CASE dt > 0
  <2>1. /\ dt \in 1..i /\ ge \in 0..(u + dt)
        /\ i2 = i - dt /\ u2 = u + dt - ge /\ a2 = a + ge
    BY <1>1
  <2> QED
    BY ONLY <2>1 DEF ReceiverMoves
<1>2. CASE dt = 0 /\ ge > 0
  <2>1. ge \in 1..u /\ u2 = u - ge /\ a2 = a + ge /\ i2 = i
    BY <1>2
  <2> QED
    BY ONLY <2>1 DEF ReceiverMoves
<1>3. CASE dt = 0 /\ ge = 0
  <2>1. i2 = i /\ u2 = u /\ a2 = a
    BY <1>3
  <2> QED
    BY ONLY <2>1 DEF ReceiverMoves
<1> QED
  BY <1>1, <1>2, <1>3

\* Moves of the counts are steps of the abstract windows.
LEMMA UpwardMoves ==
  ASSUME BothLive, BothLive',
         \/ /\ SenderMoves(srv.sendCredit, DataIn(toAgent), AcksIn(toServer),
                           srv'.sendCredit, DataIn(toAgent'), AcksIn(toServer'),
                           Largest)
            /\ (QueuedBytes + cli.recvUnacked)' = QueuedBytes + cli.recvUnacked
         \/ /\ ReceiverMoves(DataIn(toAgent), QueuedBytes + cli.recvUnacked,
                             AcksIn(toServer), DataIn(toAgent'),
                             (QueuedBytes + cli.recvUnacked)', AcksIn(toServer'))
            /\ srv'.sendCredit = srv.sendCredit
  PROVE  [Upward!Next]_(Upward!vars)
<1>1. \A n : Live(n) = n
  BY DEF Live
<1>2. /\ Live(srv.sendCredit)' = srv'.sendCredit
      /\ Live(DataIn(toAgent))' = DataIn(toAgent')
      /\ Live(QueuedBytes + cli.recvUnacked)' = (QueuedBytes + cli.recvUnacked)'
      /\ Live(AcksIn(toServer))' = AcksIn(toServer')
  BY DEF Live
<1> QED
  BY <1>1, <1>2 DEF SenderMoves, ReceiverMoves, Upward!Next, Upward!SendData,
     Upward!Receive, Upward!Acknowledge, Upward!Grant, Upward!vars

\* The same for the service's direction.
LEMMA DownwardMoves ==
  ASSUME BothLive, BothLive',
         \/ /\ SenderMoves(cli.sendCredit, DataIn(toServer), AcksIn(toAgent),
                           cli'.sendCredit, DataIn(toServer'), AcksIn(toAgent'),
                           MaxChunk)
            /\ srv'.recvUnacked = srv.recvUnacked
         \/ /\ ReceiverMoves(DataIn(toServer), srv.recvUnacked, AcksIn(toAgent),
                             DataIn(toServer'), srv'.recvUnacked, AcksIn(toAgent'))
            /\ cli'.sendCredit = cli.sendCredit
  PROVE  [Downward!Next]_(Downward!vars)
<1>1. \A n : Live(n) = n
  BY DEF Live
<1>2. /\ Live(cli.sendCredit)' = cli'.sendCredit
      /\ Live(DataIn(toServer))' = DataIn(toServer')
      /\ Live(srv.recvUnacked)' = srv'.recvUnacked
      /\ Live(AcksIn(toAgent))' = AcksIn(toAgent')
  BY DEF Live
<1> QED
  BY <1>1, <1>2 DEF SenderMoves, ReceiverMoves, Downward!Next, Downward!SendData,
     Downward!Receive, Downward!Acknowledge, Downward!Grant, Downward!vars

\* A turn of the server's end sends in one window and receives in the other.
LEMMA SrvRefines ==
  ASSUME IInv, IInv', NEW e, NEW t, SrvLaw(e, t)
  PROVE  [Upward!Next]_(Upward!vars) /\ [Downward!Next]_(Downward!vars)
<1>1. SrvWire(e, t) /\ SrvWord(e, t) /\ SrvBytes(e, t)
  BY DEF SrvLaw
<1>2. /\ BothLive \in BOOLEAN /\ BothLive' \in BOOLEAN
      /\ BothLive' => BothLive /\ ~srv'.finished /\ linkUp
  <2>1. linkUp' = linkUp
    BY <1>1 DEF SrvWire
  <2>2. BothLive' => linkUp
    BY <2>1 DEF BothLive
  <2>3. BothLive \in BOOLEAN /\ BothLive' \in BOOLEAN
    BY DEF BothLive
  <2> QED
    BY <1>1, <2>2, <2>3, SrvStaysOver
<1>3. CASE ~BothLive'
  BY <1>2, <1>3, NotLiveIsOver
<1>4. CASE BothLive'
  <2>1. /\ DataIn(toAgent') = DataIn(toAgent) + DataIn(e)
        /\ AcksIn(toAgent') = AcksIn(toAgent) + AcksIn(e)
        /\ DataIn(toServer) = DataIn(t) + DataIn(toServer')
        /\ AcksIn(toServer) = AcksIn(t) + AcksIn(toServer')
        /\ DataIn(e) \in Nat /\ AcksIn(e) \in Nat
        /\ DataIn(t) \in Nat /\ AcksIn(t) \in Nat
    BY <1>1, <1>2, <1>4, SrvSeen
  <2>2. /\ srv'.sendCredit + DataIn(e) = srv.sendCredit + AcksIn(t)
        /\ srv'.recvUnacked + AcksIn(e) = srv.recvUnacked + DataIn(t)
        /\ DataIn(e) > 0 => srv.sendCredit > 0 /\ DataIn(e) <= Largest /\ t = <<>>
    BY <1>1, <1>2, <1>4 DEF SrvBytes
  <2>3. DataIn(e) > 0 => AcksIn(t) = 0
    BY <2>2, FewFrames
  <2>4. /\ (QueuedBytes + cli.recvUnacked)' = QueuedBytes + cli.recvUnacked
        /\ cli'.sendCredit = cli.sendCredit
    BY <1>1 DEF SrvWire, cVars, QueuedBytes
  <2>5. /\ srv.sendCredit \in Int /\ srv.recvUnacked \in Nat
        /\ DataIn(toAgent) \in Nat /\ AcksIn(toAgent) \in Nat
        /\ DataIn(toServer) \in Nat /\ AcksIn(toServer) \in Nat
    BY CountsKnown
  <2>6. /\ srv'.sendCredit \in Int /\ srv'.recvUnacked \in Nat
        /\ DataIn(toAgent') \in Nat /\ AcksIn(toAgent') \in Nat
        /\ DataIn(toServer') \in Nat /\ AcksIn(toServer') \in Nat
    <3>1. Types'
      BY DEF IInv
    <3>2. /\ toAgent' \in Seq(WireFrame) /\ toServer' \in Seq(WireFrame)
          /\ srv' \in SrvType
      BY <3>1 DEF Types
    <3>3. srv'.sendCredit \in Int /\ srv'.recvUnacked \in Nat
      BY <3>2 DEF SrvType
    <3> QED
      BY <3>2, <3>3, CountsBounded DEF WireFrame
  <2>7. Largest \in Nat
    BY LargestBounds
  <2>8. SenderMoves(srv.sendCredit, DataIn(toAgent), AcksIn(toServer),
                    srv'.sendCredit, DataIn(toAgent'), AcksIn(toServer'), Largest)
    BY ONLY <2>1, <2>2, <2>3, <2>5, <2>6, <2>7, SenderLaw
  <2>9. ReceiverMoves(DataIn(toServer), srv.recvUnacked, AcksIn(toAgent),
                      DataIn(toServer'), srv'.recvUnacked, AcksIn(toAgent'))
    BY ONLY <2>1, <2>2, <2>5, <2>6, ReceiverLaw
  <2> QED
    BY <1>2, <1>4, <2>4, <2>8, <2>9, UpwardMoves, DownwardMoves
<1> QED
  BY <1>3, <1>4

\* So does a turn of the agent's end.
LEMMA CliRefines ==
  ASSUME IInv, IInv', NEW e, NEW t, CliLaw(e, t)
  PROVE  [Upward!Next]_(Upward!vars) /\ [Downward!Next]_(Downward!vars)
<1>1. CliWire(e, t) /\ CliWord(e, t) /\ CliBytes(e, t)
  BY DEF CliLaw
<1>2. /\ BothLive \in BOOLEAN /\ BothLive' \in BOOLEAN
      /\ BothLive' => /\ BothLive /\ ~cli'.finished /\ linkUp
                      /\ ~(cli'.dial = "none" /\ t # <<>>)
  <2>1. linkUp' = linkUp
    BY <1>1 DEF CliWire
  <2>2. BothLive' => linkUp
    BY <2>1 DEF BothLive
  <2>3. BothLive \in BOOLEAN /\ BothLive' \in BOOLEAN
    BY DEF BothLive
  <2> QED
    BY <1>1, <2>2, <2>3, CliStaysOver
<1>3. CASE ~BothLive'
  BY <1>2, <1>3, NotLiveIsOver
<1>4. CASE BothLive'
  <2> DEFINE was == QueuedBytes + cli.recvUnacked
             is  == (QueuedBytes + cli.recvUnacked)'
  <2>1. /\ DataIn(toServer') = DataIn(toServer) + DataIn(e)
        /\ AcksIn(toServer') = AcksIn(toServer) + AcksIn(e)
        /\ DataIn(toAgent) = DataIn(t) + DataIn(toAgent')
        /\ AcksIn(toAgent) = AcksIn(t) + AcksIn(toAgent')
        /\ DataIn(e) \in Nat /\ AcksIn(e) \in Nat
        /\ DataIn(t) \in Nat /\ AcksIn(t) \in Nat
    BY <1>1, <1>2, <1>4, CliSeen
  <2>2. /\ cli'.sendCredit + DataIn(e) = cli.sendCredit + AcksIn(t)
        /\ is + AcksIn(e) = was + DataIn(t)
        /\ DataIn(e) > 0 => cli.sendCredit > 0 /\ DataIn(e) <= MaxChunk /\ t = <<>>
    BY <1>1, <1>2, <1>4 DEF CliBytes
  <2>3. DataIn(e) > 0 => AcksIn(t) = 0
    BY <2>2, FewFrames
  <2>4. srv'.recvUnacked = srv.recvUnacked /\ srv'.sendCredit = srv.sendCredit
    BY <1>1 DEF CliWire, sVars
  <2>5. /\ cli.sendCredit \in Int /\ was \in Nat
        /\ DataIn(toAgent) \in Nat /\ AcksIn(toAgent) \in Nat
        /\ DataIn(toServer) \in Nat /\ AcksIn(toServer) \in Nat
    BY CountsKnown
  <2>6. /\ cli'.sendCredit \in Int /\ is \in Nat
        /\ DataIn(toAgent') \in Nat /\ AcksIn(toAgent') \in Nat
        /\ DataIn(toServer') \in Nat /\ AcksIn(toServer') \in Nat
    <3>1. Types'
      BY DEF IInv
    <3>2. /\ toAgent' \in Seq(WireFrame) /\ toServer' \in Seq(WireFrame)
          /\ cli' \in CliType
      BY <3>1 DEF Types
    <3>3. cli'.sendCredit \in Int /\ cli'.recvUnacked \in Nat
      BY <3>2 DEF CliType
    <3>4. QueuedBytes' \in Nat
      BY <3>2, QueuedTyped DEF QueuedBytes
    <3>5. is \in Nat
      BY ONLY <3>3, <3>4
    <3>6. /\ DataIn(toAgent') \in Nat /\ AcksIn(toAgent') \in Nat
          /\ DataIn(toServer') \in Nat /\ AcksIn(toServer') \in Nat
      BY <3>2, CountsBounded DEF WireFrame
    <3> QED
      BY <3>3, <3>5, <3>6
  <2>7. MaxChunk \in Nat
    BY SocketAssumption
  <2> HIDE DEF was, is
  <2>8. SenderMoves(cli.sendCredit, DataIn(toServer), AcksIn(toAgent),
                    cli'.sendCredit, DataIn(toServer'), AcksIn(toAgent'), MaxChunk)
    BY ONLY <2>1, <2>2, <2>3, <2>5, <2>6, <2>7, SenderLaw
  <2>9. ReceiverMoves(DataIn(toAgent), was, AcksIn(toServer),
                      DataIn(toAgent'), is, AcksIn(toServer'))
    BY ONLY <2>1, <2>2, <2>5, <2>6, ReceiverLaw
  <2> QED
    BY <1>2, <1>4, <2>4, <2>8, <2>9, UpwardMoves, DownwardMoves DEF was, is
<1> QED
  BY <1>3, <1>4

\* In each direction the two ends implement the credit window: what they do to
\* it, in whatever order their turns come, is what CreditWindow allows, so its
\* theorems hold of the bridge.
THEOREM Windows == Spec => BothAreWindows
<1>1. Init => Upward!Init /\ Downward!Init
  <2> SUFFICES ASSUME Init PROVE Upward!Init /\ Downward!Init
    OBVIOUS
  <2>1. /\ srv = S!NoStream /\ linkUp = TRUE /\ toAgent = <<>> /\ toServer = <<>>
    BY SameOperators DEF Init, S!ServerInit
  <2>2. PICK r \in RewriteHosts : cli = C!NoClientStream(r)
    BY DEF Init, C!ClientInit
  <2>3. /\ cli.sendCredit = Window /\ cli.recvUnacked = 0 /\ ~cli.finished
        /\ cli.queued = <<>>
    BY <2>2 DEF C!NoClientStream
  <2>4. ~srv.opened /\ ~srv.finished /\ srv.sendCredit = Window /\ srv.recvUnacked = 0
    BY <2>1 DEF S!NoStream
  <2>5. BothLive = TRUE
    BY <2>1, <2>3, <2>4 DEF BothLive, Refused
  <2>6. QueuedBytes = 0
    <3>1. [i \in DOMAIN cli.queued |-> Len(cli.queued[i])] = <<>>
      BY <2>3
    <3> QED
      BY <3>1, SumEmpty DEF QueuedBytes
  <2>7. QueuedBytes + cli.recvUnacked = 0
    BY <2>3, <2>6
  <2>8. /\ DataIn(toAgent) = 0 /\ AcksIn(toAgent) = 0
        /\ DataIn(toServer) = 0 /\ AcksIn(toServer) = 0
    BY <2>1, FewFrames
  <2> QED
    BY <2>3, <2>4, <2>5, <2>7, <2>8 DEF Upward!Init, Downward!Init, Live
<1>2. /\ IInv /\ IInv' /\ [Next]_vars
         => [Upward!Next]_(Upward!vars) /\ [Downward!Next]_(Downward!vars)
  <2> SUFFICES ASSUME IInv, IInv', [Next]_vars
               PROVE  [Upward!Next]_(Upward!vars) /\ [Downward!Next]_(Downward!vars)
    OBVIOUS
  <2>1. CASE \E e, t : SrvLaw(e, t)
    BY <2>1, SrvRefines
  <2>2. CASE \E e, t : CliLaw(e, t)
    BY <2>2, CliRefines
  <2>3. CASE LinkLost
    <3>1. BothLive \in BOOLEAN /\ BothLive' \in BOOLEAN
      BY DEF BothLive
    <3>2. ~BothLive'
      BY <2>3 DEF LinkLost, BothLive
    <3>3. BothLive' => BothLive
      BY <3>2
    <3> QED
      BY <3>1, <3>2, <3>3, NotLiveIsOver
  <2>4. CASE UNCHANGED vars
    <3>1. /\ srv' = srv /\ cli' = cli /\ linkUp' = linkUp
          /\ toAgent' = toAgent /\ toServer' = toServer
      BY <2>4 DEF vars, sVars, cVars, linkVars
    <3>2. BothLive' = BothLive /\ QueuedBytes' = QueuedBytes
      BY <3>1 DEF BothLive, Refused, QueuedBytes
    <3> QED
      BY <3>1, <3>2 DEF Upward!vars, Downward!vars, Live
  <2> QED
    BY <2>1, <2>2, <2>3, <2>4, EveryStep
<1>3. /\ []IInv /\ Init /\ [][Next]_vars
         => /\ Upward!Init /\ [][Upward!Next]_(Upward!vars)
            /\ Downward!Init /\ [][Downward!Next]_(Downward!vars)
  BY <1>1, <1>2, PTL
<1> QED
  BY <1>3, Invariance DEF Spec, BothAreWindows, Upward!Spec, Downward!Spec
=============================================================================
