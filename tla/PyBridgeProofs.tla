--------------------------- MODULE PyBridgeProofs ---------------------------
(***************************************************************************)
(* Theorems about PyBridge, for every value of the constants: its types,   *)
(* that no end gives the stream up behind the other's back, and that each  *)
(* direction implements CreditWindow.  The server's end is the one of      *)
(* StreamBridge, but its lemmas cannot be shared: they are about that      *)
(* module's variables.  So the first parts follow StreamBridgeProofs       *)
(* closely, and the parts on the agent's three tasks are of this module.   *)
(***************************************************************************)
EXTENDS PyBridge, SequenceTheorems, WellFoundedInduction, TLAPS

-----------------------------------------------------------------------------
\* What a channel of frames carries, for channels of any length.  SumOf is a
\* recursive function, and the library states induction over an operator: here
\* a first number that fails is the least of a set, which WFMin provides.

\* A set of numbers has a least one.
LEMMA LeastNumber ==
  ASSUME NEW T \in SUBSET Nat, T # {}
  PROVE  \E m \in T : \A n \in T : m <= n
<1> DEFINE R == OpToRel(<, Nat)
<1>1. IsWellFoundedOn(R, Nat)
  BY NatLessThanWellFounded
<1>2. R = {ss \in Nat \X Nat : ss[1] < ss[2]}
  BY DEF OpToRel
<1> HIDE DEF R
<1>3. PICK x \in T : \A y \in T : ~ (<<y, x>> \in R)
  BY <1>1, WFMin
<1>4. \A y \in T : ~(y < x)
  BY <1>2, <1>3
<1>5. \A y \in T : y \in Int /\ x \in Int
  OBVIOUS
<1> QED
  BY <1>4, <1>5

\* Induction along a finite range, over a set.
LEMMA Induction ==
  ASSUME NEW n \in Nat, NEW T, 0 \in T, \A k \in 1..n : k - 1 \in T => k \in T
  PROVE  \A k \in 0..n : k \in T
<1> DEFINE F == {k \in 0..n : k \notin T}
<1> SUFFICES ASSUME F # {} PROVE FALSE
  OBVIOUS
<1>1. F \in SUBSET Nat
  OBVIOUS
<1>2. PICK m \in F : \A k \in F : m <= k
  BY <1>1, LeastNumber
<1>3. m \in 1..n /\ m - 1 \in 0..n /\ ~(m <= m - 1)
  OBVIOUS
<1>4. m - 1 \in T
  BY <1>2, <1>3
<1> QED
  BY <1>3, <1>4

Iteration(g, A, a, n, G) ==
    /\ g \in [0..n -> A]
    /\ g[0] = a
    /\ \A i \in 1..n : g[i] = G[i][g[i - 1]]

\* Primitive recursion along a finite range.
LEMMA Iterates ==
  ASSUME NEW A, NEW a \in A, NEW n \in Nat, NEW G \in [1..n -> [A -> A]]
  PROVE  \E g : Iteration(g, A, a, n, G)
<1> DEFINE Good(k) == \E g \in [0..k -> A] :
                         g[0] = a /\ \A i \in 1..k : g[i] = G[i][g[i - 1]]
           T == {k \in 0..n : Good(k)}
<1>1. Good(0)
  <2> DEFINE g == [i \in 0..0 |-> a]
  <2>1. g \in [0..0 -> A] /\ g[0] = a /\ \A i \in 1..0 : g[i] = G[i][g[i - 1]]
    OBVIOUS
  <2> QED BY <2>1
<1>2. ASSUME NEW k \in 1..n, Good(k - 1)
      PROVE  Good(k)
  <2>1. PICK g \in [0..(k - 1) -> A] :
          g[0] = a /\ \A i \in 1..(k - 1) : g[i] = G[i][g[i - 1]]
    BY <1>2
  <2> DEFINE e == G[k][g[k - 1]]
             h == [i \in 0..k |-> IF i = k THEN e ELSE g[i]]
  <2>2. k - 1 \in 0..(k - 1) /\ g[k - 1] \in A
    OBVIOUS
  <2>3. G[k] \in [A -> A]
    OBVIOUS
  <2>4. e \in A
    BY <2>2, <2>3
  <2> HIDE DEF e
  <2>5. h \in [0..k -> A]
    BY <2>4
  <2>6. h[0] = a
    BY <2>1
  <2>7. ASSUME NEW i \in 1..k PROVE h[i] = G[i][h[i - 1]]
    <3>1. CASE i = k
      BY <3>1 DEF e
    <3>2. CASE i # k
      BY <3>2, <2>1
    <3> QED BY <3>1, <3>2
  <2> HIDE DEF h
  <2> QED BY <2>5, <2>6, <2>7
<1> HIDE DEF Good
<1>3. 0 \in T /\ \A k \in 1..n : k - 1 \in T => k \in T
  BY <1>1, <1>2
<1> HIDE DEF T
<1>4. n \in T
  <2>1. \A k \in 0..n : k \in T
    BY <1>3, Induction
  <2> QED
    BY <2>1
<1> QED
  BY <1>4 DEF Good, T, Iteration

\* SumOf adds its counts up one by one.
LEMMA SumUpTo ==
  ASSUME NEW ns \in Seq(Int)
  PROVE  \E g \in [0..Len(ns) -> Int] :
           /\ g[0] = 0
           /\ \A i \in 1..Len(ns) : g[i] = g[i - 1] + ns[i]
           /\ SumOf(ns) = g[Len(ns)]
<1> DEFINE n == Len(ns)
           f == CHOOSE f : f = [i \in 0..n |-> IF i = 0 THEN 0 ELSE f[i - 1] + ns[i]]
           G == [i \in 1..n |-> [s \in Int |-> s + ns[i]]]
<1>1. n \in Nat /\ \A i \in 1..n : ns[i] \in Int
  OBVIOUS
<1>2. G \in [1..n -> [Int -> Int]]
  BY <1>1
<1>3. \A i \in 1..n : \A s \in Int : G[i][s] = s + ns[i]
  OBVIOUS
<1> HIDE DEF n, G
<1>4. PICK g : Iteration(g, Int, 0, n, G)
  <2>1. 0 \in Int
    OBVIOUS
  <2> QED
    BY ONLY <1>1, <1>2, <2>1, Iterates
<1>4a. \A i \in 1..n : g[i] = g[i - 1] + ns[i]
  <2> TAKE i \in 1..n
  <2>1. i - 1 \in 0..n
    BY <1>1
  <2> QED
    BY <2>1, <1>3, <1>4 DEF Iteration
<1>5. g = [i \in 0..n |-> IF i = 0 THEN 0 ELSE g[i - 1] + ns[i]]
  <2> DEFINE h == [i \in 0..n |-> IF i = 0 THEN 0 ELSE g[i - 1] + ns[i]]
  <2>1. \A i \in 0..n : h[i] = g[i]
    BY <1>1, <1>4, <1>4a DEF Iteration
  <2>2. DOMAIN g = 0..n /\ DOMAIN h = 0..n
    BY <1>4 DEF Iteration
  <2>3. g = [i \in 0..n |-> g[i]]
    BY <1>4 DEF Iteration
  <2> QED BY <2>1, <2>2, <2>3
<1>6. f = [i \in 0..n |-> IF i = 0 THEN 0 ELSE f[i - 1] + ns[i]]
  BY <1>5
<1>7. SumOf(ns) = f[n]
  BY DEF SumOf, n
<1> HIDE DEF f
<1>8. f[0] = 0 /\ \A i \in 1..n : f[i] = f[i - 1] + ns[i]
  <2>1. f[0] = 0
    BY <1>1, <1>6
  <2>2. ASSUME NEW i \in 1..n PROVE f[i] = f[i - 1] + ns[i]
    BY <1>1, <1>6
  <2> QED
    BY <2>1, <2>2
<1>9. \A i \in 0..n : f[i] \in Int
  <2> DEFINE T == {j \in 0..n : f[j] \in Int}
  <2>1. 0 \in T
    BY <1>1, <1>8
  <2>2. ASSUME NEW k \in 1..n, k - 1 \in T PROVE k \in T
    <3>1. k \in 0..n /\ f[k - 1] \in Int /\ ns[k] \in Int
      BY <1>1, <2>2
    <3> QED
      BY <3>1, <1>8
  <2> HIDE DEF T
  <2>3. \A i \in 0..n : i \in T
    BY <1>1, <2>1, <2>2, Induction
  <2> QED
    BY <2>3 DEF T
<1>10. f \in [0..n -> Int]
  BY <1>6, <1>9
<1> QED BY <1>7, <1>8, <1>10 DEF n

-----------------------------------------------------------------------------
\* Sums.

\* No counts sum to nothing,
LEMMA SumEmpty == SumOf(<<>>) = 0
<1>1. <<>> \in Seq(Int) /\ Len(<<>>) = 0
  OBVIOUS
<1> QED
  BY <1>1, SumUpTo

\* one to itself,
LEMMA SumOne ==
  ASSUME NEW x \in Int
  PROVE  SumOf(<<x>>) = x
<1>1. <<x>> \in Seq(Int) /\ Len(<<x>>) = 1 /\ <<x>>[1] = x
  OBVIOUS
<1>2. PICK g \in [0..1 -> Int] : /\ g[0] = 0
                                 /\ \A i \in 1..1 : g[i] = g[i - 1] + <<x>>[i]
                                 /\ SumOf(<<x>>) = g[1]
  BY <1>1, SumUpTo
<1>3. 1 \in 1..1 /\ 1 - 1 = 0
  OBVIOUS
<1> QED
  BY <1>1, <1>2, <1>3

\* and those of two pieces to the sum of their sums.
LEMMA SumPieces ==
  ASSUME NEW ns \in Seq(Int), NEW ms \in Seq(Int), NEW all \in Seq(Int),
         Len(all) = Len(ns) + Len(ms),
         \A i \in 1..Len(ns) : all[i] = ns[i],
         \A i \in 1..Len(ms) : all[Len(ns) + i] = ms[i]
  PROVE  SumOf(all) = SumOf(ns) + SumOf(ms)
<1> DEFINE n == Len(ns)
           m == Len(ms)
<1>1. /\ n \in Nat /\ m \in Nat
      /\ Len(all) = n + m
      /\ \A i \in 1..n : all[i] = ns[i]
      /\ \A i \in 1..m : all[n + i] = ms[i]
      /\ \A i \in 1..m : ms[i] \in Int
  OBVIOUS
<1>2. PICK f \in [0..n -> Int] : /\ f[0] = 0
                                 /\ \A i \in 1..n : f[i] = f[i - 1] + ns[i]
                                 /\ SumOf(ns) = f[n]
  BY SumUpTo
<1>3. PICK g \in [0..m -> Int] : /\ g[0] = 0
                                 /\ \A i \in 1..m : g[i] = g[i - 1] + ms[i]
                                 /\ SumOf(ms) = g[m]
  BY SumUpTo
<1>4. PICK h \in [0..(n + m) -> Int] :
         /\ h[0] = 0
         /\ \A i \in 1..(n + m) : h[i] = h[i - 1] + all[i]
         /\ SumOf(all) = h[n + m]
  <2> HIDE DEF n, m
  <2> QED
    BY <1>1, SumUpTo
<1> HIDE DEF n, m
<1>5. h[n] = f[n]
  <2> DEFINE T == {k \in 0..n : h[k] = f[k]}
  <2>1. 0 \in T
    BY <1>1, <1>2, <1>4
  <2>2. ASSUME NEW k \in 1..n, k - 1 \in T PROVE k \in T
    <3>1. k \in 0..n /\ k \in 1..(n + m) /\ h[k - 1] = f[k - 1]
      BY <1>1, <2>2
    <3>2. h[k] = h[k - 1] + all[k] /\ f[k] = f[k - 1] + ns[k] /\ all[k] = ns[k]
      BY <3>1, <1>1, <1>2, <1>4
    <3> QED
      BY <3>1, <3>2
  <2> HIDE DEF T
  <2>3. n \in T
    <3>1. n \in 0..n
      BY <1>1
    <3>2. \A k \in 0..n : k \in T
      BY <1>1, <2>1, <2>2, Induction
    <3> QED
      BY <3>1, <3>2
  <2> QED
    BY <2>3 DEF T
<1>6. h[n + m] = f[n] + g[m]
  <2> DEFINE T == {k \in 0..m : h[n + k] = f[n] + g[k]}
  <2>1. 0 \in T
    <3>1. f[n] \in Int /\ n + 0 = n /\ 0 \in 0..m
      BY <1>1
    <3> QED
      BY <3>1, <1>3, <1>5
  <2>2. ASSUME NEW k \in 1..m, k - 1 \in T PROVE k \in T
    <3>1. /\ k \in 0..m /\ k - 1 \in 0..m
          /\ n + k \in 1..(n + m) /\ (n + k) - 1 = n + (k - 1)
          /\ h[n + (k - 1)] = f[n] + g[k - 1]
      BY <1>1, <2>2
    <3>2. f[n] \in Int /\ g[k - 1] \in Int /\ ms[k] \in Int
      BY <1>1, <3>1
    <3>3. h[n + k] = h[n + (k - 1)] + ms[k]
      BY <3>1, <1>1, <1>4
    <3>4. g[k] = g[k - 1] + ms[k]
      BY <1>3
    <3>5. h[n + k] = f[n] + g[k]
      BY ONLY <3>1, <3>2, <3>3, <3>4
    <3> QED
      BY <3>1, <3>5
  <2> HIDE DEF T
  <2>3. m \in T
    <3>1. m \in 0..m
      BY <1>1
    <3>2. \A k \in 0..m : k \in T
      BY <1>1, <2>1, <2>2, Induction
    <3> QED
      BY <3>1, <3>2
  <2> QED
    BY <2>3 DEF T
<1> QED
  BY <1>2, <1>3, <1>4, <1>6

\* Counts are not negative, and none is larger than their sum.
LEMMA SumBounds ==
  ASSUME NEW ns \in Seq(Nat)
  PROVE  SumOf(ns) \in Nat /\ \A i \in 1..Len(ns) : ns[i] <= SumOf(ns)
<1> DEFINE n == Len(ns)
<1>1. n \in Nat /\ ns \in Seq(Int) /\ \A i \in 1..n : ns[i] \in Nat
  OBVIOUS
<1>2. PICK f \in [0..n -> Int] : /\ f[0] = 0
                                 /\ \A i \in 1..n : f[i] = f[i - 1] + ns[i]
                                 /\ SumOf(ns) = f[n]
  BY <1>1, SumUpTo
<1> HIDE DEF n
<1> DEFINE T == {k \in 0..n : f[k] >= 0 /\ \A i \in 1..k : ns[i] <= f[k]}
<1>3. 0 \in T
  BY <1>1, <1>2
<1>4. ASSUME NEW k \in 1..n, k - 1 \in T PROVE k \in T
  <2>1. /\ k \in 0..n /\ k - 1 \in 0..n
        /\ f[k - 1] >= 0 /\ \A i \in 1..(k - 1) : ns[i] <= f[k - 1]
    BY <1>1, <1>4
  <2>2. f[k] = f[k - 1] + ns[k] /\ f[k - 1] \in Int /\ ns[k] \in Nat /\ f[k] \in Int
    BY <1>1, <1>2, <2>1
  <2>3. ASSUME NEW i \in 1..k PROVE ns[i] <= f[k]
    <3>1. CASE i = k
      BY <3>1, <2>1, <2>2
    <3>2. CASE i # k
      <4>1. i \in 1..(k - 1) /\ i \in 1..n
        BY <1>1, <3>2
      <4>2. ns[i] \in Nat /\ ns[i] <= f[k - 1]
        BY <4>1, <1>1, <2>1
      <4> QED
        BY ONLY <4>2, <2>2
    <3> QED
      BY <3>1, <3>2
  <2> QED
    BY <2>1, <2>2, <2>3
<1> HIDE DEF T
<1>5. n \in T
  <2>1. n \in 0..n
    BY <1>1
  <2>2. \A k \in 0..n : k \in T
    BY <1>1, <1>3, <1>4, Induction
  <2> QED
    BY <2>1, <2>2
<1> QED
  BY <1>1, <1>2, <1>5 DEF T, n

-----------------------------------------------------------------------------
\* Channels.

\* Frames as the two ends build them: no handler sends an empty STREAM_DATA,
\* nor acknowledges nothing.
SomeFrame(B) ==
    [type : {"OPEN", "EOF", "RESET"}]
      \cup [type : {"DATA"}, data : Seq(B) \ {<<>>}]
      \cup [type : {"ACK"}, n : Nat \ {0}]

\* What a frame counts as, by its type.
LEMMA FrameKinds ==
  ASSUME NEW B, NEW f \in SomeFrame(B)
  PROVE  /\ f.type \in {"OPEN", "DATA", "EOF", "ACK", "RESET"}
         /\ f.type = "DATA" => /\ f.data \in Seq(B) /\ f.data # <<>>
                               /\ DataOf(f) = Len(f.data) /\ Len(f.data) \in Nat \ {0}
         /\ f.type # "DATA" => DataOf(f) = 0
         /\ f.type = "ACK" => f.n \in Nat \ {0} /\ AckOf(f) = f.n
         /\ f.type # "ACK" => AckOf(f) = 0
         /\ DataOf(f) \in Nat
         /\ AckOf(f) \in Nat
<1>1. /\ f.type \in {"OPEN", "DATA", "EOF", "ACK", "RESET"}
      /\ f.type = "DATA" => f.data \in Seq(B) /\ f.data # <<>>
      /\ f.type = "ACK" => f.n \in Nat \ {0}
  BY DEF SomeFrame
<1>2. f.type = "DATA" => Len(f.data) \in Nat \ {0}
  <2>1. \A s \in Seq(B) : s # <<>> => Len(s) \in Nat \ {0}
    OBVIOUS
  <2> QED
    BY <1>1, <2>1
<1>3. DataOf(f) = IF f.type = "DATA" THEN Len(f.data) ELSE 0
  BY DEF DataOf
<1>4. AckOf(f) = IF f.type = "ACK" THEN f.n ELSE 0
  BY DEF AckOf
<1> QED
  BY <1>1, <1>2, <1>3, <1>4

\* The frames the two classes build are frames.
LEMMA BuiltFrames ==
  ASSUME NEW B
  PROVE  /\ OpenFrame \in SomeFrame(B) /\ OpenFrame.type = "OPEN"
         /\ EofFrame \in SomeFrame(B) /\ EofFrame.type = "EOF"
         /\ ResetFrame \in SomeFrame(B) /\ ResetFrame.type = "RESET"
         /\ \A n \in Nat \ {0} : /\ AckFrame(n) \in SomeFrame(B)
                                  /\ AckFrame(n).type = "ACK"
                                  /\ AckFrame(n).n = n
         /\ \A d \in Seq(B) : /\ d # <<>> => DataFrame(d) \in SomeFrame(B)
                                  /\ DataFrame(d).type = "DATA"
                                  /\ DataFrame(d).data = d
  BY DEF SomeFrame, OpenFrame, EofFrame, ResetFrame, AckFrame, DataFrame

\* Counts are numbers.
LEMMA CountsTyped ==
  ASSUME NEW B, NEW c \in Seq(SomeFrame(B))
  PROVE  /\ [i \in DOMAIN c |-> DataOf(c[i])] \in Seq(Nat)
         /\ [i \in DOMAIN c |-> AckOf(c[i])] \in Seq(Nat)
         /\ [i \in DOMAIN c |-> DataOf(c[i])] \in Seq(Int)
         /\ [i \in DOMAIN c |-> AckOf(c[i])] \in Seq(Int)
<1> DEFINE F == SomeFrame(B)
           n == Len(c)
<1>1. n \in Nat /\ DOMAIN c = 1..n /\ \A i \in 1..n : c[i] \in F
  OBVIOUS
<1>2. \A i \in 1..n : DataOf(c[i]) \in Nat /\ AckOf(c[i]) \in Nat
  <2> TAKE i \in 1..n
  <2>1. c[i] \in SomeFrame(B)
    BY <1>1
  <2> HIDE DEF n
  <2> QED
    BY ONLY <2>1, FrameKinds
<1> HIDE DEF n, F
<1>3. /\ [i \in 1..n |-> DataOf(c[i])] \in Seq(Nat)
      /\ [i \in 1..n |-> AckOf(c[i])] \in Seq(Nat)
  BY <1>1, <1>2
<1>4. /\ [i \in 1..n |-> DataOf(c[i])] \in Seq(Int)
      /\ [i \in 1..n |-> AckOf(c[i])] \in Seq(Int)
  BY <1>1, <1>2
<1> QED
  BY <1>1, <1>3, <1>4

\* A queue is its head and its tail.
LEMMA HeadTailSplit ==
  ASSUME NEW T, NEW s \in Seq(T), s # <<>>
  PROVE  Head(s) \in T /\ Tail(s) \in Seq(T) /\ s = <<Head(s)>> \o Tail(s)
<1>1. Head(s) \in T /\ Tail(s) \in Seq(T) /\ Len(s) \in Nat \ {0} /\ Len(Tail(s)) = Len(s) - 1
  OBVIOUS
<1>2. <<Head(s)>> \o Tail(s) \in Seq(T) /\ Len(<<Head(s)>> \o Tail(s)) = Len(s)
  BY <1>1
<1>3. \A i \in 1..Len(s) : (<<Head(s)>> \o Tail(s))[i] = s[i]
  BY <1>1
<1> QED
  BY <1>2, <1>3

\* An empty channel carries nothing.
LEMMA EmptySeen ==
  TypesIn(<<>>) = {} /\ DataIn(<<>>) = 0 /\ AcksIn(<<>>) = 0
<1>1. /\ [i \in DOMAIN <<>> |-> DataOf(<<>>[i])] = <<>>
      /\ [i \in DOMAIN <<>> |-> AckOf(<<>>[i])] = <<>>
  OBVIOUS
<1> QED
  BY <1>1, SumEmpty DEF TypesIn, DataIn, AcksIn

\* Two channels one after the other carry what both do.
LEMMA ConcatSeen ==
  ASSUME NEW B, NEW c \in Seq(SomeFrame(B)), NEW d \in Seq(SomeFrame(B))
  PROVE  /\ c \o d \in Seq(SomeFrame(B))
         /\ TypesIn(c \o d) = TypesIn(c) \cup TypesIn(d)
         /\ DataIn(c \o d) = DataIn(c) + DataIn(d)
         /\ AcksIn(c \o d) = AcksIn(c) + AcksIn(d)
<1> DEFINE F == SomeFrame(B)
           n == Len(c)
           m == Len(d)
           all == c \o d
<1>1. /\ n \in Nat /\ m \in Nat
      /\ DOMAIN c = 1..n /\ DOMAIN d = 1..m
      /\ all \in Seq(F) /\ DOMAIN all = 1..(n + m)
      /\ \A i \in 1..n : all[i] = c[i]
      /\ \A i \in 1..m : all[n + i] = d[i]
  OBVIOUS
<1> HIDE DEF n, m, all, F
<1>2. \A i \in 1..(n + m) : i \in 1..n \/ (i - n \in 1..m /\ n + (i - n) = i)
  BY <1>1
<1>3. TypesIn(all) = TypesIn(c) \cup TypesIn(d)
  <2>1. ASSUME NEW t \in TypesIn(all) PROVE t \in TypesIn(c) \cup TypesIn(d)
    <3>1. PICK i \in 1..(n + m) : t = all[i].type
      BY <2>1, <1>1 DEF TypesIn
    <3>2. CASE i \in 1..n
      BY <3>1, <3>2, <1>1 DEF TypesIn
    <3>3. CASE i - n \in 1..m /\ n + (i - n) = i
      <4>1. all[i] = d[i - n]
        BY <3>3, <1>1
      <4> QED
        BY <3>1, <3>3, <4>1, <1>1 DEF TypesIn
    <3> QED
      BY <3>2, <3>3, <1>2
  <2>2. ASSUME NEW t \in TypesIn(c) PROVE t \in TypesIn(all)
    <3>1. PICK i \in 1..n : t = c[i].type
      BY <2>2, <1>1 DEF TypesIn
    <3>2. i \in 1..(n + m)
      BY <1>1
    <3> QED
      BY <3>1, <3>2, <1>1 DEF TypesIn
  <2>3. ASSUME NEW t \in TypesIn(d) PROVE t \in TypesIn(all)
    <3>1. PICK i \in 1..m : t = d[i].type
      BY <2>3, <1>1 DEF TypesIn
    <3>2. n + i \in 1..(n + m)
      BY <1>1
    <3> QED
      BY <3>1, <3>2, <1>1 DEF TypesIn
  <2> QED
    BY <2>1, <2>2, <2>3
<1>4. ASSUME NEW G \in Seq(Int), NEW H \in Seq(Int), NEW K \in Seq(Int),
             G = [i \in 1..n |-> DataOf(c[i])], H = [i \in 1..m |-> DataOf(d[i])],
             K = [i \in 1..(n + m) |-> DataOf(all[i])]
      PROVE  SumOf(K) = SumOf(G) + SumOf(H)
  <2>1. Len(G) = n /\ Len(H) = m /\ Len(K) = n + m
    BY <1>1, <1>4
  <2>2. \A i \in 1..Len(G) : K[i] = G[i]
    BY <1>1, <1>4, <2>1
  <2>3. \A i \in 1..Len(H) : K[Len(G) + i] = H[i]
    BY <1>1, <1>4, <2>1
  <2> QED
    BY <2>1, <2>2, <2>3, SumPieces
<1>5. ASSUME NEW G \in Seq(Int), NEW H \in Seq(Int), NEW K \in Seq(Int),
             G = [i \in 1..n |-> AckOf(c[i])], H = [i \in 1..m |-> AckOf(d[i])],
             K = [i \in 1..(n + m) |-> AckOf(all[i])]
      PROVE  SumOf(K) = SumOf(G) + SumOf(H)
  <2>1. Len(G) = n /\ Len(H) = m /\ Len(K) = n + m
    BY <1>1, <1>5
  <2>2. \A i \in 1..Len(G) : K[i] = G[i]
    BY <1>1, <1>5, <2>1
  <2>3. \A i \in 1..Len(H) : K[Len(G) + i] = H[i]
    BY <1>1, <1>5, <2>1
  <2> QED
    BY <2>1, <2>2, <2>3, SumPieces
<1>6. DataIn(all) = DataIn(c) + DataIn(d)
  <2>1. /\ [i \in DOMAIN c |-> DataOf(c[i])] \in Seq(Int)
        /\ [i \in DOMAIN d |-> DataOf(d[i])] \in Seq(Int)
        /\ [i \in DOMAIN all |-> DataOf(all[i])] \in Seq(Int)
    BY <1>1, CountsTyped DEF F
  <2> QED
    BY <1>1, <1>4, <2>1 DEF DataIn
<1>7. AcksIn(all) = AcksIn(c) + AcksIn(d)
  <2>1. /\ [i \in DOMAIN c |-> AckOf(c[i])] \in Seq(Int)
        /\ [i \in DOMAIN d |-> AckOf(d[i])] \in Seq(Int)
        /\ [i \in DOMAIN all |-> AckOf(all[i])] \in Seq(Int)
    BY <1>1, CountsTyped DEF F
  <2> QED
    BY <1>1, <1>5, <2>1 DEF AcksIn
<1> QED
  BY <1>1, <1>3, <1>6, <1>7 DEF F, all

\* One frame carries what it says.
LEMMA OneSeen ==
  ASSUME NEW B, NEW f \in SomeFrame(B)
  PROVE  /\ <<f>> \in Seq(SomeFrame(B))
         /\ TypesIn(<<f>>) = {f.type}
         /\ DataIn(<<f>>) = DataOf(f)
         /\ AcksIn(<<f>>) = AckOf(f)
<1>1. DOMAIN <<f>> = 1..1 /\ <<f>>[1] = f
  OBVIOUS
<1>2. /\ [i \in DOMAIN <<f>> |-> DataOf(<<f>>[i])] = <<DataOf(f)>>
      /\ [i \in DOMAIN <<f>> |-> AckOf(<<f>>[i])] = <<AckOf(f)>>
  BY <1>1
<1>3. DataOf(f) \in Int /\ AckOf(f) \in Int
  BY FrameKinds
<1>4. SumOf(<<DataOf(f)>>) = DataOf(f) /\ SumOf(<<AckOf(f)>>) = AckOf(f)
  BY <1>3, SumOne
<1>5. TypesIn(<<f>>) = {f.type}
  BY <1>1 DEF TypesIn
<1> QED
  BY <1>2, <1>4, <1>5 DEF DataIn, AcksIn

\* One more frame.
LEMMA SentSeen ==
  ASSUME NEW B, NEW c \in Seq(SomeFrame(B)), NEW f \in SomeFrame(B)
  PROVE  /\ c \o <<f>> \in Seq(SomeFrame(B))
         /\ TypesIn(c \o <<f>>) = TypesIn(c) \cup {f.type}
         /\ DataIn(c \o <<f>>) = DataIn(c) + DataOf(f)
         /\ AcksIn(c \o <<f>>) = AcksIn(c) + AckOf(f)
<1>1. /\ <<f>> \in Seq(SomeFrame(B))
      /\ TypesIn(<<f>>) = {f.type} /\ DataIn(<<f>>) = DataOf(f) /\ AcksIn(<<f>>) = AckOf(f)
  BY OneSeen
<1>2. /\ c \o <<f>> \in Seq(SomeFrame(B))
      /\ TypesIn(c \o <<f>>) = TypesIn(c) \cup TypesIn(<<f>>)
      /\ DataIn(c \o <<f>>) = DataIn(c) + DataIn(<<f>>)
      /\ AcksIn(c \o <<f>>) = AcksIn(c) + AcksIn(<<f>>)
  BY <1>1, ConcatSeen
<1> QED
  BY <1>1, <1>2

\* One frame less.
LEMMA TakenSeen ==
  ASSUME NEW B, NEW c \in Seq(SomeFrame(B)), c # <<>>
  PROVE  /\ Head(c) \in SomeFrame(B)
         /\ Tail(c) \in Seq(SomeFrame(B))
         /\ TypesIn(c) = {Head(c).type} \cup TypesIn(Tail(c))
         /\ DataIn(c) = DataOf(Head(c)) + DataIn(Tail(c))
         /\ AcksIn(c) = AckOf(Head(c)) + AcksIn(Tail(c))
<1> DEFINE F == SomeFrame(B)
<1>1. \A T : \A s \in Seq(T) : s # <<>> =>
         Head(s) \in T /\ Tail(s) \in Seq(T) /\ s = <<Head(s)>> \o Tail(s)
  BY HeadTailSplit
<1> HIDE DEF F
<1>2. Head(c) \in F /\ Tail(c) \in Seq(F) /\ c = <<Head(c)>> \o Tail(c)
  BY <1>1 DEF F
<1>3. <<Head(c)>> \in Seq(F)
  BY <1>2
<1>4. /\ TypesIn(<<Head(c)>>) = {Head(c).type}
      /\ DataIn(<<Head(c)>>) = DataOf(Head(c))
      /\ AcksIn(<<Head(c)>>) = AckOf(Head(c))
  BY <1>2, OneSeen DEF F
<1>5. /\ TypesIn(<<Head(c)>> \o Tail(c)) = TypesIn(<<Head(c)>>) \cup TypesIn(Tail(c))
      /\ DataIn(<<Head(c)>> \o Tail(c)) = DataIn(<<Head(c)>>) + DataIn(Tail(c))
      /\ AcksIn(<<Head(c)>> \o Tail(c)) = AcksIn(<<Head(c)>>) + AcksIn(Tail(c))
  BY <1>2, <1>3, ConcatSeen DEF F
<1> QED
  BY <1>2, <1>4, <1>5 DEF F

\* No count in a channel is larger than what the channel carries.
LEMMA CountsBounded ==
  ASSUME NEW B, NEW c \in Seq(SomeFrame(B))
  PROVE  /\ DataIn(c) \in Nat
         /\ AcksIn(c) \in Nat
         /\ \A i \in DOMAIN c : c[i].type = "ACK" => c[i].n <= AcksIn(c)
<1>1. DataIn(c) \in Nat
  BY CountsTyped, SumBounds DEF DataIn
<1>2. /\ AcksIn(c) \in Nat
      /\ \A i \in DOMAIN c : AckOf(c[i]) <= AcksIn(c)
  <2> DEFINE ns == [i \in DOMAIN c |-> AckOf(c[i])]
  <2>1. ns \in Seq(Nat)
    BY CountsTyped
  <2>2. DOMAIN c = 1..Len(ns) /\ \A i \in DOMAIN c : ns[i] = AckOf(c[i])
    BY <2>1
  <2>3. AcksIn(c) = SumOf(ns)
    BY DEF AcksIn
  <2> HIDE DEF ns
  <2> QED
    BY <2>1, <2>2, <2>3, SumBounds
<1> QED
  BY <1>1, <1>2 DEF AckOf

-----------------------------------------------------------------------------
\* The instances.
\* The operators of NodeSocket, AsyncioSocket and StreamFrames are the same ones
\* in the two instances.
LEMMA SameOperators ==
  ASSUME NEW s, NEW b
  PROVE  /\ S!Write(s, b) = Write(s, b)
         /\ S!Pause(s) = Pause(s)
         /\ S!Resume(s) = Resume(s)
         /\ S!DestroySocket(s) = DestroySocket(s)
         /\ S!EndWrite(s) = EndWrite(s)
         /\ S!Flushed(s) = Flushed(s)
         /\ S!TakeData(s, b) = TakeData(s, b)
         /\ S!EmitEnd(s) = EmitEnd(s)
         /\ S!Drained(s) = Drained(s)
         /\ S!FlushByte(s) = FlushByte(s)
         /\ S!DataFrame(b) = DataFrame(b) /\ P!DataFrame(b) = DataFrame(b)
         /\ S!AckFrame(b) = AckFrame(b) /\ P!AckFrame(b) = AckFrame(b)
         /\ S!OpenFrame = OpenFrame /\ S!EofFrame = EofFrame /\ S!ResetFrame = ResetFrame
         /\ P!EofFrame = EofFrame /\ P!ResetFrame = ResetFrame
         /\ S!NewSocket = NewSocket
<1>1. S!Write(s, b) = Write(s, b)
  BY DEF Write, S!Write, Fail, S!Fail, DestroySocket, S!DestroySocket
<1>2. /\ S!Pause(s) = Pause(s) /\ S!Resume(s) = Resume(s)
      /\ S!DestroySocket(s) = DestroySocket(s)
      /\ S!EndWrite(s) = EndWrite(s)
  BY DEF Pause, S!Pause, Resume, S!Resume,
         DestroySocket, S!DestroySocket, EndWrite, S!EndWrite
<1>3. /\ S!Flushed(s) = Flushed(s)
      /\ S!TakeData(s, b) = TakeData(s, b)
      /\ S!EmitEnd(s) = EmitEnd(s)
      /\ S!Drained(s) = Drained(s)
      /\ S!FlushByte(s) = FlushByte(s)
  BY DEF Flushed, S!Flushed, TakeData, S!TakeData, EmitEnd, S!EmitEnd,
         Drained, S!Drained, FlushByte, S!FlushByte
<1>4. /\ S!DataFrame(b) = DataFrame(b) /\ P!DataFrame(b) = DataFrame(b)
      /\ S!AckFrame(b) = AckFrame(b) /\ P!AckFrame(b) = AckFrame(b)
      /\ S!OpenFrame = OpenFrame /\ S!EofFrame = EofFrame /\ S!ResetFrame = ResetFrame
      /\ P!EofFrame = EofFrame /\ P!ResetFrame = ResetFrame
      /\ S!NewSocket = NewSocket
  BY DEF DataFrame, S!DataFrame, P!DataFrame, AckFrame, S!AckFrame, P!AckFrame,
         OpenFrame, S!OpenFrame, EofFrame, S!EofFrame, P!EofFrame,
         ResetFrame, S!ResetFrame, P!ResetFrame, NewSocket, S!NewSocket
<1> QED
  BY <1>1, <1>2, <1>3, <1>4

-----------------------------------------------------------------------------
\* Sockets.

\* What the calls on a socket leave of it, as far as the streams care.
Shrunk(t, s) == /\ t.readEnded = s.readEnded
                /\ Len(t.inq) <= Len(s.inq)
                /\ t.flowing => s.flowing

\* The parts of a socket have the types of its parts.
LEMMA SocketTyped ==
  ASSUME NEW B, NEW s \in Socket(B)
  PROVE  /\ s.inq \in Seq(B) /\ Len(s.inq) \in Nat
         /\ s.out \in Seq(B) /\ Len(s.out) \in Nat
         /\ s.flowing \in BOOLEAN /\ s.readEnded \in BOOLEAN
  BY DEF Socket

\* pause() and resume() change whether the socket emits, nothing else.
LEMMA PauseResume ==
  ASSUME NEW B, NEW s \in Socket(B)
  PROVE  /\ Pause(s) \in Socket(B) /\ Shrunk(Pause(s), s)
         /\ ~Pause(s).flowing /\ Pause(s).out = s.out /\ Pause(s).inq = s.inq
         /\ Resume(s) \in Socket(B)
         /\ Resume(s).flowing /\ Resume(s).out = s.out /\ Resume(s).inq = s.inq
         /\ Resume(s).readEnded = s.readEnded
<1>1. Pause(s) \in Socket(B) /\ Resume(s) \in Socket(B)
  BY DEF Socket, Pause, Resume
<1>2. /\ ~Pause(s).flowing /\ Pause(s).out = s.out
      /\ Pause(s).inq = s.inq /\ Pause(s).readEnded = s.readEnded
  BY DEF Socket, Pause
<1>3. /\ Resume(s).flowing /\ Resume(s).out = s.out
      /\ Resume(s).inq = s.inq /\ Resume(s).readEnded = s.readEnded
  BY DEF Socket, Resume
<1> QED
  BY <1>1, <1>2, <1>3, SocketTyped DEF Shrunk

\* destroy() and what it leaves of the buffers.
LEMMA SocketDestroyed ==
  ASSUME NEW B, NEW s \in Socket(B)
  PROVE  /\ DestroySocket(s) \in Socket(B) /\ Shrunk(DestroySocket(s), s)
         /\ DestroySocket(s).out = <<>> /\ ~DestroySocket(s).flowing
         /\ Fail(s) \in Socket(B) /\ Shrunk(Fail(s), s)
         /\ Fail(s).out = <<>> /\ ~Fail(s).flowing
<1>0. <<>> \in Seq(B)
  OBVIOUS
<1>1. /\ DestroySocket(s) \in Socket(B)
      /\ DestroySocket(s).readEnded = s.readEnded
      /\ DestroySocket(s).inq = <<>> /\ DestroySocket(s).out = <<>>
      /\ ~DestroySocket(s).flowing
  <2>1. DestroySocket(s) \in Socket(B)
    BY <1>0 DEF Socket, DestroySocket
  <2>2. /\ DestroySocket(s).readEnded = s.readEnded
        /\ DestroySocket(s).inq = <<>> /\ DestroySocket(s).out = <<>>
    BY DEF Socket, DestroySocket
  <2>3. ~DestroySocket(s).flowing
    BY DEF Socket, DestroySocket
  <2> QED
    BY <2>1, <2>2, <2>3
<1>2. /\ Fail(s) \in Socket(B)
      /\ Fail(s).readEnded = s.readEnded
      /\ Fail(s).inq = <<>> /\ Fail(s).out = <<>>
      /\ ~Fail(s).flowing
  BY <1>1 DEF Socket, Fail
<1>3. Len(s.inq) \in Nat /\ Len(<<>>) = 0
  BY SocketTyped
<1> QED
  BY <1>1, <1>2, <1>3 DEF Shrunk

\* write() buffers what it is given, or drops it on a socket that cannot
\* send any more; a FALSE from write() is a full buffer.
LEMMA SocketWritten ==
  ASSUME NEW B, NEW s \in Socket(B), NEW b \in Seq(B)
  PROVE  /\ Write(s, b) \in Socket(B) /\ Shrunk(Write(s, b), s)
         /\ \/ Write(s, b).out = s.out \o b
            \/ Write(s, b).out = <<>>
<1>1. CASE s.ended \/ s.destroyed
  BY <1>1, SocketDestroyed DEF Write
<1>2. CASE ~(s.ended \/ s.destroyed)
  <2> DEFINE t == [s EXCEPT !.out = s.out \o b,
                            !.needDrain = @ \/ Len(s.out \o b) >= HighWater]
  <2>1. Write(s, b) = t
    BY <1>2 DEF Write
  <2>2. s.out \o b \in Seq(B) /\ (s.needDrain \/ Len(s.out \o b) >= HighWater) \in BOOLEAN
    BY SocketTyped DEF Socket
  <2>3. t \in Socket(B)
    BY <2>2 DEF Socket
  <2>4. t.out = s.out \o b /\ t.readEnded = s.readEnded /\ t.inq = s.inq /\ t.flowing = s.flowing
    BY DEF Socket
  <2> HIDE DEF t
  <2> QED
    BY <2>1, <2>3, <2>4, SocketTyped DEF Shrunk
<1> QED
  BY <1>1, <1>2

\* What the socket's own events leave of it.
LEMMA SocketEvents ==
  ASSUME NEW B, NEW s \in Socket(B)
  PROVE  /\ EndWrite(s) \in Socket(B) /\ Shrunk(EndWrite(s), s)
         /\ EndWrite(s).out = s.out
         /\ Drained(s) \in Socket(B) /\ Shrunk(Drained(s), s)
         /\ Drained(s).out = s.out
         /\ EmitEnd(s) \in Socket(B)
         /\ EmitEnd(s).inq = s.inq /\ EmitEnd(s).out = s.out
         /\ EmitEnd(s).flowing = s.flowing
         /\ [s EXCEPT !.error = FALSE] \in Socket(B)
         /\ Shrunk([s EXCEPT !.error = FALSE], s)
         /\ [s EXCEPT !.error = FALSE].out = s.out
<1>1. /\ EndWrite(s) \in Socket(B) /\ EndWrite(s).out = s.out
      /\ EndWrite(s).inq = s.inq /\ EndWrite(s).readEnded = s.readEnded
      /\ EndWrite(s).flowing = s.flowing
  BY DEF Socket, EndWrite
<1>2. /\ Drained(s) \in Socket(B) /\ Drained(s).out = s.out
      /\ Drained(s).inq = s.inq /\ Drained(s).readEnded = s.readEnded
      /\ Drained(s).flowing = s.flowing
  BY DEF Socket, Drained
<1>3. /\ EmitEnd(s) \in Socket(B) /\ EmitEnd(s).out = s.out
      /\ EmitEnd(s).inq = s.inq /\ EmitEnd(s).flowing = s.flowing
  BY DEF Socket, EmitEnd
<1>4. LET t == [s EXCEPT !.error = FALSE]
      IN  /\ t \in Socket(B) /\ t.out = s.out /\ t.inq = s.inq
          /\ t.readEnded = s.readEnded /\ t.flowing = s.flowing
  BY DEF Socket
<1> QED
  BY <1>1, <1>2, <1>3, <1>4, SocketTyped DEF Shrunk

\* A 'data' event takes what it carries from the front of the queue.
LEMMA DataTaken ==
  ASSUME NEW B, NEW s \in Socket(B), NEW k \in Nat, k <= Len(s.inq)
  PROVE  /\ TakeData(s, k) \in Socket(B)
         /\ TakeData(s, k).readEnded = s.readEnded
         /\ TakeData(s, k).flowing = s.flowing
         /\ TakeData(s, k).out = s.out
         /\ Len(TakeData(s, k).inq) = Len(s.inq) - k
         /\ SubSeq(s.inq, 1, k) \in Seq(B)
         /\ Len(SubSeq(s.inq, 1, k)) = k
<1>1. s.inq \in Seq(B) /\ Len(s.inq) \in Nat
  BY SocketTyped
<1>2. /\ SubSeq(s.inq, k + 1, Len(s.inq)) \in Seq(B)
      /\ Len(SubSeq(s.inq, k + 1, Len(s.inq))) = Len(s.inq) - k
      /\ SubSeq(s.inq, 1, k) \in Seq(B)
      /\ Len(SubSeq(s.inq, 1, k)) = k
  BY <1>1
<1> QED
  BY <1>2 DEF Socket, TakeData

\* The kernel taking a byte only shortens what is buffered.
LEMMA ByteFlushed ==
  ASSUME NEW B, NEW s \in Socket(B), s.out # <<>>
  PROVE  /\ FlushByte(s) \in Socket(B) /\ Shrunk(FlushByte(s), s)
         /\ Len(FlushByte(s).out) = Len(s.out) - 1
<1>1. s.out \in Seq(B) /\ s.got \in Seq(B) /\ Len(s.inq) \in Nat
  BY DEF Socket
<1>2. Head(s.out) \in B /\ Tail(s.out) \in Seq(B) /\ Len(Tail(s.out)) = Len(s.out) - 1
  BY <1>1
<1>3. Append(s.got, Head(s.out)) \in Seq(B)
  BY <1>1, <1>2
<1>4. FlushByte(s) \in Socket(B)
  BY <1>2, <1>3 DEF Socket, FlushByte
<1>5. /\ FlushByte(s).out = Tail(s.out) /\ FlushByte(s).inq = s.inq
      /\ FlushByte(s).readEnded = s.readEnded /\ FlushByte(s).flowing = s.flowing
  BY DEF Socket, FlushByte
<1> QED
  BY <1>1, <1>2, <1>4, <1>5 DEF Shrunk

-----------------------------------------------------------------------------
\* The server's turns.

\* The server's stream with no bounds on its counts.
SrvType == [opened : BOOLEAN, sendCredit : Int, recvUnacked : Nat,
            pausedForCredit : BOOLEAN, pausedGlobally : BOOLEAN,
            sentEof : BOOLEAN, receivedEof : BOOLEAN, finished : BOOLEAN]

\* Frames as the two classes build them: no empty STREAM_DATA, no zero ACK.
WireFrame == SomeFrame(Bytes)

\* What a handler of the server has in hand (see ServerStream): the stream, its
\* socket, and the frames said so far in this turn.
SrvTurn == [st : SrvType, sock : Socket(Bytes), sent : Seq(WireFrame)]

\* sendFrame
LEMMA SrvSend ==
  ASSUME NEW h \in SrvTurn, NEW f \in WireFrame
  PROVE  /\ S!Send(h, f) \in SrvTurn
         /\ S!Send(h, f).st = h.st
         /\ S!Send(h, f).sock = h.sock
         /\ S!Send(h, f).sent = Append(h.sent, f)
  BY DEF SrvTurn, S!Send

\* finish
LEMMA SrvFinish ==
  ASSUME NEW h \in SrvTurn
  PROVE  /\ S!Finish(h) \in SrvTurn
         /\ S!Finish(h).st = [h.st EXCEPT !.finished = TRUE]
         /\ S!Finish(h).sock = h.sock
         /\ S!Finish(h).sent = h.sent
  BY DEF SrvTurn, SrvType, S!Finish

\* destroy, of the server's class
LEMMA SrvDestroy ==
  ASSUME NEW h \in SrvTurn, NEW reason
  PROVE  LET r == S!Destroy(h, reason)
         IN  /\ h.st.finished => r = h
             /\ ~h.st.finished =>
                   /\ r \in SrvTurn
                   /\ r.st = [h.st EXCEPT !.finished = TRUE]
                   /\ r.sock = DestroySocket(h.sock)
                   /\ r.sent = IF reason = "peer_reset" THEN h.sent
                               ELSE Append(h.sent, ResetFrame)
<1> DEFINE told == IF reason = "peer_reset" THEN h ELSE S!Send(h, ResetFrame)
           fin == S!Finish(told)
           r == [fin EXCEPT !.sock = DestroySocket(@)]
<1>1. /\ told \in SrvTurn /\ told.st = h.st /\ told.sock = h.sock
      /\ told.sent = IF reason = "peer_reset" THEN h.sent ELSE Append(h.sent, ResetFrame)
  BY SrvSend, BuiltFrames DEF WireFrame
<1> HIDE DEF told
<1>2. /\ fin \in SrvTurn /\ fin.st = [h.st EXCEPT !.finished = TRUE]
      /\ fin.sock = h.sock /\ fin.sent = told.sent
  BY <1>1, SrvFinish
<1> HIDE DEF fin
<1>3. DestroySocket(fin.sock) \in Socket(Bytes)
  BY <1>2, SocketDestroyed DEF SrvTurn
<1>4. /\ r \in SrvTurn /\ r.st = fin.st /\ r.sock = DestroySocket(fin.sock)
      /\ r.sent = fin.sent
  BY <1>2, <1>3 DEF SrvTurn
<1>5. S!Destroy(h, reason) = IF h.st.finished THEN h ELSE r
  BY SameOperators DEF S!Destroy, told, fin
<1> HIDE DEF r
<1> QED
  BY <1>1, <1>2, <1>4, <1>5

\* onSocketData, of the server's class: one STREAM_DATA, paid for; a socket
\* whose credit is gone is paused.
LEMMA SrvSocketData ==
  ASSUME NEW h \in SrvTurn, NEW d \in Seq(Bytes), d # <<>>
  PROVE  LET r      == S!OnSocketData(h, d)
             credit == h.st.sendCredit - Len(d)
         IN  /\ h.st.finished \/ h.st.sentEof => r = h
             /\ ~(h.st.finished \/ h.st.sentEof) =>
                   /\ r \in SrvTurn
                   /\ r.sent = Append(h.sent, DataFrame(d))
                   /\ \/ /\ credit > 0 \/ h.st.pausedForCredit
                         /\ r.st = [h.st EXCEPT !.sendCredit = credit]
                         /\ r.sock = h.sock
                      \/ /\ credit <= 0
                         /\ r.st = [h.st EXCEPT !.sendCredit = credit,
                                                !.pausedForCredit = TRUE]
                         /\ r.sock = Pause(h.sock)
<1> DEFINE credit == h.st.sendCredit - Len(d)
           stop == credit <= 0 /\ ~h.st.pausedForCredit
           said == S!Send(h, DataFrame(d))
           sent == [said EXCEPT !.st.sendCredit = credit]
           held == [sent EXCEPT !.st.pausedForCredit = TRUE, !.sock = Pause(@)]
<1>0. credit \in Int
  BY DEF SrvTurn, SrvType
<1>1. /\ said \in SrvTurn /\ said.st = h.st /\ said.sock = h.sock
      /\ said.sent = Append(h.sent, DataFrame(d))
  BY SrvSend, BuiltFrames DEF WireFrame
<1> HIDE DEF said, credit
<1>2. /\ sent \in SrvTurn /\ sent.st = [said.st EXCEPT !.sendCredit = credit]
      /\ sent.sock = said.sock /\ sent.sent = said.sent
  BY <1>0, <1>1 DEF SrvTurn, SrvType
<1> HIDE DEF sent
<1>3. Pause(sent.sock) \in Socket(Bytes)
  BY <1>2, PauseResume DEF SrvTurn
<1>4. /\ held \in SrvTurn /\ held.st = [sent.st EXCEPT !.pausedForCredit = TRUE]
      /\ held.sock = Pause(sent.sock) /\ held.sent = sent.sent
  BY <1>2, <1>3 DEF SrvTurn, SrvType
<1>5. S!OnSocketData(h, d) = IF h.st.finished \/ h.st.sentEof THEN h
                             ELSE IF stop THEN held ELSE sent
  BY SameOperators DEF S!OnSocketData, sent, said, credit
<1> HIDE DEF held
<1>6. credit > 0 \/ h.st.pausedForCredit \/ stop
  BY <1>0
<1>7. held.st = [h.st EXCEPT !.sendCredit = credit, !.pausedForCredit = TRUE]
  BY <1>1, <1>2, <1>4
<1> QED
  BY <1>1, <1>2, <1>4, <1>5, <1>6, <1>7 DEF credit

\* onSocketEnd, of the server's class: STREAM_EOF once, then finish() if the
\* other direction is over too.
LEMMA SrvSocketEnd ==
  ASSUME NEW h \in SrvTurn
  PROVE  LET r == S!OnSocketEnd(h)
         IN  /\ h.st.finished \/ h.st.sentEof => r = h
             /\ ~(h.st.finished \/ h.st.sentEof) =>
                   /\ r \in SrvTurn
                   /\ \/ /\ h.st.receivedEof
                         /\ r.st = [h.st EXCEPT !.sentEof = TRUE, !.finished = TRUE]
                      \/ /\ ~h.st.receivedEof
                         /\ r.st = [h.st EXCEPT !.sentEof = TRUE]
                   /\ r.sock = h.sock
                   /\ r.sent = Append(h.sent, EofFrame)
<1> DEFINE said == S!Send(h, EofFrame)
           sent == [said EXCEPT !.st.sentEof = TRUE]
<1>1. /\ said \in SrvTurn /\ said.st = h.st /\ said.sock = h.sock
      /\ said.sent = Append(h.sent, EofFrame)
  BY SrvSend, BuiltFrames DEF WireFrame
<1> HIDE DEF said
<1>2. /\ sent \in SrvTurn /\ sent.st = [h.st EXCEPT !.sentEof = TRUE]
      /\ sent.sock = h.sock /\ sent.sent = said.sent
  BY <1>1 DEF SrvTurn, SrvType
<1>3. S!OnSocketEnd(h) = IF h.st.finished \/ h.st.sentEof THEN h
                         ELSE IF h.st.receivedEof THEN S!Finish(sent) ELSE sent
  BY SameOperators DEF S!OnSocketEnd, said
<1> HIDE DEF sent
<1>4. /\ S!Finish(sent) \in SrvTurn
      /\ S!Finish(sent).st = [sent.st EXCEPT !.finished = TRUE]
      /\ S!Finish(sent).sock = sent.sock /\ S!Finish(sent).sent = sent.sent
  BY <1>2, SrvFinish
<1>5. [sent.st EXCEPT !.finished = TRUE]
        = [h.st EXCEPT !.sentEof = TRUE, !.finished = TRUE]
  BY <1>2
<1> QED
  BY <1>1, <1>2, <1>3, <1>4, <1>5

\* flushAck, of the server's class: all that is unacknowledged, or nothing.
LEMMA SrvFlushAck ==
  ASSUME NEW h \in SrvTurn
  PROVE  LET r == S!FlushAck(h)
         IN  /\ h.st.recvUnacked = 0 \/ h.st.finished => r = h
             /\ ~(h.st.recvUnacked = 0 \/ h.st.finished) =>
                   /\ r \in SrvTurn
                   /\ r.st = [h.st EXCEPT !.recvUnacked = 0]
                   /\ r.sock = h.sock
                   /\ r.sent = Append(h.sent, AckFrame(h.st.recvUnacked))
<1> DEFINE said == S!Send(h, AckFrame(h.st.recvUnacked))
           acked == [said EXCEPT !.st.recvUnacked = 0]
<1>1. CASE h.st.recvUnacked = 0 \/ h.st.finished
  BY <1>1 DEF S!FlushAck
<1>2. CASE ~(h.st.recvUnacked = 0 \/ h.st.finished)
  <2>1. h.st.recvUnacked \in Nat \ {0}
    BY <1>2 DEF SrvTurn, SrvType
  <2>2. AckFrame(h.st.recvUnacked) \in WireFrame
    BY <2>1, BuiltFrames DEF WireFrame
  <2>3. /\ said \in SrvTurn /\ said.st = h.st /\ said.sock = h.sock
        /\ said.sent = Append(h.sent, AckFrame(h.st.recvUnacked))
    BY <2>2, SrvSend
  <2>4. S!FlushAck(h) = acked
    BY <1>2, SameOperators DEF S!FlushAck
  <2> HIDE DEF said
  <2>5. /\ acked \in SrvTurn /\ acked.st = [said.st EXCEPT !.recvUnacked = 0]
        /\ acked.sock = said.sock /\ acked.sent = said.sent
    BY <2>3 DEF SrvTurn, SrvType
  <2> QED
    BY <1>2, <2>3, <2>4, <2>5
<1> QED
  BY <1>1, <1>2

\* onData, of the server's class: what is written is acknowledged at once, or
\* waits for 'drain'.
LEMMA SrvOnData ==
  ASSUME NEW h \in SrvTurn, NEW d \in Seq(Bytes), d # <<>>
  PROVE  LET r     == S!OnData(h, d)
             total == h.st.recvUnacked + Len(d)
         IN  /\ h.st.finished \/ h.st.receivedEof => r = h
             /\ ~(h.st.finished \/ h.st.receivedEof) =>
                   /\ r \in SrvTurn
                   /\ r.sock = Write(h.sock, d)
                   /\ \/ /\ r.st = [h.st EXCEPT !.recvUnacked = total]
                         /\ r.sent = h.sent
                      \/ /\ Flushed(r.sock)
                         /\ r.st = [h.st EXCEPT !.recvUnacked = 0]
                         /\ r.sent = Append(h.sent, AckFrame(total))
<1> DEFINE total == h.st.recvUnacked + Len(d)
           sock == Write(h.sock, d)
           written == [h EXCEPT !.sock = sock, !.st.recvUnacked = @ + Len(d)]
           acked == S!FlushAck(written)
<1>0. total \in Nat \ {0}
  BY DEF SrvTurn, SrvType
<1>1. sock \in Socket(Bytes)
  BY SocketWritten DEF SrvTurn
<1>2. S!OnData(h, d) = IF h.st.finished \/ h.st.receivedEof THEN h
                       ELSE IF Flushed(sock) THEN acked ELSE written
  <2>1. S!Write(h.sock, d) = sock /\ S!Flushed(sock) = Flushed(sock)
    BY SameOperators
  <2> HIDE DEF sock
  <2> QED
    BY <2>1 DEF S!OnData
<1> HIDE DEF sock
<1>3. /\ written \in SrvTurn /\ written.st = [h.st EXCEPT !.recvUnacked = total]
      /\ written.sock = sock /\ written.sent = h.sent
  BY <1>0, <1>1 DEF SrvTurn, SrvType
<1> HIDE DEF written, total
<1>4. CASE h.st.finished \/ h.st.receivedEof
  BY <1>2, <1>4
<1>5. CASE ~(h.st.finished \/ h.st.receivedEof)
  <2>1. written.st.recvUnacked = total /\ written.st.finished = h.st.finished
    BY <1>3 DEF SrvTurn, SrvType
  <2>2. /\ acked \in SrvTurn /\ acked.st = [written.st EXCEPT !.recvUnacked = 0]
        /\ acked.sock = written.sock /\ acked.sent = Append(written.sent, AckFrame(total))
    BY <1>0, <1>3, <1>5, <2>1, SrvFlushAck
  <2>3. acked.st = [h.st EXCEPT !.recvUnacked = 0]
    BY <1>3, <2>2 DEF SrvTurn, SrvType
  <2> HIDE DEF acked
  <2> QED
    BY <1>2, <1>3, <1>5, <2>2, <2>3 DEF sock, total
<1> QED
  BY <1>4, <1>5

\* onEof, of the server's class
LEMMA SrvOnEof ==
  ASSUME NEW h \in SrvTurn
  PROVE  LET r == S!OnEof(h)
         IN  /\ h.st.finished \/ h.st.receivedEof => r = h
             /\ ~(h.st.finished \/ h.st.receivedEof) =>
                   /\ r \in SrvTurn
                   /\ r.st = [h.st EXCEPT !.receivedEof = TRUE, !.recvUnacked = 0,
                                          !.finished = h.st.sentEof]
                   /\ r.sock = EndWrite(h.sock)
                   /\ r.sent = IF h.st.recvUnacked = 0 THEN h.sent
                               ELSE Append(h.sent, AckFrame(h.st.recvUnacked))
<1> DEFINE half == [h EXCEPT !.st.receivedEof = TRUE]
           acked == S!FlushAck(half)
           done == [acked EXCEPT !.sock = EndWrite(@)]
<1>1. CASE h.st.finished \/ h.st.receivedEof
  BY <1>1 DEF S!OnEof
<1>2. CASE ~(h.st.finished \/ h.st.receivedEof)
  <2>1. S!OnEof(h) = IF h.st.sentEof THEN S!Finish(done) ELSE done
    BY <1>2, SameOperators DEF S!OnEof
  <2>2. /\ half \in SrvTurn /\ half.st = [h.st EXCEPT !.receivedEof = TRUE]
        /\ half.sock = h.sock /\ half.sent = h.sent
    BY DEF SrvTurn, SrvType
  <2> HIDE DEF half
  <2>3. half.st.recvUnacked = h.st.recvUnacked /\ half.st.finished = h.st.finished
    BY <2>2 DEF SrvTurn, SrvType
  <2>4. /\ acked \in SrvTurn
        /\ acked.st = [h.st EXCEPT !.receivedEof = TRUE, !.recvUnacked = 0]
        /\ acked.sock = h.sock
        /\ acked.sent = IF h.st.recvUnacked = 0 THEN h.sent
                        ELSE Append(h.sent, AckFrame(h.st.recvUnacked))
    <3>1. CASE h.st.recvUnacked = 0
      <4>1. acked = half
        BY <1>2, <2>2, <2>3, <3>1, SrvFlushAck
      <4>2. half.st = [h.st EXCEPT !.receivedEof = TRUE, !.recvUnacked = 0]
        BY <2>2, <3>1 DEF SrvTurn, SrvType
      <4> QED
        BY <2>2, <3>1, <4>1, <4>2
    <3>2. CASE h.st.recvUnacked # 0
      BY <1>2, <2>2, <2>3, <3>2, SrvFlushAck
    <3> QED
      BY <3>1, <3>2
  <2> HIDE DEF acked
  <2>5. EndWrite(acked.sock) \in Socket(Bytes)
    BY <2>4, SocketEvents DEF SrvTurn
  <2>6. /\ done \in SrvTurn /\ done.st = acked.st
        /\ done.sock = EndWrite(h.sock) /\ done.sent = acked.sent
    BY <2>4, <2>5 DEF SrvTurn
  <2> HIDE DEF done
  <2>7. /\ S!Finish(done) \in SrvTurn
        /\ S!Finish(done).st = [done.st EXCEPT !.finished = TRUE]
        /\ S!Finish(done).sock = done.sock /\ S!Finish(done).sent = done.sent
    BY <2>6, SrvFinish
  <2>8. h.st \in SrvType
    BY DEF SrvTurn
  <2>9. CASE h.st.sentEof
    <3>1. [done.st EXCEPT !.finished = TRUE]
            = [h.st EXCEPT !.receivedEof = TRUE, !.recvUnacked = 0,
                           !.finished = h.st.sentEof]
      BY <2>4, <2>6, <2>8, <2>9 DEF SrvType
    <3> QED
      BY <1>2, <2>1, <2>4, <2>6, <2>7, <2>9, <3>1
  <2>10. CASE ~h.st.sentEof
    <3>1. done.st = [h.st EXCEPT !.receivedEof = TRUE, !.recvUnacked = 0,
                                 !.finished = h.st.sentEof]
      BY <1>2, <2>4, <2>6, <2>8, <2>10, ZenonT(60) DEF SrvType
    <3> QED
      BY <1>2, <2>1, <2>4, <2>6, <2>10, <3>1
  <2> QED
    BY <2>9, <2>10
<1> QED
  BY <1>1, <1>2

\* Resumed or left as it was.
LEMMA SrvMaybeResume ==
  ASSUME NEW h \in SrvTurn
  PROVE  LET r == S!MaybeResume(h)
         IN  \/ r = h
             \/ /\ h.st.sendCredit > 0
                /\ r \in SrvTurn
                /\ r.st = [h.st EXCEPT !.pausedForCredit = FALSE]
                /\ r.sock = Resume(h.sock)
                /\ r.sent = h.sent
<1> DEFINE r == [h EXCEPT !.st.pausedForCredit = FALSE, !.sock = Resume(@)]
<1>1. Resume(h.sock) \in Socket(Bytes)
  BY PauseResume DEF SrvTurn
<1>2. /\ r \in SrvTurn /\ r.st = [h.st EXCEPT !.pausedForCredit = FALSE]
      /\ r.sock = Resume(h.sock) /\ r.sent = h.sent
  BY <1>1 DEF SrvTurn, SrvType
<1>3. S!MaybeResume(h) = h \/ (h.st.sendCredit > 0 /\ S!MaybeResume(h) = r)
  <2>1. h.st.sendCredit \in Int
    BY DEF SrvTurn, SrvType
  <2>2. h.st.sendCredit <= 0 \/ h.st.sendCredit > 0
    BY <2>1
  <2>3. CASE h.st.sendCredit <= 0
    BY <2>3 DEF S!MaybeResume
  <2>4. CASE h.st.sendCredit > 0
    BY <2>4, SameOperators DEF S!MaybeResume
  <2> QED
    BY <2>2, <2>3, <2>4
<1> HIDE DEF r
<1> QED
  BY <1>2, <1>3

\* onAck, of the server's class
LEMMA SrvOnAck ==
  ASSUME NEW h \in SrvTurn, NEW n \in Nat
  PROVE  LET r == S!OnAck(h, n)
         IN  /\ h.st.finished => r = h
             /\ ~h.st.finished =>
                   /\ r \in SrvTurn
                   /\ r.sent = h.sent
                   /\ \/ /\ r.st = [h.st EXCEPT !.sendCredit = h.st.sendCredit + n]
                         /\ r.sock = h.sock
                      \/ /\ h.st.sendCredit + n > 0
                         /\ r.st = [h.st EXCEPT !.sendCredit = h.st.sendCredit + n,
                                                !.pausedForCredit = FALSE]
                         /\ r.sock = Resume(h.sock)
<1> DEFINE more == [h EXCEPT !.st.sendCredit = h.st.sendCredit + n]
<1>1. S!OnAck(h, n) = IF h.st.finished THEN h ELSE S!MaybeResume(more)
  BY DEF S!OnAck
<1>2. /\ more \in SrvTurn
      /\ more.st = [h.st EXCEPT !.sendCredit = h.st.sendCredit + n]
      /\ more.st.sendCredit = h.st.sendCredit + n
      /\ more.sock = h.sock /\ more.sent = h.sent
  <2>1. h.st \in SrvType /\ h.st.sendCredit + n \in Int
    BY DEF SrvTurn, SrvType
  <2>2. [h.st EXCEPT !.sendCredit = h.st.sendCredit + n] \in SrvType
    BY <2>1 DEF SrvType
  <2>3. /\ more.st = [h.st EXCEPT !.sendCredit = h.st.sendCredit + n]
        /\ more.sock = h.sock /\ more.sent = h.sent
    BY DEF SrvTurn
  <2>4. more \in SrvTurn
    BY <2>2 DEF SrvTurn
  <2> QED
    BY <2>1, <2>3, <2>4 DEF SrvType
<1> HIDE DEF more
<1>3. \/ S!MaybeResume(more) = more
      \/ /\ more.st.sendCredit > 0
         /\ S!MaybeResume(more) \in SrvTurn
         /\ S!MaybeResume(more).st = [more.st EXCEPT !.pausedForCredit = FALSE]
         /\ S!MaybeResume(more).sock = Resume(more.sock)
         /\ S!MaybeResume(more).sent = more.sent
  BY <1>2, SrvMaybeResume
<1>4. [more.st EXCEPT !.pausedForCredit = FALSE]
        = [h.st EXCEPT !.sendCredit = h.st.sendCredit + n, !.pausedForCredit = FALSE]
  BY <1>2
<1> QED
  BY <1>1, <1>2, <1>3, <1>4

\* A global pause or its end touches the pause flags and the socket's flow.
SrvRepaused(r, h) ==
    /\ r \in SrvTurn
    /\ r.sent = h.sent
    /\ \/ r.st = h.st /\ r.sock = h.sock
       \/ /\ \/ r.st = [h.st EXCEPT !.pausedGlobally = TRUE]
             \/ r.st = [h.st EXCEPT !.pausedGlobally = FALSE]
          /\ r.sock = h.sock \/ r.sock = Pause(h.sock)
       \/ /\ h.st.sendCredit > 0
          /\ r.st = [h.st EXCEPT !.pausedGlobally = FALSE, !.pausedForCredit = FALSE]
          /\ r.sock = Resume(h.sock)

\* setGlobalPause, of the server's class
LEMMA SrvGlobalPause ==
  ASSUME NEW h \in SrvTurn, NEW paused \in BOOLEAN
  PROVE  SrvRepaused(S!SetGlobalPause(h, paused), h)
<1> DEFINE set == [h EXCEPT !.st.pausedGlobally = paused]
           stopped == [set EXCEPT !.sock = Pause(@)]
           r == S!SetGlobalPause(h, paused)
<1> SUFFICES SrvRepaused(r, h)
  OBVIOUS
<1>1. /\ set \in SrvTurn /\ set.st = [h.st EXCEPT !.pausedGlobally = paused]
      /\ set.sock = h.sock /\ set.sent = h.sent
      /\ set.st.sendCredit = h.st.sendCredit
  BY DEF SrvTurn, SrvType
<1>2. r = IF h.st.pausedGlobally = paused \/ h.st.finished THEN h
          ELSE IF paused THEN stopped ELSE S!MaybeResume(set)
  BY SameOperators DEF S!SetGlobalPause
<1> HIDE DEF set, r
<1>3. CASE r = h
  BY <1>3 DEF SrvRepaused
<1>4. CASE paused /\ r = stopped
  <2>1. Pause(set.sock) \in Socket(Bytes)
    BY <1>1, PauseResume DEF SrvTurn
  <2>2. /\ stopped \in SrvTurn /\ stopped.st = set.st
        /\ stopped.sock = Pause(set.sock) /\ stopped.sent = set.sent
    BY <1>1, <2>1 DEF SrvTurn
  <2>3. paused = TRUE
    BY <1>4
  <2> HIDE DEF stopped
  <2> QED
    BY <1>1, <1>4, <2>2, <2>3 DEF SrvRepaused
<1>5. CASE ~paused /\ r = S!MaybeResume(set)
  <2>1. paused = FALSE
    BY <1>5
  <2>2. \/ r = set
        \/ /\ set.st.sendCredit > 0
           /\ r \in SrvTurn
           /\ r.st = [set.st EXCEPT !.pausedForCredit = FALSE]
           /\ r.sock = Resume(set.sock)
           /\ r.sent = set.sent
    BY <1>1, <1>5, SrvMaybeResume
  <2>3. [set.st EXCEPT !.pausedForCredit = FALSE]
          = [h.st EXCEPT !.pausedGlobally = FALSE, !.pausedForCredit = FALSE]
    BY <1>1, <2>1
  <2> QED
    BY <1>1, <2>1, <2>2, <2>3 DEF SrvRepaused
<1> QED
  BY <1>2, <1>3, <1>4, <1>5

-----------------------------------------------------------------------------
\* The agent's turns.

\* The agent's stream with no bounds on its counts; a chunk it queues is never
-----------------------------------------------------------------------------
\* The inductive invariant, by what it is about.

\* The agent's stream, with no bounds on its counts.
PyType == [run : {"none", "dialling", "pumps", "over"},
           toLocal : {"off", "get", "drain", "eof", "failed", "over"},
           toServer : {"off", "read", "over"},
           inbox : Seq(WireFrame), owed : Nat, sendCredit : Int,
           finished : BOOLEAN, headBuf : Seq(Bytes), headDone : BOOLEAN,
           rewriteHost : BOOLEAN]

\* Types, with no bounds on the counts yet: those follow from Flow.
Types ==
    /\ srv \in SrvType
    /\ pub \in Socket(Bytes)
    /\ srvCongested \in BOOLEAN
    /\ srvClosed \in BOOLEAN
    /\ py \in PyType
    /\ loc \in Connection(Bytes)
    /\ sessionOver \in BOOLEAN
    /\ linkUp \in BOOLEAN
    /\ toAgent \in Seq(WireFrame)
    /\ toServer \in Seq(WireFrame)
    /\ visitorSaid \in 0..UpBytes
    /\ serviceSaid \in 0..DownBytes
    /\ happened \in Histories \cup {{}}

\* What has not begun has left no trace.
LifeOfServer ==
    /\ ~srv.opened => /\ srv = S!NoStream
                      /\ toAgent = <<>>
                      /\ toServer = <<>>
                      /\ py.run = "none"
    /\ srvClosed => ~linkUp
    /\ sessionOver => ~linkUp

\* Where the tasks are agrees with what they hold: bytes are owed an
\* acknowledgement exactly while a drain() that follows them is waited for, or
\* was given up.
LifeOfPy ==
    /\ py.run = "none" => py = P!NoPyStream(py.rewriteHost)
    /\ py.run = "dialling" => py.toLocal = "off" /\ py.toServer = "off"
    /\ py.toLocal = "failed" => loc.lost
    /\ py.toLocal \in {"off", "get", "eof"} => py.owed = 0
    /\ py.toLocal = "drain" => py.owed # 0
    /\ TypesIn(py.inbox) \subseteq {"DATA", "EOF"}

\* A queue in order: announced first, no data behind an end, nothing but resets
\* behind a reset.
Orderly(channel) ==
    \A i, j \in DOMAIN channel :
       i < j => /\ channel[i].type = "EOF" => channel[j].type # "DATA"
                /\ channel[i].type = "RESET" => channel[j].type = "RESET"
                /\ channel[j].type # "OPEN"

\* Less is true of what the agent sends, as its pumps may outlive its stream.
DataFirst(channel) ==
    \A i, j \in DOMAIN channel :
       i < j /\ channel[i].type = "EOF" => channel[j].type # "DATA"

\* Frames in the queues agree with what their senders have done.
Chan ==
    /\ Orderly(toAgent)
    /\ "EOF" \in TypesIn(toAgent) => srv.sentEof
    /\ "RESET" \in TypesIn(toAgent) => srv.finished
    /\ "OPEN" \in TypesIn(toAgent) => py.run = "none" /\ toServer = <<>>
    /\ DataFirst(toServer)
    /\ "EOF" \in TypesIn(toServer) => py.toServer = "over"
    /\ "RESET" \in TypesIn(toServer) =>
           \/ py.finished \/ py.toServer = "over"
           \/ py.run = "none" /\ "OPEN" \notin TypesIn(toAgent)
    /\ "OPEN" \notin TypesIn(toServer)
    /\ py.run = "none" => TypesIn(toServer) \subseteq {"RESET"}

Ended == {"EOF", "RESET"}

\* The agent's end knows that no more is to come, or does not care.
HeardEnd(s) ==
    \/ s.finished
    \/ s.toLocal \in {"eof", "failed", "over"} \/ s.toServer = "over"
    \/ "EOF" \in TypesIn(s.inbox)

\* Whoever is done with its own direction has said so, or need not.
Informed ==
    /\ pub.readEnded => srv.sentEof \/ srv.finished
    /\ linkUp /\ (srv.sentEof \/ srv.finished) =>
           \/ py.run = "none" /\ "OPEN" \notin TypesIn(toAgent)
           \/ HeardEnd(py)
           \/ Ended \cap TypesIn(toAgent) # {}
    /\ linkUp /\ (py.finished \/ py.toServer = "over") =>
           \/ srv.finished \/ srv.receivedEof \/ loc.lost
           \/ Ended \cap TypesIn(toServer) # {}

\* An end of stream is the last of the data.
Eof == srv.receivedEof => py.toServer = "over" /\ "DATA" \notin TypesIn(toServer)

\* The places where a byte of the visitor's window can be.
Held == DataIn(py.inbox) + py.owed
UpSum == srv.sendCredit + DataIn(toAgent) + Held + AcksIn(toServer)

\* The places where a byte of the service's window can be.
DownSum == py.sendCredit + DataIn(toServer) + srv.recvUnacked + AcksIn(toAgent)

\* Credit is conserved while both ends work on the stream and never made, and
\* a sender's credit is what its socket has not been asked for.
Flow ==
    /\ UpSum <= Window /\ (BothLive => UpSum = Window)
    /\ DownSum <= Window /\ (BothLive => DownSum = Window)
    /\ srv.sendCredit + visitorSaid - Len(pub.inq) >= Window
    /\ py.sendCredit + serviceSaid - Len(loc.inq) >= Window

\* A socket emits 'data' only while there is credit.
SrvPauses ==
    /\ srv.pausedForCredit => ~pub.flowing
    /\ srv.sendCredit <= 0 => srv.pausedForCredit
    /\ srv.sendCredit > -MaxChunk

\* _to_server reads only while there is credit.
PyWaits == py.sendCredit > -MaxChunk

\* What is unacknowledged is at most this.
WindowAndChunk == Window + MaxChunk - 1

\* What the public socket buffers is not yet acknowledged, but for a buffer that
\* write() called free.
SrvBuffers ==
    /\ Len(pub.out) < WindowAndChunk + HighWater
    /\ ~srv.receivedEof => Len(pub.out) < srv.recvUnacked + HighWater

\* The inductive invariant.
IInv == /\ Types /\ LifeOfServer /\ LifeOfPy /\ Chan /\ Informed /\ Eof
        /\ Flow /\ SrvPauses /\ PyWaits /\ SrvBuffers

\* The constants, as the arithmetic below needs them.
LEMMA RoomTyped ==
  /\ HighWater \in Nat \ {0} /\ MaxChunk \in Nat \ {0}
  /\ Window \in Nat \ {0}
  BY PyBridgeAssumption, SocketAssumption


\* An empty queue carries nothing.
LEMMA NoFrames ==
  ASSUME NEW c \in Seq(WireFrame)
  PROVE  c = <<>> <=> TypesIn(c) = {}
<1>1. c # <<>> => Head(c).type \in TypesIn(c)
  BY TakenSeen DEF WireFrame
<1> QED
  BY <1>1, EmptySeen

\* The frames e follow what is in the channel, unless the link is gone.
LEMMA Grown ==
  ASSUME NEW c \in Seq(WireFrame), NEW e \in Seq(WireFrame), NEW c2,
         c2 = IF linkUp THEN c \o e ELSE c
  PROVE  /\ c2 \in Seq(WireFrame)
         /\ TypesIn(c2) = IF linkUp THEN TypesIn(c) \cup TypesIn(e) ELSE TypesIn(c)
         /\ DataIn(c2) = IF linkUp THEN DataIn(c) + DataIn(e) ELSE DataIn(c)
         /\ AcksIn(c2) = IF linkUp THEN AcksIn(c) + AcksIn(e) ELSE AcksIn(c)
         /\ DataIn(c2) \in Nat /\ AcksIn(c2) \in Nat
         /\ DataIn(c) \in Nat /\ AcksIn(c) \in Nat
         /\ DataIn(e) \in Nat /\ AcksIn(e) \in Nat
<1>1. CASE linkUp
  BY <1>1, ConcatSeen, CountsBounded, SMTT(40) DEF WireFrame
<1>2. CASE ~linkUp
  BY <1>2, CountsBounded DEF WireFrame
<1> QED
  BY <1>1, <1>2

\* Frames said in order by a sender that keeps its promises leave a queue in
\* order.
LEMMA GrownOrderly ==
  ASSUME NEW c \in Seq(WireFrame), NEW e \in Seq(WireFrame), NEW c2,
         c2 = IF linkUp THEN c \o e ELSE c,
         Orderly(c), Orderly(e),
         "EOF" \in TypesIn(c) => "DATA" \notin TypesIn(e),
         "RESET" \in TypesIn(c) => TypesIn(e) \subseteq {"RESET"},
         "OPEN" \in TypesIn(e) => c = <<>>
  PROVE  Orderly(c2)
<1>1. CASE ~linkUp
  BY <1>1
<1>2. CASE linkUp
  <2> DEFINE n == Len(c)
             m == Len(e)
  <2>1. /\ n \in Nat /\ m \in Nat
        /\ DOMAIN c = 1..n /\ DOMAIN e = 1..m
        /\ DOMAIN c2 = 1..(n + m)
        /\ \A i \in 1..n : c2[i] = c[i]
        /\ \A i \in 1..m : c2[n + i] = e[i]
        /\ c = <<>> => n = 0
    BY <1>2
  <2> HIDE DEF n, m
  <2>2. SUFFICES ASSUME NEW i \in 1..(n + m), NEW j \in 1..(n + m), i < j
                 PROVE  /\ c2[i].type = "EOF" => c2[j].type # "DATA"
                        /\ c2[i].type = "RESET" => c2[j].type = "RESET"
                        /\ c2[j].type # "OPEN"
    <3>1. DOMAIN c2 = 1..(n + m)
      BY <2>1
    <3> QED
      BY ONLY <2>2, <3>1 DEF Orderly
  <2>3. CASE j \in 1..n
    <3>1. i \in 1..n
      BY <2>1, <2>2, <2>3
    <3> QED
      BY <2>1, <2>2, <2>3, <3>1, SMTT(40) DEF Orderly
  <2>4. CASE i \in 1..n /\ j \notin 1..n
    <3>1. j - n \in 1..m /\ j = n + (j - n)
      BY <2>1, <2>2, <2>4
    <3>2. c2[i] = c[i] /\ c2[j] = e[j - n]
      BY <2>1, <2>4, <3>1
    <3>3. c[i].type \in TypesIn(c) /\ e[j - n].type \in TypesIn(e)
      BY <2>1, <2>4, <3>1 DEF TypesIn
    <3>4. n # 0
      BY <2>1, <2>4
    <3> QED
      BY <2>1, <3>2, <3>3, <3>4, SMTT(40)
  <2>5. CASE i \notin 1..n
    <3>1. /\ i - n \in 1..m /\ i = n + (i - n)
          /\ j - n \in 1..m /\ j = n + (j - n)
          /\ i - n < j - n
      BY <2>1, <2>2, <2>5
    <3> DEFINE a == i - n
               b == j - n
    <3>2. /\ a \in DOMAIN e /\ b \in DOMAIN e /\ a < b
          /\ c2[i] = e[a] /\ c2[j] = e[b]
      BY <2>1, <3>1
    <3> HIDE DEF a, b
    <3> QED
      BY <3>2, ZenonT(60) DEF Orderly
  <2> QED
    BY <2>3, <2>4, <2>5
<1> QED
  BY <1>1, <1>2

\* The frames t, one or none, are taken from the front.
LEMMA Shortened ==
  ASSUME NEW c \in Seq(WireFrame), NEW t \in Seq(WireFrame)
  PROVE  /\ TypesIn(t \o c) = TypesIn(t) \cup TypesIn(c)
         /\ DataIn(t \o c) = DataIn(t) + DataIn(c)
         /\ AcksIn(t \o c) = AcksIn(t) + AcksIn(c)
         /\ DataIn(t) \in Nat /\ AcksIn(t) \in Nat
         /\ DataIn(c) \in Nat /\ AcksIn(c) \in Nat
         /\ t \o c = <<>> => t = <<>> /\ c = <<>>
         /\ TypesIn(t) = {} <=> t = <<>>
<1>1. /\ TypesIn(t \o c) = TypesIn(t) \cup TypesIn(c)
      /\ DataIn(t \o c) = DataIn(t) + DataIn(c)
      /\ AcksIn(t \o c) = AcksIn(t) + AcksIn(c)
  BY ConcatSeen DEF WireFrame
<1>2. /\ DataIn(t) \in Nat /\ AcksIn(t) \in Nat
      /\ DataIn(c) \in Nat /\ AcksIn(c) \in Nat
  BY CountsBounded DEF WireFrame
<1>3. TypesIn(t) = {} <=> t = <<>>
  BY NoFrames
<1>4. t \o c = <<>> => t = <<>> /\ c = <<>>
  OBVIOUS
<1> QED
  BY <1>1, <1>2, <1>3, <1>4

\* What is left of a queue in order is in order, and an announcement taken is
\* gone.
LEMMA ShortenedOrderly ==
  ASSUME NEW c \in Seq(WireFrame), NEW t \in Seq(WireFrame),
         NEW c2 \in Seq(WireFrame), c = t \o c2, Orderly(c)
  PROVE  /\ Orderly(c2)
         /\ "EOF" \in TypesIn(t) => "DATA" \notin TypesIn(c2)
         /\ "RESET" \in TypesIn(t) => TypesIn(c2) \subseteq {"RESET"}
         /\ t # <<>> => "OPEN" \notin TypesIn(c2)
<1> DEFINE n == Len(t)
           m == Len(c2)
<1>1. /\ n \in Nat /\ m \in Nat
      /\ DOMAIN t = 1..n /\ DOMAIN c2 = 1..m /\ DOMAIN c = 1..(n + m)
      /\ \A i \in 1..n : c[i] = t[i]
      /\ \A i \in 1..m : c[n + i] = c2[i]
      /\ t # <<>> => n # 0
  OBVIOUS
<1> HIDE DEF n, m
<1>2. Orderly(c2)
  <2>1. SUFFICES ASSUME NEW i \in 1..m, NEW j \in 1..m, i < j
                 PROVE  /\ c2[i].type = "EOF" => c2[j].type # "DATA"
                        /\ c2[i].type = "RESET" => c2[j].type = "RESET"
                        /\ c2[j].type # "OPEN"
    BY <1>1 DEF Orderly
  <2>2. n + i \in 1..(n + m) /\ n + j \in 1..(n + m) /\ n + i < n + j
    BY <1>1, <2>1
  <2>3. c[n + i] = c2[i] /\ c[n + j] = c2[j]
    BY <1>1
  <2> DEFINE a == n + i
             b == n + j
  <2> HIDE DEF a, b
  <2>4. a \in DOMAIN c /\ b \in DOMAIN c /\ a < b /\ c[a] = c2[i] /\ c[b] = c2[j]
    BY <1>1, <2>2, <2>3 DEF a, b
  <2> QED
    BY <2>4, SMTT(40) DEF Orderly
<1>3. ASSUME NEW i \in 1..n, NEW j \in 1..m
      PROVE  /\ t[i].type = "EOF" => c2[j].type # "DATA"
             /\ t[i].type = "RESET" => c2[j].type = "RESET"
             /\ c2[j].type # "OPEN"
  <2> DEFINE b == n + j
  <2>1. i \in DOMAIN c /\ b \in DOMAIN c /\ i < b /\ c[i] = t[i] /\ c[b] = c2[j]
    BY <1>1
  <2> HIDE DEF b
  <2> QED
    BY <2>1, ZenonT(60) DEF Orderly
<1>4. n # 0 => 1 \in 1..n
  BY <1>1
<1> QED
  BY <1>1, <1>2, <1>3, <1>4 DEF TypesIn

\* The same for the agent's queue.
LEMMA GrownFirst ==
  ASSUME NEW c \in Seq(WireFrame), NEW e \in Seq(WireFrame), NEW c2,
         c2 = IF linkUp THEN c \o e ELSE c,
         DataFirst(c), Len(e) \in {0, 1},
         "EOF" \in TypesIn(c) => "DATA" \notin TypesIn(e)
  PROVE  DataFirst(c2)
<1>1. CASE ~linkUp
  BY <1>1
<1>2. CASE linkUp
  <2> DEFINE n == Len(c)
             m == Len(e)
  <2>1. /\ n \in Nat /\ m \in {0, 1}
        /\ DOMAIN c = 1..n /\ DOMAIN e = 1..m
        /\ DOMAIN c2 = 1..(n + m)
        /\ \A i \in 1..n : c2[i] = c[i]
        /\ \A i \in 1..m : c2[n + i] = e[i]
    BY <1>2
  <2> HIDE DEF n, m
  <2>2. SUFFICES ASSUME NEW i \in 1..(n + m), NEW j \in 1..(n + m), i < j,
                        c2[i].type = "EOF"
                 PROVE  c2[j].type # "DATA"
    BY <2>1 DEF DataFirst
  <2>3. CASE j \in 1..n
    <3>1. i \in 1..n
      BY <2>1, <2>2, <2>3
    <3>2. i \in DOMAIN c /\ j \in DOMAIN c /\ c2[i] = c[i] /\ c2[j] = c[j]
      BY <2>1, <2>3, <3>1
    <3> QED
      BY <2>2, <3>2 DEF DataFirst
  <2>4. CASE j \notin 1..n
    <3>1. i \in 1..n /\ j = n + 1 /\ 1 \in 1..m
      BY <2>1, <2>2, <2>4
    <3>2. c2[i] = c[i] /\ c2[j] = e[1]
      BY <2>1, <3>1
    <3>3. c[i].type \in TypesIn(c) /\ e[1].type \in TypesIn(e)
      BY <2>1, <3>1 DEF TypesIn
    <3> QED
      BY <2>2, <3>2, <3>3
  <2> QED
    BY <2>3, <2>4
<1> QED
  BY <1>1, <1>2

\* What is left of the agent's queue.
LEMMA ShortenedFirst ==
  ASSUME NEW c \in Seq(WireFrame), NEW t \in Seq(WireFrame),
         NEW c2 \in Seq(WireFrame), c = t \o c2, DataFirst(c)
  PROVE  /\ DataFirst(c2)
         /\ "EOF" \in TypesIn(t) => "DATA" \notin TypesIn(c2)
<1> DEFINE n == Len(t)
           m == Len(c2)
<1>1. /\ n \in Nat /\ m \in Nat
      /\ DOMAIN t = 1..n /\ DOMAIN c2 = 1..m /\ DOMAIN c = 1..(n + m)
      /\ \A i \in 1..n : c[i] = t[i]
      /\ \A i \in 1..m : c[n + i] = c2[i]
  OBVIOUS
<1> HIDE DEF n, m
<1>2. DataFirst(c2)
  <2>1. SUFFICES ASSUME NEW i \in 1..m, NEW j \in 1..m, i < j, c2[i].type = "EOF"
                 PROVE  c2[j].type # "DATA"
    BY <1>1 DEF DataFirst
  <2> DEFINE a == n + i
             b == n + j
  <2>2. a \in DOMAIN c /\ b \in DOMAIN c /\ a < b /\ c[a] = c2[i] /\ c[b] = c2[j]
    BY <1>1, <2>1
  <2> HIDE DEF a, b
  <2> QED
    BY <2>1, <2>2 DEF DataFirst
<1>3. ASSUME NEW i \in 1..n, NEW j \in 1..m, t[i].type = "EOF"
      PROVE  c2[j].type # "DATA"
  <2> DEFINE b == n + j
  <2>1. i \in DOMAIN c /\ b \in DOMAIN c /\ i < b /\ c[i] = t[i] /\ c[b] = c2[j]
    BY <1>1
  <2> HIDE DEF b
  <2> QED
    BY <1>3, <2>1 DEF DataFirst
<1> QED
  BY <1>1, <1>2, <1>3 DEF TypesIn

\* None, and one.
LEMMA FewFrames ==
  /\ <<>> \in Seq(WireFrame) /\ Orderly(<<>>)
  /\ TypesIn(<<>>) = {} /\ DataIn(<<>>) = 0 /\ AcksIn(<<>>) = 0
  /\ \A f \in WireFrame : /\ <<f>> \in Seq(WireFrame) /\ Orderly(<<f>>)
                          /\ TypesIn(<<f>>) = {f.type}
                          /\ DataIn(<<f>>) = DataOf(f)
                          /\ AcksIn(<<f>>) = AckOf(f)
<1>1. <<>> \in Seq(WireFrame) /\ Orderly(<<>>)
  BY DEF Orderly
<1>2. ASSUME NEW f \in WireFrame
      PROVE  /\ <<f>> \in Seq(WireFrame) /\ Orderly(<<f>>)
             /\ TypesIn(<<f>>) = {f.type}
             /\ DataIn(<<f>>) = DataOf(f)
             /\ AcksIn(<<f>>) = AckOf(f)
  <2>1. /\ <<f>> \in Seq(WireFrame)
        /\ TypesIn(<<f>>) = {f.type}
        /\ DataIn(<<f>>) = DataOf(f)
        /\ AcksIn(<<f>>) = AckOf(f)
    BY OneSeen DEF WireFrame
  <2>2. Orderly(<<f>>)
    <3>1. DOMAIN <<f>> = 1..1
      OBVIOUS
    <3>2. \A i, j \in 1..1 : ~(i < j)
      OBVIOUS
    <3> QED
      BY <3>1, <3>2 DEF Orderly
  <2> QED
    BY <2>1, <2>2
<1> QED
  BY <1>1, <1>2, EmptySeen

\* A concatenation of sequences over B is one.
LEMMA ConcatTyped ==
  ASSUME NEW B, NEW s \in Seq(B), NEW t \in Seq(B)
  PROVE  s \o t \in Seq(B) /\ Len(s \o t) = Len(s) + Len(t)
  OBVIOUS

\* So is a piece of one.
LEMMA SubSeqTyped ==
  ASSUME NEW B, NEW s \in Seq(B), NEW m \in 1..(Len(s) + 1)
  PROVE  /\ SubSeq(s, m, Len(s)) \in Seq(B)
         /\ Len(SubSeq(s, m, Len(s))) = Len(s) - (m - 1)
  BY SubSeqProperties

\* An appended frame adds what it carries.
LEMMA AppendSeen ==
  ASSUME NEW c \in Seq(WireFrame), NEW f \in WireFrame
  PROVE  /\ Append(c, f) \in Seq(WireFrame)
         /\ TypesIn(Append(c, f)) = TypesIn(c) \cup {f.type}
         /\ DataIn(Append(c, f)) = DataIn(c) + DataOf(f)
         /\ AcksIn(Append(c, f)) = AcksIn(c) + AckOf(f)
<1>1. Append(c, f) = c \o <<f>>
  OBVIOUS
<1> QED
  BY <1>1, SentSeen DEF WireFrame

-----------------------------------------------------------------------------
\* What a turn of the server's end does, seen from the rest of the system: it
\* says the frames e, having taken the frames t, one or none, from its queue.

\* The frames and everything a turn of the server may not touch.
SrvWire(e, t) ==
    /\ e \in Seq(WireFrame) /\ t \in Seq(WireFrame) /\ Orderly(e)
    /\ toAgent' = IF linkUp THEN toAgent \o e ELSE toAgent
    /\ toServer' \in Seq(WireFrame) /\ toServer = t \o toServer'
    /\ UNCHANGED <<pVars, linkUp, serviceSaid>>
    /\ visitorSaid' \in 0..UpBytes
    /\ happened' \in Histories \cup {{}}
    /\ srv' \in SrvType /\ pub' \in Socket(Bytes)
    /\ srvCongested' \in BOOLEAN /\ srvClosed' \in BOOLEAN
    /\ srvClosed' => ~linkUp

\* Its promises: what is said agrees with what the stream then remembers.
SrvWord(e, t) ==
    /\ srv.opened => srv'.opened
    /\ ~srv'.opened => srv' = S!NoStream /\ e = <<>>
    /\ "OPEN" \in TypesIn(e) => ~srv.opened
    /\ srv'.opened /\ ~srv.opened /\ linkUp => "OPEN" \in TypesIn(e)
    /\ srv.sentEof => srv'.sentEof /\ "DATA" \notin TypesIn(e)
    /\ srv.finished => srv'.finished /\ TypesIn(e) \subseteq {"RESET"}
    /\ srv.receivedEof => srv'.receivedEof
    /\ "EOF" \in TypesIn(e) => srv'.sentEof
    /\ srv'.sentEof => srv.sentEof \/ "EOF" \in TypesIn(e)
    /\ "RESET" \in TypesIn(e) => srv'.finished
    /\ srv'.finished => \/ srv.finished \/ srv'.sentEof \/ ~linkUp
                        \/ "RESET" \in TypesIn(e) \/ "RESET" \in TypesIn(t)
    /\ "EOF" \in TypesIn(t) => srv'.receivedEof \/ srv'.finished
    /\ "RESET" \in TypesIn(t) => srv'.finished
    /\ srv'.receivedEof => srv.receivedEof \/ "EOF" \in TypesIn(t)
    /\ pub'.readEnded => srv'.sentEof \/ srv'.finished

\* Its accounts: what is sent is paid for, what is taken is owed or
\* acknowledged, and only data that were paid for leave the socket.
SrvBytes(e, t) ==
    /\ srv'.sendCredit + DataIn(e) <= srv.sendCredit + AcksIn(t)
    /\ srv'.recvUnacked + AcksIn(e) <= srv.recvUnacked + DataIn(t)
    /\ ~srv'.finished =>
          /\ srv'.sendCredit + DataIn(e) = srv.sendCredit + AcksIn(t)
          /\ srv'.recvUnacked + AcksIn(e) = srv.recvUnacked + DataIn(t)
    /\ DataIn(e) > 0 => /\ srv.sendCredit > 0
                        /\ DataIn(e) <= Largest
                        /\ t = <<>>
    /\ srv'.sendCredit + visitorSaid' - Len(pub'.inq) >= Window
    /\ SrvPauses'
    /\ ~srv'.receivedEof => Len(pub'.out) < srv'.recvUnacked + HighWater
    /\ srv'.receivedEof => Len(pub'.out) < WindowAndChunk + HighWater

\* The law of a turn of the server's end.
SrvLaw(e, t) == SrvWire(e, t) /\ SrvWord(e, t) /\ SrvBytes(e, t)

\* What the queues carry after such a turn.
LEMMA SrvSeen ==
  ASSUME IInv, NEW e, NEW t, SrvWire(e, t)
  PROVE  /\ Types'
         /\ TypesIn(toAgent') = IF linkUp THEN TypesIn(toAgent) \cup TypesIn(e)
                                ELSE TypesIn(toAgent)
         /\ DataIn(toAgent') = IF linkUp THEN DataIn(toAgent) + DataIn(e)
                               ELSE DataIn(toAgent)
         /\ AcksIn(toAgent') = IF linkUp THEN AcksIn(toAgent) + AcksIn(e)
                               ELSE AcksIn(toAgent)
         /\ TypesIn(toServer) = TypesIn(t) \cup TypesIn(toServer')
         /\ DataIn(toServer) = DataIn(t) + DataIn(toServer')
         /\ AcksIn(toServer) = AcksIn(t) + AcksIn(toServer')
         /\ DataIn(e) \in Nat /\ AcksIn(e) \in Nat
         /\ DataIn(t) \in Nat /\ AcksIn(t) \in Nat
         /\ DataIn(toAgent) \in Nat /\ AcksIn(toAgent) \in Nat
         /\ DataIn(toServer') \in Nat /\ AcksIn(toServer') \in Nat
         /\ toServer = <<>> => t = <<>> /\ toServer' = <<>>
         /\ TypesIn(t) = {} <=> t = <<>>
<1>1. Types
  BY DEF IInv
<1>2. /\ e \in Seq(WireFrame) /\ t \in Seq(WireFrame)
      /\ toAgent \in Seq(WireFrame) /\ toServer \in Seq(WireFrame)
      /\ toAgent' = IF linkUp THEN toAgent \o e ELSE toAgent
      /\ toServer' \in Seq(WireFrame) /\ toServer = t \o toServer'
  BY <1>1 DEF Types, SrvWire
<1>3. /\ toAgent' \in Seq(WireFrame)
      /\ TypesIn(toAgent') = IF linkUp THEN TypesIn(toAgent) \cup TypesIn(e)
                             ELSE TypesIn(toAgent)
      /\ DataIn(toAgent') = IF linkUp THEN DataIn(toAgent) + DataIn(e)
                            ELSE DataIn(toAgent)
      /\ AcksIn(toAgent') = IF linkUp THEN AcksIn(toAgent) + AcksIn(e)
                            ELSE AcksIn(toAgent)
      /\ DataIn(toAgent) \in Nat /\ AcksIn(toAgent) \in Nat
      /\ DataIn(e) \in Nat /\ AcksIn(e) \in Nat
  <2> DEFINE c == toAgent
             c2 == toAgent'
  <2>1. /\ c \in Seq(WireFrame) /\ e \in Seq(WireFrame)
        /\ c2 = IF linkUp THEN c \o e ELSE c
    BY <1>2
  <2> HIDE DEF c, c2
  <2>2. /\ c2 \in Seq(WireFrame)
        /\ TypesIn(c2) = IF linkUp THEN TypesIn(c) \cup TypesIn(e) ELSE TypesIn(c)
        /\ DataIn(c2) = IF linkUp THEN DataIn(c) + DataIn(e) ELSE DataIn(c)
        /\ AcksIn(c2) = IF linkUp THEN AcksIn(c) + AcksIn(e) ELSE AcksIn(c)
        /\ DataIn(c) \in Nat /\ AcksIn(c) \in Nat
        /\ DataIn(e) \in Nat /\ AcksIn(e) \in Nat
    BY ONLY <2>1, Grown
  <2> QED
    BY ONLY <2>2 DEF c, c2
<1>4. /\ TypesIn(toServer) = TypesIn(t) \cup TypesIn(toServer')
      /\ DataIn(toServer) = DataIn(t) + DataIn(toServer')
      /\ AcksIn(toServer) = AcksIn(t) + AcksIn(toServer')
      /\ DataIn(t) \in Nat /\ AcksIn(t) \in Nat
      /\ DataIn(toServer') \in Nat /\ AcksIn(toServer') \in Nat
      /\ toServer = <<>> => t = <<>> /\ toServer' = <<>>
      /\ TypesIn(t) = {} <=> t = <<>>
  <2> DEFINE c == toServer
             c2 == toServer'
  <2>1. /\ c \in Seq(WireFrame) /\ t \in Seq(WireFrame)
        /\ c2 \in Seq(WireFrame) /\ c = t \o c2
    BY <1>2
  <2> HIDE DEF c, c2
  <2>2. /\ TypesIn(c) = TypesIn(t) \cup TypesIn(c2)
        /\ DataIn(c) = DataIn(t) + DataIn(c2)
        /\ AcksIn(c) = AcksIn(t) + AcksIn(c2)
        /\ DataIn(t) \in Nat /\ AcksIn(t) \in Nat
        /\ DataIn(c2) \in Nat /\ AcksIn(c2) \in Nat
        /\ c = <<>> => t = <<>> /\ c2 = <<>>
        /\ TypesIn(t) = {} <=> t = <<>>
    BY ONLY <2>1, Shortened
  <2> QED
    BY ONLY <2>2 DEF c, c2
<1>5. Types'
  BY <1>1, <1>2, <1>3 DEF Types, SrvWire, pVars
<1> QED
  BY <1>3, <1>4, <1>5

\* A turn that keeps its promises keeps the parts of the invariant that are
\* about promises.
LEMMA SrvKeepsWord ==
  ASSUME IInv, NEW e, NEW t, SrvWire(e, t), SrvWord(e, t)
  PROVE  LifeOfServer' /\ LifeOfPy' /\ Chan' /\ Informed' /\ Eof'
<1>1. /\ Types /\ LifeOfServer /\ LifeOfPy /\ Chan /\ Informed /\ Eof
  BY DEF IInv
<1>2. /\ TypesIn(toAgent') = IF linkUp THEN TypesIn(toAgent) \cup TypesIn(e)
                             ELSE TypesIn(toAgent)
      /\ TypesIn(toServer) = TypesIn(t) \cup TypesIn(toServer')
      /\ toServer = <<>> => t = <<>> /\ toServer' = <<>>
      /\ TypesIn(t) = {} <=> t = <<>>
  BY SrvSeen
<1>3. /\ py' = py /\ loc' = loc /\ sessionOver' = sessionOver /\ linkUp' = linkUp
      /\ serviceSaid' = serviceSaid
      /\ srvClosed' => ~linkUp
  BY DEF SrvWire, pVars
<1>4. /\ e \in Seq(WireFrame) /\ t \in Seq(WireFrame) /\ Orderly(e)
      /\ toAgent \in Seq(WireFrame) /\ toServer \in Seq(WireFrame)
      /\ toServer' \in Seq(WireFrame)
      /\ toAgent' = IF linkUp THEN toAgent \o e ELSE toAgent
      /\ toServer = t \o toServer'
  BY <1>1 DEF Types, SrvWire
<1>5. LifeOfServer'
  <2>1. ~srv'.opened => toAgent' = <<>> /\ toServer' = <<>> /\ py'.run = "none"
    <3>1. SUFFICES ASSUME ~srv'.opened
                   PROVE  toAgent' = <<>> /\ toServer' = <<>> /\ py'.run = "none"
      OBVIOUS
    <3>2. toAgent = <<>> /\ toServer = <<>> /\ py.run = "none" /\ e = <<>>
      BY <1>1, <3>1 DEF SrvWord, LifeOfServer
    <3>3. toAgent' = <<>>
      BY <1>4, <3>2
    <3> QED
      BY <1>2, <1>3, <3>2, <3>3
  <2> QED
    BY <1>1, <1>3, <2>1 DEF LifeOfServer, SrvWord
<1>6. LifeOfPy'
  BY <1>1, <1>3 DEF LifeOfPy
<1>7. srv.opened \/ t = <<>>
  BY <1>1, <1>2 DEF LifeOfServer
<1>8. Orderly(toAgent') /\ DataFirst(toServer')
  <2>1. DataFirst(toServer')
    BY <1>1, <1>4, ShortenedFirst DEF Chan
  <2>2. "OPEN" \in TypesIn(e) => toAgent = <<>>
    BY <1>1 DEF SrvWord, LifeOfServer
  <2>3. /\ "EOF" \in TypesIn(toAgent) => "DATA" \notin TypesIn(e)
        /\ "RESET" \in TypesIn(toAgent) => TypesIn(e) \subseteq {"RESET"}
    BY <1>1 DEF SrvWord, Chan
  <2>4. Orderly(toAgent')
    BY <1>1, <1>4, <2>2, <2>3, GrownOrderly DEF Chan
  <2> QED
    BY <2>1, <2>4
<1>9. Chan'
  <2>1. "EOF" \in TypesIn(toAgent') => srv'.sentEof
    BY <1>1, <1>2 DEF Chan, SrvWord
  <2>2. "RESET" \in TypesIn(toAgent') => srv'.finished
    BY <1>1, <1>2 DEF Chan, SrvWord
  <2>3. "OPEN" \in TypesIn(toAgent') => py.run = "none" /\ toServer' = <<>>
    BY <1>1, <1>2 DEF Chan, SrvWord, LifeOfServer
  <2>4. "EOF" \in TypesIn(toServer') => py.toServer = "over"
    BY <1>1, <1>2 DEF Chan
  <2>5. "RESET" \in TypesIn(toServer') =>
          \/ py.finished \/ py.toServer = "over"
          \/ py.run = "none" /\ "OPEN" \notin TypesIn(toAgent')
    <3>1. SUFFICES ASSUME "RESET" \in TypesIn(toServer')
                   PROVE  \/ py.finished \/ py.toServer = "over"
                          \/ py.run = "none" /\ "OPEN" \notin TypesIn(toAgent')
      OBVIOUS
    <3>2. toServer # <<>>
      BY <1>2, <3>1, EmptySeen
    <3>3. srv.opened
      BY <1>1, <3>2 DEF LifeOfServer
    <3> QED
      BY <1>1, <1>2, <3>1, <3>3 DEF Chan, SrvWord
  <2>6. /\ "OPEN" \notin TypesIn(toServer')
        /\ py.run = "none" => TypesIn(toServer') \subseteq {"RESET"}
    BY <1>1, <1>2 DEF Chan
  <2> QED
    BY <1>3, <1>8, <2>1, <2>2, <2>3, <2>4, <2>5, <2>6 DEF Chan
<1>10. Informed'
  <2>1. pub'.readEnded => srv'.sentEof \/ srv'.finished
    BY DEF SrvWord
  <2>3. linkUp /\ (srv'.sentEof \/ srv'.finished) =>
           \/ py.run = "none" /\ "OPEN" \notin TypesIn(toAgent')
           \/ HeardEnd(py)
           \/ Ended \cap TypesIn(toAgent') # {}
    <3>1. SUFFICES ASSUME linkUp, srv'.sentEof \/ srv'.finished,
                          "EOF" \notin TypesIn(e), "RESET" \notin TypesIn(e)
                   PROVE  \/ py.run = "none" /\ "OPEN" \notin TypesIn(toAgent')
                          \/ HeardEnd(py)
                          \/ Ended \cap TypesIn(toAgent') # {}
      BY <1>2 DEF Ended
    <3>2. srv.sentEof \/ srv.finished \/ "RESET" \in TypesIn(t)
      BY <3>1 DEF SrvWord
    <3>3. CASE srv.sentEof \/ srv.finished
      <4>1. srv.opened
        BY <1>1, <3>3 DEF LifeOfServer, S!NoStream
      <4>2. "OPEN" \notin TypesIn(e)
        BY <4>1 DEF SrvWord
      <4> QED
        BY <1>1, <1>2, <3>1, <3>3, <4>2 DEF Informed
    <3>4. CASE "RESET" \in TypesIn(t)
      <4>1. "OPEN" \notin TypesIn(e)
        BY <1>2, <1>7, <3>4 DEF SrvWord
      <4>2. HeardEnd(py) \/ (py.run = "none" /\ "OPEN" \notin TypesIn(toAgent))
        BY <1>1, <1>2, <3>4 DEF Chan, HeardEnd
      <4> QED
        BY <1>2, <4>1, <4>2
    <3> QED
      BY <3>2, <3>3, <3>4
  <2>4. linkUp /\ (py.finished \/ py.toServer = "over") =>
           \/ srv'.finished \/ srv'.receivedEof \/ loc.lost
           \/ Ended \cap TypesIn(toServer') # {}
    BY <1>1, <1>2 DEF Informed, SrvWord, Ended
  <2> QED
    BY <1>3, <2>1, <2>3, <2>4 DEF Informed, HeardEnd
<1>11. Eof'
  <2>2. srv'.receivedEof => py.toServer = "over" /\ "DATA" \notin TypesIn(toServer')
    <3>1. CASE srv.receivedEof
      BY <1>1, <1>2, <3>1 DEF Eof
    <3>2. CASE "EOF" \in TypesIn(t)
      BY <1>1, <1>2, <1>4, <3>2, ShortenedFirst DEF Chan
    <3> QED
      BY <3>1, <3>2 DEF SrvWord
  <2> QED
    BY <1>3, <2>2 DEF Eof
<1> QED
  BY <1>5, <1>6, <1>9, <1>10, <1>11

\* A stream that one end has given up stays given up.
LEMMA SrvStaysOver ==
  ASSUME IInv, NEW e, NEW t, SrvWire(e, t), SrvWord(e, t), BothLive'
  PROVE  BothLive /\ ~srv'.finished
<1>1. /\ TypesIn(toAgent') = IF linkUp THEN TypesIn(toAgent) \cup TypesIn(e)
                             ELSE TypesIn(toAgent)
  BY SrvSeen
<1>2. py' = py /\ linkUp' = linkUp
  BY DEF SrvWire, pVars
<1> QED
  BY <1>1, <1>2 DEF BothLive, Refused, SrvWord

\* A turn that keeps its accounts keeps the parts that are about counts.
LEMMA SrvKeepsBytes ==
  ASSUME IInv, NEW e, NEW t, SrvLaw(e, t)
  PROVE  Flow' /\ SrvPauses' /\ PyWaits' /\ SrvBuffers'
<1>1. /\ Types /\ Flow /\ SrvPauses /\ PyWaits /\ SrvBuffers
      /\ SrvWire(e, t) /\ SrvWord(e, t) /\ SrvBytes(e, t)
  BY DEF IInv, SrvLaw
<1>2. /\ Types'
      /\ DataIn(toAgent') = IF linkUp THEN DataIn(toAgent) + DataIn(e)
                            ELSE DataIn(toAgent)
      /\ AcksIn(toAgent') = IF linkUp THEN AcksIn(toAgent) + AcksIn(e)
                            ELSE AcksIn(toAgent)
      /\ DataIn(toServer) = DataIn(t) + DataIn(toServer')
      /\ AcksIn(toServer) = AcksIn(t) + AcksIn(toServer')
      /\ DataIn(e) \in Nat /\ AcksIn(e) \in Nat
      /\ DataIn(t) \in Nat /\ AcksIn(t) \in Nat
      /\ DataIn(toAgent) \in Nat /\ AcksIn(toAgent) \in Nat
      /\ DataIn(toServer') \in Nat /\ AcksIn(toServer') \in Nat
  BY <1>1, SrvSeen
<1>3. py' = py /\ loc' = loc /\ linkUp' = linkUp /\ serviceSaid' = serviceSaid
  BY <1>1 DEF SrvWire, pVars
<1>4. Held' = Held /\ Held \in Nat
  <2> DEFINE box == py.inbox
  <2>1. box \in Seq(WireFrame) /\ py.owed \in Nat
    BY <1>1 DEF Types, PyType
  <2> HIDE DEF box
  <2>2. DataIn(box) \in Nat
    BY <2>1, CountsBounded DEF WireFrame
  <2> QED
    BY <1>3, <2>1, <2>2 DEF Held, box
<1>5. /\ srv.sendCredit \in Int /\ srv.recvUnacked \in Nat
      /\ srv'.sendCredit \in Int /\ srv'.recvUnacked \in Nat
      /\ py.sendCredit \in Int
      /\ Window \in Nat /\ MaxChunk \in Nat /\ HighWater \in Nat
  BY <1>1, <1>2, RoomTyped DEF Types, SrvType, PyType
<1>6. BothLive' => BothLive /\ ~srv'.finished /\ linkUp
  BY <1>1, <1>3, SrvStaysOver DEF BothLive
<1>7. /\ srv'.sendCredit + DataIn(e) <= srv.sendCredit + AcksIn(t)
      /\ srv'.recvUnacked + AcksIn(e) <= srv.recvUnacked + DataIn(t)
      /\ ~srv'.finished =>
            /\ srv'.sendCredit + DataIn(e) = srv.sendCredit + AcksIn(t)
            /\ srv'.recvUnacked + AcksIn(e) = srv.recvUnacked + DataIn(t)
  BY <1>1 DEF SrvBytes
<1>8. /\ UpSum \in Int /\ UpSum <= Window /\ (BothLive => UpSum = Window)
      /\ DownSum \in Int /\ DownSum <= Window /\ (BothLive => DownSum = Window)
  <2>1. DataIn(toServer) \in Nat /\ AcksIn(toServer) \in Nat
    BY <1>2
  <2>2. UpSum \in Int
    BY <1>2, <1>4, <1>5, <2>1 DEF UpSum
  <2>3. DownSum \in Int
    BY <1>2, <1>5, <2>1 DEF DownSum
  <2> QED
    BY <1>1, <2>2, <2>3 DEF Flow
<1>9. UpSum' <= Window /\ (BothLive' => UpSum' = Window)
  <2>1. UpSum' = srv'.sendCredit + DataIn(toAgent') + Held
                   + AcksIn(toServer')
    BY <1>3, <1>4 DEF UpSum
  <2>2. UpSum' <= UpSum /\ (linkUp /\ ~srv'.finished => UpSum' = UpSum)
    BY <1>2, <1>4, <1>5, <1>7, <2>1 DEF UpSum
  <2>3. UpSum' \in Int
    BY <1>2, <1>4, <1>5, <2>1
  <2> QED
    BY <1>5, <1>6, <1>8, <2>2, <2>3
<1>10. DownSum' <= Window /\ (BothLive' => DownSum' = Window)
  <2>1. DownSum' = py.sendCredit + DataIn(toServer') + srv'.recvUnacked
                     + AcksIn(toAgent')
    BY <1>3 DEF DownSum
  <2>2. DownSum' <= DownSum /\ (linkUp /\ ~srv'.finished => DownSum' = DownSum)
    BY <1>2, <1>4, <1>5, <1>7, <2>1 DEF DownSum
  <2>3. DownSum' \in Int
    BY <1>2, <1>4, <1>5, <2>1
  <2> QED
    BY <1>5, <1>6, <1>8, <2>2, <2>3
<1>11. Flow'
  BY <1>1, <1>3, <1>9, <1>10 DEF Flow, SrvBytes
<1>12. PyWaits' /\ SrvPauses'
  BY <1>1, <1>3 DEF PyWaits, SrvBytes
<1>13. SrvBuffers'
  <2>1. Len(pub'.out) \in Nat
    BY <1>2, SocketTyped DEF Types
  <2>2. srv'.recvUnacked <= WindowAndChunk
    <3>1. py.sendCredit >= -MaxChunk + 1
      BY <1>1, <1>5 DEF PyWaits
    <3>2. DownSum' = py.sendCredit + DataIn(toServer') + srv'.recvUnacked
                     + AcksIn(toAgent')
      BY <1>3 DEF DownSum
    <3>3. AcksIn(toAgent') \in Nat
      BY <1>2
    <3> QED
      BY <1>2, <1>5, <1>10, <3>1, <3>2, <3>3 DEF WindowAndChunk
  <2>3. ~srv'.receivedEof => Len(pub'.out) < srv'.recvUnacked + HighWater
    BY <1>1 DEF SrvBytes
  <2>4. srv'.receivedEof => Len(pub'.out) < WindowAndChunk + HighWater
    BY <1>1 DEF SrvBytes
  <2>5. Len(pub'.out) < WindowAndChunk + HighWater
    BY <1>5, <2>1, <2>2, <2>3, <2>4 DEF WindowAndChunk
  <2> QED
    BY <2>3, <2>5 DEF SrvBuffers, WindowAndChunk
<1> QED
  BY <1>11, <1>12, <1>13

\* A turn of the server's end that obeys the law keeps the invariant.
LEMMA SrvKeeps ==
  ASSUME IInv, NEW e, NEW t, SrvLaw(e, t)
  PROVE  IInv'
<1>1. SrvWire(e, t) /\ SrvWord(e, t)
  BY DEF SrvLaw
<1>2. Types'
  BY <1>1, SrvSeen
<1>3. LifeOfServer' /\ LifeOfPy' /\ Chan' /\ Informed' /\ Eof'
  BY <1>1, SrvKeepsWord
<1>4. Flow' /\ SrvPauses' /\ PyWaits' /\ SrvBuffers'
  BY SrvKeepsBytes
<1> QED
  BY <1>2, <1>3, <1>4 DEF IInv

\* Every step of the server's end and of the visitor obeys the law.

\* The frames of the laws: none, or one.
LEMMA Nothing ==
  ASSUME NEW c \in Seq(WireFrame)
  PROVE  /\ c = c \o <<>> /\ c = <<>> \o c
         /\ c = IF linkUp THEN c \o <<>> ELSE c
  OBVIOUS

\* The first frame of a queue, taken.
LEMMA FirstTaken ==
  ASSUME NEW c \in Seq(WireFrame), c # <<>>
  PROVE  /\ Head(c) \in WireFrame /\ Tail(c) \in Seq(WireFrame)
         /\ c = <<Head(c)>> \o Tail(c)
         /\ <<Head(c)>> \in Seq(WireFrame)
         /\ TypesIn(<<Head(c)>>) = {Head(c).type}
         /\ DataIn(<<Head(c)>>) = DataOf(Head(c))
         /\ AcksIn(<<Head(c)>>) = AckOf(Head(c))
         /\ Head(c).type \in TypesIn(c)
<1>1. Head(c) \in WireFrame /\ Tail(c) \in Seq(WireFrame)
  BY TakenSeen DEF WireFrame
<1>2. c = <<Head(c)>> \o Tail(c)
  BY HeadTailSplit
<1>3. Head(c).type \in TypesIn(c)
  BY TakenSeen DEF WireFrame
<1> DEFINE f == Head(c)
<1>4. f \in WireFrame
  BY <1>1
<1> HIDE DEF f
<1>5. /\ <<f>> \in Seq(WireFrame) /\ TypesIn(<<f>>) = {f.type}
      /\ DataIn(<<f>>) = DataOf(f) /\ AcksIn(<<f>>) = AckOf(f)
  BY <1>4, FewFrames
<1> QED
  BY <1>1, <1>2, <1>3, <1>5 DEF f

\* What the frames carry.
LEMMA FramesTyped ==
  /\ OpenFrame \in WireFrame /\ EofFrame \in WireFrame /\ ResetFrame \in WireFrame
  /\ \A d \in Seq(Bytes) : d # <<>> =>
        /\ DataFrame(d) \in WireFrame
        /\ DataFrame(d).type = "DATA"
        /\ DataOf(DataFrame(d)) = Len(d) /\ AckOf(DataFrame(d)) = 0
  /\ \A n \in Nat \ {0} :
        /\ AckFrame(n) \in WireFrame
        /\ AckFrame(n).type = "ACK"
        /\ DataOf(AckFrame(n)) = 0 /\ AckOf(AckFrame(n)) = n
  /\ OpenFrame.type = "OPEN" /\ EofFrame.type = "EOF" /\ ResetFrame.type = "RESET"
  /\ DataOf(OpenFrame) = 0 /\ AckOf(OpenFrame) = 0
  /\ DataOf(EofFrame) = 0 /\ AckOf(EofFrame) = 0
  /\ DataOf(ResetFrame) = 0 /\ AckOf(ResetFrame) = 0
  BY DEF WireFrame, SomeFrame, OpenFrame, EofFrame, ResetFrame, DataFrame, AckFrame,
         DataOf, AckOf

\* What a turn sends when it sends one frame.
LEMMA OneSent ==
  ASSUME NEW f \in WireFrame, NEW sent, sent = Append(<<>>, f)
  PROVE  /\ sent \in Seq(WireFrame) /\ Orderly(sent)
         /\ TypesIn(sent) = {f.type}
         /\ DataIn(sent) = DataOf(f) /\ AcksIn(sent) = AckOf(f)
<1>1. sent = <<f>>
  OBVIOUS
<1> QED
  BY <1>1, FewFrames

\* The largest chunk exists, and bounds what one STREAM_DATA carries.
LEMMA LargestBounds ==
  /\ Largest \in Nat /\ MaxChunk <= Largest
  /\ \A n \in PrereadSizes : n <= Largest
<1> DEFINE sizes == PrereadSizes \cup {MaxChunk}
           Bound(b) == \A m \in sizes : m <= b
<1>1. sizes \subseteq Nat /\ MaxChunk \in sizes /\ Window \in Nat /\ MaxChunk \in Nat
  BY PyBridgeAssumption, SocketAssumption
<1>2. \A m \in sizes : m <= Window + MaxChunk
  BY PyBridgeAssumption, SocketAssumption
<1>3. \E n \in sizes : \A m \in sizes : m <= n
  <2> DEFINE Tops == {b \in Nat : Bound(b)}
  <2>1. Tops \subseteq Nat /\ Window + MaxChunk \in Tops
    BY <1>1, <1>2
  <2> HIDE DEF Tops
  <2>2. PICK b \in Tops : \A c \in Tops : b <= c
    BY <2>1, LeastNumber
  <2>3. b \in Nat /\ Bound(b)
    BY <2>2 DEF Tops
  <2>4. b \in sizes
    <3>1. SUFFICES ASSUME b \notin sizes PROVE FALSE
      OBVIOUS
    <3>2. \A m \in sizes : m < b /\ m <= b - 1
      BY <1>1, <2>3, <3>1
    <3>3. b - 1 \in Nat
      BY <1>1, <2>3, <3>2
    <3>4. b - 1 \in Tops
      BY <3>2, <3>3 DEF Tops
    <3> QED
      BY <2>2, <2>3, <3>4
  <2> QED
    BY <2>3, <2>4
<1>4. Largest = CHOOSE n \in sizes : \A m \in sizes : m <= n
  BY DEF Largest
<1> HIDE DEF sizes
<1>5. Largest \in sizes /\ \A m \in sizes : m <= Largest
  BY <1>3, <1>4
<1> QED
  BY <1>1, <1>5 DEF sizes

\* What a party says is bytes.
LEMMA SaidTyped ==
  ASSUME NEW n \in 0..(UpBytes + DownBytes)
  PROVE  Said(n) \in Seq(Bytes) /\ Len(Said(n)) = n
<1>1. n \in Nat /\ 1..n \subseteq Bytes
  BY PyBridgeAssumption DEF Bytes
<1> QED
  BY <1>1 DEF Said

\* The server's end unchanged, its socket at most shrunk.
LEMMA SrvIdle ==
  ASSUME IInv, srv' = srv, toAgent' = toAgent, toServer' = toServer,
         UNCHANGED <<pVars, linkUp, serviceSaid>>,
         happened' \in Histories \cup {{}},
         srvCongested' = srvCongested, srvClosed' = srvClosed,
         pub' \in Socket(Bytes), visitorSaid' \in 0..UpBytes,
         pub'.readEnded = pub.readEnded, pub'.flowing => pub.flowing,
         Len(pub'.out) <= Len(pub.out),
         visitorSaid' - Len(pub'.inq) >= visitorSaid - Len(pub.inq)
  PROVE  SrvLaw(<<>>, <<>>)
<1>1. /\ Types /\ LifeOfServer /\ Chan /\ Informed /\ Flow /\ SrvPauses /\ SrvBuffers
  BY DEF IInv
<1>2. /\ <<>> \in Seq(WireFrame) /\ Orderly(<<>>)
      /\ TypesIn(<<>>) = {} /\ DataIn(<<>>) = 0 /\ AcksIn(<<>>) = 0
  BY FewFrames
<1>3. SrvWire(<<>>, <<>>)
  BY <1>1, <1>2, Nothing DEF SrvWire, Types, LifeOfServer
<1>4. SrvWord(<<>>, <<>>)
  BY <1>1, <1>2 DEF SrvWord, LifeOfServer, Informed
<1>5. SrvBytes(<<>>, <<>>)
  <2>1. /\ srv.sendCredit \in Int /\ srv.recvUnacked \in Nat /\ HighWater \in Nat
        /\ Window \in Nat /\ MaxChunk \in Nat /\ WindowAndChunk \in Int
    BY <1>1, RoomTyped DEF Types, SrvType, WindowAndChunk
  <2>2. /\ Len(pub.out) \in Nat /\ Len(pub'.out) \in Nat
        /\ Len(pub.inq) \in Nat /\ Len(pub'.inq) \in Nat
    BY <1>1, SocketTyped DEF Types
  <2>3. visitorSaid \in Nat /\ visitorSaid' \in Nat
    BY <1>1, PyBridgeAssumption DEF Types
  <2>4. srv'.sendCredit + visitorSaid' - Len(pub'.inq) >= Window
    BY <1>1, <2>1, <2>2, <2>3, SMTT(40) DEF Flow
  <2>5. SrvPauses'
    BY <1>1 DEF SrvPauses
  <2>6. /\ ~srv'.receivedEof => Len(pub'.out) < srv'.recvUnacked + HighWater
        /\ srv'.receivedEof => Len(pub'.out) < WindowAndChunk + HighWater
    BY <1>1, <2>1, <2>2, SMTT(40) DEF SrvBuffers, WindowAndChunk
  <2> QED
    BY <1>2, <2>1, <2>4, <2>5, <2>6 DEF SrvBytes
<1> QED
  BY <1>3, <1>4, <1>5 DEF SrvLaw

\* What the visitor and the kernel on its side do.
LEMMA VisitorSteps ==
  ASSUME IInv,
         \/ VisitorSend \/ VisitorEvent
         \/ S!SocketFlush /\ UNCHANGED <<pVars, outsideVars>>
  PROVE  SrvLaw(<<>>, <<>>)
<1>1. /\ pub \in Socket(Bytes) /\ visitorSaid \in 0..UpBytes
      /\ UpBytes \in Nat /\ DownBytes \in Nat
      /\ happened \in Histories \cup {{}}
  BY PyBridgeAssumption DEF IInv, Types
<1>2. Len(pub.inq) \in Nat /\ Len(pub.out) \in Nat /\ pub.inq \in Seq(Bytes)
  BY <1>1, SocketTyped
<1>3. CASE VisitorSend
  <2>1. PICK n \in 1..UpBytes : visitorSaid' = n /\ pub' = [pub EXCEPT !.inq = Said(n)]
    BY <1>3 DEF VisitorSend
  <2>2. /\ Said(n) \in Seq(Bytes)
        /\ Len(Said(n)) = n
    BY <1>1, <2>1, SaidTyped
  <2>3. /\ pub' \in Socket(Bytes)
        /\ pub'.readEnded = pub.readEnded /\ pub'.flowing = pub.flowing
        /\ pub'.out = pub.out /\ Len(pub'.inq) = n
    BY <1>1, <2>1, <2>2 DEF Socket
  <2> QED
    BY <1>1, <1>2, <1>3, <2>1, <2>3, SrvIdle DEF VisitorSend, linkVars, pVars
<1>4. CASE VisitorEvent /\ Happens("visitorFin") /\ pub' = [pub EXCEPT !.fin = TRUE]
  <2>1. /\ pub' \in Socket(Bytes)
        /\ pub'.readEnded = pub.readEnded /\ pub'.flowing = pub.flowing
        /\ pub'.out = pub.out /\ pub'.inq = pub.inq
    BY <1>1, <1>4 DEF Socket
  <2> QED
    BY <1>1, <1>2, <1>4, <2>1, SrvIdle DEF VisitorEvent, Happens, linkVars
<1>5. CASE VisitorEvent /\ Happens("visitorAbort") /\ pub' = Fail(pub)
  <2>2. /\ pub' \in Socket(Bytes) /\ Shrunk(pub', pub)
        /\ pub'.out = <<>>
    BY <1>1, <1>5, SocketDestroyed
  <2>3. Len(pub'.inq) \in Nat
    BY <2>2, SocketTyped
  <2> QED
    BY <1>1, <1>2, <1>5, <2>2, <2>3, SrvIdle
       DEF VisitorEvent, Happens, linkVars, Shrunk
<1>6. CASE S!SocketFlush /\ UNCHANGED <<pVars, outsideVars>>
  <2>1. pub' = FlushByte(pub) /\ pub.out # <<>>
    BY <1>6, SameOperators DEF S!SocketFlush, S!CanFlush
  <2>2. /\ pub' \in Socket(Bytes) /\ Shrunk(pub', pub)
        /\ Len(pub'.out) = Len(pub.out) - 1
    BY <1>1, <2>1, ByteFlushed
  <2>3. Len(pub'.inq) \in Nat
    BY <2>2, SocketTyped
  <2> QED
    BY <1>1, <1>2, <1>6, <2>2, <2>3, SrvIdle
       DEF S!SocketFlush, linkVars, outsideVars, Shrunk
<1> QED
  BY <1>3, <1>4, <1>5, <1>6 DEF VisitorEvent

\* A turn r of the server's end, which took the frames t, is committed.
SrvCommitted(r, t) ==
    /\ r \in SrvTurn
    /\ srv' = r.st /\ pub' = r.sock
    /\ toAgent' = IF linkUp THEN toAgent \o r.sent ELSE toAgent
    /\ t \in Seq(WireFrame) /\ toServer' \in Seq(WireFrame)
    /\ toServer = t \o toServer'
    /\ UNCHANGED <<pVars, linkUp, visitorSaid, serviceSaid>>
    /\ srvCongested' \in BOOLEAN /\ srvClosed' \in BOOLEAN
    /\ srvClosed' => ~linkUp
    /\ happened' \in Histories \cup {{}}

\* A turn of a callback takes no frame.
LEMMA SrvWired ==
  ASSUME IInv, NEW r, NEW t, SrvCommitted(r, t), NEW e, e = r.sent, Orderly(e)
  PROVE  SrvWire(e, t)
<1>1. Types /\ LifeOfServer
  BY DEF IInv
<1>2. r.st \in SrvType /\ r.sock \in Socket(Bytes) /\ r.sent \in Seq(WireFrame)
  BY DEF SrvCommitted, SrvTurn
<1> QED
  BY <1>1, <1>2 DEF SrvWire, SrvCommitted, Types, LifeOfServer, pVars

\* What the invariant says of the server's end, in one place.
SrvFacts ==
    /\ srv \in SrvType /\ pub \in Socket(Bytes)
    /\ srv.opened \in BOOLEAN /\ srv.finished \in BOOLEAN
    /\ srv.sentEof \in BOOLEAN /\ srv.receivedEof \in BOOLEAN
    /\ srv.pausedForCredit \in BOOLEAN
    /\ srv.sendCredit \in Int /\ srv.recvUnacked \in Nat
    /\ Len(pub.inq) \in Nat /\ Len(pub.out) \in Nat
    /\ visitorSaid \in Int
    /\ srv.sendCredit + visitorSaid - Len(pub.inq) >= Window
    /\ srv.pausedForCredit => ~pub.flowing
    /\ srv.sendCredit <= 0 => srv.pausedForCredit
    /\ srv.sendCredit > -MaxChunk
    /\ Len(pub.out) < WindowAndChunk + HighWater
    /\ ~srv.receivedEof => Len(pub.out) < srv.recvUnacked + HighWater
    /\ pub.readEnded => srv.sentEof \/ srv.finished
    /\ MaxChunk \in Nat \ {0} /\ HighWater \in Nat \ {0}
    /\ Window \in Nat \ {0} /\ WindowAndChunk \in Nat
    /\ MaxChunk <= Largest /\ Largest \in Nat

\* What the invariant says of the server's end.
LEMMA SrvKnown ==
  ASSUME IInv
  PROVE  SrvFacts
<1>1. Types /\ Informed /\ Flow /\ SrvPauses /\ SrvBuffers
  BY DEF IInv
<1>2. /\ srv \in SrvType /\ pub \in Socket(Bytes) /\ visitorSaid \in 0..UpBytes
  BY <1>1 DEF Types
<1>3. /\ srv.opened \in BOOLEAN /\ srv.finished \in BOOLEAN
      /\ srv.sentEof \in BOOLEAN /\ srv.receivedEof \in BOOLEAN
      /\ srv.pausedForCredit \in BOOLEAN
      /\ srv.sendCredit \in Int /\ srv.recvUnacked \in Nat
  BY <1>2 DEF SrvType
<1>4. Len(pub.inq) \in Nat /\ Len(pub.out) \in Nat
  BY <1>2, SocketTyped
<1>5. /\ MaxChunk \in Nat \ {0} /\ HighWater \in Nat \ {0} /\ Window \in Nat \ {0}
      /\ WindowAndChunk \in Nat /\ visitorSaid \in Int
      /\ MaxChunk <= Largest /\ Largest \in Nat
  BY <1>2, RoomTyped, PyBridgeAssumption, LargestBounds DEF WindowAndChunk
<1> QED
  BY <1>1, <1>2, <1>3, <1>4, <1>5
     DEF SrvFacts, Informed, Flow, SrvPauses, SrvBuffers, WindowAndChunk

\* The turn of a callback starts from what the end and its socket are.
LEMMA SrvTurnStarts ==
  ASSUME IInv, NEW s \in Socket(Bytes)
  PROVE  /\ S!Turn \in SrvTurn
         /\ S!Turn.st = srv /\ S!Turn.sock = pub /\ S!Turn.sent = <<>>
         /\ [S!Turn EXCEPT !.sock = s] \in SrvTurn
         /\ [S!Turn EXCEPT !.sock = s].st = srv
         /\ [S!Turn EXCEPT !.sock = s].sock = s
         /\ [S!Turn EXCEPT !.sock = s].sent = <<>>
<1>1. srv \in SrvType /\ pub \in Socket(Bytes) /\ <<>> \in Seq(WireFrame)
  BY SrvKnown DEF SrvFacts
<1> QED
  BY <1>1 DEF S!Turn, SrvTurn

\* A callback that takes no frame commits its turn.
LEMMA SrvCallback ==
  ASSUME IInv, NEW r \in SrvTurn, S!Commit(r),
         UNCHANGED <<pVars, linkUp, toServer, srvClosed, visitorSaid, serviceSaid>>,
         srvCongested' \in BOOLEAN,
         happened' \in Histories \cup {{}}
  PROVE  SrvCommitted(r, <<>>)
<1>1. Types /\ LifeOfServer
  BY DEF IInv
<1>2. toAgent' = IF linkUp THEN toAgent \o r.sent ELSE toAgent
  BY <1>1 DEF S!Commit, LifeOfServer
<1>3. /\ <<>> \in Seq(WireFrame) /\ toServer \in Seq(WireFrame)
      /\ toServer = <<>> \o toServer
  BY <1>1, Nothing DEF Types
<1> QED
  BY <1>1, <1>2, <1>3 DEF S!Commit, SrvCommitted, LifeOfServer, Types

\* 'data' at the server obeys the law.
LEMMA SocketDataLaw ==
  ASSUME IInv, S!SocketData, UNCHANGED <<pVars, outsideVars>>
  PROVE  \E e, t : SrvLaw(e, t)
<1>0. SrvFacts
  BY SrvKnown
<1>1. PICK k \in 1..MaxChunk :
        /\ S!CanEmitData(pub, k)
        /\ S!Commit(S!OnSocketData([S!Turn EXCEPT !.sock = S!TakeData(@, k)],
                                   SubSeq(pub.inq, 1, k)))
  BY DEF S!SocketData
<1>2. /\ pub.flowing /\ k <= Len(pub.inq) /\ srv.opened
      /\ UNCHANGED <<pVars, linkUp, toServer, srvClosed, visitorSaid, serviceSaid,
                     srvCongested, happened>>
  BY <1>1 DEF S!SocketData, S!CanEmitData, outsideVars
<1>3. srv.sendCredit > 0 /\ ~srv.pausedForCredit /\ k \in Nat /\ k > 0 /\ k <= MaxChunk
  BY <1>2, <1>0 DEF SrvFacts
<1> DEFINE s == TakeData(pub, k)
           d == SubSeq(pub.inq, 1, k)
           h == [S!Turn EXCEPT !.sock = s]
           r == S!OnSocketData(h, d)
<1>4. /\ s \in Socket(Bytes) /\ s.readEnded = pub.readEnded /\ s.flowing = pub.flowing
      /\ s.out = pub.out /\ Len(s.inq) = Len(pub.inq) - k
      /\ d \in Seq(Bytes) /\ Len(d) = k /\ d # <<>>
  <2>1. /\ s \in Socket(Bytes) /\ s.readEnded = pub.readEnded
        /\ s.flowing = pub.flowing
        /\ s.out = pub.out /\ Len(s.inq) = Len(pub.inq) - k
        /\ d \in Seq(Bytes) /\ Len(d) = k
    BY <1>2, <1>3, <1>0, DataTaken, ZenonT(60) DEF SrvFacts
  <2> QED
    BY <1>3, <2>1
<1>5. S!Commit(r)
  <2>1. S!Turn.sock = pub
    BY DEF S!Turn
  <2>2. [S!Turn EXCEPT !.sock = S!TakeData(@, k)] = h
    BY <2>1, SameOperators
  <2> QED
    BY <1>1, <2>2
<1> HIDE DEF s, d
<1>6. h \in SrvTurn /\ h.st = srv /\ h.sock = s /\ h.sent = <<>>
  BY <1>4, SrvTurnStarts, SMTT(40)
<1> HIDE DEF h
<1>7. /\ srv.finished \/ srv.sentEof => r = h
      /\ ~(srv.finished \/ srv.sentEof) =>
            /\ r \in SrvTurn
            /\ r.sent = Append(<<>>, DataFrame(d))
            /\ \/ /\ srv.sendCredit - k > 0 \/ srv.pausedForCredit
                  /\ r.st = [srv EXCEPT !.sendCredit = srv.sendCredit - k]
                  /\ r.sock = s
               \/ /\ srv.sendCredit - k <= 0
                  /\ r.st = [srv EXCEPT !.sendCredit = srv.sendCredit - k,
                                        !.pausedForCredit = TRUE]
                  /\ r.sock = Pause(s)
  BY <1>4, <1>6, SrvSocketData, ZenonT(60)
<1> DEFINE e == r.sent
<1> HIDE DEF r
<1>8. r \in SrvTurn
  BY <1>6, <1>7
<1>9. SrvCommitted(r, <<>>)
  BY <1>2, <1>5, <1>8, SrvCallback, <1>0 DEF IInv, Types, SrvFacts
<1>10. CASE srv.finished \/ srv.sentEof
  <2>1. e = <<>> /\ srv' = srv /\ pub' = s
    BY <1>6, <1>7, <1>9, <1>10 DEF SrvCommitted
  <2> HIDE DEF e
  <2>2. SrvWire(e, <<>>)
    BY <1>9, <2>1, SrvWired, FewFrames DEF SrvCommitted, e
  <2>3. SrvWord(e, <<>>)
    BY <1>2, <1>4, <2>1, <1>0, FewFrames DEF SrvWord, SrvFacts
  <2>4. SrvBytes(e, <<>>)
    <3>1. DataIn(e) = 0 /\ AcksIn(e) = 0 /\ DataIn(<<>>) = 0 /\ AcksIn(<<>>) = 0
      BY <2>1, EmptySeen
    <3>2. SrvPauses'
      BY <1>4, <2>1, <1>0 DEF SrvPauses, SrvFacts
    <3>3. srv'.sendCredit + visitorSaid' - Len(pub'.inq) >= Window
      BY <1>2, <1>3, <1>4, <2>1, <1>0, SMTT(40) DEF SrvFacts
    <3> QED
      BY <1>4, <2>1, <3>1, <3>2, <3>3, <1>0, SMTT(40) DEF SrvBytes, SrvFacts
  <2> QED
    BY <2>2, <2>3, <2>4 DEF SrvLaw
<1>11. CASE ~(srv.finished \/ srv.sentEof)
  <2>1. /\ e \in Seq(WireFrame) /\ Orderly(e)
        /\ TypesIn(e) = {"DATA"} /\ DataIn(e) = k /\ AcksIn(e) = 0
    <3> DEFINE f == DataFrame(d)
    <3>1. /\ f \in WireFrame /\ f.type = "DATA" /\ DataOf(f) = k /\ AckOf(f) = 0
      BY <1>4, FramesTyped
    <3>2. e = Append(<<>>, f)
      BY <1>7, <1>11
    <3> HIDE DEF e, f
    <3> QED
      BY <3>1, <3>2, OneSent
  <2>2. /\ srv'.opened = srv.opened /\ srv'.finished = srv.finished
        /\ srv'.sentEof = srv.sentEof /\ srv'.receivedEof = srv.receivedEof
        /\ srv'.recvUnacked = srv.recvUnacked
        /\ srv'.sendCredit = srv.sendCredit - k
    BY <1>7, <1>9, <1>11, <1>0 DEF SrvCommitted, SrvType, SrvFacts
  <2>3. /\ pub'.readEnded = pub.readEnded
        /\ Len(pub'.inq) = Len(pub.inq) - k
        /\ pub'.out = pub.out
    BY <1>4, <1>7, <1>9, <1>11, PauseResume DEF SrvCommitted, Shrunk
  <2>4. SrvPauses'
    <3>1. \/ srv.sendCredit - k > 0 /\ srv'.pausedForCredit = srv.pausedForCredit
          \/ srv'.pausedForCredit /\ ~pub'.flowing
      BY <1>3, <1>4, <1>7, <1>9, <1>11, <1>0, PauseResume, ZenonT(60) DEF SrvCommitted, SrvType, SrvFacts
    <3> QED
      BY <1>3, <2>2, <3>1, <1>0, SMTT(40) DEF SrvPauses, SrvFacts
  <2> HIDE DEF e
  <2>5. SrvWire(e, <<>>)
    BY <1>9, <2>1, SrvWired DEF e
  <2>6. SrvWord(e, <<>>)
    BY <1>2, <1>11, <2>1, <2>2, <2>3, <1>0, FewFrames DEF SrvWord, SrvFacts
  <2>7. SrvBytes(e, <<>>)
    <3>1. DataIn(<<>>) = 0 /\ AcksIn(<<>>) = 0
      BY EmptySeen
    <3>2. srv'.sendCredit + visitorSaid' - Len(pub'.inq) >= Window
      BY <1>2, <1>3, <2>2, <2>3, <1>0, SMTT(40) DEF SrvFacts
    <3> QED
      BY <1>3, <2>1, <2>2, <2>3, <2>4, <3>1, <3>2, <1>0, SMTT(40) DEF SrvBytes, SrvFacts
  <2> QED
    BY <2>5, <2>6, <2>7 DEF SrvLaw
<1> QED
  BY <1>10, <1>11

\* A turn with its socket replaced.
LEMMA SrvSock ==
  ASSUME NEW h \in SrvTurn, NEW s \in Socket(Bytes)
  PROVE  /\ [h EXCEPT !.sock = s] \in SrvTurn
         /\ [h EXCEPT !.sock = s].st = h.st
         /\ [h EXCEPT !.sock = s].sock = s
         /\ [h EXCEPT !.sock = s].sent = h.sent
  BY DEF SrvTurn

\* 'end' at the server obeys the law.
LEMMA SocketEndLaw ==
  ASSUME IInv, S!SocketEnd, UNCHANGED <<pVars, outsideVars>>
  PROVE  \E e, t : SrvLaw(e, t)
<1>0. SrvFacts
  BY SrvKnown
<1>1. /\ srv.opened
      /\ S!Commit([S!OnSocketEnd(S!Turn) EXCEPT !.sock = S!EmitEnd(@)])
      /\ UNCHANGED <<pVars, linkUp, toServer, srvClosed, visitorSaid, serviceSaid,
                     srvCongested, happened>>
  BY DEF S!SocketEnd, outsideVars
<1> DEFINE h == S!Turn
           q == S!OnSocketEnd(h)
           s == EmitEnd(q.sock)
           r == [q EXCEPT !.sock = s]
           e == r.sent
<1>2. h \in SrvTurn /\ h.st = srv /\ h.sock = pub /\ h.sent = <<>>
  BY <1>0, SrvTurnStarts DEF SrvFacts
<1>3. S!Commit(r)
  <2>1. [S!OnSocketEnd(S!Turn) EXCEPT !.sock = S!EmitEnd(@)] = r
    BY SameOperators
  <2> QED
    BY <1>1, <2>1
<1> HIDE DEF h
<1>4. /\ srv.finished \/ srv.sentEof => q = h
      /\ ~(srv.finished \/ srv.sentEof) =>
            /\ q \in SrvTurn
            /\ \/ /\ srv.receivedEof
                  /\ q.st = [srv EXCEPT !.sentEof = TRUE, !.finished = TRUE]
               \/ /\ ~srv.receivedEof
                  /\ q.st = [srv EXCEPT !.sentEof = TRUE]
            /\ q.sock = pub
            /\ q.sent = Append(<<>>, EofFrame)
  BY <1>2, SrvSocketEnd, ZenonT(60)
<1> HIDE DEF q
<1>5. q \in SrvTurn /\ q.sock = pub
  BY <1>2, <1>4
<1>6. /\ s \in Socket(Bytes) /\ s.inq = pub.inq /\ s.out = pub.out
      /\ s.flowing = pub.flowing
  BY <1>0, <1>5, SocketEvents DEF SrvFacts
<1> HIDE DEF s
<1>7. r \in SrvTurn /\ r.st = q.st /\ r.sock = s /\ r.sent = q.sent
  BY <1>5, <1>6, SrvSock
<1> HIDE DEF r
<1>8. SrvCommitted(r, <<>>)
  BY <1>1, <1>3, <1>7, SrvCallback DEF IInv, Types
<1>9. srv' = q.st /\ pub' = s
  BY <1>7, <1>8 DEF SrvCommitted
<1>10. /\ srv'.opened = srv.opened
       /\ srv'.sentEof \/ srv'.finished
       /\ srv.sentEof => srv'.sentEof
       /\ srv.finished => srv'.finished
       /\ srv'.finished => srv.finished \/ srv'.sentEof
       /\ srv'.receivedEof = srv.receivedEof
       /\ srv'.recvUnacked = srv.recvUnacked /\ srv'.sendCredit = srv.sendCredit
       /\ srv'.pausedForCredit = srv.pausedForCredit
  <2>1. CASE srv.finished \/ srv.sentEof
    BY <1>0, <1>2, <1>4, <1>9, <2>1 DEF SrvFacts
  <2>2. CASE ~(srv.finished \/ srv.sentEof)
    BY <1>0, <1>4, <1>9, <2>2 DEF SrvFacts, SrvType
  <2> QED
    BY <2>1, <2>2
<1>11. /\ e \in Seq(WireFrame) /\ Orderly(e) /\ DataIn(e) = 0 /\ AcksIn(e) = 0
       /\ \/ TypesIn(e) = {} /\ srv'.sentEof = srv.sentEof
          \/ TypesIn(e) = {"EOF"} /\ srv'.sentEof /\ ~srv.finished
  <2>1. CASE srv.finished \/ srv.sentEof
    BY <1>2, <1>4, <1>7, <1>9, <2>1, FewFrames
  <2>2. CASE ~(srv.finished \/ srv.sentEof)
    <3>1. e = Append(<<>>, EofFrame)
      BY <1>4, <1>7, <2>2
    <3> HIDE DEF e
    <3>2. /\ e \in Seq(WireFrame) /\ Orderly(e) /\ DataIn(e) = 0 /\ AcksIn(e) = 0
          /\ TypesIn(e) = {"EOF"}
      BY <3>1, FramesTyped, OneSent
    <3>3. srv'.sentEof
      BY <1>0, <1>4, <1>9, <2>2 DEF SrvFacts, SrvType
    <3> QED
      BY <2>2, <3>2, <3>3
  <2> QED
    BY <2>1, <2>2
<1>12. TypesIn(<<>>) = {} /\ DataIn(<<>>) = 0 /\ AcksIn(<<>>) = 0
  BY EmptySeen
<1>13. SrvWire(e, <<>>)
  BY <1>8, <1>11, SrvWired
<1> HIDE DEF e
<1>14. SrvWord(e, <<>>)
  BY <1>0, <1>1, <1>10, <1>11, <1>12 DEF SrvWord, SrvFacts
<1>15. SrvBytes(e, <<>>)
  <2>1. SrvPauses'
    BY <1>0, <1>6, <1>9, <1>10 DEF SrvPauses, SrvFacts
  <2>2. srv'.sendCredit + visitorSaid' - Len(pub'.inq) >= Window
    BY <1>0, <1>1, <1>6, <1>9, <1>10 DEF SrvFacts
  <2> QED
    BY <1>0, <1>6, <1>9, <1>10, <1>11, <1>12, <2>1, <2>2, SMTT(40) DEF SrvBytes, SrvFacts
<1> QED
  BY <1>13, <1>14, <1>15 DEF SrvLaw

\* 'drain' at the server obeys the law.
LEMMA SocketDrainLaw ==
  ASSUME IInv, S!SocketDrain, UNCHANGED <<pVars, outsideVars>>
  PROVE  \E e, t : SrvLaw(e, t)
<1>0. SrvFacts
  BY SrvKnown
<1> DEFINE s == Drained(pub)
           h == [S!Turn EXCEPT !.sock = s]
           r == S!FlushAck(h)
           e == r.sent
<1>1. /\ srv.opened /\ pub.out = <<>>
      /\ UNCHANGED <<pVars, linkUp, toServer, srvClosed, visitorSaid, serviceSaid,
                     srvCongested, happened>>
  BY DEF S!SocketDrain, S!DrainDue, outsideVars
<1>2. S!Commit(r)
  <2>1. S!Turn.sock = pub
    BY DEF S!Turn
  <2>2. [S!Turn EXCEPT !.sock = S!Drained(@)] = h
    BY <2>1, SameOperators
  <2> QED
    BY <2>2 DEF S!SocketDrain
<1>3. /\ s \in Socket(Bytes) /\ s.out = <<>> /\ s.readEnded = pub.readEnded
      /\ Len(s.inq) <= Len(pub.inq) /\ Len(s.inq) \in Nat
      /\ s.flowing => pub.flowing
  BY <1>0, <1>1, SocketEvents, SocketTyped DEF SrvFacts, Shrunk
<1> HIDE DEF s
<1>4. h \in SrvTurn /\ h.st = srv /\ h.sock = s /\ h.sent = <<>>
  BY <1>3, SrvTurnStarts
<1> HIDE DEF h
<1>5. /\ srv.recvUnacked = 0 \/ srv.finished => r = h
      /\ ~(srv.recvUnacked = 0 \/ srv.finished) =>
            /\ r \in SrvTurn
            /\ r.st = [srv EXCEPT !.recvUnacked = 0]
            /\ r.sock = s
            /\ r.sent = Append(<<>>, AckFrame(srv.recvUnacked))
  BY <1>4, SrvFlushAck
<1> HIDE DEF r
<1>6. r \in SrvTurn /\ r.sock = s
  BY <1>4, <1>5
<1>7. SrvCommitted(r, <<>>)
  BY <1>1, <1>2, <1>6, SrvCallback DEF IInv, Types
<1>8. srv' = r.st /\ pub' = s
  BY <1>6, <1>7 DEF SrvCommitted
<1>9. /\ srv'.opened = srv.opened /\ srv'.finished = srv.finished
      /\ srv'.sentEof = srv.sentEof /\ srv'.receivedEof = srv.receivedEof
      /\ srv'.sendCredit = srv.sendCredit
      /\ srv'.pausedForCredit = srv.pausedForCredit
      /\ srv'.recvUnacked \in Nat
  <2>1. CASE srv.recvUnacked = 0 \/ srv.finished
    BY <1>0, <1>4, <1>5, <1>8, <2>1 DEF SrvFacts
  <2>2. CASE ~(srv.recvUnacked = 0 \/ srv.finished)
    BY <1>0, <1>5, <1>8, <2>2, SMTT(40) DEF SrvFacts, SrvType
  <2> QED
    BY <2>1, <2>2
<1>10. /\ e \in Seq(WireFrame) /\ Orderly(e) /\ DataIn(e) = 0
       /\ AcksIn(e) \in Nat /\ srv'.recvUnacked + AcksIn(e) = srv.recvUnacked
       /\ TypesIn(e) = {} \/ (TypesIn(e) = {"ACK"} /\ ~srv.finished)
  <2>1. CASE srv.recvUnacked = 0 \/ srv.finished
    <3>1. e = <<>> /\ srv' = srv
      BY <1>4, <1>5, <1>8, <2>1
    <3> HIDE DEF e
    <3>2. e \in Seq(WireFrame) /\ Orderly(e) /\ TypesIn(e) = {}
          /\ DataIn(e) = 0 /\ AcksIn(e) = 0
      BY <3>1, FewFrames
    <3> QED
      BY <1>0, <3>1, <3>2 DEF SrvFacts
  <2>2. CASE ~(srv.recvUnacked = 0 \/ srv.finished)
    <3> DEFINE f == AckFrame(srv.recvUnacked)
    <3>1. e = Append(<<>>, f)
      BY <1>5, <2>2
    <3>2. /\ f \in WireFrame /\ f.type = "ACK" /\ DataOf(f) = 0
          /\ AckOf(f) = srv.recvUnacked
      BY <1>0, <2>2, FramesTyped DEF SrvFacts
    <3> HIDE DEF e, f
    <3>3. /\ e \in Seq(WireFrame) /\ Orderly(e) /\ DataIn(e) = 0
          /\ AcksIn(e) = srv.recvUnacked /\ TypesIn(e) = {"ACK"}
      BY <3>1, <3>2, OneSent
    <3>4. srv'.recvUnacked = 0
      BY <1>0, <1>5, <1>8, <2>2 DEF SrvFacts, SrvType
    <3> QED
      BY <1>0, <2>2, <3>3, <3>4 DEF SrvFacts
  <2> QED
    BY <2>1, <2>2
<1>11. TypesIn(<<>>) = {} /\ DataIn(<<>>) = 0 /\ AcksIn(<<>>) = 0
  BY EmptySeen
<1>12. SrvWire(e, <<>>)
  BY <1>7, <1>10, SrvWired
<1> HIDE DEF e
<1>13. SrvWord(e, <<>>)
  BY <1>0, <1>1, <1>3, <1>8, <1>9, <1>10, <1>11 DEF SrvWord, SrvFacts
<1>14. SrvBytes(e, <<>>)
  <2>1. SrvPauses'
    BY <1>0, <1>3, <1>8, <1>9 DEF SrvPauses, SrvFacts
  <2>2. srv'.sendCredit + visitorSaid' - Len(pub'.inq) >= Window
    BY <1>0, <1>1, <1>3, <1>8, <1>9, SMTT(40) DEF SrvFacts
  <2>3. Len(pub'.out) = 0
    BY <1>3, <1>8
  <2>4. /\ HighWater \in Nat \ {0} /\ WindowAndChunk \in Nat
        /\ srv.sendCredit \in Int /\ srv.recvUnacked \in Nat
        /\ srv'.sendCredit = srv.sendCredit /\ srv'.recvUnacked \in Nat
    BY <1>0, <1>9 DEF SrvFacts
  <2>5. /\ srv'.sendCredit + DataIn(e) = srv.sendCredit + AcksIn(<<>>)
        /\ srv'.recvUnacked + AcksIn(e) = srv.recvUnacked + DataIn(<<>>)
        /\ ~(DataIn(e) > 0)
    BY ONLY <1>10, <1>11, <2>4
  <2>6. /\ srv'.sendCredit + DataIn(e) <= srv.sendCredit + AcksIn(<<>>)
        /\ srv'.recvUnacked + AcksIn(e) <= srv.recvUnacked + DataIn(<<>>)
    BY ONLY <1>10, <1>11, <2>4
  <2>7. /\ Len(pub'.out) < srv'.recvUnacked + HighWater
        /\ Len(pub'.out) < WindowAndChunk + HighWater
    BY ONLY <2>3, <2>4
  <2> QED
    BY ONLY <2>1, <2>2, <2>5, <2>6, <2>7 DEF SrvBytes
<1> QED
  BY <1>12, <1>13, <1>14 DEF SrvLaw

\* A turn that moves no bytes: it may end the stream, and may pause or resume
\* its socket.
SrvQuiet(r) ==
    /\ r \in SrvTurn
    /\ r.sock.readEnded = pub.readEnded
    /\ Len(r.sock.inq) <= Len(pub.inq)
    /\ r.sock.out = <<>> \/ r.sock.out = pub.out
    /\ r.st.opened = srv.opened
    /\ srv.finished => r.st.finished
    /\ r.st.sentEof = srv.sentEof /\ r.st.receivedEof = srv.receivedEof
    /\ r.st.sendCredit = srv.sendCredit /\ r.st.recvUnacked = srv.recvUnacked
    /\ \/ /\ r.st.pausedForCredit = srv.pausedForCredit
          /\ r.sock.flowing => pub.flowing
       \/ ~r.st.pausedForCredit /\ srv.sendCredit > 0

\* A turn that moves no byte and takes nothing but a reset obeys the law.
LEMMA SrvQuietLaw ==
  ASSUME IInv, NEW r, NEW t, SrvCommitted(r, t), SrvQuiet(r),
         srv.opened \/ (r.st = srv /\ r.sent = <<>>),
         NEW e, e = r.sent, Orderly(e), TypesIn(e) \subseteq {"RESET"},
         DataIn(e) = 0, AcksIn(e) = 0,
         TypesIn(e) # {} => r.st.finished,
         TypesIn(t) \subseteq {"RESET"} \/ srv.finished,
         "RESET" \in TypesIn(t) => r.st.finished,
         r.st.finished => \/ srv.finished \/ srv.sentEof \/ ~linkUp
                          \/ "RESET" \in TypesIn(e) \/ "RESET" \in TypesIn(t)
  PROVE  SrvLaw(e, t)
<1>0. SrvFacts
  BY SrvKnown
<1>1. /\ srv' = r.st /\ pub' = r.sock /\ visitorSaid' = visitorSaid
      /\ r.sock \in Socket(Bytes) /\ t \in Seq(WireFrame)
  BY DEF SrvCommitted, SrvTurn
<1>2. /\ srv'.opened = srv.opened
      /\ srv.finished => srv'.finished
      /\ srv'.sentEof = srv.sentEof /\ srv'.receivedEof = srv.receivedEof
      /\ srv'.sendCredit = srv.sendCredit
      /\ srv'.recvUnacked = srv.recvUnacked
      /\ \/ /\ srv'.pausedForCredit = srv.pausedForCredit
            /\ pub'.flowing => pub.flowing
         \/ ~srv'.pausedForCredit /\ srv.sendCredit > 0
  BY <1>1 DEF SrvQuiet
<1>3. /\ Len(pub'.inq) <= Len(pub.inq) /\ Len(pub'.inq) \in Nat
      /\ pub'.readEnded = pub.readEnded
      /\ Len(pub'.out) <= Len(pub.out) /\ Len(pub'.out) \in Nat
  BY <1>0, <1>1, SocketTyped DEF SrvQuiet, SrvFacts
<1>4. DataIn(t) \in Nat /\ AcksIn(t) \in Nat /\ visitorSaid' = visitorSaid
  BY <1>1, CountsBounded DEF WireFrame
<1>5. ~srv'.finished => DataIn(t) = 0 /\ AcksIn(t) = 0
  <2>1. SUFFICES ASSUME ~srv'.finished PROVE DataIn(t) = 0 /\ AcksIn(t) = 0
    OBVIOUS
  <2>2. TypesIn(t) = {}
    BY <1>1, <1>2, <2>1
  <2>3. t = <<>>
    BY <1>1, <2>2, NoFrames
  <2> QED
    BY <2>3, EmptySeen
<1>6. SrvWire(e, t)
  BY SrvWired
<1>7. SrvWord(e, t)
  <2>1. ~srv'.opened => srv' = S!NoStream /\ e = <<>>
    BY <1>1, <1>2 DEF IInv, LifeOfServer
  <2>2. "OPEN" \notin TypesIn(e) /\ "EOF" \notin TypesIn(e) /\ "DATA" \notin TypesIn(e)
    OBVIOUS
  <2> QED
    BY <1>0, <1>1, <1>2, <1>3, <2>1, <2>2 DEF SrvWord, SrvFacts
<1>8. SrvBytes(e, t)
  <2>1. SrvPauses'
    BY <1>0, <1>2, <1>3 DEF SrvPauses, SrvFacts
  <2>2. srv'.sendCredit + visitorSaid' - Len(pub'.inq) >= Window
    BY <1>0, <1>2, <1>3, <1>4, SMTT(40) DEF SrvFacts
  <2>3. /\ ~srv'.receivedEof => Len(pub'.out) < srv'.recvUnacked + HighWater
        /\ srv'.receivedEof => Len(pub'.out) < WindowAndChunk + HighWater
    <3> DEFINE bound == WindowAndChunk + HighWater
               limit == srv.recvUnacked + HighWater
               m == Len(pub.out)
               n == Len(pub'.out)
    <3>1. /\ bound \in Int /\ limit \in Int /\ m \in Int /\ n \in Int
          /\ n <= m /\ m < bound /\ (~srv.receivedEof => m < limit)
      BY <1>0, <1>3 DEF SrvFacts
    <3> HIDE DEF bound, limit, m, n
    <3>2. n < bound /\ (~srv.receivedEof => n < limit)
      BY ONLY <3>1
    <3> QED
      BY <1>2, <3>2 DEF bound, limit, n
  <2>4. /\ srv'.sendCredit + DataIn(e) <= srv.sendCredit + AcksIn(t)
        /\ srv'.recvUnacked + AcksIn(e) <= srv.recvUnacked + DataIn(t)
        /\ ~srv'.finished =>
              /\ srv'.sendCredit + DataIn(e) = srv.sendCredit + AcksIn(t)
              /\ srv'.recvUnacked + AcksIn(e) = srv.recvUnacked + DataIn(t)
    BY <1>0, <1>2, <1>4, <1>5 DEF SrvFacts
  <2> QED
    BY <2>1, <2>2, <2>3, <2>4 DEF SrvBytes
<1> QED
  BY <1>6, <1>7, <1>8 DEF SrvLaw

\* 'error' at the server obeys the law.
LEMMA SocketErrorLaw ==
  ASSUME IInv, S!SocketError, UNCHANGED <<pVars, outsideVars>>
  PROVE  \E e, t : SrvLaw(e, t)
<1>0. SrvFacts
  BY SrvKnown
<1> DEFINE s == [pub EXCEPT !.error = FALSE]
           h == [S!Turn EXCEPT !.sock = s]
           r == S!Destroy(h, "socket_error")
           e == r.sent
<1>1. /\ srv.opened
      /\ UNCHANGED <<pVars, linkUp, toServer, srvClosed, visitorSaid, serviceSaid,
                     srvCongested, happened>>
  BY DEF S!SocketError, outsideVars
<1>2. S!Commit(r)
  <2>1. [S!Turn EXCEPT !.sock.error = FALSE] = h
    BY DEF S!Turn
  <2> QED
    BY <2>1 DEF S!SocketError
<1>3. s \in Socket(Bytes) /\ Shrunk(s, pub) /\ s.out = pub.out
  BY <1>0, SocketEvents DEF SrvFacts
<1> HIDE DEF s
<1>4. h \in SrvTurn /\ h.st = srv /\ h.sock = s /\ h.sent = <<>>
  BY <1>3, SrvTurnStarts
<1> HIDE DEF h
<1>5. /\ srv.finished => r = h
      /\ ~srv.finished =>
            /\ r \in SrvTurn
            /\ r.st = [srv EXCEPT !.finished = TRUE]
            /\ r.sock = DestroySocket(s)
            /\ r.sent = Append(<<>>, ResetFrame)
  <2> DEFINE why == "socket_error"
  <2>1. why # "peer_reset"
    OBVIOUS
  <2> HIDE DEF why
  <2>2. SUFFICES LET q == S!Destroy(h, why)
                 IN  /\ srv.finished => q = h
                     /\ ~srv.finished =>
                           /\ q \in SrvTurn
                           /\ q.st = [srv EXCEPT !.finished = TRUE]
                           /\ q.sock = DestroySocket(s)
                           /\ q.sent = Append(<<>>, ResetFrame)
    BY DEF why
  <2> QED
    BY <1>4, <2>1, SrvDestroy
<1>6. Shrunk(DestroySocket(s), pub) /\ DestroySocket(s).out = <<>>
  <2>1. /\ DestroySocket(s) \in Socket(Bytes) /\ Shrunk(DestroySocket(s), s)
        /\ DestroySocket(s).out = <<>>
    BY <1>3, SocketDestroyed
  <2>2. Len(DestroySocket(s).inq) \in Nat /\ Len(s.inq) \in Nat /\ Len(pub.inq) \in Nat
    BY <1>0, <1>3, <2>1, SocketTyped DEF SrvFacts
  <2> QED
    BY <1>3, <2>1, <2>2 DEF Shrunk
<1> HIDE DEF r
<1>7. SrvQuiet(r)
  BY <1>0, <1>3, <1>4, <1>5, <1>6, ZenonT(60) DEF SrvQuiet, Shrunk, SrvFacts, SrvType
<1>8. SrvCommitted(r, <<>>)
  BY <1>1, <1>2, <1>7, SrvCallback DEF IInv, Types, SrvQuiet
<1>9. /\ e \in Seq(WireFrame) /\ Orderly(e) /\ DataIn(e) = 0 /\ AcksIn(e) = 0
      /\ \/ TypesIn(e) = {} /\ srv.finished /\ r.st.finished
         \/ TypesIn(e) = {"RESET"} /\ r.st.finished
  <2>1. CASE srv.finished
    BY <1>4, <1>5, <2>1, FewFrames
  <2>2. CASE ~srv.finished
    <3>1. e = Append(<<>>, ResetFrame) /\ r.st.finished
      BY <1>0, <1>5, <2>2 DEF SrvFacts, SrvType
    <3> HIDE DEF e
    <3> QED
      BY <3>1, FramesTyped, OneSent
  <2> QED
    BY <2>1, <2>2
<1>10. TypesIn(<<>>) = {}
  BY EmptySeen
<1> HIDE DEF e
<1>11. SrvLaw(e, <<>>)
  BY <1>1, <1>7, <1>8, <1>9, <1>10, SrvQuietLaw DEF e
<1> QED
  BY <1>11

\* 'close' at the server obeys the law.
LEMMA SocketCloseLaw ==
  ASSUME IInv, S!SocketClose, UNCHANGED <<pVars, outsideVars>>
  PROVE  \E e, t : SrvLaw(e, t)
<1>0. SrvFacts
  BY SrvKnown
<1> DEFINE h == S!Turn
           q == S!Finish(h)
           s == DestroySocket(q.sock)
           r == [q EXCEPT !.sock = s]
           e == r.sent
<1>1. /\ srv.opened /\ pub.readEnded
      /\ UNCHANGED <<pVars, linkUp, toServer, srvClosed, visitorSaid, serviceSaid,
                     srvCongested, happened>>
  BY DEF S!SocketClose, S!CanEmitClose, outsideVars
<1>2. S!Commit(r)
  <2>1. [S!Finish(S!Turn) EXCEPT !.sock = S!DestroySocket(@)] = r
    BY SameOperators
  <2> QED
    BY <2>1 DEF S!SocketClose
<1>3. h \in SrvTurn /\ h.st = srv /\ h.sock = pub /\ h.sent = <<>>
  BY <1>0, SrvTurnStarts DEF SrvFacts
<1> HIDE DEF h
<1>4. q \in SrvTurn /\ q.st = [srv EXCEPT !.finished = TRUE] /\ q.sock = pub
      /\ q.sent = <<>>
  BY <1>3, SrvFinish
<1> HIDE DEF q
<1>5. s \in Socket(Bytes) /\ Shrunk(s, pub) /\ s.out = <<>>
  BY <1>0, <1>4, SocketDestroyed DEF SrvFacts
<1> HIDE DEF s
<1>6. r \in SrvTurn /\ r.st = q.st /\ r.sock = s /\ r.sent = <<>>
  BY <1>4, <1>5, SrvSock
<1> HIDE DEF r
<1>7. SrvQuiet(r)
  BY <1>0, <1>4, <1>5, <1>6 DEF SrvQuiet, Shrunk, SrvFacts, SrvType
<1>8. SrvCommitted(r, <<>>)
  BY <1>1, <1>2, <1>7, SrvCallback DEF IInv, Types, SrvQuiet
<1>9. /\ e = <<>> /\ Orderly(e) /\ DataIn(e) = 0 /\ AcksIn(e) = 0 /\ TypesIn(e) = {}
  BY <1>6, FewFrames
<1>10. srv.finished \/ srv.sentEof
  BY <1>0, <1>1 DEF SrvFacts
<1>11. TypesIn(<<>>) = {}
  BY EmptySeen
<1> HIDE DEF e
<1>12. SrvLaw(e, <<>>)
  BY <1>1, <1>7, <1>8, <1>9, <1>10, <1>11, SrvQuietLaw DEF e
<1> QED
  BY <1>12

\* What setGlobalPause does to the server's end moves no bytes.
LEMMA SrvRepausedQuiet ==
  ASSUME IInv, NEW r, SrvRepaused(r, S!Turn)
  PROVE  SrvQuiet(r) /\ r.sent = <<>> /\ r.st.finished = srv.finished
<1>0. SrvFacts
  BY SrvKnown
<1>1. /\ S!Turn.st = srv /\ S!Turn.sock = pub /\ S!Turn.sent = <<>>
  BY <1>0, SrvTurnStarts DEF SrvFacts
<1>2. /\ Pause(pub).out = pub.out /\ Pause(pub).inq = pub.inq
      /\ Pause(pub).readEnded = pub.readEnded /\ ~Pause(pub).flowing
      /\ Resume(pub).out = pub.out /\ Resume(pub).inq = pub.inq
      /\ Resume(pub).readEnded = pub.readEnded
  BY <1>0, PauseResume DEF SrvFacts, Shrunk
<1>3. r \in SrvTurn /\ r.sent = <<>>
  BY <1>1 DEF SrvRepaused
<1>4. CASE r.st = srv /\ r.sock = pub
  BY <1>0, <1>3, <1>4 DEF SrvQuiet, SrvFacts
<1>5. CASE /\ \/ r.st = [srv EXCEPT !.pausedGlobally = TRUE]
              \/ r.st = [srv EXCEPT !.pausedGlobally = FALSE]
           /\ r.sock = pub \/ r.sock = Pause(pub)
  <2>1. /\ r.st.opened = srv.opened /\ r.st.finished = srv.finished
        /\ r.st.sentEof = srv.sentEof /\ r.st.receivedEof = srv.receivedEof
        /\ r.st.sendCredit = srv.sendCredit /\ r.st.recvUnacked = srv.recvUnacked
        /\ r.st.pausedForCredit = srv.pausedForCredit
    BY <1>0, <1>5 DEF SrvFacts, SrvType
  <2>2. /\ r.sock.readEnded = pub.readEnded
        /\ r.sock.inq = pub.inq /\ r.sock.out = pub.out
        /\ r.sock.flowing => pub.flowing
    BY <1>2, <1>5
  <2>3. Len(r.sock.inq) <= Len(pub.inq)
    BY <1>0, <2>2 DEF SrvFacts
  <2> QED
    BY <1>0, <1>3, <2>1, <2>2, <2>3 DEF SrvQuiet, SrvFacts
<1>6. CASE /\ srv.sendCredit > 0
           /\ r.st = [srv EXCEPT !.pausedGlobally = FALSE, !.pausedForCredit = FALSE]
           /\ r.sock = Resume(pub)
  <2>1. /\ r.st.opened = srv.opened /\ r.st.finished = srv.finished
        /\ r.st.sentEof = srv.sentEof /\ r.st.receivedEof = srv.receivedEof
        /\ r.st.sendCredit = srv.sendCredit /\ r.st.recvUnacked = srv.recvUnacked
        /\ ~r.st.pausedForCredit
    BY <1>0, <1>6 DEF SrvFacts, SrvType
  <2>2. /\ r.sock.readEnded = pub.readEnded
        /\ r.sock.inq = pub.inq /\ r.sock.out = pub.out
    BY <1>2, <1>6
  <2>3. Len(r.sock.inq) <= Len(pub.inq)
    BY <1>0, <2>2 DEF SrvFacts
  <2> QED
    BY <1>0, <1>3, <1>6, <2>1, <2>2, <2>3 DEF SrvQuiet, SrvFacts
<1> QED
  BY <1>1, <1>4, <1>5, <1>6 DEF SrvRepaused

\* A turn that has done nothing yet.
LEMMA SrvTurnQuiet ==
  ASSUME IInv
  PROVE  /\ SrvQuiet(S!Turn) /\ S!Turn.sent = <<>>
         /\ S!Turn.st = srv
<1>0. SrvFacts
  BY SrvKnown
<1>1. /\ S!Turn \in SrvTurn
      /\ S!Turn.st = srv /\ S!Turn.sock = pub /\ S!Turn.sent = <<>>
  BY <1>0, SrvTurnStarts DEF SrvFacts
<1> QED
  BY <1>0, <1>1 DEF SrvQuiet, SrvFacts

\* The end of a congestion obeys the law.
LEMMA CongestionLaw ==
  ASSUME IInv,
         S!ClearCongestion, UNCHANGED <<pVars, outsideVars>>
  PROVE  \E e, t : SrvLaw(e, t)
<1>1. PICK paused \in BOOLEAN :
        S!Commit(IF S!InStreams THEN S!SetGlobalPause(S!Turn, paused) ELSE S!Turn)
  BY DEF S!ClearCongestion
<1>2. /\ UNCHANGED <<pVars, linkUp, toServer, srvClosed, visitorSaid, serviceSaid>>
      /\ srvCongested' \in BOOLEAN
  BY DEF S!ClearCongestion, outsideVars
<1>3. happened' \in Histories \cup {{}}
  BY DEF IInv, Types, outsideVars
<1> DEFINE r == IF S!InStreams THEN S!SetGlobalPause(S!Turn, paused) ELSE S!Turn
           e == r.sent
<1>4. SrvQuiet(r) /\ r.sent = <<>> /\ r.st.finished = srv.finished
      /\ (srv.opened \/ r.st = srv)
  <2>1. CASE S!InStreams
    <3>1. S!Turn \in SrvTurn
      BY SrvTurnQuiet DEF SrvQuiet
    <3> DEFINE q == S!SetGlobalPause(S!Turn, paused)
    <3>2. SrvRepaused(q, S!Turn) /\ r = q
      BY <2>1, <3>1, SrvGlobalPause
    <3> HIDE DEF q
    <3>3. SrvQuiet(q) /\ q.sent = <<>> /\ q.st.finished = srv.finished
      BY <3>2, SrvRepausedQuiet
    <3> QED
      BY <2>1, <3>2, <3>3 DEF S!InStreams
  <2>2. CASE ~S!InStreams
    BY <2>2, SrvTurnQuiet
  <2> QED
    BY <2>1, <2>2
<1> HIDE DEF r
<1>5. S!Commit(r)
  BY <1>1 DEF r
<1>6. SrvCommitted(r, <<>>)
  BY <1>2, <1>3, <1>4, <1>5, SrvCallback DEF SrvQuiet
<1>7. /\ e = <<>> /\ Orderly(e) /\ DataIn(e) = 0 /\ AcksIn(e) = 0 /\ TypesIn(e) = {}
      /\ TypesIn(<<>>) = {}
  BY <1>4, FewFrames
<1> HIDE DEF e
<1>8. SrvLaw(e, <<>>)
  BY <1>4, <1>6, <1>7, SrvQuietLaw DEF e
<1> QED
  BY <1>8

\* The session's teardown obeys the law.
LEMMA SessionDestroyLaw ==
  ASSUME IInv, S!SessionDestroy, UNCHANGED <<pVars, outsideVars>>
  PROVE  \E e, t : SrvLaw(e, t)
<1>0. SrvFacts
  BY SrvKnown
<1> DEFINE cleared == IF srvCongested THEN S!SetGlobalPause(S!Turn, FALSE) ELSE S!Turn
           q == S!Destroy(cleared, "agent_gone")
           r == IF S!InStreams THEN q ELSE S!Turn
           e == r.sent
<1>1. /\ ~linkUp
      /\ UNCHANGED <<pVars, linkUp, toAgent, toServer, visitorSaid, serviceSaid,
                     happened>>
      /\ srvClosed' \in BOOLEAN /\ srvCongested' \in BOOLEAN
  BY DEF S!SessionDestroy, outsideVars
<1>2. srv' = r.st /\ pub' = r.sock
  BY DEF S!SessionDestroy, S!Turn
<1>3. /\ SrvQuiet(cleared) /\ cleared.sent = <<>> /\ cleared.st.finished = srv.finished
  <2>1. CASE srvCongested
    <3>1. S!Turn \in SrvTurn
      BY SrvTurnQuiet DEF SrvQuiet
    <3> DEFINE c == S!SetGlobalPause(S!Turn, FALSE)
    <3>2. SrvRepaused(c, S!Turn) /\ cleared = c
      BY <2>1, <3>1, SrvGlobalPause
    <3> HIDE DEF c
    <3>3. SrvQuiet(c) /\ c.sent = <<>> /\ c.st.finished = srv.finished
      BY <3>2, SrvRepausedQuiet
    <3> QED
      BY <3>2, <3>3
  <2>2. CASE ~srvCongested
    BY <2>2, SrvTurnQuiet
  <2> QED
    BY <2>1, <2>2
<1> HIDE DEF cleared
<1>4. cleared \in SrvTurn /\ cleared.st \in SrvType /\ cleared.sock \in Socket(Bytes)
  BY <1>3 DEF SrvQuiet, SrvTurn
<1>5. ~srv.finished => /\ q \in SrvTurn
                       /\ q.st = [cleared.st EXCEPT !.finished = TRUE]
                       /\ q.sock = DestroySocket(cleared.sock)
                       /\ q.sent = Append(<<>>, ResetFrame)
  <2> DEFINE why == "agent_gone"
             p == S!Destroy(cleared, why)
  <2>1. why # "peer_reset" /\ p = q
    OBVIOUS
  <2> HIDE DEF why
  <2>2. ~srv.finished => /\ p \in SrvTurn
                         /\ p.st = [cleared.st EXCEPT !.finished = TRUE]
                         /\ p.sock = DestroySocket(cleared.sock)
                         /\ p.sent = Append(<<>>, ResetFrame)
    BY <1>3, <1>4, <2>1, SrvDestroy, ZenonT(60)
  <2> HIDE DEF p, q
  <2> QED
    BY <2>1, <2>2
<1> HIDE DEF q
<1>6. /\ SrvQuiet(r)
      /\ \/ S!InStreams /\ r.sent = Append(<<>>, ResetFrame) /\ r.st.finished
         \/ ~S!InStreams /\ r.sent = <<>> /\ r.st = srv
  <2>1. CASE S!InStreams
    <3>1. ~srv.finished
      BY <2>1 DEF S!InStreams
    <3>2. DestroySocket(cleared.sock) \in Socket(Bytes)
          /\ Shrunk(DestroySocket(cleared.sock), cleared.sock)
          /\ DestroySocket(cleared.sock).out = <<>>
          /\ ~DestroySocket(cleared.sock).flowing
      BY <1>4, SocketDestroyed
    <3>3. /\ q.sock.readEnded = pub.readEnded
          /\ Len(q.sock.inq) <= Len(pub.inq)
          /\ q.sock.out = <<>> /\ ~q.sock.flowing
      <4>1. Len(q.sock.inq) \in Nat /\ Len(cleared.sock.inq) \in Nat
            /\ Len(pub.inq) \in Nat
        BY <1>0, <1>4, <1>5, <3>1, <3>2, SocketTyped DEF SrvFacts
      <4>2. /\ Len(q.sock.inq) <= Len(cleared.sock.inq)
            /\ Len(cleared.sock.inq) <= Len(pub.inq)
        BY <1>3, <1>5, <3>1, <3>2 DEF Shrunk, SrvQuiet
      <4> QED
        BY <1>3, <1>5, <3>1, <3>2, <4>1, <4>2 DEF Shrunk, SrvQuiet
    <3>4. /\ q.st.opened = srv.opened /\ q.st.finished
          /\ q.st.sentEof = srv.sentEof /\ q.st.receivedEof = srv.receivedEof
          /\ q.st.sendCredit = srv.sendCredit /\ q.st.recvUnacked = srv.recvUnacked
          /\ \/ q.st.pausedForCredit = srv.pausedForCredit
             \/ ~q.st.pausedForCredit /\ srv.sendCredit > 0
      BY <1>3, <1>4, <1>5, <3>1 DEF SrvQuiet, SrvType
    <3> QED
      BY <1>5, <2>1, <3>1, <3>3, <3>4 DEF SrvQuiet
  <2>2. CASE ~S!InStreams
    BY <2>2, SrvTurnQuiet
  <2> QED
    BY <2>1, <2>2
<1> HIDE DEF r
<1>7. SrvCommitted(r, <<>>)
  <2>1. /\ <<>> \in Seq(WireFrame) /\ toServer \in Seq(WireFrame)
        /\ toServer = <<>> \o toServer
    BY Nothing DEF IInv, Types
  <2>2. happened' \in Histories \cup {{}}
    BY <1>1 DEF IInv, Types
  <2> QED
    BY <1>1, <1>2, <1>6, <2>1, <2>2 DEF SrvCommitted, SrvQuiet
<1>8. /\ Orderly(e) /\ DataIn(e) = 0 /\ AcksIn(e) = 0
      /\ \/ TypesIn(e) = {"RESET"} /\ r.st.finished
         \/ TypesIn(e) = {}
  <2>1. CASE r.sent = Append(<<>>, ResetFrame) /\ r.st.finished
    <3>1. e = Append(<<>>, ResetFrame)
      BY <2>1
    <3> HIDE DEF e
    <3> QED
      BY <2>1, <3>1, FramesTyped, OneSent
  <2>2. CASE r.sent = <<>>
    BY <2>2, FewFrames
  <2> QED
    BY <1>6, <2>1, <2>2
<1>9. TypesIn(<<>>) = {} /\ (srv.opened \/ (r.st = srv /\ r.sent = <<>>))
  BY <1>6, EmptySeen DEF S!InStreams
<1> HIDE DEF e
<1>10. SrvLaw(e, <<>>)
  BY <1>1, <1>6, <1>7, <1>8, <1>9, SrvQuietLaw DEF e
<1> QED
  BY <1>10

\* The frame a receive takes is the first of the queue.
LEMMA SrvTaken ==
  ASSUME IInv, S!ServerReceive, UNCHANGED <<pVars, outsideVars>>
  PROVE  LET f == Head(toServer)
         IN  /\ f \in WireFrame /\ f.type # "OPEN" /\ f.type \in TypesIn(toServer)
             /\ srv.opened
             /\ TypesIn(<<f>>) = {f.type}
             /\ DataIn(<<f>>) = DataOf(f) /\ AcksIn(<<f>>) = AckOf(f)
             /\ S!Commit(S!HandleFrame(f))
             /\ \A r : r \in SrvTurn /\ S!Commit(r) => SrvCommitted(r, <<f>>)
<1>1. Types /\ LifeOfServer /\ Chan
  BY DEF IInv
<1>2. /\ toServer \in Seq(WireFrame) /\ toServer # <<>>
      /\ toServer' = Tail(toServer)
      /\ S!Commit(S!HandleFrame(Head(toServer)))
      /\ UNCHANGED <<pVars, linkUp, srvClosed, visitorSaid, serviceSaid,
                     srvCongested, happened>>
  BY <1>1 DEF S!ServerReceive, Types, outsideVars
<1> DEFINE c == toServer
           f == Head(c)
           rest == Tail(c)
<1>3. c \in Seq(WireFrame) /\ c # <<>>
  BY <1>2
<1> HIDE DEF c
<1>4. /\ f \in WireFrame /\ rest \in Seq(WireFrame)
      /\ c = <<f>> \o rest /\ <<f>> \in Seq(WireFrame)
      /\ TypesIn(<<f>>) = {f.type}
      /\ DataIn(<<f>>) = DataOf(f) /\ AcksIn(<<f>>) = AckOf(f)
      /\ f.type \in TypesIn(c)
  BY <1>3, FirstTaken
<1> HIDE DEF f, rest
<1>5. f.type # "OPEN" /\ srv.opened
  BY <1>1, <1>2, <1>4 DEF Chan, LifeOfServer, c
<1>6. ASSUME NEW r, r \in SrvTurn, S!Commit(r)
      PROVE  SrvCommitted(r, <<f>>)
  <2>1. toAgent' = IF linkUp THEN toAgent \o r.sent ELSE toAgent
    BY <1>1, <1>6 DEF S!Commit, LifeOfServer
  <2>2. toServer' = rest /\ toServer = <<f>> \o rest
    BY <1>2, <1>4 DEF c, rest
  <2> QED
    BY <1>1, <1>2, <1>4, <1>6, <2>1, <2>2 DEF S!Commit, SrvCommitted, LifeOfServer, Types
<1>7. S!Commit(S!HandleFrame(f))
  BY <1>2 DEF f, c
<1>8. /\ f \in WireFrame /\ f.type # "OPEN" /\ f.type \in TypesIn(toServer)
      /\ srv.opened
      /\ TypesIn(<<f>>) = {f.type}
      /\ DataIn(<<f>>) = DataOf(f) /\ AcksIn(<<f>>) = AckOf(f)
      /\ S!Commit(S!HandleFrame(f))
      /\ \A r : r \in SrvTurn /\ S!Commit(r) => SrvCommitted(r, <<f>>)
  BY <1>4, <1>5, <1>6, <1>7 DEF c
<1> QED
  BY <1>8 DEF f, c

\* A frame for a stream the server has forgotten.
LEMMA SrvStrayLaw ==
  ASSUME IInv, S!ServerReceive, UNCHANGED <<pVars, outsideVars>>, ~S!InStreams
  PROVE  \E e, t : SrvLaw(e, t)
<1> DEFINE f == Head(toServer)
           h == S!Turn
           r == IF f.type = "RESET" THEN h ELSE S!Send(h, ResetFrame)
           e == r.sent
<1>0. SrvFacts
  BY SrvKnown
<1>1. /\ f \in WireFrame /\ srv.opened /\ TypesIn(<<f>>) = {f.type}
      /\ S!Commit(S!HandleFrame(f))
      /\ \A q : q \in SrvTurn /\ S!Commit(q) => SrvCommitted(q, <<f>>)
  BY SrvTaken
<1>2. S!HandleFrame(f) = r
  BY SameOperators DEF S!HandleFrame
<1> HIDE DEF f
<1>3. SrvQuiet(h) /\ h.sent = <<>> /\ h.st = srv
  BY SrvTurnQuiet
<1> HIDE DEF h
<1>4. srv.finished
  BY <1>1 DEF S!InStreams
<1>5. /\ S!Send(h, ResetFrame) \in SrvTurn /\ S!Send(h, ResetFrame).st = h.st
      /\ S!Send(h, ResetFrame).sock = h.sock
      /\ S!Send(h, ResetFrame).sent = Append(<<>>, ResetFrame)
  <2>1. h \in SrvTurn /\ ResetFrame \in WireFrame
    BY <1>3, FramesTyped DEF SrvQuiet
  <2> QED
    BY ONLY <1>3, <2>1, SrvSend
<1>6. SrvQuiet(r) /\ r.st = srv
  BY <1>3, <1>5 DEF SrvQuiet
<1>7. r.sent = <<>> \/ r.sent = Append(<<>>, ResetFrame)
  BY <1>3, <1>5
<1> HIDE DEF r
<1>8. SrvCommitted(r, <<f>>)
  BY <1>1, <1>2, <1>6 DEF SrvQuiet
<1>9. Orderly(e) /\ DataIn(e) = 0 /\ AcksIn(e) = 0 /\ TypesIn(e) \subseteq {"RESET"}
  <2>1. CASE r.sent = <<>>
    BY <2>1, FewFrames
  <2>2. CASE r.sent = Append(<<>>, ResetFrame)
    <3>1. e = Append(<<>>, ResetFrame)
      BY <2>2
    <3> HIDE DEF e
    <3> QED
      BY <3>1, FramesTyped, OneSent
  <2> QED
    BY <1>7, <2>1, <2>2
<1> DEFINE t == <<f>>
<1>10. SrvCommitted(r, t)
  BY <1>8
<1> HIDE DEF e, t
<1>11. SrvLaw(e, t)
  BY <1>1, <1>4, <1>6, <1>9, <1>10, SrvQuietLaw DEF e
<1> QED
  BY <1>11

\* STREAM_RESET at the server obeys the law.
LEMMA SrvResetLaw ==
  ASSUME IInv, S!ServerReceive, UNCHANGED <<pVars, outsideVars>>, S!InStreams,
         Head(toServer).type = "RESET"
  PROVE  \E e, t : SrvLaw(e, t)
<1> DEFINE f == Head(toServer)
           h == S!Turn
           r == S!Destroy(h, "peer_reset")
           e == r.sent
<1>0. SrvFacts
  BY SrvKnown
<1>1. /\ f \in WireFrame /\ srv.opened /\ TypesIn(<<f>>) = {"RESET"}
      /\ S!Commit(S!HandleFrame(f))
      /\ \A q : q \in SrvTurn /\ S!Commit(q) => SrvCommitted(q, <<f>>)
  BY SrvTaken
<1>2. S!HandleFrame(f) = r
  BY DEF S!HandleFrame
<1> HIDE DEF f
<1>3. h \in SrvTurn /\ h.sent = <<>> /\ h.st = srv /\ h.sock = pub
  BY <1>0, SrvTurnStarts DEF SrvFacts
<1> HIDE DEF h
<1>4. /\ r \in SrvTurn /\ r.st = [srv EXCEPT !.finished = TRUE]
      /\ r.sock = DestroySocket(pub) /\ r.sent = <<>>
  BY <1>3, SrvDestroy DEF S!InStreams
<1> HIDE DEF r
<1>5. SrvQuiet(r) /\ r.st.finished
  <2>1. Shrunk(DestroySocket(pub), pub) /\ DestroySocket(pub).out = <<>>
    BY <1>0, SocketDestroyed DEF SrvFacts
  <2> QED
    BY <1>0, <1>4, <2>1 DEF SrvQuiet, Shrunk, SrvFacts, SrvType
<1>6. SrvCommitted(r, <<f>>)
  BY <1>1, <1>2, <1>4
<1>7. /\ e = <<>> /\ Orderly(e) /\ DataIn(e) = 0 /\ AcksIn(e) = 0 /\ TypesIn(e) = {}
  BY <1>4, FewFrames
<1> DEFINE t == <<f>>
<1>8. SrvCommitted(r, t) /\ TypesIn(t) = {"RESET"}
  BY <1>1, <1>6
<1> HIDE DEF e, t
<1>9. SrvLaw(e, t)
  BY <1>1, <1>5, <1>7, <1>8, SrvQuietLaw DEF e
<1> QED
  BY <1>9

\* STREAM_DATA at the server obeys the law.
LEMMA SrvDataLaw ==
  ASSUME IInv, S!ServerReceive, UNCHANGED <<pVars, outsideVars>>, S!InStreams,
         Head(toServer).type = "DATA"
  PROVE  \E e, t : SrvLaw(e, t)
<1> DEFINE f == Head(toServer)
           h == S!Turn
           d == f.data
           r == S!OnData(h, d)
           e == r.sent
           t == <<f>>
           n == Len(d)
           u == srv.recvUnacked
<1>0. SrvFacts
  BY SrvKnown
<1>1. /\ f \in WireFrame /\ srv.opened
      /\ TypesIn(t) = {"DATA"} /\ DataIn(t) = DataOf(f) /\ AcksIn(t) = AckOf(f)
      /\ "DATA" \in TypesIn(toServer)
      /\ S!Commit(S!HandleFrame(f))
      /\ \A q : q \in SrvTurn /\ S!Commit(q) => SrvCommitted(q, t)
  BY SrvTaken
<1>2. S!HandleFrame(f) = r
  BY DEF S!HandleFrame
<1>3. /\ d \in Seq(Bytes) /\ d # <<>> /\ n \in Nat \ {0}
      /\ DataOf(f) = n /\ AckOf(f) = 0
  BY <1>1 DEF WireFrame, SomeFrame, DataOf, AckOf
<1>4. DataIn(t) = n /\ AcksIn(t) = 0
  BY <1>1, <1>3
<1>5. ~srv.finished /\ ~srv.receivedEof
  BY <1>1 DEF IInv, Eof, S!InStreams
<1> HIDE DEF f, t, d
<1>6. h \in SrvTurn /\ h.sent = <<>> /\ h.st = srv /\ h.sock = pub
  BY <1>0, SrvTurnStarts DEF SrvFacts
<1> HIDE DEF h
<1>7. /\ r \in SrvTurn /\ r.sock = Write(pub, d)
      /\ \/ /\ r.st = [srv EXCEPT !.recvUnacked = u + n]
            /\ r.sent = <<>>
         \/ /\ Flushed(r.sock)
            /\ r.st = [srv EXCEPT !.recvUnacked = 0]
            /\ r.sent = Append(<<>>, AckFrame(u + n))
  BY <1>3, <1>5, <1>6, SrvOnData
<1> HIDE DEF r
<1>8. SrvCommitted(r, t)
  BY <1>1, <1>2, <1>7
<1>9. srv' = r.st /\ pub' = r.sock
  BY <1>8 DEF SrvCommitted
<1>18. visitorSaid' = visitorSaid
  BY <1>8 DEF SrvCommitted
<1>10. /\ srv'.opened = srv.opened /\ srv'.finished = srv.finished
       /\ srv'.sentEof = srv.sentEof /\ srv'.receivedEof = srv.receivedEof
       /\ srv'.sendCredit = srv.sendCredit
       /\ srv'.pausedForCredit = srv.pausedForCredit
  BY <1>0, <1>7, <1>9, ZenonT(60) DEF SrvFacts, SrvType
<1>11. u \in Nat /\ u + n \in Nat \ {0}
  BY <1>0, <1>3 DEF SrvFacts
<1> HIDE DEF u, n
<1>12. /\ e \in Seq(WireFrame) /\ Orderly(e) /\ DataIn(e) = 0
       /\ TypesIn(e) \subseteq {"ACK"}
       /\ \/ AcksIn(e) = 0 /\ srv'.recvUnacked = u + n
          \/ AcksIn(e) = u + n /\ srv'.recvUnacked = 0 /\ Len(pub'.out) < HighWater
  <2>1. CASE r.st = [srv EXCEPT !.recvUnacked = u + n] /\ r.sent = <<>>
    <3>1. srv'.recvUnacked = u + n
      BY <1>0, <1>9, <2>1 DEF SrvFacts, SrvType
    <3> QED
      BY <2>1, <3>1, FewFrames
  <2>2. CASE /\ Flushed(r.sock)
             /\ r.st = [srv EXCEPT !.recvUnacked = 0]
             /\ r.sent = Append(<<>>, AckFrame(u + n))
    <3> DEFINE g == AckFrame(u + n)
    <3>1. g \in WireFrame /\ g.type = "ACK" /\ DataOf(g) = 0 /\ AckOf(g) = u + n
      BY <1>11, FramesTyped
    <3>2. e = Append(<<>>, g)
      BY <2>2
    <3> HIDE DEF e, g
    <3>3. /\ e \in Seq(WireFrame) /\ Orderly(e) /\ DataIn(e) = 0
          /\ TypesIn(e) = {"ACK"} /\ AcksIn(e) = u + n
      BY <3>1, <3>2, OneSent
    <3>4. srv'.recvUnacked = 0 /\ Len(pub'.out) < HighWater
      BY <1>0, <1>9, <2>2 DEF SrvFacts, SrvType, Flushed
    <3> QED
      BY <3>3, <3>4
  <2> QED
    BY <1>7, <2>1, <2>2
<1>13. /\ pub'.readEnded = pub.readEnded /\ (pub'.flowing => pub.flowing)
       /\ Len(pub'.inq) <= Len(pub.inq) /\ Len(pub'.inq) \in Nat
       /\ Len(pub'.out) \in Nat /\ Len(pub'.out) <= Len(pub.out) + n
  <2>1. /\ Write(pub, d) \in Socket(Bytes) /\ Shrunk(Write(pub, d), pub)
        /\ \/ Write(pub, d).out = pub.out \o d
           \/ Write(pub, d).out = <<>>
    BY <1>0, <1>3, SocketWritten DEF SrvFacts
  <2>2. Len(pub.out \o d) = Len(pub.out) + n
    BY <1>0, <1>3, SocketTyped, ConcatTyped DEF SrvFacts, n
  <2>3. Len(pub'.inq) \in Nat /\ Len(pub'.out) \in Nat
    BY <1>7, <1>9, <2>1, SocketTyped
  <2>6. pub' = Write(pub, d)
    BY <1>7, <1>9
  <2>4. Len(pub'.out) = Len(pub.out) + n \/ Len(pub'.out) = 0
    <3>1. CASE Write(pub, d).out = pub.out \o d
      BY <2>2, <2>6, <3>1
    <3>2. CASE Write(pub, d).out = <<>>
      BY <2>6, <3>2
    <3> QED
      BY <2>1, <3>1, <3>2
  <2>5. Len(pub'.out) <= Len(pub.out) + n
    BY <1>0, <1>3, <2>4 DEF SrvFacts, n
  <2> QED
    BY <1>7, <1>9, <2>1, <2>3, <2>5 DEF Shrunk
<1>14. SrvWire(e, t)
  BY <1>8, <1>12, SrvWired
<1> HIDE DEF e
<1>15. SrvWord(e, t)
  BY <1>0, <1>1, <1>5, <1>10, <1>12, <1>13 DEF SrvWord, SrvFacts
<1>16. SrvBytes(e, t)
  <2>1. SrvPauses'
    BY <1>0, <1>10, <1>13 DEF SrvPauses, SrvFacts
  <2>2. srv'.sendCredit + visitorSaid' - Len(pub'.inq) >= Window
    BY <1>0, <1>10, <1>13, <1>18, SMTT(40) DEF SrvFacts
  <2>3. Len(pub.out) < u + HighWater
    BY <1>0, <1>5 DEF SrvFacts, u
  <2>4. Len(pub'.out) < srv'.recvUnacked + HighWater
    <3> DEFINE m == Len(pub.out)
               k == Len(pub'.out)
               v == srv'.recvUnacked
    <3>1. /\ m \in Nat /\ k \in Nat /\ u \in Nat /\ n \in Nat
          /\ HighWater \in Nat
          /\ m < u + HighWater /\ k <= m + n
          /\ v = u + n \/ (v = 0 /\ k < HighWater)
      BY <1>0, <1>3, <1>11, <1>12, <1>13, <2>3 DEF SrvFacts, n
    <3> HIDE DEF m, k, v
    <3>2. k < v + HighWater
      BY ONLY <3>1
    <3> QED
      BY <3>2 DEF k, v
  <2>5. srv'.recvUnacked + AcksIn(e) = u + n
    BY <1>11, <1>12
  <2> QED
    BY <1>0, <1>4, <1>5, <1>10, <1>11, <1>12, <2>1, <2>2, <2>4, <2>5, SMTT(40)
       DEF SrvBytes, SrvFacts, u
<1>17. SrvLaw(e, t)
  BY <1>14, <1>15, <1>16 DEF SrvLaw
<1> QED
  BY <1>17

\* STREAM_EOF at the server obeys the law.
LEMMA SrvEofLaw ==
  ASSUME IInv, S!ServerReceive, UNCHANGED <<pVars, outsideVars>>, S!InStreams,
         Head(toServer).type = "EOF"
  PROVE  \E e, t : SrvLaw(e, t)
<1> DEFINE f == Head(toServer)
           h == S!Turn
           r == S!OnEof(h)
           e == r.sent
           t == <<f>>
           u == srv.recvUnacked
<1>0. SrvFacts
  BY SrvKnown
<1>1. /\ f \in WireFrame /\ srv.opened /\ f.type = "EOF"
      /\ TypesIn(t) = {"EOF"} /\ DataIn(t) = DataOf(f) /\ AcksIn(t) = AckOf(f)
      /\ S!Commit(S!HandleFrame(f))
      /\ \A q : q \in SrvTurn /\ S!Commit(q) => SrvCommitted(q, t)
  BY SrvTaken
<1>2. S!HandleFrame(f) = r
  BY DEF S!HandleFrame
<1>3. DataIn(t) = 0 /\ AcksIn(t) = 0
  BY <1>1 DEF DataOf, AckOf
<1>4. ~srv.finished
  BY DEF S!InStreams
<1> HIDE DEF f, t
<1>5. h \in SrvTurn /\ h.sent = <<>> /\ h.st = srv /\ h.sock = pub
  BY <1>0, SrvTurnStarts DEF SrvFacts
<1> HIDE DEF h
<1>6. /\ srv.receivedEof => r = h
      /\ ~srv.receivedEof =>
            /\ r \in SrvTurn
            /\ r.st = [srv EXCEPT !.receivedEof = TRUE, !.recvUnacked = 0,
                                  !.finished = srv.sentEof]
            /\ r.sock = EndWrite(pub)
            /\ r.sent = IF u = 0 THEN <<>> ELSE Append(<<>>, AckFrame(u))
  BY <1>4, <1>5, SrvOnEof, ZenonT(60)
<1> HIDE DEF r
<1>7. r \in SrvTurn
  BY <1>5, <1>6
<1>8. SrvCommitted(r, t)
  BY <1>1, <1>2, <1>7
<1>9. srv' = r.st /\ pub' = r.sock
  BY <1>8 DEF SrvCommitted
<1>18. visitorSaid' = visitorSaid
  BY <1>8 DEF SrvCommitted
<1>10. /\ srv'.opened = srv.opened /\ (srv'.finished => srv.sentEof)
       /\ srv'.sentEof = srv.sentEof /\ srv'.receivedEof
       /\ srv'.sendCredit = srv.sendCredit
       /\ srv'.pausedForCredit = srv.pausedForCredit
       /\ srv'.recvUnacked = IF srv.receivedEof THEN u ELSE 0
  <2>1. CASE srv.receivedEof
    BY <1>0, <1>4, <1>5, <1>6, <1>9, <2>1 DEF SrvFacts
  <2>2. CASE ~srv.receivedEof
    BY <1>0, <1>6, <1>9, <2>2, ZenonT(60) DEF SrvFacts, SrvType
  <2> QED
    BY <2>1, <2>2
<1>11. u \in Nat
  BY <1>0 DEF SrvFacts
<1> HIDE DEF u
<1>12. /\ e \in Seq(WireFrame) /\ Orderly(e) /\ DataIn(e) = 0
       /\ TypesIn(e) \subseteq {"ACK"}
       /\ AcksIn(e) = IF srv.receivedEof THEN 0 ELSE u
  <2>1. CASE r.sent = <<>> /\ (srv.receivedEof \/ u = 0)
    BY <2>1, FewFrames
  <2>2. CASE r.sent = Append(<<>>, AckFrame(u)) /\ ~srv.receivedEof /\ u # 0
    <3> DEFINE g == AckFrame(u)
    <3>1. g \in WireFrame /\ g.type = "ACK" /\ DataOf(g) = 0 /\ AckOf(g) = u
      BY <1>11, <2>2, FramesTyped
    <3>2. e = Append(<<>>, g)
      BY <2>2
    <3> HIDE DEF e, g
    <3> QED
      BY <2>2, <3>1, <3>2, OneSent
  <2> QED
    BY <1>5, <1>6, <2>1, <2>2
<1>13. /\ pub'.readEnded = pub.readEnded /\ (pub'.flowing => pub.flowing)
       /\ Len(pub'.inq) <= Len(pub.inq) /\ Len(pub'.inq) \in Nat
       /\ pub'.out = pub.out
  <2>1. /\ EndWrite(pub) \in Socket(Bytes) /\ Shrunk(EndWrite(pub), pub)
        /\ EndWrite(pub).out = pub.out
    BY <1>0, SocketEvents DEF SrvFacts
  <2>2. Len(EndWrite(pub).inq) \in Nat
    BY <2>1, SocketTyped
  <2>3. CASE srv.receivedEof
    BY <1>0, <1>5, <1>6, <1>9, <2>3, SMTT(40) DEF SrvFacts
  <2>4. CASE ~srv.receivedEof
    BY <1>6, <1>9, <2>1, <2>2, <2>4 DEF Shrunk
  <2> QED
    BY <2>3, <2>4
<1>14. SrvWire(e, t)
  BY <1>8, <1>12, SrvWired
<1> HIDE DEF e
<1>15. SrvWord(e, t)
  BY <1>0, <1>1, <1>4, <1>10, <1>12, <1>13 DEF SrvWord, SrvFacts
<1>16. SrvBytes(e, t)
  <2>1. SrvPauses'
    BY <1>0, <1>10, <1>13 DEF SrvPauses, SrvFacts
  <2>2. srv'.sendCredit + visitorSaid' - Len(pub'.inq) >= Window
    <3> DEFINE m == Len(pub.inq)
               k == Len(pub'.inq)
    <3>1. /\ m \in Nat /\ k \in Nat /\ k <= m /\ Window \in Nat
          /\ srv.sendCredit \in Int /\ visitorSaid \in Int
          /\ srv.sendCredit + visitorSaid - m >= Window
      BY <1>0, <1>13 DEF SrvFacts
    <3> HIDE DEF m, k
    <3>2. srv.sendCredit + visitorSaid - k >= Window
      BY ONLY <3>1
    <3> QED
      BY <1>10, <1>18, <3>2 DEF k
  <2>3. Len(pub'.out) < WindowAndChunk + HighWater
    BY <1>0, <1>13 DEF SrvFacts
  <2>4. srv'.recvUnacked + AcksIn(e) = u
    BY <1>10, <1>11, <1>12
  <2> QED
    BY <1>0, <1>3, <1>10, <1>11, <1>12, <2>1, <2>2, <2>3, <2>4, SMTT(40)
       DEF SrvBytes, SrvFacts, u
<1>17. SrvLaw(e, t)
  BY <1>14, <1>15, <1>16 DEF SrvLaw
<1> QED
  BY <1>17

\* STREAM_ACK at the server obeys the law.
LEMMA SrvAckLaw ==
  ASSUME IInv, S!ServerReceive, UNCHANGED <<pVars, outsideVars>>, S!InStreams,
         Head(toServer).type = "ACK"
  PROVE  \E e, t : SrvLaw(e, t)
<1> DEFINE f == Head(toServer)
           h == S!Turn
           n == f.n
           r == S!OnAck(h, n)
           e == r.sent
           t == <<f>>
<1>0. SrvFacts
  BY SrvKnown
<1>1. /\ f \in WireFrame /\ srv.opened /\ f.type = "ACK"
      /\ TypesIn(t) = {"ACK"} /\ DataIn(t) = DataOf(f) /\ AcksIn(t) = AckOf(f)
      /\ S!Commit(S!HandleFrame(f))
      /\ \A q : q \in SrvTurn /\ S!Commit(q) => SrvCommitted(q, t)
  BY SrvTaken
<1>2. S!HandleFrame(f) = r
  BY DEF S!HandleFrame
<1>3. n \in Nat /\ DataIn(t) = 0 /\ AcksIn(t) = n
  BY <1>1 DEF DataOf, AckOf, WireFrame, SomeFrame
<1>4. ~srv.finished
  BY DEF S!InStreams
<1> HIDE DEF f, t, n
<1>5. h \in SrvTurn /\ h.sent = <<>> /\ h.st = srv /\ h.sock = pub
  BY <1>0, SrvTurnStarts DEF SrvFacts
<1> HIDE DEF h
<1>6. /\ r \in SrvTurn /\ r.sent = <<>>
      /\ \/ /\ r.st = [srv EXCEPT !.sendCredit = srv.sendCredit + n]
            /\ r.sock = pub
         \/ /\ srv.sendCredit + n > 0
            /\ r.st = [srv EXCEPT !.sendCredit = srv.sendCredit + n,
                                  !.pausedForCredit = FALSE]
            /\ r.sock = Resume(pub)
  BY <1>3, <1>4, <1>5, SrvOnAck, ZenonT(60)
<1> HIDE DEF r
<1>7. SrvCommitted(r, t)
  BY <1>1, <1>2, <1>6
<1>8. srv' = r.st /\ pub' = r.sock
  BY <1>7 DEF SrvCommitted
<1>16. visitorSaid' = visitorSaid
  BY <1>7 DEF SrvCommitted
<1>9. /\ srv'.opened = srv.opened /\ srv'.finished = srv.finished
      /\ srv'.sentEof = srv.sentEof /\ srv'.receivedEof = srv.receivedEof
      /\ srv'.sendCredit = srv.sendCredit + n
      /\ srv'.recvUnacked = srv.recvUnacked
      /\ \/ srv'.pausedForCredit = srv.pausedForCredit /\ pub' = pub
         \/ ~srv'.pausedForCredit /\ srv.sendCredit + n > 0
  BY <1>0, <1>6, <1>8, ZenonT(60) DEF SrvFacts, SrvType
<1>10. pub'.readEnded = pub.readEnded /\ pub'.inq = pub.inq /\ pub'.out = pub.out
  BY <1>0, <1>6, <1>8, PauseResume, ZenonT(60) DEF SrvFacts
<1>11. /\ e = <<>> /\ Orderly(e) /\ DataIn(e) = 0 /\ AcksIn(e) = 0 /\ TypesIn(e) = {}
  BY <1>6, FewFrames
<1>12. SrvWire(e, t)
  BY <1>7, <1>11, SrvWired
<1> HIDE DEF e
<1>13. SrvWord(e, t)
  BY <1>0, <1>1, <1>4, <1>9, <1>10, <1>11 DEF SrvWord, SrvFacts
<1>14. SrvBytes(e, t)
  <2>1. SrvPauses'
    BY <1>0, <1>3, <1>9 DEF SrvPauses, SrvFacts
  <2>2. srv'.sendCredit + visitorSaid' - Len(pub'.inq) >= Window
    BY <1>0, <1>3, <1>9, <1>10, <1>16, SMTT(40) DEF SrvFacts
  <2>3. /\ ~srv'.receivedEof => Len(pub'.out) < srv'.recvUnacked + HighWater
        /\ srv'.receivedEof => Len(pub'.out) < WindowAndChunk + HighWater
    BY <1>0, <1>9, <1>10 DEF SrvFacts
  <2>4. /\ srv'.sendCredit + DataIn(e) = srv.sendCredit + AcksIn(t)
        /\ srv'.recvUnacked + AcksIn(e) = srv.recvUnacked + DataIn(t)
        /\ srv'.sendCredit \in Int /\ srv'.recvUnacked \in Int
        /\ ~(DataIn(e) > 0)
    BY <1>0, <1>3, <1>9, <1>11, SMTT(40) DEF SrvFacts
  <2>5. /\ srv'.sendCredit + DataIn(e) <= srv.sendCredit + AcksIn(t)
        /\ srv'.recvUnacked + AcksIn(e) <= srv.recvUnacked + DataIn(t)
    BY <1>11, <2>4
  <2> QED
    BY <2>1, <2>2, <2>3, <2>4, <2>5 DEF SrvBytes
<1>15. SrvLaw(e, t)
  BY <1>12, <1>13, <1>14 DEF SrvLaw
<1> QED
  BY <1>15

\* STREAM_OPEN, and with it the head a frontend had read, if there was one.
LEMMA OpenSent ==
  ASSUME NEW d \in Seq(Bytes), NEW e,
         \/ d = <<>> /\ e = Append(<<>>, OpenFrame)
         \/ d # <<>> /\ e = Append(Append(<<>>, OpenFrame), DataFrame(d))
  PROVE  /\ e \in Seq(WireFrame) /\ Orderly(e)
         /\ "OPEN" \in TypesIn(e) /\ TypesIn(e) \subseteq {"OPEN", "DATA"}
         /\ DataIn(e) = Len(d) /\ AcksIn(e) = 0
<1> DEFINE o == Append(<<>>, OpenFrame)
           f == DataFrame(d)
<1>1. /\ o \in Seq(WireFrame) /\ Orderly(o)
      /\ TypesIn(o) = {"OPEN"} /\ DataIn(o) = 0 /\ AcksIn(o) = 0
  BY FramesTyped, OneSent
<1>2. CASE d = <<>> /\ e = o
  BY <1>1, <1>2
<1>3. CASE d # <<>> /\ e = Append(o, f)
  <2>1. /\ f \in WireFrame /\ f.type = "DATA" /\ DataOf(f) = Len(d) /\ AckOf(f) = 0
        /\ Len(d) \in Nat
    BY <1>3, FramesTyped
  <2>2. Len(o) = 1 /\ o[1] = OpenFrame
    BY <1>1, FramesTyped
  <2> HIDE DEF o, f
  <2>3. /\ e \in Seq(WireFrame)
        /\ TypesIn(e) = {"OPEN"} \cup {"DATA"}
        /\ DataIn(e) = 0 + Len(d) /\ AcksIn(e) = 0 + 0
    BY <1>1, <1>3, <2>1, AppendSeen
  <2>4. Orderly(e)
    <3>1. /\ DOMAIN e = 1..2 /\ e[1] = OpenFrame /\ e[2] = f
      BY <1>1, <1>3, <2>1, <2>2
    <3>2. \A i, j \in 1..2 : i < j => i = 1 /\ j = 2
      OBVIOUS
    <3>3. e[1].type = "OPEN" /\ e[2].type = "DATA"
      BY <2>1, <3>1 DEF OpenFrame
    <3> QED
      BY <3>1, <3>2, <3>3 DEF Orderly
  <2> QED
    BY <2>1, <2>3, <2>4
<1> QED
  BY <1>2, <1>3

\* openStream, with the head it read, obeys the law: the head is paid for
\* before the socket flows.
LEMMA OpenStreamLaw ==
  ASSUME IInv, S!OpenStream, UNCHANGED <<pVars, outsideVars>>
  PROVE  \E e, t : SrvLaw(e, t)
<1>0. SrvFacts
  BY SrvKnown
<1>1. PICK size \in PrereadSizes :
        LET head    == SubSeq(pub.inq, 1, size)
            created == [S!Send(S!Turn, S!OpenFrame) EXCEPT
                          !.st.opened = TRUE,
                          !.sock.inq = SubSeq(@, size + 1, Len(@))]
            paused  == IF srvCongested THEN S!SetGlobalPause(created, TRUE)
                                       ELSE created
        IN  /\ ~srv.opened
            /\ ~srvClosed
            /\ ~pub.readEnded
            /\ ~pub.destroyed
            /\ size <= Len(pub.inq)
            /\ S!Commit([S!WritePreread(paused, head) EXCEPT !.sock = S!Resume(@)])
            /\ UNCHANGED <<srvCongested, srvClosed, linkUp, toServer>>
  BY ZenonT(60) DEF S!OpenStream
<1> DEFINE head == SubSeq(pub.inq, 1, size)
           opened == S!Send(S!Turn, OpenFrame)
           rest == SubSeq(pub.inq, size + 1, Len(pub.inq))
           created == [opened EXCEPT !.st.opened = TRUE, !.sock.inq = rest]
           paused == IF srvCongested THEN S!SetGlobalPause(created, TRUE) ELSE created
           q == S!WritePreread(paused, head)
           s == Resume(q.sock)
           r == [q EXCEPT !.sock = s]
           e == r.sent
<1>2. /\ ~srv.opened /\ ~pub.readEnded /\ size <= Len(pub.inq)
      /\ UNCHANGED <<pVars, linkUp, toServer, srvClosed, visitorSaid, serviceSaid,
                     srvCongested, happened>>
  BY <1>1 DEF outsideVars
<1>3. /\ S!Turn \in SrvTurn
      /\ S!Turn.st = srv /\ S!Turn.sock = pub /\ S!Turn.sent = <<>>
  BY <1>0, SrvTurnStarts DEF SrvFacts
<1>4. S!Commit(r)
  <2>1. opened.sock = pub
    BY <1>3, FramesTyped, SrvSend
  <2>2. [S!Send(S!Turn, S!OpenFrame) EXCEPT
            !.st.opened = TRUE,
            !.sock.inq = SubSeq(@, size + 1, Len(@))] = created
    BY <2>1, SameOperators
  <2> QED
    BY <1>1, <2>2, SameOperators
<1>5. /\ size \in Nat /\ size < Window /\ size <= Largest
      /\ head \in Seq(Bytes) /\ Len(head) = size
      /\ rest \in Seq(Bytes) /\ Len(rest) = Len(pub.inq) - size
  <2>1. size \in Nat /\ size < Window /\ size <= Largest
    BY PyBridgeAssumption, LargestBounds
  <2>2. head \in Seq(Bytes) /\ Len(head) = size
    BY <1>0, <1>2, <2>1, DataTaken DEF SrvFacts
  <2> DEFINE m == size + 1
             inq == pub.inq
  <2>3. inq \in Seq(Bytes) /\ m \in 1..(Len(inq) + 1)
    BY <1>0, <1>2, <2>1, SocketTyped DEF SrvFacts
  <2> HIDE DEF m, inq
  <2>4. SubSeq(inq, m, Len(inq)) \in Seq(Bytes)
        /\ Len(SubSeq(inq, m, Len(inq))) = Len(inq) - (m - 1)
    BY <2>3, SubSeqTyped
  <2>5. m - 1 = size
    BY <2>1 DEF m
  <2> QED
    BY <2>1, <2>2, <2>4, <2>5 DEF m, inq
<1> HIDE DEF head, rest
<1>6. /\ opened \in SrvTurn /\ opened.st = srv /\ opened.sock = pub
      /\ opened.sent = Append(<<>>, OpenFrame)
  BY <1>3, FramesTyped, SrvSend, ZenonT(60)
<1> HIDE DEF opened
<1>7. srv = S!NoStream
  BY <1>2 DEF IInv, LifeOfServer
<1>8. /\ created \in SrvTurn /\ created.sent = Append(<<>>, OpenFrame)
      /\ created.st = [srv EXCEPT !.opened = TRUE]
      /\ created.sock = [pub EXCEPT !.inq = rest]
      /\ created.sock \in Socket(Bytes)
  <2>1. [srv EXCEPT !.opened = TRUE] \in SrvType
    BY <1>0 DEF SrvFacts, SrvType
  <2>2. [pub EXCEPT !.inq = rest] \in Socket(Bytes)
    BY <1>0, <1>5 DEF SrvFacts, Socket
  <2>4. opened.sent \in Seq(WireFrame)
    BY <1>6 DEF SrvTurn
  <2>5. created = [opened EXCEPT !.st.opened = TRUE, !.sock.inq = rest]
    OBVIOUS
  <2> HIDE DEF created
  <2>6. /\ opened.st = srv /\ opened.sock = pub /\ opened \in SrvTurn
        /\ [opened.st EXCEPT !.opened = TRUE] \in SrvType
        /\ [opened.sock EXCEPT !.inq = rest] \in Socket(Bytes)
    BY <1>6, <2>1, <2>2
  <2>7. created \in SrvTurn
    BY <2>5, <2>6 DEF SrvTurn
  <2>8. /\ created.sent = opened.sent
        /\ created.st = [srv EXCEPT !.opened = TRUE]
        /\ created.sock = [pub EXCEPT !.inq = rest]
    BY <2>5, <2>6 DEF SrvTurn
  <2> QED
    BY <1>6, <2>2, <2>7, <2>8
<1>9. /\ created.sock.inq = rest /\ created.sock.out = pub.out
      /\ created.sock.readEnded = pub.readEnded
  BY <1>0, <1>8 DEF SrvFacts, Socket
<1>10. /\ created.st.opened /\ created.st.sendCredit = Window
       /\ created.st.recvUnacked = 0 /\ ~created.st.pausedForCredit
       /\ ~created.st.sentEof /\ ~created.st.receivedEof /\ ~created.st.finished
  BY <1>7, <1>8 DEF S!NoStream
<1> HIDE DEF created
<1>11. /\ paused \in SrvTurn /\ paused.sent = Append(<<>>, OpenFrame)
       /\ paused.st.opened /\ paused.st.sendCredit = Window
       /\ paused.st.recvUnacked = 0 /\ ~paused.st.pausedForCredit
       /\ ~paused.st.sentEof /\ ~paused.st.receivedEof /\ ~paused.st.finished
       /\ paused.sock.inq = rest /\ paused.sock.out = pub.out
       /\ paused.sock.readEnded = pub.readEnded
  <2>1. CASE srvCongested
    <3> DEFINE c == S!SetGlobalPause(created, TRUE)
    <3>1. SrvRepaused(c, created) /\ paused = c
      BY <1>8, <2>1, SrvGlobalPause
    <3> HIDE DEF c
    <3>2. c \in SrvTurn /\ c.sent = created.sent
      BY <3>1 DEF SrvRepaused
    <3>3. /\ c.st.opened /\ c.st.sendCredit = Window
          /\ c.st.recvUnacked = 0 /\ ~c.st.pausedForCredit
          /\ ~c.st.sentEof /\ ~c.st.receivedEof /\ ~c.st.finished
      <4>1. created.st \in SrvType
        BY <1>8 DEF SrvTurn
      <4>2. \/ c.st = created.st
            \/ c.st = [created.st EXCEPT !.pausedGlobally = TRUE]
            \/ c.st = [created.st EXCEPT !.pausedGlobally = FALSE]
            \/ c.st = [created.st EXCEPT !.pausedGlobally = FALSE,
                                         !.pausedForCredit = FALSE]
        BY <3>1 DEF SrvRepaused
      <4> QED
        BY <1>10, <4>1, <4>2 DEF SrvType
    <3>4. /\ c.sock.inq = rest /\ c.sock.out = pub.out
          /\ c.sock.readEnded = pub.readEnded
      <4>1. \/ c.sock = created.sock \/ c.sock = Pause(created.sock)
            \/ c.sock = Resume(created.sock)
        BY <3>1 DEF SrvRepaused
      <4> DEFINE k == created.sock
                 paus == Pause(k)
                 res == Resume(k)
      <4>2. k \in Socket(Bytes) /\ k.inq = rest /\ k.out = pub.out
            /\ k.readEnded = pub.readEnded
        BY <1>8, <1>9
      <4> HIDE DEF k
      <4>3. paus.inq = rest /\ paus.out = pub.out /\ paus.readEnded = pub.readEnded
        BY <4>2, PauseResume DEF Shrunk
      <4>4. res.inq = rest /\ res.out = pub.out /\ res.readEnded = pub.readEnded
        BY <4>2, PauseResume
      <4>5. c.sock = k \/ c.sock = paus \/ c.sock = res
        BY <4>1 DEF k
      <4> HIDE DEF paus, res
      <4> QED
        BY <4>2, <4>3, <4>4, <4>5
    <3> QED
      BY <1>8, <3>1, <3>2, <3>3, <3>4
  <2>2. CASE ~srvCongested
    BY <1>8, <1>9, <1>10, <2>2
  <2> QED
    BY <2>1, <2>2
<1> HIDE DEF paused
<1>12. /\ q \in SrvTurn
       /\ \/ head = <<>> /\ q.sent = Append(<<>>, OpenFrame)
          \/ head # <<>> /\ q.sent = Append(Append(<<>>, OpenFrame), DataFrame(head))
       /\ q.st.opened /\ q.st.sendCredit = Window - size
       /\ q.st.recvUnacked = 0 /\ ~q.st.pausedForCredit
       /\ ~q.st.sentEof /\ ~q.st.receivedEof /\ ~q.st.finished
       /\ q.sock.inq = rest /\ q.sock.out = pub.out
       /\ q.sock.readEnded = pub.readEnded
  <2>1. CASE head = <<>>
    <3>1. size = 0 /\ q = paused
      BY <1>5, <2>1 DEF S!WritePreread
    <3> HIDE DEF q
    <3>2. Window - size = Window
      BY <1>0, <3>1 DEF SrvFacts
    <3> QED
      BY <1>11, <2>1, <3>1, <3>2
  <2>2. CASE head # <<>>
    <3>1. q = S!OnSocketData(paused, head)
      BY <2>2 DEF S!WritePreread
    <3> HIDE DEF q
    <3>2. /\ q \in SrvTurn
          /\ q.sent = Append(Append(<<>>, OpenFrame), DataFrame(head))
          /\ \/ /\ q.st = [paused.st EXCEPT !.sendCredit = Window - size]
                /\ q.sock = paused.sock
             \/ Window - size <= 0
      <4> DEFINE credit == paused.st.sendCredit - Len(head)
      <4>1. credit = Window - size
        BY <1>5, <1>11, SMTT(40)
      <4> HIDE DEF credit
      <4>2. /\ q \in SrvTurn
            /\ q.sent = Append(paused.sent, DataFrame(head))
            /\ \/ /\ q.st = [paused.st EXCEPT !.sendCredit = credit]
                  /\ q.sock = paused.sock
               \/ credit <= 0
        BY <1>5, <1>11, <2>2, <3>1, SrvSocketData, ZenonT(60) DEF credit
      <4> QED
        BY <1>11, <4>1, <4>2
    <3>3. ~(Window - size <= 0)
      BY <1>0, <1>5 DEF SrvFacts
    <3>4. q.st = [paused.st EXCEPT !.sendCredit = Window - size] /\ q.sock = paused.sock
      BY <3>2, <3>3
    <3>5. paused.st \in SrvType
      BY <1>11 DEF SrvTurn
    <3> QED
      BY <1>11, <2>2, <3>2, <3>4, <3>5 DEF SrvType
  <2> QED
    BY <2>1, <2>2
<1> HIDE DEF q
<1>13. /\ s \in Socket(Bytes) /\ s.inq = rest /\ s.out = pub.out
       /\ s.readEnded = pub.readEnded
  <2>1. q.sock \in Socket(Bytes)
    BY <1>12 DEF SrvTurn
  <2> QED
    BY <1>12, <2>1, PauseResume
<1> HIDE DEF s
<1>14. r \in SrvTurn /\ r.st = q.st /\ r.sock = s /\ r.sent = q.sent
  BY <1>12, <1>13, SrvSock
<1> HIDE DEF r
<1>15. SrvCommitted(r, <<>>)
  BY <1>2, <1>4, <1>14, SrvCallback DEF IInv, Types
<1>16. srv' = q.st /\ pub' = s
  BY <1>14, <1>15 DEF SrvCommitted
<1>17. /\ e \in Seq(WireFrame) /\ Orderly(e)
       /\ "OPEN" \in TypesIn(e) /\ TypesIn(e) \subseteq {"OPEN", "DATA"}
       /\ DataIn(e) = size /\ AcksIn(e) = 0
  <2>1. e = q.sent
    BY <1>14
  <2> HIDE DEF e
  <2> QED
    BY <1>5, <1>12, <2>1, OpenSent
<1>18. TypesIn(<<>>) = {} /\ DataIn(<<>>) = 0 /\ AcksIn(<<>>) = 0
  BY EmptySeen
<1>19. SrvWire(e, <<>>)
  BY <1>15, <1>17, SrvWired
<1>20. /\ srv'.opened /\ srv'.sendCredit = Window - size
       /\ srv'.recvUnacked = 0 /\ ~srv'.pausedForCredit
       /\ ~srv'.sentEof /\ ~srv'.receivedEof /\ ~srv'.finished
       /\ pub'.inq = rest /\ pub'.out = pub.out /\ ~pub'.readEnded
  BY <1>2, <1>12, <1>13, <1>16
<1> HIDE DEF e
<1>21. /\ srv.sendCredit = Window /\ srv.recvUnacked = 0
       /\ ~srv.sentEof /\ ~srv.receivedEof /\ ~srv.finished
  BY <1>7 DEF S!NoStream
<1>22. SrvWord(e, <<>>)
  BY <1>2, <1>17, <1>18, <1>20, <1>21 DEF SrvWord
<1>23. SrvBytes(e, <<>>)
  <2>1. SrvPauses'
    BY <1>0, <1>5, <1>20, SMTT(40) DEF SrvPauses, SrvFacts
  <2>2. visitorSaid' = visitorSaid
    BY <1>2
  <2>3. srv'.sendCredit + visitorSaid' - Len(pub'.inq) >= Window
    BY <1>0, <1>5, <1>20, <1>21, <2>2 DEF SrvFacts
  <2>4. Len(pub'.out) < srv'.recvUnacked + HighWater
    BY <1>0, <1>20, <1>21 DEF SrvFacts
  <2> QED
    BY <1>0, <1>5, <1>17, <1>18, <1>20, <1>21, <2>1, <2>3, <2>4 DEF SrvBytes, SrvFacts
<1> QED
  BY <1>19, <1>22, <1>23, SMTT(40) DEF SrvLaw

\* Whatever frame the server takes, its turn obeys the law.
LEMMA ServerReceiveLaw ==
  ASSUME IInv, S!ServerReceive, UNCHANGED <<pVars, outsideVars>>
  PROVE  \E e, t : SrvLaw(e, t)
<1> DEFINE kind == Head(toServer).type
<1>1. kind \in {"DATA", "EOF", "ACK", "RESET"}
  <2>1. Head(toServer) \in WireFrame /\ kind # "OPEN"
    BY SrvTaken
  <2> QED
    BY <2>1 DEF WireFrame, SomeFrame
<1>2. CASE ~S!InStreams
  BY <1>2, SrvStrayLaw
<1>3. CASE S!InStreams /\ kind = "DATA"
  BY <1>3, SrvDataLaw
<1>4. CASE S!InStreams /\ kind = "EOF"
  BY <1>4, SrvEofLaw
<1>5. CASE S!InStreams /\ kind = "ACK"
  BY <1>5, SrvAckLaw
<1>6. CASE S!InStreams /\ kind = "RESET"
  BY <1>6, SrvResetLaw
<1> QED
  BY <1>1, <1>2, <1>3, <1>4, <1>5, <1>6

\* Whatever the server's end or the visitor does obeys the law of a turn.
LEMMA ServerSide ==
  ASSUME IInv,
         VisitorSend \/ VisitorEvent \/ ServerStep
  PROVE  \E e, t : SrvLaw(e, t)
<1>1. CASE VisitorSend \/ VisitorEvent
  BY <1>1, VisitorSteps
<1>3. CASE ServerStep
  <2>1. UNCHANGED <<pVars, outsideVars>>
    BY <1>3 DEF ServerStep
  <2>2. CASE S!SocketFlush
    BY <2>1, <2>2, VisitorSteps
  <2>3. CASE S!OpenStream
    BY <2>1, <2>3, OpenStreamLaw
  <2>4. CASE S!SocketData
    BY <2>1, <2>4, SocketDataLaw
  <2>5. CASE S!SocketEnd
    BY <2>1, <2>5, SocketEndLaw
  <2>6. CASE S!SocketDrain
    BY <2>1, <2>6, SocketDrainLaw
  <2>7. CASE S!SocketError
    BY <2>1, <2>7, SocketErrorLaw
  <2>8. CASE S!SocketClose
    BY <2>1, <2>8, SocketCloseLaw
  <2>9. CASE S!ServerReceive
    BY <2>1, <2>9, ServerReceiveLaw
  <2>10. CASE S!ClearCongestion
    BY <2>1, <2>10, CongestionLaw
  <2>11. CASE S!SessionDestroy
    BY <2>1, <2>11, SessionDestroyLaw
  <2> QED
    BY <1>3, <2>2, <2>3, <2>4, <2>5, <2>6, <2>7, <2>8, <2>9, <2>10, <2>11
       DEF ServerStep, S!ServerCallback
<1> QED
  BY <1>1, <1>3


-----------------------------------------------------------------------------
\* The agent's connection to the service.

\* Its own copy of the operators of AsyncioSocket.
LEMMA SameConnection ==
  ASSUME NEW c, NEW b
  PROVE  /\ P!WriteTo(c, b) = WriteTo(c, b)
         /\ P!WriteEof(c) = WriteEof(c)
         /\ P!Close(c) = Close(c)
         /\ P!CanTake(c) = CanTake(c)
         /\ P!TakeByte(c) = TakeByte(c)
         /\ P!NewConnection = NewConnection
  BY DEF WriteTo, P!WriteTo, WriteEof, P!WriteEof, Close, P!Close,
         CanTake, P!CanTake, TakeByte, P!TakeByte, LowMark, P!LowMark,
         NewConnection, P!NewConnection

\* The parts of a connection have the types of its parts.
LEMMA ConnectionTyped ==
  ASSUME NEW B, NEW c \in Connection(B)
  PROVE  /\ c.inq \in Seq(B) /\ Len(c.inq) \in Nat
         /\ c.out \in Seq(B) /\ Len(c.out) \in Nat
         /\ c.fin \in BOOLEAN /\ c.paused \in BOOLEAN /\ c.eof \in BOOLEAN
         /\ c.closing \in BOOLEAN /\ c.lost \in BOOLEAN
  BY DEF Connection

\* What the calls on a connection leave of it, as far as the stream cares.
Kept(d, c, B) == /\ d \in Connection(B)
                 /\ c.lost => d.lost
                 /\ Len(d.inq) <= Len(c.inq)

\* Its operators keep what they should.
LEMMA ConnectionSteps ==
  ASSUME NEW B, NEW c \in Connection(B)
  PROVE  /\ \A b \in Seq(B) : Kept(WriteTo(c, b), c, B)
         /\ Kept(WriteEof(c), c, B) /\ Kept(Close(c), c, B)
         /\ Kept(Lose(c), c, B) /\ Lose(c).lost
         /\ c.out # <<>> => Kept(TakeByte(c), c, B)
         /\ Kept([c EXCEPT !.fin = TRUE], c, B)
<1> DEFINE D == Seq(B)
           C == [inq : D, fin : BOOLEAN, out : D, paused : BOOLEAN,
                 eof : BOOLEAN, closing : BOOLEAN, lost : BOOLEAN, got : D]
           none == <<>>
<1>1. /\ c \in C /\ none \in D /\ C = Connection(B)
      /\ Len(c.inq) \in Nat /\ Len(none) = 0 /\ Len(c.inq) <= Len(c.inq)
      /\ \A b \in D : c.out \o b \in D
      /\ \A b : c.out # <<>> => Append(c.got, Head(c.out)) \in D /\ Tail(c.out) \in D
  <2>1. /\ c.inq \in Seq(B) /\ Len(c.inq) \in Nat
        /\ c.out \in Seq(B) /\ c.got \in Seq(B) /\ c \in Connection(B)
    BY ConnectionTyped DEF Connection
  <2>2. \A b \in Seq(B) : c.out \o b \in Seq(B)
    BY <2>1
  <2>3. c.out # <<>> => Append(c.got, Head(c.out)) \in Seq(B) /\ Tail(c.out) \in Seq(B)
    BY <2>1
  <2> QED
    BY <2>1, <2>2, <2>3 DEF Connection
<1> HIDE DEF D, none
<1>2. ASSUME NEW b \in D
      PROVE  Kept(WriteTo(c, b), c, B)
  <2> DEFINE out == c.out \o b
             p == c.paused \/ Len(out) > HighMark
             d == [c EXCEPT !.out = out, !.paused = p]
  <2>1. out \in D /\ p \in BOOLEAN
    BY <1>1
  <2>2. WriteTo(c, b) = IF c.lost THEN c ELSE d
    BY DEF WriteTo
  <2> HIDE DEF out, p
  <2>3. d \in C /\ d.lost = c.lost /\ d.inq = c.inq
    BY <1>1, <2>1
  <2> HIDE DEF d
  <2> QED
    BY <1>1, <2>2, <2>3 DEF Kept
<1>3. Kept(WriteEof(c), c, B)
  <2> DEFINE d == [c EXCEPT !.eof = TRUE]
  <2>1. WriteEof(c) = IF c.closing \/ c.lost THEN c ELSE d
    BY DEF WriteEof
  <2>2. d \in C /\ d.lost = c.lost /\ d.inq = c.inq
    BY <1>1
  <2> HIDE DEF d
  <2> QED
    BY <1>1, <2>1, <2>2 DEF Kept
<1>4. Kept(Close(c), c, B)
  <2> DEFINE d == [c EXCEPT !.closing = TRUE, !.inq = none]
  <2>1. d \in C /\ d.lost = c.lost /\ d.inq = none
    BY <1>1
  <2>2. Close(c) = d
    BY DEF Close, none
  <2> HIDE DEF d
  <2> QED
    BY <1>1, <2>1, <2>2 DEF Kept
<1>5. Kept(Lose(c), c, B) /\ Lose(c).lost
  <2> DEFINE d == [c EXCEPT !.lost = TRUE, !.inq = none, !.out = none]
  <2>1. d \in C /\ d.lost /\ d.inq = none
    BY <1>1
  <2>2. Lose(c) = d
    BY DEF Lose, none
  <2> HIDE DEF d
  <2> QED
    BY <1>1, <2>1, <2>2 DEF Kept
<1>6. c.out # <<>> => Kept(TakeByte(c), c, B)
  <2> SUFFICES ASSUME c.out # <<>> PROVE Kept(TakeByte(c), c, B)
    OBVIOUS
  <2> DEFINE got == Append(c.got, Head(c.out))
             out == Tail(c.out)
             p == c.paused /\ Len(c.out) - 1 > LowMark
             d == [c EXCEPT !.got = got, !.out = out, !.paused = p]
  <2>1. got \in D /\ out \in D /\ p \in BOOLEAN
    BY <1>1
  <2>2. TakeByte(c) = d
    BY DEF TakeByte
  <2> HIDE DEF got, out, p
  <2>3. d \in C /\ d.lost = c.lost /\ d.inq = c.inq
    BY <1>1, <2>1
  <2> HIDE DEF d
  <2> QED
    BY <1>1, <2>2, <2>3 DEF Kept
<1>7. Kept([c EXCEPT !.fin = TRUE], c, B)
  <2> DEFINE d == [c EXCEPT !.fin = TRUE]
  <2>1. d \in C /\ d.lost = c.lost /\ d.inq = c.inq
    BY <1>1
  <2> HIDE DEF d
  <2> QED
    BY <1>1, <2>1 DEF Kept
<1> QED
  BY <1>2, <1>3, <1>4, <1>5, <1>6, <1>7 DEF D

\* A rewrite yields bytes again.
LEMMA Rewritten ==
  ASSUME NEW head \in Seq(Bytes)
  PROVE  P!RewriteHostHeader(head) \in Seq(Bytes)
<1>1. TargetBytes \in Seq(Bytes)
  <2>1. TargetBytes \in Seq(Nat)
    BY PyBridgeAssumption
  <2>2. /\ Len(TargetBytes) \in Nat
        /\ DOMAIN TargetBytes = 1..Len(TargetBytes)
        /\ TargetBytes = [i \in 1..Len(TargetBytes) |-> TargetBytes[i]]
    BY <2>1
  <2>3. \A i \in 1..Len(TargetBytes) : TargetBytes[i] \in Bytes
    BY <2>2 DEF Bytes, ToSet
  <2> QED
    BY <2>2, <2>3
<1> DEFINE i == P!SelectInSeq(head, LAMBDA b : b = HostByte)
           I == {j \in 1..Len(head) : head[j] = HostByte}
<1>2. Len(head) \in Nat /\ DOMAIN head = 1..Len(head)
  OBVIOUS
<1>3. i = IF I # {} THEN CHOOSE j \in I : \A k \in I : j <= k ELSE 0
  BY DEF P!SelectInSeq, P!Min
<1>4. i \in 0..Len(head)
  <2>1. I # {} => (CHOOSE j \in I : \A k \in I : j <= k) \in I
    <3>1. I \in SUBSET Nat
      BY <1>2
    <3> HIDE DEF I
    <3> QED
      BY <3>1, LeastNumber
  <2> HIDE DEF i
  <2> QED
    BY <1>2, <1>3, <2>1
<1>5. P!RewriteHostHeader(head)
        = IF i = 0 THEN head
          ELSE SubSeq(head, 1, i - 1) \o TargetBytes \o SubSeq(head, i + 1, Len(head))
  BY DEF P!RewriteHostHeader
<1> HIDE DEF i
<1>6. CASE i = 0
  BY <1>5, <1>6
<1>7. CASE i # 0
  <2>1. i \in 1..Len(head)
    BY <1>2, <1>4, <1>7
  <2> DEFINE before == SubSeq(head, 1, i - 1)
             after == SubSeq(head, i + 1, Len(head))
  <2>2. before \in Seq(Bytes)
    BY <1>2, <2>1
  <2>3. after \in Seq(Bytes)
    <3> DEFINE m == i + 1
    <3>1. m \in 1..(Len(head) + 1)
      BY <1>2, <2>1
    <3> HIDE DEF m
    <3>2. SubSeq(head, m, Len(head)) \in Seq(Bytes)
      BY <3>1, SubSeqTyped
    <3> QED
      BY <3>2 DEF m
  <2>4. P!RewriteHostHeader(head) = before \o TargetBytes \o after
    BY <1>5, <1>7
  <2> HIDE DEF before, after
  <2>5. before \o TargetBytes \in Seq(Bytes)
    BY <1>1, <2>2, ConcatTyped
  <2>6. before \o TargetBytes \o after \in Seq(Bytes)
    BY <2>3, <2>5, ConcatTyped
  <2> QED
    BY <2>4, <2>6
<1> QED
  BY <1>6, <1>7

-----------------------------------------------------------------------------
\* The handlers of the agent's class Stream.

\* What a handler of the agent has in hand (see PyStream).
PyTurn == [st : PyType, sock : Connection(Bytes), sent : Seq(WireFrame)]

\* A stream with other fields is one.
LEMMA PyFields ==
  ASSUME NEW s \in PyType
  PROVE  /\ \A x \in {"none", "dialling", "pumps", "over"} :
               [s EXCEPT !.run = x] \in PyType
         /\ \A x \in {"off", "get", "drain", "eof", "failed", "over"} :
               [s EXCEPT !.toLocal = x] \in PyType
         /\ \A x \in {"off", "read", "over"} : [s EXCEPT !.toServer = x] \in PyType
         /\ \A x \in Seq(WireFrame) : [s EXCEPT !.inbox = x] \in PyType
         /\ \A x \in Nat : [s EXCEPT !.owed = x] \in PyType
         /\ \A x \in Int : [s EXCEPT !.sendCredit = x] \in PyType
         /\ [s EXCEPT !.finished = TRUE] \in PyType
         /\ \A x \in Seq(Bytes) : [s EXCEPT !.headBuf = x] \in PyType
         /\ [s EXCEPT !.headDone = TRUE] \in PyType
<1> DEFINE F == Seq(WireFrame)
           D == Seq(Bytes)
           T == [run : {"none", "dialling", "pumps", "over"},
                 toLocal : {"off", "get", "drain", "eof", "failed", "over"},
                 toServer : {"off", "read", "over"},
                 inbox : F, owed : Nat, sendCredit : Int,
                 finished : BOOLEAN, headBuf : D, headDone : BOOLEAN,
                 rewriteHost : BOOLEAN]
<1>1. s \in T /\ T = PyType
  BY DEF PyType
<1> HIDE DEF F, D
<1>2. /\ \A x \in {"none", "dialling", "pumps", "over"} : [s EXCEPT !.run = x] \in T
      /\ \A x \in {"off", "get", "drain", "eof", "failed", "over"} :
            [s EXCEPT !.toLocal = x] \in T
      /\ \A x \in {"off", "read", "over"} : [s EXCEPT !.toServer = x] \in T
  BY <1>1
<1>3. /\ \A x \in F : [s EXCEPT !.inbox = x] \in T
      /\ \A x \in Nat : [s EXCEPT !.owed = x] \in T
      /\ \A x \in Int : [s EXCEPT !.sendCredit = x] \in T
  BY <1>1
<1>4. /\ [s EXCEPT !.finished = TRUE] \in T
      /\ \A x \in D : [s EXCEPT !.headBuf = x] \in T
      /\ [s EXCEPT !.headDone = TRUE] \in T
  BY <1>1
<1> HIDE DEF T
<1> QED
  BY <1>1, <1>2, <1>3, <1>4 DEF F, D

\* A turn of other parts is one.
LEMMA PyParts ==
  ASSUME NEW h \in PyTurn
  PROVE  /\ h.st \in PyType /\ h.sock \in Connection(Bytes) /\ h.sent \in Seq(WireFrame)
         /\ \A s \in PyType : LET r == [h EXCEPT !.st = s]
                              IN  r \in PyTurn /\ r.st = s /\ r.sock = h.sock /\ r.sent = h.sent
         /\ \A c \in Connection(Bytes) :
               LET r == [h EXCEPT !.sock = c]
               IN  r \in PyTurn /\ r.st = h.st /\ r.sock = c /\ r.sent = h.sent
         /\ \A f \in WireFrame :
               LET r == P!Send(h, f)
               IN  /\ r \in PyTurn /\ r.st = h.st /\ r.sock = h.sock
                   /\ r.sent = Append(h.sent, f)
<1> DEFINE A == PyType
           B == Connection(Bytes)
           C == Seq(WireFrame)
           T == [st : A, sock : B, sent : C]
<1>1. h \in T /\ T = PyTurn /\ (\A f \in WireFrame : Append(h.sent, f) \in C)
  BY DEF PyTurn
<1> HIDE DEF A, B, C
<1>2. h.st \in A /\ h.sock \in B /\ h.sent \in C
  BY <1>1
<1>3. \A s \in A : LET r == [h EXCEPT !.st = s]
                   IN  r \in T /\ r.st = s /\ r.sock = h.sock /\ r.sent = h.sent
  BY <1>1
<1>4. \A c \in B : LET r == [h EXCEPT !.sock = c]
                   IN  r \in T /\ r.st = h.st /\ r.sock = c /\ r.sent = h.sent
  BY <1>1
<1>5. \A f \in WireFrame :
         LET r == P!Send(h, f)
         IN  /\ r \in T /\ r.st = h.st /\ r.sock = h.sock
             /\ r.sent = Append(h.sent, f)
  BY <1>1 DEF P!Send
<1> QED
  BY <1>1, <1>2, <1>3, <1>4, <1>5 DEF A, B, C

\* finish
LEMMA PyFinish ==
  ASSUME NEW h \in PyTurn
  PROVE  LET r == P!Finish(h)
         IN  /\ r \in PyTurn /\ r.sent = h.sent
             /\ \/ h.st.finished /\ r.st = h.st /\ r.sock = h.sock
                \/ /\ ~h.st.finished
                   /\ h.st.run # "pumps" /\ r.sock = h.sock
                   /\ r.st = [h.st EXCEPT !.finished = TRUE]
                \/ /\ ~h.st.finished
                   /\ h.st.run = "pumps" /\ r.sock = Close(h.sock)
                   /\ r.st = [h.st EXCEPT !.finished = TRUE, !.run = "over",
                                          !.toLocal = "over", !.toServer = "over"]
<1> DEFINE h1 == [h EXCEPT !.st = [h.st EXCEPT !.finished = TRUE]]
           h2 == [h1 EXCEPT !.st = [h1.st EXCEPT !.run = "over"]]
           h3 == [h2 EXCEPT !.st = [h2.st EXCEPT !.toLocal = "over"]]
           h4 == [h3 EXCEPT !.st = [h3.st EXCEPT !.toServer = "over"]]
           h5 == [h4 EXCEPT !.sock = P!Close(h4.sock)]
<1>1. P!Finish(h) = IF h.st.finished THEN h ELSE IF h.st.run # "pumps" THEN h1 ELSE h5
  BY DEF P!Finish
<1>2. /\ h1 \in PyTurn /\ h1.st = [h.st EXCEPT !.finished = TRUE]
      /\ h1.sock = h.sock /\ h1.sent = h.sent
  BY PyParts, PyFields
<1> HIDE DEF h1
<1>3. /\ h2 \in PyTurn /\ h2.st = [h1.st EXCEPT !.run = "over"]
      /\ h2.sock = h.sock /\ h2.sent = h.sent
  BY <1>2, PyParts, PyFields
<1> HIDE DEF h2
<1>4. /\ h3 \in PyTurn /\ h3.st = [h2.st EXCEPT !.toLocal = "over"]
      /\ h3.sock = h.sock /\ h3.sent = h.sent
  BY <1>3, PyParts, PyFields
<1> HIDE DEF h3
<1>5. /\ h4 \in PyTurn /\ h4.st = [h3.st EXCEPT !.toServer = "over"]
      /\ h4.sock = h.sock /\ h4.sent = h.sent
  BY <1>4, PyParts, PyFields
<1> HIDE DEF h4
<1>6. /\ h5 \in PyTurn /\ h5.st = h4.st /\ h5.sock = Close(h.sock) /\ h5.sent = h.sent
  <2>1. P!Close(h4.sock) = Close(h.sock)
    BY <1>5, SameConnection
  <2>2. Close(h.sock) \in Connection(Bytes)
    BY PyParts, ConnectionSteps DEF Kept
  <2> DEFINE c == P!Close(h4.sock)
  <2>3. c \in Connection(Bytes) /\ c = Close(h.sock)
    BY <2>1, <2>2
  <2> HIDE DEF c
  <2>4. LET r == [h4 EXCEPT !.sock = c]
        IN  r \in PyTurn /\ r.st = h4.st /\ r.sock = c /\ r.sent = h4.sent
    BY <1>5, <2>3, PyParts
  <2> QED
    BY <1>5, <2>3, <2>4 DEF c
<1>7. h5.st = [h.st EXCEPT !.finished = TRUE, !.run = "over",
                          !.toLocal = "over", !.toServer = "over"]
  BY <1>2, <1>3, <1>4, <1>5, <1>6
<1> HIDE DEF h5
<1>8. h.st.finished \in BOOLEAN
  BY PyParts DEF PyType
<1> QED
  BY <1>1, <1>2, <1>6, <1>7, <1>8

\* The acknowledgement of what is owed.
LEMMA PyAcknowledge ==
  ASSUME NEW h \in PyTurn, h.st.owed # 0
  PROVE  LET r == P!Acknowledge(h)
         IN  /\ r \in PyTurn /\ r.sock = h.sock
             /\ r.st = [h.st EXCEPT !.owed = 0, !.toLocal = "get"]
             /\ r.sent = Append(h.sent, AckFrame(h.st.owed))
<1>1. h.st \in PyType /\ h.st.owed \in Nat \ {0}
  BY PyParts DEF PyType
<1> DEFINE f == P!AckFrame(h.st.owed)
           h1 == P!Send(h, f)
           h2 == [h1 EXCEPT !.st = [h1.st EXCEPT !.owed = 0]]
           h3 == [h2 EXCEPT !.st = [h2.st EXCEPT !.toLocal = "get"]]
<1>2. P!Acknowledge(h) = h3
  BY DEF P!Acknowledge
<1>3. f \in WireFrame /\ f = AckFrame(h.st.owed)
  BY <1>1, FramesTyped, SameOperators
<1> HIDE DEF f
<1>4. h1 \in PyTurn /\ h1.st = h.st /\ h1.sock = h.sock /\ h1.sent = Append(h.sent, f)
  BY <1>3, PyParts
<1> HIDE DEF h1
<1>5. /\ h2 \in PyTurn /\ h2.st = [h1.st EXCEPT !.owed = 0]
      /\ h2.sock = h1.sock /\ h2.sent = h1.sent
  BY <1>1, <1>4, PyParts, PyFields
<1> HIDE DEF h2
<1>6. /\ h3 \in PyTurn /\ h3.st = [h2.st EXCEPT !.toLocal = "get"]
      /\ h3.sock = h2.sock /\ h3.sent = h2.sent
  BY <1>5, PyParts, PyFields
<1> HIDE DEF h3
<1> QED
  BY <1>2, <1>3, <1>4, <1>5, <1>6

\* What follows `await drain()`, after data.
LEMMA PyAfterData ==
  ASSUME NEW h \in PyTurn, h.st.owed # 0
  PROVE  LET r == P!AfterDrain(h, "drain", P!Acknowledge)
         IN  /\ r \in PyTurn /\ r.sock = h.sock
             /\ \/ /\ h.sock.lost /\ r.sent = h.sent
                   /\ r.st = [h.st EXCEPT !.toLocal = "failed"]
                \/ /\ r.sent = h.sent
                   /\ r.st = [h.st EXCEPT !.toLocal = "drain"]
                \/ /\ r.st = [h.st EXCEPT !.owed = 0, !.toLocal = "get"]
                   /\ r.sent = Append(h.sent, AckFrame(h.st.owed))
<1> DEFINE failed == [h EXCEPT !.st = [h.st EXCEPT !.toLocal = "failed"]]
           waits == [h EXCEPT !.st = [h.st EXCEPT !.toLocal = "drain"]]
           said == P!Acknowledge(h)
           r == P!AfterDrain(h, "drain", P!Acknowledge)
<1>1. r = IF h.sock.lost THEN failed ELSE IF h.sock.paused THEN waits ELSE said
  BY SMTT(60) DEF P!AfterDrain, PyTurn
<1>2. /\ [h.st EXCEPT !.toLocal = "failed"] \in PyType
      /\ [h.st EXCEPT !.toLocal = "drain"] \in PyType
  BY PyParts, PyFields
<1>3. /\ failed \in PyTurn /\ failed.st = [h.st EXCEPT !.toLocal = "failed"]
      /\ failed.sock = h.sock /\ failed.sent = h.sent
      /\ waits \in PyTurn /\ waits.st = [h.st EXCEPT !.toLocal = "drain"]
      /\ waits.sock = h.sock /\ waits.sent = h.sent
  BY <1>2, PyParts
<1>4. /\ said \in PyTurn /\ said.sock = h.sock
      /\ said.st = [h.st EXCEPT !.owed = 0, !.toLocal = "get"]
      /\ said.sent = Append(h.sent, AckFrame(h.st.owed))
  BY PyAcknowledge
<1> HIDE DEF failed, waits, said, r
<1>5. /\ r \in PyTurn /\ r.sock = h.sock
      /\ \/ /\ h.sock.lost /\ r.sent = h.sent
            /\ r.st = [h.st EXCEPT !.toLocal = "failed"]
         \/ /\ r.sent = h.sent
            /\ r.st = [h.st EXCEPT !.toLocal = "drain"]
         \/ /\ r.st = [h.st EXCEPT !.owed = 0, !.toLocal = "get"]
            /\ r.sent = Append(h.sent, AckFrame(h.st.owed))
  BY <1>1, <1>3, <1>4
<1> QED
  BY <1>5 DEF r

\* The end of stream is passed on.
LEMMA PyHalfClose ==
  ASSUME NEW h \in PyTurn
  PROVE  LET r == P!HalfClose(h)
         IN  /\ r \in PyTurn /\ Kept(r.sock, h.sock, Bytes)
             /\ r.sent = h.sent
             /\ r.st = [h.st EXCEPT !.toLocal = "over"]
<1> DEFINE c == P!WriteEof(h.sock)
           h1 == [h EXCEPT !.sock = c]
           h2 == [h1 EXCEPT !.st = [h1.st EXCEPT !.toLocal = "over"]]
<1>1. P!HalfClose(h) = h2
  BY DEF P!HalfClose
<1>2. c = WriteEof(h.sock) /\ Kept(c, h.sock, Bytes) /\ c \in Connection(Bytes)
  <2>1. h.sock \in Connection(Bytes)
    BY PyParts
  <2>2. Kept(WriteEof(h.sock), h.sock, Bytes)
    BY <2>1, ConnectionSteps
  <2>3. c = WriteEof(h.sock)
    BY SameConnection
  <2> HIDE DEF c
  <2> QED
    BY <2>2, <2>3 DEF Kept
<1> HIDE DEF c
<1>3. h1 \in PyTurn /\ h1.st = h.st /\ h1.sock = c /\ h1.sent = h.sent
  BY <1>2, PyParts
<1> HIDE DEF h1
<1>4. /\ h2 \in PyTurn /\ h2.st = [h1.st EXCEPT !.toLocal = "over"]
      /\ h2.sock = c /\ h2.sent = h.sent
  BY <1>3, PyParts, PyFields
<1> HIDE DEF h2
<1> QED
  BY <1>1, <1>2, <1>3, <1>4

\* What follows `await drain()`, before an end of stream.
LEMMA PyAfterHead ==
  ASSUME NEW h \in PyTurn
  PROVE  LET r == P!AfterDrain(h, "eof", P!HalfClose)
         IN  /\ r \in PyTurn /\ Kept(r.sock, h.sock, Bytes)
             /\ r.sent = h.sent
             /\ \/ h.sock.lost /\ r.st = [h.st EXCEPT !.toLocal = "failed"]
                \/ r.st = [h.st EXCEPT !.toLocal = "eof"]
                \/ r.st = [h.st EXCEPT !.toLocal = "over"]
<1> DEFINE failed == [h EXCEPT !.st = [h.st EXCEPT !.toLocal = "failed"]]
           waits == [h EXCEPT !.st = [h.st EXCEPT !.toLocal = "eof"]]
           closes == P!HalfClose(h)
           r == P!AfterDrain(h, "eof", P!HalfClose)
<1>1. r = IF h.sock.lost THEN failed ELSE IF h.sock.paused THEN waits ELSE closes
  BY SMTT(60) DEF P!AfterDrain, PyTurn
<1>2. /\ [h.st EXCEPT !.toLocal = "failed"] \in PyType
      /\ [h.st EXCEPT !.toLocal = "eof"] \in PyType
  BY PyParts, PyFields
<1>3. /\ failed \in PyTurn /\ failed.st = [h.st EXCEPT !.toLocal = "failed"]
      /\ failed.sock = h.sock /\ failed.sent = h.sent
      /\ waits \in PyTurn /\ waits.st = [h.st EXCEPT !.toLocal = "eof"]
      /\ waits.sock = h.sock /\ waits.sent = h.sent
  BY <1>2, PyParts
<1>4. /\ closes \in PyTurn /\ Kept(closes.sock, h.sock, Bytes)
      /\ closes.st = [h.st EXCEPT !.toLocal = "over"] /\ closes.sent = h.sent
  BY PyHalfClose
<1>5. Kept(h.sock, h.sock, Bytes)
  BY PyParts, ConnectionTyped DEF Kept
<1> HIDE DEF failed, waits, closes, r
<1>6. /\ r \in PyTurn /\ Kept(r.sock, h.sock, Bytes)
      /\ r.sent = h.sent
      /\ \/ h.sock.lost /\ r.st = [h.st EXCEPT !.toLocal = "failed"]
         \/ r.st = [h.st EXCEPT !.toLocal = "eof"]
         \/ r.st = [h.st EXCEPT !.toLocal = "over"]
  BY <1>1, <1>3, <1>4, <1>5
<1> QED
  BY <1>6 DEF r

\* A held head goes out rewritten.
LEMMA PyReleaseHead ==
  ASSUME NEW h \in PyTurn, NEW head \in Seq(Bytes)
  PROVE  LET r == P!ReleaseHead(h, head)
         IN  /\ r \in PyTurn /\ Kept(r.sock, h.sock, Bytes)
             /\ r.sent = h.sent
             /\ r.st = [h.st EXCEPT !.headBuf = <<>>, !.headDone = TRUE]
<1> DEFINE h1 == [h EXCEPT !.st = [h.st EXCEPT !.headBuf = <<>>]]
           h2 == [h1 EXCEPT !.st = [h1.st EXCEPT !.headDone = TRUE]]
           c == P!WriteTo(h2.sock, P!RewriteHostHeader(head))
           h3 == [h2 EXCEPT !.sock = c]
<1>1. P!ReleaseHead(h, head) = h3
  BY DEF P!ReleaseHead
<1>2. h.st \in PyType /\ h.sock \in Connection(Bytes) /\ <<>> \in Seq(Bytes)
  BY PyParts
<1>3. /\ h1 \in PyTurn /\ h1.st = [h.st EXCEPT !.headBuf = <<>>]
      /\ h1.sock = h.sock /\ h1.sent = h.sent
  BY <1>2, PyParts, PyFields
<1> HIDE DEF h1
<1>4. /\ h2 \in PyTurn /\ h2.st = [h1.st EXCEPT !.headDone = TRUE]
      /\ h2.sock = h.sock /\ h2.sent = h.sent
  BY <1>3, PyParts, PyFields
<1> HIDE DEF h2
<1>5. Kept(c, h.sock, Bytes) /\ c \in Connection(Bytes)
  <2> DEFINE b == P!RewriteHostHeader(head)
  <2>1. b \in Seq(Bytes)
    BY Rewritten
  <2>2. c = WriteTo(h.sock, b)
    BY <1>4, SameConnection
  <2> HIDE DEF b, c
  <2>3. Kept(WriteTo(h.sock, b), h.sock, Bytes)
    BY <1>2, <2>1, ConnectionSteps
  <2> QED
    BY <2>2, <2>3 DEF Kept
<1> HIDE DEF c
<1>6. h3 \in PyTurn /\ h3.st = h2.st /\ h3.sock = c /\ h3.sent = h2.sent
  BY <1>4, <1>5, PyParts
<1> HIDE DEF h3
<1> QED
  BY <1>1, <1>3, <1>4, <1>5, <1>6

\* One item of the inbox with n bytes has been taken: they wait for the drain(),
\* or are acknowledged, or it raised.
PyAte(r, h, n) ==
    /\ r \in PyTurn /\ Kept(r.sock, h.sock, Bytes)
    /\ r.st.run = h.st.run /\ r.st.toServer = h.st.toServer
    /\ r.st.inbox = h.st.inbox /\ r.st.sendCredit = h.st.sendCredit
    /\ r.st.finished = h.st.finished /\ r.st.rewriteHost = h.st.rewriteHost
    /\ \/ /\ r.st.toLocal = "failed" /\ r.sock.lost
          /\ r.st.owed = n /\ r.sent = h.sent
       \/ /\ r.st.toLocal = "drain"
          /\ r.st.owed = n /\ r.sent = h.sent
       \/ /\ r.st.toLocal = "get"
          /\ r.st.owed = 0 /\ r.sent = Append(h.sent, AckFrame(n))

\* The drain() that follows data.
LEMMA PyDrainsData ==
  ASSUME NEW h \in PyTurn, h.st.owed # 0
  PROVE  PyAte(P!AfterDrain(h, "drain", P!Acknowledge), h, h.st.owed)
<1> DEFINE r == P!AfterDrain(h, "drain", P!Acknowledge)
<1>1. /\ r \in PyTurn /\ r.sock = h.sock
      /\ \/ /\ h.sock.lost /\ r.sent = h.sent
            /\ r.st = [h.st EXCEPT !.toLocal = "failed"]
         \/ /\ r.sent = h.sent
            /\ r.st = [h.st EXCEPT !.toLocal = "drain"]
         \/ /\ r.st = [h.st EXCEPT !.owed = 0, !.toLocal = "get"]
            /\ r.sent = Append(h.sent, AckFrame(h.st.owed))
  BY PyAfterData
<1> HIDE DEF r
<1>2. h.st \in PyType
  BY PyParts
<1>3. Kept(r.sock, h.sock, Bytes)
  BY <1>1, PyParts, ConnectionTyped DEF Kept
<1>4. /\ r.st.run = h.st.run /\ r.st.toServer = h.st.toServer
      /\ r.st.inbox = h.st.inbox /\ r.st.sendCredit = h.st.sendCredit
      /\ r.st.finished = h.st.finished /\ r.st.rewriteHost = h.st.rewriteHost
  BY <1>1, <1>2 DEF PyType
<1>5. \/ /\ r.st.toLocal = "failed" /\ r.sock.lost
         /\ r.st.owed = h.st.owed /\ r.sent = h.sent
      \/ /\ r.st.toLocal = "drain"
         /\ r.st.owed = h.st.owed /\ r.sent = h.sent
      \/ /\ r.st.toLocal = "get"
         /\ r.st.owed = 0 /\ r.sent = Append(h.sent, AckFrame(h.st.owed))
  BY <1>1, <1>2 DEF PyType
<1>6. PyAte(r, h, h.st.owed)
  BY <1>1, <1>3, <1>4, <1>5 DEF PyAte
<1> QED
  BY <1>6 DEF r

\* Taken after what an earlier part of the same step wrote.
LEMMA PyKeptOn ==
  ASSUME NEW r, NEW g, NEW h, NEW n, PyAte(r, g, n), h.st \in PyType,
         Kept(g.sock, h.sock, Bytes), h.sock \in Connection(Bytes), g.sent = h.sent,
         \/ g.st = [h.st EXCEPT !.owed = n]
         \/ g.st = [h.st EXCEPT !.owed = n, !.headBuf = <<>>, !.headDone = TRUE]
  PROVE  PyAte(r, h, n)
<1>1. /\ g.st.run = h.st.run /\ g.st.toServer = h.st.toServer
      /\ g.st.inbox = h.st.inbox /\ g.st.sendCredit = h.st.sendCredit
      /\ g.st.finished = h.st.finished /\ g.st.rewriteHost = h.st.rewriteHost
  BY DEF PyType
<1>2. Kept(r.sock, h.sock, Bytes)
  <2>1. /\ Len(r.sock.inq) \in Nat /\ Len(g.sock.inq) \in Nat /\ Len(h.sock.inq) \in Nat
    BY ConnectionTyped DEF PyAte, Kept
  <2> QED
    BY <2>1 DEF PyAte, Kept
<1> QED
  BY <1>1, <1>2 DEF PyAte

\* One item with data.
LEMMA PyOnItem ==
  ASSUME NEW h \in PyTurn, NEW payload \in Seq(Bytes), payload # <<>>
  PROVE  PyAte(P!OnItem(h, payload), h, Len(payload))
<1> DEFINE head == h.st.headBuf \o payload
           got == [h EXCEPT !.st = [h.st EXCEPT !.owed = Len(payload)]]
           n == Len(payload)
           w == [got EXCEPT !.sock = P!WriteTo(got.sock, payload)]
           wrote == P!AfterDrain(w, "drain", P!Acknowledge)
           g == P!ReleaseHead(got, head)
           released == P!AfterDrain(g, "drain", P!Acknowledge)
           k == [got EXCEPT !.st = [got.st EXCEPT !.headBuf = head]]
           held == P!Acknowledge(k)
<1>1. P!OnItem(h, payload) = IF h.st.headDone THEN wrote
                             ELSE IF P!HeadComplete(head) THEN released ELSE held
  BY DEF P!OnItem, P!HoldBack
<1>2. /\ h.st \in PyType /\ h.sock \in Connection(Bytes)
      /\ h.st.headBuf \in Seq(Bytes) /\ head \in Seq(Bytes)
      /\ n \in Nat /\ n # 0
  BY PyParts, ConcatTyped DEF PyType
<1> HIDE DEF n
<1>3. /\ got \in PyTurn /\ got.st = [h.st EXCEPT !.owed = n]
      /\ got.sock = h.sock /\ got.sent = h.sent
  BY <1>2, PyParts, PyFields DEF n
<1> HIDE DEF got, head
<1>4. got.st \in PyType /\ got.st.owed = n
  <2>1. got.st \in PyType
    BY <1>3, PyParts
  <2>2. got.st.owed = n
    BY <1>2, <1>3 DEF PyType
  <2> QED
    BY <2>1, <2>2
<1>5. PyAte(wrote, h, n)
  <2> DEFINE c == P!WriteTo(got.sock, payload)
  <2>1. Kept(c, h.sock, Bytes) /\ c \in Connection(Bytes)
    <3>1. c = WriteTo(h.sock, payload)
      BY <1>3, SameConnection
    <3>2. Kept(WriteTo(h.sock, payload), h.sock, Bytes)
      BY <1>2, ConnectionSteps
    <3> HIDE DEF c
    <3> QED
      BY <3>1, <3>2 DEF Kept
  <2> HIDE DEF c
  <2>2. w \in PyTurn /\ w.st = got.st /\ w.sock = c /\ w.sent = h.sent
    BY <1>3, <2>1, PyParts DEF c
  <2> HIDE DEF w
  <2>3. PyAte(wrote, w, n)
    BY <1>2, <1>4, <2>2, PyDrainsData
  <2> HIDE DEF wrote
  <2>4. w.st = [h.st EXCEPT !.owed = n]
    BY <1>3, <2>2
  <2> QED
    BY <1>2, <2>1, <2>2, <2>3, <2>4, PyKeptOn
<1>6. PyAte(released, h, n)
  <2>1. /\ g \in PyTurn /\ Kept(g.sock, h.sock, Bytes) /\ g.sent = h.sent
        /\ g.st = [got.st EXCEPT !.headBuf = <<>>, !.headDone = TRUE]
    BY <1>2, <1>3, PyReleaseHead
  <2> HIDE DEF g
  <2>2. g.st.owed = n
    BY <1>4, <2>1 DEF PyType
  <2>3. PyAte(released, g, n)
    BY <1>2, <2>1, <2>2, PyDrainsData
  <2> HIDE DEF released
  <2>4. g.st = [h.st EXCEPT !.owed = n, !.headBuf = <<>>, !.headDone = TRUE]
    BY <1>3, <2>1
  <2> QED
    BY <1>2, <2>1, <2>3, <2>4, PyKeptOn
<1>7. PyAte(held, h, n)
  <2>1. /\ k \in PyTurn /\ k.st = [got.st EXCEPT !.headBuf = head]
        /\ k.sock = h.sock /\ k.sent = h.sent
    <3> DEFINE s == [got.st EXCEPT !.headBuf = head]
    <3>1. s \in PyType
      BY <1>2, <1>4, PyFields
    <3> HIDE DEF s
    <3>2. /\ k \in PyTurn /\ k.st = s /\ k.sock = got.sock /\ k.sent = got.sent
      BY <1>3, <3>1, PyParts DEF s
    <3> QED
      BY <1>3, <3>2 DEF s
  <2> HIDE DEF k
  <2>2. k.st.owed = n
    BY <1>4, <2>1 DEF PyType
  <2>3. /\ held \in PyTurn /\ held.sock = k.sock
        /\ held.st = [k.st EXCEPT !.owed = 0, !.toLocal = "get"]
        /\ held.sent = Append(k.sent, AckFrame(n))
    BY <1>2, <2>1, <2>2, PyAcknowledge
  <2> HIDE DEF held
  <2>4. held.st = [h.st EXCEPT !.owed = n, !.headBuf = head, !.owed = 0, !.toLocal = "get"]
    BY <1>3, <2>1, <2>3
  <2>5. Kept(held.sock, h.sock, Bytes)
    BY <1>2, <2>1, <2>3, ConnectionTyped DEF Kept
  <2> QED
    BY <1>2, <2>1, <2>3, <2>4, <2>5 DEF PyAte, PyType
<1> QED
  BY <1>1, <1>5, <1>6, <1>7 DEF n

\* The end of stream of the inbox has been taken.
PyEnded(r, h) ==
    /\ r \in PyTurn /\ Kept(r.sock, h.sock, Bytes) /\ r.sent = h.sent
    /\ r.st.run = h.st.run /\ r.st.toServer = h.st.toServer
    /\ r.st.inbox = h.st.inbox /\ r.st.sendCredit = h.st.sendCredit
    /\ r.st.finished = h.st.finished /\ r.st.rewriteHost = h.st.rewriteHost
    /\ r.st.owed = h.st.owed
    /\ \/ r.st.toLocal = "failed" /\ r.sock.lost
       \/ r.st.toLocal \in {"eof", "over"}

\* The drain() that follows the head an end of stream released.
LEMMA PyDrainsHead ==
  ASSUME NEW h \in PyTurn
  PROVE  PyEnded(P!AfterDrain(h, "eof", P!HalfClose), h)
<1> DEFINE r == P!AfterDrain(h, "eof", P!HalfClose)
<1>1. /\ r \in PyTurn /\ Kept(r.sock, h.sock, Bytes)
      /\ r.sent = h.sent
      /\ \/ h.sock.lost /\ r.st = [h.st EXCEPT !.toLocal = "failed"]
         \/ r.st = [h.st EXCEPT !.toLocal = "eof"]
         \/ r.st = [h.st EXCEPT !.toLocal = "over"]
  BY PyAfterHead
<1> HIDE DEF r
<1>2. h.st \in PyType
  BY PyParts
<1>3. /\ r.st.run = h.st.run /\ r.st.toServer = h.st.toServer
      /\ r.st.inbox = h.st.inbox /\ r.st.sendCredit = h.st.sendCredit
      /\ r.st.finished = h.st.finished /\ r.st.rewriteHost = h.st.rewriteHost
      /\ r.st.owed = h.st.owed
  BY <1>1, <1>2 DEF PyType
<1>4. \/ r.st.toLocal = "failed" /\ r.sock.lost
      \/ r.st.toLocal \in {"eof", "over"}
  BY <1>1, <1>2 DEF PyType, Kept
<1> QED
  BY <1>1, <1>3, <1>4 DEF PyEnded, r

\* An end of stream.
LEMMA PyOnEofItem ==
  ASSUME NEW h \in PyTurn
  PROVE  PyEnded(P!OnEofItem(h), h)
<1> DEFINE g == P!ReleaseHead(h, h.st.headBuf)
           late == P!AfterDrain(g, "eof", P!HalfClose)
           now == P!HalfClose(h)
<1>1. P!OnEofItem(h) = IF h.st.headBuf = <<>> THEN now ELSE late
  BY DEF P!OnEofItem
<1>2. h.st \in PyType /\ h.st.headBuf \in Seq(Bytes) /\ h.sock \in Connection(Bytes)
  BY PyParts DEF PyType
<1>3. PyEnded(now, h)
  <2>1. /\ now \in PyTurn /\ Kept(now.sock, h.sock, Bytes)
        /\ now.sent = h.sent
        /\ now.st = [h.st EXCEPT !.toLocal = "over"]
    BY PyHalfClose
  <2> HIDE DEF now
  <2> QED
    BY <1>2, <2>1 DEF PyEnded, PyType
<1>4. PyEnded(late, h)
  <2>1. /\ g \in PyTurn /\ Kept(g.sock, h.sock, Bytes) /\ g.sent = h.sent
        /\ g.st = [h.st EXCEPT !.headBuf = <<>>, !.headDone = TRUE]
    BY <1>2, PyReleaseHead
  <2> HIDE DEF g
  <2>2. PyEnded(late, g)
    BY <2>1, PyDrainsHead
  <2> HIDE DEF late
  <2>3. Kept(late.sock, h.sock, Bytes)
    <3>1. /\ Len(late.sock.inq) \in Nat /\ Len(g.sock.inq) \in Nat
          /\ Len(h.sock.inq) \in Nat
      BY <1>2, <2>1, <2>2, ConnectionTyped DEF PyEnded, Kept
    <3> QED
      BY <2>1, <2>2, <3>1 DEF PyEnded, Kept
  <2>4. /\ g.st.run = h.st.run /\ g.st.toServer = h.st.toServer
        /\ g.st.inbox = h.st.inbox /\ g.st.sendCredit = h.st.sendCredit
        /\ g.st.finished = h.st.finished /\ g.st.rewriteHost = h.st.rewriteHost
        /\ g.st.owed = h.st.owed
    BY <1>2, <2>1 DEF PyType
  <2> QED
    BY <2>1, <2>2, <2>3, <2>4 DEF PyEnded
<1> QED
  BY <1>1, <1>3, <1>4

-----------------------------------------------------------------------------
\* What a turn of the agent's end does, seen from the rest of the system.  Its
\* stream is refused when it answers STREAM_OPEN with a reset and does not dial.

\* The frames, one said at most, and everything such a turn may not touch.
PyWire(e, t) ==
    /\ e \in Seq(WireFrame) /\ t \in Seq(WireFrame) /\ Len(e) \in {0, 1}
    /\ toServer' = IF linkUp THEN toServer \o e ELSE toServer
    /\ toAgent' \in Seq(WireFrame) /\ toAgent = t \o toAgent'
    /\ UNCHANGED <<sVars, linkUp, visitorSaid>>
    /\ serviceSaid' \in 0..DownBytes
    /\ happened' \in Histories \cup {{}}
    /\ py' \in PyType /\ loc' \in Connection(Bytes)
    /\ sessionOver' \in BOOLEAN
    /\ sessionOver' => ~linkUp

\* Its promises.
PyWord(e, t) ==
    /\ LifeOfPy'
    /\ py.run # "none" => py'.run # "none"
    /\ py'.run # "none" => py.run # "none" \/ "OPEN" \in TypesIn(t)
    /\ py'.run = "none" => /\ TypesIn(e) \subseteq {"RESET"}
                           /\ t = <<>> => e = <<>>
    /\ "OPEN" \notin TypesIn(e)
    /\ "DATA" \in TypesIn(e) => py.toServer = "read"
    /\ py.toServer = "over" => py'.toServer = "over"
    /\ "EOF" \in TypesIn(e) => py'.toServer = "over"
    /\ "RESET" \in TypesIn(e) => \/ py'.finished \/ py'.toServer = "over"
                                 \/ py'.run = "none" /\ t # <<>>
    /\ py.finished => py'.finished
    /\ py'.finished \/ py'.toServer = "over" =>
          \/ py.finished \/ py.toServer = "over" \/ ~linkUp \/ loc'.lost
          \/ Ended \cap TypesIn(e) # {} \/ "RESET" \in TypesIn(t)
    /\ loc.lost => loc'.lost
    /\ HeardEnd(py) => HeardEnd(py)'
    /\ Ended \cap TypesIn(t) # {} => HeardEnd(py)' \/ py'.run = "none"

\* Its accounts.
PyBytes(e, t) ==
    /\ py'.sendCredit + DataIn(e) <= py.sendCredit + AcksIn(t)
    /\ Held' + AcksIn(e) <= Held + DataIn(t)
    /\ ~py'.finished /\ ~(py'.run = "none" /\ t # <<>>) =>
          /\ py'.sendCredit + DataIn(e) = py.sendCredit + AcksIn(t)
          /\ Held' + AcksIn(e) = Held + DataIn(t)
    /\ DataIn(e) > 0 => /\ py.sendCredit > 0
                        /\ DataIn(e) <= MaxChunk
                        /\ t = <<>>
    /\ py'.sendCredit + serviceSaid' - Len(loc'.inq) >= Window
    /\ PyWaits'

\* The law of a turn of the agent's end.
PyLaw(e, t) == PyWire(e, t) /\ PyWord(e, t) /\ PyBytes(e, t)

\* What the queues carry after such a turn.
LEMMA PySeen ==
  ASSUME IInv, NEW e, NEW t, PyWire(e, t)
  PROVE  /\ Types'
         /\ TypesIn(toServer') = IF linkUp THEN TypesIn(toServer) \cup TypesIn(e)
                                 ELSE TypesIn(toServer)
         /\ DataIn(toServer') = IF linkUp THEN DataIn(toServer) + DataIn(e)
                                ELSE DataIn(toServer)
         /\ AcksIn(toServer') = IF linkUp THEN AcksIn(toServer) + AcksIn(e)
                                ELSE AcksIn(toServer)
         /\ TypesIn(toAgent) = TypesIn(t) \cup TypesIn(toAgent')
         /\ DataIn(toAgent) = DataIn(t) + DataIn(toAgent')
         /\ AcksIn(toAgent) = AcksIn(t) + AcksIn(toAgent')
         /\ DataIn(e) \in Nat /\ AcksIn(e) \in Nat
         /\ DataIn(t) \in Nat /\ AcksIn(t) \in Nat
         /\ DataIn(toServer) \in Nat /\ AcksIn(toServer) \in Nat
         /\ DataIn(toAgent') \in Nat /\ AcksIn(toAgent') \in Nat
         /\ toAgent = <<>> => t = <<>> /\ toAgent' = <<>>
         /\ TypesIn(t) = {} <=> t = <<>>
<1>1. Types
  BY DEF IInv
<1>2. /\ e \in Seq(WireFrame) /\ t \in Seq(WireFrame)
      /\ toAgent \in Seq(WireFrame) /\ toServer \in Seq(WireFrame)
      /\ toServer' = IF linkUp THEN toServer \o e ELSE toServer
      /\ toAgent' \in Seq(WireFrame) /\ toAgent = t \o toAgent'
  BY <1>1 DEF Types, PyWire
<1>3. /\ toServer' \in Seq(WireFrame)
      /\ TypesIn(toServer') = IF linkUp THEN TypesIn(toServer) \cup TypesIn(e)
                              ELSE TypesIn(toServer)
      /\ DataIn(toServer') = IF linkUp THEN DataIn(toServer) + DataIn(e)
                             ELSE DataIn(toServer)
      /\ AcksIn(toServer') = IF linkUp THEN AcksIn(toServer) + AcksIn(e)
                             ELSE AcksIn(toServer)
      /\ DataIn(toServer) \in Nat /\ AcksIn(toServer) \in Nat
      /\ DataIn(e) \in Nat /\ AcksIn(e) \in Nat
  <2> DEFINE c == toServer
             c2 == toServer'
  <2>1. /\ c \in Seq(WireFrame) /\ e \in Seq(WireFrame)
        /\ c2 = IF linkUp THEN c \o e ELSE c
    BY <1>2
  <2> HIDE DEF c, c2
  <2>2. /\ c2 \in Seq(WireFrame)
        /\ TypesIn(c2) = IF linkUp THEN TypesIn(c) \cup TypesIn(e) ELSE TypesIn(c)
        /\ DataIn(c2) = IF linkUp THEN DataIn(c) + DataIn(e) ELSE DataIn(c)
        /\ AcksIn(c2) = IF linkUp THEN AcksIn(c) + AcksIn(e) ELSE AcksIn(c)
        /\ DataIn(c) \in Nat /\ AcksIn(c) \in Nat
        /\ DataIn(e) \in Nat /\ AcksIn(e) \in Nat
    BY ONLY <2>1, Grown
  <2> QED
    BY ONLY <2>2 DEF c, c2
<1>4. /\ TypesIn(toAgent) = TypesIn(t) \cup TypesIn(toAgent')
      /\ DataIn(toAgent) = DataIn(t) + DataIn(toAgent')
      /\ AcksIn(toAgent) = AcksIn(t) + AcksIn(toAgent')
      /\ DataIn(t) \in Nat /\ AcksIn(t) \in Nat
      /\ DataIn(toAgent') \in Nat /\ AcksIn(toAgent') \in Nat
      /\ toAgent = <<>> => t = <<>> /\ toAgent' = <<>>
      /\ TypesIn(t) = {} <=> t = <<>>
  <2> DEFINE c == toAgent
             c2 == toAgent'
  <2>1. /\ c \in Seq(WireFrame) /\ t \in Seq(WireFrame)
        /\ c2 \in Seq(WireFrame) /\ c = t \o c2
    BY <1>2
  <2> HIDE DEF c, c2
  <2>2. /\ TypesIn(c) = TypesIn(t) \cup TypesIn(c2)
        /\ DataIn(c) = DataIn(t) + DataIn(c2)
        /\ AcksIn(c) = AcksIn(t) + AcksIn(c2)
        /\ DataIn(t) \in Nat /\ AcksIn(t) \in Nat
        /\ DataIn(c2) \in Nat /\ AcksIn(c2) \in Nat
        /\ c = <<>> => t = <<>> /\ c2 = <<>>
        /\ TypesIn(t) = {} <=> t = <<>>
    BY ONLY <2>1, Shortened
  <2> QED
    BY ONLY <2>2 DEF c, c2
<1>5. Types'
  BY <1>1, <1>2, <1>3 DEF Types, PyWire, sVars
<1> QED
  BY <1>3, <1>4, <1>5

\* A turn that keeps its promises keeps the parts of the invariant that are
\* about promises.
LEMMA PyKeepsWord ==
  ASSUME IInv, NEW e, NEW t, PyWire(e, t), PyWord(e, t)
  PROVE  LifeOfServer' /\ LifeOfPy' /\ Chan' /\ Informed' /\ Eof'
<1>1. /\ Types /\ LifeOfServer /\ LifeOfPy /\ Chan /\ Informed /\ Eof
  BY DEF IInv
<1>2. /\ TypesIn(toServer') = IF linkUp THEN TypesIn(toServer) \cup TypesIn(e)
                              ELSE TypesIn(toServer)
      /\ TypesIn(toAgent) = TypesIn(t) \cup TypesIn(toAgent')
      /\ toAgent = <<>> => t = <<>> /\ toAgent' = <<>>
      /\ TypesIn(t) = {} <=> t = <<>>
  BY PySeen
<1>3. /\ srv' = srv /\ pub' = pub /\ srvClosed' = srvClosed /\ linkUp' = linkUp
      /\ sessionOver' => ~linkUp
  BY DEF PyWire, sVars
<1>4. /\ e \in Seq(WireFrame) /\ t \in Seq(WireFrame) /\ Len(e) \in {0, 1}
      /\ toAgent \in Seq(WireFrame) /\ toServer \in Seq(WireFrame)
      /\ toAgent' \in Seq(WireFrame)
      /\ toServer' = IF linkUp THEN toServer \o e ELSE toServer
      /\ toAgent = t \o toAgent'
  BY <1>1 DEF Types, PyWire
<1>5. LifeOfServer'
  <2>1. ~srv.opened => toAgent' = <<>> /\ toServer' = <<>> /\ py'.run = "none"
    <3>1. SUFFICES ASSUME ~srv.opened
                   PROVE  toAgent' = <<>> /\ toServer' = <<>> /\ py'.run = "none"
      OBVIOUS
    <3>2. toAgent = <<>> /\ toServer = <<>> /\ py.run = "none"
      BY <1>1, <3>1 DEF LifeOfServer
    <3>3. t = <<>> /\ TypesIn(t) = {}
      BY <1>2, <3>2
    <3>4. py'.run = "none" /\ e = <<>>
      BY <3>2, <3>3 DEF PyWord
    <3>5. toServer' = <<>>
      BY <1>4, <3>2, <3>4
    <3> QED
      BY <1>2, <3>2, <3>4, <3>5
  <2> QED
    BY <1>1, <1>3, <2>1 DEF LifeOfServer
<1>6. LifeOfPy'
  BY DEF PyWord
<1>7. t # <<>> => "OPEN" \notin TypesIn(toAgent')
  <2> DEFINE c == toAgent
             c2 == toAgent'
  <2>1. /\ c \in Seq(WireFrame) /\ t \in Seq(WireFrame) /\ c2 \in Seq(WireFrame)
        /\ c = t \o c2 /\ Orderly(c)
    BY <1>1, <1>4 DEF Chan
  <2> HIDE DEF c, c2
  <2>2. t # <<>> => "OPEN" \notin TypesIn(c2)
    BY ONLY <2>1, ShortenedOrderly, ZenonT(60)
  <2> QED
    BY ONLY <2>2 DEF c2
<1>8. Orderly(toAgent') /\ DataFirst(toServer')
  <2>1. Orderly(toAgent')
    BY <1>1, <1>4, ShortenedOrderly DEF Chan
  <2>2. "EOF" \in TypesIn(toServer) => "DATA" \notin TypesIn(e)
    BY <1>1 DEF PyWord, Chan
  <2>3. DataFirst(toServer')
    BY <1>1, <1>4, <2>2, GrownFirst DEF Chan
  <2> QED
    BY <2>1, <2>3
<1>9. Chan'
  <2>1. /\ "EOF" \in TypesIn(toAgent') => srv.sentEof
        /\ "RESET" \in TypesIn(toAgent') => srv.finished
    BY <1>1, <1>2 DEF Chan
  <2>2. "OPEN" \in TypesIn(toAgent') => py'.run = "none" /\ toServer' = <<>>
    <3>1. SUFFICES ASSUME "OPEN" \in TypesIn(toAgent')
                   PROVE  py'.run = "none" /\ toServer' = <<>>
      OBVIOUS
    <3>2. t = <<>> /\ TypesIn(t) = {}
      BY <1>2, <1>7, <3>1
    <3>3. py.run = "none" /\ toServer = <<>>
      BY <1>1, <1>2, <3>1 DEF Chan
    <3>4. py'.run = "none" /\ e = <<>>
      BY <3>2, <3>3 DEF PyWord
    <3> QED
      BY <1>4, <3>3, <3>4
  <2>3. "EOF" \in TypesIn(toServer') => py'.toServer = "over"
    BY <1>1, <1>2 DEF Chan, PyWord
  <2>4. "RESET" \in TypesIn(toServer') =>
          \/ py'.finished \/ py'.toServer = "over"
          \/ py'.run = "none" /\ "OPEN" \notin TypesIn(toAgent')
    <3>1. CASE "RESET" \in TypesIn(toServer)
      BY <1>1, <1>2, <3>1 DEF Chan, PyWord
    <3>2. CASE "RESET" \in TypesIn(e)
      BY <1>7, <3>2 DEF PyWord
    <3> QED
      BY <1>2, <3>1, <3>2
  <2>5. /\ "OPEN" \notin TypesIn(toServer')
        /\ py'.run = "none" => TypesIn(toServer') \subseteq {"RESET"}
    BY <1>1, <1>2 DEF Chan, PyWord
  <2> QED
    BY <1>3, <1>8, <2>1, <2>2, <2>3, <2>4, <2>5 DEF Chan
<1>10. Informed'
  <2>1. pub'.readEnded => srv'.sentEof \/ srv'.finished
    BY <1>1, <1>3 DEF Informed
  <2>2. linkUp /\ (srv.sentEof \/ srv.finished) =>
           \/ py'.run = "none" /\ "OPEN" \notin TypesIn(toAgent')
           \/ HeardEnd(py)'
           \/ Ended \cap TypesIn(toAgent') # {}
    <3>1. SUFFICES ASSUME linkUp, srv.sentEof \/ srv.finished
                   PROVE  \/ py'.run = "none" /\ "OPEN" \notin TypesIn(toAgent')
                          \/ HeardEnd(py)'
                          \/ Ended \cap TypesIn(toAgent') # {}
      OBVIOUS
    <3>2. CASE py.run = "none" /\ "OPEN" \notin TypesIn(toAgent)
      BY <1>2, <3>2 DEF PyWord
    <3>3. CASE HeardEnd(py)
      BY <3>3 DEF PyWord
    <3>4. CASE Ended \cap TypesIn(toAgent) # {}
      <4>1. CASE Ended \cap TypesIn(t) # {}
        <5>1. t # <<>>
          BY <1>2, <4>1
        <5>2. HeardEnd(py)' \/ py'.run = "none"
          BY <4>1 DEF PyWord
        <5> QED
          BY <1>7, <5>1, <5>2
      <4> QED
        BY <1>2, <3>4, <4>1
    <3> QED
      BY <1>1, <3>1, <3>2, <3>3, <3>4 DEF Informed
  <2>3. linkUp /\ (py'.finished \/ py'.toServer = "over") =>
           \/ srv.finished \/ srv.receivedEof \/ loc'.lost
           \/ Ended \cap TypesIn(toServer') # {}
    <3>1. SUFFICES ASSUME linkUp, py'.finished \/ py'.toServer = "over",
                          Ended \cap TypesIn(e) = {}, ~loc'.lost
                   PROVE  \/ srv.finished \/ srv.receivedEof
                          \/ Ended \cap TypesIn(toServer') # {}
      BY <1>2
    <3>2. py.finished \/ py.toServer = "over" \/ "RESET" \in TypesIn(t)
      BY <3>1 DEF PyWord
    <3>3. CASE py.finished \/ py.toServer = "over"
      <4>1. ~loc.lost
        BY <3>1 DEF PyWord
      <4> QED
        BY <1>1, <1>2, <3>1, <3>3, <4>1 DEF Informed
    <3>4. CASE "RESET" \in TypesIn(t)
      BY <1>1, <1>2, <3>4 DEF Chan
    <3> QED
      BY <3>2, <3>3, <3>4
  <2> QED
    BY <1>3, <2>1, <2>2, <2>3 DEF Informed
<1>11. Eof'
  <2>1. srv.receivedEof => py'.toServer = "over" /\ "DATA" \notin TypesIn(toServer')
    BY <1>1, <1>2 DEF Eof, PyWord
  <2> QED
    BY <1>3, <2>1 DEF Eof
<1> QED
  BY <1>5, <1>6, <1>9, <1>10, <1>11

\* A turn of the agent's end does not bring a stream back that was over.
LEMMA PyStaysOver ==
  ASSUME IInv, NEW e, NEW t, PyWire(e, t), PyWord(e, t), BothLive'
  PROVE  BothLive /\ ~py'.finished /\ ~(py'.run = "none" /\ t # <<>>)
<1>1. /\ TypesIn(toAgent) = TypesIn(t) \cup TypesIn(toAgent')
      /\ toAgent = <<>> => t = <<>>
  BY PySeen
<1>2. srv' = srv /\ linkUp' = linkUp
  BY DEF PyWire, sVars
<1>3. t # <<>> => "OPEN" \notin TypesIn(toAgent') /\ srv.opened
  BY <1>1, ShortenedOrderly DEF IInv, Types, Chan, LifeOfServer, PyWire
<1>4. ~(py'.run = "none" /\ t # <<>>)
  BY <1>2, <1>3 DEF BothLive, Refused
<1>5. ~Refused
  BY <1>1, <1>2 DEF BothLive, Refused, PyWord
<1> QED
  BY <1>2, <1>4, <1>5 DEF BothLive, PyWord

\* What the agent holds is a number.
LEMMA HeldTyped ==
  ASSUME NEW s \in PyType
  PROVE  DataIn(s.inbox) \in Nat /\ s.owed \in Nat /\ DataIn(s.inbox) + s.owed \in Nat
<1>1. s.inbox \in Seq(WireFrame) /\ s.owed \in Nat
  BY DEF PyType
<1>2. DataIn(s.inbox) \in Nat
  BY <1>1, CountsBounded DEF WireFrame
<1> QED
  BY <1>1, <1>2

\* A turn that keeps its accounts keeps the parts that are about counts.
LEMMA PyKeepsBytes ==
  ASSUME IInv, NEW e, NEW t, PyLaw(e, t)
  PROVE  Flow' /\ SrvPauses' /\ PyWaits' /\ SrvBuffers'
<1>1. /\ Types /\ Flow /\ SrvPauses /\ SrvBuffers
      /\ PyWire(e, t) /\ PyWord(e, t) /\ PyBytes(e, t)
  BY DEF IInv, PyLaw
<1>2. /\ Types'
      /\ DataIn(toServer') = IF linkUp THEN DataIn(toServer) + DataIn(e)
                             ELSE DataIn(toServer)
      /\ AcksIn(toServer') = IF linkUp THEN AcksIn(toServer) + AcksIn(e)
                             ELSE AcksIn(toServer)
      /\ DataIn(toAgent) = DataIn(t) + DataIn(toAgent')
      /\ AcksIn(toAgent) = AcksIn(t) + AcksIn(toAgent')
      /\ DataIn(e) \in Nat /\ AcksIn(e) \in Nat
      /\ DataIn(t) \in Nat /\ AcksIn(t) \in Nat
      /\ DataIn(toServer) \in Nat /\ AcksIn(toServer) \in Nat
      /\ DataIn(toAgent') \in Nat /\ AcksIn(toAgent') \in Nat
  BY <1>1, PySeen
<1>3. srv' = srv /\ pub' = pub /\ linkUp' = linkUp /\ visitorSaid' = visitorSaid
  BY <1>1 DEF PyWire, sVars
<1>4. Held \in Nat /\ Held' \in Nat
  <2>1. py \in PyType /\ py' \in PyType
    BY <1>1, <1>2 DEF Types
  <2> DEFINE s == py'
  <2> HIDE DEF s
  <2>2. DataIn(s.inbox) + s.owed \in Nat
    BY <2>1, HeldTyped DEF s
  <2> QED
    BY <2>1, <2>2, HeldTyped DEF Held, s
<1>5. /\ srv.sendCredit \in Int /\ srv.recvUnacked \in Nat
      /\ py.sendCredit \in Int /\ py'.sendCredit \in Int
      /\ Window \in Nat
  BY <1>1, <1>2, RoomTyped DEF Types, SrvType, PyType
<1>6. BothLive' =>
        BothLive /\ ~py'.finished /\ ~(py'.run = "none" /\ t # <<>>) /\ linkUp
  BY <1>1, <1>3, PyStaysOver DEF BothLive
<1>7. /\ py'.sendCredit + DataIn(e) <= py.sendCredit + AcksIn(t)
      /\ Held' + AcksIn(e) <= Held + DataIn(t)
      /\ ~py'.finished /\ ~(py'.run = "none" /\ t # <<>>) =>
            /\ py'.sendCredit + DataIn(e) = py.sendCredit + AcksIn(t)
            /\ Held' + AcksIn(e) = Held + DataIn(t)
  BY <1>1 DEF PyBytes
<1>8. /\ UpSum \in Int /\ UpSum <= Window /\ (BothLive => UpSum = Window)
      /\ DownSum \in Int /\ DownSum <= Window /\ (BothLive => DownSum = Window)
  <2>1. DataIn(toAgent) \in Nat /\ AcksIn(toAgent) \in Nat
    BY <1>2
  <2>2. UpSum \in Int
    BY <1>2, <1>4, <1>5, <2>1 DEF UpSum
  <2>3. DownSum \in Int
    BY <1>2, <1>5, <2>1 DEF DownSum
  <2> QED
    BY <1>1, <2>2, <2>3 DEF Flow
<1>9. UpSum' <= Window /\ (BothLive' => UpSum' = Window)
  <2> DEFINE c == srv.sendCredit
             d == DataIn(toAgent')
             q == Held
             q2 == Held'
             a == AcksIn(toServer)
             a2 == AcksIn(toServer')
             dt == DataIn(t)
             ae == AcksIn(e)
             live == ~py'.finished /\ ~(py'.run = "none" /\ t # <<>>)
  <2>1. UpSum = c + (dt + d) + q + a
    BY <1>2 DEF UpSum
  <2>2. UpSum' = c + d + q2 + a2
    BY <1>3 DEF UpSum
  <2>3. /\ c \in Int /\ q \in Int /\ q2 \in Int
        /\ d \in Int /\ dt \in Int /\ ae \in Nat
    BY <1>2, <1>4, <1>5
  <2>4. a \in Int /\ a2 = IF linkUp THEN a + ae ELSE a
    BY <1>2
  <2>5. q2 + ae <= q + dt /\ (live => q2 + ae = q + dt)
    BY <1>7
  <2> HIDE DEF c, d, q, q2, a, a2, dt, ae, live
  <2>6. UpSum' \in Int
    BY ONLY <2>2, <2>3, <2>4
  <2>7. UpSum' <= UpSum
    BY ONLY <2>1, <2>2, <2>3, <2>4, <2>5
  <2>8. linkUp /\ live => UpSum' = UpSum
    BY ONLY <2>1, <2>2, <2>3, <2>4, <2>5
  <2> QED
    BY <1>5, <1>6, <1>8, <2>6, <2>7, <2>8 DEF live
<1>10. DownSum' <= Window /\ (BothLive' => DownSum' = Window)
  <2> DEFINE c == py.sendCredit
             c2 == py'.sendCredit
             d == DataIn(toServer)
             d2 == DataIn(toServer')
             u == srv.recvUnacked
             a == AcksIn(toAgent')
             de == DataIn(e)
             at == AcksIn(t)
             live == ~py'.finished /\ ~(py'.run = "none" /\ t # <<>>)
  <2>1. DownSum = c + d + u + (at + a)
    BY <1>2 DEF DownSum
  <2>2. DownSum' = c2 + d2 + u + a
    BY <1>3 DEF DownSum
  <2>3. /\ c \in Int /\ c2 \in Int /\ u \in Int
        /\ a \in Int /\ at \in Int /\ de \in Nat
    BY <1>2, <1>5
  <2>4. d \in Int /\ d2 = IF linkUp THEN d + de ELSE d
    BY <1>2
  <2>5. c2 + de <= c + at /\ (live => c2 + de = c + at)
    BY <1>7
  <2> HIDE DEF c, c2, d, d2, u, a, de, at, live
  <2>6. DownSum' \in Int
    BY ONLY <2>2, <2>3, <2>4
  <2>7. DownSum' <= DownSum
    BY ONLY <2>1, <2>2, <2>3, <2>4, <2>5
  <2>8. linkUp /\ live => DownSum' = DownSum
    BY ONLY <2>1, <2>2, <2>3, <2>4, <2>5
  <2> QED
    BY <1>5, <1>6, <1>8, <2>6, <2>7, <2>8 DEF live
<1>11. Flow'
  BY <1>1, <1>3, <1>9, <1>10 DEF Flow, PyBytes
<1>12. SrvPauses' /\ SrvBuffers' /\ PyWaits'
  BY <1>1, <1>3 DEF SrvPauses, SrvBuffers, PyBytes
<1> QED
  BY <1>11, <1>12

\* A turn of the agent's end that obeys the law keeps the invariant.
LEMMA PyKeeps ==
  ASSUME IInv, NEW e, NEW t, PyLaw(e, t)
  PROVE  IInv'
<1>1. PyWire(e, t) /\ PyWord(e, t)
  BY DEF PyLaw
<1>2. Types'
  BY <1>1, PySeen
<1>3. LifeOfServer' /\ LifeOfPy' /\ Chan' /\ Informed' /\ Eof'
  BY <1>1, PyKeepsWord
<1>4. Flow' /\ SrvPauses' /\ PyWaits' /\ SrvBuffers'
  BY PyKeepsBytes
<1> QED
  BY <1>2, <1>3, <1>4 DEF IInv

-----------------------------------------------------------------------------
\* Every action of the agent's end, and of the service, obeys the law.

\* What the invariant says of the agent's end.
PyFacts ==
    /\ py \in PyType /\ loc \in Connection(Bytes)
    /\ py.run \in {"none", "dialling", "pumps", "over"}
    /\ py.toLocal \in {"off", "get", "drain", "eof", "failed", "over"}
    /\ py.toServer \in {"off", "read", "over"}
    /\ py.finished \in BOOLEAN /\ py.headDone \in BOOLEAN
    /\ py.inbox \in Seq(WireFrame) /\ py.headBuf \in Seq(Bytes)
    /\ py.owed \in Nat /\ py.sendCredit \in Int /\ Held \in Nat
    /\ Len(loc.inq) \in Nat
    /\ serviceSaid \in 0..DownBytes /\ serviceSaid \in Int
    /\ Window \in Nat \ {0} /\ MaxChunk \in Nat \ {0}
    /\ py.sendCredit + serviceSaid - Len(loc.inq) >= Window
    /\ py.sendCredit > -MaxChunk
    /\ LifeOfPy
    /\ toAgent \in Seq(WireFrame) /\ toServer \in Seq(WireFrame)
    /\ linkUp \in BOOLEAN /\ sessionOver \in BOOLEAN
    /\ sessionOver => ~linkUp
    /\ happened \in Histories \cup {{}}

LEMMA PyKnown ==
  ASSUME IInv
  PROVE  PyFacts
<1>1. Types /\ LifeOfServer /\ LifeOfPy /\ Flow /\ PyWaits
  BY DEF IInv
<1>2. /\ py \in PyType /\ loc \in Connection(Bytes)
      /\ serviceSaid \in 0..DownBytes
      /\ toAgent \in Seq(WireFrame) /\ toServer \in Seq(WireFrame)
      /\ linkUp \in BOOLEAN /\ sessionOver \in BOOLEAN
      /\ happened \in Histories \cup {{}}
  BY <1>1 DEF Types
<1>3. /\ py.run \in {"none", "dialling", "pumps", "over"}
      /\ py.toLocal \in {"off", "get", "drain", "eof", "failed", "over"}
      /\ py.toServer \in {"off", "read", "over"}
      /\ py.finished \in BOOLEAN /\ py.headDone \in BOOLEAN
      /\ py.inbox \in Seq(WireFrame) /\ py.headBuf \in Seq(Bytes)
      /\ py.owed \in Nat /\ py.sendCredit \in Int
  BY <1>2 DEF PyType
<1>4. Held \in Nat
  BY <1>2, HeldTyped DEF Held
<1>5. Len(loc.inq) \in Nat
  BY <1>2, ConnectionTyped
<1>6. serviceSaid \in Int
  BY <1>2, PyBridgeAssumption
<1>7. /\ py.sendCredit + serviceSaid - Len(loc.inq) >= Window
      /\ py.sendCredit > -MaxChunk /\ (sessionOver => ~linkUp)
  BY <1>1 DEF Flow, PyWaits, LifeOfServer
<1>8. Window \in Nat \ {0} /\ MaxChunk \in Nat \ {0}
  BY RoomTyped
<1> QED
  BY <1>1, <1>2, <1>3, <1>4, <1>5, <1>6, <1>7, <1>8 DEF PyFacts

\* The accounts of a turn that loses nothing.
LEMMA PyAccounts ==
  ASSUME IInv, NEW e \in Seq(WireFrame), NEW t \in Seq(WireFrame),
         py' \in PyType, loc' \in Connection(Bytes), serviceSaid' = serviceSaid,
         py'.sendCredit + DataIn(e) = py.sendCredit + AcksIn(t),
         Held' + AcksIn(e) = Held + DataIn(t),
         Len(loc'.inq) + DataIn(e) <= Len(loc.inq),
         DataIn(e) > 0 => py.sendCredit > 0 /\ DataIn(e) <= MaxChunk /\ t = <<>>
  PROVE  PyBytes(e, t)
<1>1. PyFacts
  BY PyKnown
<1> DEFINE c == py.sendCredit
           c2 == py'.sendCredit
           l == Len(loc.inq)
           l2 == Len(loc'.inq)
           de == DataIn(e)
           at == AcksIn(t)
           q == Held + DataIn(t)
           q2 == Held' + AcksIn(e)
<1>2. /\ c \in Int /\ c2 \in Int /\ l \in Nat /\ l2 \in Nat
      /\ de \in Nat /\ at \in Nat
  <2>1. c2 \in Int
    BY DEF PyType
  <2>2. l2 \in Nat
    BY ConnectionTyped
  <2>3. de \in Nat /\ at \in Nat
    BY CountsBounded DEF WireFrame
  <2> QED
    BY <1>1, <2>1, <2>2, <2>3 DEF PyFacts
<1>3. /\ c2 + de = c + at
      /\ q2 = q /\ q \in Int
      /\ l2 + de <= l
      /\ de > 0 => c > 0 /\ de <= MaxChunk
      /\ c + serviceSaid - l >= Window /\ c > -MaxChunk
      /\ serviceSaid \in Int /\ Window \in Int /\ MaxChunk \in Nat \ {0}
  <2>1. DataIn(t) \in Nat
    BY CountsBounded DEF WireFrame
  <2> QED
    BY <1>1, <2>1 DEF PyFacts
<1> HIDE DEF c, c2, l, l2, de, at, q, q2
<1>4. /\ c2 + de <= c + at /\ q2 <= q
      /\ c2 + serviceSaid - l2 >= Window
      /\ c2 > -MaxChunk
  BY ONLY <1>2, <1>3
<1> QED
  BY <1>3, <1>4 DEF PyBytes, PyWaits, c, c2, l, l2, de, at, q, q2

\* The agent's end unchanged, its connection at most read, written or lost.
LEMMA PyIdle ==
  ASSUME IInv, py' = py, toAgent' = toAgent, toServer' = toServer,
         UNCHANGED <<sVars, linkUp, visitorSaid>>,
         sessionOver' \in BOOLEAN, sessionOver' => ~linkUp,
         happened' \in Histories \cup {{}}, serviceSaid' \in 0..DownBytes,
         loc' \in Connection(Bytes), loc.lost => loc'.lost,
         serviceSaid' - Len(loc'.inq) >= serviceSaid - Len(loc.inq)
  PROVE  PyLaw(<<>>, <<>>)
<1>1. PyFacts
  BY PyKnown
<1>2. /\ <<>> \in Seq(WireFrame)
      /\ TypesIn(<<>>) = {} /\ DataIn(<<>>) = 0 /\ AcksIn(<<>>) = 0
  BY FewFrames
<1>3. PyWire(<<>>, <<>>)
  BY <1>1, <1>2, Nothing DEF PyWire, PyFacts
<1>4. LifeOfPy'
  BY <1>1 DEF PyFacts, LifeOfPy
<1>5. PyWord(<<>>, <<>>)
  BY <1>1, <1>2, <1>4 DEF PyWord, PyFacts, HeardEnd, Ended
<1>6. PyBytes(<<>>, <<>>)
  <2>1. Len(loc'.inq) \in Nat /\ serviceSaid' \in Int
    BY ConnectionTyped, PyBridgeAssumption
  <2>2. Held' = Held
    BY DEF Held
  <2> DEFINE c == py.sendCredit
             a == Len(loc.inq)
             b == Len(loc'.inq)
             p == serviceSaid
             q == serviceSaid'
             h == Held
  <2>3. /\ c \in Int /\ a \in Int /\ b \in Int /\ Window \in Int
        /\ p \in Int /\ q \in Int /\ h \in Int
        /\ q - b >= p - a
        /\ c + p - a >= Window
    BY <1>1, <2>1 DEF PyFacts
  <2> HIDE DEF c, a, b, p, q, h
  <2>4. c + q - b >= Window /\ c + 0 <= c + 0 /\ h + 0 <= h + 0
    BY ONLY <2>3
  <2> QED
    BY <1>1, <1>2, <2>2, <2>4 DEF PyBytes, PyWaits, PyFacts, c, b, q, h
<1> QED
  BY <1>3, <1>5, <1>6 DEF PyLaw

\* What the service and the kernel on its side do.
LEMMA ServiceSteps ==
  ASSUME IInv,
         \/ ServiceSend \/ ServiceEvent
         \/ P!LocalFlush /\ UNCHANGED <<sVars, outsideVars>>
  PROVE  PyLaw(<<>>, <<>>)
<1>1. PyFacts
  BY PyKnown
<1>2. CASE ServiceSend
  <2>1. /\ serviceSaid = 0 /\ serviceSaid' \in 1..DownBytes
        /\ loc' = [loc EXCEPT !.inq = Said(serviceSaid')]
        /\ UNCHANGED <<sVars, py, sessionOver, linkVars, visitorSaid, happened>>
    BY <1>2 DEF ServiceSend
  <2> DEFINE n == serviceSaid'
             s == Said(n)
  <2>2. s \in Seq(Bytes) /\ Len(s) = n /\ n \in 0..DownBytes /\ n \in Int
    <3>1. n \in 0..(UpBytes + DownBytes) /\ n \in 0..DownBytes /\ n \in Int
      BY <2>1, PyBridgeAssumption
    <3> HIDE DEF n
    <3>2. Said(n) \in Seq(Bytes) /\ Len(Said(n)) = n
      BY <3>1, SaidTyped
    <3> QED
      BY <3>1, <3>2
  <2>3. loc' = [loc EXCEPT !.inq = s]
    BY <2>1
  <2> HIDE DEF s
  <2>4. loc' \in Connection(Bytes) /\ loc'.lost = loc.lost /\ loc'.inq = s
    <3> DEFINE D == Seq(Bytes)
               C == [inq : D, fin : BOOLEAN, out : D, paused : BOOLEAN,
                     eof : BOOLEAN, closing : BOOLEAN, lost : BOOLEAN, got : D]
    <3>1. loc \in C /\ s \in D /\ C = Connection(Bytes)
      BY <1>1, <2>2 DEF PyFacts, Connection
    <3> HIDE DEF D
    <3>2. loc' \in C /\ loc'.lost = loc.lost /\ loc'.inq = s
      BY <2>3, <3>1
    <3> QED
      BY <3>1, <3>2
  <2>5. serviceSaid' - Len(loc'.inq) >= serviceSaid - Len(loc.inq)
    BY <1>1, <2>1, <2>2, <2>4 DEF PyFacts
  <2> QED
    BY <1>1, <2>1, <2>2, <2>4, <2>5, PyIdle DEF linkVars, PyFacts
<1>3. ASSUME Kept(loc', loc, Bytes), py' = py, serviceSaid' = serviceSaid
      PROVE  /\ loc' \in Connection(Bytes) /\ (loc.lost => loc'.lost)
             /\ serviceSaid' - Len(loc'.inq) >= serviceSaid - Len(loc.inq)
             /\ serviceSaid' \in 0..DownBytes
  <2>1. loc' \in Connection(Bytes) /\ Len(loc'.inq) <= Len(loc.inq)
    BY <1>3 DEF Kept
  <2>2. Len(loc'.inq) \in Nat
    BY <2>1, ConnectionTyped
  <2>3. serviceSaid - Len(loc'.inq) >= serviceSaid - Len(loc.inq)
    BY <1>1, <2>1, <2>2 DEF PyFacts
  <2> QED
    BY <1>1, <1>3, <2>3 DEF PyFacts, Kept
<1>4. CASE ServiceEvent
  <2>1. /\ happened' \in Histories
        /\ loc' = [loc EXCEPT !.fin = TRUE] \/ loc' = Lose(loc)
        /\ UNCHANGED <<sVars, py, sessionOver, linkVars, visitorSaid, serviceSaid>>
    BY <1>4 DEF ServiceEvent, Happens
  <2>2. loc \in Connection(Bytes)
    BY <1>1 DEF PyFacts
  <2>3. Kept([loc EXCEPT !.fin = TRUE], loc, Bytes) /\ Kept(Lose(loc), loc, Bytes)
    BY <2>2, ConnectionSteps
  <2>4. Kept(loc', loc, Bytes)
    BY <2>1, <2>3
  <2> QED
    BY <1>1, <1>3, <2>1, <2>4, PyIdle DEF linkVars, PyFacts, Kept
<1>5. CASE P!LocalFlush /\ UNCHANGED <<sVars, outsideVars>>
  <2>1. loc' = TakeByte(loc) /\ loc.out # <<>>
    BY <1>5, SameConnection DEF P!LocalFlush, P!CanTake
  <2>2. Kept(loc', loc, Bytes)
    BY <1>1, <2>1, ConnectionSteps DEF PyFacts
  <2>3. UNCHANGED <<py, sVars, linkUp, toAgent, toServer, sessionOver, visitorSaid,
                    serviceSaid, happened>>
    BY <1>5 DEF P!LocalFlush, outsideVars
  <2> QED
    BY <1>1, <1>3, <2>2, <2>3, PyIdle DEF PyFacts
<1> QED
  BY <1>2, <1>4, <1>5

\* The turn of a handler or a task of the agent, committed.
PyCommitted(r, t) ==
    /\ r \in PyTurn
    /\ py' = r.st /\ loc' = r.sock
    /\ toServer' = IF linkUp THEN toServer \o r.sent ELSE toServer
    /\ t \in Seq(WireFrame) /\ toAgent' \in Seq(WireFrame)
    /\ toAgent = t \o toAgent'
    /\ UNCHANGED <<sVars, linkUp, visitorSaid, serviceSaid>>
    /\ happened' \in Histories \cup {{}}
    /\ sessionOver' \in BOOLEAN /\ (sessionOver' => ~linkUp)

\* Such a turn touches nothing else.
LEMMA PyWired ==
  ASSUME IInv, NEW r, NEW t, PyCommitted(r, t), NEW e, e = r.sent, Len(e) \in {0, 1}
  PROVE  /\ PyWire(e, t)
         /\ py' \in PyType /\ loc' \in Connection(Bytes) /\ serviceSaid' = serviceSaid
         /\ e \in Seq(WireFrame) /\ t \in Seq(WireFrame)
<1>1. r.st \in PyType /\ r.sock \in Connection(Bytes) /\ r.sent \in Seq(WireFrame)
  BY PyParts DEF PyCommitted
<1>2. serviceSaid \in 0..DownBytes
  BY DEF IInv, Types
<1> QED
  BY <1>1, <1>2 DEF PyWire, PyCommitted

\* A turn that takes no frame.
LEMMA PyTurned ==
  ASSUME IInv, NEW r \in PyTurn, P!Commit(r),
         UNCHANGED <<sVars, linkUp, toAgent, visitorSaid, serviceSaid>>,
         happened' \in Histories \cup {{}},
         sessionOver' \in BOOLEAN, sessionOver' => ~linkUp
  PROVE  PyCommitted(r, <<>>)
<1>1. PyFacts
  BY PyKnown
<1>2. toServer' = IF linkUp THEN toServer \o r.sent ELSE toServer
  BY <1>1 DEF P!Commit, PyFacts
<1>3. <<>> \in Seq(WireFrame) /\ toAgent \in Seq(WireFrame) /\ toAgent = <<>> \o toAgent
  BY <1>1, FewFrames, Nothing DEF PyFacts
<1> QED
  BY <1>2, <1>3 DEF P!Commit, PyCommitted

\* So does one of its tasks.
LEMMA PyTaskTurned ==
  ASSUME IInv, NEW r \in PyTurn, P!Commit(r), UNCHANGED P!local,
         UNCHANGED <<sVars, outsideVars>>
  PROVE  PyCommitted(r, <<>>)
<1>1. PyFacts
  BY PyKnown
<1>2. UNCHANGED <<sVars, sessionOver, linkUp, toAgent, visitorSaid, serviceSaid, happened>>
  BY DEF P!local, outsideVars
<1> QED
  BY <1>1, <1>2, PyTurned DEF PyFacts

\* A turn starts from what the agent's end and its connection are.
LEMMA PyTurnStarts ==
  ASSUME IInv
  PROVE  /\ P!Turn \in PyTurn
         /\ P!Turn.st = py /\ P!Turn.sock = loc /\ P!Turn.sent = <<>>
<1>1. py \in PyType /\ loc \in Connection(Bytes) /\ <<>> \in Seq(WireFrame)
  BY FewFrames DEF IInv, Types
<1> QED
  BY <1>1 DEF P!Turn, PyTurn

\* The frames of a turn that says nothing, or one thing.
LEMMA PySays ==
  ASSUME NEW e
  PROVE  /\ e = <<>> => /\ Len(e) \in {0, 1} /\ e \in Seq(WireFrame)
                        /\ TypesIn(e) = {} /\ DataIn(e) = 0 /\ AcksIn(e) = 0
         /\ \A f \in WireFrame : e = Append(<<>>, f) =>
               /\ Len(e) \in {0, 1} /\ e \in Seq(WireFrame) /\ e # <<>>
               /\ TypesIn(e) = {f.type}
               /\ DataIn(e) = DataOf(f) /\ AcksIn(e) = AckOf(f)
<1>1. e = <<>> => /\ Len(e) \in {0, 1} /\ e \in Seq(WireFrame)
                  /\ TypesIn(e) = {} /\ DataIn(e) = 0 /\ AcksIn(e) = 0
  BY FewFrames
<1>2. ASSUME NEW f \in WireFrame, e = Append(<<>>, f)
      PROVE  /\ Len(e) \in {0, 1} /\ e \in Seq(WireFrame) /\ e # <<>>
             /\ TypesIn(e) = {f.type}
             /\ DataIn(e) = DataOf(f) /\ AcksIn(e) = AckOf(f)
  <2>1. Len(e) = 1 /\ e # <<>>
    BY <1>2
  <2> QED
    BY <1>2, <2>1, OneSent
<1> QED
  BY <1>1, <1>2

\* A pump at work belongs to a stream that has one.
LEMMA PumpAtWork ==
  ASSUME IInv, py.toLocal # "off" \/ py.toServer # "off"
  PROVE  py.run \notin {"none", "dialling"}
<1>1. py.run = "none" => py.toLocal = "off" /\ py.toServer = "off"
  BY DEF IInv, LifeOfPy, P!NoPyStream
<1>2. py.run = "dialling" => py.toLocal = "off" /\ py.toServer = "off"
  BY DEF IInv, LifeOfPy
<1> QED
  BY <1>1, <1>2

\* A step of _to_local that takes data obeys the law.
LEMMA PyAteLaw ==
  ASSUME IInv, NEW r, NEW h \in PyTurn, NEW n \in Nat \ {0},
         PyCommitted(r, <<>>), PyAte(r, h, n),
         h.sock = loc, h.sent = <<>>,
         h.st.run = py.run, h.st.toServer = py.toServer,
         h.st.sendCredit = py.sendCredit, h.st.finished = py.finished,
         py.toLocal \in {"get", "drain"},
         TypesIn(h.st.inbox) \subseteq {"DATA", "EOF"},
         "EOF" \in TypesIn(py.inbox) => "EOF" \in TypesIn(h.st.inbox),
         DataIn(h.st.inbox) + n = Held
  PROVE  \E e, t : PyLaw(e, t)
<1> DEFINE e == r.sent
           t == <<>>
<1>1. PyFacts
  BY PyKnown
<1>2. /\ py' = r.st /\ loc' = r.sock /\ Kept(loc', loc, Bytes)
      /\ py'.run = py.run /\ py'.toServer = py.toServer
      /\ py'.inbox = h.st.inbox /\ py'.sendCredit = py.sendCredit
      /\ py'.finished = py.finished
      /\ \/ py'.toLocal = "failed" /\ loc'.lost /\ py'.owed = n /\ e = <<>>
         \/ py'.toLocal = "drain" /\ py'.owed = n /\ e = <<>>
         \/ py'.toLocal = "get" /\ py'.owed = 0 /\ e = Append(<<>>, AckFrame(n))
  BY DEF PyCommitted, PyAte
<1>3. PyCommitted(r, t)
  OBVIOUS
<1>4. \/ /\ Len(e) \in {0, 1} /\ TypesIn(e) = {} /\ DataIn(e) = 0
         /\ AcksIn(e) = 0 /\ py'.owed = n
         /\ \/ py'.toLocal = "failed" /\ loc'.lost
            \/ py'.toLocal = "drain"
      \/ /\ Len(e) \in {0, 1} /\ TypesIn(e) = {"ACK"} /\ DataIn(e) = 0
         /\ AcksIn(e) = n /\ py'.owed = 0 /\ py'.toLocal = "get"
  <2> HIDE DEF e
  <2>1. CASE e = <<>>
    BY <1>2, <2>1, PySays
  <2>2. CASE e = Append(<<>>, AckFrame(n)) /\ py'.toLocal = "get" /\ py'.owed = 0
    <3>1. /\ AckFrame(n) \in WireFrame /\ AckFrame(n).type = "ACK"
          /\ DataOf(AckFrame(n)) = 0 /\ AckOf(AckFrame(n)) = n
      BY FramesTyped
    <3> DEFINE f == AckFrame(n)
    <3> HIDE DEF f
    <3> QED
      BY <2>2, <3>1, PySays DEF f
  <2> QED
    BY <1>2, <2>1, <2>2
<1>5. TypesIn(t) = {} /\ DataIn(t) = 0 /\ AcksIn(t) = 0
  BY FewFrames
<1> HIDE DEF e, t
<1>6. PyWire(e, t) /\ py' \in PyType /\ loc' \in Connection(Bytes)
      /\ serviceSaid' = serviceSaid /\ e \in Seq(WireFrame) /\ t \in Seq(WireFrame)
  BY <1>3, <1>4, PyWired DEF e
<1>7. py.run \notin {"none", "dialling"}
  BY PumpAtWork
<1>8. LifeOfPy'
  BY <1>2, <1>4, <1>7 DEF LifeOfPy
<1>9. HeardEnd(py) => HeardEnd(py)'
  BY <1>2 DEF HeardEnd
<1>10. PyWord(e, t)
  BY <1>2, <1>4, <1>5, <1>7, <1>8, <1>9 DEF PyWord, Kept, Ended
<1>11. PyBytes(e, t)
  <2>1. Held' + AcksIn(e) = Held + DataIn(t)
    <3>1. Held' = DataIn(py'.inbox) + py'.owed
      BY DEF Held
    <3>2. DataIn(py'.inbox) \in Nat
      BY <1>6, HeldTyped
    <3> DEFINE q == Held'
               p == DataIn(py'.inbox)
               g == Held
    <3>3. q = p + py'.owed /\ p \in Nat /\ p + n = g
      BY <1>2, <3>1, <3>2
    <3> HIDE DEF q, p, g
    <3>4. q + AcksIn(e) = g + DataIn(t)
      BY <1>4, <1>5, <3>3
    <3> QED
      BY <3>4 DEF q, g
  <2>2. /\ py'.sendCredit + DataIn(e) = py.sendCredit + AcksIn(t)
        /\ Len(loc'.inq) + DataIn(e) <= Len(loc.inq)
        /\ ~(DataIn(e) > 0)
    <3>1. py.sendCredit \in Int /\ Len(loc'.inq) \in Nat /\ Len(loc'.inq) <= Len(loc.inq)
      BY <1>1, <1>2, <1>6, ConnectionTyped DEF PyFacts, Kept
    <3> QED
      BY <1>2, <1>4, <1>5, <3>1
  <2> QED
    BY <1>6, <2>1, <2>2, PyAccounts
<1> QED
  BY <1>6, <1>10, <1>11 DEF PyLaw

\* A step of _to_local after which there is no more to take obeys the law.
LEMMA PyEndedLaw ==
  ASSUME IInv, NEW r, NEW h \in PyTurn,
         PyCommitted(r, <<>>), PyEnded(r, h),
         h.sock = loc, h.sent = <<>>,
         h.st.run = py.run, h.st.toServer = py.toServer,
         h.st.sendCredit = py.sendCredit, h.st.finished = py.finished,
         h.st.owed = py.owed, py.toLocal \in {"get", "eof"},
         TypesIn(h.st.inbox) \subseteq {"DATA", "EOF"},
         DataIn(h.st.inbox) = DataIn(py.inbox)
  PROVE  \E e, t : PyLaw(e, t)
<1> DEFINE e == r.sent
           t == <<>>
<1>1. PyFacts
  BY PyKnown
<1>2. /\ py' = r.st /\ loc' = r.sock /\ Kept(loc', loc, Bytes)
      /\ py'.run = py.run /\ py'.toServer = py.toServer
      /\ py'.inbox = h.st.inbox /\ py'.sendCredit = py.sendCredit
      /\ py'.finished = py.finished /\ py'.owed = py.owed /\ e = <<>>
      /\ \/ py'.toLocal = "failed" /\ loc'.lost
         \/ py'.toLocal \in {"eof", "over"}
  BY DEF PyCommitted, PyEnded
<1>3. PyCommitted(r, t)
  OBVIOUS
<1>4. Len(e) \in {0, 1} /\ TypesIn(e) = {} /\ DataIn(e) = 0 /\ AcksIn(e) = 0
  BY <1>2, PySays
<1>5. TypesIn(t) = {} /\ DataIn(t) = 0 /\ AcksIn(t) = 0
  BY FewFrames
<1> HIDE DEF e, t
<1>6. PyWire(e, t) /\ py' \in PyType /\ loc' \in Connection(Bytes)
      /\ serviceSaid' = serviceSaid /\ e \in Seq(WireFrame) /\ t \in Seq(WireFrame)
  BY <1>3, <1>4, PyWired DEF e
<1>7. py.run \notin {"none", "dialling"}
  BY PumpAtWork
<1>8. LifeOfPy'
  <2>1. py.owed = 0
    BY DEF IInv, LifeOfPy
  <2> QED
    BY <1>2, <1>7, <2>1 DEF LifeOfPy
<1>9. HeardEnd(py)'
  BY <1>2 DEF HeardEnd
<1>10. PyWord(e, t)
  BY <1>2, <1>4, <1>5, <1>7, <1>8, <1>9 DEF PyWord, Kept, Ended
<1>11. PyBytes(e, t)
  <2>1. Held' = Held /\ Held \in Nat
    BY <1>1, <1>2 DEF Held, PyFacts
  <2>2. /\ py'.sendCredit + DataIn(e) = py.sendCredit + AcksIn(t)
        /\ Len(loc'.inq) + DataIn(e) <= Len(loc.inq)
        /\ ~(DataIn(e) > 0)
    <3>1. py.sendCredit \in Int /\ Len(loc'.inq) \in Nat /\ Len(loc'.inq) <= Len(loc.inq)
      BY <1>1, <1>2, <1>6, ConnectionTyped DEF PyFacts, Kept
    <3> QED
      BY <1>2, <1>4, <1>5, <3>1
  <2>3. Held' + AcksIn(e) = Held + DataIn(t)
    BY <1>4, <1>5, <2>1
  <2> QED
    BY <1>6, <2>2, <2>3, PyAccounts
<1> QED
  BY <1>6, <1>10, <1>11 DEF PyLaw

\* _to_local's items obey the law.
LEMMA ToLocalItemLaw ==
  ASSUME IInv, P!ToLocalItem, UNCHANGED <<sVars, outsideVars>>
  PROVE  \E e, t : PyLaw(e, t)
<1> DEFINE box == py.inbox
           item == Head(box)
           rest == Tail(box)
           g == P!Turn
           h == [g EXCEPT !.st = [g.st EXCEPT !.inbox = Tail(g.st.inbox)]]
<1>1. PyFacts
  BY PyKnown
<1>2. /\ py.toLocal = "get" /\ box # <<>> /\ UNCHANGED P!local
      /\ P!Commit(IF item.type = "EOF" THEN P!OnEofItem(h) ELSE P!OnItem(h, item.data))
  BY DEF P!ToLocalItem
<1>3. g \in PyTurn /\ g.st = py /\ g.sock = loc /\ g.sent = <<>>
  BY PyTurnStarts
<1>4. /\ item \in WireFrame /\ rest \in Seq(WireFrame)
      /\ TypesIn(box) = {item.type} \cup TypesIn(rest)
      /\ DataIn(box) = DataOf(item) + DataIn(rest)
      /\ DataIn(rest) \in Nat
  <2>1. box \in Seq(WireFrame)
    BY <1>1 DEF PyFacts
  <2> HIDE DEF box
  <2>2. /\ item \in WireFrame /\ rest \in Seq(WireFrame)
        /\ TypesIn(box) = {item.type} \cup TypesIn(rest)
        /\ DataIn(box) = DataOf(item) + DataIn(rest)
    BY <1>2, <2>1, TakenSeen DEF WireFrame
  <2> HIDE DEF rest
  <2>3. DataIn(rest) \in Nat
    BY <2>2, CountsBounded DEF WireFrame
  <2> QED
    BY <2>2, <2>3
<1>5. h \in PyTurn /\ h.st = [py EXCEPT !.inbox = rest] /\ h.sock = loc /\ h.sent = <<>>
  <2>1. h = [g EXCEPT !.st = [py EXCEPT !.inbox = rest]]
    BY <1>3
  <2>2. [py EXCEPT !.inbox = rest] \in PyType
    BY <1>1, <1>4, PyFields DEF PyFacts
  <2> HIDE DEF g, h
  <2> QED
    BY <1>3, <2>1, <2>2, PyParts
<1>6. /\ h.st.run = py.run /\ h.st.toServer = py.toServer /\ h.st.inbox = rest
      /\ h.st.sendCredit = py.sendCredit /\ h.st.finished = py.finished
      /\ h.st.owed = py.owed /\ py.owed = 0
  <2>1. py \in PyType /\ py.owed = 0
    BY <1>1, <1>2 DEF PyFacts, LifeOfPy
  <2> HIDE DEF g, h, rest
  <2> QED
    BY <1>5, <2>1 DEF PyType
<1>7. TypesIn(box) \subseteq {"DATA", "EOF"} /\ Held = DataIn(box)
  <2>1. TypesIn(box) \subseteq {"DATA", "EOF"} /\ py.owed = 0 /\ py \in PyType
    BY <1>1, <1>6 DEF PyFacts, LifeOfPy
  <2>2. DataIn(box) \in Nat
    BY <2>1, HeldTyped
  <2>3. Held = DataIn(box) + py.owed
    BY DEF Held
  <2> DEFINE n == DataIn(box)
  <2>4. n \in Nat /\ Held = n + py.owed
    BY <2>2, <2>3
  <2> HIDE DEF n
  <2>5. Held = n
    BY <2>1, <2>4
  <2> QED
    BY <2>1, <2>5 DEF n
<1> HIDE DEF g, h, item, rest
<1>8. CASE item.type = "EOF"
  <2> DEFINE r == P!OnEofItem(h)
  <2>1. PyEnded(r, h) /\ r \in PyTurn /\ P!Commit(r)
    BY <1>2, <1>5, <1>8, PyOnEofItem DEF PyEnded
  <2> HIDE DEF r
  <2>2. PyCommitted(r, <<>>)
    BY <1>2, <2>1, PyTaskTurned
  <2>3. DataIn(h.st.inbox) = DataIn(py.inbox)
    BY <1>4, <1>6, <1>8, FrameKinds DEF WireFrame
  <2> QED
    BY <1>2, <1>4, <1>5, <1>6, <1>7, <2>1, <2>2, <2>3, PyEndedLaw
<1>9. CASE item.type # "EOF"
  <2> DEFINE d == item.data
             n == Len(d)
             r == P!OnItem(h, d)
  <2>1. item.type = "DATA"
    BY <1>4, <1>7, <1>9
  <2>2. d \in Seq(Bytes) /\ d # <<>> /\ n \in Nat \ {0} /\ DataOf(item) = n
    BY <1>4, <2>1, FrameKinds DEF WireFrame
  <2> HIDE DEF d
  <2>3. PyAte(r, h, n) /\ r \in PyTurn
    BY <1>5, <2>2, PyOnItem DEF PyAte
  <2>4. P!Commit(r)
    BY <1>2, <1>9 DEF d
  <2> HIDE DEF r, n
  <2>5. PyCommitted(r, <<>>)
    BY <1>2, <2>3, <2>4, PyTaskTurned
  <2>6. DataIn(h.st.inbox) + n = Held
    BY <1>4, <1>6, <1>7, <2>2
  <2>7. "EOF" \in TypesIn(py.inbox) => "EOF" \in TypesIn(h.st.inbox)
    BY <1>4, <1>6, <1>9
  <2>8. TypesIn(h.st.inbox) \subseteq {"DATA", "EOF"}
    BY <1>4, <1>6, <1>7
  <2> QED
    BY <1>2, <1>5, <1>6, <2>2, <2>3, <2>5, <2>6, <2>7, <2>8, PyAteLaw
<1> QED
  BY <1>8, <1>9

\* What _to_local does after a drain() obeys the law.
LEMMA ToLocalDrainedLaw ==
  ASSUME IInv, P!ToLocalDrained, UNCHANGED <<sVars, outsideVars>>
  PROVE  \E e, t : PyLaw(e, t)
<1> DEFINE h == P!Turn
<1>1. PyFacts
  BY PyKnown
<1>2. h \in PyTurn /\ h.st = py /\ h.sock = loc /\ h.sent = <<>>
  BY PyTurnStarts
<1>3. TypesIn(py.inbox) \subseteq {"DATA", "EOF"}
  BY <1>1 DEF PyFacts, LifeOfPy
<1>4. CASE py.toLocal = "drain"
  <2> DEFINE r == P!AfterDrain(h, "drain", P!Acknowledge)
  <2>1. P!Commit(r) /\ UNCHANGED P!local
    BY <1>4 DEF P!ToLocalDrained
  <2>2. py.owed \in Nat \ {0} /\ DataIn(py.inbox) + py.owed = Held
    BY <1>1, <1>4 DEF PyFacts, LifeOfPy, Held
  <2> HIDE DEF h
  <2>3. PyAte(r, h, py.owed) /\ r \in PyTurn
    BY <1>2, <2>2, PyDrainsData DEF PyAte
  <2> HIDE DEF r
  <2>4. PyCommitted(r, <<>>)
    BY <2>1, <2>3, PyTaskTurned
  <2> QED
    BY <1>2, <1>3, <1>4, <2>2, <2>3, <2>4, PyAteLaw
<1>5. CASE py.toLocal = "eof"
  <2> DEFINE r == P!AfterDrain(h, "eof", P!HalfClose)
  <2>1. P!Commit(r) /\ UNCHANGED P!local
    BY <1>5 DEF P!ToLocalDrained
  <2> HIDE DEF h
  <2>2. PyEnded(r, h) /\ r \in PyTurn
    BY <1>2, PyDrainsHead DEF PyEnded
  <2> HIDE DEF r
  <2>3. PyCommitted(r, <<>>)
    BY <2>1, <2>2, PyTaskTurned
  <2> QED
    BY <1>2, <1>3, <1>5, <2>2, <2>3, PyEndedLaw
<1> QED
  BY <1>4, <1>5 DEF P!ToLocalDrained

\* A turn that leaves _to_local where it is, at most with one frame more, or
\* with other credit, obeys the law.
LEMMA PyPlainLaw ==
  ASSUME IInv, NEW r, NEW t, PyCommitted(r, t), NEW e, e = r.sent,
         Len(e) \in {0, 1}, Kept(r.sock, loc, Bytes),
         py.run # "none", r.st.run \notin {"none", "dialling"},
         r.st.finished = py.finished,
         \/ r.st.toLocal = py.toLocal /\ r.st.owed = py.owed
         \/ r.st.toLocal = "get" /\ py.toLocal = "off" /\ r.st.owed = 0 /\ py.owed = 0,
         r.st.inbox = py.inbox,
         t = <<>>, AcksIn(e) = 0,
         TypesIn(e) \subseteq {"DATA", "EOF", "RESET"},
         \/ r.st.toServer # "over" /\ py.toServer # "over"
         \/ r.st.toServer = "over" /\ Ended \cap TypesIn(e) # {},
         Ended \cap TypesIn(e) # {} => r.st.toServer = "over",
         "DATA" \in TypesIn(e) => py.toServer = "read",
         r.st.sendCredit = py.sendCredit - DataIn(e),
         DataIn(e) > 0 => py.sendCredit > 0 /\ DataIn(e) <= MaxChunk,
         Len(r.sock.inq) + DataIn(e) <= Len(loc.inq)
  PROVE  PyLaw(e, t)
<1>1. PyFacts
  BY PyKnown
<1>2. py' = r.st /\ loc' = r.sock
  BY DEF PyCommitted
<1>3. PyWire(e, t) /\ py' \in PyType /\ loc' \in Connection(Bytes)
      /\ serviceSaid' = serviceSaid /\ e \in Seq(WireFrame) /\ t \in Seq(WireFrame)
  BY PyWired
<1>4. TypesIn(t) = {} /\ DataIn(t) = 0 /\ AcksIn(t) = 0
  BY FewFrames
<1>5. LifeOfPy'
  BY <1>1, <1>2 DEF LifeOfPy, PyFacts, Kept
<1>6. HeardEnd(py) => HeardEnd(py)'
  BY <1>2 DEF HeardEnd, Ended
<1>7. PyWord(e, t)
  BY <1>2, <1>4, <1>5, <1>6 DEF PyWord, Kept, Ended
<1>8. PyBytes(e, t)
  <2>1. Held' = Held /\ Held \in Nat
    <3>1. py'.owed = py.owed /\ py'.inbox = py.inbox
      BY <1>2
    <3> QED
      BY <1>1, <3>1 DEF Held, PyFacts
  <2>2. DataIn(e) \in Nat
    BY <1>3, CountsBounded DEF WireFrame
  <2>3. py'.sendCredit + DataIn(e) = py.sendCredit + AcksIn(t)
    <3>1. py.sendCredit \in Int /\ py'.sendCredit = py.sendCredit - DataIn(e)
      BY <1>1, <1>2 DEF PyFacts
    <3> QED
      BY <1>4, <2>2, <3>1
  <2>4. Held' + AcksIn(e) = Held + DataIn(t)
    BY <1>4, <2>1
  <2>5. Len(loc'.inq) + DataIn(e) <= Len(loc.inq)
    BY <1>2
  <2> QED
    BY <1>3, <2>3, <2>4, <2>5, PyAccounts
<1> QED
  BY <1>3, <1>7, <1>8 DEF PyLaw

\* A connection stays one when it is read from, or left alone.
LEMMA ConnectionRead ==
  ASSUME NEW c \in Connection(Bytes), NEW k \in 1..Len(c.inq)
  PROVE  LET d == [c EXCEPT !.inq = SubSeq(c.inq, k + 1, Len(c.inq))]
         IN  /\ Kept(d, c, Bytes) /\ Len(d.inq) + k <= Len(c.inq)
             /\ SubSeq(c.inq, 1, k) \in Seq(Bytes)
             /\ Len(SubSeq(c.inq, 1, k)) = k
             /\ SubSeq(c.inq, 1, k) # <<>>
<1> DEFINE D == Seq(Bytes)
           C == [inq : D, fin : BOOLEAN, out : D, paused : BOOLEAN,
                 eof : BOOLEAN, closing : BOOLEAN, lost : BOOLEAN, got : D]
           m == k + 1
           all == c.inq
           s == SubSeq(all, m, Len(all))
           d == [c EXCEPT !.inq = s]
           first == SubSeq(all, 1, k)
<1>1. c \in C /\ all \in D /\ Len(all) \in Nat /\ C = Connection(Bytes)
  BY ConnectionTyped DEF Connection
<1>2. m \in 1..(Len(all) + 1) /\ m - 1 = k /\ k \in Nat \ {0} /\ k <= Len(all)
  BY <1>1
<1>3. first \in Seq(Bytes) /\ Len(first) = k /\ first # <<>>
  <2>1. all \in Seq(Bytes)
    BY <1>1
  <2> HIDE DEF all
  <2>2. first \in Seq(Bytes) /\ Len(first) = k
    BY <1>2, <2>1, SubSeqProperties
  <2> QED
    BY <1>2, <2>2
<1>4. s \in Seq(Bytes) /\ Len(s) = Len(all) - k
  <2>1. all \in Seq(Bytes)
    BY <1>1
  <2> HIDE DEF all, m
  <2> QED
    BY <1>2, <2>1, SubSeqTyped
<1>5. d \in C /\ d.lost = c.lost /\ d.inq = s
  <2>1. s \in D
    BY <1>4
  <2> HIDE DEF s, D
  <2> QED
    BY <1>1, <2>1
<1> HIDE DEF first, s, C
<1>6. Kept(d, c, Bytes) /\ Len(d.inq) + k <= Len(c.inq)
  <2>1. Len(d.inq) = Len(all) - k
    BY <1>4, <1>5
  <2> HIDE DEF d
  <2> QED
    BY <1>1, <1>2, <1>5, <2>1 DEF Kept, all
<1> QED
  BY <1>3, <1>6 DEF d, s, m, first, all

\* _to_server's chunks obey the law.
LEMMA ToServerDataLaw ==
  ASSUME IInv, P!ToServerData, UNCHANGED <<sVars, outsideVars>>
  PROVE  \E e, t : PyLaw(e, t)
<1>1. PyFacts
  BY PyKnown
<1>2. PICK k \in 1..MaxChunk :
         /\ k <= Len(loc.inq)
         /\ P!Commit([P!Send(P!Turn, P!DataFrame(SubSeq(loc.inq, 1, k))) EXCEPT
                        !.st.sendCredit = @ - k,
                        !.sock.inq = SubSeq(@, k + 1, Len(@))])
  BY DEF P!ToServerData
<1>3. /\ py.toServer = "read" /\ py.sendCredit > 0 /\ UNCHANGED P!local
  BY DEF P!ToServerData, P!HasCredit
<1> DEFINE g == P!Turn
           d == SubSeq(loc.inq, 1, k)
           f == P!DataFrame(d)
           c == [loc EXCEPT !.inq = SubSeq(loc.inq, k + 1, Len(loc.inq))]
           credit == py.sendCredit - k
           s == [py EXCEPT !.sendCredit = credit]
           h1 == P!Send(g, f)
           h2 == [h1 EXCEPT !.st = [h1.st EXCEPT !.sendCredit = h1.st.sendCredit - k]]
           r == [h2 EXCEPT !.sock = [h2.sock EXCEPT
                   !.inq = SubSeq(h2.sock.inq, k + 1, Len(h2.sock.inq))]]
           e == r.sent
           t == <<>>
<1>4. P!Commit(r)
  BY <1>2
<1>5. g \in PyTurn /\ g.st = py /\ g.sock = loc /\ g.sent = <<>>
  BY PyTurnStarts
<1> HIDE DEF g
<1>6. /\ Kept(c, loc, Bytes) /\ Len(c.inq) + k <= Len(loc.inq)
      /\ d \in Seq(Bytes) /\ Len(d) = k /\ d # <<>>
  <2>1. loc \in Connection(Bytes) /\ k \in 1..Len(loc.inq)
    BY <1>1, <1>2 DEF PyFacts
  <2> QED
    BY <2>1, ConnectionRead
<1>7. /\ f \in WireFrame /\ f.type = "DATA" /\ DataOf(f) = k /\ AckOf(f) = 0
  <2>1. f = DataFrame(d)
    BY SameOperators
  <2> HIDE DEF d, f
  <2> QED
    BY <1>6, <2>1, FramesTyped
<1> HIDE DEF d, f
<1>8. /\ h1 \in PyTurn /\ h1.st = py /\ h1.sock = loc /\ h1.sent = Append(<<>>, f)
  <2> HIDE DEF h1
  <2>1. LET q == P!Send(g, f)
        IN  /\ q \in PyTurn /\ q.st = g.st /\ q.sock = g.sock
            /\ q.sent = Append(g.sent, f)
    BY <1>5, <1>7, PyParts
  <2> QED
    BY <1>5, <2>1 DEF h1
<1> HIDE DEF h1
<1>9. h2 \in PyTurn /\ h2.st = s /\ h2.sock = loc /\ h2.sent = Append(<<>>, f)
  <2>1. credit \in Int /\ py \in PyType
    BY <1>1, <1>2 DEF PyFacts
  <2>2. h2 = [h1 EXCEPT !.st = s]
    BY <1>8
  <2>3. s \in PyType
    <3> HIDE DEF credit
    <3> QED
      BY <2>1, PyFields
  <2> HIDE DEF s, h2
  <2> QED
    BY <1>8, <2>2, <2>3, PyParts
<1> HIDE DEF h2
<1>10. r \in PyTurn /\ r.st = s /\ r.sock = c /\ r.sent = Append(<<>>, f)
  <2>1. r = [h2 EXCEPT !.sock = c]
    BY <1>9
  <2>2. c \in Connection(Bytes)
    BY <1>6 DEF Kept
  <2> HIDE DEF s, c, r
  <2> QED
    BY <1>9, <2>1, <2>2, PyParts
<1> HIDE DEF r, c
<1>11. PyCommitted(r, t)
  BY <1>3, <1>4, <1>10, PyTaskTurned
<1>12. /\ s.run = py.run /\ s.toLocal = py.toLocal /\ s.toServer = py.toServer
       /\ s.inbox = py.inbox /\ s.owed = py.owed /\ s.finished = py.finished
       /\ s.sendCredit = py.sendCredit - k
  BY <1>1 DEF PyFacts, PyType
<1> HIDE DEF s, e, t
<1>13. /\ Len(e) \in {0, 1} /\ TypesIn(e) = {"DATA"} /\ DataIn(e) = k /\ AcksIn(e) = 0
  BY <1>7, <1>10, PySays DEF e
<1>14. py.run \notin {"none", "dialling"}
  BY <1>3, PumpAtWork
<1>15. k <= MaxChunk /\ Len(r.sock.inq) + DataIn(e) <= Len(loc.inq)
  BY <1>1, <1>2, <1>6, <1>10, <1>13 DEF PyFacts
<1>16. r.st.sendCredit = py.sendCredit - DataIn(e)
  BY <1>10, <1>12, <1>13
<1>17. t = <<>> /\ e = r.sent
  BY DEF e, t
<1>18. Kept(r.sock, loc, Bytes)
  BY <1>6, <1>10
<1>19. PyLaw(e, t)
  BY <1>3, <1>10, <1>11, <1>12, <1>13, <1>14, <1>15, <1>16, <1>17, <1>18,
     PyPlainLaw DEF Ended
<1> QED
  BY <1>19

\* The end _to_server says obeys the law, whether read() ended or raised.
LEMMA ToServerEndsLaw ==
  ASSUME IInv, P!ToServerEof \/ P!ToServerError, UNCHANGED <<sVars, outsideVars>>
  PROVE  \E e, t : PyLaw(e, t)
<1>1. PyFacts
  BY PyKnown
<1> DEFINE g == P!Turn
           s == [py EXCEPT !.toServer = "over"]
<1>2. PICK f \in {EofFrame, ResetFrame} :
         P!Commit([P!Send(g, f) EXCEPT !.st.toServer = "over"])
  BY SameOperators DEF P!ToServerEof, P!ToServerError
<1>3. /\ py.toServer = "read" /\ UNCHANGED P!local
  BY DEF P!ToServerEof, P!ToServerError
<1> DEFINE h1 == P!Send(g, f)
           r == [h1 EXCEPT !.st = [h1.st EXCEPT !.toServer = "over"]]
           e == r.sent
           t == <<>>
<1>4. P!Commit(r)
  BY <1>2
<1>5. g \in PyTurn /\ g.st = py /\ g.sock = loc /\ g.sent = <<>>
  BY PyTurnStarts
<1> HIDE DEF g
<1>6. /\ f \in WireFrame /\ f.type \in {"EOF", "RESET"} /\ DataOf(f) = 0 /\ AckOf(f) = 0
  BY FramesTyped
<1>7. /\ h1 \in PyTurn /\ h1.st = py /\ h1.sock = loc /\ h1.sent = Append(<<>>, f)
  <2> HIDE DEF h1
  <2>1. LET q == P!Send(g, f)
        IN  /\ q \in PyTurn /\ q.st = g.st /\ q.sock = g.sock
            /\ q.sent = Append(g.sent, f)
    BY <1>5, <1>6, PyParts
  <2> QED
    BY <1>5, <2>1 DEF h1
<1> HIDE DEF h1
<1>8. r \in PyTurn /\ r.st = s /\ r.sock = loc /\ r.sent = Append(<<>>, f)
  <2>1. r = [h1 EXCEPT !.st = s]
    BY <1>7
  <2>2. s \in PyType
    BY <1>1, PyFields DEF PyFacts
  <2> HIDE DEF s, r
  <2> QED
    BY <1>7, <2>1, <2>2, PyParts
<1> HIDE DEF r
<1>9. PyCommitted(r, t)
  BY <1>3, <1>4, <1>8, PyTaskTurned
<1>10. /\ s.run = py.run /\ s.toLocal = py.toLocal /\ s.toServer = "over"
       /\ s.inbox = py.inbox /\ s.owed = py.owed /\ s.finished = py.finished
       /\ s.sendCredit = py.sendCredit /\ py.sendCredit \in Int
  BY <1>1 DEF PyFacts, PyType
<1> HIDE DEF s, e, t
<1>11. /\ Len(e) \in {0, 1} /\ TypesIn(e) = {f.type} /\ DataIn(e) = 0 /\ AcksIn(e) = 0
  BY <1>6, <1>8, PySays DEF e
<1>12. py.run \notin {"none", "dialling"}
  BY <1>3, PumpAtWork
<1>13. Kept(r.sock, loc, Bytes) /\ Len(r.sock.inq) + DataIn(e) <= Len(loc.inq)
  BY <1>1, <1>8, <1>11 DEF PyFacts, Kept
<1>14. r.st.sendCredit = py.sendCredit - DataIn(e)
  BY <1>8, <1>10, <1>11
<1>15. t = <<>> /\ e = r.sent
  BY DEF e, t
<1>16. /\ TypesIn(e) \subseteq {"DATA", "EOF", "RESET"}
       /\ Ended \cap TypesIn(e) # {} /\ "DATA" \notin TypesIn(e)
  BY <1>6, <1>11 DEF Ended
<1>17. /\ r.st.run \notin {"none", "dialling"} /\ r.st.finished = py.finished
       /\ r.st.toLocal = py.toLocal /\ r.st.owed = py.owed
       /\ r.st.inbox = py.inbox /\ r.st.toServer = "over"
  BY <1>8, <1>10, <1>12
<1>18. PyLaw(e, t)
  BY <1>9, <1>11, <1>12, <1>13, <1>14, <1>15, <1>16, <1>17, PyPlainLaw
<1> QED
  BY <1>18

\* The dial that succeeds obeys the law.
LEMMA DialOkLaw ==
  ASSUME IInv, P!DialOk, UNCHANGED <<sVars, outsideVars>>
  PROVE  \E e, t : PyLaw(e, t)
<1>1. PyFacts
  BY PyKnown
<1> DEFINE g == P!Turn
           h1 == [g EXCEPT !.st = [g.st EXCEPT !.run = "pumps"]]
           h2 == [h1 EXCEPT !.st = [h1.st EXCEPT !.toLocal = "get"]]
           r == [h2 EXCEPT !.st = [h2.st EXCEPT !.toServer = "read"]]
           e == r.sent
           t == <<>>
<1>2. py.run = "dialling" /\ UNCHANGED P!local /\ P!Commit(r)
  BY DEF P!DialOk
<1>3. g \in PyTurn /\ g.st = py /\ g.sock = loc /\ g.sent = <<>> /\ py \in PyType
  BY <1>1, PyTurnStarts DEF PyFacts
<1> HIDE DEF g
<1>4. h1 \in PyTurn /\ h1.st = [g.st EXCEPT !.run = "pumps"] /\ h1.sock = loc /\ h1.sent = <<>>
  BY <1>3, PyParts, PyFields
<1> HIDE DEF h1
<1>5. h2 \in PyTurn /\ h2.st = [h1.st EXCEPT !.toLocal = "get"] /\ h2.sock = loc /\ h2.sent = <<>>
  <2>1. h1.st \in PyType
    BY <1>4, PyParts
  <2> QED
    BY <1>4, <2>1, PyParts, PyFields
<1> HIDE DEF h2
<1>6. r \in PyTurn /\ r.st = [h2.st EXCEPT !.toServer = "read"] /\ r.sock = loc /\ r.sent = <<>>
  <2>1. h2.st \in PyType
    BY <1>5, PyParts
  <2> QED
    BY <1>5, <2>1, PyParts, PyFields
<1> HIDE DEF r
<1>7. /\ r.st.run = "pumps" /\ r.st.toLocal = "get" /\ r.st.toServer = "read"
      /\ r.st.inbox = py.inbox /\ r.st.owed = py.owed /\ r.st.finished = py.finished
      /\ r.st.sendCredit = py.sendCredit
  BY <1>3, <1>4, <1>5, <1>6 DEF PyType
<1>8. py.toLocal = "off" /\ py.toServer = "off" /\ py.owed = 0 /\ py.sendCredit \in Int
  BY <1>1, <1>2 DEF PyFacts, LifeOfPy
<1>9. PyCommitted(r, t)
  BY <1>2, <1>6, PyTaskTurned
<1>10. Len(e) \in {0, 1} /\ TypesIn(e) = {} /\ DataIn(e) = 0 /\ AcksIn(e) = 0
  BY <1>6, PySays
<1> HIDE DEF e, t
<1>11. Kept(r.sock, loc, Bytes) /\ Len(r.sock.inq) + DataIn(e) <= Len(loc.inq)
  BY <1>1, <1>6, <1>10 DEF PyFacts, Kept
<1>12. r.st.sendCredit = py.sendCredit - DataIn(e)
  BY <1>7, <1>8, <1>10
<1>13. t = <<>> /\ e = r.sent
  BY DEF e, t
<1>14. PyLaw(e, t)
  BY <1>2, <1>7, <1>8, <1>9, <1>10, <1>11, <1>12, <1>13, PyPlainLaw DEF Ended
<1> QED
  BY <1>14

\* A turn that ends the stream obeys the law, if the server need not be told, or
\* is told.
LEMMA PyDoneLaw ==
  ASSUME IInv, NEW r, NEW t, PyCommitted(r, t), NEW e, e = r.sent,
         Len(e) \in {0, 1}, Kept(r.sock, loc, Bytes),
         py.run # "none", r.st.finished,
         r.st.inbox = py.inbox, r.st.owed = py.owed, r.st.sendCredit = py.sendCredit,
         r.st.toLocal = py.toLocal \/ r.st.toLocal = "over",
         r.st.toServer = py.toServer \/ r.st.toServer = "over",
         \/ r.st.run = "over"
         \/ /\ r.st.run = py.run /\ r.st.toLocal = py.toLocal
            /\ r.st.toServer = py.toServer,
         TypesIn(e) \subseteq {"RESET"}, DataIn(e) = 0, AcksIn(e) = 0,
         DataIn(t) = 0, AcksIn(t) = 0,
         \/ py.finished \/ py.toServer = "over" \/ ~linkUp \/ loc.lost
         \/ "RESET" \in TypesIn(e) \cup TypesIn(t)
  PROVE  PyLaw(e, t)
<1>1. PyFacts
  BY PyKnown
<1>2. py' = r.st /\ loc' = r.sock
  BY DEF PyCommitted
<1>3. PyWire(e, t) /\ py' \in PyType /\ loc' \in Connection(Bytes)
      /\ serviceSaid' = serviceSaid /\ e \in Seq(WireFrame) /\ t \in Seq(WireFrame)
  BY PyWired
<1>4. LifeOfPy'
  BY <1>1, <1>2 DEF LifeOfPy, PyFacts, Kept
<1>5. HeardEnd(py)'
  BY <1>2 DEF HeardEnd
<1>6. py'.run # "none"
  BY <1>2
<1>7. PyWord(e, t)
  BY <1>2, <1>4, <1>5, <1>6 DEF PyWord, Kept, Ended
<1>8. PyBytes(e, t)
  <2>1. Held' = Held /\ Held \in Nat
    <3>1. py'.owed = py.owed /\ py'.inbox = py.inbox
      BY <1>2
    <3> QED
      BY <1>1, <3>1 DEF Held, PyFacts
  <2>2. py'.sendCredit + DataIn(e) = py.sendCredit + AcksIn(t)
    BY <1>1, <1>2 DEF PyFacts
  <2>3. Held' + AcksIn(e) = Held + DataIn(t)
    BY <2>1
  <2>4. Len(loc'.inq) + DataIn(e) <= Len(loc.inq)
    <3>1. Len(loc'.inq) \in Nat /\ Len(loc'.inq) <= Len(loc.inq)
      BY <1>2, <1>3, ConnectionTyped DEF Kept
    <3> QED
      BY <3>1
  <2> QED
    BY <1>3, <2>2, <2>3, <2>4, PyAccounts
<1> QED
  BY <1>3, <1>7, <1>8 DEF PyLaw

\* A finish() leaves this of the agent's end.
LEMMA PyFinished ==
  ASSUME NEW h \in PyTurn
  PROVE  LET r == P!Finish(h)
         IN  /\ r \in PyTurn /\ r.sent = h.sent /\ Kept(r.sock, h.sock, Bytes)
             /\ r.st.finished /\ r.st.inbox = h.st.inbox /\ r.st.owed = h.st.owed
             /\ r.st.sendCredit = h.st.sendCredit
             /\ \/ /\ r.st.run = h.st.run /\ r.st.toLocal = h.st.toLocal
                   /\ r.st.toServer = h.st.toServer
                \/ /\ r.st.run = "over" /\ r.st.toLocal = "over"
                   /\ r.st.toServer = "over"
<1> DEFINE r == P!Finish(h)
<1>1. /\ r \in PyTurn /\ r.sent = h.sent
      /\ \/ h.st.finished /\ r.st = h.st /\ r.sock = h.sock
         \/ r.sock = h.sock /\ r.st = [h.st EXCEPT !.finished = TRUE]
         \/ /\ r.sock = Close(h.sock)
            /\ r.st = [h.st EXCEPT !.finished = TRUE, !.run = "over",
                                   !.toLocal = "over", !.toServer = "over"]
  BY PyFinish
<1> HIDE DEF r
<1>2. h.st \in PyType /\ h.sock \in Connection(Bytes)
  BY PyParts
<1>3. Kept(h.sock, h.sock, Bytes) /\ Kept(Close(h.sock), h.sock, Bytes)
  <2>1. Len(h.sock.inq) \in Nat
    BY <1>2, ConnectionTyped
  <2>2. Kept(h.sock, h.sock, Bytes)
    BY <1>2, <2>1 DEF Kept
  <2>3. Kept(Close(h.sock), h.sock, Bytes)
    BY <1>2, ConnectionSteps
  <2> QED
    BY <2>2, <2>3
<1>4. Kept(r.sock, h.sock, Bytes)
  BY <1>1, <1>3
<1> DEFINE s == h.st
<1>5. s \in PyType
  BY <1>2
<1> HIDE DEF s
<1>6. /\ s.finished => TRUE
      /\ LET q == [s EXCEPT !.finished = TRUE]
         IN  /\ q.finished /\ q.inbox = s.inbox /\ q.owed = s.owed
             /\ q.sendCredit = s.sendCredit /\ q.run = s.run
             /\ q.toLocal = s.toLocal /\ q.toServer = s.toServer
      /\ LET q == [s EXCEPT !.finished = TRUE, !.run = "over",
                            !.toLocal = "over", !.toServer = "over"]
         IN  /\ q.finished /\ q.inbox = s.inbox /\ q.owed = s.owed
             /\ q.sendCredit = s.sendCredit /\ q.run = "over"
             /\ q.toLocal = "over" /\ q.toServer = "over"
  BY <1>5 DEF PyType
<1>7. /\ r.st.finished /\ r.st.inbox = s.inbox /\ r.st.owed = s.owed
      /\ r.st.sendCredit = s.sendCredit
      /\ \/ /\ r.st.run = s.run /\ r.st.toLocal = s.toLocal
            /\ r.st.toServer = s.toServer
         \/ r.st.run = "over" /\ r.st.toLocal = "over" /\ r.st.toServer = "over"
  BY <1>1, <1>6 DEF s
<1> QED
  BY <1>1, <1>4, <1>7 DEF r, s

\* A finish() by run(), which is then over.
LEMMA PyRunOver ==
  ASSUME NEW h \in PyTurn
  PROVE  LET q == P!Finish(h)
             r == [q EXCEPT !.st = [q.st EXCEPT !.run = "over"]]
         IN  /\ r \in PyTurn /\ r.sent = h.sent /\ Kept(r.sock, h.sock, Bytes)
             /\ r.st.finished /\ r.st.inbox = h.st.inbox /\ r.st.owed = h.st.owed
             /\ r.st.sendCredit = h.st.sendCredit /\ r.st.run = "over"
             /\ r.st.toLocal = h.st.toLocal \/ r.st.toLocal = "over"
             /\ r.st.toServer = h.st.toServer \/ r.st.toServer = "over"
<1> DEFINE q == P!Finish(h)
           r == [q EXCEPT !.st = [q.st EXCEPT !.run = "over"]]
<1>1. /\ q \in PyTurn /\ q.sent = h.sent /\ Kept(q.sock, h.sock, Bytes)
      /\ q.st.finished /\ q.st.inbox = h.st.inbox /\ q.st.owed = h.st.owed
      /\ q.st.sendCredit = h.st.sendCredit
      /\ q.st.toLocal = h.st.toLocal \/ q.st.toLocal = "over"
      /\ q.st.toServer = h.st.toServer \/ q.st.toServer = "over"
  BY PyFinished
<1> HIDE DEF q
<1>2. q.st \in PyType
  BY <1>1, PyParts
<1>3. [q.st EXCEPT !.run = "over"] \in PyType
  BY <1>2, PyFields
<1>4. /\ r \in PyTurn /\ r.st = [q.st EXCEPT !.run = "over"]
      /\ r.sock = q.sock /\ r.sent = q.sent
  BY <1>1, <1>3, PyParts
<1> HIDE DEF r
<1>5. /\ r.st.finished = q.st.finished /\ r.st.inbox = q.st.inbox
      /\ r.st.owed = q.st.owed /\ r.st.sendCredit = q.st.sendCredit
      /\ r.st.run = "over" /\ r.st.toLocal = q.st.toLocal
      /\ r.st.toServer = q.st.toServer
  BY <1>2, <1>4 DEF PyType
<1> QED
  BY <1>1, <1>4, <1>5 DEF q, r

\* run()'s end obeys the law: a pump raised, the connection being lost, or both
\* have returned.
LEMMA PumpsEndLaw ==
  ASSUME IInv, P!PumpsEnd, UNCHANGED <<sVars, outsideVars>>
  PROVE  \E e, t : PyLaw(e, t)
<1> DEFINE h == P!Turn
           q == P!Finish(h)
           r == [q EXCEPT !.st = [q.st EXCEPT !.run = "over"]]
           e == r.sent
           t == <<>>
<1>1. PyFacts
  BY PyKnown
<1>2. /\ py.run = "pumps" /\ P!PumpsOver /\ P!Commit(r) /\ UNCHANGED P!local
  BY DEF P!PumpsEnd
<1>3. h \in PyTurn /\ h.st = py /\ h.sock = loc /\ h.sent = <<>>
  BY PyTurnStarts
<1> HIDE DEF h
<1>4. /\ r \in PyTurn /\ r.sent = <<>> /\ Kept(r.sock, loc, Bytes)
      /\ r.st.finished /\ r.st.inbox = py.inbox /\ r.st.owed = py.owed
      /\ r.st.sendCredit = py.sendCredit /\ r.st.run = "over"
      /\ r.st.toLocal = py.toLocal \/ r.st.toLocal = "over"
      /\ r.st.toServer = py.toServer \/ r.st.toServer = "over"
  BY <1>3, PyRunOver
<1> HIDE DEF r
<1>5. PyCommitted(r, t)
  BY <1>2, <1>4, PyTaskTurned
<1>6. Len(e) \in {0, 1} /\ TypesIn(e) = {} /\ DataIn(e) = 0 /\ AcksIn(e) = 0
  BY <1>4, PySays
<1>7. DataIn(t) = 0 /\ AcksIn(t) = 0
  BY FewFrames
<1>8. e = r.sent
  OBVIOUS
<1> HIDE DEF e, t
<1>9. loc.lost \/ py.toServer = "over"
  BY <1>1, <1>2 DEF P!PumpsOver, PyFacts, LifeOfPy
<1>10. PyLaw(e, t)
  BY <1>2, <1>4, <1>5, <1>6, <1>7, <1>8, <1>9, PyDoneLaw
<1> QED
  BY <1>10

\* The session's end obeys the law.
LEMMA SessionEndsLaw ==
  ASSUME IInv, P!SessionEnds, UNCHANGED <<sVars, outsideVars>>
  PROVE  \E e, t : PyLaw(e, t)
<1> DEFINE h == P!Turn
           t == <<>>
<1>1. PyFacts
  BY PyKnown
<1>2. /\ ~linkUp /\ sessionOver' = TRUE
      /\ UNCHANGED <<sVars, linkUp, toAgent, visitorSaid, serviceSaid, happened>>
      /\ P!Commit(IF P!InStreams THEN P!Finish(h) ELSE h)
  BY DEF P!SessionEnds, outsideVars
<1>3. h \in PyTurn /\ h.st = py /\ h.sock = loc /\ h.sent = <<>>
  BY PyTurnStarts
<1> HIDE DEF h
<1>4. CASE P!InStreams
  <2> DEFINE r == P!Finish(h)
             e == r.sent
  <2>1. P!Commit(r) /\ py.run # "none"
    BY <1>2, <1>4 DEF P!InStreams
  <2>2. /\ r \in PyTurn /\ r.sent = <<>> /\ Kept(r.sock, loc, Bytes)
        /\ r.st.finished /\ r.st.inbox = py.inbox /\ r.st.owed = py.owed
        /\ r.st.sendCredit = py.sendCredit
        /\ \/ /\ r.st.run = py.run /\ r.st.toLocal = py.toLocal
              /\ r.st.toServer = py.toServer
           \/ /\ r.st.run = "over" /\ r.st.toLocal = "over"
              /\ r.st.toServer = "over"
    BY <1>3, PyFinished
  <2> HIDE DEF r
  <2>3. PyCommitted(r, t)
    BY <1>1, <1>2, <2>1, <2>2, PyTurned DEF PyFacts
  <2>4. Len(e) \in {0, 1} /\ TypesIn(e) = {} /\ DataIn(e) = 0 /\ AcksIn(e) = 0
    BY <2>2, PySays
  <2>5. DataIn(t) = 0 /\ AcksIn(t) = 0
    BY FewFrames
  <2>6. e = r.sent
    OBVIOUS
  <2> HIDE DEF e, t
  <2>7. PyLaw(e, t)
    BY <1>2, <2>1, <2>2, <2>3, <2>4, <2>5, <2>6, PyDoneLaw
  <2> QED
    BY <2>7
<1>5. CASE ~P!InStreams
  <2>1. PyCommitted(h, t)
    BY <1>1, <1>2, <1>3, <1>5, PyTurned DEF PyFacts
  <2>2. py' = py /\ loc' = loc /\ toServer' = toServer /\ toAgent' = toAgent
    BY <1>2, <1>3, <2>1 DEF PyCommitted
  <2>3. PyLaw(<<>>, <<>>)
    BY <1>1, <1>2, <2>2, PyIdle DEF PyFacts
  <2> QED
    BY <2>3
<1> QED
  BY <1>4, <1>5

\* The dial that fails obeys the law.
LEMMA DialFailLaw ==
  ASSUME IInv, DialFails
  PROVE  \E e, t : PyLaw(e, t)
<1> DEFINE g == P!Turn
           h == P!Send(g, ResetFrame)
           q == P!Finish(h)
           r == [q EXCEPT !.st = [q.st EXCEPT !.run = "over"]]
           e == r.sent
           t == <<>>
<1>1. PyFacts
  BY PyKnown
<1>2. /\ py.run = "dialling" /\ P!Commit(r)
      /\ UNCHANGED <<sVars, sessionOver, linkUp, toAgent, visitorSaid, serviceSaid>>
      /\ happened' \in Histories
  BY SameOperators DEF DialFails, P!DialFail, P!DialFailed, P!local, Happens
<1>3. g \in PyTurn /\ g.st = py /\ g.sock = loc /\ g.sent = <<>>
  BY PyTurnStarts
<1> HIDE DEF g
<1>4. h \in PyTurn /\ h.st = py /\ h.sock = loc /\ h.sent = Append(<<>>, ResetFrame)
  <2>1. ResetFrame \in WireFrame
    BY FramesTyped
  <2>2. LET s == P!Send(g, ResetFrame)
        IN  /\ s \in PyTurn /\ s.st = g.st /\ s.sock = g.sock
            /\ s.sent = Append(g.sent, ResetFrame)
    BY <1>3, <2>1, PyParts
  <2> QED
    BY <1>3, <2>2
<1> HIDE DEF h
<1>5. /\ r \in PyTurn /\ r.sent = Append(<<>>, ResetFrame) /\ Kept(r.sock, loc, Bytes)
      /\ r.st.finished /\ r.st.inbox = py.inbox /\ r.st.owed = py.owed
      /\ r.st.sendCredit = py.sendCredit /\ r.st.run = "over"
      /\ r.st.toLocal = py.toLocal \/ r.st.toLocal = "over"
      /\ r.st.toServer = py.toServer \/ r.st.toServer = "over"
  BY <1>4, PyRunOver
<1> HIDE DEF r
<1>6. PyCommitted(r, t)
  BY <1>1, <1>2, <1>5, PyTurned DEF PyFacts
<1>7. Len(e) \in {0, 1} /\ TypesIn(e) = {"RESET"} /\ DataIn(e) = 0 /\ AcksIn(e) = 0
  BY <1>5, FramesTyped, PySays
<1>8. DataIn(t) = 0 /\ AcksIn(t) = 0
  BY FewFrames
<1>9. e = r.sent
  OBVIOUS
<1> HIDE DEF e, t
<1>10. PyLaw(e, t)
  BY <1>2, <1>5, <1>6, <1>7, <1>8, <1>9, PyDoneLaw
<1> QED
  BY <1>10

\* The agent takes the first frame of its queue.
LEMMA PyTaken ==
  ASSUME IInv, P!PyReceive, UNCHANGED <<sVars, outsideVars>>
  PROVE  LET f == Head(toAgent)
         IN  /\ f \in WireFrame /\ f.type \in TypesIn(toAgent)
             /\ <<f>> # <<>> /\ TypesIn(<<f>>) = {f.type}
             /\ DataIn(<<f>>) = DataOf(f) /\ AcksIn(<<f>>) = AckOf(f)
             /\ \E known \in BOOLEAN : P!Commit(P!OnStream(f, known))
             /\ \A r : r \in PyTurn /\ P!Commit(r) => PyCommitted(r, <<f>>)
<1>1. PyFacts
  BY PyKnown
<1>2. /\ toAgent # <<>> /\ toAgent' = Tail(toAgent)
      /\ \E known \in BOOLEAN : P!Commit(P!OnStream(Head(toAgent), known))
      /\ UNCHANGED <<sVars, linkUp, visitorSaid, serviceSaid, sessionOver, happened>>
  BY PyBridgeAssumption DEF P!PyReceive, outsideVars
<1> DEFINE c == toAgent
           f == Head(c)
           rest == Tail(c)
<1>3. c \in Seq(WireFrame) /\ c # <<>>
  BY <1>1, <1>2 DEF PyFacts
<1> HIDE DEF c
<1>4. /\ f \in WireFrame /\ rest \in Seq(WireFrame)
      /\ c = <<f>> \o rest /\ <<f>> \in Seq(WireFrame)
      /\ TypesIn(<<f>>) = {f.type}
      /\ DataIn(<<f>>) = DataOf(f) /\ AcksIn(<<f>>) = AckOf(f)
      /\ f.type \in TypesIn(c)
  BY <1>3, FirstTaken
<1> HIDE DEF f, rest
<1>5. ASSUME NEW r, r \in PyTurn, P!Commit(r)
      PROVE  PyCommitted(r, <<f>>)
  <2>1. toServer' = IF linkUp THEN toServer \o r.sent ELSE toServer
    BY <1>1, <1>5 DEF P!Commit, PyFacts
  <2>2. toAgent' = rest /\ toAgent = <<f>> \o rest
    BY <1>2, <1>4 DEF c, rest
  <2> QED
    BY <1>1, <1>2, <1>4, <1>5, <2>1, <2>2 DEF P!Commit, PyCommitted, PyFacts
<1>6. \E known \in BOOLEAN : P!Commit(P!OnStream(f, known))
  BY <1>2 DEF f, c
<1>7. /\ f \in WireFrame /\ f.type \in TypesIn(toAgent)
      /\ <<f>> # <<>> /\ TypesIn(<<f>>) = {f.type}
      /\ DataIn(<<f>>) = DataOf(f) /\ AcksIn(<<f>>) = AckOf(f)
      /\ \E known \in BOOLEAN : P!Commit(P!OnStream(f, known))
      /\ \A r : r \in PyTurn /\ P!Commit(r) => PyCommitted(r, <<f>>)
  BY <1>4, <1>5, <1>6 DEF c
<1> QED
  BY <1>7 DEF f, c

\* STREAM_OPEN at the agent obeys the law.
LEMMA PyOpenLaw ==
  ASSUME IInv, P!PyReceive, UNCHANGED <<sVars, outsideVars>>,
         Head(toAgent).type = "OPEN"
  PROVE  \E e, t : PyLaw(e, t)
<1> DEFINE f == Head(toAgent)
           g == P!Turn
           dials == [g EXCEPT !.st = [g.st EXCEPT !.run = "dialling"]]
           refuses == P!Send(g, ResetFrame)
           t == <<f>>
<1>1. PyFacts
  BY PyKnown
<1>2. /\ f \in WireFrame /\ "OPEN" \in TypesIn(toAgent) /\ t # <<>>
      /\ TypesIn(t) = {"OPEN"} /\ DataIn(t) = DataOf(f) /\ AcksIn(t) = AckOf(f)
      /\ \E known \in BOOLEAN : P!Commit(P!OnStream(f, known))
      /\ \A r : r \in PyTurn /\ P!Commit(r) => PyCommitted(r, t)
  BY PyTaken
<1>3. \A known : P!OnStream(f, known) = IF known THEN dials ELSE refuses
  BY SameOperators DEF P!OnStream
<1>4. DataIn(t) = 0 /\ AcksIn(t) = 0
  BY <1>2, FrameKinds DEF WireFrame
<1>5. P!Commit(dials) \/ P!Commit(refuses)
  BY <1>2, <1>3
<1> HIDE DEF f, t
<1>6. g \in PyTurn /\ g.st = py /\ g.sock = loc /\ g.sent = <<>>
  BY PyTurnStarts
<1> HIDE DEF g
<1>7. py.run = "none" /\ py = P!NoPyStream(py.rewriteHost)
  BY <1>1, <1>2 DEF IInv, Chan, PyFacts, LifeOfPy
<1>8. /\ dials \in PyTurn /\ dials.st = [py EXCEPT !.run = "dialling"]
      /\ dials.sock = loc /\ dials.sent = <<>>
  <2>1. [g.st EXCEPT !.run = "dialling"] \in PyType
    BY <1>1, <1>6, PyFields DEF PyFacts
  <2> QED
    BY <1>6, <2>1, PyParts
<1>9. /\ refuses \in PyTurn /\ refuses.st = py
      /\ refuses.sock = loc /\ refuses.sent = Append(<<>>, ResetFrame)
  <2>1. ResetFrame \in WireFrame
    BY FramesTyped
  <2>2. LET s == P!Send(g, ResetFrame)
        IN  /\ s \in PyTurn /\ s.st = g.st /\ s.sock = g.sock
            /\ s.sent = Append(g.sent, ResetFrame)
    BY <1>6, <2>1, PyParts
  <2> QED
    BY <1>6, <2>2
<1> HIDE DEF dials, refuses
<1>10. PICK r : /\ PyCommitted(r, t) /\ r.sock = loc
                /\ \/ r.st = [py EXCEPT !.run = "dialling"] /\ r.sent = <<>>
                   \/ r.st = py /\ r.sent = Append(<<>>, ResetFrame)
  BY <1>2, <1>5, <1>8, <1>9
<1> DEFINE e == r.sent
<1>11. /\ Len(e) \in {0, 1} /\ DataIn(e) = 0 /\ AcksIn(e) = 0
       /\ \/ TypesIn(e) = {} /\ r.st = [py EXCEPT !.run = "dialling"]
          \/ TypesIn(e) = {"RESET"} /\ r.st = py
  BY <1>10, FramesTyped, PySays
<1> HIDE DEF e
<1>12. PyWire(e, t) /\ py' \in PyType /\ loc' \in Connection(Bytes)
       /\ serviceSaid' = serviceSaid /\ e \in Seq(WireFrame) /\ t \in Seq(WireFrame)
  BY <1>10, <1>11, PyWired DEF e
<1>13. /\ loc' = loc
       /\ \/ TypesIn(e) = {} /\ py' = [py EXCEPT !.run = "dialling"]
          \/ TypesIn(e) = {"RESET"} /\ py' = py
  BY <1>10, <1>11 DEF PyCommitted
<1>14. /\ py'.toLocal = py.toLocal /\ py'.toServer = py.toServer
       /\ py'.inbox = py.inbox /\ py'.owed = py.owed /\ py'.finished = py.finished
       /\ py'.sendCredit = py.sendCredit
       /\ py.toLocal = "off" /\ py.toServer = "off" /\ py.owed = 0 /\ ~py.finished
       /\ \/ TypesIn(e) = {} /\ py'.run = "dialling"
          \/ TypesIn(e) = {"RESET"} /\ py' = py
  BY <1>1, <1>7, <1>13 DEF PyFacts, PyType, P!NoPyStream
<1>15. LifeOfPy'
  BY <1>1, <1>7, <1>13, <1>14 DEF LifeOfPy, PyFacts
<1>16. HeardEnd(py) => HeardEnd(py)'
  BY <1>14 DEF HeardEnd
<1>17. PyWord(e, t)
  BY <1>2, <1>7, <1>13, <1>14, <1>15, <1>16 DEF PyWord, Ended
<1>18. PyBytes(e, t)
  <2>1. Held' = Held /\ Held \in Nat
    BY <1>1, <1>14 DEF Held, PyFacts
  <2>2. py'.sendCredit + DataIn(e) = py.sendCredit + AcksIn(t)
    BY <1>4, <1>11, <1>14
  <2>3. Held' + AcksIn(e) = Held + DataIn(t)
    BY <1>4, <1>11, <2>1
  <2>4. Len(loc'.inq) + DataIn(e) <= Len(loc.inq) /\ ~(DataIn(e) > 0)
    BY <1>1, <1>11, <1>13 DEF PyFacts
  <2> QED
    BY <1>12, <2>2, <2>3, <2>4, PyAccounts
<1>19. PyLaw(e, t)
  BY <1>12, <1>17, <1>18 DEF PyLaw
<1> QED
  BY <1>19

\* A frame for a stream the agent does not have obeys the law.
LEMMA PyStrayLaw ==
  ASSUME IInv, P!PyReceive, UNCHANGED <<sVars, outsideVars>>,
         Head(toAgent).type # "OPEN", ~P!InStreams
  PROVE  \E e, t : PyLaw(e, t)
<1> DEFINE f == Head(toAgent)
           g == P!Turn
           refuses == P!Send(g, ResetFrame)
           t == <<f>>
<1>1. PyFacts
  BY PyKnown
<1>2. /\ f \in WireFrame /\ t # <<>> /\ TypesIn(t) = {f.type} /\ f.type # "OPEN"
      /\ \E known \in BOOLEAN : P!Commit(P!OnStream(f, known))
      /\ \A r : r \in PyTurn /\ P!Commit(r) => PyCommitted(r, t)
  BY PyTaken
<1>3. \A known : P!OnStream(f, known) = IF f.type = "RESET" THEN g ELSE refuses
  BY SameOperators DEF P!OnStream
<1>4. P!Commit(g) \/ P!Commit(refuses)
  BY <1>2, <1>3
<1> HIDE DEF f, t
<1>5. g \in PyTurn /\ g.st = py /\ g.sock = loc /\ g.sent = <<>>
  BY PyTurnStarts
<1> HIDE DEF g
<1>6. /\ refuses \in PyTurn /\ refuses.st = py
      /\ refuses.sock = loc /\ refuses.sent = Append(<<>>, ResetFrame)
  <2>1. ResetFrame \in WireFrame
    BY FramesTyped
  <2>2. LET s == P!Send(g, ResetFrame)
        IN  /\ s \in PyTurn /\ s.st = g.st /\ s.sock = g.sock
            /\ s.sent = Append(g.sent, ResetFrame)
    BY <1>5, <2>1, PyParts
  <2> QED
    BY <1>5, <2>2
<1> HIDE DEF refuses
<1>7. PICK r : /\ PyCommitted(r, t) /\ r.sock = loc /\ r.st = py
               /\ r.sent = <<>> \/ r.sent = Append(<<>>, ResetFrame)
  BY <1>2, <1>4, <1>5, <1>6
<1> DEFINE e == r.sent
<1>8. /\ Len(e) \in {0, 1} /\ DataIn(e) = 0 /\ AcksIn(e) = 0
      /\ TypesIn(e) \subseteq {"RESET"}
  BY <1>7, FramesTyped, PySays
<1> HIDE DEF e
<1>9. PyWire(e, t) /\ py' \in PyType /\ loc' \in Connection(Bytes)
      /\ serviceSaid' = serviceSaid /\ e \in Seq(WireFrame) /\ t \in Seq(WireFrame)
  BY <1>7, <1>8, PyWired DEF e
<1>10. py' = py /\ loc' = loc /\ (py.run = "none" \/ py.finished)
  BY <1>7 DEF PyCommitted, P!InStreams
<1>11. py.run = "none" => ~py.finished /\ py.toServer = "off"
  BY <1>1 DEF PyFacts, LifeOfPy, P!NoPyStream
<1>12. LifeOfPy'
  BY <1>1, <1>10 DEF LifeOfPy, PyFacts
<1>13. HeardEnd(py)' = HeardEnd(py) /\ (py.finished => HeardEnd(py))
  BY <1>10 DEF HeardEnd
<1>14. PyWord(e, t)
  BY <1>2, <1>8, <1>10, <1>11, <1>12, <1>13 DEF PyWord, Ended
<1>15. PyBytes(e, t)
  <2>1. Held' = Held /\ Held \in Nat
    BY <1>1, <1>10 DEF Held, PyFacts
  <2>2. DataIn(t) \in Nat /\ AcksIn(t) \in Nat
    BY <1>9, CountsBounded DEF WireFrame
  <2>3. py'.finished \/ (py'.run = "none" /\ t # <<>>)
    BY <1>2, <1>10
  <2>4. PyWaits'
    BY <1>1, <1>10 DEF PyWaits, PyFacts
  <2> DEFINE c == py.sendCredit
             h == Held
             dt == DataIn(t)
             at == AcksIn(t)
  <2>5. c \in Int /\ h \in Nat /\ dt \in Nat /\ at \in Nat
    BY <1>1, <2>1, <2>2 DEF PyFacts
  <2> HIDE DEF c, h, dt, at
  <2>6. c + 0 <= c + at /\ h + 0 <= h + dt
    BY <2>5
  <2>7. /\ py'.sendCredit + DataIn(e) <= py.sendCredit + AcksIn(t)
        /\ Held' + AcksIn(e) <= Held + DataIn(t)
    BY <1>8, <1>10, <2>1, <2>6 DEF c, h, dt, at
  <2>8. py'.sendCredit + serviceSaid' - Len(loc'.inq) >= Window
    BY <1>1, <1>9, <1>10 DEF PyFacts
  <2>9. ~(DataIn(e) > 0)
    BY <1>8
  <2> QED
    BY <2>3, <2>4, <2>7, <2>8, <2>9 DEF PyBytes
<1>16. PyLaw(e, t)
  BY <1>9, <1>14, <1>15 DEF PyLaw
<1> QED
  BY <1>16

\* A frame that is fed or that grants credit leaves the tasks where they are.
LEMMA PyFedLaw ==
  ASSUME IInv, NEW r, NEW t, PyCommitted(r, t), r.sent = <<>>, r.sock = loc,
         P!InStreams, t # <<>>, "RESET" \notin TypesIn(t), "OPEN" \notin TypesIn(t),
         r.st.run = py.run, r.st.toLocal = py.toLocal, r.st.toServer = py.toServer,
         r.st.owed = py.owed, r.st.finished = py.finished,
         TypesIn(r.st.inbox) \subseteq {"DATA", "EOF"},
         "EOF" \in TypesIn(py.inbox) \cup TypesIn(t) => "EOF" \in TypesIn(r.st.inbox),
         DataIn(r.st.inbox) = DataIn(py.inbox) + DataIn(t),
         r.st.sendCredit = py.sendCredit + AcksIn(t)
  PROVE  \E e, u : PyLaw(e, u)
<1> DEFINE e == r.sent
<1>1. PyFacts
  BY PyKnown
<1>2. Len(e) \in {0, 1} /\ DataIn(e) = 0 /\ AcksIn(e) = 0 /\ TypesIn(e) = {}
  BY PySays
<1> HIDE DEF e
<1>3. PyWire(e, t) /\ py' \in PyType /\ loc' \in Connection(Bytes)
      /\ serviceSaid' = serviceSaid /\ e \in Seq(WireFrame) /\ t \in Seq(WireFrame)
  BY <1>2, PyWired DEF e
<1>4. py' = r.st /\ loc' = loc
  BY DEF PyCommitted
<1>5. py.run # "none"
  BY DEF P!InStreams
<1>6. LifeOfPy'
  BY <1>1, <1>4, <1>5 DEF LifeOfPy, PyFacts
<1>7. /\ HeardEnd(py) => HeardEnd(py)'
      /\ "EOF" \in TypesIn(t) => HeardEnd(py)'
  BY <1>4 DEF HeardEnd
<1>8. PyWord(e, t)
  BY <1>2, <1>4, <1>5, <1>6, <1>7 DEF PyWord, Ended
<1>9. PyBytes(e, t)
  <2>1. DataIn(t) \in Nat /\ AcksIn(t) \in Nat /\ DataIn(py.inbox) \in Nat
    BY <1>1, <1>3, CountsBounded DEF WireFrame, PyFacts
  <2>2. Held = DataIn(py.inbox) + py.owed /\ Held' = DataIn(r.st.inbox) + r.st.owed
    BY <1>4 DEF Held
  <2> DEFINE a == DataIn(py.inbox)
             b == DataIn(r.st.inbox)
             p == Held
             q == Held'
             dt == DataIn(t)
             at == AcksIn(t)
             o == py.owed
  <2>3. /\ a \in Nat /\ dt \in Nat /\ b = a + dt /\ p = a + o /\ q = b + o /\ o \in Nat
    BY <1>1, <2>1, <2>2 DEF PyFacts
  <2> HIDE DEF a, b, p, q, dt, o
  <2>4. q + 0 = p + dt
    BY <2>3
  <2>5. Held' + AcksIn(e) = Held + DataIn(t)
    BY <1>2, <2>4 DEF p, q, dt
  <2>6. at \in Nat /\ py'.sendCredit = py.sendCredit + at /\ py.sendCredit \in Int
    BY <1>1, <1>4, <2>1 DEF PyFacts
  <2> HIDE DEF at
  <2>7. py'.sendCredit + 0 = py.sendCredit + at
    BY <2>6
  <2>8. py'.sendCredit + DataIn(e) = py.sendCredit + AcksIn(t)
    BY <1>2, <2>7 DEF at
  <2>9. Len(loc'.inq) + DataIn(e) <= Len(loc.inq) /\ ~(DataIn(e) > 0)
    BY <1>1, <1>2, <1>4 DEF PyFacts
  <2> QED
    BY <1>3, <2>5, <2>8, <2>9, PyAccounts
<1>10. PyLaw(e, t)
  BY <1>3, <1>8, <1>9 DEF PyLaw
<1> QED
  BY <1>10

\* STREAM_DATA and STREAM_EOF at the agent obey the law.
LEMMA PyFeedLaw ==
  ASSUME IInv, P!PyReceive, UNCHANGED <<sVars, outsideVars>>, P!InStreams,
         Head(toAgent).type \in {"DATA", "EOF"}
  PROVE  \E e, t : PyLaw(e, t)
<1> DEFINE f == Head(toAgent)
           g == P!Turn
           r == [g EXCEPT !.st = [g.st EXCEPT !.inbox = Append(g.st.inbox, f)]]
           t == <<f>>
           box == Append(py.inbox, f)
<1>1. PyFacts
  BY PyKnown
<1>2. /\ f \in WireFrame /\ t # <<>> /\ TypesIn(t) = {f.type}
      /\ f.type \in {"DATA", "EOF"}
      /\ DataIn(t) = DataOf(f) /\ AcksIn(t) = AckOf(f)
      /\ \E known \in BOOLEAN : P!Commit(P!OnStream(f, known))
      /\ \A q : q \in PyTurn /\ P!Commit(q) => PyCommitted(q, t)
  BY PyTaken
<1>3. \A known : P!OnStream(f, known) = r
  BY DEF P!OnStream, P!Feed
<1>4. P!Commit(r)
  BY <1>2, <1>3
<1>5. AcksIn(t) = 0
  BY <1>2, FrameKinds DEF WireFrame
<1> HIDE DEF f, t
<1>6. g \in PyTurn /\ g.st = py /\ g.sock = loc /\ g.sent = <<>>
  BY PyTurnStarts
<1> HIDE DEF g
<1>7. /\ box \in Seq(WireFrame)
      /\ TypesIn(box) = TypesIn(py.inbox) \cup {f.type}
      /\ DataIn(box) = DataIn(py.inbox) + DataOf(f)
  BY <1>1, <1>2, AppendSeen DEF PyFacts
<1>8. r \in PyTurn /\ r.st = [py EXCEPT !.inbox = box] /\ r.sock = loc /\ r.sent = <<>>
  <2>1. r = [g EXCEPT !.st = [py EXCEPT !.inbox = box]]
    BY <1>6
  <2> HIDE DEF r, box
  <2>2. [py EXCEPT !.inbox = box] \in PyType
    BY <1>1, <1>7, PyFields DEF PyFacts
  <2> QED
    BY <1>6, <2>1, <2>2, PyParts
<1> HIDE DEF r, box
<1>9. /\ r.st.run = py.run /\ r.st.toLocal = py.toLocal /\ r.st.toServer = py.toServer
      /\ r.st.owed = py.owed /\ r.st.finished = py.finished /\ r.st.inbox = box
      /\ r.st.sendCredit = py.sendCredit /\ py.sendCredit \in Int
  BY <1>1, <1>8 DEF PyFacts, PyType
<1>10. PyCommitted(r, t)
  BY <1>2, <1>4, <1>8
<1>11. TypesIn(box) \subseteq {"DATA", "EOF"}
  BY <1>1, <1>2, <1>7 DEF PyFacts, LifeOfPy
<1>12. r.st.sendCredit = py.sendCredit + AcksIn(t)
  BY <1>5, <1>9
<1> QED
  BY <1>2, <1>7, <1>8, <1>9, <1>10, <1>11, <1>12, PyFedLaw

\* STREAM_ACK at the agent obeys the law.
LEMMA PyAckLaw ==
  ASSUME IInv, P!PyReceive, UNCHANGED <<sVars, outsideVars>>, P!InStreams,
         Head(toAgent).type = "ACK"
  PROVE  \E e, t : PyLaw(e, t)
<1> DEFINE f == Head(toAgent)
           g == P!Turn
           r == [g EXCEPT !.st = [g.st EXCEPT !.sendCredit = g.st.sendCredit + f.n]]
           t == <<f>>
           credit == py.sendCredit + f.n
<1>1. PyFacts
  BY PyKnown
<1>2. /\ f \in WireFrame /\ t # <<>> /\ TypesIn(t) = {f.type} /\ f.type = "ACK"
      /\ DataIn(t) = DataOf(f) /\ AcksIn(t) = AckOf(f)
      /\ \E known \in BOOLEAN : P!Commit(P!OnStream(f, known))
      /\ \A q : q \in PyTurn /\ P!Commit(q) => PyCommitted(q, t)
  BY PyTaken
<1>3. \A known : P!OnStream(f, known) = r
  BY DEF P!OnStream, P!AddCredit
<1>4. P!Commit(r)
  BY <1>2, <1>3
<1>5. DataIn(t) = 0 /\ AcksIn(t) = f.n /\ f.n \in Nat \ {0}
  BY <1>2, FrameKinds DEF WireFrame
<1> HIDE DEF f, t
<1>6. g \in PyTurn /\ g.st = py /\ g.sock = loc /\ g.sent = <<>>
  BY PyTurnStarts
<1> HIDE DEF g
<1>7. r \in PyTurn /\ r.st = [py EXCEPT !.sendCredit = credit] /\ r.sock = loc /\ r.sent = <<>>
  <2>1. r = [g EXCEPT !.st = [py EXCEPT !.sendCredit = credit]]
    BY <1>6
  <2>2. credit \in Int
    BY <1>1, <1>5 DEF PyFacts
  <2> HIDE DEF r, credit
  <2>3. [py EXCEPT !.sendCredit = credit] \in PyType
    BY <1>1, <2>2, PyFields DEF PyFacts
  <2> QED
    BY <1>6, <2>1, <2>3, PyParts
<1> HIDE DEF r
<1>8. /\ r.st.run = py.run /\ r.st.toLocal = py.toLocal /\ r.st.toServer = py.toServer
      /\ r.st.owed = py.owed /\ r.st.finished = py.finished /\ r.st.inbox = py.inbox
      /\ r.st.sendCredit = py.sendCredit + f.n
  BY <1>1, <1>7 DEF PyFacts, PyType
<1>9. PyCommitted(r, t)
  BY <1>2, <1>4, <1>7
<1>10. TypesIn(r.st.inbox) \subseteq {"DATA", "EOF"}
  BY <1>1, <1>8 DEF PyFacts, LifeOfPy
<1>11. DataIn(r.st.inbox) = DataIn(py.inbox) + DataIn(t)
  <2>1. DataIn(py.inbox) \in Nat
    BY <1>1, CountsBounded DEF WireFrame, PyFacts
  <2> QED
    BY <1>5, <1>8, <2>1
<1>12. r.st.sendCredit = py.sendCredit + AcksIn(t)
  BY <1>5, <1>8
<1> QED
  BY <1>2, <1>7, <1>8, <1>9, <1>10, <1>11, <1>12, PyFedLaw

\* STREAM_RESET at the agent obeys the law.
LEMMA PyResetLaw ==
  ASSUME IInv, P!PyReceive, UNCHANGED <<sVars, outsideVars>>, P!InStreams,
         Head(toAgent).type = "RESET"
  PROVE  \E e, t : PyLaw(e, t)
<1> DEFINE f == Head(toAgent)
           g == P!Turn
           r == P!Finish(g)
           e == r.sent
           t == <<f>>
<1>1. /\ f \in WireFrame /\ t # <<>> /\ TypesIn(t) = {f.type} /\ f.type = "RESET"
      /\ DataIn(t) = DataOf(f) /\ AcksIn(t) = AckOf(f)
      /\ \E known \in BOOLEAN : P!Commit(P!OnStream(f, known))
      /\ \A q : q \in PyTurn /\ P!Commit(q) => PyCommitted(q, t)
  BY PyTaken
<1>2. \A known : P!OnStream(f, known) = r
  BY DEF P!OnStream
<1>3. P!Commit(r)
  BY <1>1, <1>2
<1>4. DataIn(t) = 0 /\ AcksIn(t) = 0
  BY <1>1, FrameKinds DEF WireFrame
<1> HIDE DEF f, t
<1>5. g \in PyTurn /\ g.st = py /\ g.sock = loc /\ g.sent = <<>>
  BY PyTurnStarts
<1> HIDE DEF g
<1>6. /\ r \in PyTurn /\ r.sent = <<>> /\ Kept(r.sock, loc, Bytes)
      /\ r.st.finished /\ r.st.inbox = py.inbox /\ r.st.owed = py.owed
      /\ r.st.sendCredit = py.sendCredit
      /\ \/ /\ r.st.run = py.run /\ r.st.toLocal = py.toLocal
            /\ r.st.toServer = py.toServer
         \/ /\ r.st.run = "over" /\ r.st.toLocal = "over"
            /\ r.st.toServer = "over"
  BY <1>5, PyFinished
<1> HIDE DEF r
<1>7. PyCommitted(r, t)
  BY <1>1, <1>3, <1>6
<1>8. Len(e) \in {0, 1} /\ TypesIn(e) = {} /\ DataIn(e) = 0 /\ AcksIn(e) = 0
  BY <1>6, PySays
<1>9. e = r.sent
  OBVIOUS
<1> HIDE DEF e
<1>10. py.run # "none"
  BY DEF P!InStreams
<1>11. PyLaw(e, t)
  BY <1>1, <1>4, <1>6, <1>7, <1>8, <1>9, <1>10, PyDoneLaw
<1> QED
  BY <1>11

\* Every frame the agent takes obeys the law.
LEMMA PyReceiveLaw ==
  ASSUME IInv, P!PyReceive, UNCHANGED <<sVars, outsideVars>>
  PROVE  \E e, t : PyLaw(e, t)
<1>1. Head(toAgent).type \in {"OPEN", "DATA", "EOF", "ACK", "RESET"}
  <2>1. Head(toAgent) \in WireFrame
    BY PyTaken
  <2> QED
    BY <2>1, FrameKinds DEF WireFrame
<1>2. CASE Head(toAgent).type = "OPEN"
  BY <1>2, PyOpenLaw
<1>3. CASE Head(toAgent).type # "OPEN" /\ ~P!InStreams
  BY <1>3, PyStrayLaw
<1>4. CASE Head(toAgent).type \in {"DATA", "EOF"} /\ P!InStreams
  BY <1>4, PyFeedLaw
<1>5. CASE Head(toAgent).type = "ACK" /\ P!InStreams
  BY <1>5, PyAckLaw
<1>6. CASE Head(toAgent).type = "RESET" /\ P!InStreams
  BY <1>6, PyResetLaw
<1> QED
  BY <1>1, <1>2, <1>3, <1>4, <1>5, <1>6

\* Every step of the agent's end and of the service obeys the law.
LEMMA AgentSide ==
  ASSUME IInv, ServiceSend \/ ServiceEvent \/ DialFails \/ AgentStep
  PROVE  \E e, t : PyLaw(e, t)
<1>1. CASE ServiceSend \/ ServiceEvent
  BY <1>1, ServiceSteps
<1>2. CASE DialFails
  BY <1>2, DialFailLaw
<1>3. CASE AgentStep
  <2>1. UNCHANGED <<sVars, outsideVars>>
    BY <1>3 DEF AgentStep
  <2>2. CASE P!PyReceive
    BY <2>1, <2>2, PyReceiveLaw
  <2>3. CASE P!SessionEnds
    BY <2>1, <2>3, SessionEndsLaw
  <2>4. CASE P!DialOk
    BY <2>1, <2>4, DialOkLaw
  <2>5. CASE P!ToLocalItem
    BY <2>1, <2>5, ToLocalItemLaw
  <2>6. CASE P!ToLocalDrained
    BY <2>1, <2>6, ToLocalDrainedLaw
  <2>7. CASE P!ToServerData
    BY <2>1, <2>7, ToServerDataLaw
  <2>8. CASE P!ToServerEof \/ P!ToServerError
    BY <2>1, <2>8, ToServerEndsLaw
  <2>9. CASE P!PumpsEnd
    BY <2>1, <2>9, PumpsEndLaw
  <2>10. CASE P!LocalFlush
    BY <2>1, <2>10, ServiceSteps
  <2> QED
    BY <1>3, <2>2, <2>3, <2>4, <2>5, <2>6, <2>7, <2>8, <2>9, <2>10
       DEF AgentStep, P!PyTask
<1> QED
  BY <1>1, <1>2, <1>3

-----------------------------------------------------------------------------
\* The invariant.

\* Every step is a turn of one end that obeys its law, or the loss of the link.
LEMMA EveryStep ==
  ASSUME IInv, Next
  PROVE  (\E e, t : SrvLaw(e, t)) \/ (\E e, t : PyLaw(e, t)) \/ LinkLost
  BY ServerSide, AgentSide DEF Next

\* What only the loss of the link, or nothing, changes.
LEMMA NothingSaid ==
  ASSUME IInv,
         UNCHANGED <<sVars, pVars, toAgent, toServer, visitorSaid, serviceSaid>>,
         happened' \in Histories \cup {{}}, linkUp' \in BOOLEAN, linkUp' => linkUp
  PROVE  IInv'
<1>1. /\ Types /\ LifeOfServer /\ LifeOfPy /\ Chan /\ Informed /\ Eof
      /\ Flow /\ SrvPauses /\ PyWaits /\ SrvBuffers
  BY DEF IInv
<1>2. /\ srv' = srv /\ pub' = pub /\ srvCongested' = srvCongested
      /\ srvClosed' = srvClosed
      /\ py' = py /\ loc' = loc /\ sessionOver' = sessionOver
      /\ toAgent' = toAgent /\ toServer' = toServer
      /\ visitorSaid' = visitorSaid /\ serviceSaid' = serviceSaid
  BY DEF sVars, pVars
<1>3. Types' /\ LifeOfServer' /\ LifeOfPy' /\ Chan' /\ Eof'
  BY <1>1, <1>2 DEF Types, LifeOfServer, LifeOfPy, Chan, Eof
<1>4. Informed' /\ SrvPauses' /\ PyWaits' /\ SrvBuffers'
  BY <1>1, <1>2 DEF Informed, HeardEnd, SrvPauses, PyWaits, SrvBuffers
<1>5. Flow'
  <2>1. Held' = Held
    BY <1>2 DEF Held
  <2>2. UpSum' = UpSum /\ DownSum' = DownSum
    BY <1>2, <2>1 DEF UpSum, DownSum
  <2>3. BothLive' => BothLive
    BY <1>2 DEF BothLive, Refused
  <2> QED
    BY <1>1, <1>2, <2>2, <2>3 DEF Flow
<1> QED
  BY <1>3, <1>4, <1>5 DEF IInv

\* Nothing has happened yet.
LEMMA InitInv == Init => IInv
<1> SUFFICES ASSUME Init PROVE IInv
  OBVIOUS
<1>1. /\ srv = S!NoStream /\ pub = NewSocket
      /\ srvCongested = FALSE /\ srvClosed = FALSE
      /\ loc = NewConnection /\ sessionOver = FALSE
      /\ linkUp = TRUE /\ toAgent = <<>> /\ toServer = <<>>
      /\ visitorSaid = 0 /\ serviceSaid = 0 /\ happened = {}
  BY SameOperators, SameConnection DEF Init, S!ServerInit, P!PyInit
<1>2. PICK r \in RewriteHosts : py = P!NoPyStream(r)
  BY DEF Init, P!PyInit
<1>3. /\ r \in BOOLEAN /\ Window \in Nat \ {0}
      /\ UpBytes \in Nat /\ DownBytes \in Nat
  BY PyBridgeAssumption
<1>4. /\ py.run = "none" /\ py.toLocal = "off" /\ py.toServer = "off"
      /\ py.inbox = <<>> /\ py.owed = 0 /\ py.sendCredit = Window /\ ~py.finished
      /\ py.rewriteHost = r
  BY <1>2 DEF P!NoPyStream
<1>5. /\ ~srv.opened /\ srv.sendCredit = Window /\ srv.recvUnacked = 0
      /\ ~srv.pausedForCredit /\ ~srv.pausedGlobally
      /\ ~srv.sentEof /\ ~srv.receivedEof /\ ~srv.finished
  BY <1>1 DEF S!NoStream
<1>6. Types
  <2>1. srv \in SrvType
    BY <1>1, <1>3 DEF SrvType, S!NoStream
  <2>2. py \in PyType
    <3>1. <<>> \in Seq(WireFrame) /\ <<>> \in Seq(Bytes)
      BY FewFrames
    <3> QED
      BY <1>2, <1>3, <3>1 DEF PyType, P!NoPyStream
  <2>3. NewSocket \in Socket(Bytes) /\ NewConnection \in Connection(Bytes)
    BY DEF NewSocket, Socket, NewConnection, Connection
  <2>4. toAgent \in Seq(WireFrame) /\ toServer \in Seq(WireFrame)
    <3>1. <<>> \in Seq(WireFrame)
      BY FewFrames
    <3> QED
      BY <1>1, <3>1
  <2>5. visitorSaid \in 0..UpBytes /\ serviceSaid \in 0..DownBytes
    <3>1. 0 \in 0..UpBytes /\ 0 \in 0..DownBytes
      BY ONLY <1>3
    <3> QED
      BY <1>1, <3>1
  <2>6. /\ srvCongested \in BOOLEAN /\ srvClosed \in BOOLEAN
        /\ sessionOver \in BOOLEAN /\ linkUp \in BOOLEAN
        /\ happened \in Histories \cup {{}}
    BY ONLY <1>1
  <2>7. pub \in Socket(Bytes) /\ loc \in Connection(Bytes)
    BY ONLY <1>1, <2>3
  <2> QED
    BY ONLY <2>1, <2>2, <2>4, <2>5, <2>6, <2>7 DEF Types
<1>7. LifeOfServer
  BY <1>1, <1>4, <1>5 DEF LifeOfServer
<1>8. LifeOfPy
  BY <1>2, <1>4, FewFrames DEF LifeOfPy
<1>9. Chan /\ Informed /\ Eof
  <2>1. TypesIn(toAgent) = {} /\ TypesIn(toServer) = {}
    BY <1>1, FewFrames
  <2>2. Orderly(toAgent) /\ DataFirst(toServer)
    BY <1>1 DEF Orderly, DataFirst
  <2>3. ~pub.readEnded
    BY <1>1 DEF NewSocket
  <2> QED
    BY <1>1, <1>4, <1>5, <2>1, <2>2, <2>3 DEF Chan, Informed, Eof
<1>10. Flow
  <2>1. Held = 0
    BY <1>4, FewFrames DEF Held
  <2>2. UpSum = Window /\ DownSum = Window
    BY <1>1, <1>3, <1>4, <1>5, <2>1, FewFrames DEF UpSum, DownSum
  <2>3. Len(pub.inq) = 0 /\ Len(loc.inq) = 0
    BY <1>1 DEF NewSocket, NewConnection
  <2> QED
    BY <1>1, <1>3, <1>4, <1>5, <2>2, <2>3 DEF Flow
<1>11. SrvPauses /\ PyWaits
  BY <1>3, <1>4, <1>5, RoomTyped DEF SrvPauses, PyWaits
<1>12. SrvBuffers
  <2>1. Len(pub.out) = 0
    BY <1>1 DEF NewSocket
  <2>2. HighWater \in Nat \ {0} /\ WindowAndChunk \in Nat
    BY RoomTyped DEF WindowAndChunk
  <2>3. 0 < WindowAndChunk + HighWater /\ 0 < 0 + HighWater
    <3> DEFINE wide == WindowAndChunk
    <3>1. wide \in Nat
      BY <2>2
    <3> HIDE DEF wide
    <3>2. 0 < wide + HighWater /\ 0 < 0 + HighWater
      BY ONLY <3>1, <2>2
    <3> QED
      BY ONLY <3>2 DEF wide
  <2> QED
    BY ONLY <1>5, <2>1, <2>3 DEF SrvBuffers
<1> QED
  BY <1>6, <1>7, <1>8, <1>9, <1>10, <1>11, <1>12 DEF IInv

\* Every step keeps the invariant.
LEMMA StepInv == IInv /\ [Next]_vars => IInv'
<1> SUFFICES ASSUME IInv, [Next]_vars PROVE IInv'
  OBVIOUS
<1>1. CASE Next
  <2>1. CASE \E e, t : SrvLaw(e, t)
    BY <2>1, SrvKeeps
  <2>2. CASE \E e, t : PyLaw(e, t)
    BY <2>2, PyKeeps
  <2>3. CASE LinkLost
    BY <2>3, NothingSaid DEF LinkLost, Happens
  <2> QED
    BY <1>1, <2>1, <2>2, <2>3, EveryStep
<1>2. CASE UNCHANGED vars
  <2>1. /\ UNCHANGED <<sVars, pVars, toAgent, toServer, visitorSaid, serviceSaid>>
        /\ linkUp' = linkUp /\ happened' = happened
    BY <1>2 DEF vars, linkVars, outsideVars
  <2>2. linkUp \in BOOLEAN /\ happened \in Histories \cup {{}}
    BY DEF IInv, Types
  <2> QED
    BY <2>1, <2>2, NothingSaid
<1> QED
  BY <1>1, <1>2

\* The invariant holds.
LEMMA Invariance == Spec => []IInv
  BY InitInv, StepInv, PTL DEF Spec

-----------------------------------------------------------------------------
\* The properties of the runs.

\* Neither the server's Stream nor the Python agent's gives a stream up behind
\* the other's back: finish() of client.py is silent, and still the frame that
\* tells the server has gone before it, unless the connection to the service has
\* failed; and a stream the server has given up is one the agent knows the end
\* of, or will once it has read its queue.
THEOREM PeersAreTold == Spec => []PeerIsTold
<1>1. IInv => PeerIsTold
  BY DEF IInv, Informed, PeerIsTold, HeardEnd, HasEnd, Ended
<1> QED
  BY <1>1, Invariance, PTL

\* A sum bounds each of its terms.
LEMMA TermsBounded ==
  ASSUME NEW w \in Nat, NEW lo \in Int, NEW a \in Int, NEW b \in Nat, NEW c \in Nat,
         NEW d \in Nat, NEW e \in Nat, a + b + c + d + e <= w, w - lo <= a
  PROVE  a <= w /\ b <= lo /\ c <= lo /\ d <= lo /\ e <= lo
  OBVIOUS

\* What conservation says of each count: a sender has at most the window and
\* at least what it has not yet overdrawn, and nothing else exceeds what was said.
LEMMA CountsInFlow ==
  ASSUME IInv
  PROVE  /\ srv.sendCredit \in (-MaxCount)..Window
         /\ py.sendCredit \in (-MaxCount)..Window
         /\ srv.recvUnacked \in 0..MaxCount
         /\ py.owed \in 0..MaxCount
         /\ AcksIn(toAgent) <= MaxCount
         /\ AcksIn(toServer) <= MaxCount
<1>1. Types /\ Flow
  BY DEF IInv
<1>2. /\ Window \in Nat /\ UpBytes \in Nat /\ DownBytes \in Nat
  BY PyBridgeAssumption
<1>3. /\ toAgent \in Seq(WireFrame) /\ toServer \in Seq(WireFrame)
      /\ visitorSaid \in 0..UpBytes /\ serviceSaid \in 0..DownBytes
      /\ pub \in Socket(Bytes) /\ loc \in Connection(Bytes)
      /\ srv \in SrvType /\ py \in PyType
  BY <1>1 DEF Types
<1>4. /\ DataIn(toAgent) \in Nat /\ AcksIn(toAgent) \in Nat
      /\ DataIn(toServer) \in Nat /\ AcksIn(toServer) \in Nat
  BY <1>3, CountsBounded DEF WireFrame
<1>5. DataIn(py.inbox) \in Nat /\ py.owed \in Nat
  BY <1>3, HeldTyped
<1>6. Len(pub.inq) \in Nat /\ Len(loc.inq) \in Nat
  BY <1>3, SocketTyped, ConnectionTyped
<1>7. /\ srv.sendCredit \in Int /\ srv.recvUnacked \in Nat
  BY <1>3 DEF SrvType
<1>8. py.sendCredit \in Int
  BY <1>3 DEF PyType
<1>9. /\ srv.sendCredit + DataIn(toAgent) + (DataIn(py.inbox) + py.owed)
           + AcksIn(toServer) <= Window
      /\ py.sendCredit + DataIn(toServer) + srv.recvUnacked + AcksIn(toAgent)
           <= Window
      /\ srv.sendCredit + visitorSaid - Len(pub.inq) >= Window
      /\ py.sendCredit + serviceSaid - Len(loc.inq) >= Window
  BY <1>1 DEF Flow, UpSum, DownSum, Held
<1> DEFINE sc == srv.sendCredit
           pc == py.sendCredit
           su == srv.recvUnacked
           ow == py.owed
           q  == DataIn(py.inbox)
           da == DataIn(toAgent)
           ds == DataIn(toServer)
           aa == AcksIn(toAgent)
           at == AcksIn(toServer)
           pi == Len(pub.inq)
           li == Len(loc.inq)
<1>10. /\ sc \in Int /\ pc \in Int /\ su \in Nat /\ ow \in Nat /\ q \in Nat
       /\ da \in Nat /\ ds \in Nat /\ aa \in Nat /\ at \in Nat
       /\ pi \in Nat /\ li \in Nat
       /\ sc + da + (q + ow) + at <= Window
       /\ pc + ds + su + aa <= Window
       /\ sc + visitorSaid - pi >= Window
       /\ pc + serviceSaid - li >= Window
       /\ visitorSaid \in 0..UpBytes /\ serviceSaid \in 0..DownBytes
  BY <1>3, <1>4, <1>5, <1>6, <1>7, <1>8, <1>9
<1> HIDE DEF sc, pc, su, ow, q, da, ds, aa, at, pi, li
<1>11. /\ sc \in (-MaxCount)..Window /\ pc \in (-MaxCount)..Window
       /\ su \in 0..MaxCount /\ ow \in 0..MaxCount
       /\ aa <= MaxCount /\ at <= MaxCount
  <2>1. /\ MaxCount \in Nat /\ Window <= MaxCount
        /\ UpBytes <= MaxCount /\ DownBytes <= MaxCount
    BY ONLY <1>2 DEF MaxCount
  <2>2. sc >= Window - UpBytes /\ pc >= Window - DownBytes
    BY ONLY <1>2, <1>10
  <2>3. sc <= Window /\ ow <= UpBytes /\ at <= UpBytes
    <3>1. sc + da + q + ow + at <= Window /\ Window - UpBytes <= sc
      BY ONLY <1>2, <1>10, <2>2
    <3>2. /\ Window \in Nat /\ UpBytes \in Int /\ sc \in Int /\ da \in Nat
          /\ q \in Nat /\ ow \in Nat /\ at \in Nat
      BY ONLY <1>2, <1>10
    <3> QED
      BY ONLY <3>1, <3>2, TermsBounded
  <2>4. pc <= Window /\ su <= DownBytes /\ aa <= DownBytes
    <3>1. pc + ds + su + aa + 0 <= Window
      BY ONLY <1>2, <1>10
    <3> QED
      BY ONLY <1>2, <1>10, <2>2, <3>1, TermsBounded
  <2>5. sc >= -MaxCount /\ pc >= -MaxCount
    BY ONLY <1>2, <1>10, <2>1, <2>2
  <2>6. /\ su <= MaxCount /\ ow <= MaxCount /\ aa <= MaxCount /\ at <= MaxCount
        /\ su \in Nat /\ ow \in Nat
    <3>1. su \in Nat /\ ow \in Nat /\ aa \in Nat /\ at \in Nat
      BY ONLY <1>10
    <3>2. ow <= MaxCount /\ at <= MaxCount
      BY ONLY <1>2, <2>1, <2>3, <3>1
    <3>3. su <= MaxCount /\ aa <= MaxCount
      BY ONLY <1>2, <2>1, <2>4, <3>1
    <3> QED
      BY ONLY <3>1, <3>2, <3>3
  <2>7. sc \in (-MaxCount)..Window /\ pc \in (-MaxCount)..Window
    BY ONLY <1>2, <1>10, <2>1, <2>3, <2>4, <2>5
  <2>8. su \in 0..MaxCount /\ ow \in 0..MaxCount
    BY ONLY <2>1, <2>6
  <2> QED
    BY ONLY <2>6, <2>7, <2>8
<1> QED
  BY <1>11 DEF sc, pc, su, ow, aa, at

\* A queue that acknowledges so much has only frames that acknowledge so much.
LEMMA FramesBounded ==
  ASSUME NEW c \in Seq(WireFrame), NEW m \in Nat, AcksIn(c) <= m
  PROVE  c \in Seq(Frame(Bytes, m))
<1>1. /\ AcksIn(c) \in Nat
      /\ \A i \in DOMAIN c : c[i].type = "ACK" => c[i].n <= AcksIn(c)
  BY CountsBounded DEF WireFrame
<1>2. \A i \in DOMAIN c : c[i] \in Frame(Bytes, m)
  <2> TAKE i \in DOMAIN c
  <2>1. c[i] \in WireFrame
    OBVIOUS
  <2> DEFINE f == c[i]
  <2>2. f.type = "ACK" => f.n <= m
    <3> SUFFICES ASSUME f.type = "ACK" PROVE f.n <= m
      OBVIOUS
    <3>1. f.n \in Nat /\ f.n <= AcksIn(c)
      BY <1>1, <2>1, FrameKinds DEF WireFrame
    <3> HIDE DEF f
    <3> QED
      BY ONLY <1>1, <3>1, AcksIn(c) <= m, m \in Nat
  <2>3. f \in WireFrame
    BY <2>1
  <2> HIDE DEF f
  <2>4. f \in Frame(Bytes, m)
    BY ONLY <2>2, <2>3, m \in Nat DEF WireFrame, SomeFrame, Frame
  <2> QED
    BY <2>4 DEF f
<1> QED
  BY <1>2

\* A queue that acknowledges nothing has frames of every bound.
LEMMA InboxBounded ==
  ASSUME NEW c \in Seq(WireFrame), NEW m \in Nat, "ACK" \notin TypesIn(c)
  PROVE  c \in Seq(Frame(Bytes, m))
<1>1. \A i \in DOMAIN c : c[i] \in Frame(Bytes, m)
  <2> TAKE i \in DOMAIN c
  <2> DEFINE f == c[i]
  <2>1. f \in WireFrame /\ f.type # "ACK"
    BY DEF TypesIn
  <2> HIDE DEF f
  <2>2. f \in Frame(Bytes, m)
    <3>1. f \in [type : {"OPEN", "EOF", "RESET"}]
                  \cup [type : {"DATA"}, data : Seq(Bytes) \ {<<>>}]
      BY ONLY <2>1 DEF WireFrame, SomeFrame
    <3> QED
      BY ONLY <3>1 DEF Frame
  <2> QED
    BY <2>2 DEF f
<1> QED
  BY <1>1

\* The type invariant, with the bounds on credit, on what is owed and on what a
\* STREAM_ACK carries.
THEOREM TypeCorrect == Spec => []TypeOK
<1>1. IInv => TypeOK
  <2> SUFFICES ASSUME IInv PROVE TypeOK
    OBVIOUS
  <2>1. Types /\ LifeOfPy
    BY DEF IInv
  <2>2. /\ srv.sendCredit \in (-MaxCount)..Window
        /\ py.sendCredit \in (-MaxCount)..Window
        /\ srv.recvUnacked \in 0..MaxCount
        /\ py.owed \in 0..MaxCount
        /\ AcksIn(toAgent) <= MaxCount
        /\ AcksIn(toServer) <= MaxCount
    BY CountsInFlow
  <2>3. MaxCount \in Nat
    BY PyBridgeAssumption DEF MaxCount
  <2>4. toAgent \in Seq(Frame(Bytes, MaxCount)) /\ toServer \in Seq(Frame(Bytes, MaxCount))
    BY <2>1, <2>2, <2>3, FramesBounded DEF Types
  <2>5. S!ServerTypeOK(Bytes, MaxCount)
    <3>1. srv \in [opened : BOOLEAN,
                   sendCredit : (-MaxCount)..Window, recvUnacked : 0..MaxCount,
                   pausedForCredit : BOOLEAN, pausedGlobally : BOOLEAN,
                   sentEof : BOOLEAN, receivedEof : BOOLEAN, finished : BOOLEAN]
      <4>1. srv \in SrvType
        BY <2>1 DEF Types
      <4> QED
        BY ONLY <2>2, <4>1 DEF SrvType
    <3> QED
      BY <2>1, <3>1 DEF Types, S!ServerTypeOK, Socket, S!Socket
  <2>6. P!PyTypeOK(Bytes, MaxCount)
    <3> DEFINE D == Seq(Frame(Bytes, MaxCount))
               E == Seq(Bytes)
    <3>1. py \in [run : {"none", "dialling", "pumps", "over"},
                  toLocal : {"off", "get", "drain", "eof", "failed", "over"},
                  toServer : {"off", "read", "over"},
                  inbox : D, owed : 0..MaxCount,
                  sendCredit : (-MaxCount)..Window, finished : BOOLEAN,
                  headBuf : E, headDone : BOOLEAN, rewriteHost : BOOLEAN]
      <4> DEFINE F == Seq(WireFrame)
      <4>1. py \in [run : {"none", "dialling", "pumps", "over"},
                    toLocal : {"off", "get", "drain", "eof", "failed", "over"},
                    toServer : {"off", "read", "over"},
                    inbox : F, owed : Nat, sendCredit : Int,
                    finished : BOOLEAN, headBuf : E, headDone : BOOLEAN,
                    rewriteHost : BOOLEAN]
        BY <2>1 DEF Types, PyType
      <4>2. py.inbox \in F
        BY <4>1
      <4>3. py.inbox \in D
        BY <2>1, <2>3, <4>2, InboxBounded DEF LifeOfPy
      <4> HIDE DEF D, E, F
      <4> QED
        BY ONLY <2>2, <4>1, <4>3
    <3>2. P!Frame(Bytes, MaxCount) = Frame(Bytes, MaxCount)
      BY DEF Frame, P!Frame
    <3>3. loc \in P!Connection(Bytes) /\ sessionOver \in BOOLEAN
      BY <2>1 DEF Types, Connection, P!Connection
    <3> QED
      BY ONLY <3>1, <3>2, <3>3 DEF P!PyTypeOK
  <2> QED
    BY <2>1, <2>4, <2>5, <2>6 DEF Types, TypeOK
<1> QED
  BY <1>1, Invariance, PTL

-----------------------------------------------------------------------------
\* The refinement: the law of a turn, read as a step of a credit window.

\* What the abstract state of each direction is made of.
LEMMA CountsKnown ==
  ASSUME IInv
  PROVE  /\ srv.sendCredit \in Int /\ srv.recvUnacked \in Nat
         /\ py.sendCredit \in Int /\ Held \in Nat
         /\ DataIn(toAgent) \in Nat /\ AcksIn(toAgent) \in Nat
         /\ DataIn(toServer) \in Nat /\ AcksIn(toServer) \in Nat
<1>1. /\ toAgent \in Seq(WireFrame) /\ toServer \in Seq(WireFrame)
      /\ srv \in SrvType /\ py \in PyType
  BY DEF IInv, Types
<1>2. /\ DataIn(toAgent) \in Nat /\ AcksIn(toAgent) \in Nat
      /\ DataIn(toServer) \in Nat /\ AcksIn(toServer) \in Nat
  BY <1>1, CountsBounded DEF WireFrame
<1>3. Held \in Nat
  BY <1>1, HeldTyped DEF Held
<1>4. srv.sendCredit \in Int /\ srv.recvUnacked \in Nat
  BY <1>1 DEF SrvType
<1>5. py.sendCredit \in Int
  BY <1>1 DEF PyType
<1> QED
  BY <1>2, <1>3, <1>4, <1>5

\* Once an end has finished, or the link is gone, the window means nothing, and
\* giving it up is a step of its own.
LEMMA NotLiveIsOver ==
  ASSUME BothLive \in BOOLEAN, BothLive' \in BOOLEAN, BothLive' => BothLive, ~BothLive'
  PROVE  [Upward!Next]_(Upward!vars) /\ [Downward!Next]_(Downward!vars)
<1>1. CASE BothLive
  <2>1. Upward!Abandon /\ Downward!Abandon
    BY <1>1 DEF Upward!Abandon, Downward!Abandon, Live
  <2> QED
    BY <2>1 DEF Upward!Next, Downward!Next
<1>2. CASE ~BothLive
  <2>1. UNCHANGED Upward!vars /\ UNCHANGED Downward!vars
    BY <1>2 DEF Upward!vars, Downward!vars, Live
  <2> QED
    BY <2>1
<1> QED
  BY <1>1, <1>2

\* A direction as its sender's turns move it: it sends up to a chunk while it
\* has credit, or it is granted what was acknowledged, or it does neither.
SenderMoves(credit, inflight, ackflight, credit2, inflight2, ackflight2, largest) ==
    \/ /\ credit > 0
       /\ \E k \in 1..largest : credit2 = credit - k /\ inflight2 = inflight + k
       /\ ackflight2 = ackflight
    \/ /\ \E n \in 1..ackflight : credit2 = credit + n /\ ackflight2 = ackflight - n
       /\ inflight2 = inflight
    \/ credit2 = credit /\ inflight2 = inflight /\ ackflight2 = ackflight

\* A direction as its receiver's turns move it.
ReceiverMoves(inflight, unacked, ackflight, inflight2, unacked2, ackflight2) ==
    \/ \E k \in 1..inflight : \E n \in 0..(unacked + k) :
          /\ inflight2 = inflight - k
          /\ unacked2 = unacked + k - n
          /\ ackflight2 = ackflight + n
    \/ /\ \E n \in 1..unacked : unacked2 = unacked - n /\ ackflight2 = ackflight + n
       /\ inflight2 = inflight
    \/ inflight2 = inflight /\ unacked2 = unacked /\ ackflight2 = ackflight

\* The sender's equation (it pays de, having taken grants of gt) is such a move.
LEMMA SenderLaw ==
  ASSUME NEW c \in Int, NEW i \in Nat, NEW a \in Nat,
         NEW c2 \in Int, NEW i2 \in Nat, NEW a2 \in Nat,
         NEW de \in Nat, NEW gt \in Nat, NEW largest \in Nat,
         c2 + de = c + gt, i2 = i + de, a = gt + a2,
         de > 0 => c > 0 /\ de <= largest /\ gt = 0
  PROVE  SenderMoves(c, i, a, c2, i2, a2, largest)
<1>1. CASE de > 0
  <2>1. /\ c > 0 /\ de \in 1..largest /\ c2 = c - de /\ i2 = i + de /\ a2 = a
    BY <1>1
  <2> QED
    BY ONLY <2>1 DEF SenderMoves
<1>2. CASE de = 0 /\ gt > 0
  <2>1. gt \in 1..a /\ c2 = c + gt /\ a2 = a - gt /\ i2 = i
    BY <1>2
  <2> QED
    BY ONLY <2>1 DEF SenderMoves
<1>3. CASE de = 0 /\ gt = 0
  <2>1. c2 = c /\ i2 = i /\ a2 = a
    BY <1>3
  <2> QED
    BY ONLY <2>1 DEF SenderMoves
<1> QED
  BY <1>1, <1>2, <1>3

\* So is the receiver's: it takes dt and acknowledges ge.
LEMMA ReceiverLaw ==
  ASSUME NEW i \in Nat, NEW u \in Nat, NEW a \in Nat,
         NEW i2 \in Nat, NEW u2 \in Nat, NEW a2 \in Nat,
         NEW dt \in Nat, NEW ge \in Nat,
         u2 + ge = u + dt, i = dt + i2, a2 = a + ge
  PROVE  ReceiverMoves(i, u, a, i2, u2, a2)
<1>1. CASE dt > 0
  <2>1. /\ dt \in 1..i /\ ge \in 0..(u + dt)
        /\ i2 = i - dt /\ u2 = u + dt - ge /\ a2 = a + ge
    BY <1>1
  <2> QED
    BY ONLY <2>1 DEF ReceiverMoves
<1>2. CASE dt = 0 /\ ge > 0
  <2>1. ge \in 1..u /\ u2 = u - ge /\ a2 = a + ge /\ i2 = i
    BY <1>2
  <2> QED
    BY ONLY <2>1 DEF ReceiverMoves
<1>3. CASE dt = 0 /\ ge = 0
  <2>1. i2 = i /\ u2 = u /\ a2 = a
    BY <1>3
  <2> QED
    BY ONLY <2>1 DEF ReceiverMoves
<1> QED
  BY <1>1, <1>2, <1>3

\* Moves of the counts are steps of the abstract windows.
LEMMA UpwardMoves ==
  ASSUME BothLive, BothLive',
         \/ /\ SenderMoves(srv.sendCredit, DataIn(toAgent), AcksIn(toServer),
                           srv'.sendCredit, DataIn(toAgent'), AcksIn(toServer'),
                           Largest)
            /\ Held' = Held
         \/ /\ ReceiverMoves(DataIn(toAgent), Held,
                             AcksIn(toServer), DataIn(toAgent'),
                             Held', AcksIn(toServer'))
            /\ srv'.sendCredit = srv.sendCredit
  PROVE  [Upward!Next]_(Upward!vars)
<1>1. (\A n : Live(n) = n) /\ Live(DataIn(py.inbox) + py.owed) = Held
  BY DEF Live, Held
<1>2. /\ Live(srv.sendCredit)' = srv'.sendCredit
      /\ Live(DataIn(toAgent))' = DataIn(toAgent')
      /\ Live(DataIn(py.inbox) + py.owed)' = Held'
      /\ Live(AcksIn(toServer))' = AcksIn(toServer')
  BY DEF Live, Held
<1> QED
  BY <1>1, <1>2 DEF SenderMoves, ReceiverMoves, Upward!Next, Upward!SendData,
     Upward!Receive, Upward!Acknowledge, Upward!Grant, Upward!vars

\* The same for the service's direction.
LEMMA DownwardMoves ==
  ASSUME BothLive, BothLive',
         \/ /\ SenderMoves(py.sendCredit, DataIn(toServer), AcksIn(toAgent),
                           py'.sendCredit, DataIn(toServer'), AcksIn(toAgent'),
                           MaxChunk)
            /\ srv'.recvUnacked = srv.recvUnacked
         \/ /\ ReceiverMoves(DataIn(toServer), srv.recvUnacked, AcksIn(toAgent),
                             DataIn(toServer'), srv'.recvUnacked, AcksIn(toAgent'))
            /\ py'.sendCredit = py.sendCredit
  PROVE  [Downward!Next]_(Downward!vars)
<1>1. \A n : Live(n) = n
  BY DEF Live
<1>2. /\ Live(py.sendCredit)' = py'.sendCredit
      /\ Live(DataIn(toServer))' = DataIn(toServer')
      /\ Live(srv.recvUnacked)' = srv'.recvUnacked
      /\ Live(AcksIn(toAgent))' = AcksIn(toAgent')
  BY DEF Live
<1> QED
  BY <1>1, <1>2 DEF SenderMoves, ReceiverMoves, Downward!Next, Downward!SendData,
     Downward!Receive, Downward!Acknowledge, Downward!Grant, Downward!vars

\* A turn of the server's end sends in one window and receives in the other.
LEMMA SrvRefines ==
  ASSUME IInv, IInv', NEW e, NEW t, SrvLaw(e, t)
  PROVE  [Upward!Next]_(Upward!vars) /\ [Downward!Next]_(Downward!vars)
<1>1. SrvWire(e, t) /\ SrvWord(e, t) /\ SrvBytes(e, t)
  BY DEF SrvLaw
<1>2. /\ BothLive \in BOOLEAN /\ BothLive' \in BOOLEAN
      /\ BothLive' => BothLive /\ ~srv'.finished /\ linkUp
  <2>1. linkUp' = linkUp
    BY <1>1 DEF SrvWire
  <2>2. BothLive' => linkUp
    BY <2>1 DEF BothLive
  <2>3. BothLive \in BOOLEAN /\ BothLive' \in BOOLEAN
    BY DEF BothLive
  <2> QED
    BY <1>1, <2>2, <2>3, SrvStaysOver
<1>3. CASE ~BothLive'
  BY <1>2, <1>3, NotLiveIsOver
<1>4. CASE BothLive'
  <2>1. /\ DataIn(toAgent') = DataIn(toAgent) + DataIn(e)
        /\ AcksIn(toAgent') = AcksIn(toAgent) + AcksIn(e)
        /\ DataIn(toServer) = DataIn(t) + DataIn(toServer')
        /\ AcksIn(toServer) = AcksIn(t) + AcksIn(toServer')
        /\ DataIn(e) \in Nat /\ AcksIn(e) \in Nat
        /\ DataIn(t) \in Nat /\ AcksIn(t) \in Nat
    BY <1>1, <1>2, <1>4, SrvSeen
  <2>2. /\ srv'.sendCredit + DataIn(e) = srv.sendCredit + AcksIn(t)
        /\ srv'.recvUnacked + AcksIn(e) = srv.recvUnacked + DataIn(t)
        /\ DataIn(e) > 0 => srv.sendCredit > 0 /\ DataIn(e) <= Largest /\ t = <<>>
    BY <1>1, <1>2, <1>4 DEF SrvBytes
  <2>3. DataIn(e) > 0 => AcksIn(t) = 0
    BY <2>2, FewFrames
  <2>4. /\ Held' = Held
        /\ py'.sendCredit = py.sendCredit
    BY <1>1 DEF SrvWire, pVars, Held
  <2>5. /\ srv.sendCredit \in Int /\ srv.recvUnacked \in Nat
        /\ DataIn(toAgent) \in Nat /\ AcksIn(toAgent) \in Nat
        /\ DataIn(toServer) \in Nat /\ AcksIn(toServer) \in Nat
    BY CountsKnown
  <2>6. /\ srv'.sendCredit \in Int /\ srv'.recvUnacked \in Nat
        /\ DataIn(toAgent') \in Nat /\ AcksIn(toAgent') \in Nat
        /\ DataIn(toServer') \in Nat /\ AcksIn(toServer') \in Nat
    <3>1. Types'
      BY DEF IInv
    <3>2. /\ toAgent' \in Seq(WireFrame) /\ toServer' \in Seq(WireFrame)
          /\ srv' \in SrvType
      BY <3>1 DEF Types
    <3>3. srv'.sendCredit \in Int /\ srv'.recvUnacked \in Nat
      BY <3>2 DEF SrvType
    <3> QED
      BY <3>2, <3>3, CountsBounded DEF WireFrame
  <2>7. Largest \in Nat
    BY LargestBounds
  <2>8. SenderMoves(srv.sendCredit, DataIn(toAgent), AcksIn(toServer),
                    srv'.sendCredit, DataIn(toAgent'), AcksIn(toServer'), Largest)
    BY ONLY <2>1, <2>2, <2>3, <2>5, <2>6, <2>7, SenderLaw
  <2>9. ReceiverMoves(DataIn(toServer), srv.recvUnacked, AcksIn(toAgent),
                      DataIn(toServer'), srv'.recvUnacked, AcksIn(toAgent'))
    BY ONLY <2>1, <2>2, <2>5, <2>6, ReceiverLaw
  <2> QED
    BY <1>2, <1>4, <2>4, <2>8, <2>9, UpwardMoves, DownwardMoves
<1> QED
  BY <1>3, <1>4

\* So does a turn of the agent's end.
LEMMA PyRefines ==
  ASSUME IInv, IInv', NEW e, NEW t, PyLaw(e, t)
  PROVE  [Upward!Next]_(Upward!vars) /\ [Downward!Next]_(Downward!vars)
<1>1. PyWire(e, t) /\ PyWord(e, t) /\ PyBytes(e, t)
  BY DEF PyLaw
<1>2. /\ BothLive \in BOOLEAN /\ BothLive' \in BOOLEAN
      /\ BothLive' => /\ BothLive /\ ~py'.finished /\ linkUp
                      /\ ~(py'.run = "none" /\ t # <<>>)
  <2>1. linkUp' = linkUp
    BY <1>1 DEF PyWire
  <2>2. BothLive' => linkUp
    BY <2>1 DEF BothLive
  <2>3. BothLive \in BOOLEAN /\ BothLive' \in BOOLEAN
    BY DEF BothLive
  <2> QED
    BY <1>1, <2>2, <2>3, PyStaysOver
<1>3. CASE ~BothLive'
  BY <1>2, <1>3, NotLiveIsOver
<1>4. CASE BothLive'
  <2> DEFINE was == Held
             is  == Held'
  <2>1. /\ DataIn(toServer') = DataIn(toServer) + DataIn(e)
        /\ AcksIn(toServer') = AcksIn(toServer) + AcksIn(e)
        /\ DataIn(toAgent) = DataIn(t) + DataIn(toAgent')
        /\ AcksIn(toAgent) = AcksIn(t) + AcksIn(toAgent')
        /\ DataIn(e) \in Nat /\ AcksIn(e) \in Nat
        /\ DataIn(t) \in Nat /\ AcksIn(t) \in Nat
    BY <1>1, <1>2, <1>4, PySeen
  <2>2. /\ py'.sendCredit + DataIn(e) = py.sendCredit + AcksIn(t)
        /\ is + AcksIn(e) = was + DataIn(t)
        /\ DataIn(e) > 0 => py.sendCredit > 0 /\ DataIn(e) <= MaxChunk /\ t = <<>>
    BY <1>1, <1>2, <1>4 DEF PyBytes
  <2>3. DataIn(e) > 0 => AcksIn(t) = 0
    BY <2>2, FewFrames
  <2>4. srv'.recvUnacked = srv.recvUnacked /\ srv'.sendCredit = srv.sendCredit
    BY <1>1 DEF PyWire, sVars
  <2>5. /\ py.sendCredit \in Int /\ was \in Nat
        /\ DataIn(toAgent) \in Nat /\ AcksIn(toAgent) \in Nat
        /\ DataIn(toServer) \in Nat /\ AcksIn(toServer) \in Nat
    BY CountsKnown
  <2>6. /\ py'.sendCredit \in Int /\ is \in Nat
        /\ DataIn(toAgent') \in Nat /\ AcksIn(toAgent') \in Nat
        /\ DataIn(toServer') \in Nat /\ AcksIn(toServer') \in Nat
    <3>1. Types'
      BY DEF IInv
    <3>2. /\ toAgent' \in Seq(WireFrame) /\ toServer' \in Seq(WireFrame)
          /\ py' \in PyType
      BY <3>1 DEF Types
    <3>3. py'.sendCredit \in Int
      BY <3>2 DEF PyType
    <3>4. is = DataIn(py'.inbox) + py'.owed
      BY DEF Held
    <3>5. is \in Nat
      BY <3>2, <3>4, HeldTyped
    <3>6. /\ DataIn(toAgent') \in Nat /\ AcksIn(toAgent') \in Nat
          /\ DataIn(toServer') \in Nat /\ AcksIn(toServer') \in Nat
      BY <3>2, CountsBounded DEF WireFrame
    <3> QED
      BY <3>3, <3>5, <3>6
  <2>7. MaxChunk \in Nat
    BY SocketAssumption
  <2> HIDE DEF was, is
  <2>8. SenderMoves(py.sendCredit, DataIn(toServer), AcksIn(toAgent),
                    py'.sendCredit, DataIn(toServer'), AcksIn(toAgent'), MaxChunk)
    BY ONLY <2>1, <2>2, <2>3, <2>5, <2>6, <2>7, SenderLaw
  <2>9. ReceiverMoves(DataIn(toAgent), was, AcksIn(toServer),
                      DataIn(toAgent'), is, AcksIn(toServer'))
    BY ONLY <2>1, <2>2, <2>5, <2>6, ReceiverLaw
  <2> QED
    BY <1>2, <1>4, <2>4, <2>8, <2>9, UpwardMoves, DownwardMoves DEF was, is
<1> QED
  BY <1>3, <1>4

\* The Python agent and the server implement the credit window in each direction:
\* what reading the local service, the queue of a slow one, its drain() and the
\* late acknowledgements do to the counts is what CreditWindow allows, so its
\* theorems hold of this bridge too.
THEOREM Windows == Spec => BothAreWindows
<1>1. Init => Upward!Init /\ Downward!Init
  <2> SUFFICES ASSUME Init PROVE Upward!Init /\ Downward!Init
    OBVIOUS
  <2>1. /\ srv = S!NoStream /\ linkUp = TRUE /\ toAgent = <<>> /\ toServer = <<>>
    BY SameOperators DEF Init, S!ServerInit
  <2>2. PICK r \in RewriteHosts : py = P!NoPyStream(r)
    BY DEF Init, P!PyInit
  <2>3. /\ py.sendCredit = Window /\ py.owed = 0 /\ ~py.finished
        /\ py.inbox = <<>>
    BY <2>2 DEF P!NoPyStream
  <2>4. ~srv.opened /\ ~srv.finished /\ srv.sendCredit = Window /\ srv.recvUnacked = 0
    BY <2>1 DEF S!NoStream
  <2>5. BothLive = TRUE
    BY <2>1, <2>3, <2>4 DEF BothLive, Refused
  <2>6. DataIn(py.inbox) = 0
    BY <2>3, FewFrames
  <2>7. DataIn(py.inbox) + py.owed = 0
    BY <2>3, <2>6
  <2>8. /\ DataIn(toAgent) = 0 /\ AcksIn(toAgent) = 0
        /\ DataIn(toServer) = 0 /\ AcksIn(toServer) = 0
    BY <2>1, FewFrames
  <2> QED
    BY <2>3, <2>4, <2>5, <2>7, <2>8 DEF Upward!Init, Downward!Init, Live
<1>2. /\ IInv /\ IInv' /\ [Next]_vars
         => [Upward!Next]_(Upward!vars) /\ [Downward!Next]_(Downward!vars)
  <2> SUFFICES ASSUME IInv, IInv', [Next]_vars
               PROVE  [Upward!Next]_(Upward!vars) /\ [Downward!Next]_(Downward!vars)
    OBVIOUS
  <2>1. CASE \E e, t : SrvLaw(e, t)
    BY <2>1, SrvRefines
  <2>2. CASE \E e, t : PyLaw(e, t)
    BY <2>2, PyRefines
  <2>3. CASE LinkLost
    <3>1. BothLive \in BOOLEAN /\ BothLive' \in BOOLEAN
      BY DEF BothLive
    <3>2. ~BothLive'
      BY <2>3 DEF LinkLost, BothLive
    <3>3. BothLive' => BothLive
      BY <3>2
    <3> QED
      BY <3>1, <3>2, <3>3, NotLiveIsOver
  <2>4. CASE UNCHANGED vars
    <3>1. /\ srv' = srv /\ py' = py /\ linkUp' = linkUp
          /\ toAgent' = toAgent /\ toServer' = toServer
      BY <2>4 DEF vars, sVars, pVars, linkVars
    <3>2. BothLive' = BothLive
      BY <3>1 DEF BothLive, Refused
    <3> QED
      BY <3>1, <3>2 DEF Upward!vars, Downward!vars, Live
  <2> QED
    BY <2>1, <2>2, <2>3, <2>4, EveryStep
<1>3. /\ []IInv /\ Init /\ [][Next]_vars
         => /\ Upward!Init /\ [][Upward!Next]_(Upward!vars)
            /\ Downward!Init /\ [][Downward!Next]_(Downward!vars)
  BY <1>1, <1>2, PTL
<1> QED
  BY <1>3, Invariance DEF Spec, BothAreWindows, Upward!Spec, Downward!Spec
=============================================================================
