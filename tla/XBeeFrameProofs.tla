--------------------------- MODULE XBeeFrameProofs ---------------------------
(***************************************************************************)
(* The reader of XBee frames stays within its array, delivers what was     *)
(* sent while nothing is lost, and misses at most two frames for a byte    *)
(* that is lost: for every size of the array and of a byte, whatever       *)
(* frames are sent, however many bytes are lost and wherever.  And an      *)
(* address and the data of a frame survive their way through the layouts:  *)
(* for every address of two words, all data that fits the eight bits of a  *)
(* length, and whatever the frames before left in the array.               *)
(*                                                                         *)
(* What send writes of a frame is a recursion over its bytes: the first    *)
(* part shows that such a recursion defines a function and what its values *)
(* are, by induction over the members of a set of numbers (Induction).     *)
(***************************************************************************)
EXTENDS XBeeFrame, XBeeLayout, FiniteSetTheorems, TLAPS

\* Recursion over the bytes of a sequence.

\* A set of numbers has a least one.
LEMMA Least ==
    ASSUME NEW T \in SUBSET Nat, T # {}
    PROVE  \E x \in T : \A y \in T : x <= y
<1>1. PICK R : R = OpToRel(<, Nat)
  OBVIOUS
<1>2. R = {ss \in Nat \X Nat : ss[1] < ss[2]}
  BY <1>1 DEF OpToRel
<1>3. IsWellFoundedOn(R, Nat)
  BY <1>1, NatLessThanWellFounded
<1>4. PICK x \in T : \A y \in T : <<y, x>> \notin R
  BY <1>3, WFMin
<1>5. ASSUME NEW y \in T PROVE x <= y
  <2>1. x \in Nat /\ y \in Nat /\ ~ (y < x)
    BY <1>2, <1>4
  <2> QED BY <2>1
<1> QED BY <1>5

\* Induction over the members of a set.
LEMMA Induction ==
    ASSUME NEW P, 0 \in P, \A k \in Nat : k \in P => k + 1 \in P
    PROVE  \A k \in Nat : k \in P
<1> SUFFICES ASSUME NEW k \in Nat, k \notin P PROVE FALSE
  OBVIOUS
<1>1. PICK x \in Nat \ P : \A y \in Nat \ P : x <= y
  BY Least
<1>2. x # 0 /\ x - 1 \in Nat /\ ~ (x <= x - 1)
  BY <1>1
<1>3. x - 1 \in P
  BY <1>1, <1>2
<1>4. x - 1 + 1 \in P /\ x - 1 + 1 = x
  BY <1>2, <1>3
<1> QED BY <1>1, <1>4

\* A function defined by recursion over a first part of the naturals.
Steps(F, n, S) == F \in [1 .. n -> [S -> S]]
Follows(g, F, n, S, a) == g \in [0 .. n -> S] /\ g[0] = a /\ \A k \in 1 .. n : g[k] = F[k][g[k - 1]]

\* A recursion over 0 .. n has a solution, and only one (Same).
LEMMA Recursion ==
    ASSUME NEW n \in Nat, NEW S, NEW a \in S, NEW F, Steps(F, n, S)
    PROVE  \E g : Follows(g, F, n, S, a)
<1> USE DEF Steps, Follows
<1> DEFINE Good(m) == \E g \in [0 .. m -> S] : g[0] = a /\ \A k \in 1 .. m : g[k] = F[k][g[k - 1]]
           P == {m \in Nat : m <= n => Good(m)}
<1>1. 0 \in P
  <2> DEFINE g == [k \in 0 .. 0 |-> a]
  <2>1. g \in [0 .. 0 -> S] /\ g[0] = a /\ \A k \in 1 .. 0 : g[k] = F[k][g[k - 1]]
    OBVIOUS
  <2> QED BY <2>1
<1>2. ASSUME NEW m \in Nat, m \in P PROVE m + 1 \in P
  <2> SUFFICES ASSUME m + 1 <= n PROVE Good(m + 1)
    OBVIOUS
  <2>1. PICK g \in [0 .. m -> S] : g[0] = a /\ \A k \in 1 .. m : g[k] = F[k][g[k - 1]]
    BY <1>2
  <2> DEFINE h == [k \in 0 .. m + 1 |-> IF k = m + 1 THEN F[k][g[m]] ELSE g[k]]
  <2>2. m \in 0 .. m /\ g[m] \in S /\ m + 1 \in 1 .. n /\ F[m + 1] \in [S -> S]
    BY <2>1
  <2>3. F[m + 1][g[m]] \in S
    BY <2>2
  <2>4. h \in [0 .. m + 1 -> S]
    BY <2>1, <2>3
  <2>5. h[0] = a
    BY <2>1
  <2>6. ASSUME NEW k \in 1 .. m + 1 PROVE h[k] = F[k][h[k - 1]]
    <3>1. h[k - 1] = g[k - 1]
      OBVIOUS
    <3>2. CASE k = m + 1
      BY <3>1, <3>2
    <3>3. CASE k # m + 1
      BY <2>1, <3>1, <3>3
    <3> QED BY <3>2, <3>3
  <2> HIDE DEF h
  <2> QED BY <2>4, <2>5, <2>6
<1> HIDE DEF P
<1>3. n \in P
  BY <1>1, <1>2, Induction
<1> QED BY <1>3 DEF P

LEMMA Same ==
    ASSUME NEW n \in Nat, NEW g, NEW h, DOMAIN g = 0 .. n, DOMAIN h = 0 .. n,
           g = [k \in DOMAIN g |-> g[k]], h = [k \in DOMAIN h |-> h[k]],
           h[0] = g[0], \A k \in 1 .. n : h[k - 1] = g[k - 1] => h[k] = g[k]
    PROVE  h = g
<1> DEFINE P == {k \in Nat : k <= n => h[k] = g[k]}
<1>1. 0 \in P
  OBVIOUS
<1>2. ASSUME NEW k \in Nat, k \in P PROVE k + 1 \in P
  <2> SUFFICES ASSUME k + 1 <= n PROVE h[k + 1] = g[k + 1]
    OBVIOUS
  <2>1. h[k] = g[k] /\ k + 1 \in 1 .. n /\ k + 1 - 1 = k
    BY <1>2
  <2> QED BY <2>1
<1> HIDE DEF P
<1>3. \A k \in Nat : k \in P
  BY <1>1, <1>2, Induction
<1>4. \A k \in 0 .. n : h[k] = g[k]
  BY <1>3 DEF P
<1> QED BY <1>4

\* The recursion of Checksum has a solution.
LEMMA SumExists ==
    ASSUME NEW f \in Seq(Nat), BYTES \in Nat \ {0}
    PROVE  \E g \in [0 .. Len(f) -> Nat] :
              g = [k \in 0 .. Len(f) |-> IF k = 0 THEN 0 ELSE (g[k - 1] + f[k]) % BYTES]
<1> DEFINE n == Len(f)
           F == [k \in 1 .. n |-> [s \in Nat |-> (s + f[k]) % BYTES]]
<1>0. n \in Nat /\ 0 \in Nat
  OBVIOUS
<1>1. F \in [1 .. n -> [Nat -> Nat]]
  OBVIOUS
<1>2. \A k \in 1 .. n, s \in Nat : F[k][s] = (s + f[k]) % BYTES
  OBVIOUS
<1> HIDE DEF n, F
<1>3. PICK g \in [0 .. n -> Nat] : g[0] = 0 /\ \A k \in 1 .. n : g[k] = F[k][g[k - 1]]
  <2>1. PICK N : N = Nat
    OBVIOUS
  <2>2. F \in [1 .. n -> [N -> N]] /\ 0 \in N
    BY <1>0, <1>1, <2>1
  <2>3. \E g \in [0 .. n -> N] : g[0] = 0 /\ \A k \in 1 .. n : g[k] = F[k][g[k - 1]]
    <3>1. PICK G : G = F
      OBVIOUS
    <3>2. G \in [1 .. n -> [N -> N]]
      BY <2>2, <3>1
    <3>3. \E g \in [0 .. n -> N] : g[0] = 0 /\ \A k \in 1 .. n : g[k] = G[k][g[k - 1]]
      <4>1. Steps(G, n, N)
        BY <3>2 DEF Steps
      <4>2. PICK g : Follows(g, G, n, N, 0)
        BY <1>0, <2>2, <4>1, Recursion
      <4> QED BY <4>2 DEF Follows
    <3> QED BY <3>1, <3>3
  <2> QED BY <2>1, <2>3
<1>4. ASSUME NEW k \in 1 .. n PROVE g[k] = (g[k - 1] + f[k]) % BYTES
  <2>1. g[k - 1] \in Nat
    BY <1>0, <1>3
  <2> QED BY <1>2, <1>3, <2>1
<1>5. g = [k \in 0 .. n |-> IF k = 0 THEN 0 ELSE (g[k - 1] + f[k]) % BYTES]
  <2> DEFINE h == [k \in 0 .. n |-> IF k = 0 THEN 0 ELSE (g[k - 1] + f[k]) % BYTES]
  <2>1. \A k \in 0 .. n : g[k] = h[k]
    <3> SUFFICES ASSUME NEW k \in 0 .. n PROVE g[k] = h[k]
      OBVIOUS
    <3>1. CASE k = 0
      BY <1>3, <3>1
    <3>2. CASE k # 0
      <4>1. k \in 1 .. n
        BY <1>0, <3>2
      <4> QED BY <1>4, <3>2, <4>1
    <3> QED BY <3>1, <3>2
  <2>2. DOMAIN g = 0 .. n /\ DOMAIN h = 0 .. n /\ g = [k \in 0 .. n |-> g[k]]
    OBVIOUS
  <2> QED BY <2>1, <2>2
<1> QED BY <1>3, <1>5 DEF n

\* Checksum is what its recursion computes.
LEMMA Sums ==
    ASSUME NEW f \in Seq(Nat), BYTES \in Nat \ {0}
    PROVE  \E g \in [0 .. Len(f) -> Nat] :
              /\ g[0] = 0 /\ (\A k \in 1 .. Len(f) : g[k] = (g[k - 1] + f[k]) % BYTES)
              /\ Checksum(f) = BYTES - 1 - g[Len(f)]
<1> DEFINE Q(g) == g = [k \in 0 .. Len(f) |-> IF k = 0 THEN 0 ELSE (g[k - 1] + f[k]) % BYTES]
           sum == CHOOSE g : Q(g)
<1>1. PICK g \in [0 .. Len(f) -> Nat] : Q(g)
  BY SumExists
<1>2. Q(sum)
  <2>1. \E h : Q(h)
    BY <1>1
  <2> HIDE DEF Q
  <2> QED BY <2>1
<1>3. Checksum(f) = BYTES - 1 - sum[Len(f)]
  BY DEF Checksum
<1> HIDE DEF sum
<1>4. sum = g
  <2>1. g[0] = 0 /\ \A k \in 1 .. Len(f) : g[k] = (g[k - 1] + f[k]) % BYTES
    BY <1>1
  <2>2. /\ sum[0] = 0 /\ (\A k \in 1 .. Len(f) : sum[k] = (sum[k - 1] + f[k]) % BYTES)
        /\ DOMAIN sum = 0 .. Len(f)
    BY <1>2
  <2>3. sum = [k \in DOMAIN sum |-> sum[k]]
    BY <1>2
  <2>4. Len(f) \in Nat /\ DOMAIN g = 0 .. Len(f) /\ g = [k \in DOMAIN g |-> g[k]]
    OBVIOUS
  <2> HIDE DEF Q
  <2>5. sum[0] = g[0] /\ \A k \in 1 .. Len(f) : sum[k - 1] = g[k - 1] => sum[k] = g[k]
    BY <2>1, <2>2
  <2> QED BY <2>2, <2>3, <2>4, <2>5, Same
<1>5. g[0] = 0 /\ \A k \in 1 .. Len(f) : g[k] = (g[k - 1] + f[k]) % BYTES
  BY <1>1
<1> HIDE DEF Q
<1> QED BY <1>1, <1>3, <1>4, <1>5


Marks == {START_BYTE, ESCAPE, XON, XOFF}

\* A byte goes out as one or two, the first of which tells which.
LEMMA SentByte ==
    ASSUME NEW b \in Byte
    PROVE  /\ sendByte(b) \in Seq(Byte) /\ Len(sendByte(b)) \in {1, 2}
           /\ b \in Marks => /\ Len(sendByte(b)) = 2 /\ sendByte(b)[1] = ESCAPE /\ sendByte(b)[2] = Flip(b)
                             /\ Flip(b) \notin {START_BYTE, ESCAPE} /\ Flip(Flip(b)) = b
           /\ b \notin Marks => Len(sendByte(b)) = 1 /\ sendByte(b)[1] = b
<1>1. ESCAPE \in Byte /\ Flip(b) \in Byte
  BY BytesAssumption, EscapesAssumption
<1>2. CASE b \in Marks
  <2>1. sendByte(b) = <<ESCAPE, Flip(b)>>
    BY <1>2 DEF sendByte, Marks
  <2>2. Flip(b) \notin {START_BYTE, ESCAPE} /\ Flip(Flip(b)) = b
    BY <1>2, EscapesAssumption DEF Marks
  <2> QED BY <1>1, <1>2, <2>1, <2>2
<1>3. CASE b \notin Marks
  <2>1. sendByte(b) = <<b>>
    BY <1>3 DEF sendByte, Marks
  <2> QED BY <1>3, <2>1
<1> QED BY <1>2, <1>3

LEMMA Joining ==
    ASSUME NEW S, NEW s \in Seq(S), NEW t \in Seq(S)
    PROVE  /\ s \o t \in Seq(S) /\ Len(s \o t) = Len(s) + Len(t) /\ Len(s) \in Nat /\ Len(t) \in Nat
           /\ \A k \in 1 .. Len(s) : (s \o t)[k] = s[k]
           /\ \A k \in 1 .. Len(t) : (s \o t)[Len(s) + k] = t[k]
OBVIOUS

\* Kept unexpanded: a recursive definition mentions only these.
Nothing == <<>>
Extended(t, b) == t \o sendByte(b)
Kept(t, f) == IF Fits(f) THEN Append(t, f) ELSE t

\* The recursion of Escaped has a solution.
LEMMA EscapeExists ==
    ASSUME NEW s \in Seq(Byte)
    PROVE  \E g \in [0 .. Len(s) -> Seq(Byte)] :
              g = [k \in 0 .. Len(s) |-> IF k = 0 THEN Nothing ELSE Extended(g[k - 1], s[k])]
<1>0. PICK n, S, F : /\ n = Len(s) /\ S = Seq(Byte) /\ n \in Nat
                    /\ F = [k \in 1 .. n |-> [t \in S |-> Extended(t, s[k])]]
  <2>1. Len(s) \in Nat
    OBVIOUS
  <2> QED BY <2>1, Zenon
<1>1. \A k \in 1 .. n, t \in S : F[k][t] = Extended(t, s[k])
  BY <1>0
<1>2. Steps(F, n, S) /\ Nothing \in S
  <2>1. ASSUME NEW k \in 1 .. n, NEW t \in S PROVE Extended(t, s[k]) \in S
    <3>1. s[k] \in Byte
      BY <1>0
    <3>2. t \in Seq(Byte) /\ sendByte(s[k]) \in Seq(Byte)
      BY <1>0, <3>1, SentByte
    <3> QED BY <1>0, <3>2, Joining DEF Extended
  <2>2. <<>> \in Seq(Byte)
    OBVIOUS
  <2> QED BY <1>0, <2>1, <2>2 DEF Steps, Nothing
<1>3. PICK g : Follows(g, F, n, S, Nothing)
  BY <1>0, <1>2, Recursion
<1>4. g \in [0 .. n -> S] /\ g[0] = Nothing /\ \A k \in 1 .. n : g[k] = F[k][g[k - 1]]
  BY <1>3 DEF Follows
<1>5. ASSUME NEW k \in 1 .. n PROVE g[k] = Extended(g[k - 1], s[k])
  <2>1. k - 1 \in 0 .. n
    BY <1>0
  <2>2. g[k - 1] \in S /\ g[k] = F[k][g[k - 1]]
    BY <1>4, <2>1
  <2> QED BY <1>1, <2>2
<1>6. g = [k \in 0 .. n |-> IF k = 0 THEN Nothing ELSE Extended(g[k - 1], s[k])]
  BY <1>0, <1>4, <1>5
<1> QED BY <1>0, <1>4, <1>6

\* Escaped is what its recursion computes.
LEMMA Escapes ==
    ASSUME NEW s \in Seq(Byte)
    PROVE  \E g \in [0 .. Len(s) -> Seq(Byte)] :
              /\ g[0] = <<>> /\ (\A k \in 1 .. Len(s) : g[k] = g[k - 1] \o sendByte(s[k]))
              /\ Escaped(s) = g[Len(s)]
<1> DEFINE Q(g) == g = [k \in 0 .. Len(s) |-> IF k = 0 THEN Nothing ELSE Extended(g[k - 1], s[k])]
           upTo == CHOOSE g : Q(g)
<1> HIDE DEF Q
<1>1. PICK g \in [0 .. Len(s) -> Seq(Byte)] : Q(g)
  BY EscapeExists DEF Q
<1>2. Q(upTo)
  BY <1>1
<1>3. Escaped(s) = upTo[Len(s)]
  BY Zenon DEF Escaped, Q, Nothing, Extended
<1> HIDE DEF upTo
<1>4. g[0] = Nothing /\ \A k \in 1 .. Len(s) : g[k] = Extended(g[k - 1], s[k])
  BY <1>1 DEF Q
<1>5. /\ upTo[0] = Nothing /\ (\A k \in 1 .. Len(s) : upTo[k] = Extended(upTo[k - 1], s[k]))
      /\ DOMAIN upTo = 0 .. Len(s) /\ upTo = [k \in DOMAIN upTo |-> upTo[k]]
  BY <1>2 DEF Q
<1>6. upTo = g
  <2>1. Len(s) \in Nat /\ DOMAIN g = 0 .. Len(s) /\ g = [k \in DOMAIN g |-> g[k]]
    OBVIOUS
  <2>2. upTo[0] = g[0] /\ \A k \in 1 .. Len(s) : upTo[k - 1] = g[k - 1] => upTo[k] = g[k]
    BY <1>4, <1>5
  <2> QED BY <1>5, <2>1, <2>2, Same
<1> QED BY <1>1, <1>3, <1>4, <1>6, Zenon DEF Nothing, Extended

\* The recursion of Fitting has a solution.
LEMMA FittingExists ==
    ASSUME NEW s \in Seq(Seq(Byte))
    PROVE  \E g \in [0 .. Len(s) -> Seq(Seq(Byte))] :
              g = [k \in 0 .. Len(s) |-> IF k = 0 THEN Nothing ELSE Kept(g[k - 1], s[k])]
<1>0. PICK n, S, F : /\ n = Len(s) /\ S = Seq(Seq(Byte)) /\ n \in Nat
                    /\ F = [k \in 1 .. n |-> [t \in S |-> Kept(t, s[k])]]
  <2>1. Len(s) \in Nat
    OBVIOUS
  <2> QED BY <2>1, Zenon
<1>1. \A k \in 1 .. n, t \in S : F[k][t] = Kept(t, s[k])
  BY <1>0
<1>2. Steps(F, n, S) /\ Nothing \in S
  <2>1. ASSUME NEW k \in 1 .. n, NEW t \in S PROVE Kept(t, s[k]) \in S
    <3>1. PICK B : B = Seq(Byte)
      OBVIOUS
    <3>2. s[k] \in B /\ t \in Seq(B)
      BY <1>0, <3>1
    <3>3. Append(t, s[k]) \in Seq(B)
      BY <3>2
    <3> QED BY <1>0, <3>1, <3>2, <3>3 DEF Kept
  <2>2. <<>> \in Seq(Seq(Byte))
    OBVIOUS
  <2> QED BY <1>0, <2>1, <2>2 DEF Steps, Nothing
<1>3. PICK g : Follows(g, F, n, S, Nothing)
  BY <1>0, <1>2, Recursion
<1>4. g \in [0 .. n -> S] /\ g[0] = Nothing /\ \A k \in 1 .. n : g[k] = F[k][g[k - 1]]
  BY <1>3 DEF Follows
<1>5. ASSUME NEW k \in 1 .. n PROVE g[k] = Kept(g[k - 1], s[k])
  <2>1. k - 1 \in 0 .. n
    BY <1>0
  <2>2. g[k - 1] \in S /\ g[k] = F[k][g[k - 1]]
    BY <1>4, <2>1
  <2> QED BY <1>1, <2>2
<1>6. g = [k \in 0 .. n |-> IF k = 0 THEN Nothing ELSE Kept(g[k - 1], s[k])]
  BY <1>0, <1>4, <1>5
<1> QED BY <1>0, <1>4, <1>6

\* Fitting is what its recursion computes.
LEMMA Fittings ==
    ASSUME NEW s \in Seq(Seq(Byte))
    PROVE  \E g \in [0 .. Len(s) -> Seq(Seq(Byte))] :
              /\ g[0] = <<>> /\ (\A k \in 1 .. Len(s) : g[k] = IF Fits(s[k]) THEN Append(g[k - 1], s[k]) ELSE g[k - 1])
              /\ (s = sent => Fitting = g[Len(s)]) /\ (s = sent' => Fitting' = g[Len(s)])
<1> DEFINE Q(g) == g = [k \in 0 .. Len(s) |-> IF k = 0 THEN Nothing ELSE Kept(g[k - 1], s[k])]
           upTo == CHOOSE g : Q(g)
<1> HIDE DEF Q
<1>0. PICK T : T = Seq(Seq(Byte))
  OBVIOUS
<1>1. PICK g \in [0 .. Len(s) -> T] : Q(g)
  BY <1>0, FittingExists DEF Q
<1>2. Q(upTo)
  BY <1>1
<1>3. (s = sent => Fitting = upTo[Len(s)]) /\ (s = sent' => Fitting' = upTo[Len(s)])
  BY Zenon DEF Fitting, Q, Nothing, Kept
<1> HIDE DEF upTo
<1>4. g[0] = Nothing /\ \A k \in 1 .. Len(s) : g[k] = Kept(g[k - 1], s[k])
  <2>1. Len(s) \in Nat
    OBVIOUS
  <2>2. g = [k \in 0 .. Len(s) |-> IF k = 0 THEN Nothing ELSE Kept(g[k - 1], s[k])]
    BY <1>1 DEF Q
  <2>3. PICK n, h : n = Len(s) /\ h = g
    OBVIOUS
  <2>4. h = [k \in 0 .. n |-> IF k = 0 THEN Nothing ELSE Kept(h[k - 1], s[k])] /\ n \in Nat
    BY <2>1, <2>2, <2>3
  <2>5. h[0] = Nothing /\ \A k \in 1 .. n : h[k] = Kept(h[k - 1], s[k])
    BY <2>4
  <2> QED BY <2>3, <2>5
<1>5. /\ upTo[0] = Nothing /\ (\A k \in 1 .. Len(s) : upTo[k] = Kept(upTo[k - 1], s[k]))
      /\ DOMAIN upTo = 0 .. Len(s) /\ upTo = [k \in DOMAIN upTo |-> upTo[k]]
  BY <1>2 DEF Q
<1>6. upTo = g
  <2>1. Len(s) \in Nat /\ DOMAIN g = 0 .. Len(s) /\ g = [k \in DOMAIN g |-> g[k]]
    OBVIOUS
  <2>2. upTo[0] = g[0] /\ \A k \in 1 .. Len(s) : upTo[k - 1] = g[k - 1] => upTo[k] = g[k]
    BY <1>4, <1>5
  <2> QED BY <1>5, <2>1, <2>2, Same
<1> QED BY <1>0, <1>1, <1>3, <1>4, <1>6, Zenon DEF Nothing, Kept

----------------------------------------------------------------------------
\* What send writes: the raw bytes of a frame, and where each of them is on the line.

\* What one frame looks like on the line.
Raw(f) == <<(Len(f) \div BYTES) % BYTES, Len(f) % BYTES>> \o f \o <<Checksum(f)>>

\* The place after each byte of the frame, counted in bytes of the line.
Cut(u, f) ==
    /\ u \in [0 .. Len(f) + 3 -> Nat] /\ u[0] = 1 /\ u[Len(f) + 3] = Len(Encode(f))
    /\ \A k \in 1 .. Len(f) + 3 : u[k] = u[k - 1] + Len(sendByte(Raw(f)[k]))
    /\ \A k \in 1 .. Len(f) + 3 : \A i \in 1 .. Len(sendByte(Raw(f)[k])) :
          Encode(f)[u[k - 1] + i] = sendByte(Raw(f)[k])[i]
    /\ \A i, j \in 0 .. Len(f) + 3 : i <= j => u[j] - u[i] >= j - i

\* A sequence that grows by x[k] at each step.
Grows(t, x, n, S) ==
    /\ \A m \in 0 .. n : t[m] \in Seq(S)
    /\ \A k \in 1 .. n : x[k] \in Seq(S) /\ Len(x[k]) >= 1 /\ t[k] = t[k - 1] \o x[k]
StartOf(a, b, d) == Len(b) - Len(a) >= d /\ \A i \in 1 .. Len(a) : b[i] = a[i]
LEMMA StartGrows ==
    ASSUME NEW S, NEW a \in Seq(S), NEW b \in Seq(S), NEW x \in Seq(S), Len(x) >= 1,
           NEW d \in Nat, StartOf(a, b, d)
    PROVE  StartOf(a, b \o x, d + 1)
<1>1. /\ Len(b \o x) = Len(b) + Len(x) /\ Len(b) \in Nat /\ Len(x) \in Nat /\ Len(a) \in Nat
      /\ \A i \in 1 .. Len(b) : (b \o x)[i] = b[i]
  BY Joining
<1>2. Len(b) - Len(a) >= d /\ \A i \in 1 .. Len(a) : b[i] = a[i]
  BY DEF StartOf
<1>3. Len(b \o x) - Len(a) >= d + 1
  BY <1>1, <1>2
<1>4. ASSUME NEW i \in 1 .. Len(a) PROVE (b \o x)[i] = a[i]
  <2>1. i \in 1 .. Len(b)
    BY <1>1, <1>2
  <2> QED BY <1>1, <1>2, <2>1
<1> QED BY <1>3, <1>4 DEF StartOf

\* What is written only grows.
LEMMA Prefixes ==
    ASSUME NEW n \in Nat, NEW S, NEW t, NEW x, Grows(t, x, n, S)
    PROVE  \A m \in 0 .. n : \A k \in 0 .. m : StartOf(t[k], t[m], m - k)
<1> DEFINE P == {m \in Nat : m <= n => \A k \in 0 .. m : StartOf(t[k], t[m], m - k)}
<1>0. \A m \in 0 .. n : t[m] \in Seq(S) /\ Len(t[m]) \in Nat /\ StartOf(t[m], t[m], 0)
  <2> SUFFICES ASSUME NEW m \in 0 .. n
               PROVE t[m] \in Seq(S) /\ Len(t[m]) \in Nat /\ StartOf(t[m], t[m], 0)
    OBVIOUS
  <2>1. t[m] \in Seq(S)
    BY DEF Grows
  <2>2. PICK a : a = t[m]
    OBVIOUS
  <2>3. a \in Seq(S)
    BY <2>1, <2>2
  <2>4. Len(a) \in Nat /\ StartOf(a, a, 0)
    BY <2>3 DEF StartOf
  <2> QED BY <2>1, <2>2, <2>4
<1>1. 0 \in P
  <2>1. \A k \in 0 .. 0 : k = 0
    OBVIOUS
  <2>2. 0 \in 0 .. n /\ 0 - 0 = 0
    OBVIOUS
  <2> QED BY <1>0, <2>1, <2>2
<1>2. ASSUME NEW m \in Nat, m \in P PROVE m + 1 \in P
  <2>1. ASSUME m + 1 <= n, NEW k \in 0 .. m + 1 PROVE StartOf(t[k], t[m + 1], m + 1 - k)
    <3>1. m + 1 \in 1 .. n /\ m \in 0 .. n /\ m + 1 \in 0 .. n /\ k \in 0 .. n /\ m + 1 - 1 = m /\ m <= n
      BY <2>1
    <3>2. CASE k = m + 1
      <4>1. m + 1 - k = 0
        BY <3>2
      <4> QED BY <1>0, <3>1, <3>2, <4>1
    <3>3. CASE k # m + 1
      <4>1. k \in 0 .. m /\ m - k \in Nat /\ (m - k) + 1 = m + 1 - k
        BY <3>3
      <4>2. StartOf(t[k], t[m], m - k)
        BY <1>2, <3>1, <4>1
      <4>3. PICK a, b, c : a = t[k] /\ b = t[m] /\ c = x[m + 1]
        OBVIOUS
      <4>4. a \in Seq(S) /\ b \in Seq(S)
        BY <1>0, <3>1, <4>3
      <4>5. c \in Seq(S) /\ Len(c) >= 1 /\ t[m + 1] = b \o c
        <5>1. PICK j, y : j = m + 1 /\ y = x[m + 1]
          OBVIOUS
        <5>2. x[j] \in Seq(S) /\ Len(x[j]) >= 1 /\ t[j] = t[j - 1] \o x[j]
          BY <3>1, <5>1 DEF Grows
        <5> QED BY <3>1, <4>3, <5>1, <5>2
      <4>6. StartOf(a, b \o c, (m - k) + 1)
        BY <4>1, <4>2, <4>3, <4>4, <4>5, StartGrows
      <4> QED BY <4>1, <4>3, <4>5, <4>6
    <3> QED BY <3>2, <3>3
  <2> QED BY <2>1
<1> HIDE DEF P
<1>3. \A m \in Nat : m \in P
  BY <1>1, <1>2, Induction
<1>4. \A m \in 0 .. n : m \in Nat /\ m <= n
  OBVIOUS
<1> QED BY <1>3, <1>4 DEF P

LEMMA SumIsByte ==
    ASSUME NEW f \in Seq(Byte), NEW g \in [0 .. Len(f) -> Nat], g[0] = 0,
           \A k \in 1 .. Len(f) : g[k] = (g[k - 1] + f[k]) % BYTES
    PROVE  \A k \in 0 .. Len(f) : g[k] \in Byte
<1>1. BYTES \in Nat /\ BYTES > 0 /\ 0 \in Byte /\ Len(f) \in Nat
  BY BytesAssumption DEF Byte
<1> SUFFICES ASSUME NEW k \in 0 .. Len(f) PROVE g[k] \in Byte
  OBVIOUS
<1>2. CASE k = 0
  BY <1>1, <1>2
<1>3. CASE k # 0
  <2>1. k \in 1 .. Len(f) /\ k - 1 \in 0 .. Len(f)
    BY <1>1, <1>3
  <2>2. PICK y \in Nat : y = g[k - 1] + f[k]
    <3>1. f[k] \in Byte
      BY <2>1
    <3>2. g[k - 1] \in Nat
      BY <2>1
    <3>3. f[k] \in Nat
      BY <3>1 DEF Byte
    <3> QED BY <3>2, <3>3
  <2>3. y % BYTES \in 0 .. BYTES - 1
    BY <1>1
  <2> QED BY <2>1, <2>2, <2>3 DEF Byte
<1> QED BY <1>2, <1>3

\* The raw bytes of a frame: length, API id and data, checksum.
LEMMA RawBytes ==
    ASSUME NEW f \in Seq(Byte)
    PROVE  \E g \in [0 .. Len(f) -> Byte] :
              /\ g[0] = 0 /\ \A k \in 1 .. Len(f) : g[k] = (g[k - 1] + f[k]) % BYTES
              /\ Raw(f) \in Seq(Byte) /\ Len(Raw(f)) = Len(f) + 3 /\ Len(f) \in Nat
              /\ Len(f) < BYTES => Raw(f)[1] = 0 /\ Raw(f)[2] = Len(f)
              /\ \A k \in 1 .. Len(f) : Raw(f)[k + 2] = f[k]
              /\ Raw(f)[Len(f) + 3] = BYTES - 1 - g[Len(f)]
<1>1. BYTES \in Nat /\ BYTES > 0 /\ Len(f) \in Nat
  BY BytesAssumption DEF Byte
<1>2. f \in Seq(Nat) /\ BYTES \in Nat \ {0}
  BY <1>1 DEF Byte
<1>3. PICK g \in [0 .. Len(f) -> Nat] :
         /\ g[0] = 0 /\ (\A k \in 1 .. Len(f) : g[k] = (g[k - 1] + f[k]) % BYTES)
         /\ Checksum(f) = BYTES - 1 - g[Len(f)]
  BY <1>2, Sums
<1>4. \A k \in 0 .. Len(f) : g[k] \in Byte
  BY <1>3, SumIsByte
<1>5. Checksum(f) \in Byte
  <2>1. g[Len(f)] \in Byte
    BY <1>1, <1>4
  <2> QED BY <1>1, <1>3, <2>1 DEF Byte
<1>6. PICK a, b, c : a = (Len(f) \div BYTES) % BYTES /\ b = Len(f) % BYTES /\ c = Checksum(f)
  OBVIOUS
<1>7. a \in Byte /\ b \in Byte /\ (Len(f) < BYTES => a = 0 /\ b = Len(f))
  <2>1. Len(f) \div BYTES \in Nat
    BY <1>1
  <2>2. a \in Byte /\ b \in Byte
    BY <1>1, <1>6, <2>1 DEF Byte
  <2>3. Len(f) < BYTES => Len(f) \div BYTES = 0 /\ Len(f) % BYTES = Len(f)
    BY <1>1
  <2>4. 0 % BYTES = 0
    BY <1>1
  <2> QED BY <1>6, <2>2, <2>3, <2>4
<1>8. Raw(f) = <<a, b>> \o f \o <<c>>
  BY <1>6 DEF Raw
<1>9. PICK S : S = Byte
  OBVIOUS
<1>10. a \in S /\ b \in S /\ c \in S /\ f \in Seq(S)
  BY <1>5, <1>6, <1>7, <1>9
<1>11. PICK d : d = <<a, b>> \o f
  OBVIOUS
<1>12. /\ d \in Seq(S) /\ Len(d) = Len(f) + 2 /\ d[1] = a /\ d[2] = b
       /\ \A k \in 1 .. Len(f) : d[k + 2] = f[k]
  <2>1. <<a, b>> \in Seq(S) /\ Len(<<a, b>>) = 2 /\ <<a, b>>[1] = a /\ <<a, b>>[2] = b
    BY <1>10
  <2> QED BY <1>1, <1>10, <1>11, <2>1
<1>13. /\ Raw(f) \in Seq(S) /\ Len(Raw(f)) = Len(f) + 3 /\ Raw(f)[1] = a /\ Raw(f)[2] = b
       /\ (\A k \in 1 .. Len(f) : Raw(f)[k + 2] = f[k]) /\ Raw(f)[Len(f) + 3] = c
  <2>1. Raw(f) = d \o <<c>> /\ <<c>> \in Seq(S) /\ Len(<<c>>) = 1 /\ <<c>>[1] = c
    BY <1>8, <1>10, <1>11
  <2>2. /\ Raw(f) \in Seq(S) /\ Len(Raw(f)) = Len(d) + 1
        /\ \A k \in 1 .. Len(d) : Raw(f)[k] = d[k]
        /\ Raw(f)[Len(d) + 1] = c
    BY <1>12, <2>1
  <2>3. \A k \in 1 .. Len(f) : k + 2 \in 1 .. Len(d)
    BY <1>1, <1>12
  <2>4. 1 \in 1 .. Len(d) /\ 2 \in 1 .. Len(d)
    BY <1>1, <1>12
  <2> QED BY <1>1, <1>12, <2>2, <2>3, <2>4
<1>14. g \in [0 .. Len(f) -> Byte]
  BY <1>4
<1> QED BY <1>1, <1>3, <1>6, <1>7, <1>9, <1>13, <1>14

\* Each raw byte has its place on the line, after the start byte.
LEMMA Cuts ==
    ASSUME NEW f \in Seq(Byte)
    PROVE  \E u : /\ Cut(u, f)
                  /\ Encode(f) \in Seq(Byte) /\ Encode(f)[1] = START_BYTE /\ Len(Encode(f)) >= Len(f) + 4
<1>1. PICK n, r : n = Len(f) + 3 /\ r = Raw(f)
  OBVIOUS
<1>2. n \in Nat /\ Len(f) \in Nat /\ r \in Seq(Byte) /\ Len(r) = n
  BY <1>1, RawBytes
<1>3. PICK t \in [0 .. n -> Seq(Byte)] :
         t[0] = <<>> /\ (\A k \in 1 .. n : t[k] = t[k - 1] \o sendByte(r[k])) /\ Escaped(r) = t[n]
  BY <1>2, Escapes
<1>4. PICK x : x = [k \in 1 .. n |-> sendByte(r[k])]
  OBVIOUS
<1>5. \A k \in 1 .. n : x[k] = sendByte(r[k]) /\ x[k] \in Seq(Byte) /\ Len(x[k]) >= 1 /\ t[k] = t[k - 1] \o x[k]
  <2> SUFFICES ASSUME NEW k \in 1 .. n
               PROVE x[k] = sendByte(r[k]) /\ x[k] \in Seq(Byte) /\ Len(x[k]) >= 1 /\ t[k] = t[k - 1] \o x[k]
    OBVIOUS
  <2>1. x[k] = sendByte(r[k]) /\ r[k] \in Byte
    BY <1>2, <1>4
  <2>2. sendByte(r[k]) \in Seq(Byte) /\ Len(sendByte(r[k])) \in {1, 2}
    BY <2>1, SentByte
  <2>3. PICK T, y : T = Seq(Byte) /\ y = sendByte(r[k])
    OBVIOUS
  <2>4. y \in T /\ Len(y) >= 1
    BY <2>2, <2>3
  <2>5. t[k] = t[k - 1] \o sendByte(r[k])
    BY <1>3
  <2> QED BY <2>1, <2>3, <2>4, <2>5
<1>6. \A m \in 0 .. n : \A k \in 0 .. m : StartOf(t[k], t[m], m - k)
  <2>1. \A m \in 0 .. n : t[m] \in Seq(Byte)
    OBVIOUS
  <2>2. Grows(t, x, n, Byte)
    BY <1>5, <2>1 DEF Grows
  <2> QED BY <1>2, <2>2, Prefixes
<1>7. PICK u : u = [k \in 0 .. n |-> 1 + Len(t[k])]
  OBVIOUS
<1>8. PICK e : e = Encode(f)
  OBVIOUS
<1>9. /\ e \in Seq(Byte) /\ Len(e) = 1 + Len(t[n]) /\ e[1] = START_BYTE
      /\ \A k \in 1 .. Len(t[n]) : e[1 + k] = t[n][k]
  <2>1. e = <<START_BYTE>> \o t[n]
    BY <1>1, <1>3, <1>8 DEF Encode, Raw
  <2>2. t[n] \in Seq(Byte)
    BY <1>2
  <2>3. /\ <<START_BYTE>> \in Seq(Byte) /\ Len(<<START_BYTE>>) = 1 /\ <<START_BYTE>>[1] = START_BYTE
    BY BytesAssumption
  <2> QED BY <2>1, <2>2, <2>3, Joining
<1>10. \A k \in 0 .. n : t[k] \in Seq(Byte) /\ Len(t[k]) \in Nat /\ u[k] = 1 + Len(t[k])
  BY <1>2, <1>7
<1>11. u \in [0 .. n -> Nat] /\ u[0] = 1 /\ u[n] = Len(e)
  <2>1. u \in [0 .. n -> Nat]
    BY <1>7, <1>10
  <2>2. 0 \in 0 .. n /\ n \in 0 .. n /\ Len(<<>>) = 0
    BY <1>2
  <2> QED BY <1>3, <1>9, <1>10, <2>1, <2>2
<1>12. ASSUME NEW k \in 1 .. n
       PROVE  /\ u[k] = u[k - 1] + Len(sendByte(r[k]))
              /\ \A i \in 1 .. Len(sendByte(r[k])) : e[u[k - 1] + i] = sendByte(r[k])[i]
  <2>1. k \in 0 .. n /\ k - 1 \in 0 .. n
    BY <1>2
  <2>2. PICK a, b : a = t[k - 1] /\ b = sendByte(r[k])
    OBVIOUS
  <2>3. t[k] = a \o b /\ a \in Seq(Byte) /\ b \in Seq(Byte)
    BY <1>5, <1>10, <2>1, <2>2
  <2>4. /\ Len(t[k]) = Len(a) + Len(b) /\ Len(a) \in Nat /\ Len(b) \in Nat
        /\ \A i \in 1 .. Len(b) : t[k][Len(a) + i] = b[i]
    BY <2>3, Joining
  <2>5. u[k] = u[k - 1] + Len(b) /\ u[k - 1] = 1 + Len(a)
    <3>1. u[k] = 1 + Len(t[k]) /\ u[k - 1] = 1 + Len(t[k - 1])
      BY <1>10, <2>1
    <3>2. PICK p, q : p = t[k] /\ q = t[k - 1]
      OBVIOUS
    <3>3. u[k] = 1 + Len(p) /\ u[k - 1] = 1 + Len(a) /\ Len(p) = Len(a) + Len(b)
      BY <2>2, <2>4, <3>1, <3>2
    <3> QED BY <2>4, <3>3
  <2>6. ASSUME NEW i \in 1 .. Len(b) PROVE e[u[k - 1] + i] = b[i]
    <3>1. n \in 0 .. n /\ k \in 0 .. n
      BY <1>2
    <3>2. Len(t[n]) - Len(t[k]) >= n - k /\ \A j \in 1 .. Len(t[k]) : t[n][j] = t[k][j]
      <4>1. k \in 0 .. n
        BY <1>2
      <4> QED BY <1>6, <3>1, <4>1 DEF StartOf
    <3>3. PICK j \in Nat : j = Len(a) + i
      BY <2>4
    <3>4. j \in 1 .. Len(t[k])
      BY <2>4, <3>3
    <3>5. j \in 1 .. Len(t[n])
      BY <1>2, <1>10, <3>1, <3>2, <3>4
    <3>6. e[1 + j] = t[n][j] /\ t[n][j] = t[k][j]
      BY <1>9, <3>2, <3>4, <3>5
    <3>7. t[k][j] = b[i]
      BY <2>4, <3>3
    <3>8. u[k - 1] + i = 1 + j
      BY <2>4, <2>5, <3>3
    <3> QED BY <3>6, <3>7, <3>8
  <2> QED BY <2>2, <2>5, <2>6
<1>13. ASSUME NEW i \in 0 .. n, NEW j \in 0 .. n, i <= j PROVE u[j] - u[i] >= j - i
  <2>1. i \in 0 .. j
    BY <1>2, <1>13
  <2>2. Len(t[j]) - Len(t[i]) >= j - i
    BY <1>6, <2>1 DEF StartOf
  <2> QED BY <1>10, <2>2
<1>14. Len(e) >= Len(f) + 4
  <2>1. 0 \in 0 .. n /\ n \in 0 .. n /\ 0 <= n
    BY <1>2
  <2>2. u[n] - u[0] >= n - 0
    BY <1>13, <2>1
  <2> QED BY <1>1, <1>2, <1>11, <2>2
<1>15. Cut(u, f)
  BY <1>1, <1>8, <1>11, <1>12, <1>13 DEF Cut
<1> QED BY <1>8, <1>9, <1>14, <1>15

\* One frame f on the line: the place u[k] after its first k bytes, and the sum
\* g[k] of its first k data bytes.
NextOf(u, f, k) ==
    /\ Raw(f)[k + 1] \in Byte
    /\ Raw(f)[k + 1] \in Marks => /\ u[k + 1] = u[k] + 2 /\ Encode(f)[u[k] + 1] = ESCAPE
                                  /\ Encode(f)[u[k] + 2] = Flip(Raw(f)[k + 1])
    /\ Raw(f)[k + 1] \notin Marks => u[k + 1] = u[k] + 1 /\ Encode(f)[u[k] + 1] = Raw(f)[k + 1]
Places(u, f) ==
    /\ u \in [0 .. Len(f) + 3 -> Nat] /\ u[0] = 1 /\ u[Len(f) + 3] = Len(Encode(f))
    /\ \A k \in 0 .. Len(f) + 2 : NextOf(u, f, k)
    /\ \A i, j \in 0 .. Len(f) + 3 : i <= j => u[j] - u[i] >= j - i
Content(g, f) ==
    /\ g \in [0 .. Len(f) -> Byte] /\ g[0] = 0
    /\ \A k \in 1 .. Len(f) : g[k] = (g[k - 1] + f[k]) % BYTES /\ Raw(f)[k + 2] = f[k]
    /\ Raw(f)[Len(f) + 3] = BYTES - 1 - g[Len(f)]
    /\ Len(f) < BYTES => Raw(f)[1] = 0 /\ Raw(f)[2] = Len(f)

\* The same of a frame, by what the reader needs to know.
LEMMA Shapes ==
    ASSUME NEW f \in Seq(Byte)
    PROVE  /\ \E u, g : Places(u, f) /\ Content(g, f)
           /\ Encode(f) \in Seq(Byte) /\ Encode(f)[1] = START_BYTE /\ Len(Encode(f)) >= Len(f) + 4
           /\ Len(f) \in Nat /\ Len(Encode(f)) \in Nat
<1>1. PICK u : /\ Cut(u, f)
               /\ Encode(f) \in Seq(Byte) /\ Encode(f)[1] = START_BYTE /\ Len(Encode(f)) >= Len(f) + 4
  BY Cuts
<1>2. PICK g \in [0 .. Len(f) -> Byte] :
              /\ g[0] = 0 /\ \A k \in 1 .. Len(f) : g[k] = (g[k - 1] + f[k]) % BYTES
              /\ Raw(f) \in Seq(Byte) /\ Len(Raw(f)) = Len(f) + 3 /\ Len(f) \in Nat
              /\ Len(f) < BYTES => Raw(f)[1] = 0 /\ Raw(f)[2] = Len(f)
              /\ \A k \in 1 .. Len(f) : Raw(f)[k + 2] = f[k]
              /\ Raw(f)[Len(f) + 3] = BYTES - 1 - g[Len(f)]
  BY RawBytes
<1>3. Content(g, f)
  BY <1>2 DEF Content
<1>4. ASSUME NEW k \in 0 .. Len(f) + 2 PROVE NextOf(u, f, k)
  <2>1. PICK b : b = Raw(f)[k + 1]
    OBVIOUS
  <2>2. k + 1 \in 1 .. Len(f) + 3 /\ k + 1 - 1 = k
    BY <1>2
  <2>3. b \in Byte
    <3>1. PICK r, S : r = Raw(f) /\ S = Byte
      OBVIOUS
    <3>2. r \in Seq(S) /\ k + 1 \in 1 .. Len(r)
      BY <1>2, <2>2, <3>1
    <3>3. r[k + 1] \in S
      BY <3>2
    <3> QED BY <2>1, <3>1, <3>3
  <2>4. /\ u[k + 1] = u[k] + Len(sendByte(b))
        /\ \A i \in 1 .. Len(sendByte(b)) : Encode(f)[u[k] + i] = sendByte(b)[i]
    BY <1>1, <2>1, <2>2 DEF Cut
  <2>5. /\ b \in Marks => /\ Len(sendByte(b)) = 2 /\ sendByte(b)[1] = ESCAPE /\ sendByte(b)[2] = Flip(b)
        /\ b \notin Marks => Len(sendByte(b)) = 1 /\ sendByte(b)[1] = b
    BY <2>3, SentByte
  <2>6. CASE b \in Marks
    <3>1. 1 \in 1 .. 2 /\ 2 \in 1 .. 2
      OBVIOUS
    <3>2. u[k + 1] = u[k] + 2 /\ Encode(f)[u[k] + 1] = ESCAPE /\ Encode(f)[u[k] + 2] = Flip(b)
      BY <2>4, <2>5, <2>6, <3>1
    <3> QED BY <2>1, <2>3, <2>6, <3>2 DEF NextOf
  <2>7. CASE b \notin Marks
    <3>1. 1 \in 1 .. 1
      OBVIOUS
    <3>2. u[k + 1] = u[k] + 1 /\ Encode(f)[u[k] + 1] = b
      BY <2>4, <2>5, <2>7, <3>1
    <3> QED BY <2>1, <2>3, <2>7, <3>2 DEF NextOf
  <2> QED BY <2>6, <2>7
<1>5. Places(u, f)
  BY <1>1, <1>4 DEF Places, Cut
<1>6. Len(Encode(f)) \in Nat
  BY <1>1
<1> QED BY <1>1, <1>2, <1>3, <1>5, <1>6

\* A start byte is the first byte of a frame, an escape neither the first nor the last.
LEMMA MarksInFrame ==
    ASSUME NEW f \in Seq(Byte), NEW w \in 1 .. Len(Encode(f))
    PROVE  /\ Encode(f)[w] = START_BYTE <=> w = 1
           /\ Encode(f)[w] = ESCAPE => w > 1 /\ w < Len(Encode(f))
<1>1. PICK u : Places(u, f)
  BY Shapes
<1>2. Len(f) \in Nat /\ Len(Encode(f)) \in Nat /\ Encode(f)[1] = START_BYTE /\ START_BYTE # ESCAPE
  BY Shapes, EscapesAssumption
<1>3. CASE w = 1
  BY <1>2, <1>3
<1>4. CASE w # 1
  <2> DEFINE T == {k \in 0 .. Len(f) + 3 : w <= u[k]}
  <2>1. T \in SUBSET Nat /\ Len(f) + 3 \in T
    BY <1>1, <1>2 DEF Places
  <2>2. PICK x \in T : \A y \in T : x <= y
    <3>1. T # {}
      BY <2>1
    <3> HIDE DEF T
    <3> QED BY <2>1, <3>1, Least
  <2>3. x # 0 /\ x \in 0 .. Len(f) + 3 /\ w <= u[x]
    BY <1>1, <1>4, <2>2 DEF Places
  <2>4. PICK k \in 0 .. Len(f) + 2 : x = k + 1
    <3>1. x - 1 \in 0 .. Len(f) + 2 /\ x = (x - 1) + 1
      BY <1>2, <2>3
    <3> QED BY <3>1
  <2>5. ~ (w <= u[k])
    <3>1. ~ (x <= k) /\ k \in 0 .. Len(f) + 3
      BY <1>2, <2>4
    <3>2. k \notin T
      BY <2>2, <3>1
    <3> QED BY <3>1, <3>2
  <2> HIDE DEF T
  <2>6. u[k] \in Nat /\ u[k + 1] \in Nat /\ u[k] < w /\ w <= u[k + 1] /\ u[k + 1] <= Len(Encode(f))
    <3>1. k \in 0 .. Len(f) + 3 /\ k + 1 \in 0 .. Len(f) + 3 /\ Len(f) + 3 \in 0 .. Len(f) + 3 /\ k + 1 <= Len(f) + 3
      BY <1>2
    <3>2. u[k] \in Nat /\ u[k + 1] \in Nat
      BY <1>1, <3>1 DEF Places
    <3>3. u[Len(f) + 3] - u[k + 1] >= (Len(f) + 3) - (k + 1) /\ u[Len(f) + 3] = Len(Encode(f))
      BY <1>1, <3>1 DEF Places
    <3>4. u[k + 1] <= Len(Encode(f))
      BY <1>2, <3>1, <3>2, <3>3
    <3> QED BY <2>3, <2>4, <2>5, <3>2, <3>4
  <2>7. PICK b : b = Raw(f)[k + 1]
    OBVIOUS
  <2>8. /\ b \in Byte
        /\ b \in Marks => u[k + 1] = u[k] + 2 /\ Encode(f)[u[k] + 1] = ESCAPE /\ Encode(f)[u[k] + 2] = Flip(b)
        /\ b \notin Marks => u[k + 1] = u[k] + 1 /\ Encode(f)[u[k] + 1] = b
    BY <1>1, <2>7 DEF Places, NextOf
  <2>9. CASE b \in Marks
    <3>1. Flip(b) \notin {START_BYTE, ESCAPE}
      BY <2>8, <2>9, SentByte
    <3>2. w = u[k] + 1 \/ w = u[k] + 2
      BY <2>6, <2>8, <2>9
    <3>3. CASE w = u[k] + 1
      <4>1. Encode(f)[w] = ESCAPE
        BY <2>8, <2>9, <3>3
      <4>2. w < Len(Encode(f)) /\ w > 1
        BY <1>2, <1>4, <2>6, <2>8, <2>9, <3>3
      <4> QED BY <1>2, <1>4, <4>1, <4>2
    <3>4. CASE w = u[k] + 2
      <4>1. Encode(f)[w] = Flip(b)
        BY <2>8, <2>9, <3>4
      <4> QED BY <1>4, <3>1, <4>1
    <3> QED BY <3>2, <3>3, <3>4
  <2>10. CASE b \notin Marks
    <3>1. w = u[k] + 1
      BY <2>6, <2>8, <2>10
    <3>2. Encode(f)[w] = b
      BY <2>8, <2>10, <3>1
    <3>3. b # START_BYTE /\ b # ESCAPE
      BY <2>10 DEF Marks
    <3> QED BY <1>4, <3>2, <3>3
  <2> QED BY <2>9, <2>10
<1> QED BY <1>3, <1>4

----------------------------------------------------------------------------
\* The array of the reader.

M == MAX_FRAME_DATA_SIZE

\* The types, by what the actions disturb.
LineOK == line \in Seq(Byte)
NumbersOK == escape \in BOOLEAN /\ checksumTotal \in Byte /\ msbLength \in Byte /\ lsbLength \in Byte
FlagOK == available \in BOOLEAN
ArrayOK == pos \in 0 .. M + 1 /\ frame \in Seq(Byte) /\ Len(frame) <= M - 2

\* What makes the bound inductive: while data is read, pos tells how much there is.
PosIsFrame == pos > API_ID_INDEX => Len(frame) <= pos - API_ID_INDEX

IInv == LineOK /\ NumbersOK /\ FlagOK /\ ArrayOK /\ PosIsFrame

LEMMA Constants ==
    /\ M \in Nat /\ M >= 4 /\ BYTES \in Nat /\ BYTES > M
    /\ 0 \in Byte /\ \A x \in Nat : x % BYTES \in Byte
<1>1. BYTES \in Nat /\ M \in 4 .. BYTES - 1 BY BytesAssumption DEF M
<1>2. M \in Nat /\ M >= 4 /\ BYTES > M BY <1>1
<1>3. 0 \in Byte BY <1>1, <1>2 DEF Byte
<1>4. \A x \in Nat : x % BYTES \in 0 .. BYTES - 1 BY <1>1, <1>2
<1> QED BY <1>1, <1>2, <1>3, <1>4 DEF Byte

LEMMA Parts == IInv => TypeOK
BY DEF IInv, TypeOK, LineOK, NumbersOK, FlagOK, ArrayOK, M

\* Sequences of bytes.
LEMMA Rest ==
    ASSUME NEW S, NEW s \in Seq(S), s # <<>>
    PROVE  Tail(s) \in Seq(S) /\ Head(s) \in S
OBVIOUS

LEMMA Together ==
    ASSUME NEW S, NEW s \in Seq(S), NEW t \in Seq(S)
    PROVE  s \o t \in Seq(S)
OBVIOUS

LEMMA Piece ==
    ASSUME NEW S, NEW s \in Seq(S), NEW i \in 1 .. Len(s) + 1, NEW j \in 0 .. Len(s)
    PROVE  SubSeq(s, i, j) \in Seq(S)
OBVIOUS

LEMMA OneMoreByte ==
    ASSUME NEW S, NEW s \in Seq(S), NEW b \in S
    PROVE  Append(s, b) \in Seq(S) /\ Len(Append(s, b)) = Len(s) + 1 /\ Len(s) \in Nat
OBVIOUS

\* Before a frame, and right after its start byte.
LEMMA NoFrame ==
    ASSUME pos \in {0, 1}, frame = <<>>
    PROVE  ArrayOK /\ PosIsFrame
<1>1. M \in Nat /\ M >= 4 BY Constants
<1>2. <<>> \in Seq(Byte) /\ Len(<<>>) = 0 OBVIOUS
<1>3. pos \in 0 .. M + 1 BY <1>1
<1>4. Len(frame) <= M - 2 BY <1>1, <1>2
<1>5. PosIsFrame BY DEF PosIsFrame, API_ID_INDEX
<1> QED BY <1>2, <1>3, <1>4, <1>5 DEF ArrayOK

LEMMA InitInv == Init => IInv
<1> SUFFICES ASSUME Init PROVE IInv OBVIOUS
<1>1. ArrayOK /\ PosIsFrame BY NoFrame DEF Init
<1>2. LineOK BY DEF Init, LineOK
<1>3. NumbersOK /\ FlagOK BY Constants DEF Init, NumbersOK, FlagOK
<1> QED BY <1>1, <1>2, <1>3 DEF IInv

----------------------------------------------------------------------------
\* The line: what is sent and what is lost leave the reader alone.
LEMMA LineStep ==
    ASSUME IInv, UNCHANGED reader, line' \in Seq(Byte)
    PROVE  IInv'
BY DEF IInv, LineOK, NumbersOK, FlagOK, ArrayOK, PosIsFrame, reader, counters, response

LEMMA SendStep ==
    ASSUME IInv, NEW f \in Frames, Send(f)
    PROVE  IInv'
<1>1. line \in Seq(Byte) /\ Encode(f) \in Seq(Byte) BY FramesAssumption, Shapes DEF IInv, LineOK
<1>2. line \o Encode(f) \in Seq(Byte) BY <1>1, Together
<1>3. line' = line \o Encode(f) /\ UNCHANGED reader BY DEF Send
<1> QED BY <1>2, <1>3, LineStep

LEMMA LoseStep ==
    ASSUME IInv, LoseByte
    PROVE  IInv'
<1>1. PICK k \in 1 .. Len(line) : line' = SubSeq(line, 1, k - 1) \o SubSeq(line, k + 1, Len(line))
  BY DEF LoseByte
<1>2. line \in Seq(Byte) /\ Len(line) \in Nat BY DEF IInv, LineOK
<1>3. SubSeq(line, 1, k - 1) \in Seq(Byte)
  <2>1. 1 \in 1 .. Len(line) + 1 /\ k - 1 \in 0 .. Len(line) BY <1>2
  <2> QED BY <1>2, <2>1, Piece
<1>4. SubSeq(line, k + 1, Len(line)) \in Seq(Byte)
  <2>1. k + 1 \in 1 .. Len(line) + 1 /\ Len(line) \in 0 .. Len(line) BY <1>2
  <2> QED BY <1>2, <2>1, Piece
<1>5. line' \in Seq(Byte) BY <1>1, <1>3, <1>4, Together
<1>6. UNCHANGED reader BY DEF LoseByte
<1> QED BY <1>5, <1>6, LineStep

----------------------------------------------------------------------------
\* A byte in the middle of a frame: only Body makes the data grow, and not past
\* the check of pos.
LEMMA AcceptStep ==
    ASSUME IInv, NEW b \in Byte, Accept(b), LineOK'
    PROVE  IInv'
<1> USE Constants
<1>1. /\ pos \in 0 .. M + 1 /\ frame \in Seq(Byte) /\ Len(frame) <= M - 2
      /\ checksumTotal \in Byte /\ msbLength \in Byte /\ lsbLength \in Byte /\ available \in BOOLEAN
  BY DEF IInv, ArrayOK, NumbersOK, FlagOK
<1> DEFINE total == IF Summed(pos) THEN checksumTotal + b ELSE checksumTotal
<1>2. checksumTotal' = total % BYTES /\ escape' = FALSE /\ (Length(b) \/ ApiId(b) \/ Body(b, total))
  BY DEF Accept
<1>3. total \in Nat /\ total % BYTES \in Byte
  <2>1. total \in Nat BY <1>1 DEF Byte
  <2> HIDE DEF total
  <2> QED BY <2>1
<1> HIDE DEF total
<1>4. checksumTotal' \in Byte /\ escape' \in BOOLEAN BY <1>2, <1>3
<1>5. CASE Length(b)
  <2>1. /\ pos \in {1, 2} /\ pos' = pos + 1 /\ frame' = frame /\ available' = available
        /\ msbLength' \in Byte /\ lsbLength' \in Byte
    BY <1>1, <1>5 DEF Length
  <2>2. ArrayOK' /\ PosIsFrame' BY <1>1, <2>1 DEF ArrayOK, PosIsFrame, API_ID_INDEX
  <2>3. NumbersOK' /\ FlagOK' BY <1>1, <1>4, <2>1 DEF NumbersOK, FlagOK
  <2> QED BY <2>2, <2>3 DEF IInv
<1>6. CASE ApiId(b)
  <2>1. /\ pos = 3 /\ pos' = 4 /\ frame' = <<b>> /\ available' = available
        /\ msbLength' = msbLength /\ lsbLength' = lsbLength
    BY <1>6 DEF ApiId, API_ID_INDEX
  <2>2. frame' \in Seq(Byte) /\ Len(frame') = 1 BY <2>1
  <2>3. ArrayOK' /\ PosIsFrame' BY <2>1, <2>2 DEF ArrayOK, PosIsFrame, API_ID_INDEX
  <2>4. NumbersOK' /\ FlagOK' BY <1>1, <1>4, <2>1 DEF NumbersOK, FlagOK
  <2> QED BY <2>3, <2>4 DEF IInv
<1>7. CASE Body(b, total)
  <2>1. pos > 3 /\ Len(frame) <= pos - 3 BY <1>7 DEF Body, IInv, PosIsFrame, API_ID_INDEX
  <2>2. msbLength' = msbLength /\ lsbLength' = lsbLength BY <1>7 DEF Body, Complete
  <2>3. available' = available \/ available' = TRUE BY <1>7 DEF Body, Complete
  <2>4. NumbersOK' /\ FlagOK' BY <1>1, <1>4, <2>2, <2>3 DEF NumbersOK, FlagOK
  <2>5. CASE TooLong /\ error' = "PACKET_EXCEEDS_BYTE_ARRAY_LENGTH"
               /\ UNCHANGED <<pos, msbLength, lsbLength, frame, available, delivered>>
    <3>1. ArrayOK' /\ PosIsFrame' BY <1>1, <2>1, <2>5 DEF ArrayOK, PosIsFrame, API_ID_INDEX
    <3> QED BY <2>4, <3>1 DEF IInv
  <2>6. CASE ~ TooLong /\ Complete(total)
    <3>1. pos' = 0 /\ frame' = frame BY <2>6 DEF Complete
    <3>2. ArrayOK' /\ PosIsFrame' BY <1>1, <3>1 DEF ArrayOK, PosIsFrame, API_ID_INDEX
    <3> QED BY <2>4, <3>2 DEF IInv
  <2>7. CASE ~ TooLong /\ frame' = Append(frame, b) /\ pos' = pos + 1
    <3>1. pos <= M BY <1>1, <2>7 DEF TooLong, M
    <3>2. frame' \in Seq(Byte) /\ Len(frame') = Len(frame) + 1 /\ Len(frame) \in Nat
      BY <1>1, <2>7, OneMoreByte
    <3>3. ArrayOK' /\ PosIsFrame' BY <1>1, <2>1, <2>7, <3>1, <3>2 DEF ArrayOK, PosIsFrame, API_ID_INDEX
    <3> QED BY <2>4, <3>3 DEF IInv
  <2> QED BY <1>7, <2>5, <2>6, <2>7 DEF Body
<1> QED BY <1>2, <1>5, <1>6, <1>7

LEMMA ReadFirstStep ==
    ASSUME IInv, ReadFirst
    PROVE  IInv'
<1>1. line \in Seq(Byte) /\ line # <<>> /\ line' = Tail(line) BY DEF ReadFirst, IInv, LineOK
<1>2. LineOK' BY <1>1, Rest DEF LineOK
<1>3. NumbersOK' /\ FlagOK' BY Constants DEF ReadFirst, NumbersOK, FlagOK
<1>4. pos' \in {0, 1} /\ frame' = <<>> BY DEF ReadFirst
<1>5. ArrayOK' /\ PosIsFrame'
  <2>1. M \in Nat /\ M >= 4 BY Constants
  <2>2. <<>> \in Seq(Byte) /\ Len(<<>>) = 0 OBVIOUS
  <2>3. pos' \in 0 .. M + 1 BY <1>4, <2>1
  <2>4. Len(frame') <= M - 2 BY <1>4, <2>1, <2>2
  <2>5. PosIsFrame' BY <1>4 DEF PosIsFrame, API_ID_INDEX
  <2> QED BY <1>4, <2>2, <2>3, <2>4, <2>5 DEF ArrayOK
<1> QED BY <1>2, <1>3, <1>5 DEF IInv

LEMMA ReadByteStep ==
    ASSUME IInv, ReadByte
    PROVE  IInv'
<1> DEFINE b == IF Escaping THEN Flip(Head(line)) ELSE Head(line)
<1>1. line \in Seq(Byte) /\ line # <<>> /\ line' = Tail(line) /\ Accept(b) BY DEF ReadByte, IInv, LineOK
<1>2. LineOK' /\ Head(line) \in Byte BY <1>1, Rest DEF LineOK
<1>3. b \in Byte BY <1>2, EscapesAssumption
<1> HIDE DEF b
<1> QED BY <1>1, <1>2, <1>3, AcceptStep

LEMMA ReadEscapedStep ==
    ASSUME IInv, ReadEscaped
    PROVE  IInv'
<1> DEFINE c == Flip(line[2])
           b == IF Escaping THEN Flip(c) ELSE c
<1>1. line \in Seq(Byte) /\ Len(line) > 1 /\ line' = Tail(Tail(line)) /\ Accept(b)
  BY DEF ReadEscaped, IInv, LineOK
<1>2. line # <<>> /\ Tail(line) # <<>> /\ line[2] \in Byte
  <2> DEFINE S == Byte
  <2>1. line \in Seq(S) BY <1>1
  <2> HIDE DEF S
  <2>2. line # <<>> /\ Tail(line) # <<>> /\ line[2] \in S BY <1>1, <2>1
  <2> QED BY <2>2 DEF S
<1>3. LineOK'
  <2>1. Tail(line) \in Seq(Byte) BY <1>1, <1>2, Rest
  <2> QED BY <1>1, <1>2, <2>1, Rest DEF LineOK
<1>4. c \in Byte BY <1>2, EscapesAssumption
<1> HIDE DEF c
<1>5. b \in Byte BY <1>4, EscapesAssumption
<1> HIDE DEF b
<1> QED BY <1>1, <1>3, <1>5, AcceptStep

\* A start byte or an escape is taken off the line; pos and data stay.
LEMMA OtherByteStep ==
    ASSUME IInv, UnexpectedStart \/ EscapeAlone
    PROVE  IInv'
<1>1. line \in Seq(Byte) /\ line # <<>> /\ line' = Tail(line)
  BY DEF UnexpectedStart, EscapeAlone, IInv, LineOK
<1>2. LineOK' BY <1>1, Rest DEF LineOK
<1>3. /\ pos' = pos /\ frame' = frame /\ available' = available /\ checksumTotal' = checksumTotal
      /\ msbLength' = msbLength /\ lsbLength' = lsbLength /\ (escape' = escape \/ escape' = TRUE)
  BY DEF UnexpectedStart, EscapeAlone, counters, response
<1>4. NumbersOK' /\ FlagOK' /\ ArrayOK' /\ PosIsFrame'
  BY <1>3 DEF IInv, NumbersOK, FlagOK, ArrayOK, PosIsFrame
<1> QED BY <1>2, <1>4 DEF IInv

LEMMA StepInv == IInv /\ [Next]_vars => IInv'
<1> SUFFICES ASSUME IInv, [Next]_vars PROVE IInv' OBVIOUS
<1>1. ASSUME NEW f \in Frames, Send(f) PROVE IInv' BY <1>1, SendStep
<1>2. CASE LoseByte BY <1>2, LoseStep
<1>3. CASE UnexpectedStart \/ EscapeAlone BY <1>3, OtherByteStep
<1>4. CASE ReadFirst BY <1>4, ReadFirstStep
<1>5. CASE ReadByte BY <1>5, ReadByteStep
<1>6. CASE ReadEscaped BY <1>6, ReadEscapedStep
<1>7. CASE UNCHANGED vars
  <2>1. UNCHANGED reader /\ line' = line BY <1>7 DEF vars
  <2> QED BY <2>1, LineStep DEF IInv, LineOK
<1> QED BY <1>1, <1>2, <1>3, <1>4, <1>5, <1>6, <1>7 DEF Next

\* The types, and the bound of the array the frame is read into, which readPacket
\* checks late and only by pos.
THEOREM WithinArray == Spec => []TypeOK
<1>1. Init => IInv BY InitInv
<1>2. IInv /\ [Next]_vars => IInv' BY StepInv
<1>3. IInv => TypeOK BY Parts
<1> QED BY <1>1, <1>2, <1>3, PTL DEF Spec

----------------------------------------------------------------------------
\* The stream of all bytes sent, those lost included: frame m ends at e[m], and
\* fit[m] are the frames up to m that fit.
Ends(e, s) ==
    /\ e \in [0 .. Len(s) -> Nat] /\ e[0] = 0
    /\ \A m \in 1 .. Len(s) : e[m] = e[m - 1] + Len(Encode(s[m]))
FitsOf(fit, s) ==
    /\ fit \in [0 .. Len(s) -> Seq(Seq(Byte))] /\ fit[0] = Nothing
    /\ \A m \in 1 .. Len(s) : fit[m] = Kept(fit[m - 1], s[m])

\* Byte i on the line l is at p[i] in the stream, after z, and belongs to a frame m.
Belongs(p, m, b, e, s) == e[m - 1] < p /\ p <= e[m] /\ b = Encode(s[m])[p - e[m - 1]]
Place(p, z, e, s, l) ==
    /\ z \in Nat /\ z + Len(l) <= e[Len(s)]
    /\ \A i \in 1 .. Len(l) : /\ p[i] \in Nat /\ z + i <= p[i] /\ p[i] <= e[Len(s)] - (Len(l) - i)
                              /\ \E m \in 1 .. Len(s) : Belongs(p[i], m, l[i], e, s)
    /\ \A i, j \in 1 .. Len(l) : i <= j => p[j] - p[i] >= j - i
\* The last byte read, at z, is of frame n; none was yet if n = 0.
Where(n, z, e, s) == n \in 0 .. Len(s) /\ (n = 0 => z = 0) /\ (n > 0 => e[n - 1] < z /\ z <= e[n])

\* What grows at each step grows by the number of steps.
LEMMA Climbs ==
    ASSUME NEW n \in Nat, NEW x, \A k \in 0 .. n : x[k] \in Nat, \A k \in 1 .. n : x[k] >= x[k - 1] + 1
    PROVE  \A j \in 0 .. n : \A i \in 0 .. j : x[j] - x[i] >= j - i
<1> DEFINE P == {j \in Nat : j <= n => \A i \in 0 .. j : x[j] - x[i] >= j - i}
<1>1. 0 \in P
  <2>1. \A i \in 0 .. 0 : i = 0
    OBVIOUS
  <2>2. x[0] \in Nat
    OBVIOUS
  <2> QED BY <2>1, <2>2
<1>2. ASSUME NEW j \in Nat, j \in P PROVE j + 1 \in P
  <2>1. ASSUME j + 1 <= n, NEW i \in 0 .. j + 1 PROVE x[j + 1] - x[i] >= j + 1 - i
    <3>1. j + 1 \in 1 .. n /\ j \in 0 .. n /\ j + 1 \in 0 .. n /\ i \in 0 .. n /\ j + 1 - 1 = j /\ j <= n
      BY <2>1
    <3>2. x[j + 1] >= x[j] + 1 /\ x[j] \in Nat /\ x[j + 1] \in Nat /\ x[i] \in Nat
      BY <3>1
    <3>3. CASE i = j + 1
      BY <3>2, <3>3
    <3>4. CASE i # j + 1
      <4>1. i \in 0 .. j
        BY <3>4
      <4>2. x[j] - x[i] >= j - i
        BY <1>2, <3>1, <4>1
      <4> QED BY <3>2, <4>1, <4>2
    <3> QED BY <3>3, <3>4
  <2> QED BY <2>1
<1> HIDE DEF P
<1>3. \A j \in Nat : j \in P
  BY <1>1, <1>2, Induction
<1>4. \A j \in 0 .. n : j \in Nat /\ j <= n
  OBVIOUS
<1> QED BY <1>3, <1>4 DEF P

\* b is a and at most d more.
First(a, b, d) == Len(a) <= Len(b) /\ Len(b) <= Len(a) + d /\ \A i \in 1 .. Len(a) : b[i] = a[i]
LEMMA FirstKept ==
    ASSUME NEW S, NEW a \in Seq(S), NEW b \in Seq(S), NEW x \in S, NEW d \in Nat, First(a, b, d)
    PROVE  First(a, Kept(b, x), d + 1)
<1>1. Len(a) \in Nat /\ Len(b) \in Nat
  OBVIOUS
<1>2. Len(a) <= Len(b) /\ Len(b) <= Len(a) + d /\ \A i \in 1 .. Len(a) : b[i] = a[i]
  BY DEF First
<1>3. CASE Fits(x)
  <2>1. Kept(b, x) = Append(b, x)
    BY <1>3 DEF Kept
  <2>2. Len(Append(b, x)) = Len(b) + 1 /\ \A i \in 1 .. Len(b) : Append(b, x)[i] = b[i]
    OBVIOUS
  <2>3. \A i \in 1 .. Len(a) : i \in 1 .. Len(b)
    BY <1>1, <1>2
  <2>4. Len(a) <= Len(b) + 1 /\ Len(b) + 1 <= Len(a) + (d + 1)
    BY <1>1, <1>2
  <2> QED BY <1>2, <2>1, <2>2, <2>3, <2>4 DEF First
<1>4. CASE ~ Fits(x)
  <2>1. Kept(b, x) = b
    BY <1>4 DEF Kept
  <2>2. Len(b) <= Len(a) + (d + 1)
    BY <1>1, <1>2
  <2> QED BY <1>2, <2>1, <2>2 DEF First
<1> QED BY <1>3, <1>4

\* Of two stretches of the stream the shorter begins the longer.
LEMMA FitGrows ==
    ASSUME NEW s \in Seq(Seq(Byte)), NEW fit, FitsOf(fit, s)
    PROVE  /\ \A j \in 0 .. Len(s) : \A i \in 0 .. j : First(fit[i], fit[j], j - i)
           /\ \A j \in 0 .. Len(s) : fit[j] \in Seq(Seq(Byte)) /\ Len(fit[j]) \in Nat
<1>1. PICK n, S : n = Len(s) /\ S = Seq(Byte)
  OBVIOUS
<1>2. n \in Nat /\ \A k \in 1 .. n : s[k] \in S
  <2>1. s \in Seq(S)
    BY <1>1
  <2> QED BY <1>1, <2>1
<1>3. \A k \in 0 .. n : fit[k] \in Seq(S)
  BY <1>1 DEF FitsOf
<1>4. \A k \in 0 .. n : Len(fit[k]) \in Nat /\ First(fit[k], fit[k], 0)
  <2> SUFFICES ASSUME NEW k \in 0 .. n PROVE Len(fit[k]) \in Nat /\ First(fit[k], fit[k], 0)
    OBVIOUS
  <2>1. PICK a : a = fit[k]
    OBVIOUS
  <2>2. a \in Seq(S)
    BY <1>3, <2>1
  <2>3. Len(a) \in Nat /\ Len(a) <= Len(a) + 0
    BY <2>2
  <2> QED BY <2>1, <2>3 DEF First
<1>5. \A k \in 1 .. n : fit[k] = Kept(fit[k - 1], s[k])
  BY <1>1 DEF FitsOf
<1> DEFINE P == {j \in Nat : j <= n => \A i \in 0 .. j : First(fit[i], fit[j], j - i)}
<1>6. 0 \in P
  <2>1. \A i \in 0 .. 0 : i = 0
    OBVIOUS
  <2>2. 0 \in 0 .. n /\ 0 - 0 = 0
    BY <1>2
  <2> QED BY <1>4, <2>1, <2>2
<1>7. ASSUME NEW j \in Nat, j \in P PROVE j + 1 \in P
  <2>1. ASSUME j + 1 <= n, NEW i \in 0 .. j + 1 PROVE First(fit[i], fit[j + 1], j + 1 - i)
    <3>1. j + 1 \in 1 .. n /\ j \in 0 .. n /\ j + 1 \in 0 .. n /\ i \in 0 .. n /\ j + 1 - 1 = j /\ j <= n
      BY <1>2, <2>1
    <3>2. CASE i = j + 1
      <4>1. j + 1 - i = 0
        BY <3>2
      <4> QED BY <1>4, <3>1, <3>2, <4>1
    <3>3. CASE i # j + 1
      <4>1. i \in 0 .. j /\ j - i \in Nat /\ (j - i) + 1 = j + 1 - i
        BY <3>3
      <4>2. First(fit[i], fit[j], j - i)
        BY <1>7, <3>1, <4>1
      <4>3. PICK a, b, x : a = fit[i] /\ b = fit[j] /\ x = s[j + 1]
        OBVIOUS
      <4>4. a \in Seq(S) /\ b \in Seq(S) /\ x \in S
        BY <1>2, <1>3, <3>1, <4>3
      <4>5. fit[j + 1] = Kept(b, x)
        BY <1>5, <3>1, <4>3
      <4>6. First(a, Kept(b, x), (j - i) + 1)
        BY <4>1, <4>2, <4>3, <4>4, FirstKept
      <4> QED BY <4>1, <4>3, <4>5, <4>6
    <3> QED BY <3>2, <3>3
  <2> QED BY <2>1
<1> HIDE DEF P
<1>8. \A j \in Nat : j \in P
  BY <1>6, <1>7, Induction
<1>9. \A j \in 0 .. n : j \in Nat /\ j <= n
  BY <1>2
<1>10. \A j \in 0 .. n : \A i \in 0 .. j : First(fit[i], fit[j], j - i)
  BY <1>8, <1>9 DEF P
<1> QED BY <1>1, <1>3, <1>4, <1>10

\* Each frame takes up room on the line.
LEMMA EndsGrow ==
    ASSUME NEW s \in Seq(Seq(Byte)), NEW e, Ends(e, s)
    PROVE  /\ Len(s) \in Nat /\ e[0] = 0 /\ \A j \in 0 .. Len(s) : e[j] \in Nat
           /\ \A m \in 1 .. Len(s) : e[m] = e[m - 1] + Len(Encode(s[m]))
           /\ \A j \in 0 .. Len(s) : \A i \in 0 .. j : e[j] - e[i] >= j - i
<1>1. PICK n, S : n = Len(s) /\ S = Seq(Byte)
  OBVIOUS
<1>2. n \in Nat /\ \A k \in 1 .. n : s[k] \in S
  <2>1. s \in Seq(S)
    BY <1>1
  <2> QED BY <1>1, <2>1
<1>3. e[0] = 0 /\ (\A k \in 0 .. n : e[k] \in Nat) /\ \A k \in 1 .. n : e[k] = e[k - 1] + Len(Encode(s[k]))
  BY <1>1 DEF Ends
<1>4. ASSUME NEW k \in 1 .. n PROVE e[k] >= e[k - 1] + 1
  <2>1. s[k] \in Seq(Byte)
    BY <1>1, <1>2
  <2>2. PICK b, a : b = Len(Encode(s[k])) /\ a = Len(s[k])
    OBVIOUS
  <2>3. b >= a + 4 /\ a \in Nat /\ b \in Nat
    BY <2>1, <2>2, Shapes
  <2>4. e[k] = e[k - 1] + b /\ e[k - 1] \in Nat
    <3>1. k - 1 \in 0 .. n
      BY <1>2
    <3> QED BY <1>3, <2>2, <3>1
  <2> QED BY <2>3, <2>4
<1>5. \A j \in 0 .. n : \A i \in 0 .. j : e[j] - e[i] >= j - i
  BY <1>2, <1>3, <1>4, Climbs
<1> QED BY <1>1, <1>2, <1>3, <1>5

\* The next byte, at y, is of frame m: nothing is read twice or out of order.
Taken(n, z, m, y, e) ==
    /\ y \in Nat /\ z < y /\ n <= m /\ e[m - 1] < y /\ y <= e[m] /\ z <= e[n]
    /\ m > n => e[m - 1] - e[n] >= m - 1 - n

\* The first byte on the line is of a frame not before the last one read.
LEMMA Take ==
    ASSUME NEW s \in Seq(Seq(Byte)), NEW l \in Seq(Byte), l # <<>>,
           NEW e, NEW p, NEW z, NEW n, Ends(e, s), Place(p, z, e, s, l), Where(n, z, e, s)
    PROVE  \E m \in 1 .. Len(s) : \E q :
              /\ Place(q, p[1], e, s, Tail(l)) /\ Where(m, p[1], e, s) /\ Taken(n, z, m, p[1], e)
              /\ Head(l) = Encode(s[m])[p[1] - e[m - 1]]
              /\ p[1] - e[m - 1] \in 1 .. Len(Encode(s[m]))
<1>0. PICK N, L : N = Len(s) /\ L = Len(l)
  OBVIOUS
<1>1. /\ N \in Nat /\ e[0] = 0 /\ (\A j \in 0 .. N : e[j] \in Nat)
      /\ (\A m \in 1 .. N : e[m] = e[m - 1] + Len(Encode(s[m])))
      /\ \A j \in 0 .. N : \A i \in 0 .. j : e[j] - e[i] >= j - i
  BY <1>0, EndsGrow
<1>2. L \in Nat \ {0} /\ Head(l) = l[1] /\ Len(Tail(l)) = L - 1 /\ \A i \in 1 .. L - 1 : Tail(l)[i] = l[i + 1]
  BY <1>0
<1>3. /\ z \in Nat /\ z + L <= e[N]
      /\ \A i \in 1 .. L : /\ p[i] \in Nat /\ z + i <= p[i] /\ p[i] <= e[N] - (L - i)
                           /\ \E m \in 1 .. N : Belongs(p[i], m, l[i], e, s)
      /\ \A i, j \in 1 .. L : i <= j => p[j] - p[i] >= j - i
  BY <1>0 DEF Place
<1>4. n \in 0 .. N /\ (n = 0 => z = 0) /\ (n > 0 => e[n - 1] < z /\ z <= e[n])
  BY <1>0 DEF Where
<1>5. 1 \in 1 .. L
  BY <1>2
<1>6. PICK y \in Nat : y = p[1] /\ z + 1 <= y /\ y <= e[N] - (L - 1)
  BY <1>3, <1>5
<1>7. PICK m \in 1 .. N : Belongs(y, m, l[1], e, s)
  BY <1>3, <1>5, <1>6
<1>8. e[m - 1] < y /\ y <= e[m] /\ l[1] = Encode(s[m])[y - e[m - 1]]
  BY <1>7 DEF Belongs
<1>9. m - 1 \in 0 .. N /\ m \in 0 .. N /\ e[m - 1] \in Nat /\ e[m] \in Nat /\ e[n] \in Nat /\ e[N] \in Nat
  <2>1. m - 1 \in 0 .. N /\ m \in 0 .. N /\ N \in 0 .. N
    BY <1>1
  <2> QED BY <1>1, <1>4, <2>1
<1>10. Where(m, y, e, s)
  BY <1>0, <1>8, <1>9 DEF Where
<1>11. z <= e[n]
  BY <1>1, <1>4
<1>12. n <= m
  <2> SUFFICES ASSUME m < n PROVE FALSE
    BY <1>4
  <2>1. n - 1 \in 0 .. N /\ m \in 0 .. n - 1 /\ n > 0
    BY <1>1, <1>4
  <2>2. e[n - 1] - e[m] >= (n - 1) - m /\ e[n - 1] \in Nat
    BY <1>1, <2>1
  <2>3. e[n - 1] < z
    BY <1>4, <2>1
  <2>4. PICK a, b : a = e[n - 1] /\ b = e[m]
    OBVIOUS
  <2>5. a \in Nat /\ b \in Nat /\ a - b >= (n - 1) - m /\ a < z /\ y <= b
    BY <1>8, <1>9, <2>2, <2>3, <2>4
  <2>6. PICK h \in Nat : h = (n - 1) - m
    <3>1. (n - 1) - m \in Nat
      BY <1>1, <1>4
    <3> QED BY <3>1
  <2>7. PICK x \in Nat : x = z
    BY <1>3
  <2>8. a - b >= h /\ a < x /\ y <= b /\ x + 1 <= y
    BY <1>6, <2>5, <2>6, <2>7
  <2> QED BY <2>5, <2>8
<1>13. m > n => e[m - 1] - e[n] >= m - 1 - n
  <2> SUFFICES ASSUME m > n PROVE e[m - 1] - e[n] >= m - 1 - n
    OBVIOUS
  <2>1. n \in 0 .. m - 1
    BY <1>4
  <2> QED BY <1>1, <1>9, <2>1
<1>14. Taken(n, z, m, y, e)
  BY <1>3, <1>6, <1>8, <1>11, <1>12, <1>13 DEF Taken
<1>15. y - e[m - 1] \in 1 .. Len(Encode(s[m]))
  <2>1. PICK b : b = Len(Encode(s[m]))
    OBVIOUS
  <2>2. e[m] = e[m - 1] + b
    BY <1>1, <2>1
  <2>3. b \in Nat
    <3>1. PICK S : S = Seq(Byte)
      OBVIOUS
    <3>2. s \in Seq(S)
      BY <3>1
    <3>3. s[m] \in S
      BY <1>0, <3>2
    <3> QED BY <2>1, <3>1, <3>3, Shapes
  <2>4. PICK a \in Nat : a = e[m - 1]
    BY <1>9
  <2>5. a < y /\ y <= a + b
    BY <1>8, <2>2, <2>4
  <2>6. y - a \in 1 .. b
    BY <2>3, <2>5
  <2> QED BY <2>1, <2>4, <2>6
<1>16. PICK q : q = [i \in 1 .. L - 1 |-> p[i + 1]]
  OBVIOUS
<1>17. Place(q, y, e, s, Tail(l))
  <2>1. y + (L - 1) <= e[N]
    BY <1>2, <1>6, <1>9
  <2>2. ASSUME NEW i \in 1 .. L - 1
        PROVE  /\ q[i] \in Nat /\ y + i <= q[i] /\ q[i] <= e[N] - ((L - 1) - i)
               /\ \E k \in 1 .. N : Belongs(q[i], k, Tail(l)[i], e, s)
    <3>1. i + 1 \in 1 .. L /\ 1 <= i + 1
      BY <1>2
    <3>2. q[i] = p[i + 1] /\ Tail(l)[i] = l[i + 1]
      BY <1>2, <1>16
    <3>3. p[i + 1] \in Nat /\ p[i + 1] <= e[N] - (L - (i + 1)) /\ \E k \in 1 .. N : Belongs(p[i + 1], k, l[i + 1], e, s)
      BY <1>3, <3>1
    <3>4. p[i + 1] - p[1] >= (i + 1) - 1
      BY <1>3, <1>5, <3>1
    <3>5. y + i <= p[i + 1] /\ p[i + 1] <= e[N] - ((L - 1) - i)
      <4>1. PICK a, b : a = p[i + 1] /\ b = e[N]
        OBVIOUS
      <4>2. a \in Nat /\ b \in Nat /\ a <= b - (L - (i + 1)) /\ a - y >= (i + 1) - 1
        BY <1>6, <1>9, <3>3, <3>4, <4>1
      <4>3. y + i <= a /\ a <= b - ((L - 1) - i)
        BY <1>2, <4>2
      <4> QED BY <4>1, <4>3
    <3> QED BY <3>2, <3>3, <3>5
  <2>3. ASSUME NEW i \in 1 .. L - 1, NEW j \in 1 .. L - 1, i <= j PROVE q[j] - q[i] >= j - i
    <3>1. i + 1 \in 1 .. L /\ j + 1 \in 1 .. L /\ i + 1 <= j + 1 /\ (j + 1) - (i + 1) = j - i
      BY <1>2, <2>3
    <3>2. p[j + 1] - p[i + 1] >= (j + 1) - (i + 1)
      BY <1>3, <3>1
    <3> QED BY <1>16, <3>1, <3>2
  <2> QED BY <1>0, <1>2, <2>1, <2>2, <2>3 DEF Place
<1> QED BY <1>0, <1>2, <1>6, <1>8, <1>10, <1>14, <1>15, <1>17

\* What the bytes lost up to y cost: c of them were lost up to z, and d frames arrived.
Later(c, z, y) == c + (y - z - 1)
Ahead(fit, n, c, d) == Len(fit[n]) + 1 <= 2 * c + d
Lasts(e, fit, n, z, c, m, y, d) ==
    /\ Later(c, z, y) \in Nat /\ Later(c, z, y) >= c
    /\ Len(fit[m]) <= 2 * Later(c, z, y) + d
    /\ (m = n \/ y # e[m - 1] + 1 \/ z < e[n]) => Len(fit[m]) + 1 <= 2 * Later(c, z, y) + d

\* A reader with a frame to spare has at least none too few at the next byte.
LEMMA GapAfterLoss ==
    ASSUME NEW s \in Seq(Seq(Byte)), NEW e, NEW fit, Ends(e, s), FitsOf(fit, s),
           NEW n \in 0 .. Len(s), NEW m \in 1 .. Len(s), NEW z \in Nat, NEW y \in Nat, Taken(n, z, m, y, e),
           NEW c \in Nat, NEW d \in Nat, Ahead(fit, n, c, d)
    PROVE  Lasts(e, fit, n, z, c, m, y, d)
<1> USE DEF Ahead
<1>1. PICK a, b, p, q : a = Len(fit[n]) /\ b = Len(fit[m]) /\ p = e[m - 1] /\ q = e[n]
  OBVIOUS
<1>2. /\ z < y /\ n <= m /\ p < y /\ z <= q /\ (m > n => p - q >= m - 1 - n) /\ m \in Nat /\ n \in Nat
  BY <1>1 DEF Taken
<1>3. a \in Nat /\ b \in Nat /\ b <= a + (m - n)
  <2>1. m \in 0 .. Len(s) /\ n \in 0 .. m
    BY <1>2
  <2>2. First(fit[n], fit[m], m - n) /\ a \in Nat /\ b \in Nat
    BY <1>1, <2>1, FitGrows
  <2> QED BY <1>1, <2>2 DEF First
<1>4. p \in Nat /\ q \in Nat
  <2>1. m - 1 \in 0 .. Len(s)
    BY <1>2, EndsGrow
  <2> QED BY <1>1, <2>1, EndsGrow
<1>5. PICK g \in Nat : g = y - z - 1 /\ Later(c, z, y) = c + g
  <2>1. y - z - 1 \in Nat
    BY <1>2
  <2> QED BY <2>1 DEF Later
<1>6. CASE m = n
  BY <1>1, <1>3, <1>5, <1>6 DEF Lasts
<1>7. CASE m # n
  <2>1. g >= m - 1 - n /\ ((y # p + 1 \/ z < q) => g >= m - n)
    BY <1>2, <1>4, <1>5, <1>7
  <2>2. a + 1 <= 2 * c + d
    BY <1>1
  <2>3. b <= 2 * (c + g) + d
    BY <1>2, <1>3, <1>7, <2>1, <2>2
  <2>4. (y # p + 1 \/ z < q) => b + 1 <= 2 * (c + g) + d
    BY <1>2, <1>3, <1>7, <2>1, <2>2
  <2> QED BY <1>1, <1>5, <1>7, <2>3, <2>4 DEF Lasts
<1> QED BY <1>6, <1>7 DEF Lasts

Following(e, fit, n, z, c, d) == Len(fit[n - 1]) <= 2 * c + d /\ z < e[n]
Found(e, fit, n, z, c, m, y, d) ==
    /\ Later(c, z, y) \in Nat /\ Later(c, z, y) >= c
    /\ Later(c, z, y) = c => m = n /\ y = z + 1
    /\ Later(c, z, y) # c => /\ Later(c, z, y) > 0 /\ Len(fit[m]) <= 2 * Later(c, z, y) + d
                              /\ \/ Len(fit[m]) + 1 <= 2 * Later(c, z, y) + d
                                 \/ y = e[m - 1] + 1 /\ z = e[n] - 1

\* A reader in a frame gets its next byte, or a byte was lost, and paid for.
LEMMA GapInFrame ==
    ASSUME NEW s \in Seq(Seq(Byte)), NEW e, NEW fit, Ends(e, s), FitsOf(fit, s),
           NEW n \in 1 .. Len(s), NEW m \in 1 .. Len(s), NEW z \in Nat, NEW y \in Nat, Taken(n, z, m, y, e),
           NEW c \in Nat, NEW d \in Nat, Following(e, fit, n, z, c, d)
    PROVE  Found(e, fit, n, z, c, m, y, d)
<1> USE DEF Following
<1>1. PICK a, b, p, q : a = Len(fit[n - 1]) /\ b = Len(fit[m]) /\ p = e[m - 1] /\ q = e[n]
  OBVIOUS
<1>2. /\ z < y /\ n <= m /\ p < y /\ z < q /\ (m > n => p - q >= m - 1 - n) /\ m \in Nat /\ n \in Nat /\ n > 0
      /\ y <= e[m]
  BY <1>1 DEF Taken
<1>3. a \in Nat /\ b \in Nat /\ b <= a + (m - n + 1)
  <2>1. m \in 0 .. Len(s) /\ n - 1 \in 0 .. m /\ n - 1 \in 0 .. Len(s) /\ m - (n - 1) = m - n + 1
    BY <1>2
  <2>2. First(fit[n - 1], fit[m], m - (n - 1)) /\ a \in Nat /\ b \in Nat
    BY <1>1, <2>1, FitGrows
  <2> QED BY <1>1, <2>1, <2>2 DEF First
<1>4. p \in Nat /\ q \in Nat
  <2>1. m - 1 \in 0 .. Len(s) /\ n \in 0 .. Len(s)
    BY <1>2, EndsGrow
  <2> QED BY <1>1, <2>1, EndsGrow
<1>5. PICK g \in Nat : g = y - z - 1 /\ Later(c, z, y) = c + g
  <2>1. y - z - 1 \in Nat
    BY <1>2
  <2> QED BY <2>1 DEF Later
<1>6. a <= 2 * c + d
  BY <1>1
<1>7. m > n => g >= m - n
  BY <1>2, <1>4, <1>5
<1>8. g = 0 => m = n /\ y = z + 1
  BY <1>2, <1>5, <1>7
<1>9. g # 0 => b <= 2 * (c + g) + d /\ c + g > 0
  <2>1. CASE m = n
    BY <1>2, <1>3, <1>5, <1>6, <2>1
  <2>2. CASE m # n
    BY <1>2, <1>3, <1>5, <1>6, <1>7, <2>2
  <2> QED BY <2>1, <2>2
<1>10. g # 0 /\ ~ (b + 1 <= 2 * (c + g) + d) => y = p + 1 /\ z = q - 1
  <2> SUFFICES ASSUME g # 0, ~ (b + 1 <= 2 * (c + g) + d) PROVE y = p + 1 /\ z = q - 1
    OBVIOUS
  <2>1. g >= 1 /\ b + 1 > 2 * c + 2 * g + d /\ b + 1 <= 2 * c + d + (m - n) + 2
    BY <1>2, <1>3, <1>5, <1>6
  <2>2. 2 * g < (m - n) + 2
    <3>1. PICK x : x = b + 1
      OBVIOUS
    <3>2. PICK h \in Nat : h = m - n
      BY <1>2
    <3>3. x \in Nat /\ x > 2 * c + 2 * g + d /\ x <= 2 * c + d + h + 2
      BY <1>3, <2>1, <3>1, <3>2
    <3>4. 2 * g < h + 2
      BY <3>3
    <3> QED BY <3>2, <3>4
  <2>3. m # n
    BY <2>1, <2>2
  <2>4. g >= m - n /\ m - n >= 1
    BY <1>2, <1>7, <2>3
  <2>5. g = 1 /\ m - n = 1
    BY <1>2, <1>5, <2>2, <2>4
  <2>6. p - q >= 0 /\ y = z + 2
    BY <1>2, <1>4, <1>5, <2>5
  <2> QED BY <1>2, <1>4, <2>6
<1> QED BY <1>1, <1>5, <1>8, <1>9, <1>10 DEF Found

----------------------------------------------------------------------------
\* What the reader has of a frame f after k of its raw bytes.

\* The reader has read k bytes of f, and the escape of the next if escape says so.
ReadOf(g, f, k) ==
    /\ k \in 0 .. Len(f) + 2 /\ pos = k + 1
    /\ checksumTotal = IF k >= 2 THEN g[k - 2] ELSE 0
    /\ Len(f) < BYTES => (k >= 1 => msbLength = 0) /\ (k >= 2 => lsbLength = Len(f))
    /\ k >= 3 => frame = SubSeq(f, 1, k - 2)
AtByte(u, f, k, w) ==
    /\ w = u[k] + (IF escape THEN 1 ELSE 0)
    /\ escape \in BOOLEAN /\ (escape => Raw(f)[k + 1] \in Marks)

\* A byte of a frame: the reader goes on, or it is done with this frame.
LEMMA AcceptEnds ==
    ASSUME ~ Over, pos \in Nat, delivered \in Seq(Seq(Byte)), frame \in Seq(Byte), NEW b, Accept(b)
    PROVE  /\ Position' = 0 \/ (Position' # 0 /\ delivered' = delivered)
           /\ delivered' \in Seq(Seq(Byte)) /\ Len(delivered') \in Nat /\ Len(delivered') >= Len(delivered)
<1> DEFINE total == IF Summed(pos) THEN checksumTotal + b ELSE checksumTotal
<1>1. Length(b) \/ ApiId(b) \/ Body(b, total)
  BY DEF Accept
<1> HIDE DEF total
<1>2. PICK S, d, t : S = Seq(Byte) /\ d = delivered /\ t = frame
  OBVIOUS
<1>3. d \in Seq(S) /\ t \in S
  BY <1>2
<1>4. /\ Append(d, t) \in Seq(S) /\ Len(d) \in Nat /\ Len(Append(d, t)) \in Nat /\ Len(Append(d, t)) >= Len(d)
  BY <1>3
<1>5. delivered' = d \/ delivered' = Append(d, t)
  BY <1>1, <1>2 DEF Length, ApiId, Body, Complete
<1>6. delivered' = delivered \/ Position' = 0
  <2>1. CASE Body(b, total)
    <3>1. delivered' = delivered \/ pos' = 0
      BY <2>1 DEF Body, Complete
    <3> QED BY <3>1 DEF Position, Counters, counters
  <2>2. CASE Length(b) \/ ApiId(b)
    BY <2>2 DEF Length, ApiId
  <2> QED BY <1>1, <2>1, <2>2
<1> QED BY <1>2, <1>3, <1>4, <1>5, <1>6

\* The last byte of a frame, whatever it is, if the length was told.
LEMMA AcceptLast ==
    ASSUME ~ Over, NEW f \in Seq(Byte), f # <<>>, pos = Len(f) + 3,
           Len(f) < BYTES => msbLength = 0 /\ lsbLength = Len(f), NEW b, Accept(b)
    PROVE  Position' = 0
<1> DEFINE total == IF Summed(pos) THEN checksumTotal + b ELSE checksumTotal
<1>1. Length(b) \/ ApiId(b) \/ Body(b, total)
  BY DEF Accept
<1> HIDE DEF total
<1>2. Len(f) \in Nat /\ Len(f) >= 1
  OBVIOUS
<1>3. pos \in Nat /\ pos > 3
  BY <1>2
<1>4. Body(b, total)
  BY <1>1, <1>3 DEF Length, ApiId, API_ID_INDEX
<1>5. CASE TooLong /\ error' = "PACKET_EXCEEDS_BYTE_ARRAY_LENGTH"
  BY <1>5 DEF Position, Counters, Over
<1>6. CASE pos' = 0
  BY <1>6 DEF Position, Counters, counters
<1>7. CASE ~ TooLong /\ pos # getPacketLength + 3
  <2>1. BYTES \in Nat /\ MAX_FRAME_DATA_SIZE \in 4 .. BYTES - 1
    BY BytesAssumption
  <2>2. Len(f) < BYTES
    BY <1>2, <1>7, <2>1 DEF TooLong
  <2>3. getPacketLength = ((0 * BYTES) % BYTES) + Len(f)
    BY <2>2 DEF getPacketLength
  <2>4. (0 * BYTES) % BYTES = 0
    BY <2>1
  <2> QED BY <1>2, <1>7, <2>3, <2>4
<1> QED BY <1>4, <1>5, <1>6, <1>7 DEF Body, Complete

\* What the next byte of a frame on the line is.
LEMMA NextOnLine ==
    ASSUME NEW f \in Seq(Byte), NEW u, Places(u, f), NEW k \in 0 .. Len(f) + 2, NEW w, AtByte(u, f, k, w)
    PROVE  /\ w \in Nat /\ w < Len(Encode(f)) /\ u[k + 1] \in Nat
           /\ escape => /\ Encode(f)[w + 1] \notin {START_BYTE, ESCAPE} /\ u[k + 1] = w + 1
                        /\ Flip(Encode(f)[w + 1]) = Raw(f)[k + 1]
           /\ ~ escape /\ Encode(f)[w + 1] # ESCAPE => u[k + 1] = w + 1 /\ Encode(f)[w + 1] = Raw(f)[k + 1]
           /\ ~ escape /\ Encode(f)[w + 1] = ESCAPE =>
                /\ Raw(f)[k + 1] \in Marks /\ u[k + 1] = w + 2 /\ w = u[k]
                /\ Flip(Encode(f)[w + 2]) = Raw(f)[k + 1]
<1>1. PICK b : b = Raw(f)[k + 1]
  OBVIOUS
<1>2. /\ b \in Byte
      /\ b \in Marks => u[k + 1] = u[k] + 2 /\ Encode(f)[u[k] + 1] = ESCAPE /\ Encode(f)[u[k] + 2] = Flip(b)
      /\ b \notin Marks => u[k + 1] = u[k] + 1 /\ Encode(f)[u[k] + 1] = b
  BY <1>1 DEF Places, NextOf
<1>3. b \in Marks => Flip(b) \notin {START_BYTE, ESCAPE} /\ Flip(Flip(b)) = b
  BY <1>2, SentByte
<1>4. Len(f) \in Nat /\ Len(Encode(f)) \in Nat
  BY Shapes
<1>5. u[k] \in Nat /\ u[k + 1] \in Nat /\ u[k + 1] <= Len(Encode(f))
  <2>1. k \in 0 .. Len(f) + 3 /\ k + 1 \in 0 .. Len(f) + 3 /\ Len(f) + 3 \in 0 .. Len(f) + 3 /\ k + 1 <= Len(f) + 3
    BY <1>4
  <2>2. u[k] \in Nat /\ u[k + 1] \in Nat
    BY <2>1 DEF Places
  <2>3. u[Len(f) + 3] - u[k + 1] >= (Len(f) + 3) - (k + 1) /\ u[Len(f) + 3] = Len(Encode(f))
    BY <2>1 DEF Places
  <2> QED BY <1>4, <2>1, <2>2, <2>3
<1>6. CASE escape
  <2>1. w = u[k] + 1 /\ b \in Marks
    BY <1>1, <1>6 DEF AtByte
  <2>2. w + 1 = u[k] + 2 /\ w \in Nat /\ w < Len(Encode(f)) /\ u[k + 1] = w + 1
    BY <1>2, <1>4, <1>5, <2>1
  <2> QED BY <1>1, <1>2, <1>3, <1>5, <1>6, <2>1, <2>2
<1>7. CASE ~ escape
  <2>1. w = u[k]
    BY <1>5, <1>7 DEF AtByte
  <2>2. CASE b \in Marks
    <3>1. u[k + 1] = w + 2 /\ w < Len(Encode(f)) /\ Encode(f)[w + 1] = ESCAPE /\ Encode(f)[w + 2] = Flip(b)
      BY <1>2, <1>4, <1>5, <2>1, <2>2
    <3> QED BY <1>1, <1>3, <1>5, <1>7, <2>1, <2>2, <3>1
  <2>3. CASE b \notin Marks
    <3>1. u[k + 1] = w + 1 /\ w < Len(Encode(f)) /\ Encode(f)[w + 1] = b
      BY <1>2, <1>4, <1>5, <2>1, <2>3
    <3>2. b # ESCAPE
      BY <2>3 DEF Marks
    <3> QED BY <1>1, <1>5, <1>7, <2>1, <3>1, <3>2
  <2> QED BY <2>2, <2>3
<1> QED BY <1>6, <1>7

LEMMA Grown ==
    ASSUME NEW S, NEW f \in Seq(S), f # <<>>
    PROVE  /\ Len(f) \in Nat /\ Len(f) >= 1 /\ SubSeq(f, 1, Len(f)) = f /\ <<f[1]>> = SubSeq(f, 1, 1)
           /\ \A j \in 1 .. Len(f) : Append(SubSeq(f, 1, j - 1), f[j]) = SubSeq(f, 1, j)
OBVIOUS

\* A byte of a frame taken where it belongs.
Done(f) ==
    /\ Position' = 0 /\ (Fits(f) => delivered' = Append(delivered, f))
    /\ ~ Fits(f) /\ Len(f) < BYTES => delivered' = delivered
Further(g, f, k) ==
    /\ Position' # 0 /\ ~ Over' /\ delivered' = delivered /\ escape' = FALSE
    /\ ReadOf(g, f, k + 1)'

\* A byte of the length.
LEMMA AcceptLength ==
    ASSUME ~ Over, NEW f \in Seq(Byte), f # <<>>, NEW g, Content(g, f), NEW k \in {0, 1},
           ReadOf(g, f, k), Accept(Raw(f)[k + 1])
    PROVE  Further(g, f, k)
<1>1. PICK b : b = Raw(f)[k + 1]
  OBVIOUS
<1> DEFINE total == IF Summed(pos) THEN checksumTotal + b ELSE checksumTotal
<1>2. checksumTotal' = total % BYTES /\ escape' = FALSE /\ (Length(b) \/ ApiId(b) \/ Body(b, total))
  BY <1>1 DEF Accept
<1>3. pos = k + 1 /\ checksumTotal = 0 /\ (Len(f) < BYTES => (k >= 1 => msbLength = 0))
  BY DEF ReadOf
<1>4. total = 0
  BY <1>3 DEF Summed, API_ID_INDEX
<1> HIDE DEF total
<1>5. checksumTotal' = 0
  <2>1. BYTES \in Nat /\ BYTES > 0
    BY BytesAssumption DEF Byte
  <2>2. 0 % BYTES = 0
    BY <2>1
  <2> QED BY <1>2, <1>4, <2>2
<1>6. Length(b)
  BY <1>2, <1>3 DEF ApiId, Body, API_ID_INDEX
<1>7. /\ pos' = k + 2 /\ error' = error /\ available' = available /\ delivered' = delivered
      /\ (k = 0 => msbLength' = b) /\ (k = 1 => lsbLength' = b /\ msbLength' = msbLength)
  BY <1>3, <1>6 DEF Length
<1>8. Len(f) \in Nat /\ Len(f) >= 1 /\ g[0] = 0 /\ (Len(f) < BYTES => Raw(f)[1] = 0 /\ Raw(f)[2] = Len(f))
  BY Grown DEF Content
<1>9. Len(f) < BYTES => (k + 1 >= 1 => msbLength' = 0) /\ (k + 1 >= 2 => lsbLength' = Len(f))
  BY <1>1, <1>3, <1>7, <1>8
<1>10. ~ Over' /\ Position' # 0
  BY <1>7 DEF Over, Position, Counters, counters
<1>11. ReadOf(g, f, k + 1)'
  <2>1. k + 1 \in 0 .. Len(f) + 2 /\ pos' = (k + 1) + 1 /\ ~ (k + 1 >= 3)
    BY <1>7, <1>8
  <2>2. checksumTotal' = IF k + 1 >= 2 THEN g[(k + 1) - 2] ELSE 0
    BY <1>5, <1>8
  <2> QED BY <1>9, <2>1, <2>2 DEF ReadOf
<1> QED BY <1>2, <1>7, <1>10, <1>11 DEF Further

\* The API id.
LEMMA AcceptApiId ==
    ASSUME ~ Over, NEW f \in Seq(Byte), f # <<>>, NEW g, Content(g, f),
           ReadOf(g, f, 2), Accept(Raw(f)[3])
    PROVE  Further(g, f, 2)
<1>0. Len(f) \in Nat /\ Len(f) >= 1 /\ <<f[1]>> = SubSeq(f, 1, 1)
  BY Grown
<1>1. PICK b : b = Raw(f)[3]
  OBVIOUS
<1>2. b = f[1] /\ g[0] = 0 /\ g[1] = (g[0] + f[1]) % BYTES
  <2>1. 1 \in 1 .. Len(f) /\ 1 + 2 = 3 /\ 1 - 1 = 0
    BY <1>0
  <2> QED BY <1>1, <2>1 DEF Content
<1> DEFINE total == IF Summed(pos) THEN checksumTotal + b ELSE checksumTotal
<1>3. checksumTotal' = total % BYTES /\ escape' = FALSE /\ (Length(b) \/ ApiId(b) \/ Body(b, total))
  BY <1>1 DEF Accept
<1>4. pos = 3 /\ checksumTotal = g[0] /\ (Len(f) < BYTES => msbLength = 0 /\ lsbLength = Len(f))
  BY DEF ReadOf
<1>5. total = g[0] + f[1]
  BY <1>2, <1>4 DEF Summed, API_ID_INDEX
<1> HIDE DEF total
<1>6. checksumTotal' = g[1]
  BY <1>2, <1>3, <1>5
<1>7. ApiId(b)
  BY <1>3, <1>4 DEF Length, Body, API_ID_INDEX
<1>8. /\ pos' = 4 /\ error' = error /\ available' = available /\ delivered' = delivered
      /\ frame' = <<b>> /\ msbLength' = msbLength /\ lsbLength' = lsbLength
  BY <1>4, <1>7 DEF ApiId
<1>9. ~ Over' /\ Position' # 0
  BY <1>8 DEF Over, Position, Counters, counters
<1>10. ReadOf(g, f, 3)'
  <2>1. 3 \in 0 .. Len(f) + 2 /\ 3 - 2 = 1
    BY <1>0
  <2>2. frame' = SubSeq(f, 1, 3 - 2)
    BY <1>0, <1>2, <1>8
  <2>3. checksumTotal' = IF 3 >= 2 THEN g[3 - 2] ELSE 0
    BY <1>6
  <2> QED BY <1>4, <1>8, <2>1, <2>2, <2>3 DEF ReadOf
<1>11. 2 + 1 = 3
  OBVIOUS
<1> QED BY <1>3, <1>8, <1>9, <1>10, <1>11 DEF Further

\* A byte of the data, or the checksum.
LEMMA AcceptBody ==
    ASSUME ~ Over, NEW f \in Seq(Byte), f # <<>>, NEW g, Content(g, f), NEW k \in 3 .. Len(f) + 2,
           ReadOf(g, f, k), Accept(Raw(f)[k + 1])
    PROVE  Further(g, f, k) \/ Done(f)
<1>0. /\ Len(f) \in Nat /\ Len(f) >= 1 /\ SubSeq(f, 1, Len(f)) = f /\ k \in Nat
      /\ \A j \in 1 .. Len(f) : Append(SubSeq(f, 1, j - 1), f[j]) = SubSeq(f, 1, j)
  BY Grown
<1>1. PICK b : b = Raw(f)[k + 1]
  OBVIOUS
<1> DEFINE total == IF Summed(pos) THEN checksumTotal + b ELSE checksumTotal
<1>2. checksumTotal' = total % BYTES /\ escape' = FALSE /\ (Length(b) \/ ApiId(b) \/ Body(b, total))
  BY <1>1 DEF Accept
<1>3. /\ pos = k + 1 /\ checksumTotal = g[k - 2] /\ (Len(f) < BYTES => msbLength = 0 /\ lsbLength = Len(f))
      /\ frame = SubSeq(f, 1, k - 2)
  BY DEF ReadOf
<1>4. total = g[k - 2] + b
  BY <1>3 DEF Summed, API_ID_INDEX
<1> HIDE DEF total
<1>5. Body(b, total)
  BY <1>2, <1>3 DEF Length, ApiId, API_ID_INDEX
<1>6. BYTES \in Nat /\ MAX_FRAME_DATA_SIZE \in 4 .. BYTES - 1
  BY BytesAssumption
<1>7. Fits(f) <=> Len(f) + 3 <= MAX_FRAME_DATA_SIZE
  BY DEF Fits
<1>8. Len(f) < BYTES => getPacketLength = Len(f)
  <2> SUFFICES ASSUME Len(f) < BYTES PROVE getPacketLength = Len(f)
    OBVIOUS
  <2>1. getPacketLength = ((0 * BYTES) % BYTES) + Len(f)
    BY <1>3 DEF getPacketLength
  <2>2. (0 * BYTES) % BYTES = 0
    BY <1>6
  <2> QED BY <1>0, <2>1, <2>2
<1>9. Fits(f) => Len(f) < BYTES
  BY <1>0, <1>6, <1>7
<1>10. CASE TooLong /\ error' = "PACKET_EXCEEDS_BYTE_ARRAY_LENGTH" /\ delivered' = delivered
  <2>1. ~ Fits(f)
    BY <1>0, <1>3, <1>6, <1>7, <1>10 DEF TooLong
  <2>2. Position' = 0
    BY <1>10 DEF Position, Counters, Over
  <2> QED BY <1>10, <2>1, <2>2 DEF Done
<1>11. CASE ~ TooLong /\ Complete(total)
  <2>1. pos' = 0 /\ pos = getPacketLength + 3
    BY <1>11 DEF Complete
  <2>2. Position' = 0
    BY <2>1 DEF Position, Counters, counters
  <2>3. Len(f) < BYTES => k = Len(f) + 2 /\ Fits(f)
    BY <1>0, <1>3, <1>6, <1>7, <1>8, <1>11, <2>1 DEF TooLong
  <2>4. Fits(f) => delivered' = Append(delivered, f)
    <3> SUFFICES ASSUME Fits(f) PROVE delivered' = Append(delivered, f)
      OBVIOUS
    <3>1. k = Len(f) + 2 /\ k + 1 = Len(f) + 3 /\ k - 2 = Len(f)
      BY <1>0, <1>9, <2>3
    <3>2. PICK t : t = g[Len(f)]
      OBVIOUS
    <3>3. t \in Byte /\ b = BYTES - 1 - t
      BY <1>0, <1>1, <3>1, <3>2 DEF Content
    <3>4. t \in Nat
      BY <3>3 DEF Byte
    <3>5. total = BYTES - 1
      BY <1>4, <1>6, <3>1, <3>2, <3>3, <3>4
    <3>6. (BYTES - 1) % BYTES = BYTES - 1
      BY <1>6
    <3>7. frame = f
      BY <1>0, <1>3, <3>1
    <3> QED BY <1>11, <3>5, <3>6, <3>7 DEF Complete
  <2> QED BY <2>2, <2>3, <2>4 DEF Done
<1>12. CASE /\ ~ TooLong /\ pos # getPacketLength + 3 /\ frame' = Append(frame, b) /\ pos' = pos + 1
            /\ UNCHANGED <<msbLength, lsbLength, error, available, delivered>>
  <2>1. ~ Over' /\ Position' # 0
    BY <1>0, <1>3, <1>12 DEF Over, Position, Counters, counters
  <2>2. k # Len(f) + 2
    <3> SUFFICES ASSUME k = Len(f) + 2 PROVE FALSE
      OBVIOUS
    <3>1. pos = Len(f) + 3
      BY <1>0, <1>3
    <3>2. Accept(b)
      BY <1>1
    <3>3. Position' = 0
      BY <1>3, <3>1, <3>2, AcceptLast
    <3> QED BY <2>1, <3>3
  <2>3. PICK j \in 1 .. Len(f) : j = k - 1
    <3>1. k - 1 \in 1 .. Len(f)
      BY <1>0, <2>2
    <3> QED BY <3>1
  <2>4. j + 2 = k + 1 /\ j - 1 = k - 2 /\ (k + 1) - 2 = j /\ k + 1 \in 0 .. Len(f) + 2 /\ k + 1 >= 3
    BY <1>0, <2>2, <2>3
  <2>5. b = f[j] /\ g[j] = (g[j - 1] + f[j]) % BYTES
    BY <1>1, <2>4 DEF Content
  <2>6. checksumTotal' = g[j]
    BY <1>2, <1>4, <2>4, <2>5
  <2>7. frame' = SubSeq(f, 1, j)
    BY <1>0, <1>3, <1>12, <2>4, <2>5
  <2>8. pos' = (k + 1) + 1
    BY <1>3, <1>12
  <2>9. ReadOf(g, f, k + 1)'
    BY <1>3, <1>12, <2>4, <2>6, <2>7, <2>8 DEF ReadOf
  <2> QED BY <1>2, <1>12, <2>1, <2>9 DEF Further
<1> QED BY <1>5, <1>10, <1>11, <1>12 DEF Body

\* The next raw byte of a frame: the reader goes on, or it is done with it.
LEMMA AcceptNext ==
    ASSUME ~ Over, NEW f \in Seq(Byte), f # <<>>, NEW g, Content(g, f), NEW k \in 0 .. Len(f) + 2,
           ReadOf(g, f, k), Accept(Raw(f)[k + 1])
    PROVE  Further(g, f, k) \/ Done(f)
<1>1. Len(f) \in Nat /\ (k \in {0, 1} \/ k = 2 \/ k \in 3 .. Len(f) + 2)
  OBVIOUS
<1>2. CASE k \in {0, 1}
  BY <1>2, AcceptLength
<1>3. CASE k = 2
  BY <1>3, AcceptApiId
<1>4. CASE k \in 3 .. Len(f) + 2
  BY <1>4, AcceptBody
<1> QED BY <1>1, <1>2, <1>3, <1>4

\* Where the reader is when it has read frame n up to z in the stream, and c bytes
\* before z were lost.  Between frames it may miss two for each; in the middle
\* of a frame it either follows the frame byte by byte, or it has one to spare.
LengthsTold == \A f \in Frames : Len(f) < BYTES
InFrame(f, w) == \E u, g : /\ Places(u, f) /\ Content(g, f)
                           /\ \E k \in 0 .. Len(f) + 2 : ReadOf(g, f, k) /\ AtByte(u, f, k, w)
Sync(fit, n, c) ==
    /\ Position = 0 /\ Len(fit[n]) <= 2 * c + Len(delivered)
    /\ LengthsTold /\ c = 0 => delivered = fit[n]
Off(fit, n, c) == Position # 0 /\ c > 0 /\ Len(fit[n]) + 1 <= 2 * c + Len(delivered)
Exact(e, fit, s, n, z, c) ==
    /\ n # 0 /\ Position # 0 /\ ~ Over /\ Len(fit[n - 1]) <= 2 * c + Len(delivered)
    /\ LengthsTold /\ c = 0 => delivered = fit[n - 1]
    /\ InFrame(s[n], z - e[n - 1])
State(e, fit, s, n, z, c) == Sync(fit, n, c) \/ Off(fit, n, c) \/ Exact(e, fit, s, n, z, c)

ReaderOK == /\ pos \in Nat /\ delivered \in Seq(Seq(Byte)) /\ frame \in Seq(Byte) /\ escape \in BOOLEAN
            /\ Len(delivered) \in Nat
Stream(s, e, fit) == /\ s \in Seq(Seq(Byte)) /\ Ends(e, s) /\ FitsOf(fit, s)
                     /\ \A i \in 1 .. Len(s) : s[i] # <<>> /\ s[i] \in Frames /\ s[i] \in Seq(Byte)
\* A byte x is read that is of frame m, after one of frame n.
Reading(s, e, n, z, c, m, y, x) ==
    /\ n \in 0 .. Len(s) /\ m \in 1 .. Len(s) /\ z \in Nat /\ y \in Nat /\ c \in Nat /\ Taken(n, z, m, y, e)
    /\ Where(n, z, e, s) /\ Where(m, y, e, s)
    /\ y - e[m - 1] \in 1 .. Len(Encode(s[m])) /\ x = Encode(s[m])[y - e[m - 1]]

\* What a byte read says of its place in the frame.
LEMMA ByteRead ==
    ASSUME NEW s, NEW e, NEW fit, Stream(s, e, fit), NEW n, NEW z, NEW c, NEW m, NEW y, NEW x,
           Reading(s, e, n, z, c, m, y, x)
    PROVE  /\ x = START_BYTE <=> y = e[m - 1] + 1
           /\ x = ESCAPE => y # e[m - 1] + 1 /\ y < e[m]
           /\ e[m - 1] \in Nat /\ e[m] \in Nat /\ e[m] = e[m - 1] + Len(Encode(s[m]))
<1>1. m \in 1 .. Len(s) /\ s[m] \in Seq(Byte) /\ y \in Nat
  BY DEF Reading, Stream
<1>2. PICK a, b, w : a = e[m - 1] /\ b = Len(Encode(s[m])) /\ w = y - e[m - 1]
  OBVIOUS
<1>3. w \in 1 .. b /\ x = Encode(s[m])[w]
  BY <1>2 DEF Reading
<1>4. (x = START_BYTE <=> w = 1) /\ (x = ESCAPE => w > 1 /\ w < b)
  BY <1>1, <1>2, <1>3, MarksInFrame
<1>5. e[m] = a + b /\ a \in Nat /\ e[m] \in Nat /\ b \in Nat
  <2>1. Len(s) \in Nat /\ s \in Seq(Seq(Byte)) /\ Ends(e, s)
    BY EndsGrow DEF Stream
  <2>2. m - 1 \in 0 .. Len(s) /\ m \in 0 .. Len(s)
    BY <1>1, <2>1
  <2>3. e[m] = e[m - 1] + Len(Encode(s[m])) /\ e[m - 1] \in Nat /\ e[m] \in Nat
    BY <1>1, <2>1, <2>2, EndsGrow
  <2> QED BY <1>1, <1>2, <2>3, Shapes
<1>6. y = a + w /\ (w = 1 <=> y = a + 1) /\ (w < b => y < a + b)
  <2>1. y \in Nat /\ a \in Nat /\ b \in Nat
    BY <1>1, <1>5
  <2>2. w = y - a
    BY <1>2
  <2>3. y = a + w
    BY <2>1, <2>2
  <2>4. w \in Int
    BY <2>1, <2>2
  <2> QED BY <2>1, <2>3, <2>4
<1>7. (x = START_BYTE <=> y = a + 1) /\ (x = ESCAPE => y # a + 1 /\ y < a + b)
  <2>1. w > 1 => w # 1
    BY <1>3
  <2> QED BY <1>4, <1>6, <2>1
<1>8. e[m - 1] \in Nat /\ e[m] = e[m - 1] + Len(Encode(s[m]))
  BY <1>2, <1>5
<1> QED BY <1>2, <1>5, <1>7, <1>8

\* In the middle of a frame there is a byte left of it.
LEMMA InsideFrame ==
    ASSUME NEW s, NEW e, NEW fit, Stream(s, e, fit), NEW n \in 1 .. Len(s), NEW z \in Nat,
           NEW u, NEW k \in 0 .. Len(s[n]) + 2, Places(u, s[n]), AtByte(u, s[n], k, z - e[n - 1])
    PROVE  z < e[n] /\ e[n] \in Nat /\ e[n - 1] \in Nat /\ e[n] = e[n - 1] + Len(Encode(s[n]))
<1>1. s[n] \in Seq(Byte) /\ s \in Seq(Seq(Byte)) /\ Ends(e, s)
  BY DEF Stream
<1>2. PICK w, b : w = z - e[n - 1] /\ b = Len(Encode(s[n]))
  OBVIOUS
<1>3. w \in Nat /\ w < b /\ b \in Nat
  BY <1>1, <1>2, NextOnLine, Shapes
<1>4. e[n] = e[n - 1] + b /\ e[n - 1] \in Nat /\ e[n] \in Nat
  <2>1. n - 1 \in 0 .. Len(s) /\ n \in 0 .. Len(s)
    BY <1>1, EndsGrow
  <2> QED BY <1>1, <1>2, <2>1, EndsGrow
<1>5. z < e[n]
  <2>1. PICK a \in Nat : a = e[n - 1]
    BY <1>4
  <2>2. w = z - a /\ e[n] = a + b
    BY <1>2, <1>4, <2>1
  <2> QED BY <1>3, <2>1, <2>2
<1> QED BY <1>2, <1>4, <1>5

\* The next state when bytes were lost on the way.
LEMMA AfterLoss ==
    ASSUME ReaderOK, ~ Over, NEW b, Accept(b), NEW e, NEW fit, NEW s \in Seq(Seq(Byte)), FitsOf(fit, s),
           NEW m \in 1 .. Len(s), NEW y, NEW c \in Nat,
           c > 0, Len(fit[m]) <= 2 * c + Len(delivered),
           Position' # 0 => Len(fit[m]) + 1 <= 2 * c + Len(delivered)
    PROVE  State(e, fit, s, m, y, c)'
<1>1. /\ Position' = 0 \/ (Position' # 0 /\ delivered' = delivered)
      /\ Len(delivered') \in Nat /\ Len(delivered') >= Len(delivered)
  BY AcceptEnds DEF ReaderOK
<1>2. Len(delivered) \in Nat /\ Len(fit[m]) \in Nat
  <2>1. m \in 0 .. Len(s)
    OBVIOUS
  <2> QED BY <2>1, FitGrows DEF ReaderOK
<1>3. CASE Position' = 0
  <2>1. Len(fit[m]) <= 2 * c + Len(delivered')
    <3>1. PICK a, d, h : a = Len(fit[m]) /\ d = Len(delivered) /\ h = Len(delivered')
      OBVIOUS
    <3>2. a \in Nat /\ d \in Nat /\ h \in Nat /\ h >= d /\ a <= 2 * c + d
      BY <1>1, <1>2, <3>1
    <3>3. a <= 2 * c + h
      BY <3>2
    <3> QED BY <3>1, <3>3
  <2>2. c # 0
    OBVIOUS
  <2>3. Sync(fit, m, c)'
    BY <1>3, <2>1, <2>2 DEF Sync
  <2> QED BY <2>3 DEF State
<1>4. CASE Position' # 0
  <2>1. Off(fit, m, c)'
    BY <1>1, <1>4 DEF Off
  <2> QED BY <2>1 DEF State
<1> QED BY <1>3, <1>4

\* The next state when the byte is the next of the frame that the reader follows.
LEMMA AfterNext ==
    ASSUME ReaderOK, NEW s, NEW e, NEW fit, Stream(s, e, fit), NEW n \in 1 .. Len(s), NEW z \in Nat, NEW c \in Nat,
           NEW y, NEW u, NEW g, NEW k \in 0 .. Len(s[n]) + 2, Exact(e, fit, s, n, z, c),
           Places(u, s[n]), Content(g, s[n]), ReadOf(g, s[n], k),
           y - e[n - 1] = u[k + 1], Accept(Raw(s[n])[k + 1])
    PROVE  State(e, fit, s, n, y, c)'
<1>1. PICK f : f = s[n]
  OBVIOUS
<1>2. f \in Seq(Byte) /\ f # <<>> /\ f \in Frames /\ s \in Seq(Seq(Byte)) /\ FitsOf(fit, s)
  BY <1>1 DEF Stream
<1>3. ~ Over /\ Len(fit[n - 1]) <= 2 * c + Len(delivered) /\ (LengthsTold /\ c = 0 => delivered = fit[n - 1])
  BY DEF Exact
<1>4. Further(g, f, k) \/ Done(f)
  BY <1>1, <1>2, <1>3, AcceptNext
<1>5. fit[n] = Kept(fit[n - 1], f) /\ fit[n - 1] \in Seq(Seq(Byte))
  <2>1. n - 1 \in 0 .. Len(s)
    OBVIOUS
  <2> QED BY <1>1, <1>2, <2>1, FitGrows DEF FitsOf
<1>6. CASE Further(g, f, k)
  <2>1. /\ Position' # 0 /\ ~ Over' /\ delivered' = delivered /\ escape' = FALSE /\ ReadOf(g, f, k + 1)'
    BY <1>6 DEF Further
  <2>2. k + 1 \in 0 .. Len(f) + 2
    BY <2>1 DEF ReadOf
  <2>3. u[k + 1] \in Nat
    <3>1. k + 1 \in 0 .. Len(f) + 3
      BY <1>1, <1>2, <2>2
    <3> QED BY <1>1, <3>1 DEF Places
  <2>4. AtByte(u, f, k + 1, u[k + 1])'
    <3>1. PICK h \in Nat : h = u[k + 1]
      BY <2>3
    <3>2. h = h + 0
      OBVIOUS
    <3>3. u[k + 1] = u[k + 1] + (IF escape' THEN 1 ELSE 0)
      BY <2>1, <3>1, <3>2
    <3> QED BY <2>1, <3>3 DEF AtByte
  <2>5. InFrame(f, u[k + 1])'
    BY <1>1, <2>1, <2>2, <2>4 DEF InFrame
  <2>6. Exact(e, fit, s, n, y, c)'
    BY <1>1, <1>3, <2>1, <2>5 DEF Exact
  <2> QED BY <2>6 DEF State
<1>7. CASE Done(f)
  <2>1. /\ Position' = 0 /\ (Fits(f) => delivered' = Append(delivered, f))
        /\ ~ Fits(f) /\ Len(f) < BYTES => delivered' = delivered
    BY <1>7 DEF Done
  <2>2. Len(delivered') \in Nat /\ Len(delivered') >= Len(delivered)
    BY <1>1, <1>3, AcceptEnds DEF ReaderOK
  <2>3. LengthsTold => Len(f) < BYTES
    BY <1>2 DEF LengthsTold
  <2>4. PICK S, a, d : S = Seq(Byte) /\ a = fit[n - 1] /\ d = delivered
    OBVIOUS
  <2>5. a \in Seq(S) /\ d \in Seq(S) /\ f \in S /\ Len(a) <= 2 * c + Len(d) /\ (LengthsTold /\ c = 0 => d = a)
    BY <1>2, <1>3, <1>5, <2>4 DEF ReaderOK
  <2>6. CASE Fits(f)
    <3>1. fit[n] = Append(a, f) /\ delivered' = Append(d, f)
      BY <1>5, <2>1, <2>4, <2>6 DEF Kept
    <3>2. Len(Append(a, f)) <= 2 * c + Len(Append(d, f))
      <4>1. Len(Append(a, f)) = Len(a) + 1 /\ Len(Append(d, f)) = Len(d) + 1 /\ Len(a) \in Nat /\ Len(d) \in Nat
        BY <2>5
      <4> QED BY <2>5, <4>1
    <3>3. LengthsTold /\ c = 0 => delivered' = fit[n]
      BY <2>5, <3>1
    <3>4. Sync(fit, n, c)'
      BY <2>1, <3>1, <3>2, <3>3 DEF Sync
    <3> QED BY <3>4 DEF State
  <2>7. CASE ~ Fits(f)
    <3>1. fit[n] = a
      BY <1>5, <2>4, <2>7 DEF Kept
    <3>2. Len(a) <= 2 * c + Len(delivered')
      <4>1. PICK i, j, h : i = Len(a) /\ j = Len(d) /\ h = Len(delivered')
        OBVIOUS
      <4>2. i \in Nat /\ j \in Nat /\ h \in Nat /\ h >= j /\ i <= 2 * c + j
        BY <2>2, <2>4, <2>5, <4>1
      <4>3. i <= 2 * c + h
        BY <4>2
      <4> QED BY <4>1, <4>3
    <3>3. LengthsTold /\ c = 0 => delivered' = fit[n]
      BY <2>1, <2>3, <2>4, <2>5, <2>7, <3>1
    <3>4. Sync(fit, n, c)'
      BY <2>1, <3>1, <3>2, <3>3 DEF Sync
    <3> QED BY <3>4 DEF State
  <2> QED BY <2>6, <2>7
<1> QED BY <1>4, <1>6, <1>7

LEMMA Numbers ==
    ASSUME NEW s, NEW e, NEW fit, Stream(s, e, fit), NEW n, NEW z, NEW c, NEW m, NEW y, NEW x,
           Reading(s, e, n, z, c, m, y, x)
    PROVE  /\ n \in 0 .. Len(s) /\ m \in 1 .. Len(s) /\ z \in Nat /\ y \in Nat /\ c \in Nat
           /\ n \in Nat /\ m \in Nat /\ m - 1 \in 0 .. Len(s) /\ m \in 0 .. Len(s) /\ Taken(n, z, m, y, e)
           /\ e[m - 1] \in Nat /\ e[n] \in Nat
           /\ Later(c, z, y) \in Nat /\ (Later(c, z, y) = 0 => c = 0 /\ y = z + 1)
           /\ s \in Seq(Seq(Byte)) /\ Ends(e, s) /\ FitsOf(fit, s)
<1>1. /\ n \in 0 .. Len(s) /\ m \in 1 .. Len(s) /\ z \in Nat /\ y \in Nat /\ c \in Nat
      /\ Taken(n, z, m, y, e) /\ z < y
  BY DEF Reading, Taken
<1>2. s \in Seq(Seq(Byte)) /\ Ends(e, s) /\ FitsOf(fit, s) /\ Len(s) \in Nat
  BY EndsGrow DEF Stream
<1>3. n \in Nat /\ m \in Nat /\ m - 1 \in 0 .. Len(s) /\ m \in 0 .. Len(s)
  BY <1>1, <1>2
<1>4. e[m - 1] \in Nat /\ e[n] \in Nat
  BY <1>1, <1>2, <1>3, EndsGrow
<1>5. Later(c, z, y) \in Nat /\ (Later(c, z, y) = 0 => c = 0 /\ y = z + 1)
  BY <1>1 DEF Later
<1> QED BY <1>1, <1>2, <1>3, <1>4, <1>5

\* The first byte of a frame, or one before it (ReadFirst).
LEMMA FirstByte ==
    ASSUME NEW s, NEW e, NEW fit, Stream(s, e, fit), NEW n, NEW z, NEW c, NEW m, NEW y, NEW x,
           Reading(s, e, n, z, c, m, y, x), Sync(fit, n, c), ReaderOK,
           delivered' = delivered, escape' = FALSE, checksumTotal' = 0,
           error' = "NO_ERROR", available' = FALSE, pos' = IF x = START_BYTE THEN 1 ELSE 0
    PROVE  State(e, fit, s, m, y, Later(c, z, y))'
<1>1. /\ n \in 0 .. Len(s) /\ m \in 1 .. Len(s) /\ z \in Nat /\ y \in Nat /\ c \in Nat
      /\ n \in Nat /\ m \in Nat /\ m - 1 \in 0 .. Len(s) /\ m \in 0 .. Len(s) /\ Taken(n, z, m, y, e)
      /\ e[m - 1] \in Nat /\ e[n] \in Nat
      /\ Later(c, z, y) \in Nat /\ (Later(c, z, y) = 0 => c = 0 /\ y = z + 1)
      /\ s \in Seq(Seq(Byte)) /\ Ends(e, s) /\ FitsOf(fit, s)
  BY Numbers
<1>2. PICK c2 \in Nat : c2 = Later(c, z, y)
  BY <1>1
<1>3. PICK p, q, a, d : p = e[m - 1] /\ q = e[n] /\ a = Len(fit[n]) /\ d = Len(delivered)
  OBVIOUS
<1>4. /\ p \in Nat /\ q \in Nat /\ z < y /\ n <= m /\ p < y /\ z <= q /\ (m > n => p - q >= m - 1 - n)
      /\ c2 = c + (y - z - 1)
  BY <1>1, <1>2, <1>3 DEF Taken, Later
<1>5. a \in Nat /\ d \in Nat /\ a <= 2 * c + d /\ (LengthsTold /\ c = 0 => delivered = fit[n])
  BY <1>1, <1>3, FitGrows DEF Sync, ReaderOK
<1>6. ~ Over' /\ Position' = pos'
  BY DEF Over, Position, Counters, counters
<1>7. x = START_BYTE <=> y = p + 1
  BY <1>3, ByteRead
<1>8. CASE x = START_BYTE
  <2>1. m # n
    <3>1. n # 0 => e[n - 1] < z
      BY <1>1 DEF Reading, Where
    <3> SUFFICES ASSUME m = n PROVE FALSE
      OBVIOUS
    <3>2. p < z /\ y = p + 1
      BY <1>1, <1>3, <1>7, <1>8, <3>1
    <3> QED BY <1>1, <1>4, <3>2
  <2>2. PICK h \in Nat : h = m - 1 - n
    <3>1. m - 1 - n \in Nat
      BY <1>1, <1>4, <2>1
    <3> QED BY <3>1
  <2>3. c2 >= c + h
    BY <1>1, <1>4, <2>1, <2>2
  <2>4. Len(fit[m - 1]) <= a + h /\ Len(fit[m - 1]) \in Nat
    <3>1. n \in 0 .. m - 1 /\ (m - 1) - n = h
      BY <1>1, <2>2
    <3>2. First(fit[n], fit[m - 1], (m - 1) - n) /\ Len(fit[m - 1]) \in Nat
      BY <1>1, <3>1, FitGrows
    <3> QED BY <1>3, <3>1, <3>2 DEF First
  <2>5. Len(fit[m - 1]) <= 2 * c2 + Len(delivered')
    <3>1. PICK b \in Nat : b = Len(fit[m - 1])
      BY <2>3, <2>4
    <3>2. b <= a + h /\ a <= 2 * c + d /\ c2 >= c + h /\ a \in Nat /\ d \in Nat /\ c \in Nat
      BY <1>1, <1>5, <2>3, <2>4, <3>1
    <3>3. b <= 2 * c2 + d
      BY <3>2
    <3> QED BY <1>3, <3>1, <3>3
  <2>6. LengthsTold /\ c2 = 0 => delivered' = fit[m - 1]
    <3> SUFFICES ASSUME LengthsTold, c2 = 0 PROVE delivered' = fit[m - 1]
      OBVIOUS
    <3>1. h = 0 /\ c = 0
      BY <1>1, <2>3
    <3>2. m - 1 = n
      BY <1>1, <2>2, <3>1
    <3> QED BY <1>5, <3>1, <3>2
  <2>7. InFrame(s[m], y - e[m - 1])'
    <3>1. PICK f : f = s[m]
      OBVIOUS
    <3>2. f \in Seq(Byte) /\ y - e[m - 1] = 1
      BY <1>1, <1>3, <1>4, <1>7, <1>8, <3>1 DEF Stream
    <3>3. Len(f) \in Nat
      BY <3>2
    <3>4. PICK u, g : Places(u, f) /\ Content(g, f)
      BY <3>2, Shapes
    <3>5. ReadOf(g, f, 0)'
      BY <1>8, <3>3 DEF ReadOf
    <3>6. AtByte(u, f, 0, 1)'
      <4>1. u[0] = 1
        BY <3>4 DEF Places
      <4>2. 1 = u[0] + (IF escape' THEN 1 ELSE 0)
        BY <4>1
      <4> QED BY <4>2 DEF AtByte
    <3>7. 0 \in 0 .. Len(f) + 2
      BY <3>3
    <3>8. InFrame(f, 1)'
      BY <3>4, <3>5, <3>6, <3>7 DEF InFrame
    <3> QED BY <3>1, <3>2, <3>8
  <2>8. Exact(e, fit, s, m, y, c2)'
    BY <1>1, <1>6, <1>8, <2>5, <2>6, <2>7 DEF Exact
  <2> QED BY <1>2, <2>8 DEF State
<1>9. CASE x # START_BYTE
  <2>1. PICK h \in Nat : h = m - n
    <3>1. m - n \in Nat
      BY <1>1, <1>4
    <3> QED BY <3>1
  <2>2. c2 >= c + h
    <3>1. CASE m = n
      BY <1>1, <1>4, <2>1, <3>1
    <3>2. CASE m # n
      BY <1>1, <1>4, <1>7, <1>9, <2>1, <3>2
    <3> QED BY <3>1, <3>2
  <2>3. Len(fit[m]) <= a + h /\ Len(fit[m]) \in Nat
    <3>1. n \in 0 .. m
      BY <1>1, <1>4
    <3>2. First(fit[n], fit[m], m - n) /\ Len(fit[m]) \in Nat
      BY <1>1, <3>1, FitGrows
    <3> QED BY <1>3, <2>1, <3>2 DEF First
  <2>4. Len(fit[m]) <= 2 * c2 + Len(delivered')
    <3>1. PICK b \in Nat : b = Len(fit[m])
      BY <2>2, <2>3
    <3>2. b <= a + h /\ a <= 2 * c + d /\ c2 >= c + h /\ a \in Nat /\ d \in Nat /\ c \in Nat
      BY <1>1, <1>5, <2>2, <2>3, <3>1
    <3>3. b <= 2 * c2 + d
      BY <3>2
    <3> QED BY <1>3, <3>1, <3>3
  <2>5. LengthsTold /\ c2 = 0 => delivered' = fit[m]
    <3> SUFFICES ASSUME LengthsTold, c2 = 0 PROVE delivered' = fit[m]
      OBVIOUS
    <3>1. h = 0 /\ c = 0
      BY <1>1, <2>2
    <3>2. m = n
      BY <1>1, <2>1, <3>1
    <3> QED BY <1>5, <3>1, <3>2
  <2>6. Sync(fit, m, c2)'
    BY <1>6, <1>9, <2>4, <2>5 DEF Sync
  <2> QED BY <1>2, <2>6 DEF State
<1> QED BY <1>8, <1>9

\* Bytes lost before the one read, in the middle of a frame; or none, and it is
\* the next byte of the frame that the reader follows.
Spare(fit, m, c) == Len(fit[m]) + 1 <= 2 * c + Len(delivered)

\* Whichever byte comes next in the middle of a frame, the count holds.
LEMMA MiddleByte ==
    ASSUME NEW s, NEW e, NEW fit, Stream(s, e, fit), NEW n, NEW z, NEW c, NEW m, NEW y, NEW x,
           Reading(s, e, n, z, c, m, y, x), Off(fit, n, c) \/ Exact(e, fit, s, n, z, c), ReaderOK
    PROVE  LET c2 == Later(c, z, y) IN
           \/ /\ c2 > 0 /\ Len(fit[m]) <= 2 * c2 + Len(delivered)
              /\ x # START_BYTE => Spare(fit, m, c2)
           \/ Exact(e, fit, s, n, z, c) /\ c2 = c /\ m = n /\ y = z + 1 /\ z < e[n] /\ n \in 1 .. Len(s)
<1>1. /\ n \in 0 .. Len(s) /\ m \in 1 .. Len(s) /\ z \in Nat /\ y \in Nat /\ c \in Nat
      /\ n \in Nat /\ m \in Nat /\ m - 1 \in 0 .. Len(s) /\ m \in 0 .. Len(s) /\ Taken(n, z, m, y, e)
      /\ e[m - 1] \in Nat /\ e[n] \in Nat
      /\ Later(c, z, y) \in Nat /\ (Later(c, z, y) = 0 => c = 0 /\ y = z + 1)
      /\ s \in Seq(Seq(Byte)) /\ Ends(e, s) /\ FitsOf(fit, s)
  BY Numbers
<1>2. Len(delivered) \in Nat
  BY DEF ReaderOK
<1>3. x = START_BYTE <=> y = e[m - 1] + 1
  BY ByteRead
<1>4. PICK c2 : c2 = Later(c, z, y)
  OBVIOUS
<1>5. CASE Off(fit, n, c)
  <2>1. c > 0 /\ Len(fit[n]) + 1 <= 2 * c + Len(delivered)
    BY <1>5 DEF Off
  <2>2. /\ c2 \in Nat /\ c2 >= c /\ Len(fit[m]) <= 2 * c2 + Len(delivered)
        /\ y # e[m - 1] + 1 => Len(fit[m]) + 1 <= 2 * c2 + Len(delivered)
    <3>1. PICK d \in Nat : d = Len(delivered)
      BY <1>2
    <3>2. Ahead(fit, n, c, d)
      BY <2>1, <3>1 DEF Ahead
    <3>3. Lasts(e, fit, n, z, c, m, y, d)
      BY <1>1, <3>2, GapAfterLoss
    <3> QED BY <1>4, <3>1, <3>3 DEF Lasts
  <2>3. c2 > 0
    BY <1>1, <2>1, <2>2
  <2> QED BY <1>3, <1>4, <2>2, <2>3 DEF Spare
<1>6. CASE Exact(e, fit, s, n, z, c)
  <2>1. /\ n # 0 /\ Len(fit[n - 1]) <= 2 * c + Len(delivered) /\ InFrame(s[n], z - e[n - 1])
    BY <1>6 DEF Exact
  <2>2. n \in 1 .. Len(s)
    BY <1>1, <2>1
  <2>3. z < e[n]
    BY <1>1, <2>1, <2>2, InsideFrame DEF InFrame
  <2>4. /\ c2 \in Nat /\ c2 >= c /\ (c2 = c => m = n /\ y = z + 1)
        /\ c2 # c => /\ c2 > 0 /\ Len(fit[m]) <= 2 * c2 + Len(delivered)
                     /\ \/ Len(fit[m]) + 1 <= 2 * c2 + Len(delivered)
                        \/ y = e[m - 1] + 1 /\ z = e[n] - 1
    <3>1. PICK d \in Nat : d = Len(delivered)
      BY <1>2
    <3>2. Following(e, fit, n, z, c, d)
      BY <2>1, <2>3, <3>1 DEF Following
    <3>3. Found(e, fit, n, z, c, m, y, d)
      BY <1>1, <2>2, <3>2, GapInFrame
    <3> QED BY <1>4, <3>1, <3>3 DEF Found
  <2> QED BY <1>3, <1>4, <1>6, <2>2, <2>3, <2>4 DEF Spare
<1> QED BY <1>5, <1>6

\* A start byte in the middle of a frame (UnexpectedStart).
LEMMA MiddleStart ==
    ASSUME NEW s, NEW e, NEW fit, Stream(s, e, fit), NEW n, NEW z, NEW c, NEW m, NEW y, NEW x,
           Reading(s, e, n, z, c, m, y, x), Off(fit, n, c) \/ Exact(e, fit, s, n, z, c), ReaderOK,
           x = START_BYTE, Position' = 0, delivered' = delivered
    PROVE  State(e, fit, s, m, y, Later(c, z, y))'
<1>1. PICK c2 : c2 = Later(c, z, y)
  OBVIOUS
<1>2. ~ (m = n /\ y = z + 1 /\ n \in 1 .. Len(s))
  <2> SUFFICES ASSUME m = n, y = z + 1, n \in 1 .. Len(s) PROVE FALSE
    OBVIOUS
  <2>1. y = e[n - 1] + 1 /\ e[n - 1] \in Nat
    BY ByteRead
  <2>2. e[n - 1] < z /\ z \in Nat
    BY DEF Reading, Where
  <2> QED BY <2>1, <2>2
<1>3. c2 > 0 /\ Len(fit[m]) <= 2 * c2 + Len(delivered)
  BY <1>1, <1>2, MiddleByte
<1>4. c2 # 0
  BY <1>3
<1>5. Sync(fit, m, c2)'
  BY <1>3, <1>4 DEF Sync
<1> QED BY <1>1, <1>5 DEF State

LEMMA Middle == Position # 0 => Position = pos /\ ~ Over /\ Escaping = escape
BY DEF Position, Escaping, Counters, counters

\* An escape whose byte is not there yet (EscapeAlone).
LEMMA MiddleEscape ==
    ASSUME NEW s, NEW e, NEW fit, Stream(s, e, fit), NEW n, NEW z, NEW c, NEW m, NEW y, NEW x,
           Reading(s, e, n, z, c, m, y, x), Off(fit, n, c) \/ Exact(e, fit, s, n, z, c), ReaderOK,
           x = ESCAPE, Position # 0, delivered' = delivered, pos' = pos, checksumTotal' = checksumTotal,
           UNCHANGED response, escape' = TRUE
    PROVE  State(e, fit, s, m, y, Later(c, z, y))'
<1>1. PICK c2 : c2 = Later(c, z, y)
  OBVIOUS
<1>2. x # START_BYTE
  BY EscapesAssumption
<1>3. /\ msbLength' = msbLength /\ lsbLength' = lsbLength /\ frame' = frame /\ error' = error
      /\ available' = available
  BY DEF response
<1>4. ~ Over' /\ Position' # 0
  BY <1>3, Middle DEF Over, Position, Counters, counters
<1>5. CASE c2 > 0 /\ Spare(fit, m, c2)
  <2>1. Off(fit, m, c2)'
    BY <1>4, <1>5 DEF Off, Spare
  <2> QED BY <1>1, <2>1 DEF State
<1>6. CASE Exact(e, fit, s, n, z, c) /\ c2 = c /\ m = n /\ y = z + 1 /\ z < e[n] /\ n \in 1 .. Len(s)
  <2>1. PICK f, w : f = s[n] /\ w = z - e[n - 1]
    OBVIOUS
  <2>2. f \in Seq(Byte)
    BY <1>6, <2>1 DEF Stream
  <2>0. PICK u, g : /\ Places(u, f) /\ Content(g, f)
                    /\ \E k \in 0 .. Len(f) + 2 : ReadOf(g, f, k) /\ AtByte(u, f, k, w)
    BY <1>6, <2>1 DEF Exact, InFrame
  <2>3. PICK k \in 0 .. Len(f) + 2 : Places(u, f) /\ Content(g, f) /\ ReadOf(g, f, k) /\ AtByte(u, f, k, w)
    BY <2>0
  <2>4. y - e[n - 1] = w + 1 /\ x = Encode(f)[w + 1]
    <3>1. e[n - 1] \in Nat /\ z \in Nat
      <4>1. e[m - 1] \in Nat
        BY ByteRead
      <4>2. z \in Nat
        BY DEF Reading
      <4>3. m = n
        BY <1>6
      <4> QED BY <4>1, <4>2, <4>3
    <3>2. y - e[n - 1] = w + 1
      <4>1. PICK a \in Nat : a = e[n - 1]
        BY <3>1
      <4>2. y - a = (z - a) + 1
        <5>1. y = z + 1
          BY <1>6
        <5> QED BY <3>1, <5>1
      <4> QED BY <2>1, <4>1, <4>2
    <3> QED BY <1>6, <2>1, <3>2 DEF Reading
  <2>5. ~ escape /\ Raw(f)[k + 1] \in Marks /\ w = u[k] /\ w \in Nat
    BY <2>2, <2>3, <2>4, NextOnLine
  <2>6. AtByte(u, f, k, w + 1)'
    <3>1. w + 1 = u[k] + (IF escape' THEN 1 ELSE 0)
      BY <2>5
    <3> QED BY <2>5, <3>1 DEF AtByte
  <2>7. ReadOf(g, f, k)'
    BY <1>3, <2>3 DEF ReadOf
  <2>8. InFrame(f, w + 1)'
    BY <2>3, <2>6, <2>7 DEF InFrame
  <2>9. Exact(e, fit, s, n, y, c)'
    BY <1>4, <1>6, <2>1, <2>4, <2>8 DEF Exact
  <2> QED BY <1>1, <1>6, <2>9 DEF State
<1> QED BY <1>1, <1>2, <1>5, <1>6, MiddleByte

\* Any other byte (ReadByte).
LEMMA MiddleOther ==
    ASSUME NEW s, NEW e, NEW fit, Stream(s, e, fit), NEW n, NEW z, NEW c, NEW m, NEW y, NEW x,
           Reading(s, e, n, z, c, m, y, x), Off(fit, n, c) \/ Exact(e, fit, s, n, z, c), ReaderOK,
           x # ESCAPE, x # START_BYTE, Position # 0, NEW b, b = IF Escaping THEN Flip(x) ELSE x, Accept(b)
    PROVE  State(e, fit, s, m, y, Later(c, z, y))'
<1>1. PICK c2 : c2 = Later(c, z, y)
  OBVIOUS
<1>2. ~ Over /\ Escaping = escape
  BY Middle
<1>3. CASE c2 > 0 /\ Len(fit[m]) <= 2 * c2 + Len(delivered) /\ Spare(fit, m, c2)
  <2>1. c2 \in Nat /\ s \in Seq(Seq(Byte)) /\ FitsOf(fit, s) /\ m \in 1 .. Len(s)
    BY <1>1, Numbers
  <2>2. State(e, fit, s, m, y, c2)'
    BY <1>2, <1>3, <2>1, AfterLoss DEF Spare
  <2> QED BY <1>1, <2>2
<1>4. CASE Exact(e, fit, s, n, z, c) /\ c2 = c /\ m = n /\ y = z + 1 /\ z < e[n] /\ n \in 1 .. Len(s)
  <2>1. PICK f, w : f = s[n] /\ w = z - e[n - 1]
    OBVIOUS
  <2>2. f \in Seq(Byte)
    BY <1>4, <2>1 DEF Stream
  <2>0. PICK u, g : /\ Places(u, f) /\ Content(g, f)
                    /\ \E k \in 0 .. Len(f) + 2 : ReadOf(g, f, k) /\ AtByte(u, f, k, w)
    BY <1>4, <2>1 DEF Exact, InFrame
  <2>3. PICK k \in 0 .. Len(f) + 2 : Places(u, f) /\ Content(g, f) /\ ReadOf(g, f, k) /\ AtByte(u, f, k, w)
    BY <2>0
  <2>4. y - e[n - 1] = w + 1 /\ x = Encode(f)[w + 1]
    <3>1. e[n - 1] \in Nat /\ z \in Nat
      <4>1. e[m - 1] \in Nat
        BY ByteRead
      <4>2. z \in Nat
        BY DEF Reading
      <4>3. m = n
        BY <1>4
      <4> QED BY <4>1, <4>2, <4>3
    <3>2. y - e[n - 1] = w + 1
      <4>1. PICK a \in Nat : a = e[n - 1]
        BY <3>1
      <4>2. y - a = (z - a) + 1
        <5>1. y = z + 1
          BY <1>4
        <5> QED BY <3>1, <5>1
      <4> QED BY <2>1, <4>1, <4>2
    <3> QED BY <1>4, <2>1, <3>2 DEF Reading
  <2>5. b = Raw(f)[k + 1] /\ y - e[n - 1] = u[k + 1]
    <3>1. escape \in BOOLEAN
      BY DEF ReaderOK
    <3>2. /\ escape => u[k + 1] = w + 1 /\ Flip(x) = Raw(f)[k + 1]
          /\ ~ escape => u[k + 1] = w + 1 /\ x = Raw(f)[k + 1]
      BY <2>2, <2>3, <2>4, NextOnLine
    <3> QED BY <1>2, <2>4, <3>1, <3>2
  <2>6. z \in Nat /\ c \in Nat
    BY DEF Reading
  <2>7. Accept(Raw(f)[k + 1])
    BY <2>5
  <2>8. State(e, fit, s, n, y, c)'
    BY <1>4, <2>1, <2>3, <2>5, <2>6, <2>7, AfterNext
  <2> QED BY <1>1, <1>4, <2>8
<1> QED BY <1>1, <1>3, <1>4, MiddleByte

\* An escape and its byte taken together (ReadEscaped), of which the second may
\* be of a later frame, its start byte even: then one byte is left of the
\* frame the reader follows, which it takes for that byte, and the frame ends.
LEMMA MiddlePair ==
    ASSUME NEW s, NEW e, NEW fit, Stream(s, e, fit), NEW n, NEW z, NEW c, NEW m, NEW y, NEW x,
           Reading(s, e, n, z, c, m, y, x), Off(fit, n, c) \/ Exact(e, fit, s, n, z, c), ReaderOK,
           NEW c2, c2 = Later(c, z, y), NEW m3, NEW y3, NEW x3, Reading(s, e, m, y, c2, m3, y3, x3),
           x = ESCAPE, Position # 0,
           NEW b, b = IF Escaping THEN Flip(Flip(x3)) ELSE Flip(x3), Accept(b)
    PROVE  State(e, fit, s, m3, y3, Later(c2, y, y3))'
<1>1. PICK c3 : c3 = Later(c2, y, y3)
  OBVIOUS
<1>2. ~ Over /\ Escaping = escape /\ x # START_BYTE
  BY Middle, EscapesAssumption
<1>3. /\ c3 \in Nat /\ m3 \in 1 .. Len(s) /\ m \in 1 .. Len(s) /\ y \in Nat /\ y3 \in Nat /\ c2 \in Nat
      /\ Taken(m, y, m3, y3, e) /\ s \in Seq(Seq(Byte)) /\ Ends(e, s) /\ FitsOf(fit, s)
      /\ m \in 0 .. Len(s)
  BY <1>1, Numbers
<1>4. y < e[m]
  BY ByteRead
<1>5. PICK d \in Nat : d = Len(delivered)
  BY DEF ReaderOK
<1>6. CASE c2 > 0 /\ Spare(fit, m, c2)
  <2>1. Len(fit[m]) + 1 <= 2 * c2 + d
    BY <1>5, <1>6 DEF Spare
  <2>2. /\ c3 \in Nat /\ c3 >= c2 /\ Len(fit[m3]) <= 2 * c3 + d /\ Len(fit[m3]) + 1 <= 2 * c3 + d
    <3>1. m \in 0 .. Len(s) /\ m3 \in 1 .. Len(s) /\ y \in Nat /\ y3 \in Nat /\ c2 \in Nat
      BY <1>3
    <3>2. s \in Seq(Seq(Byte)) /\ Ends(e, s) /\ FitsOf(fit, s) /\ Taken(m, y, m3, y3, e)
      BY <1>3
    <3>3. Ahead(fit, m, c2, d)
      BY <2>1 DEF Ahead
    <3>4. Lasts(e, fit, m, y, c2, m3, y3, d)
      BY <1>3, <3>1, <3>2, <3>3, GapAfterLoss
    <3> QED BY <1>1, <1>4, <3>4 DEF Lasts
  <2>3. c3 > 0
    BY <1>3, <1>6, <2>2
  <2>4. State(e, fit, s, m3, y3, c3)'
    BY <1>2, <1>3, <1>5, <2>2, <2>3, AfterLoss
  <2> QED BY <1>1, <2>4
<1>7. CASE Exact(e, fit, s, n, z, c) /\ c2 = c /\ m = n /\ y = z + 1 /\ z < e[n] /\ n \in 1 .. Len(s)
  <2>1. PICK f, w : f = s[n] /\ w = z - e[n - 1]
    OBVIOUS
  <2>2. f \in Seq(Byte) /\ f # <<>>
    BY <1>7, <2>1 DEF Stream
  <2>3. PICK u, g : /\ Places(u, f) /\ Content(g, f)
                    /\ \E k \in 0 .. Len(f) + 2 : ReadOf(g, f, k) /\ AtByte(u, f, k, w)
    BY <1>7, <2>1 DEF Exact, InFrame
  <2>4. PICK k \in 0 .. Len(f) + 2 : Places(u, f) /\ Content(g, f) /\ ReadOf(g, f, k) /\ AtByte(u, f, k, w)
    BY <2>3
  <2>5. z \in Nat /\ c \in Nat
    BY DEF Reading
  <2>6. PICK a \in Nat : a = e[n - 1] /\ e[n] = a + Len(Encode(f))
    BY <1>7, <2>1, ByteRead
  <2>7. w = z - a /\ y - a = w + 1 /\ Len(Encode(f)) \in Nat /\ Len(f) \in Nat
    <3>1. y - a = (z - a) + 1
      <4>1. y = z + 1
        BY <1>7
      <4> QED BY <2>5, <2>6, <4>1
    <3> QED BY <2>1, <2>2, <2>6, <3>1, Shapes
  <2>8. x = Encode(f)[w + 1]
    BY <1>7, <2>1, <2>6, <2>7 DEF Reading
  <2>9. /\ ~ escape /\ u[k + 1] = w + 2 /\ w \in Nat /\ Flip(Encode(f)[w + 2]) = Raw(f)[k + 1]
    BY <2>2, <2>4, <2>8, NextOnLine
  <2>10. b = Flip(x3)
    BY <1>2, <2>9
  <2>11. Found(e, fit, n, y, c, m3, y3, d)
    <3>1. Len(fit[n - 1]) <= 2 * c + d
      BY <1>5, <1>7 DEF Exact
    <3>2. Following(e, fit, n, y, c, d)
      BY <1>4, <1>7, <3>1 DEF Following
    <3>3. Taken(n, y, m3, y3, e)
      BY <1>3, <1>7
    <3> QED BY <1>3, <1>7, <2>5, <3>2, <3>3, GapInFrame
  <2>12. CASE c3 = c
    <3>1. m3 = n /\ y3 = y + 1
      BY <1>1, <1>7, <2>11, <2>12 DEF Found
    <3>2. y3 - a = w + 2
      <4>1. w \in Nat /\ y - a = w + 1
        BY <2>7, <2>9
      <4>2. y3 = y + 1 /\ y \in Nat
        BY <1>3, <3>1
      <4> QED BY <4>1, <4>2
    <3>3. x3 = Encode(f)[w + 2]
      BY <2>1, <2>6, <3>1, <3>2 DEF Reading
    <3>4. Accept(Raw(f)[k + 1]) /\ y3 - e[n - 1] = u[k + 1]
      BY <2>6, <2>9, <2>10, <3>2, <3>3
    <3>5. State(e, fit, s, n, y3, c)'
      BY <1>7, <2>1, <2>4, <2>5, <3>4, AfterNext
    <3> QED BY <1>1, <2>12, <3>1, <3>5
  <2>13. CASE c3 # c
    <3>1. /\ c3 > 0 /\ Len(fit[m3]) <= 2 * c3 + Len(delivered)
          /\ \/ Len(fit[m3]) + 1 <= 2 * c3 + Len(delivered)
             \/ y = e[n] - 1
      BY <1>1, <1>5, <1>7, <2>11, <2>13 DEF Found
    <3>2. y = e[n] - 1 => Position' = 0
      <4> SUFFICES ASSUME y = e[n] - 1 PROVE Position' = 0
        OBVIOUS
      <4>1. w + 2 = Len(Encode(f))
        <5>1. PICK h \in Nat : h = Len(Encode(f))
          BY <2>7
        <5>2. y = (a + h) - 1 /\ y - a = w + 1
          BY <2>6, <2>7, <5>1
        <5>3. w + 2 = h
          <6>1. w \in Nat
            BY <2>9
          <6> QED BY <1>3, <5>2, <6>1
        <5> QED BY <5>1, <5>3
      <4>2. k + 1 \in 0 .. Len(f) + 3 /\ Len(f) + 3 \in 0 .. Len(f) + 3 /\ k + 1 <= Len(f) + 3
        BY <2>7
      <4>3. u[Len(f) + 3] - u[k + 1] >= (Len(f) + 3) - (k + 1) /\ u[Len(f) + 3] = Len(Encode(f))
        BY <2>4, <4>2 DEF Places
      <4>4. PICK h \in Nat : h = u[k + 1] /\ h = u[Len(f) + 3]
        BY <2>7, <2>9, <4>1, <4>3
      <4>5. h - h >= (Len(f) + 3) - (k + 1)
        BY <4>3, <4>4
      <4>6. k = Len(f) + 2
        BY <2>7, <4>2, <4>5
      <4>7. pos = Len(f) + 3 /\ (Len(f) < BYTES => msbLength = 0 /\ lsbLength = Len(f))
        BY <2>4, <2>7, <4>6 DEF ReadOf
      <4> QED BY <1>2, <2>2, <4>7, AcceptLast
    <3>3. State(e, fit, s, m3, y3, c3)'
      BY <1>2, <1>3, <3>1, <3>2, AfterLoss
    <3> QED BY <1>1, <3>3
  <2> QED BY <2>12, <2>13
<1> QED BY <1>2, <1>6, <1>7, MiddleByte

----------------------------------------------------------------------------
\* x bytes were lost, c of them before z, the others before what is on the line.
OnLine(e, p, z, n, c, s, l, x) ==
    Place(p, z, e, s, l) /\ Where(n, z, e, s) /\ c \in Nat /\ x = c + (e[Len(s)] - z - Len(l))
HistoryOK == delivered \in Seq(Seq(Byte)) /\ sent \in Seq(Frames) /\ faults \in Nat
FrameInv ==
    /\ HistoryOK
    /\ \E e, fit : /\ Ends(e, sent) /\ FitsOf(fit, sent)
                   /\ \E p, z, n, c : OnLine(e, p, z, n, c, sent, line, faults) /\ State(e, fit, sent, n, z, c)
TypesOK == line \in Seq(Byte) /\ pos \in Nat /\ frame \in Seq(Byte) /\ escape \in BOOLEAN

\* The frames sent make a stream.
LEMMA SentStream ==
    ASSUME NEW s \in Seq(Frames), NEW e, NEW fit, Ends(e, s), FitsOf(fit, s)
    PROVE  Stream(s, e, fit)
<1>1. \A i \in 1 .. Len(s) : s[i] \in Frames
  OBVIOUS
<1>2. \A f \in Frames : f # <<>> /\ f \in Seq(Byte)
  BY FramesAssumption
<1>3. PICK S : S = Seq(Byte)
  OBVIOUS
<1>4. s \in Seq(S)
  <2>1. Len(s) \in Nat /\ s = [i \in 1 .. Len(s) |-> s[i]]
    OBVIOUS
  <2>2. \A i \in 1 .. Len(s) : s[i] \in S
    BY <1>1, <1>2, <1>3
  <2> QED BY <2>1, <2>2
<1> QED BY <1>1, <1>2, <1>3, <1>4 DEF Stream

\* The invariant, in names of its own.
LEMMA Parsed ==
    ASSUME FrameInv, TypesOK
    PROVE  \E s, l, e, fit, p, z, n, c :
             /\ s = sent /\ l = line /\ l \in Seq(Byte) /\ s \in Seq(Frames) /\ ReaderOK
             /\ Stream(s, e, fit) /\ OnLine(e, p, z, n, c, s, l, faults) /\ State(e, fit, s, n, z, c)
<1>1. PICK s, l : s = sent /\ l = line
  OBVIOUS
<1>2. PICK e, fit : /\ Ends(e, s) /\ FitsOf(fit, s)
                    /\ \E p, z, n, c : OnLine(e, p, z, n, c, s, l, faults) /\ State(e, fit, s, n, z, c)
  BY <1>1 DEF FrameInv
<1>3. s \in Seq(Frames) /\ l \in Seq(Byte)
  BY <1>1 DEF FrameInv, HistoryOK, TypesOK
<1>4. Stream(s, e, fit)
  BY <1>2, <1>3, SentStream
<1>5. ReaderOK
  <2>1. PICK S, d : S = Seq(Byte) /\ d = delivered
    OBVIOUS
  <2>2. d \in Seq(S)
    BY <2>1 DEF FrameInv, HistoryOK
  <2>3. Len(d) \in Nat
    BY <2>2
  <2> QED BY <2>1, <2>3 DEF FrameInv, HistoryOK, TypesOK, ReaderOK
<1> QED BY <1>1, <1>2, <1>3, <1>4, <1>5

\* Where the reader is does not depend on the line.
LEMMA StateSame ==
    ASSUME NEW e, NEW fit, NEW s, NEW n, NEW z, NEW c, State(e, fit, s, n, z, c),
           UNCHANGED reader, delivered' = delivered
    PROVE  State(e, fit, s, n, z, c)'
<1>1. /\ pos' = pos /\ escape' = escape /\ checksumTotal' = checksumTotal /\ msbLength' = msbLength
      /\ lsbLength' = lsbLength /\ frame' = frame /\ error' = error /\ available' = available
  BY DEF reader, counters, response
<1>2. Position' = Position /\ Over' = Over
  BY <1>1 DEF Position, Counters, counters, Over
<1>3. \A f, w : InFrame(f, w) => InFrame(f, w)'
  <2> SUFFICES ASSUME NEW f, NEW w, InFrame(f, w) PROVE InFrame(f, w)'
    OBVIOUS
  <2>1. PICK u, g : /\ Places(u, f) /\ Content(g, f)
                    /\ \E k \in 0 .. Len(f) + 2 : ReadOf(g, f, k) /\ AtByte(u, f, k, w)
    BY DEF InFrame
  <2>2. PICK k \in 0 .. Len(f) + 2 : ReadOf(g, f, k) /\ AtByte(u, f, k, w)
    BY <2>1
  <2>3. ReadOf(g, f, k)' /\ AtByte(u, f, k, w)'
    BY <1>1, <2>2 DEF ReadOf, AtByte
  <2> QED BY <2>1, <2>3 DEF InFrame
<1>4. CASE Sync(fit, n, c)
  <2>1. Sync(fit, n, c)'
    BY <1>2, <1>4 DEF Sync
  <2> QED BY <2>1 DEF State
<1>5. CASE Off(fit, n, c)
  <2>1. Off(fit, n, c)'
    BY <1>2, <1>5 DEF Off
  <2> QED BY <2>1 DEF State
<1>6. CASE Exact(e, fit, s, n, z, c)
  <2>1. InFrame(s[n], z - e[n - 1])'
    BY <1>3, <1>6 DEF Exact
  <2>2. Exact(e, fit, s, n, z, c)'
    BY <1>2, <1>6, <2>1 DEF Exact
  <2> QED BY <2>2 DEF State
<1> QED BY <1>4, <1>5, <1>6 DEF State

\* A byte is taken off the line.
LEMMA Advance ==
    ASSUME NEW s, NEW l \in Seq(Byte), l # <<>>, NEW e, NEW fit, Stream(s, e, fit),
           NEW p, NEW z, NEW n, NEW c, NEW x, OnLine(e, p, z, n, c, s, l, x)
    PROVE  \E m, y, q : /\ OnLine(e, q, y, m, Later(c, z, y), s, Tail(l), x)
                        /\ Reading(s, e, n, z, c, m, y, Head(l))
<1>1. s \in Seq(Seq(Byte)) /\ Ends(e, s)
  BY DEF Stream
<1>2. Place(p, z, e, s, l) /\ Where(n, z, e, s) /\ c \in Nat /\ x = c + (e[Len(s)] - z - Len(l))
  BY DEF OnLine
<1>3. PICK m \in 1 .. Len(s) : \E q :
              /\ Place(q, p[1], e, s, Tail(l)) /\ Where(m, p[1], e, s) /\ Taken(n, z, m, p[1], e)
              /\ Head(l) = Encode(s[m])[p[1] - e[m - 1]]
              /\ p[1] - e[m - 1] \in 1 .. Len(Encode(s[m]))
  BY <1>1, <1>2, Take
<1>4. PICK q, y : /\ y = p[1] /\ Place(q, y, e, s, Tail(l)) /\ Where(m, y, e, s) /\ Taken(n, z, m, y, e)
                  /\ Head(l) = Encode(s[m])[y - e[m - 1]] /\ y - e[m - 1] \in 1 .. Len(Encode(s[m]))
  BY <1>3
<1>5. z \in Nat /\ y \in Nat /\ n \in 0 .. Len(s) /\ z < y
  BY <1>2, <1>4 DEF Place, Where, Taken
<1>6. Reading(s, e, n, z, c, m, y, Head(l))
  BY <1>2, <1>4, <1>5 DEF Reading
<1>7. x = Later(c, z, y) + (e[Len(s)] - y - Len(Tail(l))) /\ Later(c, z, y) \in Nat
  <2>1. Len(Tail(l)) = Len(l) - 1 /\ Len(l) \in Nat
    OBVIOUS
  <2>2. e[Len(s)] \in Nat
    <3>1. Len(s) \in 0 .. Len(s)
      BY <1>1, EndsGrow
    <3> QED BY <1>1, <3>1, EndsGrow
  <2>3. PICK a, b : a = e[Len(s)] /\ b = Len(l)
    OBVIOUS
  <2>4. a \in Nat /\ b \in Nat /\ x = c + (a - z - b) /\ Len(Tail(l)) = b - 1
    BY <1>2, <2>1, <2>2, <2>3
  <2>5. x = (c + (y - z - 1)) + (a - y - (b - 1)) /\ c + (y - z - 1) \in Nat
    BY <1>2, <1>5, <2>4
  <2> QED BY <2>3, <2>4, <2>5 DEF Later
<1>8. OnLine(e, q, y, m, Later(c, z, y), s, Tail(l), x)
  BY <1>4, <1>7 DEF OnLine
<1> QED BY <1>6, <1>8

\* And the reader is where the next frames say.
LEMMA Resume ==
    ASSUME NEW s, NEW l, NEW e, NEW fit, Stream(s, e, fit), s \in Seq(Frames), s = sent', l = line', faults \in Nat,
           faults' = faults, delivered' \in Seq(Seq(Byte)),
           NEW q, NEW y, NEW m, NEW c, OnLine(e, q, y, m, c, s, l, faults), State(e, fit, s, m, y, c)'
    PROVE  FrameInv'
<1>1. Ends(e, sent') /\ FitsOf(fit, sent')
  BY DEF Stream
<1>2. OnLine(e, q, y, m, c, sent', line', faults') /\ State(e, fit, sent, m, y, c)'
  <2>1. OnLine(e, q, y, m, c, sent', line', faults')
    OBVIOUS
  <2>2. State(e, fit, sent, m, y, c)'
    BY DEF State, Exact
  <2> QED BY <2>1, <2>2
<1>3. HistoryOK'
  BY DEF HistoryOK
<1> QED BY <1>1, <1>2, <1>3 DEF FrameInv

\* The steps of the reader.
LEMMA FirstStep ==
    ASSUME FrameInv, TypesOK, ReadFirst
    PROVE  FrameInv'
<1>1. PICK s, l, e, fit, p, z, n, c :
             /\ s = sent /\ l = line /\ l \in Seq(Byte) /\ s \in Seq(Frames) /\ ReaderOK
             /\ Stream(s, e, fit) /\ OnLine(e, p, z, n, c, s, l, faults) /\ State(e, fit, s, n, z, c)
  BY Parsed
<1>2. /\ l # <<>> /\ Position = 0 /\ line' = Tail(l) /\ sent' = s /\ delivered' = delivered /\ faults' = faults
      /\ escape' = FALSE /\ checksumTotal' = 0 /\ error' = "NO_ERROR" /\ available' = FALSE
      /\ pos' = IF Head(l) = START_BYTE THEN 1 ELSE 0
  BY <1>1 DEF ReadFirst
<1>3. PICK m, y, q : /\ OnLine(e, q, y, m, Later(c, z, y), s, Tail(l), faults)
                     /\ Reading(s, e, n, z, c, m, y, Head(l))
  BY <1>1, <1>2, Advance
<1>4. Sync(fit, n, c)
  BY <1>1, <1>2 DEF State, Off, Exact
<1>5. State(e, fit, s, m, y, Later(c, z, y))'
  BY <1>1, <1>2, <1>3, <1>4, FirstByte
<1>6. faults \in Nat /\ delivered' \in Seq(Seq(Byte))
  BY <1>2 DEF FrameInv, HistoryOK
<1> QED BY <1>1, <1>2, <1>3, <1>5, <1>6, Resume

\* UnexpectedStart.
LEMMA StartStep ==
    ASSUME FrameInv, TypesOK, UnexpectedStart
    PROVE  FrameInv'
<1>1. PICK s, l, e, fit, p, z, n, c :
             /\ s = sent /\ l = line /\ l \in Seq(Byte) /\ s \in Seq(Frames) /\ ReaderOK
             /\ Stream(s, e, fit) /\ OnLine(e, p, z, n, c, s, l, faults) /\ State(e, fit, s, n, z, c)
  BY Parsed
<1>2. /\ l # <<>> /\ Position > 0 /\ line' = Tail(l) /\ sent' = s /\ delivered' = delivered /\ faults' = faults
      /\ Head(l) = START_BYTE /\ error' = "UNEXPECTED_START_BYTE"
  BY <1>1 DEF UnexpectedStart
<1>3. PICK m, y, q : /\ OnLine(e, q, y, m, Later(c, z, y), s, Tail(l), faults)
                     /\ Reading(s, e, n, z, c, m, y, Head(l))
  BY <1>1, <1>2, Advance
<1>4. Off(fit, n, c) \/ Exact(e, fit, s, n, z, c)
  BY <1>1, <1>2 DEF State, Sync
<1>5. Position' = 0
  BY <1>2 DEF Position, Counters, Over
<1>6. State(e, fit, s, m, y, Later(c, z, y))'
  BY <1>1, <1>2, <1>3, <1>4, <1>5, MiddleStart
<1>7. faults \in Nat /\ delivered' \in Seq(Seq(Byte))
  BY <1>2 DEF FrameInv, HistoryOK
<1> QED BY <1>1, <1>2, <1>3, <1>6, <1>7, Resume

\* EscapeAlone.
LEMMA EscapeStep ==
    ASSUME FrameInv, TypesOK, EscapeAlone
    PROVE  FrameInv'
<1>1. PICK s, l, e, fit, p, z, n, c :
             /\ s = sent /\ l = line /\ l \in Seq(Byte) /\ s \in Seq(Frames) /\ ReaderOK
             /\ Stream(s, e, fit) /\ OnLine(e, p, z, n, c, s, l, faults) /\ State(e, fit, s, n, z, c)
  BY Parsed
<1>2. /\ l # <<>> /\ Position > 0 /\ line' = Tail(l) /\ sent' = s /\ delivered' = delivered /\ faults' = faults
      /\ Head(l) = ESCAPE /\ escape' = TRUE /\ pos' = pos /\ checksumTotal' = checksumTotal
      /\ UNCHANGED response
  BY <1>1 DEF EscapeAlone
<1>3. PICK m, y, q : /\ OnLine(e, q, y, m, Later(c, z, y), s, Tail(l), faults)
                     /\ Reading(s, e, n, z, c, m, y, Head(l))
  BY <1>1, <1>2, Advance
<1>4. (Off(fit, n, c) \/ Exact(e, fit, s, n, z, c)) /\ Position # 0
  BY <1>1, <1>2 DEF State, Sync
<1>5. State(e, fit, s, m, y, Later(c, z, y))'
  BY <1>1, <1>2, <1>3, <1>4, MiddleEscape
<1>6. faults \in Nat /\ delivered' \in Seq(Seq(Byte))
  BY <1>2 DEF FrameInv, HistoryOK
<1> QED BY <1>1, <1>2, <1>3, <1>5, <1>6, Resume

\* ReadByte.
LEMMA ByteStep ==
    ASSUME FrameInv, TypesOK, ReadByte
    PROVE  FrameInv'
<1>1. PICK s, l, e, fit, p, z, n, c :
             /\ s = sent /\ l = line /\ l \in Seq(Byte) /\ s \in Seq(Frames) /\ ReaderOK
             /\ Stream(s, e, fit) /\ OnLine(e, p, z, n, c, s, l, faults) /\ State(e, fit, s, n, z, c)
  BY Parsed
<1>2. PICK b : b = IF Escaping THEN Flip(Head(l)) ELSE Head(l)
  OBVIOUS
<1>3. /\ l # <<>> /\ Position > 0 /\ line' = Tail(l) /\ sent' = s /\ faults' = faults
      /\ Head(l) # START_BYTE /\ Head(l) # ESCAPE /\ Accept(b)
  BY <1>1, <1>2 DEF ReadByte
<1>4. PICK m, y, q : /\ OnLine(e, q, y, m, Later(c, z, y), s, Tail(l), faults)
                     /\ Reading(s, e, n, z, c, m, y, Head(l))
  BY <1>1, <1>3, Advance
<1>5. (Off(fit, n, c) \/ Exact(e, fit, s, n, z, c)) /\ Position # 0
  BY <1>1, <1>3 DEF State, Sync
<1>6. State(e, fit, s, m, y, Later(c, z, y))'
  BY <1>1, <1>2, <1>3, <1>4, <1>5, MiddleOther
<1>7. faults \in Nat /\ delivered' \in Seq(Seq(Byte))
  <2>1. ~ Over
    BY <1>5, Middle
  <2> QED BY <1>1, <1>3, <2>1, AcceptEnds DEF ReaderOK, FrameInv, HistoryOK
<1> QED BY <1>1, <1>3, <1>4, <1>6, <1>7, Resume

LEMMA Two ==
    ASSUME NEW S, NEW l \in Seq(S), Len(l) > 1
    PROVE  l # <<>> /\ Tail(l) \in Seq(S) /\ Tail(l) # <<>> /\ Head(Tail(l)) = l[2]
<1>1. l # <<>> /\ Tail(l) \in Seq(S) /\ Len(Tail(l)) = Len(l) - 1 /\ Len(l) \in Nat
  OBVIOUS
<1>2. Tail(l)[1] = l[2]
  OBVIOUS
<1>3. PICK t : t = Tail(l)
  OBVIOUS
<1>4. t \in Seq(S) /\ Len(t) >= 1
  BY <1>1, <1>3
<1>5. t # <<>> /\ Head(t) = t[1]
  BY <1>4
<1> QED BY <1>1, <1>2, <1>3, <1>5

\* ReadEscaped.
LEMMA PairStep ==
    ASSUME FrameInv, TypesOK, ReadEscaped
    PROVE  FrameInv'
<1>1. PICK s, l, e, fit, p, z, n, c :
             /\ s = sent /\ l = line /\ l \in Seq(Byte) /\ s \in Seq(Frames) /\ ReaderOK
             /\ Stream(s, e, fit) /\ OnLine(e, p, z, n, c, s, l, faults) /\ State(e, fit, s, n, z, c)
  BY Parsed
<1>2. PICK b : b = IF Escaping THEN Flip(Flip(l[2])) ELSE Flip(l[2])
  OBVIOUS
<1>3. /\ Len(l) > 1 /\ Position > 0 /\ line' = Tail(Tail(l)) /\ sent' = s /\ faults' = faults
      /\ Head(l) = ESCAPE /\ Accept(b)
  BY <1>1, <1>2 DEF ReadEscaped
<1>4. l # <<>> /\ Tail(l) \in Seq(Byte) /\ Tail(l) # <<>> /\ Head(Tail(l)) = l[2]
  BY <1>1, <1>3, Two
<1>5. PICK m, y, q : /\ OnLine(e, q, y, m, Later(c, z, y), s, Tail(l), faults)
                     /\ Reading(s, e, n, z, c, m, y, Head(l))
  BY <1>1, <1>4, Advance
<1>6. PICK c2 : c2 = Later(c, z, y)
  OBVIOUS
<1>7. PICK m3, y3, q3 : /\ OnLine(e, q3, y3, m3, Later(c2, y, y3), s, Tail(Tail(l)), faults)
                        /\ Reading(s, e, m, y, c2, m3, y3, l[2])
  <2>1. PICK t, x : t = Tail(l) /\ x = faults
    OBVIOUS
  <2>2. t \in Seq(Byte) /\ t # <<>> /\ OnLine(e, q, y, m, c2, s, t, x) /\ Head(t) = l[2]
    BY <1>4, <1>5, <1>6, <2>1
  <2>3. \E m3, y3, q3 : /\ OnLine(e, q3, y3, m3, Later(c2, y, y3), s, Tail(t), x)
                        /\ Reading(s, e, m, y, c2, m3, y3, Head(t))
    BY <1>1, <2>2, Advance
  <2> QED BY <2>1, <2>2, <2>3
<1>8. (Off(fit, n, c) \/ Exact(e, fit, s, n, z, c)) /\ Position # 0
  BY <1>1, <1>3 DEF State, Sync
<1>9. State(e, fit, s, m3, y3, Later(c2, y, y3))'
  BY <1>1, <1>2, <1>3, <1>5, <1>6, <1>7, <1>8, MiddlePair
<1>10. faults \in Nat /\ delivered' \in Seq(Seq(Byte))
  <2>1. ~ Over
    BY <1>8, Middle
  <2> QED BY <1>1, <1>3, <2>1, AcceptEnds DEF ReaderOK, FrameInv, HistoryOK
<1> QED BY <1>1, <1>3, <1>7, <1>9, <1>10, Resume

LEMMA FrameInit == Init => FrameInv
<1> SUFFICES ASSUME Init PROVE FrameInv
  OBVIOUS
<1>1. /\ line = <<>> /\ pos = 0 /\ error = "NO_ERROR" /\ available = FALSE
      /\ sent = <<>> /\ delivered = <<>> /\ faults = 0
  BY DEF Init
<1>2. Len(<<>>) = 0 /\ <<>> \in Seq(Seq(Byte)) /\ <<>> \in Seq(Frames)
  OBVIOUS
<1>3. PICK e, fit : e = [k \in 0 .. 0 |-> 0] /\ fit = [k \in 0 .. 0 |-> Nothing]
  OBVIOUS
<1>4. Ends(e, <<>>)
  BY <1>2, <1>3 DEF Ends
<1>5. FitsOf(fit, <<>>)
  <2>1. Nothing \in Seq(Seq(Byte))
    BY <1>2 DEF Nothing
  <2> QED BY <1>2, <1>3, <2>1 DEF FitsOf
<1>6. e[0] = 0 /\ fit[0] = <<>>
  BY <1>3 DEF Nothing
<1>7. OnLine(e, <<>>, 0, 0, 0, <<>>, <<>>, 0)
  <2>1. Place(<<>>, 0, e, <<>>, <<>>)
    BY <1>2, <1>6 DEF Place
  <2>2. Where(0, 0, e, <<>>)
    BY <1>2 DEF Where
  <2> QED BY <1>2, <1>6, <2>1, <2>2 DEF OnLine
<1>8. State(e, fit, <<>>, 0, 0, 0)
  <2>1. Position = 0
    BY <1>1 DEF Position, Counters, counters, Over
  <2>2. Len(fit[0]) <= 2 * 0 + Len(delivered)
    BY <1>1, <1>2, <1>6
  <2>3. Sync(fit, 0, 0)
    BY <1>1, <1>6, <2>1, <2>2 DEF Sync
  <2> QED BY <2>3 DEF State
<1>9. HistoryOK
  BY <1>1, <1>2 DEF HistoryOK
<1> QED BY <1>1, <1>4, <1>5, <1>7, <1>8, <1>9 DEF FrameInv

\* The state of the reader is told by the stream up to z, which sending extends.
LEMMA StateOf ==
    ASSUME NEW e, NEW fit, NEW s, NEW n, NEW z, NEW c, State(e, fit, s, n, z, c),
           NEW e2, NEW fit2, NEW s2, fit2[n] = fit[n],
           n # 0 => fit2[n - 1] = fit[n - 1] /\ s2[n] = s[n] /\ e2[n - 1] = e[n - 1]
    PROVE  State(e2, fit2, s2, n, z, c)
<1>1. CASE Sync(fit, n, c)
  <2>1. Sync(fit2, n, c)
    BY <1>1 DEF Sync
  <2> QED BY <2>1 DEF State
<1>2. CASE Off(fit, n, c)
  <2>1. Off(fit2, n, c)
    BY <1>2 DEF Off
  <2> QED BY <2>1 DEF State
<1>3. CASE Exact(e, fit, s, n, z, c)
  <2>1. Exact(e2, fit2, s2, n, z, c)
    BY <1>3 DEF Exact
  <2> QED BY <2>1 DEF State
<1> QED BY <1>1, <1>2, <1>3 DEF State

\* A frame is sent (Send).
LEMMA Sending ==
    ASSUME NEW f \in Frames, FrameInv, TypesOK, Send(f)
    PROVE  FrameInv'
<1>1. PICK s, l, e, fit, p, z, n, c :
             /\ s = sent /\ l = line /\ l \in Seq(Byte) /\ s \in Seq(Frames) /\ ReaderOK
             /\ Stream(s, e, fit) /\ OnLine(e, p, z, n, c, s, l, faults) /\ State(e, fit, s, n, z, c)
  BY Parsed
<1>2. PICK g, h : g = Encode(f) /\ h = Len(g)
  OBVIOUS
<1>3. /\ line' = l \o g /\ sent' = Append(s, f) /\ UNCHANGED reader /\ delivered' = delivered /\ faults' = faults
  BY <1>1, <1>2 DEF Send
<1>4. f \in Seq(Byte) /\ g \in Seq(Byte) /\ h \in Nat
  <2>1. f \in Seq(Byte)
    BY FramesAssumption
  <2> QED BY <1>2, <2>1, Shapes
<1>5. PICK N, L, s2, l2 : N = Len(s) /\ L = Len(l) /\ s2 = Append(s, f) /\ l2 = l \o g
  OBVIOUS
<1>6. /\ N \in Nat /\ s2 \in Seq(Frames) /\ Len(s2) = N + 1 /\ s2[N + 1] = f
      /\ \A i \in 1 .. N : s2[i] = s[i]
  BY <1>1, <1>5
<1>7. /\ L \in Nat /\ Len(l2) = L + h /\ (\A i \in 1 .. L : l2[i] = l[i])
      /\ \A i \in 1 .. h : l2[L + i] = g[i]
  BY <1>1, <1>2, <1>4, <1>5, Joining
<1>8. /\ s \in Seq(Seq(Byte)) /\ Ends(e, s) /\ FitsOf(fit, s)
      /\ \A i \in 1 .. N : s[i] \in Seq(Byte)
  BY <1>1, <1>5 DEF Stream
<1>9. /\ e[0] = 0 /\ (\A j \in 0 .. N : e[j] \in Nat) /\ \A m \in 1 .. N : e[m] = e[m - 1] + Len(Encode(s[m]))
  BY <1>5, <1>8, EndsGrow
<1>10. PICK E \in Nat : E = e[N]
  <2>1. N \in 0 .. N
    BY <1>6
  <2> QED BY <1>9, <2>1
<1>11. PICK e2, fit2 : /\ e2 = [k \in 0 .. N + 1 |-> IF k = N + 1 THEN E + h ELSE e[k]]
                       /\ fit2 = [k \in 0 .. N + 1 |-> IF k = N + 1 THEN Kept(fit[N], f) ELSE fit[k]]
  OBVIOUS
<1>12. /\ \A k \in 0 .. N : k \in 0 .. N + 1 /\ k # N + 1
       /\ \A k \in 1 .. N + 1 : k = N + 1 \/ k \in 1 .. N
       /\ \A k \in 1 .. N : k \in 0 .. N /\ k - 1 \in 0 .. N
       /\ N + 1 - 1 = N /\ N + 1 \in 0 .. N + 1 /\ 0 \in 0 .. N /\ N \in 0 .. N /\ N + 1 \in 1 .. N + 1
  BY <1>6
<1>13. (\A k \in 0 .. N : e2[k] = e[k] /\ fit2[k] = fit[k]) /\ e2[N + 1] = E + h /\ fit2[N + 1] = Kept(fit[N], f)
  BY <1>11, <1>12
<1>14. Ends(e2, s2)
  <2>1. e2 \in [0 .. N + 1 -> Nat]
    <3>1. \A k \in 0 .. N + 1 : (IF k = N + 1 THEN E + h ELSE e[k]) \in Nat
      <4> SUFFICES ASSUME NEW k \in 0 .. N + 1 PROVE (IF k = N + 1 THEN E + h ELSE e[k]) \in Nat
        OBVIOUS
      <4>1. CASE k = N + 1
        BY <1>4, <1>10, <4>1
      <4>2. CASE k # N + 1
        <5>1. k \in 0 .. N
          BY <1>6, <4>2
        <5> QED BY <1>9, <4>2, <5>1
      <4> QED BY <4>1, <4>2
    <3> QED BY <1>11, <3>1
  <2>2. ASSUME NEW m \in 1 .. N + 1 PROVE e2[m] = e2[m - 1] + Len(Encode(s2[m]))
    <3>1. CASE m = N + 1
      BY <1>2, <1>6, <1>10, <1>12, <1>13, <3>1
    <3>2. CASE m # N + 1
      <4>1. m \in 1 .. N /\ m \in 0 .. N /\ m - 1 \in 0 .. N
        BY <1>12, <3>2
      <4>2. e2[m] = e[m] /\ e2[m - 1] = e[m - 1] /\ s2[m] = s[m]
        BY <1>6, <1>13, <4>1
      <4>3. e[m] = e[m - 1] + Len(Encode(s[m]))
        BY <1>9, <4>1
      <4> QED BY <4>2, <4>3
    <3> QED BY <3>1, <3>2
  <2> QED BY <1>6, <1>9, <1>12, <1>13, <2>1, <2>2 DEF Ends
<1>15. FitsOf(fit2, s2)
  <2>1. PICK S, T : S = Seq(Byte) /\ T = Seq(S)
    OBVIOUS
  <2>2. (\A k \in 0 .. N : fit[k] \in T) /\ fit[0] = Nothing /\ \A m \in 1 .. N : fit[m] = Kept(fit[m - 1], s[m])
    BY <1>5, <1>8, <2>1 DEF FitsOf
  <2>3. Kept(fit[N], f) \in T
    <3>1. PICK a : a = fit[N]
      OBVIOUS
    <3>2. a \in Seq(S) /\ f \in S
      BY <1>4, <1>12, <2>1, <2>2, <3>1
    <3>3. Append(a, f) \in Seq(S)
      BY <3>2
    <3> QED BY <2>1, <3>1, <3>2, <3>3 DEF Kept
  <2>4. fit2 \in [0 .. N + 1 -> T]
    <3>1. \A k \in 0 .. N + 1 : (IF k = N + 1 THEN Kept(fit[N], f) ELSE fit[k]) \in T
      <4> SUFFICES ASSUME NEW k \in 0 .. N + 1 PROVE (IF k = N + 1 THEN Kept(fit[N], f) ELSE fit[k]) \in T
        OBVIOUS
      <4>1. CASE k = N + 1
        BY <2>3, <4>1
      <4>2. CASE k # N + 1
        <5>1. k \in 0 .. N
          BY <1>6, <4>2
        <5> QED BY <2>2, <4>2, <5>1
      <4> QED BY <4>1, <4>2
    <3> QED BY <1>11, <3>1
  <2>5. ASSUME NEW m \in 1 .. N + 1 PROVE fit2[m] = Kept(fit2[m - 1], s2[m])
    <3>1. CASE m = N + 1
      BY <1>6, <1>12, <1>13, <3>1
    <3>2. CASE m # N + 1
      <4>1. m \in 1 .. N /\ m \in 0 .. N /\ m - 1 \in 0 .. N
        BY <1>12, <3>2
      <4>2. fit2[m] = fit[m] /\ fit2[m - 1] = fit[m - 1] /\ s2[m] = s[m]
        BY <1>6, <1>13, <4>1
      <4> QED BY <2>2, <4>1, <4>2
    <3> QED BY <3>1, <3>2
  <2>6. fit2[0] = Nothing
    BY <1>12, <1>13, <2>2
  <2> QED BY <1>6, <2>1, <2>4, <2>5, <2>6 DEF FitsOf
<1>16. Stream(s2, e2, fit2)
  BY <1>6, <1>14, <1>15, SentStream
<1>17. /\ z \in Nat /\ z + L <= E
       /\ \A i \in 1 .. L : /\ p[i] \in Nat /\ z + i <= p[i] /\ p[i] <= E - (L - i)
                            /\ \E m \in 1 .. N : Belongs(p[i], m, l[i], e, s)
       /\ \A i, j \in 1 .. L : i <= j => p[j] - p[i] >= j - i
       /\ n \in 0 .. N /\ (n = 0 => z = 0) /\ (n > 0 => e[n - 1] < z /\ z <= e[n])
       /\ c \in Nat /\ faults = c + (E - z - L)
  BY <1>1, <1>5, <1>10 DEF OnLine, Place, Where
<1>18. PICK q : q = [i \in 1 .. L + h |-> IF i <= L THEN p[i] ELSE E + (i - L)]
  OBVIOUS
<1>19. /\ \A i \in 1 .. L : q[i] = p[i]
       /\ \A i \in 1 .. h : L + i \in 1 .. L + h /\ q[L + i] = E + i
       /\ \A i \in 1 .. L + h : i \in 1 .. L \/ \E j \in 1 .. h : i = L + j
  <2>1. \A i \in 1 .. L : i \in 1 .. L + h /\ i <= L
    BY <1>4, <1>7
  <2>2. \A i \in 1 .. h : L + i \in 1 .. L + h /\ ~ (L + i <= L) /\ (L + i) - L = i
    BY <1>4, <1>7
  <2>3. ASSUME NEW i \in 1 .. L + h, i \notin 1 .. L PROVE \E j \in 1 .. h : i = L + j
    <3>1. i - L \in 1 .. h /\ i = L + (i - L)
      BY <1>4, <1>7, <2>3
    <3> QED BY <3>1
  <2> QED BY <1>18, <2>1, <2>2, <2>3
<1>20. Place(q, z, e2, s2, l2)
  <2>1. ASSUME NEW i \in 1 .. L
        PROVE  /\ q[i] \in Nat /\ z + i <= q[i] /\ q[i] <= (E + h) - ((L + h) - i)
               /\ \E m \in 1 .. N + 1 : Belongs(q[i], m, l2[i], e2, s2)
    <3>1. q[i] = p[i] /\ p[i] \in Nat /\ z + i <= p[i] /\ p[i] <= E - (L - i) /\ l2[i] = l[i]
      BY <1>7, <1>17, <1>19
    <3>2. (E + h) - ((L + h) - i) = E - (L - i)
      BY <1>4, <1>7
    <3>3. PICK m \in 1 .. N : Belongs(p[i], m, l[i], e, s)
      BY <1>17
    <3>4. m \in 0 .. N /\ m - 1 \in 0 .. N /\ m \in 1 .. N + 1
      BY <1>6
    <3>5. e2[m] = e[m] /\ e2[m - 1] = e[m - 1] /\ s2[m] = s[m]
      BY <1>6, <1>13, <3>4
    <3>6. Belongs(q[i], m, l2[i], e2, s2)
      BY <3>1, <3>3, <3>5 DEF Belongs
    <3> QED BY <3>1, <3>2, <3>4, <3>6
  <2>2. ASSUME NEW j \in 1 .. h
        PROVE  /\ q[L + j] \in Nat /\ z + (L + j) <= q[L + j] /\ q[L + j] <= (E + h) - ((L + h) - (L + j))
               /\ \E m \in 1 .. N + 1 : Belongs(q[L + j], m, l2[L + j], e2, s2)
    <3>1. q[L + j] = E + j /\ l2[L + j] = g[j]
      BY <1>7, <1>19
    <3>2. E + j \in Nat /\ z + (L + j) <= E + j /\ E + j <= (E + h) - ((L + h) - (L + j))
      <4>1. z \in Nat /\ z + L <= E /\ L \in Nat /\ h \in Nat
        BY <1>4, <1>7, <1>17
      <4> QED BY <4>1
    <3>3. e2[N] = E /\ e2[N + 1] = E + h /\ s2[N + 1] = f
      BY <1>6, <1>10, <1>12, <1>13
    <3>4. E < E + j /\ E + j <= E + h /\ (E + j) - E = j
      BY <1>4
    <3>5. Belongs(E + j, N + 1, g[j], e2, s2)
      BY <1>2, <1>12, <3>3, <3>4 DEF Belongs
    <3> QED BY <1>12, <3>1, <3>2, <3>5
  <2>3. ASSUME NEW i \in 1 .. L + h
        PROVE  /\ q[i] \in Nat /\ z + i <= q[i] /\ q[i] <= (E + h) - ((L + h) - i)
               /\ \E m \in 1 .. N + 1 : Belongs(q[i], m, l2[i], e2, s2)
    BY <1>19, <2>1, <2>2
  <2>4. ASSUME NEW i \in 1 .. L + h, NEW j \in 1 .. L + h, i <= j PROVE q[j] - q[i] >= j - i
    <3>1. CASE i \in 1 .. L /\ j \in 1 .. L
      BY <1>17, <1>19, <2>4, <3>1
    <3>2. ASSUME NEW k \in 1 .. h, j = L + k, i \in 1 .. L PROVE q[j] - q[i] >= j - i
      <4>1. q[j] = E + k /\ q[i] = p[i] /\ p[i] \in Nat /\ p[i] <= E - (L - i)
        BY <1>17, <1>19, <3>2
      <4>2. PICK a \in Nat : a = p[i]
        BY <4>1
      <4>3. a <= E - (L - i)
        BY <4>1, <4>2
      <4>4. (E + k) - a >= (L + k) - i
        BY <1>7, <4>3
      <4> QED BY <3>2, <4>1, <4>2, <4>4
    <3>3. ASSUME NEW k \in 1 .. h, j = L + k, NEW k2 \in 1 .. h, i = L + k2 PROVE q[j] - q[i] >= j - i
      <4>1. q[j] = E + k /\ q[i] = E + k2
        BY <1>19, <3>3
      <4>2. (E + k) - (E + k2) >= (L + k) - (L + k2)
        BY <1>4, <1>7
      <4> QED BY <3>3, <4>1, <4>2
    <3>4. ASSUME NEW k \in 1 .. h, i = L + k, j \in 1 .. L PROVE FALSE
      BY <1>4, <1>7, <2>4, <3>4
    <3>5. (i \in 1 .. L \/ \E k \in 1 .. h : i = L + k) /\ (j \in 1 .. L \/ \E k \in 1 .. h : j = L + k)
      BY <1>19
    <3> QED BY <3>1, <3>2, <3>3, <3>4, <3>5
  <2>5. z + (L + h) <= E + h
    BY <1>4, <1>7, <1>17
  <2>6. e2[Len(s2)] = E + h
    BY <1>6, <1>13
  <2> QED BY <1>6, <1>7, <1>17, <2>3, <2>4, <2>5, <2>6 DEF Place
<1>21. OnLine(e2, q, z, n, c, s2, l2, faults)
  <2>1. n \in 0 .. N + 1 /\ (n > 0 => n - 1 \in 0 .. N /\ n \in 0 .. N) /\ n \in Nat
    BY <1>6, <1>17
  <2>2. Where(n, z, e2, s2)
    BY <1>6, <1>13, <1>17, <2>1 DEF Where
  <2>3. faults = c + ((E + h) - z - (L + h))
    BY <1>4, <1>7, <1>17
  <2> QED BY <1>6, <1>7, <1>13, <1>17, <1>20, <2>2, <2>3 DEF OnLine
<1>22. State(e2, fit2, s2, n, z, c)
  <2>1. n \in 0 .. N /\ (n # 0 => n \in 1 .. N /\ n - 1 \in 0 .. N)
    BY <1>6, <1>17
  <2>2. fit2[n] = fit[n] /\ (n # 0 => fit2[n - 1] = fit[n - 1] /\ s2[n] = s[n] /\ e2[n - 1] = e[n - 1])
    BY <1>6, <1>13, <2>1
  <2> QED BY <1>1, <2>2, StateOf
<1>23. State(e2, fit2, s2, n, z, c)'
  BY <1>3, <1>22, StateSame
<1>24. faults \in Nat /\ delivered' \in Seq(Seq(Byte))
  BY <1>3 DEF FrameInv, HistoryOK
<1>25. s2 = sent' /\ l2 = line' /\ faults' = faults
  BY <1>3, <1>5
<1> QED BY <1>6, <1>16, <1>21, <1>23, <1>24, <1>25, Resume

\* A sequence without its k-th element.
LEMMA Without ==
    ASSUME NEW S, NEW l \in Seq(S), NEW k \in 1 .. Len(l)
    PROVE  LET l2 == SubSeq(l, 1, k - 1) \o SubSeq(l, k + 1, Len(l))
           IN /\ Len(l2) = Len(l) - 1
              /\ \A i \in 1 .. Len(l) - 1 : l2[i] = IF i < k THEN l[i] ELSE l[i + 1]
<1>1. PICK L \in Nat : L = Len(l)
  OBVIOUS
<1>2. PICK a, b : a = SubSeq(l, 1, k - 1) /\ b = SubSeq(l, k + 1, L)
  OBVIOUS
<1>3. k \in 1 .. L /\ k - 1 \in 0 .. L /\ k + 1 \in 1 .. L + 1 /\ L \in 0 .. L
  BY <1>1
<1>4. a \in Seq(S) /\ Len(a) = k - 1 /\ \A i \in 1 .. k - 1 : a[i] = l[i]
  <2>1. a \in Seq(S) /\ Len(a) = k - 1
    BY <1>1, <1>2, <1>3
  <2>2. \A i \in 1 .. k - 1 : a[i] = l[i]
    BY <1>1, <1>2, <1>3
  <2> QED BY <2>1, <2>2
<1>5. b \in Seq(S) /\ Len(b) = L - k /\ \A i \in 1 .. L - k : b[i] = l[k + i]
  <2>1. b \in Seq(S) /\ Len(b) = L - k
    BY <1>1, <1>2, <1>3
  <2>2. \A i \in 1 .. L - k : b[i] = l[k + i]
    BY <1>1, <1>2, <1>3
  <2> QED BY <2>1, <2>2
<1>6. PICK l2 : l2 = a \o b
  OBVIOUS
<1>7. /\ Len(l2) = Len(a) + Len(b) /\ \A i \in 1 .. Len(a) : l2[i] = a[i]
      /\ \A i \in 1 .. Len(b) : l2[Len(a) + i] = b[i]
  <2>1. a \in Seq(S) /\ b \in Seq(S)
    BY <1>4, <1>5
  <2>2. /\ Len(a \o b) = Len(a) + Len(b) /\ (\A i \in 1 .. Len(a) : (a \o b)[i] = a[i])
        /\ \A i \in 1 .. Len(b) : (a \o b)[Len(a) + i] = b[i]
    BY <2>1, Joining
  <2> QED BY <1>6, <2>2
<1>8. Len(l2) = L - 1
  BY <1>3, <1>4, <1>5, <1>7
<1>9. ASSUME NEW i \in 1 .. L - 1 PROVE l2[i] = IF i < k THEN l[i] ELSE l[i + 1]
  <2>1. CASE i < k
    <3>1. i \in 1 .. k - 1
      BY <1>3, <2>1
    <3> QED BY <1>4, <1>7, <2>1, <3>1
  <2>2. CASE ~ (i < k)
    <3>1. PICK j : j = i - (k - 1)
      OBVIOUS
    <3>2. j \in 1 .. L - k /\ (k - 1) + j = i /\ k + j = i + 1
      BY <1>3, <2>2, <3>1
    <3>3. l2[(k - 1) + j] = b[j] /\ b[j] = l[k + j]
      BY <1>4, <1>5, <1>7, <3>2
    <3> QED BY <2>2, <3>2, <3>3
  <2> QED BY <2>1, <2>2
<1> QED BY <1>1, <1>2, <1>6, <1>8, <1>9

\* A byte is lost (LoseByte).
LEMMA Losing ==
    ASSUME FrameInv, TypesOK, LoseByte
    PROVE  FrameInv'
<1>1. PICK s, l, e, fit, p, z, n, c :
             /\ s = sent /\ l = line /\ l \in Seq(Byte) /\ s \in Seq(Frames) /\ ReaderOK
             /\ Stream(s, e, fit) /\ OnLine(e, p, z, n, c, s, l, faults) /\ State(e, fit, s, n, z, c)
  BY Parsed
<1>2. PICK k \in 1 .. Len(l) : line' = SubSeq(l, 1, k - 1) \o SubSeq(l, k + 1, Len(l))
  BY <1>1 DEF LoseByte
<1>3. sent' = s /\ UNCHANGED reader /\ delivered' = delivered /\ faults' = faults + 1
  BY <1>1 DEF LoseByte
<1>4. PICK N, L, l2 : N = Len(s) /\ L = Len(l) /\ l2 = line'
  OBVIOUS
<1>5. /\ L \in Nat /\ k \in 1 .. L /\ Len(l2) = L - 1
      /\ \A i \in 1 .. L - 1 : l2[i] = IF i < k THEN l[i] ELSE l[i + 1]
  <2>1. PICK S : S = Byte
    OBVIOUS
  <2>2. l \in Seq(S)
    BY <1>1, <2>1
  <2>3. PICK t : t = SubSeq(l, 1, k - 1) \o SubSeq(l, k + 1, Len(l))
    OBVIOUS
  <2>4. Len(t) = Len(l) - 1 /\ \A i \in 1 .. Len(l) - 1 : t[i] = IF i < k THEN l[i] ELSE l[i + 1]
    BY <2>2, <2>3, Without, ZenonT(30)
  <2>5. L \in Nat /\ k \in 1 .. L
    BY <1>1, <1>4
  <2>6. t = l2
    BY <1>2, <1>4, <2>3
  <2> QED BY <1>4, <2>4, <2>5, <2>6
<1>6. s \in Seq(Seq(Byte)) /\ Ends(e, s) /\ FitsOf(fit, s)
  BY <1>1 DEF Stream
<1>7. PICK E \in Nat : E = e[N]
  <2>1. N \in Nat /\ \A j \in 0 .. N : e[j] \in Nat
    BY <1>4, <1>6, EndsGrow
  <2>2. N \in 0 .. N
    BY <2>1
  <2> QED BY <2>1, <2>2
<1>8. /\ z \in Nat /\ z + L <= E
      /\ \A i \in 1 .. L : /\ p[i] \in Nat /\ z + i <= p[i] /\ p[i] <= E - (L - i)
                           /\ \E m \in 1 .. N : Belongs(p[i], m, l[i], e, s)
      /\ \A i, j \in 1 .. L : i <= j => p[j] - p[i] >= j - i
      /\ Where(n, z, e, s) /\ c \in Nat /\ faults = c + (E - z - L)
  BY <1>1, <1>4, <1>7 DEF OnLine, Place
<1>9. PICK at : at = [i \in 1 .. L - 1 |-> IF i < k THEN i ELSE i + 1]
  OBVIOUS
<1>10. /\ \A i \in 1 .. L - 1 : at[i] \in 1 .. L /\ i <= at[i] /\ at[i] <= i + 1 /\ l2[i] = l[at[i]]
       /\ \A i, j \in 1 .. L - 1 : i <= j => at[i] <= at[j] /\ at[j] - at[i] >= j - i
  <2>1. \A i \in 1 .. L - 1 : at[i] = IF i < k THEN i ELSE i + 1
    BY <1>9
  <2>2. ASSUME NEW i \in 1 .. L - 1 PROVE at[i] \in 1 .. L /\ i <= at[i] /\ at[i] <= i + 1 /\ l2[i] = l[at[i]]
    <3>1. at[i] = (IF i < k THEN i ELSE i + 1) /\ l2[i] = IF i < k THEN l[i] ELSE l[i + 1]
      BY <1>5, <2>1
    <3> QED BY <1>5, <3>1
  <2>3. ASSUME NEW i \in 1 .. L - 1, NEW j \in 1 .. L - 1, i <= j PROVE at[i] <= at[j] /\ at[j] - at[i] >= j - i
    <3>1. at[i] = (IF i < k THEN i ELSE i + 1) /\ at[j] = IF j < k THEN j ELSE j + 1
      BY <2>1
    <3> QED BY <1>5, <2>3, <3>1
  <2> QED BY <2>2, <2>3
<1>11. PICK q : q = [i \in 1 .. L - 1 |-> p[at[i]]]
  OBVIOUS
<1>12. Place(q, z, e, s, l2)
  <2>1. ASSUME NEW i \in 1 .. L - 1
        PROVE  /\ q[i] \in Nat /\ z + i <= q[i] /\ q[i] <= E - ((L - 1) - i)
               /\ \E m \in 1 .. N : Belongs(q[i], m, l2[i], e, s)
    <3>1. PICK a \in 1 .. L : a = at[i]
      BY <1>10
    <3>2. q[i] = p[a] /\ l2[i] = l[a] /\ i <= a /\ a <= i + 1
      BY <1>10, <1>11, <3>1
    <3>3. PICK x \in Nat : x = p[a]
      BY <1>8
    <3>4. z + a <= x /\ x <= E - (L - a)
      BY <1>8, <3>3
    <3>5. z + i <= x /\ x <= E - ((L - 1) - i)
      <4>1. z \in Nat /\ L \in Nat
        BY <1>5, <1>8
      <4> QED BY <3>2, <3>4, <4>1
    <3>6. \E m \in 1 .. N : Belongs(p[a], m, l[a], e, s)
      BY <1>8
    <3> QED BY <3>2, <3>3, <3>5, <3>6
  <2>2. ASSUME NEW i \in 1 .. L - 1, NEW j \in 1 .. L - 1, i <= j PROVE q[j] - q[i] >= j - i
    <3>1. PICK a \in 1 .. L, b \in 1 .. L : a = at[i] /\ b = at[j]
      BY <1>10
    <3>2. q[i] = p[a] /\ q[j] = p[b] /\ a <= b /\ b - a >= j - i
      BY <1>10, <1>11, <2>2, <3>1
    <3>3. PICK x \in Nat, y \in Nat : x = p[a] /\ y = p[b]
      BY <1>8
    <3>4. y - x >= b - a
      BY <1>8, <3>2, <3>3
    <3>5. y - x >= j - i
      BY <3>2, <3>4
    <3> QED BY <3>2, <3>3, <3>5
  <2>3. z \in Nat /\ z + (L - 1) <= E
    BY <1>5, <1>8
  <2> QED BY <1>4, <1>5, <1>7, <2>1, <2>2, <2>3 DEF Place
<1>13. OnLine(e, q, z, n, c, s, l2, faults')
  <2>1. faults + 1 = c + (E - z - (L - 1))
    <3>1. PICK x : x = faults
      OBVIOUS
    <3>2. x = c + (E - z - L) /\ c \in Nat /\ z \in Nat /\ L \in Nat
      BY <1>5, <1>8, <3>1
    <3>3. x + 1 = c + (E - z - (L - 1))
      BY <3>2
    <3> QED BY <3>1, <3>3
  <2> QED BY <1>3, <1>4, <1>5, <1>7, <1>8, <1>12, <2>1 DEF OnLine
<1>14. State(e, fit, s, n, z, c)'
  BY <1>1, <1>3, StateSame
<1>15. HistoryOK'
  <2>1. sent' = sent
    BY <1>1, <1>3
  <2> QED BY <1>3, <2>1 DEF FrameInv, HistoryOK
<1>16. Ends(e, sent') /\ FitsOf(fit, sent')
  BY <1>3, <1>6
<1>17. OnLine(e, q, z, n, c, sent', line', faults')
  BY <1>3, <1>4, <1>13
<1>18. State(e, fit, sent, n, z, c)'
  BY <1>1, <1>3, <1>14 DEF State, Exact
<1> QED BY <1>15, <1>16, <1>17, <1>18 DEF FrameInv

\* Nothing happens.
LEMMA Idle ==
    ASSUME FrameInv, UNCHANGED vars
    PROVE  FrameInv'
<1>1. sent' = sent /\ line' = line /\ faults' = faults /\ delivered' = delivered /\ UNCHANGED reader
  BY DEF vars
<1>2. PICK s : s = sent
  OBVIOUS
<1>3. PICK e, fit : /\ Ends(e, s) /\ FitsOf(fit, s)
                    /\ \E p, z, n, c : OnLine(e, p, z, n, c, s, line, faults) /\ State(e, fit, s, n, z, c)
  BY <1>2 DEF FrameInv
<1>4. PICK p, z, n, c : OnLine(e, p, z, n, c, s, line, faults) /\ State(e, fit, s, n, z, c)
  BY <1>3
<1>5. State(e, fit, s, n, z, c)'
  BY <1>1, <1>4, StateSame
<1>6. State(e, fit, sent, n, z, c)'
  BY <1>1, <1>2, <1>5 DEF State, Exact
<1>7. HistoryOK'
  BY <1>1 DEF FrameInv, HistoryOK
<1>8. Ends(e, sent') /\ FitsOf(fit, sent') /\ OnLine(e, p, z, n, c, sent', line', faults')
  BY <1>1, <1>2, <1>3, <1>4
<1> QED BY <1>6, <1>7, <1>8 DEF FrameInv

LEMMA FrameStep ==
    ASSUME FrameInv, TypesOK, [Next]_vars
    PROVE  FrameInv'
<1>1. ASSUME NEW f \in Frames, Send(f) PROVE FrameInv'
  BY <1>1, Sending
<1>2. CASE LoseByte
  BY <1>2, Losing
<1>3. CASE UnexpectedStart
  BY <1>3, StartStep
<1>4. CASE EscapeAlone
  BY <1>4, EscapeStep
<1>5. CASE ReadFirst
  BY <1>5, FirstStep
<1>6. CASE ReadByte
  BY <1>6, ByteStep
<1>7. CASE ReadEscaped
  BY <1>7, PairStep
<1>8. CASE UNCHANGED vars
  BY <1>8, Idle
<1> QED BY <1>1, <1>2, <1>3, <1>4, <1>5, <1>6, <1>7, <1>8 DEF Next

\* The last of the frames that fit is Fitting.
LEMMA FitsSent ==
    ASSUME NEW s \in Seq(Seq(Byte)), s = sent, NEW fit, FitsOf(fit, s)
    PROVE  Fitting = fit[Len(s)]
<1>0. PICK T, N : T = Seq(Seq(Byte)) /\ N = Len(s)
  OBVIOUS
<1>1. PICK g \in [0 .. N -> T] :
         /\ g[0] = <<>> /\ (\A k \in 1 .. N : g[k] = IF Fits(s[k]) THEN Append(g[k - 1], s[k]) ELSE g[k - 1])
         /\ Fitting = g[N]
  BY <1>0, Fittings
<1>2. g[0] = Nothing /\ \A k \in 1 .. N : g[k] = Kept(g[k - 1], s[k])
  BY <1>1 DEF Nothing, Kept
<1>3. fit \in [0 .. N -> T] /\ fit[0] = Nothing /\ \A k \in 1 .. N : fit[k] = Kept(fit[k - 1], s[k])
  BY <1>0 DEF FitsOf
<1>4. N \in Nat
  BY <1>0
<1>5. /\ DOMAIN g = 0 .. N /\ DOMAIN fit = 0 .. N
      /\ g = [k \in DOMAIN g |-> g[k]] /\ fit = [k \in DOMAIN fit |-> fit[k]]
  BY <1>1, <1>3
<1>6. fit[0] = g[0] /\ \A k \in 1 .. N : fit[k - 1] = g[k - 1] => fit[k] = g[k]
  BY <1>2, <1>3
<1>7. fit = g
  BY <1>4, <1>5, <1>6, Same
<1> QED BY <1>0, <1>1, <1>7


\* The invariant bounds the frames missing.
LEMMA FewLostNow ==
    ASSUME FrameInv, TypesOK
    PROVE  FewLost
<1> SUFFICES ASSUME line = <<>> PROVE Len(Fitting) - Len(delivered) <= 2 * faults
  BY DEF FewLost
<1>1. PICK s, l, e, fit, p, z, n, c :
             /\ s = sent /\ l = line /\ l \in Seq(Byte) /\ s \in Seq(Frames) /\ ReaderOK
             /\ Stream(s, e, fit) /\ OnLine(e, p, z, n, c, s, l, faults) /\ State(e, fit, s, n, z, c)
  BY Parsed
<1>2. s \in Seq(Seq(Byte)) /\ Ends(e, s) /\ FitsOf(fit, s)
  BY <1>1 DEF Stream
<1>3. Fitting = fit[Len(s)]
  BY <1>1, <1>2, FitsSent
<1>4. PICK N \in Nat, E \in Nat : N = Len(s) /\ E = e[N]
  <2>1. Len(s) \in Nat /\ \A j \in 0 .. Len(s) : e[j] \in Nat
    BY <1>2, EndsGrow
  <2>2. Len(s) \in 0 .. Len(s)
    BY <2>1
  <2> QED BY <2>1, <2>2
<1>5. z \in Nat /\ Where(n, z, e, s) /\ c \in Nat /\ faults = c + (E - z)
  <2>1. z \in Nat /\ Where(n, z, e, s) /\ c \in Nat /\ faults = c + (E - z - Len(l))
    BY <1>1, <1>4 DEF OnLine, Place
  <2>2. Len(l) = 0
    BY <1>1
  <2>3. E - z - 0 = E - z
    BY <1>4, <2>1
  <2> QED BY <2>1, <2>2, <2>3
<1>6. n \in 0 .. N /\ (n = 0 => z = 0) /\ (n > 0 => z <= e[n])
  BY <1>4, <1>5 DEF Where
<1>7. PICK D \in Nat, F \in Nat : D = Len(delivered) /\ F = Len(Fitting)
  BY <1>1, <1>2, <1>3, FitGrows DEF ReaderOK
<1> DEFINE Near(m) == Len(fit[m]) <= 2 * c + D /\ E - z >= N - m
<1>8. ASSUME NEW m \in 0 .. N, Near(m)
      PROVE  F - D <= 2 * faults
  <2>1. First(fit[m], fit[N], N - m) /\ Len(fit[m]) \in Nat
    <3>1. N \in 0 .. N
      BY <1>4
    <3> QED BY <1>2, <1>4, <3>1, FitGrows
  <2>2. PICK a \in Nat : a = Len(fit[m])
    BY <2>1
  <2>3. F <= a + (N - m)
    BY <1>3, <1>4, <1>7, <2>1, <2>2 DEF First
  <2>4. F - D <= 2 * (c + (E - z))
    <3>1. c \in Nat /\ z \in Nat /\ a <= 2 * c + D
      BY <1>5, <1>8, <2>2
    <3>2. PICK y : y = E - z
      OBVIOUS
    <3>3. y \in Int /\ y >= N - m /\ N - m >= 0
      BY <1>8, <3>1, <3>2
    <3> QED BY <2>3, <3>1, <3>2, <3>3
  <2> QED BY <1>5, <2>4
<1>9. ASSUME Sync(fit, n, c) \/ Off(fit, n, c) PROVE \E m \in 0 .. N : Near(m)
  <2>1. Len(fit[n]) <= 2 * c + D
    <3>1. n \in 0 .. Len(s)
      BY <1>4, <1>6
    <3>2. PICK a \in Nat : a = Len(fit[n])
      BY <1>2, <3>1, FitGrows
    <3>3. a <= 2 * c + D \/ a + 1 <= 2 * c + D
      BY <1>7, <1>9, <3>2 DEF Sync, Off
    <3>4. c \in Nat
      BY <1>5
    <3> QED BY <3>2, <3>3, <3>4
  <2>2. E - z >= N - n
    <3>1. e[n] \in Nat /\ E - e[n] >= N - n
      <4>1. N \in 0 .. N
        BY <1>4
      <4> QED BY <1>2, <1>4, <1>6, <4>1, EndsGrow
    <3>2. z <= e[n]
      BY <1>5, <1>6, <3>1
    <3>3. PICK a \in Nat : a = e[n]
      BY <3>1
    <3> QED BY <1>4, <1>5, <1>6, <3>1, <3>2, <3>3
  <2>3. Near(n)
    BY <2>1, <2>2
  <2> QED BY <1>6, <2>3
<1>10. ASSUME Exact(e, fit, s, n, z, c) PROVE \E m \in 0 .. N : Near(m)
  <2>1. n - 1 \in 0 .. N /\ n \in 1 .. N /\ Len(fit[n - 1]) <= 2 * c + D
    BY <1>6, <1>7, <1>10 DEF Exact
  <2>2. z < e[n]
    <3>1. PICK u, k : k \in 0 .. Len(s[n]) + 2 /\ Places(u, s[n]) /\ AtByte(u, s[n], k, z - e[n - 1])
      BY <1>10 DEF Exact, InFrame
    <3>2. n \in 1 .. Len(s)
      BY <1>4, <2>1
    <3> QED BY <1>1, <1>5, <3>1, <3>2, InsideFrame
  <2>3. E - z >= N - (n - 1)
    <3>1. e[n] \in Nat /\ E - e[n] >= N - n
      <4>1. N \in 0 .. N
        BY <1>4
      <4> QED BY <1>2, <1>4, <1>6, <4>1, EndsGrow
    <3>2. PICK a \in Nat : a = e[n]
      BY <3>1
    <3>3. a - z >= 1 /\ E - a >= N - n /\ n \in Nat
      <4>1. n \in Nat /\ z < a /\ z \in Nat
        BY <1>5, <2>1, <2>2, <3>2
      <4> QED BY <3>1, <3>2, <4>1
    <3>4. z \in Nat
      BY <1>5
    <3> QED BY <3>3, <3>4
  <2>4. Near(n - 1)
    BY <2>1, <2>3
  <2> QED BY <2>1, <2>4
<1> HIDE DEF Near
<1>11. \E m \in 0 .. N : Near(m)
  BY <1>1, <1>9, <1>10 DEF State
<1>12. F - D <= 2 * faults
  BY <1>8, <1>11
<1> QED BY <1>7, <1>12

\* What begins b is a part of it.
LEMMA Beginning ==
    ASSUME NEW S, NEW a \in Seq(S), NEW b \in Seq(S), NEW d, First(a, b, d)
    PROVE  Len(a) <= Len(b) /\ a = SubSeq(b, 1, Len(a))
<1>1. PICK x \in Nat, y \in Nat : x = Len(a) /\ y = Len(b)
  OBVIOUS
<1>2. x <= y /\ \A i \in 1 .. x : b[i] = a[i]
  BY <1>1 DEF First
<1>3. PICK t : t = SubSeq(b, 1, x)
  OBVIOUS
<1>4. t \in Seq(S) /\ Len(t) = x /\ \A i \in 1 .. x : t[i] = b[i]
  <2>1. t \in Seq(S) /\ Len(t) = x
    BY <1>1, <1>2, <1>3
  <2>2. \A i \in 1 .. x : t[i] = b[i]
    BY <1>1, <1>2, <1>3
  <2> QED BY <2>1, <2>2
<1>5. a = [i \in 1 .. x |-> a[i]] /\ t = [i \in 1 .. x |-> t[i]]
  BY <1>1, <1>4
<1>6. \A i \in 1 .. x : a[i] = t[i]
  BY <1>2, <1>4
<1>7. a = t
  BY <1>5, <1>6
<1> QED BY <1>1, <1>2, <1>3, <1>7

\* The invariant tells what is delivered.
LEMMA AsSentNow ==
    ASSUME FrameInv, TypesOK, LengthsTold
    PROVE  DeliveredAsSent
<1> SUFFICES ASSUME faults = 0
             PROVE  /\ Len(delivered) <= Len(Fitting) /\ delivered = SubSeq(Fitting, 1, Len(delivered))
                    /\ line = <<>> => delivered = Fitting
  BY DEF DeliveredAsSent
<1>1. PICK s, l, e, fit, p, z, n, c :
             /\ s = sent /\ l = line /\ l \in Seq(Byte) /\ s \in Seq(Frames) /\ ReaderOK
             /\ Stream(s, e, fit) /\ OnLine(e, p, z, n, c, s, l, faults) /\ State(e, fit, s, n, z, c)
  BY Parsed
<1>2. s \in Seq(Seq(Byte)) /\ Ends(e, s) /\ FitsOf(fit, s)
  BY <1>1 DEF Stream
<1>3. Fitting = fit[Len(s)]
  BY <1>1, <1>2, FitsSent
<1>4. PICK N \in Nat, E \in Nat, L \in Nat : N = Len(s) /\ E = e[N] /\ L = Len(l)
  <2>1. Len(s) \in Nat /\ \A j \in 0 .. Len(s) : e[j] \in Nat
    BY <1>2, EndsGrow
  <2>2. Len(s) \in 0 .. Len(s)
    BY <2>1
  <2>3. Len(l) \in Nat
    BY <1>1
  <2> QED BY <2>1, <2>2, <2>3
<1>5. z \in Nat /\ Where(n, z, e, s) /\ c = 0 /\ z + L = E
  <2>1. z \in Nat /\ Where(n, z, e, s) /\ c \in Nat /\ 0 = c + (E - z - L) /\ z + L <= E
    BY <1>1, <1>4 DEF OnLine, Place
  <2>2. PICK x, y : x = c /\ y = z
    OBVIOUS
  <2>3. x \in Nat /\ y \in Nat /\ 0 = x + (E - y - L) /\ y + L <= E
    BY <2>1, <2>2
  <2>4. x = 0 /\ y + L = E
    BY <2>3
  <2> QED BY <2>1, <2>2, <2>4
<1>6. n \in 0 .. N /\ (n = 0 => z = 0) /\ (n > 0 => z <= e[n])
  BY <1>4, <1>5 DEF Where
<1>7. ASSUME NEW m \in 0 .. N, delivered = fit[m]
      PROVE  Len(delivered) <= Len(Fitting) /\ delivered = SubSeq(Fitting, 1, Len(delivered))
  <2>1. PICK S, a, b : S = Seq(Byte) /\ a = fit[m] /\ b = fit[N]
    OBVIOUS
  <2>2. a \in Seq(S) /\ b \in Seq(S) /\ First(a, b, N - m)
    <3>1. N \in 0 .. N
      BY <1>4
    <3> QED BY <1>2, <1>4, <2>1, <3>1, FitGrows
  <2>3. Len(a) <= Len(b) /\ a = SubSeq(b, 1, Len(a))
    BY <2>2, Beginning
  <2> QED BY <1>3, <1>4, <1>7, <2>1, <2>3
<1>8. e[n] \in Nat /\ E - e[n] >= N - n
  <2>1. N \in 0 .. N
    BY <1>4
  <2> QED BY <1>2, <1>4, <1>6, <2>1, EndsGrow
<1>9. CASE Sync(fit, n, c)
  <2>1. delivered = fit[n]
    BY <1>5, <1>9 DEF Sync
  <2>2. ASSUME line = <<>> PROVE n = N
    <3>1. L = 0
      BY <1>1, <1>4, <2>2
    <3>2. z <= e[n]
      BY <1>5, <1>6, <1>8
    <3>3. PICK a \in Nat : a = e[n]
      BY <1>8
    <3> QED BY <1>4, <1>5, <1>6, <1>8, <3>1, <3>2, <3>3
  <2>3. line = <<>> => delivered = Fitting
    BY <1>3, <1>4, <2>1, <2>2
  <2> QED BY <1>6, <1>7, <2>1, <2>3
<1>10. CASE Exact(e, fit, s, n, z, c)
  <2>1. n - 1 \in 0 .. N /\ n \in 1 .. N /\ delivered = fit[n - 1]
    BY <1>5, <1>6, <1>10 DEF Exact
  <2>2. z < e[n]
    <3>1. PICK u, k : k \in 0 .. Len(s[n]) + 2 /\ Places(u, s[n]) /\ AtByte(u, s[n], k, z - e[n - 1])
      BY <1>10 DEF Exact, InFrame
    <3>2. n \in 1 .. Len(s)
      BY <1>4, <2>1
    <3> QED BY <1>1, <1>5, <3>1, <3>2, InsideFrame
  <2>3. line # <<>>
    <3>1. SUFFICES ASSUME line = <<>> PROVE FALSE
      OBVIOUS
    <3>2. L = 0
      BY <1>1, <1>4, <3>1
    <3>3. PICK a \in Nat : a = e[n]
      BY <1>8
    <3> QED BY <1>4, <1>5, <1>6, <1>8, <2>2, <3>2, <3>3
  <2> QED BY <1>7, <2>1, <2>3
<1>11. ~ Off(fit, n, c)
  BY <1>5 DEF Off
<1> QED BY <1>1, <1>9, <1>10, <1>11 DEF State

\* The invariant of the stream and that of the array together.
StreamInv == IInv /\ FrameInv

LEMMA InvTypes == IInv => TypesOK
<1> SUFFICES ASSUME IInv PROVE TypesOK
  OBVIOUS
<1>1. M \in Nat
  BY Constants
<1>2. pos \in 0 .. M + 1 /\ line \in Seq(Byte) /\ frame \in Seq(Byte) /\ escape \in BOOLEAN
  BY DEF IInv, LineOK, NumbersOK, ArrayOK
<1>3. pos \in Nat
  BY <1>1, <1>2
<1> QED BY <1>2, <1>3 DEF TypesOK

LEMMA StreamStep == StreamInv /\ [Next]_vars => StreamInv'
BY StepInv, FrameStep, InvTypes DEF StreamInv

LEMMA StreamKept == Spec => []StreamInv
<1>1. Init => StreamInv
  BY InitInv, FrameInit DEF StreamInv
<1>2. StreamInv /\ [Next]_vars => StreamInv'
  BY StreamStep
<1> QED BY <1>1, <1>2, PTL DEF Spec

\* However many bytes are lost on the line, once it is read empty no more than
\* two frames are missing for each: readPacket finds the start of a frame again
\* at the latest in the frame after the one that lost a byte.
THEOREM LossIsBounded == Spec => []FewLost
<1>1. StreamInv => FewLost
  BY FewLostNow, InvTypes DEF StreamInv
<1> QED BY <1>1, StreamKept, PTL

\* While nothing is lost, readPacket delivers the frames of XBee::send as they
\* were sent, in order, all that fit the array, and by the end of the line all of
\* them.  The reader keeps the low byte of a length only, so each frame sent must
\* have a length of one byte.
THEOREM SentIsDelivered ==
    ASSUME \A f \in Frames : Len(f) < BYTES
    PROVE  Spec => []DeliveredAsSent
<1>1. StreamInv => DeliveredAsSent
  BY AsSentNow, InvTypes DEF StreamInv, LengthsTold
<1> QED BY <1>1, StreamKept, PTL

----------------------------------------------------------------------------
\* The layouts.

Radio == [msb : Word, lsb : Word, my : {n \in Nat : n < 256 * 256}]

\* The array of the reader, which holds all data of a frame.
Array(n) == [0 .. n -> Octet]

\* A shifted number and its last byte.
LEMMA Shifted ==
    ASSUME NEW n \in Nat
    PROVE  Shift(n) \in Nat /\ n % 256 \in Octet /\ n = Shift(n) * 256 + (n % 256)
BY SMT DEF Shift, Octet

\* The four bytes of a half make that half again.
LEMMA HalfBytes ==
    ASSUME NEW n \in Word
    PROVE  /\ Half(n) \in Seq(Octet) /\ Len(Half(n)) = 4
           /\ \A k \in 1 .. 4 : Half(n)[k] \in Octet
           /\ Join(Half(n), 1) = n
<1> DEFINE a == Shift(n)
           b == Shift(a)
           c == Shift(b)
<1>0. n \in Nat /\ n < 256 * 256 * 256 * 256 BY DEF Word
<1>1. a \in Nat /\ n % 256 \in Octet /\ n = a * 256 + (n % 256) BY <1>0, Shifted
<1>2. b \in Nat /\ a % 256 \in Octet /\ a = b * 256 + (a % 256)
  <2> HIDE DEF a
  <2> QED BY <1>1, Shifted
<1>3. c \in Nat /\ b % 256 \in Octet /\ b = c * 256 + (b % 256)
  <2> HIDE DEF b
  <2> QED BY <1>2, Shifted
<1>4. c \in 0 .. 255
  <2> HIDE DEF a, b, c
  <2>1. a < 256 * 256 * 256 BY <1>0, <1>1, SMT DEF Octet
  <2>2. b < 256 * 256 BY <1>1, <1>2, <2>1, SMT DEF Octet
  <2> QED BY <1>2, <1>3, <2>2, SMT DEF Octet
<1>5. c % 256 = c /\ c \in Octet
  <2> HIDE DEF c
  <2> QED BY <1>4, SMT DEF Octet
<1>6. Half(n) = <<c % 256, b % 256, a % 256, n % 256>> BY DEF Half
<1> HIDE DEF a, b, c
<1>7. Half(n) = <<c, b % 256, a % 256, n % 256>> BY <1>5, <1>6
<1> DEFINE B == b % 256
           A == a % 256
           N == n % 256
<1>8. Half(n) = <<c, B, A, N>> BY <1>7
<1>9. c \in Octet /\ B \in Octet /\ A \in Octet /\ N \in Octet BY <1>1, <1>2, <1>3, <1>5
<1>10. n = ((c * 256 + B) * 256 + A) * 256 + N BY <1>1, <1>2, <1>3
<1> HIDE DEF A, B, N
<1>11. Join(Half(n), 1) = ((c * 256 + B) * 256 + A) * 256 + N BY <1>8, SMT DEF Join
<1> QED BY <1>8, <1>9, <1>10, <1>11, SMT

\* Both bytes of a 16-bit address.
LEMMA ShortBytes ==
    ASSUME NEW n \in Nat
    PROVE  Short(n) \in Seq(Octet) /\ Short(n)[1] \in Octet /\ Short(n)[2] \in Octet
<1>1. Shift(n) \in Nat /\ n % 256 \in Octet BY Shifted
<1>2. Shift(n) % 256 \in Octet BY <1>1, Shifted
<1>3. Short(n) \in Seq(Octet) BY <1>1, <1>2 DEF Short
<1> QED BY <1>1, <1>2, <1>3 DEF Short

LEMMA Concatenated ==
    \A s, t \in Seq(Octet) :
        /\ s \o t \in Seq(Octet) /\ Len(s \o t) = Len(s) + Len(t)
        /\ \A k \in 1 .. Len(s) : (s \o t)[k] = s[k]
        /\ \A k \in 1 .. Len(t) : (s \o t)[Len(s) + k] = t[k]
<1> DEFINE S == Octet
<1> SUFFICES ASSUME NEW s \in Seq(S), NEW t \in Seq(S)
             PROVE  /\ s \o t \in Seq(S) /\ Len(s \o t) = Len(s) + Len(t)
                    /\ \A k \in 1 .. Len(s) : (s \o t)[k] = s[k]
                    /\ \A k \in 1 .. Len(t) : (s \o t)[Len(s) + k] = t[k]
  OBVIOUS
<1> HIDE DEF S
<1> QED BY SMT

\* The eight bytes of an address, at its place in any sequence.
LEMMA AddressBytes ==
    ASSUME NEW r \in Radio
    PROVE  /\ Addr64(r) \in Seq(Octet) /\ Len(Addr64(r)) = 8
           /\ Join(Addr64(r), 1) = r.msb /\ Join(Addr64(r), 5) = r.lsb
<1>1. r.msb \in Word /\ r.lsb \in Word BY DEF Radio
<1> DEFINE H == Half(r.msb)
           L == Half(r.lsb)
<1>2. H \in Seq(Octet) /\ L \in Seq(Octet) BY <1>1, HalfBytes
<1>3. H \in Seq(Octet) /\ Len(H) = 4 /\ (\A k \in 1 .. 4 : H[k] \in Octet) /\ Join(H, 1) = r.msb
  BY <1>1, <1>2, HalfBytes
<1>4. L \in Seq(Octet) /\ Len(L) = 4 /\ (\A k \in 1 .. 4 : L[k] \in Octet) /\ Join(L, 1) = r.lsb
  BY <1>1, <1>2, HalfBytes
<1>5. Addr64(r) = H \o L BY DEF Addr64
<1> DEFINE A == H \o L
<1>9. /\ A \in Seq(Octet) /\ Len(A) = Len(H) + Len(L)
      /\ \A k \in 1 .. Len(H) : A[k] = H[k]
      /\ \A k \in 1 .. Len(L) : A[Len(H) + k] = L[k]
  BY <1>2, Concatenated
<1> HIDE DEF A, H, L
<1>6. /\ A \in Seq(Octet) /\ Len(A) = 8
      /\ \A k \in 1 .. 4 : A[k] = H[k]
      /\ \A k \in 1 .. 4 : A[4 + k] = L[k]
  <2>1. Len(H) = 4 /\ Len(L) = 4 BY <1>3, <1>4
  <2> QED BY <1>9, <2>1, SMT
<1>7. Join(A, 1) = Join(H, 1) BY <1>6, SMT DEF Join
<1>8. Join(A, 5) = Join(L, 1)
  <2>1. A[5] = L[1] /\ A[6] = L[2] /\ A[7] = L[3] /\ A[8] = L[4] BY <1>6, SMT
  <2> QED BY <2>1, SMT DEF Join
<1> QED BY <1>3, <1>4, <1>5, <1>6, <1>7, <1>8 DEF A

\* An address in the middle of a sequence.
LEMMA JoinAt ==
    ASSUME NEW s \in Seq(Octet), NEW r \in Radio, NEW t \in Seq(Octet)
    PROVE  LET u == (s \o Addr64(r)) \o t
           IN /\ u \in Seq(Octet) /\ Len(u) = Len(s) + 8 + Len(t)
              /\ \A k \in 1 .. 8 : u[Len(s) + k] = Addr64(r)[k]
              /\ \A k \in 1 .. Len(t) : u[Len(s) + 8 + k] = t[k]
<1> DEFINE A == Addr64(r)
           v == s \o A
           u == v \o t
<1>1. A \in Seq(Octet) /\ Len(A) = 8 BY AddressBytes
<1>2. /\ v \in Seq(Octet) /\ Len(v) = Len(s) + Len(A)
      /\ \A k \in 1 .. Len(A) : v[Len(s) + k] = A[k]
  <2> HIDE DEF A
  <2> QED BY <1>1, Concatenated
<1>3. /\ u \in Seq(Octet) /\ Len(u) = Len(v) + Len(t)
      /\ \A k \in 1 .. Len(v) : u[k] = v[k]
      /\ \A k \in 1 .. Len(t) : u[Len(v) + k] = t[k]
  <2> HIDE DEF v
  <2> QED BY <1>2, Concatenated
<1> HIDE DEF A, v, u
<1>4. Len(s) \in Nat /\ Len(t) \in Nat OBVIOUS
<1>5. Len(v) = Len(s) + 8 BY <1>1, <1>2
<1>6. \A k \in 1 .. 8 : u[Len(s) + k] = A[k]
  <2> TAKE k \in 1 .. 8
  <2>1. Len(s) + k \in 1 .. Len(v) BY <1>4, <1>5, SMT
  <2> QED BY <1>1, <1>2, <1>3, <2>1
<1>7. u = (s \o A) \o t BY DEF u, v
<1>8. Len(u) = Len(s) + 8 + Len(t) /\ \A k \in 1 .. Len(t) : u[Len(s) + 8 + k] = t[k]
  BY <1>3, <1>5
<1> QED BY <1>3, <1>6, <1>7, <1>8 DEF A

\* Where its bytes stand, they make the address.
LEMMA JoinBytes ==
    ASSUME NEW r \in Radio, NEW d, NEW p \in Int, \A k \in 1 .. 8 : d[p + k - 1] = Addr64(r)[k]
    PROVE  Join(d, p) = r.msb /\ Join(d, p + 4) = r.lsb
<1> DEFINE A == Addr64(r)
<1>1. Join(A, 1) = r.msb /\ Join(A, 5) = r.lsb BY AddressBytes
<1>2. \A k \in 1 .. 8 : d[p + k - 1] = A[k] OBVIOUS
<1> HIDE DEF A
<1>3. d[p] = A[1] /\ d[p + 1] = A[2] /\ d[p + 2] = A[3] /\ d[p + 3] = A[4]
  BY <1>2, SMT
<1>4. d[p + 4] = A[5] /\ d[p + 4 + 1] = A[6] /\ d[p + 4 + 2] = A[7] /\ d[p + 4 + 3] = A[8]
  BY <1>2, SMT
<1>5. Join(d, p) = Join(A, 1) BY <1>3, SMT DEF Join
<1>6. Join(d, p + 4) = Join(A, 5) BY <1>4, SMT DEF Join
<1> QED BY <1>1, <1>5, <1>6

----------------------------------------------------------------------------
\* A discovered radio is entered with its own address (scan_XBee_api_devices).
THEOREM Discovery ==
    ASSUME NEW n \in Nat, n >= 13, NEW old \in Array(n), NEW r \in Radio
    PROVE  FoundIsOwn(old, r)
<1> DEFINE s == <<AT_COMMAND_RESPONSE, DEFAULT_FRAME_ID, ND[1], ND[2], SUCCESS, Short(r.my)[1], Short(r.my)[2]>>
           f == DiscoveryFrame(r)
           d == Read(old, f)
           v == AtCommandResponse(d, Len(f)).value
<1>1. s \in Seq(Octet) /\ Len(s) = 7
  <2>1. r.my \in Nat BY DEF Radio
  <2>2. Short(r.my)[1] \in Octet /\ Short(r.my)[2] \in Octet BY <2>1, ShortBytes
  <2>3. /\ AT_COMMAND_RESPONSE \in Octet /\ DEFAULT_FRAME_ID \in Octet /\ SUCCESS \in Octet
        /\ ND[1] \in Octet /\ ND[2] \in Octet
    BY DEF AT_COMMAND_RESPONSE, DEFAULT_FRAME_ID, SUCCESS, ND, Octet
  <2> QED BY <2>2, <2>3
<1>2. f = (s \o Addr64(r)) \o <<>>
  <2>1. s \o Addr64(r) \in Seq(Octet)
    <3> HIDE DEF s
    <3> QED BY <1>1, AddressBytes, Concatenated
  <2>2. f = s \o Addr64(r) BY DEF DiscoveryFrame
  <2> HIDE DEF s, f
  <2> QED BY <2>1, <2>2
<1> HIDE DEF s
<1>3. Len(f) = 15 /\ \A k \in 1 .. 8 : f[7 + k] = Addr64(r)[k]
  <2> HIDE DEF f, d, v
  <2>1. <<>> \in Seq(Octet) /\ Len(<<>>) = 0 OBVIOUS
  <2> DEFINE g == (s \o Addr64(r)) \o <<>>
  <2>2. Len(f) = Len(s) + 8 + Len(<<>>) /\ \A k \in 1 .. 8 : f[Len(s) + k] = Addr64(r)[k]
    <3>1. Len(g) = Len(s) + 8 + Len(<<>>) /\ \A k \in 1 .. 8 : g[Len(s) + k] = Addr64(r)[k]
      BY <1>1, <2>1, JoinAt, ZenonT(60)
    <3>2. f = g BY <1>2
    <3> HIDE DEF g
    <3> QED BY <3>1, <3>2
  <2>3. Len(s) = 7 /\ Len(<<>>) = 0 BY <1>1
  <2>4. Len(f) = 15 BY <2>2, <2>3
  <2>5. \A k \in 1 .. 8 : f[7 + k] = Addr64(r)[k] BY <2>2, <2>3
  <2> QED BY <2>4, <2>5
<1> HIDE DEF f
<1>4. \A k \in 1 .. 8 : d[5 + k] = Addr64(r)[k]
  <2> TAKE k \in 1 .. 8
  <2>1. 5 + k \in DOMAIN old /\ 5 + k + 2 \in 1 .. Len(f) BY <1>3, SMT DEF Array
  <2>2. d[5 + k] = f[5 + k + 2] BY <2>1 DEF Read
  <2> QED BY <1>3, <2>2
<1>5. DataLength(Len(f), 4) = 10 BY <1>3 DEF DataLength
<1>6. v = [k \in 1 .. 10 |-> d[4 + k - 1]] BY <1>5 DEF AtCommandResponse, Bytes
<1> HIDE DEF d
<1>7. \A k \in 1 .. 8 : v[3 + k - 1] = Addr64(r)[k] BY <1>4, <1>6
<1> HIDE DEF v
<1>8. Join(v, 3) = r.msb /\ Join(v, 7) = r.lsb BY <1>7, JoinBytes
<1> QED BY <1>8 DEF FoundIsOwn, FoundAddress, AddressOf, v, d, f

\* A request is heard by the radio it was made for and by no other (ZBTxRequest).
THEOREM Addressing ==
    ASSUME NEW r \in Radio, NEW a \in [msb : Word, lsb : Word], NEW data \in Seq(Octet)
    PROVE  HeardByOwn(r, a, data)
<1> DEFINE ra == [msb |-> a.msb, lsb |-> a.lsb, my |-> 0]
           A == Addr64(a)
           R == Addr64(r)
           S == Short(ZB_BROADCAST_ADDRESS)
           t == S \o <<0, 0>> \o data
           u == ZBTxRequest(a, data)
<1>1. ra \in Radio BY DEF Radio
<1>2. A = Addr64(ra) BY DEF Addr64
<1>3. /\ A \in Seq(Octet) /\ Len(A) = 8 /\ Join(A, 1) = a.msb /\ Join(A, 5) = a.lsb
      /\ R \in Seq(Octet) /\ Len(R) = 8 /\ Join(R, 1) = r.msb /\ Join(R, 5) = r.lsb
  BY <1>1, <1>2, AddressBytes
<1>4. t \in Seq(Octet)
  <2>1. ZB_BROADCAST_ADDRESS \in Nat BY DEF ZB_BROADCAST_ADDRESS
  <2>2. S \in Seq(Octet) BY <2>1, ShortBytes
  <2> HIDE DEF S
  <2>5. <<0, 0>> \in Seq(Octet) BY DEF Octet
  <2>6. S \o <<0, 0>> \in Seq(Octet) BY <2>2, <2>5, Concatenated
  <2> QED BY <2>6, Concatenated
<1>5. u = <<ZB_TX_REQUEST, DEFAULT_FRAME_ID>> \o (A \o t) BY DEF ZBTxRequest, Request
<1> HIDE DEF A, R, S, t, u
<1>6. /\ A \o t \in Seq(Octet) /\ Len(A \o t) = 8 + Len(t) /\ \A k \in 1 .. 8 : (A \o t)[k] = A[k]
  <2>1. /\ A \o t \in Seq(Octet) /\ Len(A \o t) = Len(A) + Len(t)
        /\ \A k \in 1 .. Len(A) : (A \o t)[k] = A[k]
    BY <1>3, <1>4, Concatenated
  <2> QED BY <1>3, <2>1
<1>7. <<ZB_TX_REQUEST, DEFAULT_FRAME_ID>> \in Seq(Octet)
  BY DEF ZB_TX_REQUEST, DEFAULT_FRAME_ID, Octet
<1> DEFINE w == A \o t
           h == <<ZB_TX_REQUEST, DEFAULT_FRAME_ID>>
<1>8. Len(h) = 2 OBVIOUS
<1>9. Len(t) \in Nat BY <1>4
<1> HIDE DEF w, h
<1>10. /\ u \in Seq(Octet) /\ Len(u) = 2 + Len(w) /\ \A k \in 1 .. Len(w) : u[2 + k] = w[k]
  BY <1>5, <1>6, <1>7, <1>8, Concatenated DEF w, h
<1>11. Len(w) >= 8 /\ Len(w) \in Nat BY <1>6, <1>9 DEF w
<1>12. \A k \in 1 .. 8 : u[2 + k] = A[k]
  <2> TAKE k \in 1 .. 8
  <2>1. w[k] = A[k] BY <1>6 DEF w
  <2>2. k \in 1 .. Len(w) BY <1>11
  <2> QED BY <1>10, <2>1, <2>2
<1>13. SubSeq(u, 3, 10) = A
  <2> DEFINE v == SubSeq(u, 3, 10)
  <2>1. v = [k \in 1 .. 8 |-> u[3 + k - 1]] BY <1>10, <1>11, SMT
  <2>2. A = [k \in 1 .. 8 |-> A[k]] BY <1>3
  <2>3. \A k \in 1 .. 8 : u[3 + k - 1] = A[k] BY <1>12, SMT
  <2> QED BY <2>1, <2>2, <2>3
<1>14. ASSUME A = R PROVE a = AddressOf(r)
  <2>1. a.msb = r.msb /\ a.lsb = r.lsb BY <1>3, <1>14
  <2> QED BY <2>1 DEF AddressOf
<1>15. ASSUME a = AddressOf(r) PROVE A = R BY <1>15 DEF A, R, Addr64, AddressOf
<1> QED BY <1>13, <1>14, <1>15 DEF HeardByOwn, Hears, u, R

\* Data is read as it was sent, with the address of who sent it (getZBRxResponse).
THEOREM Receiving ==
    ASSUME NEW n \in Nat, NEW old \in Array(n), NEW r \in Radio,
           NEW data \in Seq(Octet), Len(data) <= 255, Len(data) + 10 <= n
    PROVE  DataIsOwn(old, r, data)
<1> DEFINE A == Addr64(r)
           h == <<Short(r.my)[1], Short(r.my)[2], 1>>
           t == h \o data
           s == <<ZB_RX_RESPONSE>>
           f == ZBRxFrame(r, data)
           d == Read(old, f)
           L == Len(data)
<1>1. L \in Nat /\ L <= 255 /\ L + 10 <= n OBVIOUS
<1>2. s \in Seq(Octet) /\ Len(s) = 1 BY DEF ZB_RX_RESPONSE, Octet
<1>3. h \in Seq(Octet) /\ Len(h) = 3
  <2>1. r.my \in Nat BY DEF Radio
  <2>2. Short(r.my)[1] \in Octet /\ Short(r.my)[2] \in Octet BY <2>1, ShortBytes
  <2>3. 1 \in Octet BY DEF Octet
  <2> QED BY <2>2, <2>3
<1> HIDE DEF h
<1>4. t \in Seq(Octet) /\ Len(t) = 3 + L /\ \A k \in 1 .. L : t[3 + k] = data[k]
  <2>1. /\ t \in Seq(Octet) /\ Len(t) = Len(h) + Len(data)
        /\ \A k \in 1 .. Len(data) : t[Len(h) + k] = data[k]
    BY <1>3, Concatenated
  <2> QED BY <1>3, <2>1
<1>5. f = (s \o A) \o t BY DEF ZBRxFrame, h
<1> HIDE DEF s, t, f
<1>6. /\ Len(f) = Len(s) + 8 + Len(t)
      /\ \A k \in 1 .. 8 : f[Len(s) + k] = A[k]
      /\ \A k \in 1 .. Len(t) : f[Len(s) + 8 + k] = t[k]
  BY <1>2, <1>4, <1>5, JoinAt, ZenonT(60)
<1> HIDE DEF A, L
<1>7. Len(f) = 12 + L BY <1>1, <1>2, <1>4, <1>6
<1>8. \A k \in 1 .. 8 : f[1 + k] = A[k] BY <1>2, <1>6
<1>9. \A k \in 1 .. L : f[12 + k] = data[k]
  <2> TAKE k \in 1 .. L
  <2>1. 3 + k \in 1 .. Len(t) BY <1>1, <1>4
  <2>2. f[1 + 8 + (3 + k)] = t[3 + k] BY <1>2, <1>6, <2>1
  <2>3. 1 + 8 + (3 + k) = 12 + k OBVIOUS
  <2> QED BY <1>4, <2>2, <2>3
<1>10. \A k \in 0 .. 10 + L : d[k] = f[k + 2] \/ k + 2 > Len(f)
  BY <1>1, <1>7 DEF Read, Array
<1> HIDE DEF d
<1>11. \A k \in 1 .. 8 : d[0 + k - 1] = A[k]
  <2> TAKE k \in 1 .. 8
  <2>1. k - 1 \in 0 .. 10 + L /\ k - 1 + 2 = 1 + k /\ ~ (k - 1 + 2 > Len(f)) /\ 0 + k - 1 = k - 1 BY <1>1, <1>7
  <2>2. d[k - 1] = f[k - 1 + 2] BY <1>10, <2>1
  <2>3. f[1 + k] = A[k] BY <1>8
  <2> QED BY <2>1, <2>2, <2>3, Zenon
<1>12. Join(d, 0) = r.msb /\ Join(d, 0 + 4) = r.lsb BY <1>11, JoinBytes DEF A
<1>13. \A k \in 1 .. L : d[11 + k - 1] = data[k]
  <2> TAKE k \in 1 .. L
  <2>1. 11 + k - 1 \in 0 .. 10 + L /\ 11 + k - 1 + 2 = 12 + k /\ ~ (11 + k - 1 + 2 > Len(f)) BY <1>1, <1>7
  <2> QED BY <1>9, <1>10, <2>1
<1>14. DataLength(Len(f), 11) = L BY <1>1, <1>7 DEF DataLength
<1>15. Bytes(d, 11, L) = data
  <2>1. Bytes(d, 11, L) = [k \in 1 .. L |-> d[11 + k - 1]] BY DEF Bytes
  <2>2. data = [k \in 1 .. L |-> data[k]] BY DEF L
  <2> QED BY <1>13, <2>1, <2>2
<1>16. ZBRxResponse(d, Len(f)) = [from |-> AddressOf(r), data |-> data]
  BY <1>12, <1>14, <1>15 DEF ZBRxResponse, RemoteAddress64, AddressOf
<1> QED BY <1>16 DEF DataIsOwn, d, f
==============================================================================
