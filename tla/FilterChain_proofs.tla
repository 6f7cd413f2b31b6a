------------------------- MODULE FilterChain_proofs -------------------------
(***************************************************************************)
(* Proofs about the filters, for all coefficients, all samples, streams of *)
(* every length and every way to cut them into chunks.                     *)
(*                                                                         *)
(* The loops of the code and the filters they are compared with are        *)
(* recursive functions. What such a function is at n follows from what it  *)
(* is at n - 1, by induction over the natural numbers: NatSets, which is   *)
(* derived from the well-foundedness of < on them.                         *)
(***************************************************************************)
EXTENDS FilterChain, SequenceTheorems, WellFoundedInduction, TLAPS

-----------------------------------------------------------------------------
(***************************************************************************)
(* Induction and recursion, for sets and functions.                        *)
(***************************************************************************)

\* Induction: a set with 0 and with the successor of each of its numbers.
LEMMA NatSets ==
  ASSUME NEW S, 0 \in S, \A n \in Nat : n \in S => n + 1 \in S
  PROVE  Nat \subseteq S
<1> DEFINE T == Nat \ S
           Below == OpToRel(<, Nat)
<1>1. SUFFICES ASSUME T # {} PROVE FALSE
  OBVIOUS
<1>2. IsWellFoundedOn(Below, Nat) /\ T \subseteq Nat
  BY NatLessThanWellFounded
<1>3. PICK x \in T : \A y \in T : ~ (<<y, x>> \in Below)
  <2> HIDE DEF T, Below
  <2> QED
    BY <1>1, <1>2, WFMin
<1>4. x \in Nat \ {0} /\ x - 1 \in Nat /\ x - 1 < x
  OBVIOUS
<1>5. <<x - 1, x>> \in Below
  BY <1>4, Zenon DEF OpToRel
<1>6. x - 1 \notin T
  BY <1>3, <1>5
<1> QED
  BY <1>4, <1>6

\* What N steps of a loop do to a state, and a run of the loop.
Steps(N, S) == [1 .. N -> [S -> S]]

IsRun(g, N, S, a, F) ==
  g \in [0 .. N -> S] /\ g[0] = a /\ \A n \in 1 .. N : g[n] = F[n][g[n - 1]]

\* Every loop has a run.
LEMMA Recursion ==
  ASSUME NEW S, NEW a \in S, NEW N \in Nat, NEW F \in Steps(N, S)
  PROVE  \E g : IsRun(g, N, S, a, F)
<1> DEFINE Begun(k) == \E g \in [0 .. k -> S] :
                         g[0] = a /\ \A n \in 1 .. k : g[n] = F[n][g[n - 1]]
           K == {k \in Nat : k <= N => Begun(k)}
<1>0. F \in [1 .. N -> [S -> S]]
  BY DEF Steps
<1>1. 0 \in K
  <2> DEFINE g == [n \in 0 .. 0 |-> a]
  <2>1. g \in [0 .. 0 -> S] /\ g[0] = a /\ \A n \in 1 .. 0 : g[n] = F[n][g[n - 1]]
    OBVIOUS
  <2> QED
    BY <2>1
<1>2. ASSUME NEW k \in Nat, k \in K PROVE k + 1 \in K
  <2> SUFFICES ASSUME k + 1 <= N PROVE Begun(k + 1)
    BY <1>2
  <2>1. PICK g \in [0 .. k -> S] : g[0] = a /\ \A n \in 1 .. k : g[n] = F[n][g[n - 1]]
    BY <1>2
  <2> DEFINE h == [n \in 0 .. k + 1 |-> IF n <= k THEN g[n] ELSE F[k + 1][g[k]]]
  <2>2. F[k + 1][g[k]] \in S
    BY <1>0, <2>1
  <2>3. h \in [0 .. k + 1 -> S] /\ h[0] = a
    BY <2>1, <2>2
  <2>4. \A n \in 1 .. k : h[n] = F[n][h[n - 1]]
    BY <2>1
  <2>5. h[k + 1] = F[k + 1][h[k]]
    OBVIOUS
  <2>6. \A n \in 1 .. k + 1 : n \in 1 .. k \/ n = k + 1
    OBVIOUS
  <2>7. \A n \in 1 .. k + 1 : h[n] = F[n][h[n - 1]]
    <3> HIDE DEF h
    <3>1. TAKE n \in 1 .. k + 1
    <3>2. CASE n \in 1 .. k
      BY <2>4, <3>2
    <3>3. CASE n = k + 1
      <4>1. n - 1 = k
        BY <3>3
      <4> QED
        BY <2>5, <3>3, <4>1, Zenon
    <3> QED
      BY <2>6, <3>2, <3>3
  <2> HIDE DEF h
  <2> QED
    BY <2>3, <2>7
<1> HIDE DEF K
<1>3. Nat \subseteq K
  BY <1>1, <1>2, NatSets
<1> QED
  BY <1>3 DEF K, IsRun

\* Two runs of a loop are the same if each step makes the same of the same.
LEMMA Determined ==
  ASSUME NEW N \in Nat, NEW y, NEW z, y[0] = z[0],
         \A n \in 1 .. N : y[n - 1] = z[n - 1] => y[n] = z[n]
  PROVE  \A n \in 0 .. N : y[n] = z[n]
<1> DEFINE K == {k \in Nat : k <= N => y[k] = z[k]}
<1>1. 0 \in K
  OBVIOUS
<1>2. ASSUME NEW k \in Nat, k \in K PROVE k + 1 \in K
  <2> SUFFICES ASSUME k + 1 <= N PROVE y[k + 1] = z[k + 1]
    OBVIOUS
  <2>1. k + 1 \in 1 .. N /\ (k + 1) - 1 = k /\ k <= N
    OBVIOUS
  <2>2. y[k] = z[k]
    BY <1>2, <2>1
  <2> QED
    BY <2>1, <2>2, Zenon
<1> HIDE DEF K
<1>3. Nat \subseteq K
  BY <1>1, <1>2, NatSets
<1> QED
  BY <1>3 DEF K

-----------------------------------------------------------------------------
(***************************************************************************)
(* The reference: a biquad over a whole stream.                            *)
(***************************************************************************)

Histories == [oldinput : [0 .. 3 -> Int], oldoutput : [0 .. 3 -> Int]]

\* The difference equation for one sample.
Mixed(c, x0, x1, x2, y1, y2) == c.b0 * x0 + c.b1 * x1 + c.b2 * x2 + c.a1 * y1 + c.a2 * y2

\* A biquad makes integers of integers.
LEMMA MixedInt ==
  ASSUME NEW c \in Coefficients, NEW x0 \in Int, NEW x1 \in Int, NEW x2 \in Int,
         NEW y1 \in Int, NEW y2 \in Int
  PROVE  Mixed(c, x0, x1, x2, y1, y2) \in Int
<1>1. c.b0 \in Int /\ c.b1 \in Int /\ c.b2 \in Int /\ c.a1 \in Int /\ c.a2 \in Int
  BY DEF Coefficients
<1> QED
  BY <1>1 DEF Mixed

\* A stream and the silence before it are integers.
LEMMA AtInt == \A x \in Seq(Int) : \A n \in Int : n <= Len(x) => C!At(x, n) \in Int
BY DEF C!At

\* The recursive function in the definition of Direct has the values it names.
LEMMA DirectIs ==
  ASSUME NEW c \in Coefficients, NEW x \in Seq(Int)
  PROVE  /\ C!Direct(c, x) \in Seq(Int) /\ Len(C!Direct(c, x)) = Len(x)
         /\ \A n \in 1 .. Len(x) :
              C!Direct(c, x)[n] = Mixed(c, C!At(x, n), C!At(x, n - 1), C!At(x, n - 2),
                                        C!At(C!Direct(c, x), n - 1), C!At(C!Direct(c, x), n - 2))
<1> DEFINE L == Len(x)
           X(n) == C!At(x, n)
           Pair == Int \X Int
           silence == <<0, 0>>
           Step == [n \in 1 .. L |-> [p \in Pair |->
                  <<Mixed(c, X(n), X(n - 1), X(n - 2), p[1], p[2]), p[1]>>]]
           Value(y, n) == IF n <= 0 THEN 0
                          ELSE c.b0 * X(n) + c.b1 * X(n - 1) + c.b2 * X(n - 2)
                                 + c.a1 * y[n - 1] + c.a2 * y[n - 2]
<1>1. L \in Nat /\ \A n \in 1 .. L : X(n) \in Int /\ X(n - 1) \in Int /\ X(n - 2) \in Int
  BY AtInt
<1> HIDE DEF X, L
<1>2. Step \in Steps(L, Pair)
  BY <1>1, MixedInt DEF Steps
<1>3. silence \in Pair
  OBVIOUS
<1> HIDE DEF Step, Pair, silence
<1>4. PICK g : IsRun(g, L, Pair, silence, Step)
  BY <1>1, <1>2, <1>3, Recursion
<1> USE DEF Pair, silence
<1>5. /\ \A n \in 0 .. L : g[n] \in Pair
      /\ g[0] = <<0, 0>> /\ \A n \in 1 .. L : g[n] = Step[n][g[n - 1]]
  BY <1>4 DEF IsRun
<1>6. ASSUME NEW n \in 1 .. L
      PROVE  /\ g[n][1] = Mixed(c, X(n), X(n - 1), X(n - 2), g[n - 1][1], g[n - 1][2])
             /\ g[n][2] = g[n - 1][1] /\ n - 1 \in 0 .. L
  <2>1. n - 1 \in 0 .. L
    BY <1>1
  <2>2. g[n] = Step[n][g[n - 1]] /\ g[n - 1] \in Pair
    BY <1>5, <2>1, Zenon
  <2>3. Step[n][g[n - 1]] =
          <<Mixed(c, X(n), X(n - 1), X(n - 2), g[n - 1][1], g[n - 1][2]), g[n - 1][1]>>
    BY <2>2, Zenon DEF Step
  <2> QED
    BY <2>1, <2>2, <2>3
<1> DEFINE z == [n \in -1 .. L |-> IF n <= 0 THEN 0 ELSE g[n][1]]
<1>7. z = [n \in -1 .. L |-> Value(z, n)]
  <2>1. \A n \in 0 .. L : z[n] = g[n][1]
    BY <1>1, <1>5
  <2>2. ASSUME NEW n \in 1 .. L PROVE z[n - 2] = g[n - 1][2]
    <3>1. CASE n = 1
      BY <1>1, <1>5, <3>1
    <3>2. CASE n # 1
      <4>1. n - 1 \in 1 .. L /\ (n - 1) - 1 = n - 2 /\ n - 2 \in 0 .. L
        BY <1>1, <3>2
      <4>2. g[n - 1][2] = g[(n - 1) - 1][1]
        BY <1>6, <4>1, Zenon
      <4> HIDE DEF z
      <4> QED
        BY <2>1, <4>1, <4>2
    <3> QED
      BY <3>1, <3>2
  <2>3. ASSUME NEW n \in 1 .. L PROVE z[n] = Value(z, n)
    <3>0. n \in 0 .. L /\ n - 1 \in 0 .. L /\ ~ (n <= 0)
      BY <1>1
    <3>1. z[n] = g[n][1] /\ z[n - 1] = g[n - 1][1] /\ ~ (n <= 0)
      BY <2>1, <3>0, Zenon
    <3> HIDE DEF z
    <3> QED
      BY <1>6, <2>2, <3>1 DEF Mixed
  <2>4. ASSUME NEW n \in -1 .. L PROVE z[n] = Value(z, n)
    <3>1. CASE n <= 0
      BY <3>1
    <3>2. CASE ~ (n <= 0)
      <4>1. n \in 1 .. L
        BY <1>1, <3>2
      <4> QED
        BY <2>3, <4>1
    <3> QED
      BY <3>1, <3>2
  <2>5. z = [n \in -1 .. L |-> z[n]]
    OBVIOUS
  <2> HIDE DEF z, Value
  <2> QED
    BY <2>4, <2>5
<1> DEFINE y == CHOOSE f : f = [n \in -1 .. L |-> Value(f, n)]
<1> HIDE DEF z
<1>8. y = [n \in -1 .. L |-> Value(y, n)]
  <2> HIDE DEF Value
  <2> QED
    BY <1>7
<1>9. C!Direct(c, x) = [n \in 1 .. L |-> y[n]]
  BY DEF C!Direct, L, X
<1> HIDE DEF y
<1>10. ASSUME NEW n \in -1 .. L
       PROVE  y[n] = IF n <= 0 THEN 0
                     ELSE Mixed(c, X(n), X(n - 1), X(n - 2), y[n - 1], y[n - 2])
  <2>1. y[n] = Value(y, n)
    <3> HIDE DEF Value
    <3> QED
      BY <1>8
  <2> QED
    BY <2>1 DEF Mixed
<1> DEFINE K == {k \in Nat : \A n \in -1 .. L : n <= k => y[n] \in Int}
<1>11. Nat \subseteq K
  <2>1. 0 \in K
    BY <1>10
  <2>2. ASSUME NEW k \in Nat, k \in K PROVE k + 1 \in K
    <3>0. \A n \in -1 .. L : n <= k + 1 => n <= k \/ n = k + 1
      BY <1>1
    <3>1. SUFFICES ASSUME NEW n \in -1 .. L, n = k + 1 PROVE y[n] \in Int
      <4>1. \A n \in -1 .. L : n <= k => y[n] \in Int
        BY <2>2, Zenon
      <4>2. k + 1 \in Nat
        OBVIOUS
      <4> QED
        BY <3>0, <4>1, <4>2, Zenon
    <3>2. /\ n \in 1 .. L /\ n - 1 \in -1 .. L /\ n - 1 <= k /\ n - 2 \in -1 .. L /\ n - 2 <= k
      BY <1>1, <3>1
    <3>3. y[n - 1] \in Int /\ y[n - 2] \in Int
      BY <2>2, <3>2
    <3>4. X(n) \in Int /\ X(n - 1) \in Int /\ X(n - 2) \in Int
      BY <1>1, <3>2
    <3>5. Mixed(c, X(n), X(n - 1), X(n - 2), y[n - 1], y[n - 2]) \in Int
      BY <3>3, <3>4, MixedInt
    <3>6. ~ (n <= 0)
      BY <3>2
    <3> QED
      BY <1>10, <3>5, <3>6
  <2> HIDE DEF K
  <2> QED
    BY <2>1, <2>2, NatSets
<1>12. \A n \in 1 .. L : y[n] \in Int
  <2>1. SUFFICES ASSUME NEW n \in 1 .. L PROVE y[n] \in Int
    OBVIOUS
  <2>2. n \in Nat /\ n \in -1 .. L /\ n <= n
    BY <1>1
  <2>3. n \in K
    BY <1>11, <2>2, Zenon
  <2> QED
    BY <2>2, <2>3, Zenon
<1> DEFINE D == C!Direct(c, x)
<1>13. D \in Seq(Int) /\ Len(D) = L /\ \A n \in 1 .. L : D[n] = y[n]
  BY <1>1, <1>9, <1>12
<1> HIDE DEF D
<1>14. ASSUME NEW n \in 1 .. L
       PROVE  D[n] = Mixed(c, X(n), X(n - 1), X(n - 2), C!At(D, n - 1), C!At(D, n - 2))
  <2>1. ~ (n <= 0) /\ n \in -1 .. L /\ n - 1 \in -1 .. L /\ n - 2 \in -1 .. L
    BY <1>1
  <2>2. C!At(D, n - 1) = y[n - 1] /\ C!At(D, n - 2) = y[n - 2]
    <3>1. \A k \in -1 .. L : k <= n => C!At(D, k) = y[k]
      <4>1. TAKE k \in -1 .. L
      <4>2. CASE k <= 0
        <5>1. y[k] = 0
          BY <1>10, <4>2, Zenon
        <5>2. ~ (k > 0)
          BY <1>1, <4>2
        <5> QED
          BY <5>1, <5>2 DEF C!At
      <4>3. CASE ~ (k <= 0)
        <5>1. k > 0 /\ k \in 1 .. L
          BY <1>1, <4>3
        <5> QED
          BY <1>13, <5>1 DEF C!At
      <4> QED
        BY <4>2, <4>3
    <3>2. n - 1 <= n /\ n - 2 <= n
      BY <1>1
    <3> QED
      BY <2>1, <3>1, <3>2, Zenon
  <2> QED
    BY <1>10, <1>13, <2>1, <2>2, Zenon
<1> QED
  BY <1>13, <1>14, Zenon DEF D, L, X

\* The difference equation has no other solution.
LEMMA DirectUnique ==
  ASSUME NEW c \in Coefficients, NEW x \in Seq(Int), NEW y \in Seq(Int), Len(y) = Len(x),
         \A n \in 1 .. Len(x) :
           y[n] = Mixed(c, C!At(x, n), C!At(x, n - 1), C!At(x, n - 2),
                        C!At(y, n - 1), C!At(y, n - 2))
  PROVE  C!Direct(c, x) = y
<1> DEFINE D == C!Direct(c, x)
           L == Len(x)
           K == {k \in Nat : \A n \in 1 .. L : n <= k => D[n] = y[n]}
<1>1. /\ D \in Seq(Int) /\ Len(D) = L /\ L \in Nat
      /\ \A n \in 1 .. L : D[n] = Mixed(c, C!At(x, n), C!At(x, n - 1), C!At(x, n - 2),
                                        C!At(D, n - 1), C!At(D, n - 2))
  BY DirectIs
<1> HIDE DEF D
<1>2. 0 \in K
  OBVIOUS
<1>3. ASSUME NEW k \in Nat, k \in K PROVE k + 1 \in K
  <2>1. \A n \in 1 .. L : n <= k => D[n] = y[n]
    BY <1>3
  <2>2. ASSUME NEW n \in 1 .. L, n = k + 1 PROVE D[n] = y[n]
    <3>1. ASSUME NEW m \in Int, m <= k, m <= L PROVE C!At(D, m) = C!At(y, m)
      <4>1. CASE m > 0
        <5>1. m \in 1 .. L
          BY <3>1, <4>1
        <5>2. D[m] = y[m]
          BY <2>1, <3>1, <5>1
        <5> QED
          BY <5>2 DEF C!At
      <4>2. CASE ~ (m > 0)
        BY <4>2 DEF C!At
      <4> QED
        BY <4>1, <4>2
    <3>2. n - 1 \in Int /\ n - 1 <= k /\ n - 1 <= L /\ n - 2 \in Int /\ n - 2 <= k /\ n - 2 <= L
      BY <1>1, <2>2
    <3>3. C!At(D, n - 1) = C!At(y, n - 1) /\ C!At(D, n - 2) = C!At(y, n - 2)
      BY <3>1, <3>2, Zenon
    <3> QED
      BY <1>1, <3>3, Zenon DEF L
  <2>3. ASSUME NEW n \in 1 .. L, n <= k + 1 PROVE D[n] = y[n]
    <3>1. n <= k \/ n = k + 1
      BY <1>1, <2>3
    <3> QED
      BY <2>1, <2>2, <3>1, Zenon
  <2> QED
    BY <2>3
<1> HIDE DEF K
<1>4. Nat \subseteq K
  BY <1>2, <1>3, NatSets
<1>5. L \in K
  BY <1>1, <1>4
<1>6. \A n \in 1 .. L : D[n] = y[n]
  BY <1>1, <1>5 DEF K
<1>7. D = y
  BY <1>1, <1>6, SeqEqual, Zenon DEF L
<1> QED
  BY <1>7 DEF D

\* The output for one more sample.
NextOut(c, x, v) ==
  Mixed(c, v, C!At(x, Len(x)), C!At(x, Len(x) - 1),
        C!At(C!Direct(c, x), Len(x)), C!At(C!Direct(c, x), Len(x) - 1))

\* A sample more does not change what the earlier ones gave.
LEMMA DirectAppend ==
  ASSUME NEW c \in Coefficients, NEW x \in Seq(Int), NEW v \in Int
  PROVE  /\ NextOut(c, x, v) \in Int
         /\ C!Direct(c, Append(x, v)) = Append(C!Direct(c, x), NextOut(c, x, v))
<1> DEFINE D == C!Direct(c, x)
           L == Len(x)
           w == NextOut(c, x, v)
           xx == Append(x, v)
           y == Append(D, w)
<1>1. /\ D \in Seq(Int) /\ Len(D) = L /\ L \in Nat
      /\ \A n \in 1 .. L : D[n] = Mixed(c, C!At(x, n), C!At(x, n - 1), C!At(x, n - 2),
                                        C!At(D, n - 1), C!At(D, n - 2))
  BY DirectIs
<1>2. w = Mixed(c, v, C!At(x, L), C!At(x, L - 1), C!At(D, L), C!At(D, L - 1))
  BY DEF NextOut
<1> HIDE DEF D, w
<1>3. w \in Int
  <2>1. /\ C!At(x, L) \in Int /\ C!At(x, L - 1) \in Int
        /\ C!At(D, L) \in Int /\ C!At(D, L - 1) \in Int
    <3>1. L \in Int /\ L - 1 \in Int /\ L <= L /\ L - 1 <= L
      BY <1>1
    <3> QED
      BY <1>1, <3>1, AtInt, Zenon
  <2> QED
    BY <1>2, <2>1, MixedInt
<1>4. /\ xx \in Seq(Int) /\ Len(xx) = L + 1 /\ xx[L + 1] = v
      /\ \A i \in 1 .. L : xx[i] = x[i]
  BY <1>1, AppendProperties
<1>5. /\ y \in Seq(Int) /\ Len(y) = L + 1 /\ y[L + 1] = w
      /\ \A i \in 1 .. L : y[i] = D[i]
  BY <1>1, <1>3, AppendProperties
<1> HIDE DEF xx, y
<1>6. ASSUME NEW n \in Int, n <= L PROVE C!At(xx, n) = C!At(x, n) /\ C!At(y, n) = C!At(D, n)
  <2>1. CASE n > 0
    <3>1. n \in 1 .. L
      BY <1>1, <1>6, <2>1
    <3> QED
      BY <1>4, <1>5, <3>1 DEF C!At
  <2>2. CASE ~ (n > 0)
    BY <2>2 DEF C!At
  <2> QED
    BY <2>1, <2>2
<1>7. ASSUME NEW n \in 1 .. L + 1
      PROVE  y[n] = Mixed(c, C!At(xx, n), C!At(xx, n - 1), C!At(xx, n - 2),
                          C!At(y, n - 1), C!At(y, n - 2))
  <2>1. n - 1 \in Int /\ n - 1 <= L /\ n - 2 \in Int /\ n - 2 <= L
    BY <1>1
  <2>2. /\ C!At(xx, n - 1) = C!At(x, n - 1) /\ C!At(y, n - 1) = C!At(D, n - 1)
        /\ C!At(xx, n - 2) = C!At(x, n - 2) /\ C!At(y, n - 2) = C!At(D, n - 2)
    BY <1>6, <2>1, Zenon
  <2>3. CASE n \in 1 .. L
    <3>1. n \in Int /\ n <= L
      BY <1>1, <2>3
    <3>2. C!At(xx, n) = C!At(x, n)
      BY <1>6, <3>1, Zenon
    <3>3. y[n] = D[n]
      BY <1>5, <2>3, Zenon
    <3> QED
      BY <1>1, <2>2, <2>3, <3>2, <3>3, Zenon
  <2>4. CASE n = L + 1
    <3>1. n > 0 /\ n - 1 = L /\ n - 2 = L - 1
      BY <1>1, <2>4
    <3>2. C!At(xx, n) = v
      BY <1>4, <2>4, <3>1 DEF C!At
    <3>3. y[n] = w
      BY <1>5, <2>4
    <3> QED
      BY <1>2, <2>2, <3>1, <3>2, <3>3, Zenon
  <2>5. n \in 1 .. L \/ n = L + 1
    BY <1>1
  <2> QED
    BY <2>3, <2>4, <2>5
<1>8. C!Direct(c, xx) = y
  BY <1>4, <1>5, <1>7, DirectUnique
<1> QED
  BY <1>3, <1>8 DEF D, w, xx, y

-----------------------------------------------------------------------------
(***************************************************************************)
(* The code: what the histories remember of a stream.                      *)
(***************************************************************************)

\* The last two samples of the stream, of the first biquad and of the second.
Past(c, x) ==
  LET n == Len(x)
      y == C!Direct(c, x)
      z == C!FourthOrder(c, x)
  IN [oldinput  |-> [i \in 0 .. 3 |-> IF i < 2 THEN C!At(x, n - i) ELSE C!At(y, n + 2 - i)],
      oldoutput |-> [i \in 0 .. 3 |-> IF i < 2 THEN C!At(y, n - i) ELSE C!At(z, n + 2 - i)]]

\* Histories that agree at every place are the same.
LEMMA SameHistory ==
  ASSUME NEW g \in Histories, NEW h \in Histories,
         \A i \in 0 .. 3 : g.oldinput[i] = h.oldinput[i] /\ g.oldoutput[i] = h.oldoutput[i]
  PROVE  g = h
<1>1. g.oldinput = h.oldinput
  BY DEF Histories
<1>2. g.oldoutput = h.oldoutput
  BY DEF Histories
<1> QED
  BY <1>1, <1>2 DEF Histories

\* What the first biquad of a channel changes, place by place.
LEMMA BiquadFirst ==
  ASSUME NEW c \in Coefficients, NEW h \in Histories, NEW v \in Int, NEW y \in Int,
         y = Mixed(c, v, h.oldinput[0], h.oldinput[1], h.oldoutput[0], h.oldoutput[1])
  PROVE  C!Biquad(c, h, 0, v)
           = [oldinput  |-> [h.oldinput  EXCEPT ![1] = h.oldinput[0],  ![0] = v],
              oldoutput |-> [h.oldoutput EXCEPT ![1] = h.oldoutput[0], ![0] = y]]
<1>1. /\ h.oldinput[0] \in Int /\ h.oldinput[1] \in Int
      /\ h.oldoutput[0] \in Int /\ h.oldoutput[1] \in Int
  BY DEF Histories
<1>2. c.b0 \in Int /\ c.b1 \in Int /\ c.b2 \in Int /\ c.a1 \in Int /\ c.a2 \in Int
  BY DEF Coefficients
<1>3. 2 * 0 = 0 /\ 2 * 0 + 1 = 1
  OBVIOUS
<1>4. y = h.oldinput[1] * c.b2 + h.oldinput[0] * c.b1 + v * c.b0
            + h.oldoutput[1] * c.a2 + h.oldoutput[0] * c.a1
  BY <1>1, <1>2 DEF Mixed
<1> QED
  BY <1>3, <1>4, Zenon DEF C!Biquad

\* What the second one changes.
LEMMA BiquadSecond ==
  ASSUME NEW c \in Coefficients, NEW h \in Histories, NEW v \in Int, NEW y \in Int,
         y = Mixed(c, v, h.oldinput[2], h.oldinput[3], h.oldoutput[2], h.oldoutput[3])
  PROVE  C!Biquad(c, h, 1, v)
           = [oldinput  |-> [h.oldinput  EXCEPT ![3] = h.oldinput[2],  ![2] = v],
              oldoutput |-> [h.oldoutput EXCEPT ![3] = h.oldoutput[2], ![2] = y]]
<1>1. /\ h.oldinput[2] \in Int /\ h.oldinput[3] \in Int
      /\ h.oldoutput[2] \in Int /\ h.oldoutput[3] \in Int
  BY DEF Histories
<1>2. c.b0 \in Int /\ c.b1 \in Int /\ c.b2 \in Int /\ c.a1 \in Int /\ c.a2 \in Int
  BY DEF Coefficients
<1>3. 2 * 1 = 2 /\ 2 + 1 = 3
  OBVIOUS
<1>4. y = h.oldinput[3] * c.b2 + h.oldinput[2] * c.b1 + v * c.b0
            + h.oldoutput[3] * c.a2 + h.oldoutput[2] * c.a1
  BY <1>1, <1>2 DEF Mixed
<1> QED
  BY <1>3, <1>4, Zenon DEF C!Biquad

\* The histories after a stream, place by place.
LEMMA PastIs ==
  ASSUME NEW c \in Coefficients, NEW x \in Seq(Int), NEW y, NEW z, NEW n,
         y = C!Direct(c, x), z = C!Direct(c, y), n = Len(x)
  PROVE  /\ Past(c, x) \in Histories /\ n \in Nat
         /\ y \in Seq(Int) /\ Len(y) = n /\ z \in Seq(Int) /\ Len(z) = n
         /\ Past(c, x).oldinput[0] = C!At(x, n) /\ Past(c, x).oldinput[1] = C!At(x, n - 1)
         /\ Past(c, x).oldinput[2] = C!At(y, n) /\ Past(c, x).oldinput[3] = C!At(y, n - 1)
         /\ Past(c, x).oldoutput[0] = C!At(y, n) /\ Past(c, x).oldoutput[1] = C!At(y, n - 1)
         /\ Past(c, x).oldoutput[2] = C!At(z, n) /\ Past(c, x).oldoutput[3] = C!At(z, n - 1)
<1>1. y \in Seq(Int) /\ Len(y) = n /\ z \in Seq(Int) /\ Len(z) = n /\ n \in Nat
  BY DirectIs
<1>2. Past(c, x) =
        [oldinput  |-> [i \in 0 .. 3 |-> IF i < 2 THEN C!At(x, n - i) ELSE C!At(y, n + 2 - i)],
         oldoutput |-> [i \in 0 .. 3 |-> IF i < 2 THEN C!At(y, n - i) ELSE C!At(z, n + 2 - i)]]
  BY Zenon DEF Past, C!FourthOrder
<1>3. \A i \in 0 .. 3 : i < 2 => C!At(x, n - i) \in Int /\ C!At(y, n - i) \in Int
  <2>1. TAKE i \in 0 .. 3
  <2>2. n - i \in Int /\ n - i <= n
    BY <1>1
  <2> QED
    BY <1>1, <2>2, AtInt, Zenon
<1>4. \A i \in 0 .. 3 : ~ (i < 2) => C!At(y, n + 2 - i) \in Int /\ C!At(z, n + 2 - i) \in Int
  <2>1. SUFFICES ASSUME NEW i \in 0 .. 3, ~ (i < 2)
                 PROVE  C!At(y, n + 2 - i) \in Int /\ C!At(z, n + 2 - i) \in Int
    OBVIOUS
  <2>2. n + 2 - i \in Int /\ n + 2 - i <= n
    BY <1>1, <2>1
  <2> QED
    BY <1>1, <2>2, AtInt, Zenon
<1>5. Past(c, x) \in Histories
  BY <1>2, <1>3, <1>4 DEF Histories
<1>6. /\ 0 \in 0 .. 3 /\ 0 < 2 /\ n - 0 = n /\ 1 \in 0 .. 3 /\ 1 < 2
      /\ 2 \in 0 .. 3 /\ ~ (2 < 2) /\ n + 2 - 2 = n
      /\ 3 \in 0 .. 3 /\ ~ (3 < 2) /\ n + 2 - 3 = n - 1
  BY <1>1
<1>7. /\ Past(c, x).oldinput[0] = C!At(x, n) /\ Past(c, x).oldinput[1] = C!At(x, n - 1)
      /\ Past(c, x).oldoutput[0] = C!At(y, n) /\ Past(c, x).oldoutput[1] = C!At(y, n - 1)
  BY <1>2, <1>6
<1>8. /\ Past(c, x).oldinput[2] = C!At(y, n) /\ Past(c, x).oldinput[3] = C!At(y, n - 1)
      /\ Past(c, x).oldoutput[2] = C!At(z, n) /\ Past(c, x).oldoutput[3] = C!At(z, n - 1)
  BY <1>2, <1>6
<1> QED
  BY <1>1, <1>5, <1>7, <1>8

NextOut2(c, x, v) == NextOut(c, C!Direct(c, x), NextOut(c, x, v))

\* One more sample makes one more of the fourth-order filter.
LEMMA FourthOrderAppend ==
  ASSUME NEW c \in Coefficients, NEW x \in Seq(Int), NEW v \in Int
  PROVE  /\ NextOut(c, x, v) \in Int /\ NextOut2(c, x, v) \in Int
         /\ C!Direct(c, Append(x, v)) = Append(C!Direct(c, x), NextOut(c, x, v))
         /\ C!FourthOrder(c, Append(x, v)) = Append(C!FourthOrder(c, x), NextOut2(c, x, v))
<1> DEFINE y == C!Direct(c, x)
           w == NextOut(c, x, v)
<1>1. w \in Int /\ C!Direct(c, Append(x, v)) = Append(y, w)
  BY DirectAppend
<1>2. y \in Seq(Int)
  BY DirectIs
<1> HIDE DEF y, w
<1>3. NextOut(c, y, w) \in Int /\ C!Direct(c, Append(y, w)) = Append(C!Direct(c, y), NextOut(c, y, w))
  BY <1>1, <1>2, DirectAppend
<1> QED
  BY <1>1, <1>3, Zenon DEF C!FourthOrder, NextOut2, y, w

\* The last element of a stream and the one before.
LEMMA AtAppend ==
  ASSUME NEW x \in Seq(Int), NEW v \in Int
  PROVE  /\ Append(x, v) \in Seq(Int) /\ Len(Append(x, v)) = Len(x) + 1
         /\ C!At(Append(x, v), Len(x) + 1) = v
         /\ C!At(Append(x, v), Len(x)) = C!At(x, Len(x))
<1> DEFINE L == Len(x)
           y == Append(x, v)
<1>1. /\ y \in Seq(Int) /\ Len(y) = L + 1 /\ y[L + 1] = v /\ L \in Nat
      /\ \A i \in 1 .. L : y[i] = x[i]
  BY AppendProperties
<1> HIDE DEF y, L
<1>2. C!At(y, L + 1) = v
  BY <1>1 DEF C!At
<1>3. C!At(y, L) = C!At(x, L)
  BY <1>1 DEF C!At
<1> QED
  BY <1>1, <1>2, <1>3, Zenon DEF y, L

\* Four biquads' worth of history is all the code needs of the past: with the
\* next sample it makes the next output and the history of the longer stream.
LEMMA ChannelKeeps ==
  ASSUME NEW c \in Coefficients, NEW x \in Seq(Int), NEW v \in Int
  PROVE  /\ C!Channel(c, Past(c, x), v) = Past(c, Append(x, v))
         /\ C!FourthOrder(c, Append(x, v))
              = Append(C!FourthOrder(c, x), Past(c, Append(x, v)).oldoutput[2])
<1> DEFINE y == C!Direct(c, x)
           z == C!Direct(c, y)
           n == Len(x)
           w == NextOut(c, x, v)
           u == NextOut2(c, x, v)
           h == Past(c, x)
           g == Past(c, Append(x, v))
<1>0. /\ y = C!Direct(c, x) /\ z = C!Direct(c, y) /\ n = Len(x)
      /\ w = NextOut(c, x, v) /\ u = NextOut2(c, x, v) /\ h = Past(c, x)
      /\ g = Past(c, Append(x, v))
  OBVIOUS
<1> HIDE DEF y, z, n, w, u, h, g
<1>1. /\ h \in Histories /\ n \in Nat
      /\ y \in Seq(Int) /\ Len(y) = n /\ z \in Seq(Int) /\ Len(z) = n
      /\ h.oldinput[0] = C!At(x, n) /\ h.oldinput[1] = C!At(x, n - 1)
      /\ h.oldinput[2] = C!At(y, n) /\ h.oldinput[3] = C!At(y, n - 1)
      /\ h.oldoutput[0] = C!At(y, n) /\ h.oldoutput[1] = C!At(y, n - 1)
      /\ h.oldoutput[2] = C!At(z, n) /\ h.oldoutput[3] = C!At(z, n - 1)
  BY <1>0, PastIs
<1>2. /\ w \in Int /\ u \in Int
      /\ C!Direct(c, Append(x, v)) = Append(y, w)
      /\ C!FourthOrder(c, Append(x, v)) = Append(C!FourthOrder(c, x), u)
  BY <1>0, FourthOrderAppend, Zenon
<1>3. z = C!FourthOrder(c, x)
  BY <1>0, Zenon DEF C!FourthOrder
<1>4. C!Direct(c, Append(y, w)) = Append(z, u)
  <2>1. C!FourthOrder(c, Append(x, v)) = C!Direct(c, C!Direct(c, Append(x, v)))
    BY Zenon DEF C!FourthOrder
  <2> QED
    BY <1>2, <1>3, <2>1, Zenon
<1>5. /\ Append(x, v) \in Seq(Int) /\ Len(Append(x, v)) = n + 1
      /\ C!At(Append(x, v), n + 1) = v /\ C!At(Append(x, v), n) = C!At(x, n)
      /\ C!At(Append(y, w), n + 1) = w /\ C!At(Append(y, w), n) = C!At(y, n)
      /\ C!At(Append(z, u), n + 1) = u /\ C!At(Append(z, u), n) = C!At(z, n)
  <2>1. /\ Append(x, v) \in Seq(Int) /\ Len(Append(x, v)) = n + 1
        /\ C!At(Append(x, v), n + 1) = v /\ C!At(Append(x, v), n) = C!At(x, n)
    BY <1>0, AtAppend
  <2>2. C!At(Append(y, w), n + 1) = w /\ C!At(Append(y, w), n) = C!At(y, n)
    BY <1>1, <1>2, AtAppend
  <2>3. C!At(Append(z, u), n + 1) = u /\ C!At(Append(z, u), n) = C!At(z, n)
    BY <1>1, <1>2, AtAppend
  <2> QED
    BY <2>1, <2>2, <2>3
<1>6. w = Mixed(c, v, h.oldinput[0], h.oldinput[1], h.oldoutput[0], h.oldoutput[1])
  BY <1>0, <1>1, Zenon DEF NextOut
<1>7. u = Mixed(c, w, h.oldinput[2], h.oldinput[3], h.oldoutput[2], h.oldoutput[3])
  <2>1. u = NextOut(c, y, w)
    BY <1>0, Zenon DEF NextOut2
  <2> QED
    BY <1>0, <1>1, <2>1, Zenon DEF NextOut
<1> DEFINE yy == Append(y, w)
           zz == Append(z, u)
<1>8. /\ g \in Histories
      /\ g.oldinput[0] = v /\ g.oldinput[1] = h.oldinput[0]
      /\ g.oldinput[2] = w /\ g.oldinput[3] = h.oldinput[2]
      /\ g.oldoutput[0] = w /\ g.oldoutput[1] = h.oldoutput[0]
      /\ g.oldoutput[2] = u /\ g.oldoutput[3] = h.oldoutput[2]
  <2>1. yy = C!Direct(c, Append(x, v)) /\ zz = C!Direct(c, yy) /\ n + 1 = Len(Append(x, v))
    BY <1>2, <1>4, <1>5, Zenon
  <2>2. (n + 1) - 1 = n
    BY <1>1
  <2>3. /\ g \in Histories
        /\ g.oldinput[0] = C!At(Append(x, v), n + 1)
        /\ g.oldinput[1] = C!At(Append(x, v), (n + 1) - 1)
        /\ g.oldinput[2] = C!At(yy, n + 1) /\ g.oldinput[3] = C!At(yy, (n + 1) - 1)
        /\ g.oldoutput[0] = C!At(yy, n + 1) /\ g.oldoutput[1] = C!At(yy, (n + 1) - 1)
        /\ g.oldoutput[2] = C!At(zz, n + 1) /\ g.oldoutput[3] = C!At(zz, (n + 1) - 1)
    <3> DEFINE xx == Append(x, v)
               m == n + 1
    <3> HIDE DEF yy, zz
    <3>1. /\ xx \in Seq(Int) /\ g = Past(c, xx)
          /\ yy = C!Direct(c, xx) /\ zz = C!Direct(c, yy) /\ m = Len(xx)
      BY <1>0, <1>5, <2>1, Zenon
    <3> HIDE DEF xx, m
    <3>2. /\ g \in Histories
          /\ g.oldinput[0] = C!At(xx, m) /\ g.oldinput[1] = C!At(xx, m - 1)
          /\ g.oldinput[2] = C!At(yy, m) /\ g.oldinput[3] = C!At(yy, m - 1)
          /\ g.oldoutput[0] = C!At(yy, m) /\ g.oldoutput[1] = C!At(yy, m - 1)
          /\ g.oldoutput[2] = C!At(zz, m) /\ g.oldoutput[3] = C!At(zz, m - 1)
      BY ONLY <3>1, PastIs
    <3> QED
      BY <3>2, Zenon DEF xx, m
  <2> QED
    BY <1>1, <1>5, <2>2, <2>3, Zenon
<1> DEFINE first == C!Biquad(c, h, 0, v)
           second == C!Biquad(c, first, 1, w)
<1> HIDE DEF yy, zz
<1>9. first = [oldinput  |-> [h.oldinput  EXCEPT ![1] = h.oldinput[0],  ![0] = v],
               oldoutput |-> [h.oldoutput EXCEPT ![1] = h.oldoutput[0], ![0] = w]]
  BY <1>1, <1>2, <1>6, BiquadFirst
<1>10. /\ first \in Histories
       /\ first.oldinput[0] = v /\ first.oldinput[1] = h.oldinput[0]
       /\ first.oldinput[2] = h.oldinput[2] /\ first.oldinput[3] = h.oldinput[3]
       /\ first.oldoutput[0] = w /\ first.oldoutput[1] = h.oldoutput[0]
       /\ first.oldoutput[2] = h.oldoutput[2] /\ first.oldoutput[3] = h.oldoutput[3]
  <2> HIDE DEF first
  <2> QED
    BY <1>1, <1>2, <1>9 DEF Histories
<1> HIDE DEF first
<1>11. u = Mixed(c, w, first.oldinput[2], first.oldinput[3],
                 first.oldoutput[2], first.oldoutput[3])
  BY <1>7, <1>10, Zenon
<1>12. second = [oldinput  |-> [first.oldinput  EXCEPT ![3] = first.oldinput[2],  ![2] = w],
                 oldoutput |-> [first.oldoutput EXCEPT ![3] = first.oldoutput[2], ![2] = u]]
  BY <1>2, <1>10, <1>11, BiquadSecond
<1>13. /\ second \in Histories
       /\ second.oldinput[0] = v /\ second.oldinput[1] = h.oldinput[0]
       /\ second.oldinput[2] = w /\ second.oldinput[3] = h.oldinput[2]
       /\ second.oldoutput[0] = w /\ second.oldoutput[1] = h.oldoutput[0]
       /\ second.oldoutput[2] = u /\ second.oldoutput[3] = h.oldoutput[2]
  <2> HIDE DEF second
  <2> QED
    BY <1>2, <1>10, <1>12 DEF Histories
<1>14. second = g
  <2> HIDE DEF second
  <2>1. \A i \in 0 .. 3 : i = 0 \/ i = 1 \/ i = 2 \/ i = 3
    OBVIOUS
  <2>2. \A i \in 0 .. 3 : second.oldinput[i] = g.oldinput[i] /\ second.oldoutput[i] = g.oldoutput[i]
    BY <1>8, <1>13, <2>1, Zenon
  <2> QED
    BY <1>8, <1>13, <2>2, SameHistory, Zenon
<1>15. C!Channel(c, h, v) = second
  BY <1>10, Zenon DEF C!Channel, first
<1> QED
  BY <1>0, <1>2, <1>8, <1>14, <1>15, Zenon

-----------------------------------------------------------------------------
(***************************************************************************)
(* The loop over a chunk.                                                  *)
(***************************************************************************)

LoopStates == [lp : Histories, hp : Histories, out : Seq(Int)]

\* A channel keeps the type of its histories.
LEMMA ChannelTyped ==
  ASSUME NEW c \in Coefficients, NEW h \in Histories, NEW v \in Int
  PROVE  C!Channel(c, h, v) \in Histories
<1> DEFINE y == Mixed(c, v, h.oldinput[0], h.oldinput[1], h.oldoutput[0], h.oldoutput[1])
           first == C!Biquad(c, h, 0, v)
           z == Mixed(c, y, first.oldinput[2], first.oldinput[3],
                      first.oldoutput[2], first.oldoutput[3])
           second == C!Biquad(c, first, 1, y)
<1>1. y \in Int
  <2>1. /\ h.oldinput[0] \in Int /\ h.oldinput[1] \in Int
        /\ h.oldoutput[0] \in Int /\ h.oldoutput[1] \in Int
    BY DEF Histories
  <2> QED
    BY <2>1, MixedInt
<1>2. first = [oldinput  |-> [h.oldinput  EXCEPT ![1] = h.oldinput[0],  ![0] = v],
               oldoutput |-> [h.oldoutput EXCEPT ![1] = h.oldoutput[0], ![0] = y]]
  BY <1>1, BiquadFirst
<1> HIDE DEF y, first
<1>3. first \in Histories /\ first.oldoutput[0] = y
  BY <1>1, <1>2 DEF Histories
<1>4. z \in Int
  <2>1. /\ first.oldinput[2] \in Int /\ first.oldinput[3] \in Int
        /\ first.oldoutput[2] \in Int /\ first.oldoutput[3] \in Int
    BY <1>3 DEF Histories
  <2> QED
    BY <1>1, <2>1, MixedInt
<1>5. second = [oldinput  |-> [first.oldinput  EXCEPT ![3] = first.oldinput[2],  ![2] = y],
                oldoutput |-> [first.oldoutput EXCEPT ![3] = first.oldoutput[2], ![2] = z]]
  BY <1>1, <1>3, <1>4, BiquadSecond
<1> HIDE DEF z, second
<1>6. second \in Histories
  BY <1>1, <1>3, <1>4, <1>5 DEF Histories
<1>7. C!Channel(c, h, v) = second
  BY <1>3, Zenon DEF C!Channel, first, second
<1> QED
  BY <1>6, <1>7

\* The conversion makes integers of integers.
LEMMA ToShortInt ==
  ASSUME NEW percent \in Nat, NEW y \in Int
  PROVE  C!ToShort(percent, y) \in Int
<1>1. percent * y \in Int /\ percent * (- y) \in Int
  OBVIOUS
<1> QED
  BY <1>1 DEF C!ToShort

\* The loop's body keeps the type of its state.
LEMMA FilterTyped ==
  ASSUME NEW percent \in Nat, NEW s \in LoopStates, NEW v \in Int
  PROVE  C!Filter(percent, s, v) \in LoopStates
<1> DEFINE l == C!Channel(lp_coefficients, s.lp, v)
           h == C!Channel(hp_coefficients, s.hp, v)
           a == C!ToShort(percent, l.oldoutput[2])
           b == C!ToShort(percent, h.oldoutput[2])
<1>1. s.lp \in Histories /\ s.hp \in Histories /\ s.out \in Seq(Int)
  BY DEF LoopStates
<1>2. l \in Histories /\ h \in Histories
  BY <1>1, ChannelTyped, FilterChainAssumption
<1>3. l.oldoutput[2] \in Int /\ h.oldoutput[2] \in Int
  BY <1>2 DEF Histories
<1>4. a \in Int /\ b \in Int
  BY <1>3, ToShortInt
<1>5. C!Filter(percent, s, v) = [lp |-> l, hp |-> h, out |-> s.out \o <<a, b>>]
  BY Zenon DEF C!Filter
<1> HIDE DEF l, h, a, b
<1> QED
  BY <1>1, <1>2, <1>4, <1>5 DEF LoopStates

\* The recursive function in the definition of Filtering has the values it names.
LEMMA FilteringIs ==
  ASSUME NEW percent \in Nat, NEW s \in LoopStates, NEW chunk \in Seq(Int)
  PROVE  /\ C!Filtering(percent, s, chunk)[0] = s
         /\ \A n \in 1 .. Len(chunk) :
              C!Filtering(percent, s, chunk)[n]
                = C!Filter(percent, C!Filtering(percent, s, chunk)[n - 1], chunk[n])
<1> DEFINE L == Len(chunk)
           Step == [n \in 1 .. L |-> [r \in LoopStates |-> C!Filter(percent, r, chunk[n])]]
<1>1. L \in Nat /\ \A n \in 1 .. L : chunk[n] \in Int
  OBVIOUS
<1> HIDE DEF L
<1>2. Step \in Steps(L, LoopStates)
  BY <1>1, FilterTyped DEF Steps
<1> HIDE DEF Step
<1>3. PICK g : IsRun(g, L, LoopStates, s, Step)
  BY <1>1, <1>2, Recursion
<1>4. /\ g \in [0 .. L -> LoopStates] /\ g[0] = s
      /\ \A n \in 1 .. L : g[n] = Step[n][g[n - 1]]
  BY <1>3 DEF IsRun
<1>5. \A n \in 1 .. L : g[n] = C!Filter(percent, g[n - 1], chunk[n])
  <2>1. TAKE n \in 1 .. L
  <2>2. n - 1 \in 0 .. L
    BY <1>1
  <2>3. g[n - 1] \in LoopStates
    BY <1>4, <2>2
  <2> QED
    BY <1>4, <2>3, Zenon DEF Step
<1> DEFINE Value(f, n) == IF n = 0 THEN s ELSE C!Filter(percent, f[n - 1], chunk[n])
<1>6. g = [n \in 0 .. L |-> Value(g, n)]
  <2>1. \A n \in 0 .. L : g[n] = Value(g, n)
    <3>1. \A n \in 0 .. L : n = 0 \/ (n # 0 /\ n \in 1 .. L)
      BY <1>1
    <3> QED
      BY <1>4, <1>5, <3>1, Zenon
  <2>2. g = [n \in 0 .. L |-> g[n]]
    BY <1>4, Zenon
  <2> HIDE DEF Value
  <2> QED
    BY <2>1, <2>2
<1> DEFINE y == CHOOSE f : f = [n \in 0 .. L |-> Value(f, n)]
<1>7. y = [n \in 0 .. L |-> Value(y, n)]
  <2> HIDE DEF Value
  <2> QED
    BY <1>6
<1>8. C!Filtering(percent, s, chunk) = y
  BY DEF C!Filtering, L
<1> HIDE DEF y
<1>9. \A n \in 0 .. L : y[n] = Value(y, n)
  <2> HIDE DEF Value
  <2> QED
    BY <1>7
<1>10. /\ 0 \in 0 .. L
       /\ \A n \in 1 .. L : n \in 0 .. L /\ n # 0
  BY <1>1
<1> QED
  BY <1>8, <1>9, <1>10, Zenon DEF L

\* What the crossover should write for a whole stream.
Sides(percent, x) ==
  [i \in 1 .. 2 * Len(x) |->
     IF i % 2 = 1
     THEN C!ToShort(percent, C!FourthOrder(lp_coefficients, x)[(i + 1) \div 2])
     ELSE C!ToShort(percent, C!FourthOrder(hp_coefficients, x)[i \div 2])]

\* The fourth-order filter keeps the length of a stream.
LEMMA FourthOrderTyped ==
  ASSUME NEW c \in Coefficients, NEW x \in Seq(Int)
  PROVE  C!FourthOrder(c, x) \in Seq(Int) /\ Len(C!FourthOrder(c, x)) = Len(x)
<1>1. C!Direct(c, x) \in Seq(Int) /\ Len(C!Direct(c, x)) = Len(x)
  BY DirectIs
<1>2. /\ C!Direct(c, C!Direct(c, x)) \in Seq(Int)
      /\ Len(C!Direct(c, C!Direct(c, x))) = Len(C!Direct(c, x))
  BY <1>1, DirectIs
<1> QED
  BY <1>1, <1>2, Zenon DEF C!FourthOrder

\* Both channels of a stream are twice as long as it.
LEMMA SidesTyped ==
  ASSUME NEW percent \in Nat, NEW x \in Seq(Int)
  PROVE  /\ Sides(percent, x) \in Seq(Int) /\ Len(Sides(percent, x)) = 2 * Len(x)
         /\ \A i \in 1 .. 2 * Len(x) :
              Sides(percent, x)[i] =
                IF i % 2 = 1
                THEN C!ToShort(percent, C!FourthOrder(lp_coefficients, x)[(i + 1) \div 2])
                ELSE C!ToShort(percent, C!FourthOrder(hp_coefficients, x)[i \div 2])
<1> DEFINE l == C!FourthOrder(lp_coefficients, x)
           h == C!FourthOrder(hp_coefficients, x)
           L == Len(x)
           all == [i \in 1 .. 2 * L |->
                     IF i % 2 = 1 THEN C!ToShort(percent, l[(i + 1) \div 2])
                                  ELSE C!ToShort(percent, h[i \div 2])]
<1>1. /\ l \in Seq(Int) /\ Len(l) = L /\ h \in Seq(Int) /\ Len(h) = L /\ L \in Nat
  BY FourthOrderTyped, FilterChainAssumption
<1>2. Sides(percent, x) = all
  BY DEF Sides
<1> HIDE DEF l, h, L
<1>3. ASSUME NEW i \in 1 .. 2 * L
      PROVE  /\ i % 2 = 1 => C!ToShort(percent, l[(i + 1) \div 2]) \in Int
             /\ ~ (i % 2 = 1) => C!ToShort(percent, h[i \div 2]) \in Int
  <2>1. CASE i % 2 = 1
    <3>1. (i + 1) \div 2 \in 1 .. L
      BY <1>1, <2>1
    <3>2. l[(i + 1) \div 2] \in Int
      BY <1>1, <3>1
    <3> QED
      BY <2>1, <3>2, ToShortInt
  <2>2. CASE ~ (i % 2 = 1)
    <3>1. i \div 2 \in 1 .. L
      BY <1>1, <2>2
    <3>2. h[i \div 2] \in Int
      BY <1>1, <3>1
    <3> QED
      BY <2>2, <3>2, ToShortInt
  <2> QED
    BY <2>1, <2>2
<1>4. \A i \in 1 .. 2 * L : all[i] \in Int
  BY <1>3
<1>5. 2 * L \in Nat
  BY <1>1
<1>6. all \in Seq(Int) /\ Len(all) = 2 * L
  BY <1>4, <1>5
<1> QED
  BY <1>2, <1>6 DEF l, h, L

\* One sample more is one more on each side.
LEMMA SidesAppend ==
  ASSUME NEW percent \in Nat, NEW x \in Seq(Int), NEW v \in Int, NEW a, NEW b,
         a = C!ToShort(percent, Past(lp_coefficients, Append(x, v)).oldoutput[2]),
         b = C!ToShort(percent, Past(hp_coefficients, Append(x, v)).oldoutput[2])
  PROVE  /\ a \in Int /\ b \in Int
         /\ Sides(percent, Append(x, v)) = Sides(percent, x) \o <<a, b>>
<1> DEFINE xx == Append(x, v)
           L == Len(x)
           l == C!FourthOrder(lp_coefficients, x)
           h == C!FourthOrder(hp_coefficients, x)
           ll == C!FourthOrder(lp_coefficients, xx)
           hh == C!FourthOrder(hp_coefficients, xx)
           p == Past(lp_coefficients, xx).oldoutput[2]
           q == Past(hp_coefficients, xx).oldoutput[2]
           s == Sides(percent, x)
           t == Sides(percent, xx)
<1>0. lp_coefficients \in Coefficients /\ hp_coefficients \in Coefficients
  BY FilterChainAssumption
<1>1. xx \in Seq(Int) /\ Len(xx) = L + 1 /\ L \in Nat
  BY AtAppend
<1>2. p \in Int /\ q \in Int
  <2>1. Past(lp_coefficients, xx) \in Histories /\ Past(hp_coefficients, xx) \in Histories
    <3> HIDE DEF xx
    <3> QED
      BY <1>0, <1>1, PastIs
  <2> QED
    BY <2>1 DEF Histories
<1>3. ll = Append(l, p) /\ hh = Append(h, q)
  BY <1>0, ChannelKeeps, Zenon
<1>4. l \in Seq(Int) /\ Len(l) = L /\ h \in Seq(Int) /\ Len(h) = L
  BY <1>0, FourthOrderTyped
<1> HIDE DEF l, h, ll, hh, p, q
<1>5. /\ ll[L + 1] = p /\ \A i \in 1 .. L : ll[i] = l[i]
      /\ hh[L + 1] = q /\ \A i \in 1 .. L : hh[i] = h[i]
  BY <1>2, <1>3, <1>4
<1>6. /\ s \in Seq(Int) /\ Len(s) = 2 * L
      /\ \A i \in 1 .. 2 * L :
           s[i] = IF i % 2 = 1 THEN C!ToShort(percent, l[(i + 1) \div 2])
                               ELSE C!ToShort(percent, h[i \div 2])
  BY SidesTyped DEF l, h
<1>7. /\ t \in Seq(Int) /\ Len(t) = 2 * (L + 1)
      /\ \A i \in 1 .. 2 * (L + 1) :
           t[i] = IF i % 2 = 1 THEN C!ToShort(percent, ll[(i + 1) \div 2])
                               ELSE C!ToShort(percent, hh[i \div 2])
  <2> HIDE DEF xx
  <2> QED
    BY <1>1, SidesTyped DEF ll, hh
<1>8. a = C!ToShort(percent, p) /\ b = C!ToShort(percent, q)
  BY DEF p, q
<1>9. a \in Int /\ b \in Int
  BY <1>2, <1>8, ToShortInt
<1> HIDE DEF xx, L, s, t
<1>10. ASSUME NEW i \in 1 .. 2 * L PROVE t[i] = s[i]
  <2>1. i \in 1 .. 2 * (L + 1)
    BY <1>1
  <2>2. CASE i % 2 = 1
    <3>1. (i + 1) \div 2 \in 1 .. L
      BY <1>1, <2>2
    <3>2. ll[(i + 1) \div 2] = l[(i + 1) \div 2]
      BY <1>5, <3>1, Zenon
    <3> QED
      BY <1>6, <1>7, <2>1, <2>2, <3>2, Zenon
  <2>3. CASE ~ (i % 2 = 1)
    <3>1. i \div 2 \in 1 .. L
      BY <1>1, <2>3
    <3>2. hh[i \div 2] = h[i \div 2]
      BY <1>5, <3>1, Zenon
    <3> QED
      BY <1>6, <1>7, <2>1, <2>3, <3>2, Zenon
  <2> QED
    BY <2>2, <2>3
<1>11. t[2 * L + 1] = a /\ t[2 * L + 2] = b
  <2>1. /\ 2 * L + 1 \in 1 .. 2 * (L + 1) /\ 2 * L + 2 \in 1 .. 2 * (L + 1)
        /\ (2 * L + 1) % 2 = 1 /\ ~ ((2 * L + 2) % 2 = 1)
        /\ ((2 * L + 1) + 1) \div 2 = L + 1 /\ (2 * L + 2) \div 2 = L + 1
    <3>1. 2 * L + 2 = 2 * (L + 1) /\ 2 * (L + 1) \in Nat /\ (2 * L + 1) + 1 = 2 * (L + 1)
      BY <1>1
    <3>2. (2 * (L + 1)) % 2 = 0 /\ (2 * (L + 1)) \div 2 = L + 1
      BY <1>1
    <3>3. (2 * L + 1) % 2 = 1
      BY <1>1
    <3>4. 2 * L + 1 \in 1 .. 2 * (L + 1) /\ 2 * L + 2 \in 1 .. 2 * (L + 1)
      BY <1>1
    <3> QED
      BY <3>1, <3>2, <3>3, <3>4
  <2>2. t[2 * L + 1] = C!ToShort(percent, ll[L + 1])
    BY <1>7, <2>1, Zenon
  <2>3. t[2 * L + 2] = C!ToShort(percent, hh[L + 1])
    BY <1>7, <2>1, Zenon
  <2> QED
    BY <1>5, <1>8, <2>2, <2>3, Zenon
<1>12. t = s \o <<a, b>>
  <2> DEFINE ab == <<a, b>>
             u == s \o ab
  <2>1. ab \in Seq(Int) /\ Len(ab) = 2 /\ ab[1] = a /\ ab[2] = b
    BY <1>9
  <2> HIDE DEF ab
  <2>2. /\ u \in Seq(Int) /\ Len(u) = 2 * L + 2
        /\ \A i \in 1 .. 2 * L + 2 : u[i] = IF i <= 2 * L THEN s[i] ELSE ab[i - 2 * L]
    <3>1. /\ u \in Seq(Int) /\ Len(u) = Len(s) + Len(ab)
          /\ \A i \in 1 .. Len(s) + Len(ab) : u[i] = IF i <= Len(s) THEN s[i] ELSE ab[i - Len(s)]
      BY <1>6, <2>1, ConcatProperties, Zenon
    <3> HIDE DEF u
    <3> QED
      BY <1>6, <2>1, <3>1
  <2> HIDE DEF u
  <2>3. ASSUME NEW i \in 1 .. 2 * L + 2 PROVE t[i] = u[i]
    <3>1. CASE i <= 2 * L
      <4>1. i \in 1 .. 2 * L
        BY <1>1, <3>1
      <4> QED
        BY <1>10, <2>2, <3>1, <4>1, Zenon
    <3>2. CASE i = 2 * L + 1
      <4>1. ~ (i <= 2 * L) /\ i - 2 * L = 1
        BY <1>1, <3>2
      <4> QED
        BY <1>11, <2>1, <2>2, <3>2, <4>1, Zenon
    <3>3. CASE i = 2 * L + 2
      <4>1. ~ (i <= 2 * L) /\ i - 2 * L = 2
        BY <1>1, <3>3
      <4> QED
        BY <1>11, <2>1, <2>2, <3>3, <4>1, Zenon
    <3>4. i <= 2 * L \/ i = 2 * L + 1 \/ i = 2 * L + 2
      BY <1>1
    <3> QED
      BY <3>1, <3>2, <3>3, <3>4, Zenon
  <2>4. 2 * (L + 1) = 2 * L + 2
    BY <1>1
  <2>5. t = u
    BY <1>7, <2>2, <2>3, <2>4, SeqEqual, Zenon
  <2> QED
    BY <2>5 DEF u, ab
<1> QED
  BY <1>9, <1>12 DEF s, t, xx

\* Concatenation is associative (SequenceTheorems).
LEMMA ThreeParts == \A p, q, r \in Seq(Int) : (p \o q) \o r = p \o (q \o r)
BY ConcatAssociative

\* A stream and the first n samples of the chunk that follows.
Until(x, chunk, n) == x \o SubSeq(chunk, 1, n)

\* A chunk is gone through sample by sample.
LEMMA UntilIs ==
  ASSUME NEW x \in Seq(Int), NEW chunk \in Seq(Int)
  PROVE  /\ Until(x, chunk, 0) = x /\ Until(x, chunk, Len(chunk)) = x \o chunk
         /\ \A n \in 0 .. Len(chunk) : /\ Until(x, chunk, n) \in Seq(Int)
                                       /\ Len(Until(x, chunk, n)) = Len(x) + n
         /\ \A n \in 1 .. Len(chunk) :
              Until(x, chunk, n) = Append(Until(x, chunk, n - 1), chunk[n])
<1> DEFINE L == Len(chunk)
           Part(n) == SubSeq(chunk, 1, n)
<1>1. L \in Nat /\ Len(x) \in Nat /\ \A n \in 1 .. L : chunk[n] \in Int
  OBVIOUS
<1>2. Part(0) = <<>> /\ Part(L) = chunk
  BY SubSeqEmpty, SubSeqFull
<1>3. \A n \in 0 .. L : Part(n) \in Seq(Int) /\ Len(Part(n)) = n
  <2>1. TAKE n \in 0 .. L
  <2>2. \A i \in 1 .. n : chunk[i] \in Int
    BY <1>1
  <2> QED
    BY <1>1, <2>2, SubSeqProperties
<1>4. \A n \in 1 .. L : Part(n) = Part(n - 1) \o <<chunk[n]>>
  <2>1. TAKE n \in 1 .. L
  <2>2. 1 \in 1 .. L /\ n \in 1 .. L
    BY <1>1
  <2> QED
    BY <2>2, SubSeqRecursiveSecond
<1> HIDE DEF Part
<1>5. x \o Part(0) = x /\ x \o Part(L) = x \o chunk
  BY <1>2, ConcatEmptySeq
<1>6. \A n \in 0 .. L : x \o Part(n) \in Seq(Int) /\ Len(x \o Part(n)) = Len(x) + n
  <2>1. TAKE n \in 0 .. L
  <2>2. Part(n) \in Seq(Int) /\ Len(Part(n)) = n
    BY <1>3, Zenon
  <2>3. x \o Part(n) \in Seq(Int) /\ Len(x \o Part(n)) = Len(x) + Len(Part(n))
    BY <2>2, ConcatProperties, Zenon
  <2> QED
    BY <2>2, <2>3, Zenon
<1>7. \A n \in 1 .. L : x \o Part(n) = Append(x \o Part(n - 1), chunk[n])
  <2>1. TAKE n \in 1 .. L
  <2>2. n - 1 \in 0 .. L /\ chunk[n] \in Int
    BY <1>1
  <2>3. Part(n - 1) \in Seq(Int) /\ x \o Part(n - 1) \in Seq(Int)
    BY <1>3, <1>6, <2>2
  <2>4. <<chunk[n]>> \in Seq(Int)
    BY <2>2
  <2>5. (x \o Part(n - 1)) \o <<chunk[n]>> = x \o (Part(n - 1) \o <<chunk[n]>>)
    BY <2>3, <2>4, ThreeParts, Zenon
  <2>6. (x \o Part(n - 1)) \o <<chunk[n]>> = Append(x \o Part(n - 1), chunk[n])
    BY <2>2, <2>3, AppendIsConcat, Zenon
  <2> QED
    BY <1>4, <2>5, <2>6, Zenon
<1> QED
  BY <1>5, <1>6, <1>7, Zenon DEF Until, Part, L

\* The loop over a chunk, begun with the histories that x has left.
Remembering(x) == [lp  |-> Past(lp_coefficients, x),
                   hp  |-> Past(hp_coefficients, x),
                   out |-> <<>>]

Filtered(percent, x, chunk) == C!Filtering(percent, Remembering(x), chunk)[Len(chunk)]

\* The history after a chunk is that of the whole stream, and what the chunk
\* gives continues what the stream gave.
LEMMA ChunkFiltered ==
  ASSUME NEW percent \in Nat, NEW x \in Seq(Int), NEW chunk \in Seq(Int)
  PROVE  /\ Filtered(percent, x, chunk).lp = Past(lp_coefficients, x \o chunk)
         /\ Filtered(percent, x, chunk).hp = Past(hp_coefficients, x \o chunk)
         /\ Sides(percent, x) \o Filtered(percent, x, chunk).out = Sides(percent, x \o chunk)
<1> DEFINE s == Remembering(x)
           L == Len(chunk)
           at(n) == C!Filtering(percent, s, chunk)[n]
           P(n) == Until(x, chunk, n)
           Kept(n) == /\ at(n).lp = Past(lp_coefficients, P(n))
                      /\ at(n).hp = Past(hp_coefficients, P(n))
                      /\ at(n).out \in Seq(Int)
                      /\ Sides(percent, x) \o at(n).out = Sides(percent, P(n))
           K == {n \in Nat : n <= L => Kept(n)}
<1>0. lp_coefficients \in Coefficients /\ hp_coefficients \in Coefficients
  BY FilterChainAssumption
<1>1. /\ L \in Nat /\ P(0) = x /\ P(L) = x \o chunk
      /\ \A n \in 0 .. L : P(n) \in Seq(Int)
      /\ \A n \in 1 .. L : P(n) = Append(P(n - 1), chunk[n]) /\ chunk[n] \in Int
  <2>1. L \in Nat /\ \A n \in 1 .. L : chunk[n] \in Int
    OBVIOUS
  <2> QED
    BY <2>1, UntilIs, Zenon
<1>2. s \in LoopStates
  <2>1. Past(lp_coefficients, x) \in Histories /\ Past(hp_coefficients, x) \in Histories
    BY <1>0, PastIs
  <2> QED
    BY <2>1 DEF LoopStates, Remembering
<1>3. at(0) = s /\ \A n \in 1 .. L : at(n) = C!Filter(percent, at(n - 1), chunk[n])
  BY <1>2, FilteringIs
<1> HIDE DEF at, P, L
<1>4. 0 \in K
  <2>1. Sides(percent, x) \in Seq(Int)
    BY SidesTyped
  <2>2. Sides(percent, x) \o <<>> = Sides(percent, x)
    BY <2>1, ConcatEmptySeq
  <2>3. s.lp = Past(lp_coefficients, x) /\ s.hp = Past(hp_coefficients, x) /\ s.out = <<>>
    BY DEF Remembering
  <2>4. <<>> \in Seq(Int)
    OBVIOUS
  <2>5. Kept(0)
    BY <1>1, <1>3, <2>2, <2>3, <2>4, Zenon
  <2> HIDE DEF Kept
  <2> QED
    BY <2>5
<1>5. ASSUME NEW k \in Nat, k \in K PROVE k + 1 \in K
  <2> SUFFICES ASSUME k + 1 <= L PROVE Kept(k + 1)
    <3> HIDE DEF Kept
    <3> QED
      BY <1>5
  <2>1. k \in 0 .. L /\ k + 1 \in 1 .. L /\ (k + 1) - 1 = k
    BY <1>1
  <2>2. Kept(k)
    <3> HIDE DEF Kept
    <3> QED
      BY <1>5, <2>1
  <2> DEFINE v == chunk[k + 1]
             xx == Append(P(k), v)
             a == C!ToShort(percent, Past(lp_coefficients, xx).oldoutput[2])
             b == C!ToShort(percent, Past(hp_coefficients, xx).oldoutput[2])
  <2>3. P(k + 1) = xx /\ P(k) \in Seq(Int) /\ v \in Int
    BY <1>1, <2>1
  <2>4. at(k + 1) = C!Filter(percent, at(k), v)
    BY <1>3, <2>1
  <2>5. /\ C!Channel(lp_coefficients, at(k).lp, v) = Past(lp_coefficients, xx)
        /\ C!Channel(hp_coefficients, at(k).hp, v) = Past(hp_coefficients, xx)
    <3>1. /\ C!Channel(lp_coefficients, Past(lp_coefficients, P(k)), v)
               = Past(lp_coefficients, Append(P(k), v))
          /\ C!Channel(hp_coefficients, Past(hp_coefficients, P(k)), v)
               = Past(hp_coefficients, Append(P(k), v))
      <4> HIDE DEF v
      <4> QED
        BY <1>0, <2>3, ChannelKeeps
    <3>2. at(k).lp = Past(lp_coefficients, P(k)) /\ at(k).hp = Past(hp_coefficients, P(k))
      BY <2>2, Zenon
    <3> QED
      BY <3>1, <3>2, Zenon
  <2>6. at(k + 1) = [lp |-> Past(lp_coefficients, xx), hp |-> Past(hp_coefficients, xx),
                     out |-> at(k).out \o <<a, b>>]
    BY <2>4, <2>5, Zenon DEF C!Filter
  <2>7. /\ a \in Int /\ b \in Int
        /\ Sides(percent, xx) = Sides(percent, P(k)) \o <<a, b>>
    <3>1. /\ xx = Append(P(k), v)
          /\ a = C!ToShort(percent, Past(lp_coefficients, Append(P(k), v)).oldoutput[2])
          /\ b = C!ToShort(percent, Past(hp_coefficients, Append(P(k), v)).oldoutput[2])
      BY Zenon
    <3> HIDE DEF v, xx, a, b
    <3> QED
      BY <2>3, <3>1, SidesAppend
  <2> HIDE DEF v, xx, a, b
  <2>8. <<a, b>> \in Seq(Int)
    BY <2>7
  <2>9. Sides(percent, x) \in Seq(Int) /\ at(k).out \in Seq(Int)
    BY <2>2, SidesTyped
  <2>10. Sides(percent, x) \o (at(k).out \o <<a, b>>) = Sides(percent, xx)
    <3>1. (Sides(percent, x) \o at(k).out) \o <<a, b>>
            = Sides(percent, x) \o (at(k).out \o <<a, b>>)
      BY <2>8, <2>9, ThreeParts, Zenon
    <3> QED
      BY <2>2, <2>7, <3>1, Zenon
  <2>11. at(k).out \o <<a, b>> \in Seq(Int)
    BY <2>8, <2>9, ConcatProperties, Zenon
  <2>12. /\ at(k + 1).lp = Past(lp_coefficients, xx) /\ at(k + 1).hp = Past(hp_coefficients, xx)
         /\ at(k + 1).out = at(k).out \o <<a, b>>
    <3> DEFINE more == at(k).out \o <<a, b>>
               p == Past(lp_coefficients, xx)
               q == Past(hp_coefficients, xx)
               now == at(k + 1)
    <3>1. now = [lp |-> p, hp |-> q, out |-> more]
      BY <2>6, Zenon
    <3> HIDE DEF more, p, q, now
    <3>2. now.lp = p /\ now.hp = q /\ now.out = more
      BY <3>1
    <3> QED
      BY <3>2, Zenon DEF more, p, q, now
  <2> QED
    BY <2>3, <2>10, <2>11, <2>12, Zenon
<1> HIDE DEF Kept
<1>6. Nat \subseteq K
  <2> HIDE DEF K
  <2> QED
    BY <1>4, <1>5, NatSets
<1>7. Kept(L)
  BY <1>1, <1>6
<1>8. Filtered(percent, x, chunk) = at(L)
  BY Zenon DEF at, L, Filtered
<1> QED
  BY <1>1, <1>7, <1>8, Zenon DEF Kept

-----------------------------------------------------------------------------
(***************************************************************************)
(* The reference for the equalizer: each filter with the stream to itself. *)
(***************************************************************************)

Volts == [v1 : Int, v2 : Int, ic : Int \X Int]

Integral(c) == c.a1 \in Int /\ c.a2 \in Int /\ c.g \in Int

\* All filters of the bank have integers as coefficients.
LEMMA FiltersIntegral ==
  /\ Integral(Lowshelf) /\ Integral(Highshelf)
  /\ \A b \in 1 .. Len(Bells) : Integral(Bells[b])
<1>1. \A b \in 1 .. Len(Bells) : Bells[b] \in [a1 : Int, a2 : Int, g : Int, R : Int]
  BY FilterChainAssumption, ElementOfSeq
<1>2. \A b \in 1 .. Len(Bells) : Integral(Bells[b])
  BY <1>1 DEF Integral
<1>3. Integral(Lowshelf) /\ Integral(Highshelf)
  BY FilterChainAssumption DEF Integral
<1> QED
  BY <1>2, <1>3

\* A filter makes integers of integers.
LEMMA VoltagesTyped ==
  ASSUME NEW c, Integral(c), NEW ic \in Int \X Int, NEW v0 \in Int
  PROVE  E!Voltages(c, ic, v0) \in Volts
<1> DEFINE v1 == c.a1 * ic[1] + c.a2 * (v0 - ic[2])
           v2 == c.g * v1 + ic[2]
<1>1. c.a1 \in Int /\ c.a2 \in Int /\ c.g \in Int /\ ic[1] \in Int /\ ic[2] \in Int
  BY DEF Integral
<1>2. c.a1 * ic[1] \in Int /\ c.a2 * (v0 - ic[2]) \in Int
  BY <1>1
<1>3. v1 \in Int
  BY <1>2
<1> HIDE DEF v1
<1>4. c.g * v1 \in Int
  BY <1>1, <1>3
<1>5. v2 \in Int
  BY <1>1, <1>4
<1>6. E!Voltages(c, ic, v0) = [v1 |-> v1, v2 |-> v2, ic |-> <<2 * v1 - ic[1], 2 * v2 - ic[2]>>]
  BY DEF E!Voltages, v1
<1> HIDE DEF v2
<1> QED
  BY <1>1, <1>3, <1>5, <1>6 DEF Volts

\* A filter alone, by recursion over the stream.
LEMMA AloneIs ==
  ASSUME NEW c, Integral(c), NEW x \in Seq(Int)
  PROVE  /\ \A n \in 0 .. Len(x) : E!Alone(c, x)[n] \in Volts
         /\ E!Alone(c, x)[0] = [v1 |-> 0, v2 |-> 0, ic |-> E!Zero]
         /\ \A n \in 1 .. Len(x) :
              E!Alone(c, x)[n] = E!Voltages(c, E!Alone(c, x)[n - 1].ic, x[n])
<1> DEFINE L == Len(x)
           silent == [v1 |-> 0, v2 |-> 0, ic |-> E!Zero]
           Step == [n \in 1 .. L |-> [r \in Volts |-> E!Voltages(c, r.ic, x[n])]]
           Value(f, n) == IF n = 0 THEN silent ELSE E!Voltages(c, f[n - 1].ic, x[n])
<1>1. L \in Nat /\ \A n \in 1 .. L : x[n] \in Int
  OBVIOUS
<1> HIDE DEF L
<1>2. Step \in Steps(L, Volts)
  <2>1. ASSUME NEW n \in 1 .. L, NEW r \in Volts PROVE E!Voltages(c, r.ic, x[n]) \in Volts
    <3>1. r.ic \in Int \X Int
      BY DEF Volts
    <3> QED
      BY <1>1, <3>1, VoltagesTyped
  <2> QED
    BY <2>1 DEF Steps
<1>3. silent \in Volts
  <2>1. E!Zero \in Int \X Int
    BY DEF E!Zero
  <2> QED
    BY <2>1 DEF Volts
<1> HIDE DEF Step, silent
<1>4. PICK g : IsRun(g, L, Volts, silent, Step)
  BY <1>1, <1>2, <1>3, Recursion
<1>5. /\ g \in [0 .. L -> Volts] /\ g[0] = silent
      /\ \A n \in 1 .. L : g[n] = Step[n][g[n - 1]]
  BY <1>4 DEF IsRun
<1>6. \A n \in 1 .. L : g[n] = E!Voltages(c, g[n - 1].ic, x[n])
  <2>1. TAKE n \in 1 .. L
  <2>2. n - 1 \in 0 .. L
    BY <1>1
  <2>3. g[n - 1] \in Volts
    BY <1>5, <2>2
  <2> QED
    BY <1>5, <2>3, Zenon DEF Step
<1>7. g = [n \in 0 .. L |-> Value(g, n)]
  <2>1. \A n \in 0 .. L : g[n] = Value(g, n)
    <3>1. \A n \in 0 .. L : n = 0 \/ (n # 0 /\ n \in 1 .. L)
      BY <1>1
    <3> QED
      BY <1>5, <1>6, <3>1, Zenon
  <2>2. g = [n \in 0 .. L |-> g[n]]
    BY <1>5, Zenon
  <2> HIDE DEF Value
  <2> QED
    BY <2>1, <2>2
<1> DEFINE y == CHOOSE f : f = [n \in 0 .. L |-> Value(f, n)]
<1>8. y = [n \in 0 .. L |-> Value(y, n)]
  <2> HIDE DEF Value
  <2> QED
    BY <1>7
<1>9. E!Alone(c, x) = y
  BY DEF E!Alone, L, silent
<1> HIDE DEF y
<1>10. \A n \in 0 .. L : y[n] = Value(y, n)
  <2> HIDE DEF Value
  <2> QED
    BY <1>8
<1>11. /\ 0 \in 0 .. L
       /\ \A n \in 1 .. L : n \in 0 .. L /\ n # 0
  BY <1>1
<1>12. y[0] = silent /\ \A n \in 1 .. L : y[n] = E!Voltages(c, y[n - 1].ic, x[n])
  BY <1>10, <1>11, Zenon
<1>13. \A n \in 0 .. L : y[n] = g[n]
  <2>1. y[0] = g[0] /\ \A n \in 1 .. L : y[n - 1] = g[n - 1] => y[n] = g[n]
    BY <1>5, <1>6, <1>12, Zenon
  <2> QED
    BY <1>1, <2>1, Determined
<1>14. \A n \in 0 .. L : y[n] \in Volts
  BY <1>5, <1>13
<1> QED
  BY <1>9, <1>12, <1>14, Zenon DEF L, silent

\* What is still to come does not change what a filter has made of the past.
LEMMA AlonePrefix ==
  ASSUME NEW c, Integral(c), NEW x \in Seq(Int), NEW y \in Seq(Int), Len(x) <= Len(y),
         \A i \in 1 .. Len(x) : x[i] = y[i]
  PROVE  \A n \in 0 .. Len(x) : E!Alone(c, x)[n] = E!Alone(c, y)[n]
<1>1. Len(x) \in Nat /\ \A n \in 1 .. Len(x) : n \in 1 .. Len(y)
  OBVIOUS
<1>2. E!Alone(c, x)[0] = E!Alone(c, y)[0]
  BY AloneIs, Zenon
<1>3. ASSUME NEW n \in 1 .. Len(x), E!Alone(c, x)[n - 1] = E!Alone(c, y)[n - 1]
      PROVE  E!Alone(c, x)[n] = E!Alone(c, y)[n]
  <2>1. E!Alone(c, x)[n] = E!Voltages(c, E!Alone(c, x)[n - 1].ic, x[n])
    BY AloneIs, Zenon
  <2>2. E!Alone(c, y)[n] = E!Voltages(c, E!Alone(c, y)[n - 1].ic, y[n])
    BY <1>1, AloneIs, Zenon
  <2> QED
    BY <1>3, <2>1, <2>2, Zenon
<1> DEFINE p == E!Alone(c, x)
           q == E!Alone(c, y)
<1>4. p[0] = q[0] /\ \A n \in 1 .. Len(x) : p[n - 1] = q[n - 1] => p[n] = q[n]
  BY <1>2, <1>3, Zenon
<1> HIDE DEF p, q
<1>5. \A n \in 0 .. Len(x) : p[n] = q[n]
  BY ONLY <1>1, <1>4, Determined
<1> QED
  BY <1>5 DEF p, q

\* What the filters make of sample n of a stream.
LowPart(x, n) ==
  x[n] + Lowshelf.k1 * E!Alone(Lowshelf, x)[n].v1 + Lowshelf.k2 * E!Alone(Lowshelf, x)[n].v2
HighPart(x, n) ==
  Highshelf.k1 * x[n] + Highshelf.k2 * E!Alone(Highshelf, x)[n].v1
    + Highshelf.k3 * E!Alone(Highshelf, x)[n].v2
BellPart(x, n, b) == x[n] + Bells[b].R * E!Alone(Bells[b], x)[n].v1

\* The parts of the sum are integers.
LEMMA PartsInt ==
  ASSUME NEW x \in Seq(Int), NEW n \in 1 .. Len(x)
  PROVE  /\ LowPart(x, n) \in Int /\ HighPart(x, n) \in Int
         /\ \A b \in 1 .. Len(Bells) : BellPart(x, n, b) \in Int
<1>1. x[n] \in Int /\ n \in 0 .. Len(x)
  BY ElementOfSeq
<1>2. ASSUME NEW c, Integral(c)
      PROVE  E!Alone(c, x)[n].v1 \in Int /\ E!Alone(c, x)[n].v2 \in Int
  <2>1. E!Alone(c, x)[n] \in Volts
    BY <1>1, <1>2, AloneIs
  <2> QED
    BY <2>1 DEF Volts
<1>3. LowPart(x, n) \in Int
  <2>1. Lowshelf.k1 \in Int /\ Lowshelf.k2 \in Int
    BY FilterChainAssumption
  <2>2. E!Alone(Lowshelf, x)[n].v1 \in Int /\ E!Alone(Lowshelf, x)[n].v2 \in Int
    BY <1>2, FiltersIntegral, Zenon
  <2>3. /\ Lowshelf.k1 * E!Alone(Lowshelf, x)[n].v1 \in Int
        /\ Lowshelf.k2 * E!Alone(Lowshelf, x)[n].v2 \in Int
    BY <2>1, <2>2
  <2> QED
    BY <1>1, <2>3 DEF LowPart
<1>4. HighPart(x, n) \in Int
  <2>1. Highshelf.k1 \in Int /\ Highshelf.k2 \in Int /\ Highshelf.k3 \in Int
    BY FilterChainAssumption
  <2>2. E!Alone(Highshelf, x)[n].v1 \in Int /\ E!Alone(Highshelf, x)[n].v2 \in Int
    BY <1>2, FiltersIntegral, Zenon
  <2>3. /\ Highshelf.k1 * x[n] \in Int
        /\ Highshelf.k2 * E!Alone(Highshelf, x)[n].v1 \in Int
        /\ Highshelf.k3 * E!Alone(Highshelf, x)[n].v2 \in Int
    BY <1>1, <2>1, <2>2
  <2> QED
    BY <2>3 DEF HighPart
<1>5. ASSUME NEW b \in 1 .. Len(Bells) PROVE BellPart(x, n, b) \in Int
  <2>1. Bells[b].R \in Int
    <3>1. Bells[b] \in [a1 : Int, a2 : Int, g : Int, R : Int]
      BY FilterChainAssumption, ElementOfSeq
    <3> QED
      BY <3>1
  <2>2. E!Alone(Bells[b], x)[n].v1 \in Int
    BY <1>2, FiltersIntegral, Zenon
  <2>3. Bells[b].R * E!Alone(Bells[b], x)[n].v1 \in Int
    BY <2>1, <2>2
  <2> QED
    BY <1>1, <2>3 DEF BellPart
<1> QED
  BY <1>3, <1>4, <1>5

\* The sum, by recursion over the bells.
LEMMA SumIs ==
  ASSUME NEW x \in Seq(Int), NEW n \in 1 .. Len(x)
  PROVE  /\ \A b \in 0 .. Len(Bells) : E!SumOf(x, n)[b] \in Int
         /\ E!SumOf(x, n)[0] = LowPart(x, n) + HighPart(x, n)
         /\ \A b \in 1 .. Len(Bells) :
              E!SumOf(x, n)[b] = E!SumOf(x, n)[b - 1] + BellPart(x, n, b)
<1> DEFINE L == Len(Bells)
           shelves == LowPart(x, n) + HighPart(x, n)
           Step == [b \in 1 .. L |-> [r \in Int |-> r + BellPart(x, n, b)]]
           Value(f, b) == IF b = 0 THEN shelves ELSE f[b - 1] + BellPart(x, n, b)
<1>1. L \in Nat
  BY FilterChainAssumption
<1>2. shelves \in Int /\ \A b \in 1 .. L : BellPart(x, n, b) \in Int
  BY PartsInt
<1> HIDE DEF L, shelves
<1>3. Step \in Steps(L, Int)
  BY <1>2 DEF Steps
<1> HIDE DEF Step
<1>4. PICK g : IsRun(g, L, Int, shelves, Step)
  BY <1>1, <1>2, <1>3, Recursion
<1>5. /\ g \in [0 .. L -> Int] /\ g[0] = shelves
      /\ \A b \in 1 .. L : g[b] = Step[b][g[b - 1]]
  BY <1>4 DEF IsRun
<1>6. \A b \in 1 .. L : g[b] = g[b - 1] + BellPart(x, n, b)
  <2>1. TAKE b \in 1 .. L
  <2>2. b - 1 \in 0 .. L
    BY <1>1
  <2>3. g[b - 1] \in Int
    BY <1>5, <2>2
  <2> QED
    BY <1>5, <2>3, Zenon DEF Step
<1>7. g = [b \in 0 .. L |-> Value(g, b)]
  <2>1. \A b \in 0 .. L : g[b] = Value(g, b)
    <3>1. \A b \in 0 .. L : b = 0 \/ (b # 0 /\ b \in 1 .. L)
      BY <1>1
    <3> QED
      BY <1>5, <1>6, <3>1, Zenon
  <2>2. g = [b \in 0 .. L |-> g[b]]
    BY <1>5, Zenon
  <2> HIDE DEF Value
  <2> QED
    BY <2>1, <2>2
<1> DEFINE y == CHOOSE f : f = [b \in 0 .. L |-> Value(f, b)]
<1>8. y = [b \in 0 .. L |-> Value(y, b)]
  <2> HIDE DEF Value
  <2> QED
    BY <1>7
<1>9. E!SumOf(x, n) = y
  BY DEF E!SumOf, L, shelves, LowPart, HighPart, BellPart
<1> HIDE DEF y
<1>10. \A b \in 0 .. L : y[b] = Value(y, b)
  <2> HIDE DEF Value
  <2> QED
    BY <1>8
<1>11. /\ 0 \in 0 .. L
       /\ \A b \in 1 .. L : b \in 0 .. L /\ b # 0
  BY <1>1
<1>12. y[0] = shelves /\ \A b \in 1 .. L : y[b] = y[b - 1] + BellPart(x, n, b)
  BY <1>10, <1>11, Zenon
<1>13. \A b \in 0 .. L : y[b] = g[b]
  <2>1. y[0] = g[0] /\ \A b \in 1 .. L : y[b - 1] = g[b - 1] => y[b] = g[b]
    BY <1>5, <1>6, <1>12, Zenon
  <2> QED
    BY <1>1, <2>1, Determined
<1>14. \A b \in 0 .. L : y[b] \in Int
  BY <1>5, <1>13
<1> QED
  BY <1>9, <1>12, <1>14, Zenon DEF L, shelves

\* What is still to come does not change the sum of what has passed.
LEMMA SumPrefix ==
  ASSUME NEW x \in Seq(Int), NEW y \in Seq(Int), Len(x) <= Len(y),
         \A i \in 1 .. Len(x) : x[i] = y[i], NEW n \in 1 .. Len(x)
  PROVE  E!SumOf(x, n)[Len(Bells)] = E!SumOf(y, n)[Len(Bells)]
<1>1. /\ n \in 1 .. Len(y) /\ n \in 0 .. Len(x) /\ Len(Bells) \in Nat
      /\ Len(Bells) \in 0 .. Len(Bells)
  BY FilterChainAssumption
<1>2. x[n] = y[n]
  OBVIOUS
<1>3. \A c : Integral(c) => E!Alone(c, x)[n] = E!Alone(c, y)[n]
  BY <1>1, AlonePrefix
<1>4. LowPart(x, n) = LowPart(y, n) /\ HighPart(x, n) = HighPart(y, n)
  BY <1>2, <1>3, FiltersIntegral, Zenon DEF LowPart, HighPart
<1>5. \A b \in 1 .. Len(Bells) : BellPart(x, n, b) = BellPart(y, n, b)
  BY <1>2, <1>3, FiltersIntegral, Zenon DEF BellPart
<1> DEFINE p == E!SumOf(x, n)
           q == E!SumOf(y, n)
<1>6. p[0] = q[0]
  BY <1>1, <1>4, SumIs, Zenon
<1>7. \A b \in 1 .. Len(Bells) : p[b - 1] = q[b - 1] => p[b] = q[b]
  BY <1>1, <1>5, SumIs, Zenon
<1> HIDE DEF p, q
<1>8. \A b \in 0 .. Len(Bells) : p[b] = q[b]
  BY ONLY <1>1, <1>6, <1>7, Determined
<1> QED
  BY <1>1, <1>8 DEF p, q

-----------------------------------------------------------------------------
(***************************************************************************)
(* The code: three passes over a chunk. The chunk is the last N samples of *)
(* the stream x, behind the M samples of the chunks before.                *)
(***************************************************************************)

\* The stream x is M samples and then the chunk.
Follows(x, M, chunk) ==
  /\ x \in Seq(Int) /\ M \in Nat /\ chunk \in Seq(Int)
  /\ Len(x) = M + Len(chunk) /\ Len(chunk) <= MaxChunk
  /\ \A i \in 1 .. Len(chunk) : chunk[i] = x[M + i]

Cells == 1 .. MaxChunk

\* What the accumulator can hold, one integer for each place of a chunk.
Sheets == [Cells -> Int]

\* The places of a chunk in its stream.
LEMMA FollowsIs ==
  ASSUME NEW x, NEW M, NEW chunk, Follows(x, M, chunk)
  PROVE  /\ Len(chunk) \in Nat /\ M \in 0 .. Len(x)
         /\ M + 0 = M /\ 0 \in 0 .. Len(chunk)
         /\ \A i \in 1 .. Len(chunk) :
              /\ i \in Cells /\ i # 0 /\ i \in 0 .. Len(chunk)
              /\ i - 1 \in 0 .. Len(chunk)
              /\ M + i \in 1 .. Len(x) /\ (M + i) - 1 = M + (i - 1)
         /\ \A i \in 0 .. Len(chunk) : i = 0 \/ (i # 0 /\ i \in 1 .. Len(chunk))
<1>1. Len(chunk) \in Nat /\ M \in Nat /\ Len(x) = M + Len(chunk) /\ Len(chunk) <= MaxChunk
      /\ MaxChunk \in Nat
  BY FilterChainAssumption DEF Follows
<1> QED
  BY <1>1 DEF Cells

\* One sample through a shelf, whose currents are those of the stream so far.
LEMMA LowshelfStep ==
  ASSUME NEW x \in Seq(Int), NEW n \in 1 .. Len(x)
  PROVE  E!LowshelfOut(E!Alone(Lowshelf, x)[n - 1].ic, x[n])
           = [ic |-> E!Alone(Lowshelf, x)[n].ic, out |-> LowPart(x, n)]
<1>1. E!Alone(Lowshelf, x)[n] = E!Voltages(Lowshelf, E!Alone(Lowshelf, x)[n - 1].ic, x[n])
  BY AloneIs, FiltersIntegral, Zenon
<1> QED
  BY <1>1, Zenon DEF E!LowshelfOut, LowPart

\* One sample through the high shelf is the next step of it alone.
LEMMA HighshelfStep ==
  ASSUME NEW x \in Seq(Int), NEW n \in 1 .. Len(x)
  PROVE  E!HighshelfOut(E!Alone(Highshelf, x)[n - 1].ic, x[n])
           = [ic |-> E!Alone(Highshelf, x)[n].ic, out |-> HighPart(x, n)]
<1>1. E!Alone(Highshelf, x)[n] = E!Voltages(Highshelf, E!Alone(Highshelf, x)[n - 1].ic, x[n])
  BY AloneIs, FiltersIntegral, Zenon
<1> QED
  BY <1>1, Zenon DEF E!HighshelfOut, HighPart

\* One sample through a bell is the next step of it alone.
LEMMA BellStep ==
  ASSUME NEW x \in Seq(Int), NEW n \in 1 .. Len(x), NEW b \in 1 .. Len(Bells)
  PROVE  E!BellOut(b, E!Alone(Bells[b], x)[n - 1].ic, x[n])
           = [ic |-> E!Alone(Bells[b], x)[n].ic, out |-> BellPart(x, n, b)]
<1>1. E!Alone(Bells[b], x)[n] = E!Voltages(Bells[b], E!Alone(Bells[b], x)[n - 1].ic, x[n])
  BY AloneIs, FiltersIntegral, Zenon
<1> QED
  BY <1>1, Zenon DEF E!BellOut, BellPart

\* The first pass overwrites what the last chunk left in the accumulator.
LEMMA LowshelfPassIs ==
  ASSUME NEW x, NEW M, NEW chunk, Follows(x, M, chunk), NEW acc \in Sheets
  PROVE  E!filter_lowshelf([ic |-> E!Alone(Lowshelf, x)[M].ic, acc |-> acc], chunk) =
           [ic  |-> E!Alone(Lowshelf, x)[Len(x)].ic,
            acc |-> [j \in Cells |-> IF j <= Len(chunk) THEN LowPart(x, M + j) ELSE acc[j]]]
<1> DEFINE s == [ic |-> E!Alone(Lowshelf, x)[M].ic, acc |-> acc]
           N == Len(chunk)
           Sums(i) == [j \in Cells |-> IF j <= i THEN LowPart(x, M + j) ELSE acc[j]]
           Now(i) == [ic |-> E!Alone(Lowshelf, x)[M + i].ic, acc |-> Sums(i)]
           Body(r, i) == [ic  |-> E!LowshelfOut(r.ic, chunk[i]).ic,
                          acc |-> [r.acc EXCEPT ![i] = E!LowshelfOut(r.ic, chunk[i]).out]]
           Value(f, i) == IF i = 0 THEN s ELSE Body(f[i - 1], i)
           z == [i \in 0 .. N |-> Now(i)]
<1>1. /\ N \in Nat /\ M + 0 = M /\ 0 \in 0 .. N
      /\ \A i \in 1 .. N : /\ i \in Cells /\ i # 0 /\ i \in 0 .. N /\ i - 1 \in 0 .. N
                           /\ M + i \in 1 .. Len(x) /\ (M + i) - 1 = M + (i - 1)
      /\ \A i \in 0 .. N : i = 0 \/ (i # 0 /\ i \in 1 .. N)
  BY FollowsIs
<1>2. /\ x \in Seq(Int) /\ \A i \in 1 .. N : chunk[i] = x[M + i]
      /\ Len(x) = M + N
  BY DEF Follows
<1> HIDE DEF N
<1>3. Now(0) = s
  <2>1. \A j \in Cells : ~ (j <= 0)
    BY DEF Cells
  <2>2. Sums(0) = acc
    BY <2>1 DEF Sheets
  <2> QED
    BY <1>1, <2>2, Zenon
<1>4. ASSUME NEW i \in 1 .. N PROVE Now(i) = Body(Now(i - 1), i)
  <2>1. E!LowshelfOut(E!Alone(Lowshelf, x)[M + (i - 1)].ic, chunk[i])
          = [ic |-> E!Alone(Lowshelf, x)[M + i].ic, out |-> LowPart(x, M + i)]
    <3>1. E!LowshelfOut(E!Alone(Lowshelf, x)[(M + i) - 1].ic, x[M + i])
            = [ic |-> E!Alone(Lowshelf, x)[M + i].ic, out |-> LowPart(x, M + i)]
      BY <1>1, <1>2, LowshelfStep, Zenon
    <3> QED
      BY <1>1, <1>2, <3>1, Zenon
  <2>2. [Sums(i - 1) EXCEPT ![i] = LowPart(x, M + i)] = Sums(i)
    <3>1. \A j \in Cells : /\ j = i => j <= i
                           /\ j # i => (j <= i <=> j <= i - 1)
      BY <1>1 DEF Cells
    <3>2. i \in Cells
      BY <1>1
    <3> QED
      BY <3>1, <3>2
  <2> HIDE DEF Sums
  <2>3. Body(Now(i - 1), i) =
          [ic  |-> E!LowshelfOut(E!Alone(Lowshelf, x)[M + (i - 1)].ic, chunk[i]).ic,
           acc |-> [Sums(i - 1) EXCEPT
                      ![i] = E!LowshelfOut(E!Alone(Lowshelf, x)[M + (i - 1)].ic, chunk[i]).out]]
    OBVIOUS
  <2> HIDE DEF Body
  <2> QED
    BY <2>1, <2>2, <2>3
<1>5. z = [i \in 0 .. N |-> Value(z, i)]
  <2> HIDE DEF Now, Body
  <2>1. \A i \in 0 .. N : z[i] = Value(z, i)
    BY <1>1, <1>3, <1>4, Zenon
  <2> HIDE DEF Value
  <2>2. z = [i \in 0 .. N |-> z[i]]
    OBVIOUS
  <2> HIDE DEF z
  <2> QED
    BY <2>1, <2>2
<1> DEFINE y == CHOOSE f : f = [i \in 0 .. N |-> Value(f, i)]
<1> HIDE DEF Now, Body, z
<1>6. y = [i \in 0 .. N |-> Value(y, i)]
  <2> HIDE DEF Value
  <2> QED
    BY <1>5
<1>7. E!LowshelfPass(s, chunk) = y
  BY Zenon DEF E!LowshelfPass, N, Body
<1> HIDE DEF y
<1>8. \A i \in 0 .. N : y[i] = Value(y, i) /\ z[i] = Value(z, i)
  <2> HIDE DEF Value
  <2> QED
    BY <1>5, <1>6
<1>9. \A i \in 0 .. N : y[i] = z[i]
  <2>1. y[0] = z[0] /\ \A i \in 1 .. N : y[i - 1] = z[i - 1] => y[i] = z[i]
    BY <1>1, <1>8, Zenon
  <2>2. N \in Nat
    BY <1>1
  <2> QED
    BY ONLY <2>1, <2>2, Determined
<1> HIDE DEF s
<1>10. N \in 0 .. N
  BY <1>1
<1>11. E!filter_lowshelf(s, chunk) = Now(N)
  BY <1>7, <1>9, <1>10 DEF E!filter_lowshelf, N, z
<1> QED
  BY <1>2, <1>11, Zenon DEF Now, N, s

\* The second pass adds to it.
LEMMA HighshelfPassIs ==
  ASSUME NEW x, NEW M, NEW chunk, Follows(x, M, chunk), NEW acc \in Sheets
  PROVE  E!filter_highshelf([ic |-> E!Alone(Highshelf, x)[M].ic, acc |-> acc], chunk) =
           [ic  |-> E!Alone(Highshelf, x)[Len(x)].ic,
            acc |-> [j \in Cells |-> IF j <= Len(chunk) THEN acc[j] + HighPart(x, M + j) ELSE acc[j]]]
<1> DEFINE s == [ic |-> E!Alone(Highshelf, x)[M].ic, acc |-> acc]
           N == Len(chunk)
           Sums(i) == [j \in Cells |-> IF j <= i THEN acc[j] + HighPart(x, M + j) ELSE acc[j]]
           Now(i) == [ic |-> E!Alone(Highshelf, x)[M + i].ic, acc |-> Sums(i)]
           Body(r, i) == [ic  |-> E!HighshelfOut(r.ic, chunk[i]).ic,
                          acc |-> [r.acc EXCEPT ![i] = @ + E!HighshelfOut(r.ic, chunk[i]).out]]
           Value(f, i) == IF i = 0 THEN s ELSE Body(f[i - 1], i)
           z == [i \in 0 .. N |-> Now(i)]
<1>1. /\ N \in Nat /\ M + 0 = M /\ 0 \in 0 .. N
      /\ \A i \in 1 .. N : /\ i \in Cells /\ i # 0 /\ i \in 0 .. N /\ i - 1 \in 0 .. N
                           /\ M + i \in 1 .. Len(x) /\ (M + i) - 1 = M + (i - 1)
      /\ \A i \in 0 .. N : i = 0 \/ (i # 0 /\ i \in 1 .. N)
  BY FollowsIs
<1>2. /\ x \in Seq(Int) /\ \A i \in 1 .. N : chunk[i] = x[M + i]
      /\ Len(x) = M + N
  BY DEF Follows
<1> HIDE DEF N
<1>3. Now(0) = s
  <2>1. \A j \in Cells : ~ (j <= 0)
    BY DEF Cells
  <2>2. Sums(0) = acc
    BY <2>1 DEF Sheets
  <2> QED
    BY <1>1, <2>2, Zenon
<1>4. ASSUME NEW i \in 1 .. N PROVE Now(i) = Body(Now(i - 1), i)
  <2>1. E!HighshelfOut(E!Alone(Highshelf, x)[M + (i - 1)].ic, chunk[i])
          = [ic |-> E!Alone(Highshelf, x)[M + i].ic, out |-> HighPart(x, M + i)]
    <3>1. E!HighshelfOut(E!Alone(Highshelf, x)[(M + i) - 1].ic, x[M + i])
            = [ic |-> E!Alone(Highshelf, x)[M + i].ic, out |-> HighPart(x, M + i)]
      BY <1>1, <1>2, HighshelfStep, Zenon
    <3> QED
      BY <1>1, <1>2, <3>1, Zenon
  <2>2. [Sums(i - 1) EXCEPT ![i] = @ + HighPart(x, M + i)] = Sums(i)
    <3>1. \A j \in Cells : /\ j = i => j <= i /\ ~ (j <= i - 1)
                           /\ j # i => (j <= i <=> j <= i - 1)
      BY <1>1 DEF Cells
    <3>2. i \in Cells
      BY <1>1
    <3> QED
      BY <3>1, <3>2
  <2> HIDE DEF Sums
  <2>3. Body(Now(i - 1), i) =
          [ic  |-> E!HighshelfOut(E!Alone(Highshelf, x)[M + (i - 1)].ic, chunk[i]).ic,
           acc |-> [Sums(i - 1) EXCEPT
                      ![i] = @ + E!HighshelfOut(E!Alone(Highshelf, x)[M + (i - 1)].ic, chunk[i]).out]]
    OBVIOUS
  <2> HIDE DEF Body
  <2> QED
    BY <2>1, <2>2, <2>3
<1>5. z = [i \in 0 .. N |-> Value(z, i)]
  <2> HIDE DEF Now, Body
  <2>1. \A i \in 0 .. N : z[i] = Value(z, i)
    BY <1>1, <1>3, <1>4, Zenon
  <2> HIDE DEF Value
  <2>2. z = [i \in 0 .. N |-> z[i]]
    OBVIOUS
  <2> HIDE DEF z
  <2> QED
    BY <2>1, <2>2
<1> DEFINE y == CHOOSE f : f = [i \in 0 .. N |-> Value(f, i)]
<1> HIDE DEF Now, Body, z
<1>6. y = [i \in 0 .. N |-> Value(y, i)]
  <2> HIDE DEF Value
  <2> QED
    BY <1>5
<1>7. E!HighshelfPass(s, chunk) = y
  BY Zenon DEF E!HighshelfPass, N, Body
<1> HIDE DEF y
<1>8. \A i \in 0 .. N : y[i] = Value(y, i) /\ z[i] = Value(z, i)
  <2> HIDE DEF Value
  <2> QED
    BY <1>5, <1>6
<1>9. \A i \in 0 .. N : y[i] = z[i]
  <2>1. y[0] = z[0] /\ \A i \in 1 .. N : y[i - 1] = z[i - 1] => y[i] = z[i]
    BY <1>1, <1>8, Zenon
  <2>2. N \in Nat
    BY <1>1
  <2> QED
    BY ONLY <2>1, <2>2, Determined
<1> HIDE DEF s
<1>10. N \in 0 .. N
  BY <1>1
<1>11. E!filter_highshelf(s, chunk) = Now(N)
  BY <1>7, <1>9, <1>10 DEF E!filter_highshelf, N, z
<1> QED
  BY <1>2, <1>11, Zenon DEF Now, N, s

\* The numbers of the bells.
Ring == 1 .. Len(Bells)

\* The currents of the bells after n samples of a stream.
BellCurrents(x, n) == [k \in Ring |-> E!Alone(Bells[k], x)[n].ic]

\* One sample through the bells adds them up and moves each one's currents.
LEMMA RingIs ==
  ASSUME NEW x \in Seq(Int), NEW n \in 1 .. Len(x), NEW i \in Cells, NEW acc \in Sheets,
         acc[i] = E!SumOf(x, n)[0]
  PROVE  E!Ring([ic |-> BellCurrents(x, n - 1), acc |-> acc], x[n], i)[Len(Bells)] =
           [ic  |-> BellCurrents(x, n),
            acc |-> [acc EXCEPT ![i] = E!SumOf(x, n)[Len(Bells)]]]
<1> DEFINE s == [ic |-> BellCurrents(x, n - 1), acc |-> acc]
           v0 == x[n]
           N == Len(Bells)
           ics(b) == [k \in Ring |-> IF k <= b THEN E!Alone(Bells[k], x)[n].ic
                                               ELSE E!Alone(Bells[k], x)[n - 1].ic]
           Now(b) == [ic |-> ics(b), acc |-> [acc EXCEPT ![i] = E!SumOf(x, n)[b]]]
           Body(r, b) == [ic  |-> [r.ic EXCEPT ![b] = E!BellOut(b, r.ic[b], v0).ic],
                          acc |-> [r.acc EXCEPT ![i] = @ + E!BellOut(b, r.ic[b], v0).out]]
           Value(f, b) == IF b = 0 THEN s ELSE Body(f[b - 1], b)
           z == [b \in 0 .. N |-> Now(b)]
<1>1. /\ N \in Nat /\ 0 \in 0 .. N /\ N \in 0 .. N /\ \A k \in Ring : ~ (k <= 0) /\ k <= N
      /\ \A b \in 1 .. N : b \in Ring /\ b # 0 /\ b \in 0 .. N /\ b - 1 \in 0 .. N
      /\ \A b \in 0 .. N : b = 0 \/ (b # 0 /\ b \in 1 .. N)
  <2>1. N \in Nat
    BY FilterChainAssumption
  <2>2. Ring = 1 .. N
    BY DEF Ring
  <2> HIDE DEF N
  <2> QED
    BY <2>1, <2>2
<1>2. \A b \in 1 .. N : E!SumOf(x, n)[b] = E!SumOf(x, n)[b - 1] + BellPart(x, n, b)
  BY SumIs
<1> HIDE DEF N
<1>3. Now(0) = s
  <2>1. ics(0) = [k \in Ring |-> E!Alone(Bells[k], x)[n - 1].ic]
    BY <1>1
  <2>2. [acc EXCEPT ![i] = E!SumOf(x, n)[0]] = acc
    BY DEF Sheets
  <2> QED
    BY <2>1, <2>2, Zenon DEF BellCurrents
<1>4. ASSUME NEW b \in 1 .. N PROVE Now(b) = Body(Now(b - 1), b)
  <2> DEFINE sum == E!SumOf(x, n)
             f == E!BellOut(b, ics(b - 1)[b], v0)
             acc1 == [acc EXCEPT ![i] = sum[b - 1]]
  <2>1. ics(b - 1)[b] = E!Alone(Bells[b], x)[n - 1].ic
    BY <1>1
  <2>2. f = [ic |-> E!Alone(Bells[b], x)[n].ic, out |-> BellPart(x, n, b)]
    <3>1. b \in 1 .. Len(Bells)
      BY DEF N
    <3>2. E!BellOut(b, E!Alone(Bells[b], x)[n - 1].ic, x[n])
            = [ic |-> E!Alone(Bells[b], x)[n].ic, out |-> BellPart(x, n, b)]
      BY <3>1, BellStep, Zenon
    <3> QED
      BY <2>1, <3>2, Zenon
  <2>3. [ics(b - 1) EXCEPT ![b] = f.ic] = ics(b)
    <3>1. f.ic = E!Alone(Bells[b], x)[n].ic
      BY <2>2
    <3>2. \A k \in Ring : /\ k = b => k <= b
                          /\ k # b => (k <= b <=> k <= b - 1)
      BY <1>1 DEF Ring
    <3>3. b \in Ring
      BY <1>1
    <3> HIDE DEF f
    <3> QED
      BY <3>1, <3>2, <3>3
  <2>4. [acc1 EXCEPT ![i] = @ + f.out] = [acc EXCEPT ![i] = sum[b]]
    <3>1. f.out = BellPart(x, n, b)
      BY <2>2
    <3>2. sum[b] = sum[b - 1] + f.out
      <4> HIDE DEF f
      <4> QED
        BY <1>2, <3>1, Zenon
    <3> DEFINE before == sum[b - 1]
               now == sum[b]
               part == f.out
    <3>3. now = before + part
      BY <3>2
    <3> HIDE DEF before, now, part
    <3>4. acc \in [Cells -> Int] /\ i \in Cells
      BY DEF Sheets
    <3>5. [[acc EXCEPT ![i] = before] EXCEPT ![i] = @ + part] = [acc EXCEPT ![i] = now]
      BY ONLY <3>3, <3>4
    <3> QED
      BY <3>5, Zenon DEF before, now, part
  <2>5. Body(Now(b - 1), b) = [ic  |-> [ics(b - 1) EXCEPT ![b] = f.ic],
                               acc |-> [acc1 EXCEPT ![i] = @ + f.out]]
    <3> HIDE DEF ics
    <3> QED
      OBVIOUS
  <2> HIDE DEF Body, ics, f, acc1
  <2> QED
    BY <2>3, <2>4, <2>5
<1>5. z = [b \in 0 .. N |-> Value(z, b)]
  <2> HIDE DEF Now, Body
  <2>1. \A b \in 0 .. N : z[b] = Value(z, b)
    BY <1>1, <1>3, <1>4, Zenon
  <2> HIDE DEF Value
  <2>2. z = [b \in 0 .. N |-> z[b]]
    OBVIOUS
  <2> HIDE DEF z
  <2> QED
    BY <2>1, <2>2
<1> DEFINE y == CHOOSE f : f = [b \in 0 .. N |-> Value(f, b)]
<1> HIDE DEF Now, Body, z
<1>6. y = [b \in 0 .. N |-> Value(y, b)]
  <2> HIDE DEF Value
  <2> QED
    BY <1>5
<1>7. E!Ring(s, v0, i) = y
  BY Zenon DEF E!Ring, N, Body
<1> HIDE DEF y
<1>8. \A b \in 0 .. N : y[b] = Value(y, b) /\ z[b] = Value(z, b)
  <2> HIDE DEF Value
  <2> QED
    BY <1>5, <1>6
<1>9. \A b \in 0 .. N : y[b] = z[b]
  <2>1. y[0] = z[0] /\ \A b \in 1 .. N : y[b - 1] = z[b - 1] => y[b] = z[b]
    BY <1>1, <1>8, Zenon
  <2>2. N \in Nat
    BY <1>1
  <2> QED
    BY ONLY <2>1, <2>2, Determined
<1> HIDE DEF s, v0
<1>10. E!Ring(s, v0, i)[Len(Bells)] = Now(N)
  BY <1>1, <1>7, <1>9 DEF N, z
<1>11. ics(N) = [k \in Ring |-> E!Alone(Bells[k], x)[n].ic]
  BY <1>1
<1> QED
  BY <1>10, <1>11, Zenon DEF Now, N, s, v0, BellCurrents

\* The third pass adds the bells to it.
LEMMA BellPassIs ==
  ASSUME NEW x, NEW M, NEW chunk, Follows(x, M, chunk), NEW acc \in Sheets,
         \A j \in 1 .. Len(chunk) : acc[j] = LowPart(x, M + j) + HighPart(x, M + j)
  PROVE  E!filter_bell([ic |-> BellCurrents(x, M), acc |-> acc], chunk) =
           [ic  |-> BellCurrents(x, Len(x)),
            acc |-> [j \in Cells |-> IF j <= Len(chunk) THEN E!SumOf(x, M + j)[Len(Bells)]
                                                        ELSE acc[j]]]
<1> DEFINE s == [ic |-> BellCurrents(x, M), acc |-> acc]
           N == Len(chunk)
           Sums(i) == [j \in Cells |-> IF j <= i THEN E!SumOf(x, M + j)[Len(Bells)] ELSE acc[j]]
           Now(i) == [ic |-> BellCurrents(x, M + i), acc |-> Sums(i)]
           Body(r, i) == E!Ring(r, chunk[i], i)[Len(Bells)]
           Value(f, i) == IF i = 0 THEN s ELSE Body(f[i - 1], i)
           z == [i \in 0 .. N |-> Now(i)]
<1>1. /\ N \in Nat /\ M + 0 = M /\ 0 \in 0 .. N
      /\ \A i \in 1 .. N : /\ i \in Cells /\ i # 0 /\ i \in 0 .. N /\ i - 1 \in 0 .. N
                           /\ M + i \in 1 .. Len(x) /\ (M + i) - 1 = M + (i - 1)
      /\ \A i \in 0 .. N : i = 0 \/ (i # 0 /\ i \in 1 .. N)
  BY FollowsIs
<1>2. /\ x \in Seq(Int) /\ \A i \in 1 .. N : chunk[i] = x[M + i]
      /\ Len(x) = M + N
  BY DEF Follows
<1>3. \A i \in 1 .. N : acc[i] = E!SumOf(x, M + i)[0]
  BY <1>1, <1>2, SumIs, Zenon
<1>3a. Len(Bells) \in 0 .. Len(Bells)
  BY FilterChainAssumption
<1> HIDE DEF N
<1>4. Now(0) = s
  <2>1. \A j \in Cells : ~ (j <= 0)
    BY DEF Cells
  <2>2. Sums(0) = acc
    BY <2>1 DEF Sheets
  <2> QED
    BY <1>1, <2>2, Zenon
<1>5. ASSUME NEW i \in 1 .. N PROVE Now(i) = Body(Now(i - 1), i)
  <2> DEFINE n == M + i
             old == Sums(i - 1)
  <2>1. i \in Cells /\ n \in 1 .. Len(x) /\ chunk[i] = x[n] /\ n - 1 = M + (i - 1)
    BY <1>1, <1>2
  <2>2. old \in Sheets
    <3>1. ASSUME NEW j \in Cells, j <= i - 1 PROVE E!SumOf(x, M + j)[Len(Bells)] \in Int
      <4>1. j \in 1 .. N
        BY <1>1, <3>1 DEF Cells
      <4>2. M + j \in 1 .. Len(x)
        BY <1>1, <4>1
      <4> QED
        BY <1>2, <1>3a, <4>2, SumIs
    <3> QED
      BY <3>1 DEF Sheets
  <2>3. old[i] = E!SumOf(x, n)[0]
    <3>1. ~ (i <= i - 1)
      BY <1>1
    <3>2. old[i] = acc[i]
      BY <2>1, <3>1
    <3> QED
      BY <1>3, <3>2, Zenon
  <2>4. Now(i - 1) = [ic |-> BellCurrents(x, n - 1), acc |-> old]
    BY <2>1, Zenon
  <2>5. [old EXCEPT ![i] = E!SumOf(x, n)[Len(Bells)]] = Sums(i)
    <3>1. \A j \in Cells : /\ j = i => j <= i
                           /\ j # i => (j <= i <=> j <= i - 1)
      BY <1>1 DEF Cells
    <3> QED
      BY <2>1, <3>1
  <2> HIDE DEF Now, old, n
  <2>6. E!Ring(Now(i - 1), chunk[i], i)[Len(Bells)] =
          [ic  |-> BellCurrents(x, n),
           acc |-> [old EXCEPT ![i] = E!SumOf(x, n)[Len(Bells)]]]
    <3> DEFINE r == Now(i - 1)
               v == chunk[i]
    <3>1. /\ v = x[n]
          /\ r = [ic |-> BellCurrents(x, n - 1), acc |-> old]
          /\ x \in Seq(Int) /\ n \in 1 .. Len(x) /\ i \in Cells
      BY <1>2, <2>1, <2>4, Zenon
    <3> HIDE DEF r, v
    <3>2. E!Ring(r, v, i)[Len(Bells)] =
            [ic  |-> BellCurrents(x, n),
             acc |-> [old EXCEPT ![i] = E!SumOf(x, n)[Len(Bells)]]]
      BY <2>2, <2>3, <3>1, RingIs, Zenon
    <3> QED
      BY <3>2 DEF r, v
  <2> HIDE DEF Sums
  <2> QED
    BY <2>5, <2>6, Zenon DEF Now, n
<1>6. z = [i \in 0 .. N |-> Value(z, i)]
  <2> HIDE DEF Now, Body
  <2>1. \A i \in 0 .. N : z[i] = Value(z, i)
    BY <1>1, <1>4, <1>5, Zenon
  <2> HIDE DEF Value
  <2>2. z = [i \in 0 .. N |-> z[i]]
    OBVIOUS
  <2> HIDE DEF z
  <2> QED
    BY <2>1, <2>2
<1> DEFINE y == CHOOSE f : f = [i \in 0 .. N |-> Value(f, i)]
<1> HIDE DEF Now, Body, z
<1>7. y = [i \in 0 .. N |-> Value(y, i)]
  <2> HIDE DEF Value
  <2> QED
    BY <1>6
<1>8. E!BellPass(s, chunk) = y
  BY Zenon DEF E!BellPass, N, Body
<1> HIDE DEF y
<1>9. \A i \in 0 .. N : y[i] = Value(y, i) /\ z[i] = Value(z, i)
  <2> HIDE DEF Value
  <2> QED
    BY <1>6, <1>7
<1>10. \A i \in 0 .. N : y[i] = z[i]
  <2>1. y[0] = z[0] /\ \A i \in 1 .. N : y[i - 1] = z[i - 1] => y[i] = z[i]
    BY <1>1, <1>9, Zenon
  <2>2. N \in Nat
    BY <1>1
  <2> QED
    BY ONLY <2>1, <2>2, Determined
<1> HIDE DEF s
<1>11. N \in 0 .. N
  BY <1>1
<1>12. E!filter_bell(s, chunk) = Now(N)
  BY <1>8, <1>10, <1>11 DEF E!filter_bell, N, z
<1> QED
  BY <1>2, <1>12, Zenon DEF Now, N, s

\* What the equalizer should write for a whole stream.
Bank(x) == [n \in 1 .. Len(x) |-> E!Normalised(E!SumOf(x, n)[Len(Bells)])]

\* The equalizer after a stream: every filter stands where it would stand had
\* it run alone, and what was written is the sum of all.
BankStands ==
  /\ mono \in Seq(Int)
  /\ low = E!Alone(Lowshelf, mono)[Len(mono)].ic
  /\ high = E!Alone(Highshelf, mono)[Len(mono)].ic
  /\ bell = BellCurrents(mono, Len(mono))
  /\ accumulator \in Sheets
  /\ equalized = Bank(mono)

\* The sums of a stream are as many integers as it has.
LEMMA BankTyped ==
  ASSUME NEW x \in Seq(Int)
  PROVE  Bank(x) \in Seq(Int) /\ Len(Bank(x)) = Len(x)
<1>1. Len(Bells) \in 0 .. Len(Bells) /\ Len(x) \in Nat
  BY FilterChainAssumption
<1>2. ASSUME NEW n \in 1 .. Len(x) PROVE E!Normalised(E!SumOf(x, n)[Len(Bells)]) \in Int
  <2>1. E!SumOf(x, n)[Len(Bells)] \in Int
    BY <1>1, SumIs
  <2>2. \A a \in Int : E!Normalised(a) \in Int
    BY DEF E!Normalised
  <2> QED
    BY <2>1, <2>2
<1> QED
  BY <1>1, <1>2 DEF Bank

\* What a stream and its next chunk are put together.
LEMMA Chunked ==
  ASSUME NEW x \in Seq(Int), NEW chunk \in Seq(Int)
  PROVE  /\ x \o chunk \in Seq(Int)
         /\ Len(x) \in Nat /\ Len(chunk) \in Nat /\ Len(x \o chunk) = Len(x) + Len(chunk)
         /\ \A n \in 1 .. Len(x) : (x \o chunk)[n] = x[n]
         /\ \A n \in 1 .. Len(chunk) : (x \o chunk)[Len(x) + n] = chunk[n]
OBVIOUS

\* A chunk through the bank keeps all of it, wherever the stream is cut.
LEMMA BankChunk ==
  ASSUME BankStands, NEW chunk \in Seq(Int), Len(chunk) <= MaxChunk, E!Equalize(chunk)
  PROVE  BankStands'
<1> DEFINE x == mono \o chunk
           M == Len(mono)
           N == Len(chunk)
           s1 == [ic |-> low, acc |-> accumulator]
           l == E!filter_lowshelf(s1, chunk)
           s2 == [ic |-> high, acc |-> l.acc]
           h == E!filter_highshelf(s2, chunk)
           s3 == [ic |-> bell, acc |-> h.acc]
           b == E!filter_bell(s3, chunk)
           A1 == [j \in Cells |-> IF j <= N THEN LowPart(x, M + j) ELSE accumulator[j]]
           A2 == [j \in Cells |-> IF j <= N THEN A1[j] + HighPart(x, M + j) ELSE A1[j]]
           A3 == [j \in Cells |-> IF j <= N THEN E!SumOf(x, M + j)[Len(Bells)] ELSE A2[j]]
<1>1. /\ mono \in Seq(Int) /\ x \in Seq(Int) /\ M \in Nat /\ N \in Nat /\ Len(x) = M + N
      /\ M \in 0 .. M /\ M <= Len(x) /\ N <= MaxChunk
      /\ \A n \in 1 .. M : x[n] = mono[n]
      /\ \A n \in 1 .. N : x[M + n] = chunk[n] /\ M + n \in 1 .. Len(x) /\ n \in Cells
  <2>1. mono \in Seq(Int)
    BY DEF BankStands
  <2>2. MaxChunk \in Nat
    BY FilterChainAssumption
  <2> QED
    BY <2>1, <2>2, Chunked DEF Cells
<1>2. Follows(x, M, chunk)
  BY <1>1 DEF Follows
<1>3. /\ low' = l.ic /\ high' = h.ic /\ bell' = b.ic /\ accumulator' = b.acc
      /\ equalized' = equalized \o [i \in DOMAIN chunk |-> E!Normalised(b.acc[i])]
      /\ mono' = x
  BY Zenon DEF E!Equalize
<1> HIDE DEF x, M, N
<1>4. \A c : Integral(c) => E!Alone(c, mono)[M] = E!Alone(c, x)[M]
  <2>1. M = Len(mono)
    BY DEF M
  <2> QED
    BY <1>1, <2>1, AlonePrefix
<1>5. /\ low = E!Alone(Lowshelf, x)[M].ic
      /\ high = E!Alone(Highshelf, x)[M].ic
  BY <1>4, FiltersIntegral, Zenon DEF BankStands, M
<1>6. bell = BellCurrents(x, M)
  <2>1. bell = [k \in Ring |-> E!Alone(Bells[k], mono)[M].ic]
    BY Zenon DEF BankStands, BellCurrents, M
  <2>2. \A k \in Ring : E!Alone(Bells[k], mono)[M] = E!Alone(Bells[k], x)[M]
    BY <1>4, FiltersIntegral, Zenon DEF Ring
  <2> QED
    BY <2>1, <2>2, Zenon DEF BellCurrents
<1>7. A1 \in Sheets /\ A2 \in Sheets /\ A3 \in Sheets
  <2>1. \A j \in Cells : accumulator[j] \in Int
    BY DEF BankStands, Sheets
  <2>2. ASSUME NEW j \in Cells, j <= N
        PROVE  /\ LowPart(x, M + j) \in Int /\ HighPart(x, M + j) \in Int
               /\ E!SumOf(x, M + j)[Len(Bells)] \in Int
    <3>1. M + j \in 1 .. Len(x)
      BY <1>1, <2>2 DEF Cells
    <3>2. Len(Bells) \in 0 .. Len(Bells)
      BY FilterChainAssumption
    <3> QED
      BY <1>1, <3>1, <3>2, PartsInt, SumIs
  <2>3. A1 \in [Cells -> Int]
    BY <2>1, <2>2
  <2>4. A2 \in [Cells -> Int]
    <3> HIDE DEF A1
    <3> QED
      BY <2>2, <2>3
  <2> HIDE DEF A1, A2
  <2> QED
    BY <2>2, <2>3, <2>4 DEF Sheets
<1>8. l = [ic |-> E!Alone(Lowshelf, x)[Len(x)].ic, acc |-> A1]
  <2>1. accumulator \in Sheets
    BY DEF BankStands
  <2>2. E!filter_lowshelf([ic |-> E!Alone(Lowshelf, x)[M].ic, acc |-> accumulator], chunk)
          = [ic |-> E!Alone(Lowshelf, x)[Len(x)].ic, acc |-> A1]
    BY <1>2, <2>1, LowshelfPassIs DEF N
  <2>3. s1 = [ic |-> E!Alone(Lowshelf, x)[M].ic, acc |-> accumulator]
    BY <1>5, Zenon
  <2> QED
    BY <2>2, <2>3, Zenon
<1>9. \A j \in 1 .. N : A1[j] = LowPart(x, M + j)
  BY <1>1
<1> HIDE DEF A1
<1>10. h = [ic |-> E!Alone(Highshelf, x)[Len(x)].ic, acc |-> A2]
  <2>1. l.acc = A1
    BY <1>8
  <2>2. E!filter_highshelf([ic |-> E!Alone(Highshelf, x)[M].ic, acc |-> A1], chunk)
          = [ic |-> E!Alone(Highshelf, x)[Len(x)].ic, acc |-> A2]
    BY <1>2, <1>7, HighshelfPassIs DEF N
  <2> HIDE DEF l
  <2>3. s2 = [ic |-> E!Alone(Highshelf, x)[M].ic, acc |-> A1]
    BY <1>5, <2>1, Zenon
  <2> QED
    BY <2>2, <2>3, Zenon
<1>11. \A j \in 1 .. N : A2[j] = LowPart(x, M + j) + HighPart(x, M + j)
  BY <1>1, <1>9
<1> HIDE DEF A2
<1>12. b = [ic |-> BellCurrents(x, Len(x)), acc |-> A3]
  <2>1. h.acc = A2
    BY <1>10
  <2>2. E!filter_bell([ic |-> BellCurrents(x, M), acc |-> A2], chunk)
          = [ic |-> BellCurrents(x, Len(x)), acc |-> A3]
    BY <1>2, <1>7, <1>11, BellPassIs DEF N
  <2> HIDE DEF h
  <2>3. s3 = [ic |-> BellCurrents(x, M), acc |-> A2]
    BY <1>6, <2>1, Zenon
  <2> QED
    BY <2>2, <2>3, Zenon
<1>13. \A j \in 1 .. N : A3[j] = E!SumOf(x, M + j)[Len(Bells)]
  BY <1>1
<1>14. /\ low' = E!Alone(Lowshelf, x)[Len(x)].ic
       /\ high' = E!Alone(Highshelf, x)[Len(x)].ic
       /\ bell' = BellCurrents(x, Len(x))
       /\ accumulator' \in Sheets
       /\ b.acc = A3
  <2> HIDE DEF A3, l, h, b
  <2> QED
    BY <1>3, <1>7, <1>8, <1>10, <1>12
<1> HIDE DEF A3, l, h, b
<1>15. equalized' = Bank(x)
  <2> DEFINE old == Bank(mono)
             new == [i \in 1 .. N |-> E!Normalised(A3[i])]
  <2>1. equalized' = old \o new
    <3>1. DOMAIN chunk = 1 .. N
      BY DEF N
    <3> QED
      BY <1>3, <1>14, <3>1, Zenon DEF BankStands
  <2>2. Bank(x) \in Seq(Int) /\ Len(Bank(x)) = M + N
    BY <1>1, BankTyped
  <2>3. old \in Seq(Int) /\ Len(old) = M
    BY <1>1, BankTyped DEF M
  <2>4. \A i \in 1 .. N : new[i] = Bank(x)[M + i]
    BY <1>1, <1>13, Zenon DEF Bank
  <2>5. \A n \in 1 .. M : old[n] = Bank(x)[n]
    <3>1. ASSUME NEW n \in 1 .. M
          PROVE  E!SumOf(mono, n)[Len(Bells)] = E!SumOf(x, n)[Len(Bells)]
      BY <1>1, SumPrefix DEF M
    <3>2. \A n \in 1 .. M : n \in 1 .. Len(x) /\ n \in 1 .. Len(mono)
      BY <1>1 DEF M
    <3> QED
      BY <3>1, <3>2, Zenon DEF Bank
  <2>6. new \in Seq(Int) /\ Len(new) = N
    <3>1. \A i \in 1 .. N : E!Normalised(A3[i]) \in Int
      <4>1. \A i \in 1 .. N : Bank(x)[M + i] = E!Normalised(A3[i])
        BY <2>4
      <4>2. \A i \in 1 .. N : M + i \in 1 .. M + N
        BY <1>1
      <4> QED
        BY <2>2, <4>1, <4>2
    <3> QED
      BY <1>1, <3>1
  <2> HIDE DEF old, new
  <2>7. old \o new = Bank(x)
    <3>1. old \o new \in Seq(Int) /\ Len(old \o new) = M + N
      BY <2>3, <2>6, Chunked
    <3>2. \A n \in 1 .. M + N : (old \o new)[n] = Bank(x)[n]
      <4>1. \A n \in 1 .. M : (old \o new)[n] = old[n]
        BY <2>3, <2>6
      <4>2. \A i \in 1 .. N : (old \o new)[M + i] = new[i]
        BY <2>3, <2>6
      <4>3. \A n \in 1 .. M + N : n \in 1 .. M \/ (n - M \in 1 .. N /\ M + (n - M) = n)
        BY <1>1
      <4> QED
        BY <2>4, <2>5, <4>1, <4>2, <4>3
    <3> QED
      BY <2>2, <3>1, <3>2
  <2> QED
    BY <2>1, <2>7
<1> QED
  BY <1>1, <1>3, <1>14, <1>15, Zenon DEF BankStands

\* A new equalizer stands after the empty stream.
LEMMA BankBegins ==
  ASSUME E!Init
  PROVE  BankStands
<1>1. /\ low = E!Zero /\ high = E!Zero
      /\ bell = [b \in DOMAIN Bells |-> E!Zero]
      /\ accumulator = [i \in 1 .. MaxChunk |-> 0]
      /\ mono = <<>> /\ equalized = <<>>
  BY Zenon DEF E!Init
<1>2. DOMAIN Bells = Ring
  BY FilterChainAssumption DEF Ring
<1>3. /\ mono \in Seq(Int) /\ Len(mono) = 0
  BY <1>1
<1>4. \A c : Integral(c) => E!Alone(c, mono)[0].ic = E!Zero
  <2>1. \A c : Integral(c) => E!Alone(c, mono)[0] = [v1 |-> 0, v2 |-> 0, ic |-> E!Zero]
    BY <1>3, AloneIs
  <2> QED
    BY <2>1
<1>5. bell = BellCurrents(mono, 0)
  BY <1>1, <1>2, <1>4, FiltersIntegral, Zenon DEF BellCurrents, Ring
<1>6. accumulator \in Sheets
  BY <1>1 DEF Sheets, Cells
<1>7. equalized = Bank(mono)
  <2>1. Bank(mono) \in Seq(Int) /\ Len(Bank(mono)) = 0
    BY <1>3, BankTyped
  <2>2. Bank(mono) = <<>>
    BY <2>1, EmptySeq
  <2> QED
    BY <1>1, <2>2
<1> QED
  BY <1>1, <1>3, <1>4, <1>5, <1>6, <1>7, FiltersIntegral, Zenon DEF BankStands

\* The crossover after a stream: its histories are the last samples of what
\* the filters have made of all of it, and so is what was written.
CrossoverStands(percent) ==
  /\ crossed \in Seq(Int)
  /\ lp = Past(lp_coefficients, crossed) /\ hp = Past(hp_coefficients, crossed)
  /\ stereo = Sides(percent, crossed)

\* Before its first sample a filter remembers silence.
LEMMA SilentPast ==
  ASSUME NEW c \in Coefficients
  PROVE  /\ Past(c, <<>>) \in Histories
         /\ \A i \in 0 .. 3 : Past(c, <<>>).oldinput[i] = 0 /\ Past(c, <<>>).oldoutput[i] = 0
<1> DEFINE x == <<>>
           n == Len(x)
           y == C!Direct(c, x)
           z == C!Direct(c, y)
           p == Past(c, x)
<1>1. /\ x \in Seq(Int) /\ y = C!Direct(c, x) /\ z = C!Direct(c, y) /\ n = Len(x)
      /\ p = Past(c, x)
  OBVIOUS
<1>2. n = 0
  OBVIOUS
<1> HIDE DEF x, n, y, z, p
<1>3. /\ p \in Histories
      /\ p.oldinput[0] = C!At(x, n) /\ p.oldinput[1] = C!At(x, n - 1)
      /\ p.oldinput[2] = C!At(y, n) /\ p.oldinput[3] = C!At(y, n - 1)
      /\ p.oldoutput[0] = C!At(y, n) /\ p.oldoutput[1] = C!At(y, n - 1)
      /\ p.oldoutput[2] = C!At(z, n) /\ p.oldoutput[3] = C!At(z, n - 1)
  BY ONLY <1>1, c \in Coefficients, PastIs
<1>4. \A u : C!At(u, n) = 0 /\ C!At(u, n - 1) = 0
  BY <1>2 DEF C!At
<1>5. \A i \in 0 .. 3 : i = 0 \/ i = 1 \/ i = 2 \/ i = 3
  OBVIOUS
<1>6. \A i \in 0 .. 3 : p.oldinput[i] = 0 /\ p.oldoutput[i] = 0
  BY <1>3, <1>4, <1>5, Zenon
<1> QED
  BY <1>3, <1>6, Zenon DEF p, x

\* A new crossover stands after the empty stream.
LEMMA CrossoverBegins ==
  ASSUME C!Init, NEW percent \in Nat
  PROVE  CrossoverStands(percent)
<1>1. /\ lp = [oldinput |-> [i \in 0 .. 3 |-> 0], oldoutput |-> [i \in 0 .. 3 |-> 0]]
      /\ hp = lp
      /\ crossed = <<>> /\ stereo = <<>>
  BY Zenon DEF C!Init
<1>2. crossed \in Seq(Int) /\ Len(crossed) = 0
  BY <1>1
<1>3. ASSUME NEW c \in Coefficients PROVE Past(c, crossed) = lp
  <2>2. /\ Past(c, crossed) \in Histories
        /\ \A i \in 0 .. 3 : Past(c, crossed).oldinput[i] = 0 /\ Past(c, crossed).oldoutput[i] = 0
    BY <1>1, SilentPast, Zenon
  <2>3. lp \in Histories /\ \A i \in 0 .. 3 : lp.oldinput[i] = 0 /\ lp.oldoutput[i] = 0
    BY <1>1 DEF Histories
  <2>4. \A i \in 0 .. 3 : /\ Past(c, crossed).oldinput[i] = lp.oldinput[i]
                          /\ Past(c, crossed).oldoutput[i] = lp.oldoutput[i]
    BY <2>2, <2>3, Zenon
  <2> QED
    BY <2>2, <2>3, <2>4, SameHistory, Zenon
<1>4. Sides(percent, crossed) = stereo
  <2>1. Sides(percent, crossed) \in Seq(Int) /\ Len(Sides(percent, crossed)) = 2 * Len(crossed)
    BY <1>2, SidesTyped, Zenon
  <2>2. Len(Sides(percent, crossed)) = 0
    BY <1>2, <2>1
  <2> QED
    BY <1>1, <2>1, <2>2, EmptySeq
<1> QED
  BY <1>1, <1>2, <1>3, <1>4, FilterChainAssumption, Zenon DEF CrossoverStands

\* A chunk through the crossover keeps all of it, wherever the stream is cut.
LEMMA CrossoverChunk ==
  ASSUME NEW percent \in Nat, CrossoverStands(percent), NEW chunk \in Seq(Int),
         C!filter_LinkwitzRiley(percent, chunk)
  PROVE  CrossoverStands(percent)'
<1> DEFINE s == [lp |-> lp, hp |-> hp, out |-> <<>>]
           d == C!Filtering(percent, s, chunk)[Len(chunk)]
<1>1. /\ crossed \in Seq(Int)
      /\ lp = Past(lp_coefficients, crossed) /\ hp = Past(hp_coefficients, crossed)
      /\ stereo = Sides(percent, crossed)
  BY Zenon DEF CrossoverStands
<1>2. /\ lp' = d.lp /\ hp' = d.hp /\ stereo' = stereo \o d.out
      /\ crossed' = crossed \o chunk
  BY Zenon DEF C!filter_LinkwitzRiley
<1>3. s = Remembering(crossed)
  BY <1>1, Zenon DEF Remembering
<1> HIDE DEF s
<1>4. d = Filtered(percent, crossed, chunk)
  BY <1>3, Zenon DEF Filtered
<1> HIDE DEF d
<1>5. /\ Filtered(percent, crossed, chunk).lp = Past(lp_coefficients, crossed \o chunk)
      /\ Filtered(percent, crossed, chunk).hp = Past(hp_coefficients, crossed \o chunk)
      /\ Sides(percent, crossed) \o Filtered(percent, crossed, chunk).out
           = Sides(percent, crossed \o chunk)
  BY <1>1, ChunkFiltered, Zenon
<1>6. crossed \o chunk \in Seq(Int)
  BY <1>1
<1> QED
  BY <1>1, <1>2, <1>4, <1>5, <1>6, Zenon DEF CrossoverStands

\* The copy to both channels goes on chunk by chunk.
LEMMA TwiceAppend ==
  ASSUME NEW x \in Seq(Int), NEW chunk \in Seq(Int)
  PROVE  Twice(x \o chunk) = Twice(x) \o Twice(chunk)
<1> DEFINE M == Len(x)
           N == Len(chunk)
           xy == x \o chunk
<1>1. /\ M \in Nat /\ N \in Nat /\ xy \in Seq(Int) /\ Len(xy) = M + N
      /\ \A n \in 1 .. M : xy[n] = x[n] /\ x[n] \in Int
      /\ \A n \in 1 .. N : xy[M + n] = chunk[n] /\ chunk[n] \in Int
      /\ \A n \in 1 .. M + N : xy[n] \in Int
  OBVIOUS
<1> HIDE DEF xy
<1>2. \A m \in Nat : \A i \in 1 .. 2 * m : (i + 1) \div 2 \in 1 .. m
  OBVIOUS
<1>3. /\ Twice(x) \in Seq(Int) /\ Len(Twice(x)) = 2 * M
      /\ \A i \in 1 .. 2 * M : Twice(x)[i] = x[(i + 1) \div 2]
  <2> HIDE DEF M
  <2>1. Twice(x) = [i \in 1 .. 2 * M |-> x[(i + 1) \div 2]]
    BY Zenon DEF Twice, M
  <2> QED
    BY <1>1, <1>2, <2>1
<1>4. /\ Twice(chunk) \in Seq(Int) /\ Len(Twice(chunk)) = 2 * N
      /\ \A i \in 1 .. 2 * N : Twice(chunk)[i] = chunk[(i + 1) \div 2]
  <2> HIDE DEF N
  <2>1. Twice(chunk) = [i \in 1 .. 2 * N |-> chunk[(i + 1) \div 2]]
    BY Zenon DEF Twice, N
  <2> QED
    BY <1>1, <1>2, <2>1
<1> HIDE DEF M, N
<1>5. /\ Twice(xy) \in Seq(Int) /\ Len(Twice(xy)) = 2 * (M + N)
      /\ \A i \in 1 .. 2 * (M + N) : Twice(xy)[i] = xy[(i + 1) \div 2]
  <2>1. Twice(xy) = [i \in 1 .. 2 * (M + N) |-> xy[(i + 1) \div 2]]
    BY <1>1, Zenon DEF Twice
  <2>2. M + N \in Nat
    BY <1>1
  <2> QED
    BY <1>1, <1>2, <2>1, <2>2
<1>6. /\ Twice(x) \o Twice(chunk) \in Seq(Int)
      /\ Len(Twice(x) \o Twice(chunk)) = 2 * M + 2 * N
      /\ \A i \in 1 .. 2 * M : (Twice(x) \o Twice(chunk))[i] = Twice(x)[i]
      /\ \A i \in 1 .. 2 * N : (Twice(x) \o Twice(chunk))[2 * M + i] = Twice(chunk)[i]
  <2> DEFINE p == Twice(x)
             q == Twice(chunk)
  <2>1. p \in Seq(Int) /\ Len(p) = 2 * M /\ q \in Seq(Int) /\ Len(q) = 2 * N
    BY <1>3, <1>4, Zenon
  <2> HIDE DEF p, q
  <2>2. /\ p \o q \in Seq(Int) /\ Len(p \o q) = Len(p) + Len(q)
        /\ \A i \in 1 .. Len(p) : (p \o q)[i] = p[i]
        /\ \A i \in 1 .. Len(q) : (p \o q)[Len(p) + i] = q[i]
    BY <2>1, Chunked, Zenon
  <2>3. /\ p \o q \in Seq(Int) /\ Len(p \o q) = 2 * M + 2 * N
        /\ \A i \in 1 .. 2 * M : (p \o q)[i] = p[i]
        /\ \A i \in 1 .. 2 * N : (p \o q)[2 * M + i] = q[i]
    BY <2>1, <2>2, Zenon
  <2> QED
    BY <2>3 DEF p, q
<1>7. ASSUME NEW i \in 1 .. 2 * (M + N)
      PROVE  (Twice(x) \o Twice(chunk))[i] = Twice(xy)[i]
  <2>1. CASE i <= 2 * M
    <3>1. i \in 1 .. 2 * M /\ (i + 1) \div 2 \in 1 .. M
      BY <1>1, <2>1
    <3> QED
      BY <1>1, <1>3, <1>5, <1>6, <3>1, Zenon
  <2>2. CASE i > 2 * M
    <3> DEFINE j == i - 2 * M
    <3>1. /\ j \in 1 .. 2 * N /\ 2 * M + j = i /\ (j + 1) \div 2 \in 1 .. N
          /\ (i + 1) \div 2 = M + (j + 1) \div 2
      BY <1>1, <2>2
    <3> HIDE DEF j
    <3> QED
      BY <1>1, <1>4, <1>5, <1>6, <3>1, Zenon
  <2>3. i <= 2 * M \/ i > 2 * M
    BY <1>1
  <2> QED
    BY <2>1, <2>2, <2>3
<1>8. 2 * (M + N) = 2 * M + 2 * N
  BY <1>1
<1>9. Twice(xy) = Twice(x) \o Twice(chunk)
  <2> HIDE DEF Twice
  <2> DEFINE left == Twice(xy)
             right == Twice(x) \o Twice(chunk)
             K == 2 * (M + N)
  <2>1. left \in Seq(Int) /\ right \in Seq(Int) /\ Len(left) = K /\ Len(right) = K
        /\ \A i \in 1 .. K : left[i] = right[i]
    BY <1>5, <1>6, <1>7, <1>8
  <2> HIDE DEF left, right, K
  <2>2. left = right
    BY <2>1
  <2> QED
    BY <2>2 DEF left, right
<1> QED
  BY <1>9 DEF xy

-----------------------------------------------------------------------------
(***************************************************************************)
(* The bench program (OfflineFilter), which filters a file in place.       *)
(***************************************************************************)

\* The samples a pass filters, and where they are in the stream it filters.
Taken(first, last, j) == first <= j /\ j <= last /\ (j - first) % 2 = 0
Place(first, j) == (j - first) \div 2 + 1

\* How many of the first i samples a pass has filtered.
Count(first, last, i) ==
  IF i < first \/ last < first THEN 0
  ELSE IF i <= last THEN Place(first, i) ELSE Place(first, last)

\* Each sample taken is the next of the stream.
LEMMA Counting ==
  ASSUME NEW first \in Nat \ {0}, NEW last \in Int
  PROVE  /\ Count(first, last, 0) = 0
         /\ \A i \in Nat \ {0} :
              /\ Taken(first, last, i) =>
                   /\ Count(first, last, i) = Place(first, i)
                   /\ Count(first, last, i - 1) = Place(first, i) - 1
              /\ ~ Taken(first, last, i) =>
                   Count(first, last, i) = Count(first, last, i - 1)
<1>1. Count(first, last, 0) = 0
  BY DEF Count
<1>2. ASSUME NEW i \in Nat \ {0}, Taken(first, last, i)
      PROVE  /\ Count(first, last, i) = Place(first, i)
             /\ Count(first, last, i - 1) = Place(first, i) - 1
  BY <1>2 DEF Taken, Place, Count
<1>3. ASSUME NEW i \in Nat \ {0}, ~ Taken(first, last, i)
      PROVE  Count(first, last, i) = Count(first, last, i - 1)
  BY <1>3 DEF Taken, Place, Count
<1> QED
  BY <1>1, <1>2, <1>3, Zenon

\* What the bench program remembers after k samples of a stream.
Remembered(c, x, k) ==
  LET y == C!Direct(c, x)
      z == C!FourthOrder(c, x)
  IN [in1 |-> <<C!At(x, k), C!At(x, k - 1)>>, out1 |-> <<C!At(y, k), C!At(y, k - 1)>>,
      in2 |-> <<C!At(y, k), C!At(y, k - 1)>>, out2 |-> <<C!At(z, k), C!At(z, k - 1)>>]

\* At the start, silence.
LEMMA RememberedSilence ==
  ASSUME NEW c, NEW x
  PROVE  Remembered(c, x, 0) = O!Silence
<1>1. /\ ~ (0 > 0) /\ ~ (0 - 1 > 0)
  OBVIOUS
<1> QED
  BY <1>1, Zenon DEF Remembered, C!At, O!Silence

\* The bench program adds the terms in the other order.
LEMMA MixedReversed ==
  ASSUME NEW c \in Coefficients, NEW x0 \in Int, NEW x1 \in Int, NEW x2 \in Int,
         NEW y1 \in Int, NEW y2 \in Int
  PROVE  x2 * c.b2 + x1 * c.b1 + x0 * c.b0 + y2 * c.a2 + y1 * c.a1
           = Mixed(c, x0, x1, x2, y1, y2)
<1>1. c.b0 \in Int /\ c.b1 \in Int /\ c.b2 \in Int /\ c.a1 \in Int /\ c.a2 \in Int
  BY DEF Coefficients
<1> QED
  BY <1>1 DEF Mixed

\* A step of the bench program, term by term.
LEMMA StepIs ==
  ASSUME NEW c \in Coefficients, NEW x0 \in Int, NEW x1 \in Int, NEW x2 \in Int,
         NEW y0 \in Int, NEW y1 \in Int, NEW y2 \in Int,
         NEW z0 \in Int, NEW z1 \in Int, NEW z2 \in Int,
         y0 = Mixed(c, x0, x1, x2, y1, y2), z0 = Mixed(c, y0, y1, y2, z1, z2)
  PROVE  O!Step(c, [in1 |-> <<x1, x2>>, out1 |-> <<y1, y2>>,
                    in2 |-> <<y1, y2>>, out2 |-> <<z1, z2>>], x0)
           = [in1 |-> <<x0, x1>>, out1 |-> <<y0, y1>>,
              in2 |-> <<y0, y1>>, out2 |-> <<z0, z1>>]
<1> DEFINE s == [in1 |-> <<x1, x2>>, out1 |-> <<y1, y2>>,
                 in2 |-> <<y1, y2>>, out2 |-> <<z1, z2>>]
<1>1. /\ s.in1[1] = x1 /\ s.in1[2] = x2 /\ s.out1[1] = y1 /\ s.out1[2] = y2
      /\ s.in2[1] = y1 /\ s.in2[2] = y2 /\ s.out2[1] = z1 /\ s.out2[2] = z2
  OBVIOUS
<1>2. x2 * c.b2 + x1 * c.b1 + x0 * c.b0 + y2 * c.a2 + y1 * c.a1 = y0
  BY MixedReversed
<1>3. y2 * c.b2 + y1 * c.b1 + y0 * c.b0 + z2 * c.a2 + z1 * c.a1 = z0
  BY MixedReversed
<1> HIDE DEF s
<1>4. O!Step(c, s, x0) = [in1 |-> <<x0, x1>>, out1 |-> <<y0, y1>>,
                          in2 |-> <<y0, y1>>, out2 |-> <<z0, z1>>]
  BY <1>1, <1>2, <1>3, Zenon DEF O!Step
<1> QED
  BY <1>4 DEF s

\* A step of the bench program is one of the difference equations.
LEMMA StepRemembers ==
  ASSUME NEW c \in Coefficients, NEW x \in Seq(Int), NEW k \in 1 .. Len(x)
  PROVE  O!Step(c, Remembered(c, x, k - 1), x[k]) = Remembered(c, x, k)
<1> DEFINE y == C!Direct(c, x)
           z == C!Direct(c, y)
           X(n) == C!At(x, n)
           Y(n) == C!At(y, n)
           Z(n) == C!At(z, n)
<1>1. /\ y \in Seq(Int) /\ Len(y) = Len(x)
      /\ \A n \in 1 .. Len(x) : y[n] = Mixed(c, X(n), X(n - 1), X(n - 2), Y(n - 1), Y(n - 2))
  BY DirectIs
<1>2. y = C!Direct(c, x) /\ z = C!Direct(c, y) /\ z = C!FourthOrder(c, x)
  BY Zenon DEF C!FourthOrder
<1> HIDE DEF y
<1>3. /\ z \in Seq(Int) /\ Len(z) = Len(x)
      /\ \A n \in 1 .. Len(x) : z[n] = Mixed(c, Y(n), Y(n - 1), Y(n - 2), Z(n - 1), Z(n - 2))
  <2>1. /\ z \in Seq(Int) /\ Len(z) = Len(y)
        /\ \A n \in 1 .. Len(y) : z[n] = Mixed(c, Y(n), Y(n - 1), Y(n - 2), Z(n - 1), Z(n - 2))
    BY <1>1, DirectIs
  <2> QED
    BY <1>1, <2>1, Zenon
<1> HIDE DEF z
<1>4. /\ k - 1 \in Int /\ k - 2 \in Int /\ k - 1 <= Len(x) /\ k - 2 <= Len(x) /\ k \in Int
      /\ k <= Len(x) /\ (k - 1) - 1 = k - 2 /\ k > 0
  OBVIOUS
<1>5. X(k) = x[k] /\ Y(k) = y[k] /\ Z(k) = z[k]
  BY <1>4, Zenon DEF C!At
<1>6. /\ X(k) \in Int /\ X(k - 1) \in Int /\ X(k - 2) \in Int
      /\ Y(k) \in Int /\ Y(k - 1) \in Int /\ Y(k - 2) \in Int
      /\ Z(k) \in Int /\ Z(k - 1) \in Int /\ Z(k - 2) \in Int
  BY <1>1, <1>3, <1>4, AtInt, Zenon
<1>7. Y(k) = Mixed(c, X(k), X(k - 1), X(k - 2), Y(k - 1), Y(k - 2))
  BY <1>1, <1>5, Zenon
<1>8. Z(k) = Mixed(c, Y(k), Y(k - 1), Y(k - 2), Z(k - 1), Z(k - 2))
  BY <1>3, <1>5, Zenon
<1>9. /\ Remembered(c, x, k - 1)
           = [in1 |-> <<X(k - 1), X(k - 2)>>, out1 |-> <<Y(k - 1), Y(k - 2)>>,
              in2 |-> <<Y(k - 1), Y(k - 2)>>, out2 |-> <<Z(k - 1), Z(k - 2)>>]
      /\ Remembered(c, x, k)
           = [in1 |-> <<X(k), X(k - 1)>>, out1 |-> <<Y(k), Y(k - 1)>>,
              in2 |-> <<Y(k), Y(k - 1)>>, out2 |-> <<Z(k), Z(k - 1)>>]
  BY <1>2, <1>4, Zenon DEF Remembered
<1> HIDE DEF X, Y, Z
<1>10. O!Step(c, [in1 |-> <<X(k - 1), X(k - 2)>>, out1 |-> <<Y(k - 1), Y(k - 2)>>,
                  in2 |-> <<Y(k - 1), Y(k - 2)>>, out2 |-> <<Z(k - 1), Z(k - 2)>>], X(k))
         = [in1 |-> <<X(k), X(k - 1)>>, out1 |-> <<Y(k), Y(k - 1)>>,
            in2 |-> <<Y(k), Y(k - 1)>>, out2 |-> <<Z(k), Z(k - 1)>>]
  BY <1>6, <1>7, <1>8, StepIs
<1> QED
  BY <1>5, <1>9, <1>10, Zenon

\* The samples after a pass has been over the first i of them.
After(c, x, d, first, last, i) ==
  [j \in DOMAIN d |-> IF Taken(first, last, j) /\ j <= i
                      THEN O!ToShort(C!FourthOrder(c, x)[Place(first, j)]) ELSE d[j]]

\* The loop's state then.
PassState(c, x, d, first, last, i) ==
  [s |-> Remembered(c, x, Count(first, last, i)), data |-> After(c, x, d, first, last, i)]

\* What the pass filters are the samples of x, in their order.
Carries(d, first, last, x) ==
  \A j \in DOMAIN d : Taken(first, last, j) =>
    Place(first, j) \in 1 .. Len(x) /\ d[j] = x[Place(first, j)]

\* A sample that is left alone leaves the state alone.
LEMMA PassSkips ==
  ASSUME NEW c \in Coefficients, NEW x \in Seq(Int), NEW d \in Seq(Int),
         NEW first \in Nat \ {0}, NEW last \in Int, NEW i \in 1 .. Len(d),
         ~ Taken(first, last, i)
  PROVE  PassState(c, x, d, first, last, i) = PassState(c, x, d, first, last, i - 1)
<1>1. Count(first, last, i) = Count(first, last, i - 1)
  <2>1. i \in Nat \ {0}
    OBVIOUS
  <2> QED
    BY <2>1, Counting, Zenon
<1>2. \A j \in 1 .. Len(d) :
        Taken(first, last, j) /\ j <= i <=> Taken(first, last, j) /\ j <= i - 1
  <2>1. TAKE j \in 1 .. Len(d)
  <2>2. CASE j = i
    BY <2>2
  <2>3. CASE j # i
    <3>1. j <= i <=> j <= i - 1
      BY <2>3
    <3> QED
      BY <3>1, Zenon
  <2> QED
    BY <2>2, <2>3
<1>3. DOMAIN d = 1 .. Len(d)
  OBVIOUS
<1>4. After(c, x, d, first, last, i) = After(c, x, d, first, last, i - 1)
  BY <1>2, <1>3, Zenon DEF After
<1> QED
  BY <1>1, <1>4, Zenon DEF PassState

\* A sample that is taken is filtered where it is.
LEMMA PassTakes ==
  ASSUME NEW c \in Coefficients, NEW x \in Seq(Int), NEW d \in Seq(Int),
         NEW first \in Nat \ {0}, NEW last \in Int, NEW i \in 1 .. Len(d),
         Carries(d, first, last, x), Taken(first, last, i),
         NEW r, r = PassState(c, x, d, first, last, i - 1),
         NEW s, s = O!Step(c, r.s, r.data[i])
  PROVE  [s |-> s, data |-> [r.data EXCEPT ![i] = O!ToShort(s.out2[1])]]
           = PassState(c, x, d, first, last, i)
<1> DEFINE k == Place(first, i)
           z == C!FourthOrder(c, x)
           D(n) == After(c, x, d, first, last, n)
<1>1. /\ k \in 1 .. Len(x) /\ d[i] = x[k] /\ i \in DOMAIN d /\ DOMAIN d = 1 .. Len(d)
  BY Zenon, LenProperties DEF Carries
<1>2. Count(first, last, i) = k /\ Count(first, last, i - 1) = k - 1
  <2>1. i \in Nat \ {0}
    OBVIOUS
  <2> QED
    BY <2>1, Counting, Zenon
<1> HIDE DEF k
<1>3. r.s = Remembered(c, x, k - 1) /\ r.data = D(i - 1)
  BY <1>2 DEF PassState
<1>4. D(i - 1)[i] = x[k]
  <2>1. ~ (i <= i - 1)
    OBVIOUS
  <2> QED
    BY <1>1, <2>1, Zenon DEF After
<1>5. s = Remembered(c, x, k)
  BY <1>1, <1>3, <1>4, StepRemembers, Zenon
<1>6. s.out2[1] = z[k]
  <2>1. s.out2 = <<C!At(z, k), C!At(z, k - 1)>>
    BY <1>5 DEF Remembered
  <2>2. C!At(z, k) = z[k]
    <3>1. k > 0
      BY <1>1
    <3> QED
      BY <3>1, Zenon DEF C!At
  <2> QED
    BY <2>1, <2>2
<1>7. [D(i - 1) EXCEPT ![i] = O!ToShort(z[k])] = D(i)
  <2>1. \A j \in 1 .. Len(d) : j # i => (j <= i <=> j <= i - 1)
    OBVIOUS
  <2>2. i <= i
    OBVIOUS
  <2>3. \A j \in DOMAIN d :
          D(i)[j] = IF j = i THEN O!ToShort(z[k]) ELSE D(i - 1)[j]
    <3>1. SUFFICES ASSUME NEW j \in DOMAIN d
                   PROVE  D(i)[j] = IF j = i THEN O!ToShort(z[k]) ELSE D(i - 1)[j]
      OBVIOUS
    <3>2. CASE j = i
      BY <1>1, <2>2, <3>2, Zenon DEF After, k
    <3>3. CASE j # i
      BY <1>1, <2>1, <3>3, Zenon DEF After
    <3> QED
      BY <3>2, <3>3, Zenon
  <2>4. DOMAIN D(i) = DOMAIN d /\ DOMAIN D(i - 1) = DOMAIN d
    BY Zenon DEF After
  <2>5. /\ D(i) = [j \in DOMAIN d |-> D(i)[j]]
        /\ [D(i - 1) EXCEPT ![i] = O!ToShort(z[k])]
             = [j \in DOMAIN d |-> IF j = i THEN O!ToShort(z[k]) ELSE D(i - 1)[j]]
    <3>1. D(i) = [j \in DOMAIN d |-> D(i)[j]] /\ D(i - 1) = [j \in DOMAIN d |-> D(i - 1)[j]]
      BY Zenon DEF After
    <3> HIDE DEF D, z
    <3> QED
      BY <2>4, <3>1
  <2> HIDE DEF D, z
  <2> QED
    BY <2>3, <2>5, Zenon
<1>8. PassState(c, x, d, first, last, i) = [s |-> Remembered(c, x, k), data |-> D(i)]
  BY <1>2, Zenon DEF PassState
<1> HIDE DEF D, z
<1> QED
  BY <1>3, <1>5, <1>6, <1>7, <1>8, Zenon

\* Two loops that begin alike, with steps that make the same of the same.
Alike(N, y, z) == y[0] = z[0] /\ \A n \in 1 .. N : y[n - 1] = z[n - 1] => y[n] = z[n]

LEMMA LoopsAlike ==
  ASSUME NEW N \in Nat, NEW y, NEW z, Alike(N, y, z)
  PROVE  \A n \in 0 .. N : y[n] = z[n]
<1>1. y[0] = z[0] /\ \A n \in 1 .. N : y[n - 1] = z[n - 1] => y[n] = z[n]
  BY Zenon DEF Alike
<1> QED
  BY <1>1, Determined

\* Its conversion is the firmware's with 99 percent.
LEMMA BenchToShort ==
  ASSUME NEW y
  PROVE  O!ToShort(y) = C!ToShort(99, y)
BY Zenon DEF O!ToShort, C!ToShort

LEMMA BenchToShortInt ==
  ASSUME NEW y \in Int
  PROVE  O!ToShort(y) \in Int
<1>1. 99 \in Nat
  OBVIOUS
<1> QED
  BY <1>1, BenchToShort, ToShortInt, Zenon

\* A pass filters, in place, the stream its samples carry.
LEMMA PassIs ==
  ASSUME NEW c \in Coefficients, NEW x \in Seq(Int), NEW d \in Seq(Int),
         NEW first \in Nat \ {0}, NEW last \in Int, Carries(d, first, last, x)
  PROVE  O!Pass(c, d, first, last) = After(c, x, d, first, last, Len(d))
<1> DEFINE L == Len(d)
           State(i) == PassState(c, x, d, first, last, i)
           Skips(i) == i < first \/ i > last \/ (i - first) % 2 = 1
           Body(r, i) == LET s == O!Step(c, r.s, r.data[i])
                         IN IF Skips(i) THEN r
                            ELSE [s |-> s, data |-> [r.data EXCEPT ![i] = O!ToShort(s.out2[1])]]
           Value(f, i) == IF i = 0 THEN [s |-> O!Silence, data |-> d] ELSE Body(f[i - 1], i)
           w == [i \in 0 .. L |-> State(i)]
           y == CHOOSE f : f = [i \in 0 .. L |-> Value(f, i)]
<1>1. L \in Nat /\ DOMAIN d = 1 .. L /\ d = [j \in 1 .. L |-> d[j]]
  OBVIOUS
<1>2. State(0) = [s |-> O!Silence, data |-> d]
  <2>1. After(c, x, d, first, last, 0) = d
    <3>1. \A j \in 1 .. L : ~ (j <= 0)
      OBVIOUS
    <3> QED
      BY <1>1, <3>1, Zenon DEF After
  <2>2. Count(first, last, 0) = 0
    BY Counting, Zenon
  <2> QED
    BY <2>1, <2>2, RememberedSilence, Zenon DEF PassState
<1>3. ASSUME NEW i \in 1 .. L PROVE Body(State(i - 1), i) = State(i)
  <2>1. i \in Int /\ (Skips(i) <=> ~ Taken(first, last, i))
    BY DEF Taken
  <2>2. CASE Skips(i)
    BY <2>1, <2>2, PassSkips, Zenon
  <2>3. CASE ~ Skips(i)
    <3> DEFINE r == State(i - 1)
               s == O!Step(c, r.s, r.data[i])
    <3>1. Body(r, i) = [s |-> s, data |-> [r.data EXCEPT ![i] = O!ToShort(s.out2[1])]]
      BY <2>3, Zenon
    <3>2. r = PassState(c, x, d, first, last, i - 1) /\ s = O!Step(c, r.s, r.data[i])
      BY Zenon
    <3>3. State(i) = PassState(c, x, d, first, last, i) /\ i \in 1 .. Len(d) /\ Taken(first, last, i)
      BY <2>1, <2>3, Zenon
    <3> HIDE DEF r, s, State, Body, Skips
    <3>4. [s |-> s, data |-> [r.data EXCEPT ![i] = O!ToShort(s.out2[1])]]
            = PassState(c, x, d, first, last, i)
      BY <3>2, <3>3, PassTakes
    <3>5. Body(r, i) = State(i)
      BY <3>1, <3>3, <3>4, Zenon
    <3> QED
      BY <3>5 DEF r
  <2> QED
    BY <2>2, <2>3
<1>4. \A i \in 1 .. L : i # 0 /\ i - 1 \in 0 .. L /\ i \in 0 .. L
  BY <1>1
<1>5. \A i \in 0 .. L : i = 0 \/ i \in 1 .. L
  BY <1>1
<1>6. 0 \in 0 .. L
  BY <1>1
<1> HIDE DEF State, Body, L
<1>7. w = [i \in 0 .. L |-> Value(w, i)]
  <2>1. \A i \in 0 .. L : State(i) = Value(w, i)
    <3>1. SUFFICES ASSUME NEW i \in 0 .. L PROVE State(i) = Value(w, i)
      OBVIOUS
    <3>2. CASE i = 0
      BY <1>2, <3>2, Zenon
    <3>3. CASE i \in 1 .. L
      <4>1. w[i - 1] = State(i - 1)
        BY <1>4, <3>3, Zenon
      <4> QED
        BY <1>3, <1>4, <3>3, <4>1, Zenon
    <3> QED
      BY <1>5, <3>2, <3>3, Zenon
  <2> HIDE DEF Value
  <2> QED
    BY <2>1, Zenon
<1>8. y = [i \in 0 .. L |-> Value(y, i)]
  <2> HIDE DEF Value, w
  <2> QED
    BY <1>7
<1>9. O!Passing(c, d, first, last) = y
  BY DEF O!Passing, Body, L
<1> HIDE DEF y
<1>10. \A i \in 0 .. L : y[i] = w[i]
  <2>1. y[0] = w[0]
    <3>1. y[0] = Value(y, 0)
      <4> HIDE DEF Value
      <4> QED
        BY <1>6, <1>8, Zenon
    <3> QED
      BY <1>2, <1>6, <3>1, Zenon
  <2>2. ASSUME NEW i \in 1 .. L, y[i - 1] = w[i - 1] PROVE y[i] = w[i]
    <3>1. y[i] = Value(y, i) /\ w[i] = Value(w, i)
      <4> HIDE DEF Value, w
      <4> QED
        BY <1>4, <1>7, <1>8, Zenon
    <3> HIDE DEF w
    <3> QED
      BY <1>4, <2>2, <3>1, Zenon
  <2>3. \A i \in 1 .. L : y[i - 1] = w[i - 1] => y[i] = w[i]
    BY <2>2
  <2> HIDE DEF w, Value, Skips
  <2>4. L \in Nat /\ y[0] = w[0] /\ \A i \in 1 .. L : y[i - 1] = w[i - 1] => y[i] = w[i]
    BY <1>1, <2>1, <2>3, Zenon
  <2>5. Alike(L, y, w)
    BY <2>4, Zenon DEF Alike
  <2>6. L \in Nat
    BY <1>1
  <2> QED
    BY <2>5, <2>6, LoopsAlike, Zenon
<1>11. y[L] = State(L)
  <2>1. L \in 0 .. L
    BY <1>1
  <2> QED
    BY <1>10, <2>1, Zenon
<1>12. O!Pass(c, d, first, last) = State(L).data
  BY <1>9, <1>11, Zenon DEF O!Pass, L
<1> QED
  BY <1>12 DEF State, PassState, L

\* A short is read back from its two bytes.
LEMMA BytesOfShort ==
  ASSUME NEW v \in Shorts
  PROVE  O!Short(256 * ((v \div 256) % 256) + (v % 256)) = v
<1> DEFINE q == v \div 256
           r == v % 256
<1>1. v = 256 * q + r /\ q \in -128 .. 127 /\ r \in 0 .. 255
  <2>1. v \in Int /\ -32768 <= v /\ v <= 32767
    BY DEF Shorts
  <2>2. v = 256 * q + r /\ q \in Int /\ r \in 0 .. 255
    BY <2>1
  <2> HIDE DEF q, r
  <2> QED
    BY <2>1, <2>2
<1> HIDE DEF q, r
<1>2. CASE q >= 0
  <2>1. q % 256 = q
    BY <1>1, <1>2
  <2>2. v \in 0 .. 32767
    BY <1>1, <1>2
  <2>3. v % 65536 = v
    BY <2>2
  <2>4. O!Short(256 * (q % 256) + r) = v
    BY <1>1, <2>1, <2>2, <2>3 DEF O!Short
  <2> QED
    BY <2>4 DEF q, r
<1>3. CASE q < 0
  <2>1. q % 256 = q + 256
    BY <1>1, <1>3
  <2>2. PICK u : u = v + 65536
    OBVIOUS
  <2>3. 256 * (q + 256) + r = u /\ u \in Int /\ 32768 <= u /\ u < 65536 /\ u - 65536 = v
    BY <1>1, <1>3, <2>2
  <2>4. u % 65536 = u
    BY ONLY <2>3
  <2>5. ~ (u % 65536 < 32768) /\ (u % 65536) - 65536 = v
    BY ONLY <2>3, <2>4
  <2>6. O!Short(u) = v
    BY <2>5 DEF O!Short
  <2>7. O!Short(256 * (q % 256) + r) = v
    BY <2>1, <2>3, <2>6
  <2> QED
    BY <2>7 DEF q, r
<1> QED
  BY <1>1, <1>2, <1>3

\* The mean of twice the same sample is the sample.
LEMMA HalfOfTwice ==
  ASSUME NEW v \in Int
  PROVE  O!Half(v + v) = v
<1>1. CASE v >= 0
  BY <1>1 DEF O!Half
<1>2. CASE v < 0
  BY <1>2 DEF O!Half
<1> QED
  BY <1>1, <1>2

\* Both channels of a copied stream have its samples.
LEMMA TwiceIs ==
  ASSUME NEW x \in Seq(Int)
  PROVE  /\ Twice(x) \in Seq(Int) /\ Len(Twice(x)) = 2 * Len(x)
         /\ Twice(x) = [i \in 1 .. 2 * Len(x) |-> x[(i + 1) \div 2]]
         /\ \A i \in 1 .. 2 * Len(x) :
              (i + 1) \div 2 \in 1 .. Len(x) /\ Twice(x)[i] = x[(i + 1) \div 2]
<1> DEFINE M == Len(x)
<1>1. M \in Nat /\ 2 * M \in Nat /\ \A n \in 1 .. M : x[n] \in Int
  OBVIOUS
<1>2. Twice(x) = [i \in 1 .. 2 * M |-> x[(i + 1) \div 2]]
  BY Zenon DEF Twice
<1> HIDE DEF M
<1>3. \A i \in 1 .. 2 * M : (i + 1) \div 2 \in 1 .. M
  BY <1>1
<1>4. \A i \in 1 .. 2 * M : x[(i + 1) \div 2] \in Int
  BY <1>1, <1>3, Zenon
<1> DEFINE t == [i \in 1 .. 2 * M |-> x[(i + 1) \div 2]]
<1>5. t \in Seq(Int) /\ Len(t) = 2 * M /\ \A i \in 1 .. 2 * M : t[i] = x[(i + 1) \div 2]
  BY <1>1, <1>4
<1> QED
  BY <1>2, <1>3, <1>5 DEF M

\* The bench program reads the file of a stream as the stream, on both channels.
LEMMA FileRead ==
  ASSUME NEW x \in Seq(Shorts)
  PROVE  O!Data16(StereoFile(x)) = Twice(x)
<1> DEFINE M == Len(x)
           file == StereoFile(x)
           Byte(i) == LET v == x[(i + 3) \div 4]
                      IN IF i % 2 = 1 THEN v % 256 ELSE (v \div 256) % 256
<1>1. M \in Nat /\ x \in Seq(Int) /\ \A n \in 1 .. M : x[n] \in Shorts
  <2>1. M \in Nat /\ \A n \in 1 .. M : x[n] \in Shorts
    OBVIOUS
  <2>2. \A n \in 1 .. M : x[n] \in Int
    BY <2>1 DEF Shorts
  <2>3. x \in Seq(Int)
    BY <2>2
  <2> QED
    BY <2>1, <2>3
<1>2. file = [i \in 1 .. 4 * M |-> Byte(i)]
  BY Zenon DEF StereoFile
<1>3. Twice(x) = [i \in 1 .. 2 * M |-> x[(i + 1) \div 2]]
  BY <1>1, TwiceIs, Zenon
<1> HIDE DEF M, file
<1>4. Len(file) = 4 * M /\ (4 * M) \div 2 = 2 * M
  <2> HIDE DEF Byte
  <2>1. 4 * M \in Nat
    BY <1>1
  <2> QED
    BY <1>1, <1>2, <2>1
<1>5. ASSUME NEW i \in 1 .. 2 * M
      PROVE  O!Short(256 * file[2 * i] + file[2 * i - 1]) = x[(i + 1) \div 2]
  <2> DEFINE v == x[(i + 1) \div 2]
  <2>1. /\ (i + 1) \div 2 \in 1 .. M
        /\ 2 * i \in 1 .. 4 * M /\ 2 * i - 1 \in 1 .. 4 * M
        /\ (2 * i + 3) \div 4 = (i + 1) \div 2 /\ (2 * i - 1 + 3) \div 4 = (i + 1) \div 2
        /\ (2 * i) % 2 # 1 /\ (2 * i - 1) % 2 = 1
    BY <1>1
  <2>2. file[2 * i] = (v \div 256) % 256 /\ file[2 * i - 1] = (v % 256)
    BY <1>2, <2>1, Zenon
  <2>3. v \in Shorts
    BY <1>1, <2>1
  <2> HIDE DEF v
  <2>4. O!Short(256 * file[2 * i] + file[2 * i - 1]) = v
    BY <2>2, <2>3, BytesOfShort, Zenon
  <2> QED
    BY <2>4 DEF v
<1>6. O!Data16(file) = [i \in 1 .. Len(file) \div 2 |-> O!Short(256 * file[2 * i] + file[2 * i - 1])]
  BY Zenon DEF O!Data16
<1>7. O!Data16(file) = [i \in 1 .. 2 * M |-> O!Short(256 * file[2 * i] + file[2 * i - 1])]
  BY <1>4, <1>6, Zenon
<1> QED
  BY <1>3, <1>5, <1>7, Zenon DEF file

\* Mixing two channels that are the same changes nothing.
LEMMA MixedBack ==
  ASSUME NEW x \in Seq(Int)
  PROVE  O!MonoMixed(Twice(x)) = Twice(x)
<1> DEFINE M == Len(x)
           d == Twice(x)
           Left(i) == i - ((i + 1) % 2)
<1>1. /\ M \in Nat /\ \A n \in 1 .. M : x[n] \in Int
  OBVIOUS
<1>2. /\ d = [i \in 1 .. 2 * M |-> x[(i + 1) \div 2]]
      /\ \A i \in 1 .. 2 * M : (i + 1) \div 2 \in 1 .. M /\ d[i] = x[(i + 1) \div 2]
  BY TwiceIs, Zenon
<1>3. DOMAIN d = 1 .. 2 * M
  BY <1>2, Zenon
<1>4. O!MonoMixed(d) = [i \in DOMAIN d |-> O!Half(d[Left(i)] + d[Left(i) + 1])]
  BY Zenon DEF O!MonoMixed
<1> HIDE DEF M, d
<1>5. ASSUME NEW i \in 1 .. 2 * M
      PROVE  O!Half(d[Left(i)] + d[Left(i) + 1]) = x[(i + 1) \div 2]
  <2>1. /\ Left(i) \in 1 .. 2 * M /\ Left(i) + 1 \in 1 .. 2 * M
        /\ (Left(i) + 1) \div 2 = (i + 1) \div 2
        /\ (Left(i) + 1 + 1) \div 2 = (i + 1) \div 2
    BY <1>1
  <2> HIDE DEF Left
  <2>2. d[Left(i)] = x[(i + 1) \div 2] /\ d[Left(i) + 1] = x[(i + 1) \div 2]
    BY <1>2, <2>1, Zenon
  <2>3. x[(i + 1) \div 2] \in Int
    BY <1>1, <1>2, Zenon
  <2> QED
    BY <2>2, <2>3, HalfOfTwice, Zenon
<1> HIDE DEF Left
<1> QED
  BY <1>2, <1>3, <1>4, <1>5, Zenon DEF d

\* The first pass: the samples at odd places, low-pass filtered.
LEMMA LowpassIs ==
  ASSUME NEW x \in Seq(Int), NEW l, l = C!FourthOrder(lp_coefficients, x)
  PROVE  /\ O!Lowpass(Twice(x)) \in Seq(Int) /\ Len(O!Lowpass(Twice(x))) = 2 * Len(x)
         /\ \A j \in 1 .. 2 * Len(x) :
              O!Lowpass(Twice(x))[j] =
                IF j % 2 = 1 THEN O!ToShort(l[(j + 1) \div 2]) ELSE x[j \div 2]
<1> DEFINE M == Len(x)
           d == Twice(x)
           f == O!Lowpass(d)
           passed == [j \in 1 .. 2 * M |->
                        IF j % 2 = 1 THEN O!ToShort(l[(j + 1) \div 2]) ELSE x[j \div 2]]
<1>0. lp_coefficients \in Coefficients
  BY FilterChainAssumption
<1>1. M \in Nat /\ 2 * M \in Nat /\ \A n \in 1 .. M : x[n] \in Int
  OBVIOUS
<1>2. /\ d \in Seq(Int) /\ Len(d) = 2 * M
      /\ d = [i \in 1 .. 2 * M |-> x[(i + 1) \div 2]]
      /\ \A i \in 1 .. 2 * M : (i + 1) \div 2 \in 1 .. M /\ d[i] = x[(i + 1) \div 2]
  BY TwiceIs, Zenon
<1>3. l \in Seq(Int) /\ Len(l) = M
  BY <1>0, FourthOrderTyped
<1> HIDE DEF M, d
<1>4. DOMAIN d = 1 .. 2 * M
  BY <1>2, Zenon
<1>5. \A j \in 1 .. 2 * M :
        /\ Taken(1, 2 * M, j) <=> j % 2 = 1
        /\ j % 2 = 1 => Place(1, j) = (j + 1) \div 2
        /\ j % 2 # 1 => j \div 2 = (j + 1) \div 2
        /\ j <= 2 * M
  BY <1>1 DEF Taken, Place
<1>6. Carries(d, 1, 2 * M, x)
  BY <1>2, <1>4, <1>5, Zenon DEF Carries, M
<1>7. O!Pass(lp_coefficients, d, 1, 2 * M) = After(lp_coefficients, x, d, 1, 2 * M, 2 * M)
  <2>1. 1 \in Nat \ {0} /\ 2 * M \in Int
    BY <1>1
  <2>2. O!Pass(lp_coefficients, d, 1, 2 * M) = After(lp_coefficients, x, d, 1, 2 * M, Len(d))
    BY <1>0, <1>2, <1>6, <2>1, PassIs
  <2> QED
    BY <1>2, <2>2, Zenon
<1>8. f = After(lp_coefficients, x, d, 1, 2 * M, 2 * M)
  BY <1>2, <1>7, Zenon DEF O!Lowpass
<1>9. \A j \in 1 .. 2 * M :
        (IF Taken(1, 2 * M, j) /\ j <= 2 * M THEN O!ToShort(l[Place(1, j)]) ELSE d[j])
          = IF j % 2 = 1 THEN O!ToShort(l[(j + 1) \div 2]) ELSE x[j \div 2]
  BY <1>2, <1>5, Zenon
<1>10. f = passed
  BY <1>4, <1>8, <1>9, Zenon DEF After
<1>11. \A j \in 1 .. 2 * M : passed[j] \in Int
  <2>1. ASSUME NEW j \in 1 .. 2 * M PROVE passed[j] \in Int
    <3>1. (j + 1) \div 2 \in 1 .. M
      BY <1>2
    <3>2. l[(j + 1) \div 2] \in Int /\ x[(j + 1) \div 2] \in Int
      BY <1>1, <1>3, <3>1
    <3>3. O!ToShort(l[(j + 1) \div 2]) \in Int
      BY <3>2, BenchToShortInt
    <3>4. j % 2 # 1 => x[j \div 2] \in Int
      BY <1>5, <3>2, Zenon
    <3> QED
      BY <3>3, <3>4
  <2> QED
    BY <2>1
<1>12. passed \in Seq(Int) /\ Len(passed) = 2 * M
  <2>1. passed = [j \in 1 .. 2 * M |-> passed[j]]
    OBVIOUS
  <2> HIDE DEF passed
  <2> QED
    BY <1>1, <1>11, <2>1
<1>13. \A j \in 1 .. 2 * M :
         passed[j] = IF j % 2 = 1 THEN O!ToShort(l[(j + 1) \div 2]) ELSE x[j \div 2]
  BY Zenon
<1> HIDE DEF passed
<1> QED
  BY <1>10, <1>12, <1>13, Zenon DEF M, d

\* The second pass: those at even places, high-pass filtered, but for the last.
LEMMA HighpassIs ==
  ASSUME NEW x \in Seq(Int), NEW l, l = C!FourthOrder(lp_coefficients, x),
         NEW h, h = C!FourthOrder(hp_coefficients, x)
  PROVE  O!Highpass(O!Lowpass(Twice(x))) =
           [j \in 1 .. 2 * Len(x) |->
              IF j % 2 = 1 THEN O!ToShort(l[(j + 1) \div 2])
              ELSE IF j < 2 * Len(x) THEN O!ToShort(h[j \div 2]) ELSE x[j \div 2]]
<1> DEFINE M == Len(x)
           d == O!Lowpass(Twice(x))
<1>0. hp_coefficients \in Coefficients
  BY FilterChainAssumption
<1>1. M \in Nat /\ 2 * M \in Nat
  OBVIOUS
<1>2. /\ d \in Seq(Int) /\ Len(d) = 2 * M
      /\ \A j \in 1 .. 2 * M :
           d[j] = IF j % 2 = 1 THEN O!ToShort(l[(j + 1) \div 2]) ELSE x[j \div 2]
  BY LowpassIs, Zenon
<1>3. DOMAIN d = 1 .. 2 * M
  <2> HIDE DEF M, d
  <2> QED
    BY <1>2
<1> HIDE DEF M, d
<1>4. \A j \in 1 .. 2 * M :
        /\ Taken(2, 2 * M - 1, j) <=> j % 2 # 1 /\ j < 2 * M
        /\ j % 2 # 1 => Place(2, j) = j \div 2 /\ j \div 2 \in 1 .. M
        /\ j <= 2 * M
  BY <1>1 DEF Taken, Place
<1>5. Carries(d, 2, 2 * M - 1, x)
  BY <1>2, <1>3, <1>4, Zenon DEF Carries, M
<1>6. O!Pass(hp_coefficients, d, 2, 2 * M - 1) = After(hp_coefficients, x, d, 2, 2 * M - 1, 2 * M)
  <2>1. 2 \in Nat \ {0} /\ 2 * M - 1 \in Int
    BY <1>1
  <2> QED
    BY <1>0, <1>2, <1>5, <2>1, PassIs, Zenon
<1>7. O!Highpass(d) = After(hp_coefficients, x, d, 2, 2 * M - 1, 2 * M)
  BY <1>2, <1>6, Zenon DEF O!Highpass
<1>8. \A j \in 1 .. 2 * M :
        (IF Taken(2, 2 * M - 1, j) /\ j <= 2 * M THEN O!ToShort(h[Place(2, j)]) ELSE d[j])
          = IF j % 2 = 1 THEN O!ToShort(l[(j + 1) \div 2])
            ELSE IF j < 2 * M THEN O!ToShort(h[j \div 2]) ELSE x[j \div 2]
  BY <1>2, <1>4, Zenon
<1>9. O!Highpass(d) =
        [j \in 1 .. 2 * M |->
           IF j % 2 = 1 THEN O!ToShort(l[(j + 1) \div 2])
           ELSE IF j < 2 * M THEN O!ToShort(h[j \div 2]) ELSE x[j \div 2]]
  BY <1>3, <1>7, <1>8, Zenon DEF After
<1> QED
  BY <1>9 DEF M, d

\* What the firmware writes, without the last sample's high-pass.
LEMMA BenchWrites ==
  ASSUME NEW x \in Seq(Shorts), Len(x) > 0
  PROVE  /\ Sides(99, x) \in Seq(Int) /\ Len(Sides(99, x)) = 2 * Len(x)
         /\ O!Highpass(O!Lowpass(O!MonoMixed(O!Data16(StereoFile(x)))))
              = [j \in 1 .. 2 * Len(x) |-> IF j < 2 * Len(x) THEN Sides(99, x)[j] ELSE x[Len(x)]]
<1> DEFINE M == Len(x)
           s == Sides(99, x)
           l == C!FourthOrder(lp_coefficients, x)
           h == C!FourthOrder(hp_coefficients, x)
<1>1. M \in Nat /\ 99 \in Nat /\ x \in Seq(Int)
  <2>1. M \in Nat /\ 99 \in Nat /\ \A n \in 1 .. M : x[n] \in Shorts
    OBVIOUS
  <2>2. \A n \in 1 .. M : x[n] \in Int
    BY <2>1 DEF Shorts
  <2>3. x \in Seq(Int)
    BY <2>2
  <2> QED
    BY <2>1, <2>3
<1>2. O!MonoMixed(O!Data16(StereoFile(x))) = Twice(x)
  BY <1>1, FileRead, MixedBack, Zenon
<1>3. O!Highpass(O!Lowpass(Twice(x))) =
        [j \in 1 .. 2 * M |-> IF j % 2 = 1 THEN O!ToShort(l[(j + 1) \div 2])
                              ELSE IF j < 2 * M THEN O!ToShort(h[j \div 2]) ELSE x[j \div 2]]
  BY <1>1, HighpassIs, Zenon
<1>4. /\ s \in Seq(Int) /\ Len(s) = 2 * M
      /\ \A i \in 1 .. 2 * M :
           s[i] = IF i % 2 = 1 THEN C!ToShort(99, l[(i + 1) \div 2])
                               ELSE C!ToShort(99, h[i \div 2])
  BY <1>1, SidesTyped, Zenon
<1> HIDE DEF s, l, h
<1>5. \A j \in 1 .. 2 * M :
        (IF j % 2 = 1 THEN O!ToShort(l[(j + 1) \div 2])
         ELSE IF j < 2 * M THEN O!ToShort(h[j \div 2]) ELSE x[j \div 2])
          = IF j < 2 * M THEN s[j] ELSE x[M]
  <2>1. SUFFICES ASSUME NEW j \in 1 .. 2 * M
                 PROVE  (IF j % 2 = 1 THEN O!ToShort(l[(j + 1) \div 2])
                         ELSE IF j < 2 * M THEN O!ToShort(h[j \div 2]) ELSE x[j \div 2])
                          = IF j < 2 * M THEN s[j] ELSE x[M]
    OBVIOUS
  <2>2. CASE j % 2 = 1
    <3>1. j < 2 * M
      BY <1>1, <2>2
    <3> QED
      BY <1>4, <2>2, <3>1, BenchToShort, Zenon
  <2>3. CASE j % 2 # 1
    <3>1. ~ (j < 2 * M) => j \div 2 = M
      BY <1>1, <2>3
    <3> QED
      BY <1>4, <2>3, <3>1, BenchToShort, Zenon
  <2> QED
    BY <2>2, <2>3
<1>6. O!Highpass(O!Lowpass(Twice(x))) =
        [j \in 1 .. 2 * M |-> IF j < 2 * M THEN s[j] ELSE x[M]]
  BY <1>3, <1>5, Zenon
<1> QED
  BY <1>2, <1>4, <1>6, Zenon DEF s

\* A byte of each half of an integer.
LEMMA ByteInt ==
  ASSUME NEW v \in Int
  PROVE  (v \div 256) % 256 \in Int /\ v % 256 \in Int
OBVIOUS

\* A file has two bytes of each sample.
LEMMA BytesTyped ==
  ASSUME NEW d \in Seq(Int)
  PROVE  /\ O!BigEndian(d) \in Seq(Int) /\ Len(O!BigEndian(d)) = 2 * Len(d)
         /\ \A i \in 1 .. 2 * Len(d) :
              /\ (i + 1) \div 2 \in 1 .. Len(d)
              /\ O!BigEndian(d)[i] = IF i % 2 = 1 THEN (d[(i + 1) \div 2] \div 256) % 256
                                     ELSE d[(i + 1) \div 2] % 256
<1> DEFINE M == Len(d)
           At(i) == d[(i + 1) \div 2]
           file == [i \in 1 .. 2 * M |-> IF i % 2 = 1 THEN (At(i) \div 256) % 256 ELSE At(i) % 256]
<1>1. M \in Nat /\ 2 * M \in Nat /\ \A n \in 1 .. M : d[n] \in Int
  OBVIOUS
<1>2. O!BigEndian(d) = file
  BY Zenon DEF O!BigEndian
<1> HIDE DEF M
<1>3. \A i \in 1 .. 2 * M : (i + 1) \div 2 \in 1 .. M
  BY <1>1
<1>4. \A i \in 1 .. 2 * M : file[i] \in Int
  <2>1. ASSUME NEW i \in 1 .. 2 * M PROVE file[i] \in Int
    <3>1. At(i) \in Int
      BY <1>1, <1>3, Zenon
    <3> HIDE DEF At
    <3>2. (At(i) \div 256) % 256 \in Int /\ At(i) % 256 \in Int
      BY <3>1, ByteInt, Zenon
    <3> QED
      BY <3>2
  <2> QED
    BY <2>1
<1>5. file \in Seq(Int) /\ Len(file) = 2 * M
  <2>1. file = [i \in 1 .. 2 * M |-> file[i]]
    OBVIOUS
  <2> HIDE DEF file
  <2> QED
    BY <1>1, <1>4, <2>1
<1>6. \A i \in 1 .. 2 * M : file[i] = IF i % 2 = 1 THEN (At(i) \div 256) % 256 ELSE At(i) % 256
  BY Zenon
<1> HIDE DEF file
<1> QED
  BY <1>2, <1>3, <1>5, <1>6, Zenon DEF M

\* A file of two streams that differ in the last sample only.
LEMMA LastBytes ==
  ASSUME NEW d \in Seq(Int), NEW n \in Nat, n > 0, Len(d) = n, NEW v \in Int
  PROVE  O!BigEndian([j \in 1 .. n |-> IF j < n THEN d[j] ELSE v])
           = SubSeq(O!BigEndian(d), 1, Len(O!BigEndian(d)) - 2) \o O!BigEndian(<<v>>)
<1> DEFINE e == [j \in 1 .. n |-> IF j < n THEN d[j] ELSE v]
           p == O!BigEndian(d)
           q == O!BigEndian(e)
           r == O!BigEndian(<<v>>)
           Part(i, w) == IF i % 2 = 1 THEN (w \div 256) % 256 ELSE w % 256
<1>1. e \in Seq(Int) /\ Len(e) = n /\ \A j \in 1 .. n : e[j] = IF j < n THEN d[j] ELSE v
  <2>1. \A j \in 1 .. n : e[j] = IF j < n THEN d[j] ELSE v
    BY Zenon
  <2>2. e = [j \in 1 .. n |-> e[j]]
    OBVIOUS
  <2> HIDE DEF e
  <2>3. \A j \in 1 .. n : e[j] \in Int
    BY <2>1
  <2> QED
    BY <2>1, <2>2, <2>3
<1>2. <<v>> \in Seq(Int) /\ Len(<<v>>) = 1 /\ <<v>>[1] = v
  OBVIOUS
<1> HIDE DEF e
<1>3. /\ p \in Seq(Int) /\ Len(p) = 2 * n
      /\ \A i \in 1 .. 2 * n : (i + 1) \div 2 \in 1 .. n /\ p[i] = Part(i, d[(i + 1) \div 2])
  BY BytesTyped, Zenon
<1>4. /\ q \in Seq(Int) /\ Len(q) = 2 * n
      /\ \A i \in 1 .. 2 * n : (i + 1) \div 2 \in 1 .. n /\ q[i] = Part(i, e[(i + 1) \div 2])
  <2> HIDE DEF Part
  <2>1. /\ q \in Seq(Int) /\ Len(q) = 2 * Len(e)
        /\ \A i \in 1 .. 2 * Len(e) :
             (i + 1) \div 2 \in 1 .. Len(e) /\ q[i] = Part(i, e[(i + 1) \div 2])
    BY <1>1, BytesTyped DEF Part
  <2> QED
    BY <1>1, <2>1, Zenon
<1>5. r \in Seq(Int) /\ Len(r) = 2 /\ r[1] = Part(1, v) /\ r[2] = Part(2, v)
  <2>1. /\ r \in Seq(Int) /\ Len(r) = 2 * 1
        /\ \A i \in 1 .. 2 * 1 : r[i] = Part(i, <<v>>[(i + 1) \div 2])
    BY <1>2, BytesTyped DEF Part
  <2>2. 2 * 1 = 2 /\ 1 \in 1 .. 2 * 1 /\ 2 \in 1 .. 2 * 1 /\ (1 + 1) \div 2 = 1 /\ (2 + 1) \div 2 = 1
    OBVIOUS
  <2> HIDE DEF r, Part
  <2> QED
    BY <1>2, <2>1, <2>2, Zenon
<1>6. Len(p) - 2 = 2 * n - 2 /\ 2 * n - 2 \in Nat
  <2> HIDE DEF p
  <2> QED
    BY <1>3
<1> DEFINE k == 2 * n - 2
           t == SubSeq(p, 1, k)
<1> HIDE DEF p, q, r
<1>7. t \in Seq(Int) /\ Len(t) = k /\ \A i \in 1 .. k : t[i] = p[i]
  BY <1>3, <1>6
<1> HIDE DEF t
<1>8. /\ t \o r \in Seq(Int) /\ Len(t \o r) = 2 * n
      /\ \A i \in 1 .. k : (t \o r)[i] = t[i]
      /\ (t \o r)[k + 1] = r[1] /\ (t \o r)[k + 2] = r[2]
  <2>1. /\ t \o r \in Seq(Int) /\ Len(t \o r) = k + 2
        /\ \A i \in 1 .. k : (t \o r)[i] = t[i]
        /\ \A i \in 1 .. 2 : (t \o r)[k + i] = r[i]
    <3>1. /\ t \o r \in Seq(Int) /\ Len(t \o r) = Len(t) + Len(r)
          /\ \A i \in 1 .. Len(t) : (t \o r)[i] = t[i]
          /\ \A i \in 1 .. Len(r) : (t \o r)[Len(t) + i] = r[i]
      <4>1. t \in Seq(Int) /\ r \in Seq(Int)
        BY <1>5, <1>7
      <4> QED
        BY ONLY <4>1, Chunked
    <3> QED
      BY <1>5, <1>7, <3>1, Zenon
  <2>2. k + 2 = 2 * n /\ 1 \in 1 .. 2 /\ 2 \in 1 .. 2
    BY <1>6
  <2> QED
    BY <2>1, <2>2, Zenon
<1>9. \A i \in 1 .. 2 * n : q[i] = (t \o r)[i]
  <2> HIDE DEF Part
  <2>1. ASSUME NEW i \in 1 .. 2 * n, i <= k PROVE q[i] = (t \o r)[i]
    <3>1. i \in 1 .. k /\ (i + 1) \div 2 < n
      BY <1>6, <2>1
    <3>2. e[(i + 1) \div 2] = d[(i + 1) \div 2]
      BY <1>1, <1>4, <3>1, Zenon
    <3> QED
      BY <1>3, <1>4, <1>7, <1>8, <3>1, <3>2, Zenon
  <2>2. e[n] = v /\ n \in 1 .. n
    BY <1>1
  <2>3. ASSUME NEW i \in 1 .. 2 * n, i = k + 1 PROVE q[i] = (t \o r)[i]
    <3>1. (i + 1) \div 2 = n /\ i % 2 = 1 /\ 1 % 2 = 1
      BY <2>3
    <3>2. Part(i, v) = Part(1, v)
      BY <3>1, Zenon DEF Part
    <3>3. q[i] = Part(i, v)
      BY <1>4, <2>2, <3>1, Zenon
    <3> QED
      BY <1>5, <1>8, <2>3, <3>2, <3>3, Zenon
  <2>4. ASSUME NEW i \in 1 .. 2 * n, i = k + 2 PROVE q[i] = (t \o r)[i]
    <3>1. (i + 1) \div 2 = n /\ i % 2 # 1 /\ 2 % 2 # 1
      BY <2>4
    <3>2. Part(i, v) = Part(2, v)
      BY <3>1, Zenon DEF Part
    <3>3. q[i] = Part(i, v)
      BY <1>4, <2>2, <3>1, Zenon
    <3> QED
      BY <1>5, <1>8, <2>4, <3>2, <3>3, Zenon
  <2>5. \A i \in 1 .. 2 * n : i <= k \/ i = k + 1 \/ i = k + 2
    BY <1>6
  <2> QED
    BY <2>1, <2>3, <2>4, <2>5, Zenon
<1>10. q = t \o r
  <2> DEFINE u == t \o r
  <2>1. u \in Seq(Int) /\ Len(u) = 2 * n /\ \A i \in 1 .. 2 * n : q[i] = u[i]
    BY <1>8, <1>9, Zenon
  <2> HIDE DEF u
  <2>2. q = u
    BY <1>4, <2>1
  <2> QED
    BY <2>2 DEF u
<1>11. t = SubSeq(p, 1, Len(p) - 2)
  BY <1>6, Zenon DEF t
<1> QED
  BY <1>10, <1>11, Zenon DEF p, q, r, e

-----------------------------------------------------------------------------
(***************************************************************************)
(* The chain                                                               *)
(***************************************************************************)

V1    == version = "smartsound_v1"
Final == version = "smartsound_final"

\* Where the equalizer stands after what it has read.
BankPart ==
  /\ V1 => mono \in Seq(Int) /\ equalized = mono
  /\ ~ V1 => BankStands

\* Where the crossover stands after what it has read.
CrossoverPart ==
  /\ V1 => CrossoverStands(99)
  /\ Final => CrossoverStands(98)
  /\ ~ V1 /\ ~ Final => crossed \in Seq(Int) /\ stereo = Twice(crossed)

ChainInv == BankPart /\ CrossoverPart

\* The invariant holds at the start.
LEMMA InitChain == Init => ChainInv
<1> SUFFICES ASSUME Init PROVE ChainInv
  OBVIOUS
<1>1. E!Init /\ C!Init
  BY Zenon DEF Init
<1>2. BankPart
  <2>1. mono = <<>> /\ equalized = <<>>
    BY <1>1, Zenon DEF E!Init
  <2>2. mono \in Seq(Int) /\ equalized = mono
    BY <2>1
  <2> QED
    BY <1>1, <2>2, BankBegins, Zenon DEF BankPart
<1>3. CrossoverPart
  <2>1. CrossoverStands(99) /\ CrossoverStands(98)
    <3>1. 99 \in Nat /\ 98 \in Nat
      OBVIOUS
    <3> QED
      BY <1>1, <3>1, CrossoverBegins, Zenon
  <2>2. crossed = <<>> /\ stereo = <<>>
    BY <1>1, Zenon DEF C!Init
  <2>3. crossed \in Seq(Int) /\ stereo = Twice(crossed)
    BY <2>2 DEF Twice
  <2> QED
    BY <2>1, <2>3, Zenon DEF CrossoverPart
<1> QED
  BY <1>2, <1>3, Zenon DEF ChainInv

\* What the crossover will read are integers.
LEMMA EqualizedTyped ==
  ASSUME BankPart
  PROVE  equalized \in Seq(Int)
<1>1. CASE V1
  BY <1>1, Zenon DEF BankPart
<1>2. CASE ~ V1
  <2>1. mono \in Seq(Int) /\ equalized = Bank(mono)
    BY <1>2, Zenon DEF BankPart, BankStands
  <2> QED
    BY <2>1, BankTyped, Zenon
<1> QED
  BY <1>1, <1>2

\* A step of the equalizer.
LEMMA StepEqualizer ==
  ASSUME ChainInv, EqualizerTask
  PROVE  ChainInv'
<1>1. PICK n \in 1 .. MaxChunk : \E chunk \in [1 .. n -> Sample] :
        /\ Equalize(chunk)
        /\ UNCHANGED <<version, crossover>>
  BY Zenon DEF EqualizerTask
<1>2. PICK chunk \in [1 .. n -> Sample] :
        /\ Equalize(chunk)
        /\ UNCHANGED <<version, crossover>>
  BY <1>1, Zenon
<1>3. chunk \in Seq(Int) /\ Len(chunk) <= MaxChunk
  <2>1. MaxChunk \in Nat /\ Sample \subseteq Int
    BY FilterChainAssumption DEF Shorts
  <2>2. n \in Nat /\ n <= MaxChunk
    BY <2>1
  <2>3. chunk \in [1 .. n -> Int]
    BY <2>1
  <2> QED
    BY ONLY <2>2, <2>3
<1>4. version' = version /\ lp' = lp /\ hp' = hp /\ crossed' = crossed /\ stereo' = stereo
  BY <1>2 DEF crossover
<1>5. CrossoverPart'
  BY <1>4 DEF ChainInv, CrossoverPart, CrossoverStands, V1, Final
<1>6. BankPart'
  <2>1. CASE V1
    <3>1. mono' = mono \o chunk /\ equalized' = equalized \o chunk
      BY <1>2, <2>1 DEF Equalize, Equalizer_v1, V1
    <3>2. mono \in Seq(Int) /\ equalized = mono
      BY <2>1, Zenon DEF ChainInv, BankPart
    <3>3. mono' \in Seq(Int) /\ equalized' = mono'
      BY <1>3, <3>1, <3>2
    <3> QED
      BY <1>4, <2>1, <3>3 DEF BankPart, V1
  <2>2. CASE ~ V1
    <3>1. E!Equalize(chunk)
      BY <1>2, <2>2, Zenon DEF Equalize, Equalizer_v2, Equalizer_v3, Equalizer_final, V1
    <3>2. BankStands
      BY <2>2, Zenon DEF ChainInv, BankPart
    <3>3. BankStands'
      BY <1>3, <3>1, <3>2, BankChunk
    <3> QED
      BY <1>4, <2>2, <3>3, Zenon DEF BankPart, V1
  <2> QED
    BY <2>1, <2>2
<1> QED
  BY <1>5, <1>6 DEF ChainInv

\* A step of the crossover.
LEMMA StepCrossover ==
  ASSUME ChainInv, CrossoverTask
  PROVE  ChainInv'
<1>1. PICK n \in 1 .. MaxChunk :
        /\ Len(crossed) + n <= Len(equalized)
        /\ filter_LinkwitzRiley(SubSeq(equalized, Len(crossed) + 1, Len(crossed) + n))
        /\ UNCHANGED <<version, equalizer>>
  BY Zenon DEF CrossoverTask
<1> DEFINE chunk == SubSeq(equalized, Len(crossed) + 1, Len(crossed) + n)
<1>2. crossed \in Seq(Int)
  BY Zenon DEF ChainInv, CrossoverPart, CrossoverStands
<1>3. chunk \in Seq(Int)
  <2>1. equalized \in Seq(Int)
    BY EqualizedTyped, Zenon DEF ChainInv
  <2>2. MaxChunk \in Nat
    BY FilterChainAssumption
  <2> QED
    BY <1>1, <1>2, <2>1, <2>2
<1>4. filter_LinkwitzRiley(chunk) /\ UNCHANGED <<version, equalizer>>
  BY <1>1
<1> HIDE DEF chunk
<1>5. /\ version' = version /\ low' = low /\ high' = high /\ bell' = bell
      /\ accumulator' = accumulator /\ mono' = mono /\ equalized' = equalized
  BY <1>4 DEF equalizer
<1>6. BankPart'
  BY <1>5, Zenon DEF ChainInv, BankPart, BankStands, V1
<1>7. CrossoverPart'
  <2>0. 99 \in Nat /\ 98 \in Nat
    OBVIOUS
  <2>1. CASE V1
    <3>1. C!filter_LinkwitzRiley(99, chunk)
      BY <1>4, <2>1 DEF filter_LinkwitzRiley, Crossover_v1, V1
    <3>2. CrossoverStands(99)'
      BY <1>3, <2>0, <2>1, <3>1, CrossoverChunk DEF ChainInv, CrossoverPart
    <3> QED
      BY <1>5, <2>1, <3>2 DEF CrossoverPart, V1, Final
  <2>2. CASE Final
    <3>1. C!filter_LinkwitzRiley(98, chunk)
      BY <1>4, <2>2 DEF filter_LinkwitzRiley, Crossover_final, Final
    <3>2. CrossoverStands(98)'
      BY <1>3, <2>0, <2>2, <3>1, CrossoverChunk DEF ChainInv, CrossoverPart
    <3> QED
      BY <1>5, <2>2, <3>2 DEF CrossoverPart, V1, Final
  <2>3. CASE ~ V1 /\ ~ Final
    <3>1. crossed' = crossed \o chunk /\ stereo' = stereo \o Twice(chunk)
      BY <1>4, <2>3
         DEF filter_LinkwitzRiley, Crossover_v2, Crossover_v3, PassThrough, V1, Final
    <3>2. stereo = Twice(crossed)
      BY <2>3 DEF ChainInv, CrossoverPart
    <3>3. crossed \o chunk \in Seq(Int) /\ Twice(crossed \o chunk) = Twice(crossed) \o Twice(chunk)
      BY <1>2, <1>3, TwiceAppend
    <3>4. crossed' \in Seq(Int) /\ stereo' = Twice(crossed)'
      BY <3>1, <3>2, <3>3, Zenon DEF Twice
    <3> QED
      BY <1>5, <2>3, <3>4, Zenon DEF CrossoverPart, V1, Final
  <2> QED
    BY <2>1, <2>2, <2>3
<1> QED
  BY <1>6, <1>7 DEF ChainInv

\* Every step keeps it.
LEMMA ChainKept == ChainInv /\ [Next]_vars => ChainInv'
<1> SUFFICES ASSUME ChainInv, [Next]_vars PROVE ChainInv'
  OBVIOUS
<1>1. CASE EqualizerTask
  BY <1>1, StepEqualizer
<1>2. CASE CrossoverTask
  BY <1>2, StepCrossover
<1>3. CASE UNCHANGED vars
  BY <1>3, Zenon DEF vars, equalizer, crossover, ChainInv, BankPart, CrossoverPart, BankStands,
                     CrossoverStands, V1, Final
<1> QED
  BY <1>1, <1>2, <1>3 DEF Next

\* However the mono stream is cut, and whatever the tasks' speeds, each version
\* writes the sum of its filters over the whole of it.
THEOREM BankKeepsStream == Spec => []BankIsSumOfFilters
<1>1. ChainInv => BankIsSumOfFilters
  <2> SUFFICES ASSUME ChainInv PROVE BankIsSumOfFilters
    OBVIOUS
  <2>1. CASE V1
    BY <2>1, Zenon DEF ChainInv, BankPart, BankIsSumOfFilters, V1
  <2>2. CASE ~ V1
    <3>1. equalized = Bank(mono)
      BY <2>2, Zenon DEF ChainInv, BankPart, BankStands
    <3>2. E!BankIsSumOfFilters
      BY <3>1, Zenon DEF E!BankIsSumOfFilters, Bank
    <3> QED
      BY <2>2, <3>2, Zenon DEF BankIsSumOfFilters, V1
  <2> QED
    BY <2>1, <2>2
<1> QED
  BY <1>1, InitChain, ChainKept, PTL DEF Spec

\* However the equalized stream is cut again, each version writes the two
\* filters' channels of the whole of it, side by side.
THEOREM CrossoverKeepsStream == Spec => []StreamFiltered
<1>1. ChainInv => StreamFiltered
  <2> SUFFICES ASSUME ChainInv PROVE StreamFiltered
    OBVIOUS
  <2>1. ASSUME NEW percent \in Nat, CrossoverStands(percent) PROVE C!StreamFiltered(percent)
    BY <2>1, Zenon DEF CrossoverStands, Sides, C!StreamFiltered
  <2>2. CASE V1
    <3>1. C!StreamFiltered(99)
      BY <2>1, <2>2 DEF ChainInv, CrossoverPart
    <3> QED
      BY <2>2, <3>1 DEF StreamFiltered, V1
  <2>3. CASE Final
    <3>1. C!StreamFiltered(98)
      BY <2>1, <2>3 DEF ChainInv, CrossoverPart
    <3> QED
      BY <2>3, <3>1 DEF StreamFiltered, Final
  <2>4. CASE ~ V1 /\ ~ Final
    BY <2>4 DEF ChainInv, CrossoverPart, StreamFiltered, V1, Final
  <2> QED
    BY <2>2, <2>3, <2>4
<1> QED
  BY <1>1, InitChain, ChainKept, PTL DEF Spec

\* In the first version, which has no equalizer, the samples stay what was played.
SamplesStay ==
  V1 => mono \in Seq(Sample) /\ equalized \in Seq(Sample) /\ crossed \in Seq(Sample)

LEMMA SamplesBegin == Init => SamplesStay
<1> SUFFICES ASSUME Init PROVE SamplesStay
  OBVIOUS
<1>1. mono = <<>> /\ equalized = <<>> /\ crossed = <<>>
  BY Zenon DEF Init, E!Init, C!Init
<1> QED
  BY <1>1 DEF SamplesStay

LEMMA SamplesKept == SamplesStay /\ [Next]_vars => SamplesStay'
<1> SUFFICES ASSUME SamplesStay, [Next]_vars PROVE SamplesStay'
  OBVIOUS
<1>1. CASE EqualizerTask
  <2>1. PICK n \in 1 .. MaxChunk : \E chunk \in [1 .. n -> Sample] :
          Equalize(chunk) /\ UNCHANGED <<version, crossover>>
    BY <1>1, Zenon DEF EqualizerTask
  <2>2. PICK chunk \in [1 .. n -> Sample] : Equalize(chunk) /\ UNCHANGED <<version, crossover>>
    BY <2>1, Zenon
  <2>3. version' = version /\ crossed' = crossed
    BY <2>2 DEF crossover
  <2>4. ASSUME V1 PROVE mono' \in Seq(Sample) /\ equalized' \in Seq(Sample)
    <3>1. mono' = mono \o chunk /\ equalized' = equalized \o chunk
      BY <2>2, <2>4 DEF Equalize, Equalizer_v1, V1
    <3>2. n \in Nat
      BY FilterChainAssumption
    <3>3. chunk \in Seq(Sample)
      BY <3>2
    <3> QED
      BY <2>4, <3>1, <3>3 DEF SamplesStay
  <2> QED
    BY <2>3, <2>4 DEF SamplesStay, V1
<1>2. CASE CrossoverTask
  <2>1. PICK n \in 1 .. MaxChunk :
          /\ Len(crossed) + n <= Len(equalized)
          /\ filter_LinkwitzRiley(SubSeq(equalized, Len(crossed) + 1, Len(crossed) + n))
          /\ UNCHANGED <<version, equalizer>>
    BY <1>2, Zenon DEF CrossoverTask
  <2> DEFINE chunk == SubSeq(equalized, Len(crossed) + 1, Len(crossed) + n)
  <2>2. version' = version /\ mono' = mono /\ equalized' = equalized
    BY <2>1 DEF equalizer
  <2>3. ASSUME V1 PROVE crossed' \in Seq(Sample)
    <3>1. equalized \in Seq(Sample) /\ crossed \in Seq(Sample) /\ n \in Nat
      BY <2>3, FilterChainAssumption DEF SamplesStay
    <3>2. chunk \in Seq(Sample)
      BY <2>1, <3>1
    <3>3. filter_LinkwitzRiley(chunk)
      BY <2>1
    <3> HIDE DEF chunk
    <3>4. crossed' = crossed \o chunk
      BY <2>3, <3>3 DEF filter_LinkwitzRiley, Crossover_v1, C!filter_LinkwitzRiley, V1
    <3> QED
      BY <3>1, <3>2, <3>4
  <2> QED
    BY <2>2, <2>3 DEF SamplesStay, V1
<1>3. CASE UNCHANGED vars
  BY <1>3 DEF vars, equalizer, crossover, SamplesStay, V1
<1> QED
  BY <1>1, <1>2, <1>3 DEF Next

\* The bench program and the crossover taken over from it write the same file,
\* but for the bytes of the last sample, which the bench program leaves alone:
\* filtering in place, one channel after the other, over the whole file is
\* filtering chunk by chunk with the histories kept.
THEOREM BenchAgrees == Spec => []OfflineAgrees
<1>1. ChainInv /\ SamplesStay => OfflineAgrees
  <2> SUFFICES ASSUME ChainInv, SamplesStay, V1, crossed # <<>>
               PROVE  O!AudioProcess(StereoFile(crossed))
                        = SubSeq(O!BigEndian(stereo), 1, Len(O!BigEndian(stereo)) - 2)
                            \o O!BigEndian(<<crossed[Len(crossed)]>>)
    BY Zenon DEF OfflineAgrees, V1
  <2> DEFINE n == 2 * Len(crossed)
             v == crossed[Len(crossed)]
  <2>1. stereo = Sides(99, crossed)
    BY Zenon DEF ChainInv, CrossoverPart, CrossoverStands
  <2>2. crossed \in Seq(Shorts) /\ Len(crossed) > 0 /\ v \in Int
    <3>1. crossed \in Seq(Sample) /\ Sample \subseteq Shorts
      BY FilterChainAssumption DEF SamplesStay
    <3>2. crossed \in Seq(Shorts)
      BY <3>1
    <3>3. Len(crossed) \in Nat /\ Len(crossed) > 0
      BY <3>1
    <3>4. v \in Shorts
      BY <3>2, <3>3
    <3> QED
      BY <3>2, <3>3, <3>4 DEF Shorts
  <2>3. n \in Nat /\ n > 0
    BY <2>2
  <2>4. /\ stereo \in Seq(Int) /\ Len(stereo) = n
        /\ O!Highpass(O!Lowpass(O!MonoMixed(O!Data16(StereoFile(crossed)))))
             = [j \in 1 .. n |-> IF j < n THEN stereo[j] ELSE v]
    BY <2>1, <2>2, BenchWrites, Zenon
  <2> HIDE DEF n, v
  <2>5. O!BigEndian([j \in 1 .. n |-> IF j < n THEN stereo[j] ELSE v])
          = SubSeq(O!BigEndian(stereo), 1, Len(O!BigEndian(stereo)) - 2) \o O!BigEndian(<<v>>)
    BY <2>2, <2>3, <2>4, LastBytes, Zenon
  <2> QED
    BY <2>4, <2>5, Zenon DEF O!AudioProcess, v
<1> QED
  BY <1>1, InitChain, ChainKept, SamplesBegin, SamplesKept, PTL DEF Spec
====
