-------------------------- MODULE RingCalls_proofs --------------------------
(***************************************************************************)
(* What one call of write() or read() made alone does to a buffer, for     *)
(* every size, packet and request: how much is unread after it, and what.  *)
(***************************************************************************)
EXTENDS RingCalls, TLAPS

Fields(n) ==
  [size : {n}, data : [0 .. n - 1 -> Nat], wpos : 0 .. n - 1, rpos : 0 .. n - 1,
   newData : BOOLEAN]

\* The buffers of n elements, as they are between calls.
Rings(n) == {r \in Fields(n) : r.newData = FALSE => r.wpos = r.rpos}

\* The k-th of the unread elements.
Unread(r, k) == r.data[(r.rpos + k - 1) % r.size]

\* A position that passes the end of the vector once goes on at its beginning.
Wrap(n, p) == IF p < n THEN p ELSE p - n

LEMMA Wraps ==
  ASSUME NEW n \in Nat \ {0}, NEW p \in 0 .. 2 * n - 1
  PROVE  p % n = Wrap(n, p) /\ Wrap(n, p) \in 0 .. n - 1
BY DEF Wrap

LEMMA EmptyIsRing ==
  ASSUME NEW n \in Nat \ {0}
  PROVE  EmptyRing(n) \in Rings(n) /\ Available(EmptyRing(n)) = 0
<1>1. EmptyRing(n).newData = FALSE
  BY Zenon DEF EmptyRing
<1>2. Available(EmptyRing(n)) = 0
  BY <1>1 DEF Available
<1> QED
  BY <1>2 DEF Rings, Fields, EmptyRing

LEMMA AvailableBound ==
  ASSUME NEW n \in Nat \ {0}, NEW r \in Rings(n)
  PROVE  Available(r) \in 0 .. n
BY DEF Rings, Fields, Available

\* The flag and the positions say what is unread, and the other way round.
LEMMA AvailableIs ==
  ASSUME NEW n \in Nat \ {0}, NEW r \in Rings(n)
  PROVE  /\ r.newData = FALSE => Available(r) = 0
         /\ r.newData = TRUE =>
              Available(r) = IF r.wpos > r.rpos THEN r.wpos - r.rpos
                             ELSE n - (r.rpos - r.wpos)
         /\ r.wpos = Wrap(n, r.rpos + Available(r))
BY DEF Rings, Fields, Available, Wrap

-----------------------------------------------------------------------------
(***************************************************************************)
(* write().                                                                *)
(***************************************************************************)

\* The cells a write fills: no cell twice, if the packet is no longer than the
\* buffer.
Into(r, s, c) == {i \in 1 .. Len(s) : (r.wpos + i - 1) % r.size = c}

LEMMA IntoOnce ==
  ASSUME NEW n \in Nat \ {0}, NEW r \in Fields(n), NEW s \in Seq(Nat), Len(s) <= n,
         NEW c, NEW i \in Into(r, s, c)
  PROVE  Into(r, s, c) = {i}
<1>1. r.wpos \in 0 .. n - 1 /\ r.size = n
  BY DEF Fields
<1>2. ASSUME NEW j \in 1 .. Len(s)
      PROVE  (r.wpos + j - 1) % n = Wrap(n, r.wpos + j - 1)
  <2>1. r.wpos + j - 1 \in 0 .. 2 * n - 1
    BY <1>1
  <2> QED
    BY <2>1, Wraps, Zenon
<1>3. ASSUME NEW j \in Into(r, s, c) PROVE j = i
  <2>1. i \in 1 .. Len(s) /\ j \in 1 .. Len(s)
    BY DEF Into
  <2>2. (r.wpos + i - 1) % n = (r.wpos + j - 1) % n
    BY <1>1 DEF Into
  <2>3. Wrap(n, r.wpos + i - 1) = Wrap(n, r.wpos + j - 1)
    BY <1>2, <2>1, <2>2
  <2> QED
    BY <1>1, <2>1, <2>3 DEF Wrap
<1> QED
  BY <1>3

\* What write() leaves in the cells.
Filled(r, s) ==
  [c \in DOMAIN r.data |->
     IF Into(r, s, c) = {} THEN r.data[c]
     ELSE s[CHOOSE i \in Into(r, s, c) : \A j \in Into(r, s, c) : j <= i]]

LEMMA FilledCell ==
  ASSUME NEW n \in Nat \ {0}, NEW r \in Fields(n), NEW s \in Seq(Nat), Len(s) <= n,
         NEW c \in 0 .. n - 1
  PROVE  /\ Into(r, s, c) = {} => Filled(r, s)[c] = r.data[c]
         /\ \A i \in Into(r, s, c) : Filled(r, s)[c] = s[i]
<1>1. ASSUME NEW i \in Into(r, s, c) PROVE Filled(r, s)[c] = s[i]
  <2>1. Into(r, s, c) = {i} /\ i \in Nat
    BY IntoOnce DEF Into
  <2>2. (CHOOSE k \in Into(r, s, c) : \A j \in Into(r, s, c) : j <= k) = i
    BY <2>1
  <2> QED
    BY <2>1, <2>2 DEF Filled, Fields
<1> QED
  BY <1>1 DEF Filled, Fields

LEMMA FilledType ==
  ASSUME NEW n \in Nat \ {0}, NEW r \in Fields(n), NEW s \in Seq(Nat), Len(s) <= n
  PROVE  Filled(r, s) \in [0 .. n - 1 -> Nat]
<1>1. ASSUME NEW c \in 0 .. n - 1 PROVE Filled(r, s)[c] \in Nat
  <2>1. CASE Into(r, s, c) = {}
    <3>1. Filled(r, s)[c] = r.data[c]
      BY <2>1, FilledCell
    <3> QED
      BY <3>1 DEF Fields
  <2>2. ASSUME NEW i \in Into(r, s, c) PROVE Filled(r, s)[c] \in Nat
    BY FilledCell DEF Into
  <2> QED
    BY <2>1, <2>2
<1> QED
  BY <1>1 DEF Filled, Fields

\* A call of write() in these words.
LEMMA WriteIs ==
  ASSUME NEW n \in Nat \ {0}, NEW r \in Rings(n), NEW s \in Seq(Nat), Len(s) <= n
  PROVE  LET w == AfterWrite(r, s)
         IN /\ w \in Fields(n) /\ w.size = n /\ w.rpos = r.rpos /\ w.data = Filled(r, s)
            /\ w.wpos = Wrap(n, r.wpos + Len(s))
            /\ w.newData = IF Len(s) = 0 THEN r.newData ELSE TRUE
<1> DEFINE y == (r.wpos + Len(s)) % n
           z == (r.newData \/ s # <<>>)
<1>1. AfterWrite(r, s) = [r EXCEPT !.data = Filled(r, s), !.wpos = y, !.newData = z]
  BY DEF AfterWrite, Filled, Into, Rings, Fields
<1>2. r \in Fields(n) /\ r.newData \in BOOLEAN
  BY DEF Rings, Fields
<1>3. y = Wrap(n, r.wpos + Len(s)) /\ y \in 0 .. n - 1
  <2>1. r.wpos + Len(s) \in 0 .. 2 * n - 1
    BY <1>2 DEF Fields
  <2> QED
    BY <2>1, Wraps, Zenon
<1>4. z = (IF Len(s) = 0 THEN r.newData ELSE TRUE) /\ z \in BOOLEAN
  <2>1. CASE Len(s) = 0
    <3>1. s = <<>>
      BY <2>1
    <3>2. z = r.newData
      BY <1>2, <3>1
    <3> QED
      BY <1>2, <2>1, <3>2
  <2>2. CASE Len(s) # 0
    <3>1. s # <<>>
      BY <2>2
    <3>2. z = TRUE
      BY <3>1
    <3> QED
      BY <2>2, <3>2
  <2> QED
    BY <2>1, <2>2
<1>5. Filled(r, s) \in [0 .. n - 1 -> Nat]
  BY <1>2, FilledType
<1> HIDE DEF y, z
<1>6. \E w : w = AfterWrite(r, s)
  OBVIOUS
<1>7. PICK w : w = AfterWrite(r, s)
  BY <1>6
<1>8. /\ w \in Fields(n)
      /\ w.size = n /\ w.rpos = r.rpos /\ w.data = Filled(r, s) /\ w.wpos = y /\ w.newData = z
  <2>1. w = [r EXCEPT !.data = Filled(r, s), !.wpos = y, !.newData = z]
    BY <1>1, <1>7, Zenon
  <2>2. y \in 0 .. n - 1 /\ z \in BOOLEAN
    BY <1>3, <1>4, Zenon
  <2> QED
    BY ONLY <1>2, <1>5, <2>1, <2>2 DEF Fields
<1> QED
  BY <1>3, <1>4, <1>7, <1>8, Zenon

\* Where the k-th unread element lies.
LEMMA UnreadAt ==
  ASSUME NEW n \in Nat \ {0}, NEW r \in Fields(n), NEW k \in 1 .. n
  PROVE  /\ Unread(r, k) = r.data[Wrap(n, r.rpos + k - 1)]
         /\ Wrap(n, r.rpos + k - 1) \in 0 .. n - 1
<1>1. r.rpos \in 0 .. n - 1 /\ r.size = n
  BY DEF Fields
<1>2. r.rpos + k - 1 \in 0 .. 2 * n - 1
  BY <1>1
<1>3. (r.rpos + k - 1) % n = Wrap(n, r.rpos + k - 1)
      /\ Wrap(n, r.rpos + k - 1) \in 0 .. n - 1
  BY <1>2, Wraps, Zenon
<1> QED
  BY <1>1, <1>3, Zenon DEF Unread

\* Where the i-th element of a packet goes.
LEMMA IntoAt ==
  ASSUME NEW n \in Nat \ {0}, NEW r \in Fields(n), NEW s \in Seq(Nat), Len(s) <= n,
         NEW i \in 1 .. Len(s)
  PROVE  \A c : i \in Into(r, s, c) <=> Wrap(n, r.wpos + i - 1) = c
<1>1. r.wpos \in 0 .. n - 1 /\ r.size = n
  BY DEF Fields
<1>2. r.wpos + i - 1 \in 0 .. 2 * n - 1
  BY <1>1
<1>3. (r.wpos + i - 1) % n = Wrap(n, r.wpos + i - 1)
  BY <1>2, Wraps, Zenon
<1> QED
  BY <1>1, <1>3 DEF Into

\* What is written lies in other cells than what is unread.
LEMMA Apart ==
  ASSUME NEW n \in Nat \ {0}, NEW p \in 0 .. n - 1, NEW a \in 0 .. n, NEW k \in 1 .. a,
         NEW i \in Nat \ {0}, a + i <= n
  PROVE  Wrap(n, Wrap(n, p + a) + i - 1) # Wrap(n, p + k - 1)
BY DEF Wrap

\* The way from position p forward to position q, all the way round from q to q.
Distance(n, p, q) == IF q > p THEN q - p ELSE n - (p - q)

\* The distance between the positions after a write.
LEMMA DistanceAfter ==
  ASSUME NEW n \in Nat \ {0}, NEW p \in 0 .. n - 1, NEW a \in 0 .. n,
         NEW i \in Nat \ {0}, a + i <= n
  PROVE  Distance(n, p, Wrap(n, Wrap(n, p + a) + i)) = a + i
BY DEF Wrap, Distance

\* Where the elements of a write lie, counted from the read position.
LEMMA Lands ==
  ASSUME NEW n \in Nat \ {0}, NEW p \in 0 .. n - 1, NEW a \in 0 .. n,
         NEW k \in 1 .. n, k > a
  PROVE  Wrap(n, Wrap(n, p + a) + (k - a) - 1) = Wrap(n, p + k - 1)
BY DEF Wrap

\* A write that fits adds what it writes behind what is unread.
LEMMA WriteAdds ==
  ASSUME NEW n \in Nat \ {0}, NEW r \in Rings(n), NEW s \in Seq(Nat),
         Available(r) + Len(s) <= n
  PROVE  /\ AfterWrite(r, s) \in Rings(n)
         /\ Available(AfterWrite(r, s)) = Available(r) + Len(s)
         /\ \A k \in 1 .. Available(r) + Len(s) :
              Unread(AfterWrite(r, s), k) =
                IF k <= Available(r) THEN Unread(r, k) ELSE s[k - Available(r)]
<1> DEFINE w == AfterWrite(r, s)
           a == Available(r)
<1>1. a \in 0 .. n /\ Len(s) \in Nat /\ Len(s) <= n
  BY AvailableBound
<1>2. /\ w \in Fields(n) /\ w.size = n /\ w.rpos = r.rpos /\ w.data = Filled(r, s)
      /\ w.wpos = Wrap(n, r.wpos + Len(s))
      /\ w.newData = IF Len(s) = 0 THEN r.newData ELSE TRUE
  BY <1>1, WriteIs, Zenon
<1>3. /\ r \in Fields(n) /\ r.wpos \in 0 .. n - 1 /\ r.rpos \in 0 .. n - 1
      /\ r.wpos = Wrap(n, r.rpos + a)
  BY AvailableIs DEF Rings, Fields
<1>4. w \in Rings(n)
  <2>1. CASE Len(s) = 0
    <3>1. w.newData = r.newData /\ w.wpos = r.wpos
      BY <1>2, <1>3, <2>1 DEF Wrap
    <3> QED
      BY <1>2, <3>1 DEF Rings
  <2>2. CASE Len(s) # 0
    <3>1. w.newData = TRUE
      BY <1>2, <2>2
    <3> QED
      BY <1>2, <3>1 DEF Rings
  <2> QED
    BY <2>1, <2>2
<1> HIDE DEF w
<1>5. Available(w) = a + Len(s)
  <2>1. CASE Len(s) = 0
    <3>1. w.newData = r.newData /\ w.wpos = r.wpos
      BY <1>2, <1>3, <2>1 DEF Wrap
    <3>2. Available(w) = Available(r)
      BY <1>2, <1>3, <3>1 DEF Available, Fields
    <3> QED
      BY <1>1, <2>1, <3>2
  <2>2. CASE Len(s) # 0
    <3>1. w.newData = TRUE
      BY <1>2, <2>2
    <3>2. Available(w) = Distance(n, r.rpos, w.wpos)
      <4>1. Available(w) = IF w.wpos > w.rpos THEN w.wpos - w.rpos
                           ELSE n - (w.rpos - w.wpos)
        BY <1>4, <3>1, AvailableIs
      <4> QED
        BY <1>2, <4>1, Zenon DEF Distance
    <3> HIDE DEF a
    <3>3. a + Len(s) <= n
      BY DEF a
    <3>4. Len(s) \in Nat \ {0}
      BY <1>1, <2>2
    <3>5. Distance(n, r.rpos, Wrap(n, Wrap(n, r.rpos + a) + Len(s))) = a + Len(s)
      BY <1>1, <1>3, <3>3, <3>4, DistanceAfter, Zenon
    <3> QED
      BY <1>2, <1>3, <3>2, <3>5, Zenon
  <2> QED
    BY <2>1, <2>2
<1>6. ASSUME NEW k \in 1 .. a + Len(s)
      PROVE  Unread(w, k) = IF k <= a THEN Unread(r, k) ELSE s[k - a]
  <2> DEFINE c == Wrap(n, r.rpos + k - 1)
  <2> HIDE DEF a
  <2>1. a + Len(s) <= n
    BY DEF a
  <2>2. k \in 1 .. n
    BY <1>1, <2>1
  <2>3. Unread(r, k) = r.data[c] /\ Unread(w, k) = Filled(r, s)[c] /\ c \in 0 .. n - 1
    <3>1. Unread(r, k) = r.data[c] /\ c \in 0 .. n - 1
      BY <1>3, <2>2, UnreadAt, Zenon
    <3>2. Unread(w, k) = w.data[Wrap(n, w.rpos + k - 1)]
      BY <1>2, <2>2, UnreadAt, Zenon
    <3> QED
      BY <1>2, <3>1, <3>2, Zenon
  <2>4. CASE k <= a
    <3>1. ASSUME NEW i \in 1 .. Len(s) PROVE Wrap(n, r.wpos + i - 1) # c
      <4>1. i \in Nat \ {0} /\ a + i <= n /\ k \in 1 .. a
        BY <1>1, <2>1, <2>4
      <4> QED
        BY <1>1, <1>3, <4>1, Apart, Zenon
    <3>2. Into(r, s, c) \subseteq 1 .. Len(s)
      BY DEF Into
    <3>3. Into(r, s, c) = {}
      BY <1>1, <1>3, <3>1, <3>2, IntoAt
    <3> QED
      BY <1>1, <1>3, <2>3, <2>4, <3>3, FilledCell
  <2>5. CASE ~ (k <= a)
    <3>1. k - a \in 1 .. Len(s)
      BY <1>1, <2>5
    <3>2. Wrap(n, r.wpos + (k - a) - 1) = c
      <4>1. k > a
        BY <1>1, <2>5
      <4>2. Wrap(n, Wrap(n, r.rpos + a) + (k - a) - 1) = Wrap(n, r.rpos + k - 1)
        BY <1>1, <1>3, <2>2, <4>1, Lands, Zenon
      <4> QED
        BY <1>3, <4>2, Zenon
    <3>3. k - a \in Into(r, s, c)
      BY <1>1, <1>3, <3>1, <3>2, IntoAt
    <3> QED
      BY <1>1, <1>3, <2>3, <2>5, <3>3, FilledCell
  <2> QED
    BY <2>4, <2>5
<1> QED
  BY <1>4, <1>5, <1>6 DEF w

-----------------------------------------------------------------------------
(***************************************************************************)
(* read().                                                                 *)
(***************************************************************************)

\* A read takes what it asks for, or what there is; the rest stays.
LEMMA ReadTakes ==
  ASSUME NEW n \in Nat \ {0}, NEW r \in Rings(n), NEW m \in Nat
  PROVE  /\ AfterRead(r, m) \in Rings(n)
         /\ Length(r, m) \in 0 .. Available(r) /\ Length(r, m) <= m
         /\ Available(AfterRead(r, m)) = Available(r) - Length(r, m)
         /\ \A k \in 1 .. Available(r) - Length(r, m) :
              Unread(AfterRead(r, m), k) = Unread(r, Length(r, m) + k)
<1> DEFINE a == Available(r)
           l == Length(r, m)
           y == (r.rpos + l) % n
           z == (l < a)
<1>1. /\ r \in Fields(n) /\ r.wpos \in 0 .. n - 1 /\ r.rpos \in 0 .. n - 1
      /\ r.wpos = Wrap(n, r.rpos + a) /\ r.size = n
  BY AvailableIs DEF Rings, Fields
<1>2. a \in 0 .. n
  BY AvailableBound
<1>3. l \in 0 .. a /\ l <= m
  BY <1>2 DEF Length
<1>4. \E w : w = AfterRead(r, m)
  OBVIOUS
<1>5. PICK w : w = AfterRead(r, m)
  BY <1>4
<1>6. y = Wrap(n, r.rpos + l) /\ y \in 0 .. n - 1
  <2>1. r.rpos + l \in 0 .. 2 * n - 1
    BY <1>1, <1>2, <1>3
  <2> QED
    BY <2>1, Wraps, Zenon
<1>7. z \in BOOLEAN /\ (z = FALSE <=> l = a)
  <2> HIDE DEF l, a
  <2>1. CASE l < a
    <3>1. z = TRUE
      BY <2>1
    <3> QED
      BY <1>2, <1>3, <2>1, <3>1
  <2>2. CASE ~ (l < a)
    <3>1. z = FALSE
      BY <2>2
    <3> QED
      BY <1>2, <1>3, <2>2, <3>1
  <2> QED
    BY <2>1, <2>2
<1>8. w = [r EXCEPT !.rpos = y, !.newData = z]
  BY <1>1, <1>5, Zenon DEF AfterRead
<1> HIDE DEF a, l, y, z
<1>9. /\ w \in Fields(n) /\ w.size = n /\ w.wpos = r.wpos /\ w.rpos = y
      /\ w.data = r.data /\ w.newData = z
  BY ONLY <1>1, <1>6, <1>7, <1>8 DEF Fields
<1>10. w \in Rings(n)
  BY <1>1, <1>6, <1>7, <1>9 DEF Rings
<1>11. Available(w) = a - l
  <2>1. CASE l = a
    <3>1. w.newData = FALSE
      BY <1>7, <1>9, <2>1
    <3>2. Available(w) = 0
      BY <1>10, <3>1, AvailableIs, Zenon
    <3> QED
      BY <1>2, <1>3, <2>1, <3>2
  <2>2. CASE l # a
    <3>1. w.newData = TRUE
      BY <1>7, <1>9, <2>2
    <3>2. Available(w) = IF w.wpos > w.rpos THEN w.wpos - w.rpos
                         ELSE n - (w.rpos - w.wpos)
      BY <1>10, <3>1, AvailableIs
    <3> QED
      BY <1>1, <1>2, <1>3, <1>6, <1>9, <2>2, <3>2 DEF Wrap
  <2> QED
    BY <2>1, <2>2
<1>12. ASSUME NEW k \in 1 .. a - l PROVE Unread(w, k) = Unread(r, l + k)
  <2>1. k \in 1 .. n /\ l + k \in 1 .. n
    BY <1>2, <1>3
  <2>2. Unread(w, k) = w.data[Wrap(n, w.rpos + k - 1)]
    BY <1>9, <2>1, UnreadAt, Zenon
  <2>3. Unread(r, l + k) = r.data[Wrap(n, r.rpos + (l + k) - 1)]
    BY <1>1, <2>1, UnreadAt, Zenon
  <2>4. Wrap(n, w.rpos + k - 1) = Wrap(n, r.rpos + (l + k) - 1)
    BY <1>1, <1>2, <1>3, <1>6, <1>9, <2>1 DEF Wrap
  <2> QED
    BY <1>9, <2>2, <2>3, <2>4, Zenon
<1> QED
  BY <1>3, <1>5, <1>10, <1>11, <1>12 DEF a, l

\* A read that does not put its second piece in the wrong place delivers the
\* first of what is unread.
LEMMA ReadDelivers ==
  ASSUME NEW n \in Nat \ {0}, NEW r \in Rings(n), NEW m \in Nat, ~ Misplaces(r, m)
  PROVE  /\ Delivered(r, m) = [k \in 1 .. Length(r, m) |-> Unread(r, k)]
         /\ Delivered(r, m) \in Seq(Nat) /\ Len(Delivered(r, m)) = Length(r, m)
<1>1. Delivered(r, m) = [k \in 1 .. Length(r, m) |-> Unread(r, k)]
  BY DEF Delivered, Unread
<1>2. Length(r, m) \in Nat /\ Length(r, m) <= n
  BY ReadTakes, AvailableBound
<1>3. ASSUME NEW k \in 1 .. Length(r, m) PROVE Unread(r, k) \in Nat
  <2>1. k \in 1 .. n /\ r \in Fields(n)
    BY <1>2 DEF Rings
  <2>2. Unread(r, k) = r.data[Wrap(n, r.rpos + k - 1)] /\ Wrap(n, r.rpos + k - 1) \in 0 .. n - 1
    BY <2>1, UnreadAt
  <2> QED
    BY <2>1, <2>2 DEF Fields
<1> QED
  BY <1>1, <1>2, <1>3
=============================================================================
