---------------------------- MODULE Upload_proofs ----------------------------
(***************************************************************************)
(* What uploadFile cuts a file into, for every file and every size of a    *)
(* bucket: the segments follow one another from the first byte to the      *)
(* last, fragments start where a moof does, and each fits its ciphertext.  *)
(*                                                                         *)
(* The two loops (the scan of the boxes, the merge of the fragments) are   *)
(* recursive functions.  The section on numbers derives the two facts that *)
(* reasoning about them takes, induction and recursion, from the library's *)
(* well-founded orderings, with a set and a function in the places of the  *)
(* operators that the library's own theorems quantify over.                *)
(***************************************************************************)
EXTENDS Upload, FiniteSetTheorems, SequenceTheorems, WellFoundedInduction, TLAPS

----------------------------------------------------------------------------
(* Numbers. *)

(* A set of natural numbers has a least element: of the intervals from 1 to *)
(* an element one has no other below it.                                    *)
LEMMA Least ==
  ASSUME NEW T \in SUBSET Nat, T # {}
  PROVE  \E m \in T : \A k \in T : m <= k
<1>1. PICK t \in T : TRUE
  OBVIOUS
<1> DEFINE Below == {1..k : k \in {j \in T : j <= t}}
<1>2. Below \subseteq FiniteSubsetsOf(1..t) /\ Below # {}
  <2>1. \A k \in T : k <= t => (1..k) \subseteq 1..t /\ IsFiniteSet(1..k)
    BY FS_Interval
  <2>2. QED
    BY <1>1, <2>1 DEF FiniteSubsetsOf
<1>3. PICK m \in T : /\ m <= t
                     /\ \A k \in T : k <= t => <<1..k, 1..m>> \notin StrictSubsetOrdering(1..t)
  <2>1. \E x \in Below : \A y \in Below : <<y, x>> \notin StrictSubsetOrdering(1..t)
    BY <1>2, WFMin, FS_StrictSubsetOrderingWellFounded
  <2>2. QED
    BY <2>1
<1>4. ASSUME NEW k \in T, ~(m <= k)
      PROVE  FALSE
  <2>1. k \in Nat /\ m \in Nat /\ t \in Nat /\ k < m /\ k <= t
    BY <1>3, <1>4
  <2>2. (1..k) \subseteq (1..m) /\ m \in 1..m /\ m \notin 1..k /\ (1..m) \subseteq 1..t
    BY <2>1, <1>3
  <2>3. <<1..k, 1..m>> \in StrictSubsetOrdering(1..t)
    BY <2>2 DEF StrictSubsetOrdering
  <2>4. QED
    BY <2>1, <2>3, <1>3
<1>5. QED
  BY <1>4

(* Induction: the least number outside S would have its predecessor in S.   *)
LEMMA Induction ==
  ASSUME NEW S, 0 \in S, \A n \in Nat : n \in S => n + 1 \in S
  PROVE  Nat \subseteq S
<1> DEFINE T == Nat \ S
<1>1. SUFFICES ASSUME T # {}
               PROVE  FALSE
  OBVIOUS
<1>2. PICK m \in T : \A k \in T : m <= k
  <2> T \in SUBSET Nat
    OBVIOUS
  <2> HIDE DEF T
  <2> QED
    BY <1>1, Least
<1>3. m # 0 /\ m - 1 \in Nat
  BY <1>2
<1>4. m - 1 \in S
  BY <1>2, <1>3
<1>5. QED
  BY <1>2, <1>3, <1>4

(* A loop of N rounds over the values V that starts with b and whose round n *)
(* takes v to F[n][v], and what its run is.                                  *)
Loop(N, V, b, F) == N \in Nat /\ b \in V /\ F \in [0..(N - 1) -> [V -> V]]

IsRun(f, N, V, b, F) ==
  f \in [0..N -> V] /\ f[0] = b /\ \A n \in 0..(N - 1) : f[n + 1] = F[n][f[n]]

LEMMA Recursion ==
  ASSUME NEW N, NEW V, NEW b, NEW F, Loop(N, V, b, F)
  PROVE  \E f : IsRun(f, N, V, b, F)
<1> USE DEF Loop
<1> DEFINE Run(n, g) == /\ g \in [0..n -> V]
                        /\ g[0] = b
                        /\ \A k \in 0..(n - 1) : g[k + 1] = F[k][g[k]]
           S == {n \in Nat : n <= N => \E g : Run(n, g)}
<1>1. 0 \in S
  <2>1. Run(0, [k \in 0..0 |-> b])
    OBVIOUS
  <2>2. QED
    BY <2>1
<1>2. ASSUME NEW n \in Nat, n \in S
      PROVE  n + 1 \in S
  <2>0. SUFFICES ASSUME n + 1 <= N
                 PROVE  \E g : Run(n + 1, g)
    OBVIOUS
  <2>1. PICK g : Run(n, g)
    BY <1>2, <2>0
  <2>2. PICK v \in V : v = F[n][g[n]]
    <3>1. n \in 0..n /\ g[n] \in V /\ n \in 0..(N - 1)
      BY <2>0, <2>1
    <3>2. QED
      BY <3>1
  <2> DEFINE h == [k \in 0..n + 1 |-> IF k = n + 1 THEN v ELSE g[k]]
  <2>3. h \in [0..n + 1 -> V] /\ h[n + 1] = v /\ \A k \in 0..n : h[k] = g[k]
    BY <2>1
  <2> HIDE DEF h
  <2>4. ASSUME NEW k \in 0..n
        PROVE  h[k + 1] = F[k][h[k]]
    <3>1. CASE k = n
      BY <2>2, <2>3, <3>1
    <3>2. CASE k # n
      <4>1. k \in 0..(n - 1) /\ k + 1 \in 0..n
        BY <3>2
      <4>2. QED
        BY <2>1, <2>3, <4>1
    <3>3. QED
      BY <3>1, <3>2
  <2>5. h[0] = b
    BY <2>1, <2>3
  <2>6. Run(n + 1, h)
    BY <2>3, <2>4, <2>5
  <2> HIDE DEF Run
  <2>7. QED
    BY <2>6
<1>3. N \in S
  <2> HIDE DEF S
  <2> QED
    BY <1>1, <1>2, Induction
<1>4. QED
  BY <1>3 DEF IsRun

(* Rounding up to whole buckets.                                             *)
LEMMA RoundedUp ==
  ASSUME NEW a \in Nat, NEW d \in Nat \ {0}
  PROVE  LET q == (a + d - 1) \div d
         IN q \in Nat /\ q * d >= a /\ (a > 0 => q > 0 /\ (q - 1) * d < a)
OBVIOUS

LEMMA Monotone ==
  ASSUME NEW a \in Nat, NEW b \in Nat, NEW d \in Nat, a <= b
  PROVE  a * d <= b * d
OBVIOUS

----------------------------------------------------------------------------
(* The scan. *)

(* The walk over the boxes is what its definition says: the function exists. *)
LEMMA WalkDef ==
  ASSUME NEW l \in Layout
  PROVE  /\ Walk(l)[0] = [pos |-> 0, moofs |-> <<>>]
         /\ \A n \in 0..(Len(l.boxes) - 1) :
              LET p == Walk(l)[n]
                  b == l.boxes[n + 1]
              IN Walk(l)[n + 1] = [pos   |-> p.pos + b.size,
                                   moofs |-> IF b.moof THEN Append(p.moofs, p.pos) ELSE p.moofs]
<1> DEFINE N == Len(l.boxes)
           V == [pos : Nat, moofs : Seq(Nat)]
           start == [pos |-> 0, moofs |-> <<>>]
           Step(p, b) == [pos   |-> p.pos + b.size,
                          moofs |-> IF b.moof THEN Append(p.moofs, p.pos) ELSE p.moofs]
           F == [n \in 0..(N - 1) |-> [p \in V |-> Step(p, l.boxes[n + 1])]]
           E(w) == [n \in 0..N |-> IF n = 0 THEN start ELSE Step(w[n - 1], l.boxes[n])]
<1>1. N \in Nat /\ start \in V
  BY DEF Layout
<1>2. F \in [0..(N - 1) -> [V -> V]]
  <2>1. ASSUME NEW n \in 0..(N - 1), NEW p \in V
        PROVE  Step(p, l.boxes[n + 1]) \in V
    <3>1. l.boxes[n + 1] \in Box
      BY DEF Layout
    <3>2. QED
      BY <3>1 DEF Box
  <2>2. QED
    BY <2>1
<1>3. PICK f : IsRun(f, N, V, start, F)
  <2> HIDE DEF N, V, start, F
  <2>1. Loop(N, V, start, F)
    BY <1>1, <1>2 DEF Loop
  <2>2. QED
    BY <2>1, Recursion
<1>4. f = E(f)
  <2>1. ASSUME NEW n \in 0..N
        PROVE  f[n] = E(f)[n]
    <3>1. CASE n = 0
      BY <1>3, <3>1 DEF IsRun
    <3>2. CASE n # 0
      <4>1. n - 1 \in 0..(N - 1) /\ (n - 1) + 1 = n /\ f[n - 1] \in V
        <5> HIDE DEF N, V, start, F
        <5> QED
          BY <1>1, <1>3, <3>2 DEF IsRun
      <4>2. f[n] = F[n - 1][f[n - 1]]
        <5> HIDE DEF N, V, start, F
        <5> QED
          BY <1>3, <4>1 DEF IsRun
      <4>3. QED
        BY <3>2, <4>1, <4>2
    <3>3. QED
      BY <3>1, <3>2
  <2>2. QED
    BY <2>1, <1>3 DEF IsRun
<1>5. Walk(l) = CHOOSE w : w = E(w)
  BY DEF Walk
<1>6. Walk(l) = E(Walk(l))
  <2> HIDE DEF E
  <2> QED
    BY <1>4, <1>5
<1>7. ASSUME NEW n \in 0..(N - 1)
      PROVE  Walk(l)[n + 1] = Step(Walk(l)[n], l.boxes[n + 1])
  <2>1. n + 1 \in 0..N /\ n + 1 # 0 /\ (n + 1) - 1 = n
    BY <1>1
  <2> HIDE DEF Step, N, start
  <2>2. Walk(l)[n + 1] = Step(Walk(l)[(n + 1) - 1], l.boxes[n + 1])
    BY <1>6, <2>1
  <2>3. QED
    BY <2>1, <2>2
<1>8. Walk(l)[0] = start
  BY <1>1, <1>6
<1>9. QED
  BY <1>7, <1>8

(* What the walk has found after n boxes: moofs in their order, each before  *)
(* the place where the next box starts.                                      *)
Rising(m, end) ==
  /\ m \in Seq(Nat) /\ end \in Nat
  /\ \A i \in 1..Len(m) : m[i] < end
  /\ \A i, j \in 1..Len(m) : i < j => m[i] < m[j]

LEMMA OneMoofMore ==
  ASSUME NEW m, NEW p, Rising(m, p), NEW q \in Nat, p < q
  PROVE  Rising(m, q) /\ Rising(Append(m, p), q)
<1> DEFINE a == Append(m, p)
<1>1. a \in Seq(Nat) /\ Len(a) = Len(m) + 1 /\ a[Len(m) + 1] = p /\ \A i \in 1..Len(m) : a[i] = m[i]
  BY AppendProperties DEF Rising
<1>2. Rising(m, q)
  BY DEF Rising
<1> HIDE DEF a
<1>3. Len(m) \in Nat /\ p \in Nat /\ \A i \in 1..Len(a) : i \in 1..Len(m) \/ i = Len(m) + 1
  BY <1>1 DEF Rising
<1>4. \A i \in 1..Len(m) : a[i] \in Nat /\ a[i] < p
  BY <1>1 DEF Rising
<1>5. \A i \in 1..Len(a) : a[i] < q
  BY <1>1, <1>3, <1>4
<1>6. \A i, j \in 1..Len(a) : i < j => a[i] < a[j]
  <2>1. ASSUME NEW i \in 1..Len(m), NEW j \in 1..Len(m), i < j
        PROVE  a[i] < a[j]
    BY <1>1, <2>1 DEF Rising
  <2>2. ASSUME NEW i \in 1..Len(a), NEW j \in 1..Len(a), i < j
        PROVE  i \in 1..Len(m) /\ (j \in 1..Len(m) \/ j = Len(m) + 1)
    BY <1>1, <1>3, <2>2
  <2>3. QED
    BY <1>1, <1>4, <2>1, <2>2
<1>7. Rising(a, q)
  BY <1>1, <1>5, <1>6 DEF Rising
<1>8. QED
  BY <1>2, <1>7 DEF a

LEMMA WalkRises ==
  ASSUME NEW l \in Layout, NEW n \in 0..Len(l.boxes)
  PROVE  Rising(Walk(l)[n].moofs, Walk(l)[n].pos)
<1> DEFINE S == {k \in Nat : k <= Len(l.boxes) => Rising(Walk(l)[k].moofs, Walk(l)[k].pos)}
<1>1. 0 \in S
  <2>1. Walk(l)[0].moofs = <<>> /\ Walk(l)[0].pos = 0
    <3>1. Walk(l)[0] = [pos |-> 0, moofs |-> <<>>]
      BY WalkDef
    <3>2. QED
      BY <3>1
  <2>2. Rising(<<>>, 0)
    BY DEF Rising
  <2>3. QED
    BY <2>1, <2>2
<1>2. ASSUME NEW k \in Nat, k \in S, k + 1 <= Len(l.boxes)
      PROVE  Rising(Walk(l)[k + 1].moofs, Walk(l)[k + 1].pos)
  <2> DEFINE p == Walk(l)[k]
             b == l.boxes[k + 1]
  <2>1. k \in 0..(Len(l.boxes) - 1) /\ b \in Box
    BY <1>2 DEF Layout
  <2>2. Rising(p.moofs, p.pos)
    BY <1>2
  <2>3. b.size \in Nat /\ p.pos \in Nat /\ p.pos + b.size \in Nat /\ p.pos < p.pos + b.size
    BY <2>1, <2>2 DEF Box, Rising
  <2>4. /\ Walk(l)[k + 1].pos = p.pos + b.size
        /\ Walk(l)[k + 1].moofs = IF b.moof THEN Append(p.moofs, p.pos) ELSE p.moofs
    <3>1. Walk(l)[k + 1] = [pos   |-> p.pos + b.size,
                            moofs |-> IF b.moof THEN Append(p.moofs, p.pos) ELSE p.moofs]
      BY <2>1, WalkDef
    <3> HIDE DEF p, b
    <3>2. QED
      BY <3>1
  <2> HIDE DEF p, b
  <2>5. QED
    BY <2>2, <2>3, <2>4, OneMoofMore
<1>3. Nat \subseteq S
  <2>1. \A k \in Nat : k \in S => k + 1 \in S
    BY <1>2
  <2> HIDE DEF S
  <2>2. QED
    BY <1>1, <2>1, Induction
<1>4. QED
  BY <1>3 DEF Layout

LEMMA MoofsRise ==
  ASSUME NEW l \in Layout
  PROVE  Rising(Moofs(l), Size(l))
<1> DEFINE w == Walk(l)[Len(l.boxes)]
<1>1. Len(l.boxes) \in 0..Len(l.boxes) /\ l.tail \in Nat
  BY DEF Layout
<1>2. Rising(w.moofs, w.pos)
  BY <1>1, WalkRises
<1>3. Moofs(l) = w.moofs /\ Size(l) = w.pos + l.tail
  BY DEF Moofs, Size
<1> HIDE DEF w
<1>4. QED
  BY <1>1, <1>2, <1>3 DEF Rising

----------------------------------------------------------------------------
(* Segments that follow one another.                                         *)

Segment == [offset : Nat, size : Nat]
After(s) == s.offset + s.size

Tiles(segs, from, to) ==
  /\ segs \in Seq(Segment) /\ Len(segs) > 0
  /\ segs[1].offset = from /\ After(segs[Len(segs)]) = to
  /\ \A i \in 1..(Len(segs) - 1) : segs[i + 1].offset = After(segs[i])

(* A chunk of a fragmented file, given its moofs.                            *)
Whole(s, moofs) ==
  /\ s.offset \in moofs
  /\ s.size <= ChunkData \/ moofs \cap (s.offset + 1)..(After(s) - 1) = {}

LEMMA OneSegment ==
  ASSUME NEW s \in Segment
  PROVE  Tiles(<<s>>, s.offset, After(s))
BY DEF Tiles

(* scanFMP4Segments, of any sequence of boxes and any tail: the segments     *)
(* cover the file from the first byte to the last; without a moof there is   *)
(* one, else the first ends where the first moof starts, and each of the     *)
(* others is whole fragments: it starts at a moof.                           *)
THEOREM ScanTiles ==
  ASSUME NEW l \in Layout
  PROVE  /\ Tiles(Scan(l), 0, Size(l))
         /\ Moofs(l) = <<>> => Len(Scan(l)) = 1
         /\ Moofs(l) # <<>> =>
              /\ Len(Scan(l)) > 1 /\ Scan(l)[1].size = Moofs(l)[1]
              /\ \A i \in 2..Len(Scan(l)) : Whole(Scan(l)[i], ToSet(Moofs(l)))
<1> DEFINE m == Moofs(l)
           z == Size(l)
           End(i) == IF i < Len(m) THEN m[i + 1] ELSE z
           cut == [i \in DOMAIN m |-> [offset |-> m[i], size |-> End(i) - m[i]]]
<1>1. Rising(m, z)
  BY MoofsRise
<1>2. CASE m = <<>>
  <2> DEFINE all == [offset |-> 0, size |-> z]
  <2>1. Scan(l) = <<all>>
    BY <1>2 DEF Scan
  <2>2. all \in Segment /\ all.offset = 0 /\ After(all) = z
    BY <1>1 DEF Segment, After, Rising
  <2> HIDE DEF z, all
  <2>3. Tiles(<<all>>, 0, z) /\ Len(<<all>>) = 1
    BY <2>2, OneSegment
  <2>4. QED
    BY <2>1, <2>3, <1>2 DEF z
<1>3. CASE m # <<>>
  <2>1. Scan(l) = <<[offset |-> 0, size |-> m[1]]>> \o cut
    BY <1>3 DEF Scan
  <2> HIDE DEF m, z
  <2>2. m \in Seq(Nat) /\ z \in Nat /\ Len(m) \in Nat /\ Len(m) > 0 /\ DOMAIN m = 1..Len(m)
    BY <1>1, <1>3, EmptySeq DEF Rising
  <2>3. ASSUME NEW i \in 1..Len(m)
        PROVE  m[i] \in Nat /\ End(i) \in Nat /\ m[i] < End(i)
    BY <1>1, <2>2 DEF Rising
  <2>4. /\ cut \in Seq(Segment) /\ Len(cut) = Len(m)
        /\ \A i \in 1..Len(m) : cut[i] = [offset |-> m[i], size |-> End(i) - m[i]]
    BY <2>2, <2>3 DEF Segment
  <2> HIDE DEF cut, End
  <2> DEFINE head == [offset |-> 0, size |-> m[1]]
             s == <<head>> \o cut
  <2>5. head \in Segment
    BY <2>2 DEF Segment
  <2>6. /\ s \in Seq(Segment) /\ Len(s) = Len(m) + 1 /\ s[1] = head
        /\ \A i \in 2..Len(s) : s[i] = cut[i - 1]
    <3> HIDE DEF head
    <3>1. <<head>> \in Seq(Segment) /\ Len(<<head>>) = 1 /\ <<head>>[1] = head
      BY <2>5
    <3>2. QED
      BY <3>1, <2>2, <2>4, ConcatProperties
  <2>7. Scan(l) = s
    BY <2>1 DEF m
  <2> HIDE DEF s
  <2>8. ASSUME NEW i \in 2..Len(s)
        PROVE  s[i].offset = m[i - 1] /\ After(s[i]) = End(i - 1)
    <3>1. i - 1 \in 1..Len(m)
      BY <2>2, <2>6
    <3>2. s[i] = [offset |-> m[i - 1], size |-> End(i - 1) - m[i - 1]]
      BY <3>1, <2>4, <2>6
    <3>3. m[i - 1] \in Nat /\ End(i - 1) \in Nat
      BY <3>1, <2>3
    <3>4. QED
      BY <3>2, <3>3 DEF After
  <2>9. s[1].offset = 0 /\ s[1].size = m[1] /\ After(s[1]) = m[1]
    BY <2>2, <2>6 DEF After
  <2>10. Tiles(s, 0, z)
    <3>1. After(s[Len(s)]) = z
      BY <2>2, <2>6, <2>8 DEF End
    <3>2. \A i \in 1..(Len(s) - 1) : s[i + 1].offset = After(s[i])
      BY <2>2, <2>6, <2>8, <2>9 DEF End
    <3>3. QED
      BY <3>1, <3>2, <2>2, <2>6, <2>9 DEF Tiles
  <2>11. ASSUME NEW i \in 2..Len(s)
         PROVE  Whole(s[i], ToSet(m))
    <3>1. i - 1 \in 1..Len(m)
      BY <2>2, <2>6
    <3>2. m[i - 1] \in ToSet(m)
      BY <3>1, <2>2 DEF ToSet
    <3>3. ASSUME NEW j \in 1..Len(m), m[j] \in (m[i - 1] + 1)..(End(i - 1) - 1)
          PROVE  FALSE
      <4>1. m[j] \in Nat /\ m[i - 1] \in Nat /\ End(i - 1) \in Nat
        BY <3>1, <2>2, <2>3
      <4>2. m[i - 1] < m[j] /\ m[j] < End(i - 1)
        BY <3>3, <4>1
      <4>3. i - 1 < j
        BY <3>1, <4>1, <4>2, <1>1 DEF Rising
      <4>4. CASE j = i
        BY <3>1, <4>1, <4>2, <4>4 DEF End
      <4>5. CASE j # i
        <5>1. i < j /\ i \in 1..Len(m) /\ End(i - 1) = m[i]
          BY <3>1, <4>3, <4>5, <2>2 DEF End
        <5>2. m[i] < m[j] /\ m[i] \in Nat
          BY <5>1, <1>1 DEF Rising
        <5>3. QED
          BY <4>1, <4>2, <5>1, <5>2
      <4>6. QED
        BY <4>4, <4>5
    <3>4. QED
      BY <3>2, <3>3, <2>2, <2>8 DEF Whole, ToSet
  <2>12. QED
    BY <2>2, <2>6, <2>7, <2>9, <2>10, <2>11, <1>3 DEF m, z
<1>4. QED
  BY <1>2, <1>3

----------------------------------------------------------------------------
(* The merge.                                                                *)

Stretched(cur, s) == [offset |-> cur.offset, size |-> cur.size + s.size]

LEMMA MergeShape ==
  ASSUME NEW out \in Seq(Segment), Len(out) > 0, NEW s \in Segment
  PROVE  LET n == Len(out)
             g == MergeOne(out, s)
         IN /\ g \in Seq(Segment) /\ Len(g) \in {n, n + 1}
            /\ \A i \in 1..(n - 1) : g[i] = out[i]
            /\ IF Joins(out[n], s) THEN Len(g) = n /\ g[n] = Stretched(out[n], s)
                                   ELSE Len(g) = n + 1 /\ g[n] = out[n] /\ g[n + 1] = s
<1> DEFINE n == Len(out)
           cur == out[n]
<1>1. n \in Nat /\ n > 0 /\ cur \in Segment
  OBVIOUS
<1>2. CASE Joins(cur, s)
  <2> DEFINE f == SubSeq(out, 1, n - 1)
             e == [cur EXCEPT !.size = @ + s.size]
  <2>1. e = Stretched(cur, s) /\ e \in Segment
    BY <1>1 DEF Segment, Stretched
  <2>2. f \in Seq(Segment) /\ Len(f) = n - 1 /\ \A i \in 1..(n - 1) : f[i] = out[i]
    <3>1. n - 1 \in Int /\ 1 \in Int /\ \A i \in 1..(n - 1) : out[i] \in Segment
      BY <1>1
    <3> HIDE DEF n
    <3>2. /\ f \in Seq(Segment) /\ Len(f) = IF 1 <= n - 1 THEN (n - 1) - 1 + 1 ELSE 0
          /\ \A i \in 1..((n - 1) - 1 + 1) : f[i] = out[1 + i - 1]
      BY <3>1, SubSeqProperties
    <3>3. QED
      BY <3>2, <1>1
  <2>3. MergeOne(out, s) = Append(f, e)
    BY <1>2 DEF MergeOne, Last, Front
  <2> HIDE DEF n, f, e
  <2>4. /\ Append(f, e) \in Seq(Segment) /\ Len(Append(f, e)) = n /\ Append(f, e)[n] = e
        /\ \A i \in 1..(n - 1) : Append(f, e)[i] = f[i]
    BY <1>1, <2>1, <2>2, AppendProperties
  <2>5. QED
    BY <1>2, <2>1, <2>2, <2>3, <2>4 DEF n
<1>3. CASE ~Joins(cur, s)
  <2>1. MergeOne(out, s) = Append(out, s)
    BY <1>3 DEF MergeOne, Last
  <2>2. /\ Append(out, s) \in Seq(Segment) /\ Len(Append(out, s)) = n + 1
        /\ Append(out, s)[n + 1] = s /\ \A i \in 1..n : Append(out, s)[i] = out[i]
    BY <1>1, AppendProperties
  <2>3. QED
    BY <1>1, <1>3, <2>1, <2>2
<1>4. QED
  BY <1>2, <1>3

(* One fragment more keeps the chunks in a row, and each of them whole.      *)
LEMMA MergeKeeps ==
  ASSUME NEW moofs, NEW out, NEW from, NEW s \in Segment, Tiles(out, from, s.offset),
         \A i \in 1..Len(out) : Whole(out[i], moofs), Whole(s, moofs)
  PROVE  /\ Tiles(MergeOne(out, s), from, After(s))
         /\ \A i \in 1..Len(MergeOne(out, s)) : Whole(MergeOne(out, s)[i], moofs)
<1> DEFINE n == Len(out)
           g == MergeOne(out, s)
<1>1. n \in Nat /\ n > 0 /\ out \in Seq(Segment) /\ out[n] \in Segment
  BY DEF Tiles
<1>2. /\ g \in Seq(Segment) /\ Len(g) \in {n, n + 1}
      /\ \A i \in 1..(n - 1) : g[i] = out[i]
      /\ IF Joins(out[n], s) THEN Len(g) = n /\ g[n] = Stretched(out[n], s)
                             ELSE Len(g) = n + 1 /\ g[n] = out[n] /\ g[n + 1] = s
  BY <1>1, MergeShape
<1>3. /\ out[1].offset = from /\ After(out[n]) = s.offset
      /\ \A i \in 1..(n - 1) : out[i + 1].offset = After(out[i])
  BY DEF Tiles
<1> HIDE DEF n, g
<1>4. /\ g[n].offset = out[n].offset
      /\ \A i \in 1..(n - 1) : g[i].offset = out[i].offset /\ After(g[i]) = After(out[i])
  BY <1>2 DEF Stretched
<1>5. g[1].offset = from
  <2>1. CASE n = 1
    BY <2>1, <1>3, <1>4
  <2>2. CASE n # 1
    <3>1. 1 \in 1..(n - 1)
      BY <2>2, <1>1
    <3>2. QED
      BY <3>1, <1>3, <1>4
  <2>3. QED
    BY <2>1, <2>2
<1>6. \A i \in 1..(n - 1) : g[i + 1].offset = After(g[i])
  <2>1. ASSUME NEW i \in 1..(n - 1)
        PROVE  g[i + 1].offset = After(g[i])
    <3>1. i + 1 = n \/ i + 1 \in 1..(n - 1)
      BY <1>1
    <3>2. g[i + 1].offset = out[i + 1].offset
      BY <3>1, <1>4
    <3>3. QED
      BY <3>2, <1>3, <1>4
  <2>2. QED
    BY <2>1
<1>7. CASE Joins(out[n], s)
  <2>1. Len(g) = n /\ g[n] = Stretched(out[n], s) /\ out[n].size + s.size <= ChunkData
    BY <1>2, <1>7 DEF Joins
  <2>2. g[n].size = out[n].size + s.size /\ After(g[n]) = After(s)
    BY <2>1, <1>1, <1>3 DEF Stretched, After, Segment
  <2>3. Tiles(g, from, After(s))
    BY <1>1, <1>2, <1>5, <1>6, <2>1, <2>2 DEF Tiles
  <2>4. Whole(out[n], moofs)
    BY <1>1 DEF n
  <2>5. Whole(g[n], moofs)
    BY <2>1, <2>2, <2>4, <1>4 DEF Whole
  <2>6. \A i \in 1..(n - 1) : Whole(g[i], moofs)
    BY <1>1, <1>2 DEF n
  <2>7. \A i \in 1..Len(g) : Whole(g[i], moofs)
    <3>1. \A i \in 1..Len(g) : i = n \/ i \in 1..(n - 1)
      BY <2>1, <1>1
    <3>2. QED
      BY <3>1, <2>5, <2>6
  <2>8. QED
    BY <2>3, <2>7 DEF g
<1>8. CASE ~Joins(out[n], s)
  <2>1. Len(g) = n + 1 /\ g[n] = out[n] /\ g[n + 1] = s
    BY <1>2, <1>8
  <2>2. \A i \in 1..n : g[i + 1].offset = After(g[i])
    <3>1. \A i \in 1..n : i = n \/ i \in 1..(n - 1)
      BY <1>1
    <3>2. QED
      BY <3>1, <2>1, <1>3, <1>6
  <2>3. Tiles(g, from, After(s))
    BY <1>1, <1>2, <1>5, <2>1, <2>2 DEF Tiles
  <2>4. \A i \in 1..Len(g) : i = n + 1 \/ (i \in 1..n /\ g[i] = out[i])
    <3>1. \A i \in 1..Len(g) : i = n + 1 \/ i = n \/ i \in 1..(n - 1)
      BY <2>1, <1>1
    <3>2. n \in 1..n /\ \A i \in 1..(n - 1) : i \in 1..n
      BY <1>1
    <3>3. QED
      BY <3>1, <3>2, <2>1, <1>2
  <2>5. \A i \in 1..Len(g) : Whole(g[i], moofs)
    BY <2>1, <2>4 DEF n
  <2>6. QED
    BY <2>3, <2>5 DEF g
<1>9. QED
  BY <1>7, <1>8

(* The merge is what its definition says.                                    *)
LEMMA MergedDef ==
  ASSUME NEW segs \in Seq(Segment), Len(segs) > 2
  PROVE  /\ Merged(segs)[0] = <<segs[2]>>
         /\ \A n \in 0..(Len(segs) - 3) : Merged(segs)[n + 1] = MergeOne(Merged(segs)[n], segs[n + 3])
<1> DEFINE N == Len(segs) - 2
           V == {v \in Seq(Segment) : Len(v) > 0}
           start == <<segs[2]>>
           F == [n \in 0..(N - 1) |-> [v \in V |-> MergeOne(v, segs[n + 3])]]
           E(w) == [n \in 0..N |-> IF n = 0 THEN start ELSE MergeOne(w[n - 1], segs[n + 2])]
<1>1. N \in Nat /\ start \in V
  <2>1. segs[2] \in Segment
    OBVIOUS
  <2>2. QED
    BY <2>1
<1>2. ASSUME NEW n \in 0..(N - 1), NEW v \in V
      PROVE  MergeOne(v, segs[n + 3]) \in V
  <2>1. segs[n + 3] \in Segment /\ v \in Seq(Segment) /\ Len(v) \in Nat /\ Len(v) > 0
    OBVIOUS
  <2> DEFINE g == MergeOne(v, segs[n + 3])
  <2>2. g \in Seq(Segment) /\ Len(g) \in {Len(v), Len(v) + 1}
    BY <2>1, MergeShape
  <2> HIDE DEF g
  <2>3. g \in V
    BY <2>1, <2>2
  <2>4. QED
    BY <2>3 DEF g
<1>3. PICK f : IsRun(f, N, V, start, F)
  <2>1. F \in [0..(N - 1) -> [V -> V]]
    <3> HIDE DEF N, V
    <3> QED
      BY <1>2
  <2> HIDE DEF N, V, start, F
  <2>2. Loop(N, V, start, F)
    BY <1>1, <2>1 DEF Loop
  <2>3. QED
    BY <2>2, Recursion
<1>4. f = E(f)
  <2>1. ASSUME NEW n \in 0..N
        PROVE  f[n] = E(f)[n]
    <3>1. CASE n = 0
      <4> HIDE DEF N, V, start, F
      <4> QED
        BY <1>3, <3>1 DEF IsRun
    <3>2. CASE n # 0
      <4>1. n - 1 \in 0..(N - 1) /\ (n - 1) + 1 = n /\ (n - 1) + 3 = n + 2 /\ f[n - 1] \in V
        <5> HIDE DEF N, V, start, F
        <5> QED
          BY <1>1, <1>3, <3>2 DEF IsRun
      <4>2. f[n] = F[n - 1][f[n - 1]]
        <5> HIDE DEF N, V, start, F
        <5> QED
          BY <1>3, <4>1 DEF IsRun
      <4>3. F[n - 1][f[n - 1]] = MergeOne(f[n - 1], segs[n + 2])
        <5> HIDE DEF N, V
        <5> QED
          BY <4>1
      <4> HIDE DEF N, F
      <4>4. QED
        BY <3>2, <4>2, <4>3
    <3> HIDE DEF E
    <3>3. QED
      BY <3>1, <3>2
  <2> HIDE DEF N, V, start, F
  <2>2. QED
    BY <2>1, <1>3 DEF IsRun
<1>5. Merged(segs) = CHOOSE w : w = E(w)
  BY DEF Merged
<1>6. Merged(segs) = E(Merged(segs))
  <2> HIDE DEF E
  <2> QED
    BY <1>4, <1>5
<1>7. ASSUME NEW n \in 0..(Len(segs) - 3)
      PROVE  Merged(segs)[n + 1] = MergeOne(Merged(segs)[n], segs[n + 3])
  <2>1. n + 1 \in 0..N /\ n + 1 # 0 /\ (n + 1) - 1 = n /\ (n + 1) + 2 = n + 3
    BY <1>1
  <2> HIDE DEF N, start
  <2>2. Merged(segs)[n + 1] = MergeOne(Merged(segs)[(n + 1) - 1], segs[(n + 1) + 2])
    BY <1>6, <2>1
  <2>3. QED
    BY <2>1, <2>2
<1>8. Merged(segs)[0] = start
  BY <1>1, <1>6
<1>9. QED
  BY <1>7, <1>8

LEMMA MergedTiles ==
  ASSUME NEW moofs, NEW from, NEW to, NEW segs, Tiles(segs, from, to), Len(segs) > 2,
         \A i \in 2..Len(segs) : Whole(segs[i], moofs), NEW n \in 0..(Len(segs) - 2)
  PROVE  /\ Tiles(Merged(segs)[n], segs[2].offset, After(segs[n + 2]))
         /\ \A i \in 1..Len(Merged(segs)[n]) : Whole(Merged(segs)[n][i], moofs)
<1> DEFINE Good(k) == /\ Tiles(Merged(segs)[k], segs[2].offset, After(segs[k + 2]))
                      /\ \A i \in 1..Len(Merged(segs)[k]) : Whole(Merged(segs)[k][i], moofs)
           S == {k \in Nat : k <= Len(segs) - 2 => Good(k)}
<1>1. segs \in Seq(Segment) /\ Len(segs) \in Nat
  BY DEF Tiles
<1>2. Good(0)
  <2>1. Merged(segs)[0] = <<segs[2]>> /\ segs[2] \in Segment /\ 0 + 2 = 2
    BY <1>1, MergedDef
  <2>2. Tiles(<<segs[2]>>, segs[2].offset, After(segs[2]))
    BY <2>1, OneSegment
  <2>3. Len(<<segs[2]>>) = 1 /\ <<segs[2]>>[1] = segs[2] /\ 2 \in 2..Len(segs)
    BY <1>1
  <2>4. \A i \in 1..Len(<<segs[2]>>) : Whole(<<segs[2]>>[i], moofs)
    BY <2>3
  <2>5. QED
    BY <2>1, <2>2, <2>4
<1>3. ASSUME NEW k \in Nat, k + 1 <= Len(segs) - 2, Good(k)
      PROVE  Good(k + 1)
  <2>1. /\ k \in 0..(Len(segs) - 3) /\ k + 2 \in 1..(Len(segs) - 1) /\ k + 3 \in 2..Len(segs)
        /\ (k + 2) + 1 = k + 3 /\ (k + 1) + 2 = k + 3
    BY <1>1, <1>3
  <2>2. segs[k + 3] \in Segment /\ segs[k + 3].offset = After(segs[k + 2])
    <3>1. segs[(k + 2) + 1].offset = After(segs[k + 2])
      BY <2>1 DEF Tiles
    <3>2. QED
      BY <3>1, <2>1, <1>1
  <2>3. Whole(segs[k + 3], moofs)
    BY <2>1
  <2>4. Merged(segs)[k + 1] = MergeOne(Merged(segs)[k], segs[k + 3])
    BY <1>1, <2>1, MergedDef
  <2> DEFINE out == Merged(segs)[k]
             s == segs[k + 3]
  <2>5. Tiles(out, segs[2].offset, s.offset) /\ \A i \in 1..Len(out) : Whole(out[i], moofs)
    BY <1>3, <2>2
  <2> HIDE DEF out, s
  <2>6. /\ Tiles(MergeOne(out, s), segs[2].offset, After(s))
        /\ \A i \in 1..Len(MergeOne(out, s)) : Whole(MergeOne(out, s)[i], moofs)
    <3>1. s \in Segment /\ Whole(s, moofs)
      BY <2>2, <2>3 DEF s
    <3>2. QED
      BY <3>1, <2>5, MergeKeeps
  <2>7. QED
    BY <2>1, <2>4, <2>6 DEF out, s
<1>4. Nat \subseteq S
  <2>1. 0 \in S
    BY <1>2
  <2>2. \A k \in Nat : k \in S => k + 1 \in S
    <3> HIDE DEF Good
    <3> QED
      BY <1>1, <1>3
  <2> HIDE DEF S
  <2>3. QED
    BY <2>1, <2>2, Induction
<1>5. Good(n)
  <2> HIDE DEF Good
  <2> QED
    BY <1>1, <1>4
<1>6. QED
  BY <1>5

(* mergeSegments: the chunks cover what the segments did, the first one is   *)
(* the init segment alone, and each of the others still starts at a moof.    *)
THEOREM MergeTiles ==
  ASSUME NEW moofs, NEW from, NEW to, NEW segs, Tiles(segs, from, to),
         \A i \in 2..Len(segs) : Whole(segs[i], moofs)
  PROVE  /\ Tiles(Merge(segs), from, to) /\ Merge(segs)[1] = segs[1]
         /\ \A i \in 2..Len(Merge(segs)) : Whole(Merge(segs)[i], moofs)
<1>1. segs \in Seq(Segment) /\ Len(segs) \in Nat /\ Len(segs) > 0 /\ segs[1] \in Segment
  BY DEF Tiles
<1>2. CASE Len(segs) <= 2
  BY <1>2 DEF Merge
<1>3. CASE ~(Len(segs) <= 2)
  <2> DEFINE k == Len(segs) - 2
             out == Merged(segs)[k]
             g == <<segs[1]>> \o out
  <2>1. k \in 0..(Len(segs) - 2) /\ k + 2 = Len(segs) /\ Len(segs) > 2
    BY <1>1, <1>3
  <2>2. Tiles(out, segs[2].offset, After(segs[k + 2])) /\ \A i \in 1..Len(out) : Whole(out[i], moofs)
    <3> HIDE DEF k
    <3> QED
      BY <2>1, MergedTiles
  <2>3. Tiles(out, After(segs[1]), to) /\ segs[1].offset = from
    <3>1. segs[2].offset = After(segs[1])
      <4>1. 1 \in 1..(Len(segs) - 1) /\ 1 + 1 = 2
        BY <2>1, <1>1
      <4>2. segs[1 + 1].offset = After(segs[1])
        BY <4>1 DEF Tiles
      <4>3. QED
        BY <4>1, <4>2
    <3>2. After(segs[Len(segs)]) = to /\ segs[1].offset = from
      BY DEF Tiles
    <3> HIDE DEF out, k
    <3>3. QED
      BY <3>1, <3>2, <2>1, <2>2
  <2>4. Merge(segs) = g
    BY <1>3 DEF Merge
  <2> HIDE DEF out, k
  <2>5. out \in Seq(Segment) /\ Len(out) \in Nat /\ Len(out) > 0
    BY <2>3 DEF Tiles
  <2>6. /\ g \in Seq(Segment) /\ Len(g) = Len(out) + 1 /\ g[1] = segs[1]
        /\ \A i \in 2..Len(g) : i - 1 \in 1..Len(out) /\ g[i] = out[i - 1]
    <3>1. <<segs[1]>> \in Seq(Segment) /\ Len(<<segs[1]>>) = 1 /\ <<segs[1]>>[1] = segs[1]
      BY <1>1
    <3>2. QED
      BY <3>1, <2>5, ConcatProperties
  <2> HIDE DEF g
  <2>7. After(g[Len(g)]) = to
    <3>1. Len(g) \in 2..Len(g) /\ Len(g) - 1 = Len(out)
      BY <2>5, <2>6
    <3>2. g[Len(g)] = out[Len(out)]
      BY <3>1, <2>6
    <3>3. QED
      BY <3>2, <2>3 DEF Tiles
  <2>8. ASSUME NEW i \in 1..(Len(g) - 1)
        PROVE  g[i + 1].offset = After(g[i])
    <3>1. i + 1 \in 2..Len(g) /\ (i + 1) - 1 = i
      BY <2>5, <2>6
    <3>2. g[i + 1] = out[i] /\ i \in 1..Len(out)
      BY <3>1, <2>6
    <3>3. CASE i = 1
      BY <3>2, <3>3, <2>3, <2>6 DEF Tiles
    <3>4. CASE i # 1
      <4>1. i \in 2..Len(g) /\ i - 1 \in 1..(Len(out) - 1) /\ (i - 1) + 1 = i
        BY <3>4, <2>5, <2>6
      <4>2. out[(i - 1) + 1].offset = After(out[i - 1])
        BY <4>1, <2>3 DEF Tiles
      <4>3. QED
        BY <3>2, <4>1, <4>2, <2>6
    <3>5. QED
      BY <3>3, <3>4
  <2>9. Tiles(g, from, to)
    BY <2>3, <2>5, <2>6, <2>7, <2>8 DEF Tiles
  <2>10. \A i \in 2..Len(g) : Whole(g[i], moofs)
    BY <2>2, <2>6
  <2>11. QED
    BY <2>4, <2>6, <2>9, <2>10
<1>4. QED
  BY <1>2, <1>3

----------------------------------------------------------------------------
(* Chunks of a fixed size, and the buckets.                                  *)

LEMMA ChunkDataPositive == ChunkData \in Nat /\ ChunkData > 0
BY UploadAssumption DEF ChunkData

(* makeFixedSegments: the chunks cover a file of n bytes, the empty one too. *)
THEOREM FixedTiles ==
  ASSUME NEW n \in Nat
  PROVE  Tiles(FixedSegments(n), 0, n)
<1> DEFINE c == ChunkData
           q == (n + c - 1) \div c
<1>0. c \in Nat /\ c > 0
  BY ChunkDataPositive
<1>1. CASE n = 0
  <2> DEFINE s == [offset |-> 0, size |-> 0]
  <2>1. s \in Segment /\ s.offset = 0 /\ After(s) = 0
    BY DEF Segment, After
  <2>2. FixedSegments(n) = <<s>>
    BY <1>1 DEF FixedSegments
  <2> HIDE DEF s
  <2>3. QED
    BY <2>1, <2>2, <1>1, OneSegment
<1>2. CASE n # 0
  <2> HIDE DEF c
  <2>1. q \in Nat /\ q > 0 /\ q * c >= n /\ (q - 1) * c < n
    BY <1>0, <1>2, RoundedUp
  <2> DEFINE s(i) == [offset |-> (i - 1) * c,
                      size   |-> IF i * c <= n THEN c ELSE n - (i - 1) * c]
             f == [i \in 1..q |-> s(i)]
  <2>2. FixedSegments(n) = f
    BY <1>2 DEF FixedSegments, c
  <2> HIDE DEF q
  <2>3. ASSUME NEW i \in 1..q
        PROVE  (i - 1) * c \in Nat /\ (i - 1) * c < n /\ i * c \in Nat /\ (i - 1) * c + c = i * c
    <3>1. i - 1 \in Nat /\ q - 1 \in Nat /\ i - 1 <= q - 1
      BY <2>1
    <3>2. (i - 1) * c <= (q - 1) * c
      BY <3>1, <1>0, Monotone
    <3>3. (i - 1) * c \in Nat /\ (q - 1) * c \in Nat
      BY <3>1, <1>0
    <3>4. i * c \in Nat /\ (i - 1) * c + c = i * c
      BY <1>0
    <3>5. QED
      BY <3>2, <3>3, <3>4, <2>1
  <2>4. ASSUME NEW i \in 1..q
        PROVE  /\ s(i) \in Segment /\ s(i).offset = (i - 1) * c
               /\ After(s(i)) = IF i * c <= n THEN i * c ELSE n
    <3> DEFINE a == (i - 1) * c
               b == i * c
    <3>1. a \in Nat /\ a < n /\ b \in Nat /\ a + c = b
      BY <2>3
    <3>2. s(i) = [offset |-> a, size |-> IF b <= n THEN c ELSE n - a]
      OBVIOUS
    <3> HIDE DEF a, b, s
    <3>3. s(i) \in Segment /\ s(i).offset = a /\ After(s(i)) = IF b <= n THEN b ELSE n
      BY <3>1, <3>2, <1>0 DEF Segment, After
    <3>4. QED
      BY <3>3 DEF a, b
  <2>5. f \in Seq(Segment) /\ Len(f) = q /\ \A i \in 1..q : f[i] = s(i)
    <3> HIDE DEF s
    <3> QED
      BY <2>1, <2>4
  <2> HIDE DEF f, s
  <2>6. f[1].offset = 0
    <3>1. 1 \in 1..q /\ (1 - 1) * c = 0
      BY <2>1, <1>0
    <3>2. QED
      BY <3>1, <2>4, <2>5
  <2>7. After(f[q]) = n
    <3>1. q \in 1..q
      BY <2>1
    <3>2. After(f[q]) = IF q * c <= n THEN q * c ELSE n
      BY <3>1, <2>4, <2>5
    <3>3. q * c \in Nat
      BY <3>1, <2>3
    <3>4. QED
      BY <3>2, <3>3, <2>1
  <2>8. ASSUME NEW i \in 1..(q - 1)
        PROVE  f[i + 1].offset = After(f[i])
    <3>1. i \in 1..q /\ i + 1 \in 1..q /\ (i + 1) - 1 = i
      BY <2>1
    <3>2. f[i + 1].offset = i * c
      BY <3>1, <2>4, <2>5
    <3>3. i * c < n
      BY <3>1, <2>3
    <3>4. After(f[i]) = IF i * c <= n THEN i * c ELSE n
      BY <3>1, <2>4, <2>5
    <3>5. i * c \in Nat
      BY <3>1, <2>3
    <3>6. QED
      BY <3>2, <3>3, <3>4, <3>5
  <2>9. Tiles(f, 0, n)
    BY <2>1, <2>5, <2>6, <2>7, <2>8 DEF Tiles
  <2>10. QED
    BY <2>2, <2>9
<1>3. QED
  BY <1>1, <1>2

(* chunkCiphertextSize: the bucket holds its chunk with the overhead of its  *)
(* frame; one bucket is enough for a chunk of CHUNK_DATA_SIZE or less.       *)
THEOREM CiphertextHolds ==
  ASSUME NEW n \in Nat
  PROVE  /\ Ciphertext(n) \in Nat /\ Ciphertext(n) >= n + Overhead
         /\ n <= ChunkData => Ciphertext(n) = Mib
<1> DEFINE need == n + Overhead
           fits == {b \in {1, 2, 4, 8, 16} : need <= b * Mib}
<1>1. Mib \in Nat /\ Mib > 0 /\ Overhead \in Nat /\ need \in Nat
  BY UploadAssumption
<1>2. (n <= ChunkData) => need <= 1 * Mib /\ 1 \in fits
  BY <1>1 DEF ChunkData
<1>3. CASE fits # {}
  <2> DEFINE b == CHOOSE b \in fits : \A c \in fits : b <= c
  <2>1. Ciphertext(n) = Mib * b
    BY <1>3 DEF Ciphertext
  <2>2. fits \in SUBSET Nat
    OBVIOUS
  <2>3. \A x \in fits : x \in {1, 2, 4, 8, 16} /\ need <= x * Mib
    OBVIOUS
  <2> HIDE DEF fits
  <2>4. b \in fits /\ \A c \in fits : b <= c
    BY <1>3, <2>2, Least
  <2> HIDE DEF b
  <2>5. b \in {1, 2, 4, 8, 16} /\ need <= b * Mib
    BY <2>3, <2>4
  <2>6. Mib * b \in Nat /\ Mib * b = b * Mib
    BY <1>1, <2>5
  <2>7. 1 \in fits => Mib * b = Mib
    <3>1. 1 \in fits => b = 1
      BY <2>4, <2>5
    <3>2. QED
      BY <3>1, <1>1
  <2>8. QED
    BY <2>1, <2>5, <2>6, <2>7, <1>2
<1>4. CASE fits = {}
  <2> DEFINE q == (need + Mib - 1) \div Mib
  <2>1. Ciphertext(n) = Mib * q
    BY <1>4 DEF Ciphertext
  <2> HIDE DEF need
  <2>2. q \in Nat /\ q * Mib >= need
    BY <1>1, RoundedUp
  <2> HIDE DEF q
  <2>3. Mib * q \in Nat /\ Mib * q = q * Mib
    BY <1>1, <2>2
  <2>4. ~(n <= ChunkData)
    BY <1>2, <1>4
  <2>5. QED
    BY <2>1, <2>2, <2>3, <2>4 DEF need
<1>5. QED
  BY <1>3, <1>4

=============================================================================
