--------------------------- MODULE ComputationProofs ---------------------------
(***************************************************************************)
(* What end() and the HTTP capture compute, for every input: the rendering *)
(* of two tracks of audio (AudioTrack) and the part of a request that fits *)
(* a budget (Payload).                                                     *)
(***************************************************************************)
EXTENDS AudioTrack, Payload, FiniteSetTheorems, SequenceTheorems, WellFoundedInduction, TLAPS

-------------------------------------------------------------------------------
(* Induction and folds *)

LEMMA Least ==
  ASSUME NEW D \in SUBSET Nat, D # {}
  PROVE  \E n \in D : \A m \in D : n <= m
<1>1. IsWellFoundedOn({p \in Nat \X Nat : p[1] < p[2]}, Nat)
  BY NatLessThanWellFounded, Zenon DEF OpToRel
<1>2. PICK n \in D : \A m \in D : <<m, n>> \notin {p \in Nat \X Nat : p[1] < p[2]}
  BY <1>1, WFMin
<1>3. ASSUME NEW m \in D PROVE n <= m
  <2>1. m \in Nat /\ n \in Nat
    OBVIOUS
  <2>2. ~(<<m, n>>[1] < <<m, n>>[2])
    BY <1>2, <2>1
  <2>3. QED BY <2>1, <2>2
<1>4. QED BY <1>3

LEMMA Induction ==
  ASSUME NEW D \in SUBSET Nat, 0 \in D, \A n \in D : n + 1 \in D
  PROVE  \A n \in Nat : n \in D
<1> SUFFICES ASSUME Nat \ D # {} PROVE FALSE
  OBVIOUS
<1>1. PICK n \in Nat \ D : \A m \in Nat \ D : n <= m
  BY Least
<1>2. n # 0 /\ n - 1 \in Nat
  BY <1>1
<1>3. n - 1 \in D
  BY <1>1, <1>2
<1>4. (n - 1) + 1 \in D
  BY <1>3
<1>5. QED BY <1>1, <1>4

LEMMA Highest ==
  ASSUME NEW n \in Nat, NEW T \in SUBSET (1..n), T # {}
  PROVE  Max(T) \in T /\ \A y \in T : Max(T) >= y
<1>1. PICK i : i \in {j \in Nat : n - j \in T} /\ \A m \in {j \in Nat : n - j \in T} : i <= m
  <2>1. PICK x : x \in T
    OBVIOUS
  <2>2. n - x \in Nat /\ n - (n - x) = x
    BY <2>1
  <2>3. {j \in Nat : n - j \in T} # {}
    BY <2>1, <2>2
  <2>4. QED BY <2>3, Least
<1>2. ASSUME NEW y \in T PROVE n - i >= y
  <2>1. n - y \in Nat /\ n - (n - y) = y
    OBVIOUS
  <2>2. i <= n - y
    BY <1>1, <2>1
  <2>3. QED BY <1>1, <2>2
<1>3. \E x \in T : \A y \in T : x >= y
  BY <1>1, <1>2
<1>4. QED BY <1>3 DEF Max

\* The folds of G over the parts of seq that D names.
Folds(h, base, seq, G, D) ==
  h = [T \in D |-> IF T = {} THEN base ELSE G[<<h[T \ {Max(T)}], seq[Max(T)]>>]]

LEMMA FoldsExist ==
  ASSUME NEW n \in Nat, NEW base, NEW seq, NEW G
  PROVE  \E h : Folds(h, base, seq, G, SUBSET (1..n))
<1> DEFINE D == {i \in Nat : \E h : Folds(h, base, seq, G, SUBSET (1..i))}
<1>1. 0 \in D
  <2>1. PICK h : h = [T \in {{}} |-> base]
    OBVIOUS
  <2>2. h = [T \in {{}} |-> IF T = {} THEN base ELSE G[<<h[T \ {Max(T)}], seq[Max(T)]>>]]
    BY <2>1
  <2>3. SUBSET (1..0) = {{}}
    OBVIOUS
  <2>4. Folds(h, base, seq, G, SUBSET (1..0))
    BY <2>2, <2>3 DEF Folds
  <2>5. QED BY <2>4
<1>2. ASSUME NEW i \in D PROVE i + 1 \in D
  <2>1. PICK h : Folds(h, base, seq, G, SUBSET (1..i))
    OBVIOUS
  <2>2. PICK g : g = [T \in SUBSET (1..(i + 1)) |->
                        IF T = {} THEN base ELSE G[<<h[T \ {Max(T)}], seq[Max(T)]>>]]
    OBVIOUS
  <2>3. ASSUME NEW T \in SUBSET (1..i) PROVE g[T] = h[T]
    <3>1. T \in SUBSET (1..(i + 1))
      OBVIOUS
    <3>2. QED BY <2>1, <2>2, <3>1 DEF Folds
  <2>4. ASSUME NEW T \in SUBSET (1..(i + 1)), T # {} PROVE T \ {Max(T)} \in SUBSET (1..i)
    <3>1. i + 1 \in Nat
      OBVIOUS
    <3>2. Max(T) \in T /\ \A y \in T : Max(T) >= y
      BY <2>4, <3>1, Highest
    <3>3. ASSUME NEW y \in T, y # Max(T) PROVE y \in 1..i
      <4>1. y \in 1..(i + 1) /\ Max(T) \in 1..(i + 1) /\ Max(T) >= y
        BY <3>2
      <4>2. QED BY <3>3, <4>1
    <3>4. QED BY <3>3
  <2>5. g = [T \in SUBSET (1..(i + 1)) |->
               IF T = {} THEN base ELSE G[<<g[T \ {Max(T)}], seq[Max(T)]>>]]
    BY <2>2, <2>3, <2>4
  <2>6. QED BY <2>5, SMTT(60) DEF Folds
<1>3. n \in D
  <2>1. D \in SUBSET Nat
    OBVIOUS
  <2> HIDE DEF D
  <2>2. QED BY <1>1, <1>2, <2>1, Induction
<1>4. QED BY <1>3

\* The beginnings of a sequence, one step at a time.
LEMMA Beginnings ==
  ASSUME NEW n \in Nat
  PROVE  /\ 1..0 = {} /\ {} \in SUBSET (1..n)
         /\ \A i \in 1..n : /\ 1..i \in SUBSET (1..n) /\ 1..i # {}
                            /\ Max(1..i) = i /\ (1..i) \ {Max(1..i)} = 1..(i - 1)
<1>1. ASSUME NEW i \in 1..n
      PROVE  /\ 1..i \in SUBSET (1..n) /\ 1..i # {}
             /\ Max(1..i) = i /\ (1..i) \ {Max(1..i)} = 1..(i - 1)
  <2>1. i \in Nat /\ 1..i \in SUBSET (1..n) /\ 1..i # {} /\ i \in 1..i
    OBVIOUS
  <2>2. Max(1..i) \in 1..i /\ \A y \in 1..i : Max(1..i) >= y
    BY <2>1, Highest
  <2>3. Max(1..i) = i
    BY <2>1, <2>2
  <2>4. (1..i) \ {i} = 1..(i - 1)
    OBVIOUS
  <2>5. QED BY <2>1, <2>3, <2>4
<1>2. QED BY <1>1

LEMMA FoldsClosed ==
  ASSUME NEW S, NEW E, NEW G \in [S \X E -> S], NEW base \in S, NEW seq \in Seq(E),
         NEW h, Folds(h, base, seq, G, SUBSET (1..Len(seq)))
  PROVE  \A T \in SUBSET (1..Len(seq)) : h[T] \in S
<1> DEFINE n == Len(seq)
           D == {i \in Nat : i <= n => \A T \in SUBSET (1..i) : h[T] \in S}
<1>1. n \in Nat
  OBVIOUS
<1>2. 0 \in D
  <2>1. SUBSET (1..0) = {{}} /\ {} \in SUBSET (1..n)
    OBVIOUS
  <2>2. h[{}] = base
    BY <2>1 DEF Folds
  <2>3. QED BY <2>1, <2>2
<1>3. ASSUME NEW i \in D PROVE i + 1 \in D
  <2>1. SUFFICES ASSUME i + 1 <= n, NEW T \in SUBSET (1..(i + 1)) PROVE h[T] \in S
    OBVIOUS
  <2>2. \A U \in SUBSET (1..i) : h[U] \in S
    BY <1>1, <2>1
  <2>3. T \in SUBSET (1..n)
    BY <1>1, <2>1
  <2>4. CASE T = {}
    BY <2>2, <2>4
  <2>5. CASE T # {}
    <3>0. i + 1 \in Nat /\ i \in Nat
      OBVIOUS
    <3>1. Max(T) \in T /\ \A y \in T : Max(T) >= y
      BY <2>5, <3>0, Highest
    <3>2. T \ {Max(T)} \in SUBSET (1..i)
      <4>1. ASSUME NEW y \in T, y # Max(T) PROVE y \in 1..i
        <5>1. y \in 1..(i + 1) /\ Max(T) \in 1..(i + 1) /\ Max(T) >= y
          BY <3>1
        <5>2. QED BY <3>0, <4>1, <5>1
      <4>2. QED BY <4>1
    <3>3. seq[Max(T)] \in E
      <4>1. Max(T) \in 1..Len(seq)
        BY <2>3, <3>1
      <4>2. QED BY <4>1
    <3>4. <<h[T \ {Max(T)}], seq[Max(T)]>> \in S \X E
      BY <2>2, <3>2, <3>3
    <3>5. h[T] = G[<<h[T \ {Max(T)}], seq[Max(T)]>>]
      BY <2>3, <2>5 DEF Folds
    <3>6. QED BY <3>4, <3>5
  <2>6. QED BY <2>4, <2>5
<1>4. n \in D
  <2>1. D \in SUBSET Nat
    OBVIOUS
  <2> HIDE DEF D
  <2>2. QED BY <1>1, <1>2, <1>3, <2>1, Induction
<1>5. QED BY <1>1, <1>4

-------------------------------------------------------------------------------
(* Payload: sizes *)

\* A message as it came or shortened.
Text == [fields : Nat, content : Nat, escape : Nat]

LEMMA SizeIsNat ==
  ASSUME NEW m \in Text
  PROVE  Size(m) \in Nat
<1>1. m.fields \in Nat /\ m.content \in Nat /\ m.escape \in Nat
  BY DEF Text
<1>2. \A a, b \in Nat : a * b \in Nat
  OBVIOUS
<1>3. QED BY <1>1, <1>2 DEF Size

LEMMA SizesFold ==
  ASSUME NEW messages \in Seq(Text)
  PROVE  \E f : /\ f \in [0..Len(messages) -> Nat]
                /\ f[0] = 0
                /\ \A i \in 1..Len(messages) : f[i] = f[i - 1] + Size(messages[i]) + 1
                /\ TotalSize(messages) = f[Len(messages)]
<1> DEFINE n == Len(messages)
           G == [p \in Nat \X Text |-> p[1] + Size(p[2]) + 1]
<1>1. n \in Nat /\ DOMAIN messages = 1..n
  OBVIOUS
<1>2. G \in [Nat \X Text -> Nat]
  BY SizeIsNat
<1>3. PICK h : Folds(h, 0, messages, G, SUBSET (1..n))
  BY <1>1, FoldsExist
<1>4. \A T \in SUBSET (1..n) : h[T] \in Nat
  <2> HIDE DEF G
  <2>1. QED BY <1>2, <1>3, FoldsClosed
<1>5. ASSUME NEW T \in SUBSET (1..n), T # {}
      PROVE  G[<<h[T \ {Max(T)}], messages[Max(T)]>>] = h[T \ {Max(T)}] + Size(messages[Max(T)]) + 1
  <2>1. Max(T) \in T
    BY <1>1, <1>5, Highest
  <2>2. Max(T) \in 1..n /\ T \ {Max(T)} \in SUBSET (1..n)
    BY <2>1
  <2>3. messages[Max(T)] \in Text /\ h[T \ {Max(T)}] \in Nat
    BY <1>1, <1>4, <2>2
  <2>4. QED BY <2>3
<1>6. h = [T \in SUBSET DOMAIN messages |->
             IF T = {} THEN 0 ELSE h[T \ {Max(T)}] + Size(messages[Max(T)]) + 1]
  <2> HIDE DEF G
  <2>1. QED BY <1>1, <1>3, <1>5 DEF Folds
<1>7. \E g : /\ g = [T \in SUBSET DOMAIN messages |->
                      IF T = {} THEN 0 ELSE g[T \ {Max(T)}] + Size(messages[Max(T)]) + 1]
             /\ TotalSize(messages) = g[DOMAIN messages]
  BY <1>6, Zenon DEF TotalSize, FoldLeft, MapThenFoldSet
<1>8. PICK g : /\ g = [T \in SUBSET (1..n) |->
                      IF T = {} THEN 0 ELSE g[T \ {Max(T)}] + Size(messages[Max(T)]) + 1]
              /\ TotalSize(messages) = g[1..n]
  BY <1>1, <1>7
<1>9. PICK f : f = [i \in 0..n |-> g[1..i]]
  OBVIOUS
<1>10. f[0] = 0
  BY <1>1, <1>8, <1>9, Beginnings
<1>11. ASSUME NEW i \in 1..n PROVE f[i] = f[i - 1] + Size(messages[i]) + 1
  <2>1. g[1..i] = g[1..(i - 1)] + Size(messages[i]) + 1
    BY <1>1, <1>8, Beginnings, ZenonT(60)
  <2>2. QED BY <1>1, <1>9, <2>1
<1>12. \A i \in 0..n : f[i] \in Nat
  <2> DEFINE D == {i \in Nat : i <= n => f[i] \in Nat}
  <2>1. 0 \in D
    BY <1>10
  <2>2. ASSUME NEW i \in D PROVE i + 1 \in D
    <3>1. SUFFICES ASSUME i + 1 <= n PROVE f[i + 1] \in Nat
      OBVIOUS
    <3>2. f[i + 1] = f[i] + Size(messages[i + 1]) + 1 /\ messages[i + 1] \in Text
      BY <1>1, <1>11, <3>1
    <3>3. QED BY <1>1, <3>1, <3>2, SizeIsNat
  <2>3. D \in SUBSET Nat
    OBVIOUS
  <2>4. \A i \in Nat : i \in D
    <3> HIDE DEF D
    <3>1. QED BY <2>1, <2>2, <2>3, Induction
  <2>5. QED BY <1>1, <2>4
<1>13. f \in [0..n -> Nat] /\ f[n] = g[1..n]
  BY <1>1, <1>9, <1>12
<1>14. QED BY <1>8, <1>10, <1>11, <1>13

\* Prepending a message adds its size and a separator.
LEMMA TotalSizes ==
  ASSUME NEW s \in Seq(Text)
  PROVE  /\ TotalSize(s) \in Nat
         /\ s = <<>> => TotalSize(s) = 0
         /\ \A m \in Text : TotalSize(<<m>> \o s) = Size(m) + 1 + TotalSize(s)
<1>1. PICK f : /\ f \in [0..Len(s) -> Nat] /\ f[0] = 0
               /\ \A i \in 1..Len(s) : f[i] = f[i - 1] + Size(s[i]) + 1
               /\ TotalSize(s) = f[Len(s)]
  BY SizesFold
<1>2. TotalSize(s) \in Nat /\ (s = <<>> => TotalSize(s) = 0)
  BY <1>1
<1>3. ASSUME NEW m \in Text PROVE TotalSize(<<m>> \o s) = Size(m) + 1 + TotalSize(s)
  <2>1. PICK n : n = Len(s)
    OBVIOUS
  <2>2. PICK t : t = <<m>> \o s
    OBVIOUS
  <2>3. /\ n \in Nat /\ t \in Seq(Text) /\ Len(t) = n + 1 /\ t[1] = m
        /\ \A i \in 1..n : t[i + 1] = s[i] /\ s[i] \in Text
    BY <2>1, <2>2
  <2>4. PICK g : /\ g \in [0..(n + 1) -> Nat] /\ g[0] = 0
                 /\ \A i \in 1..(n + 1) : g[i] = g[i - 1] + Size(t[i]) + 1
                 /\ TotalSize(t) = g[n + 1]
    BY <2>3, SizesFold
  <2>5. Size(m) \in Nat
    BY SizeIsNat
  <2> DEFINE D == {i \in Nat : i <= n => g[i + 1] = Size(m) + 1 + f[i]}
  <2>6. 0 \in D
    <3>1. g[1] = g[0] + Size(m) + 1
      BY <2>3, <2>4
    <3>2. QED BY <1>1, <2>4, <2>5, <3>1
  <2>7. ASSUME NEW i \in D PROVE i + 1 \in D
    <3>1. SUFFICES ASSUME i + 1 <= n PROVE g[(i + 1) + 1] = Size(m) + 1 + f[i + 1]
      OBVIOUS
    <3>2. g[i + 2] = g[i + 1] + Size(t[i + 2]) + 1
      <4>1. i + 2 \in 1..(n + 1) /\ (i + 2) - 1 = i + 1
        BY <2>3, <3>1
      <4>2. QED BY <2>4, <4>1
    <3>3. f[i + 1] = f[i] + Size(s[i + 1]) + 1
      <4>1. i + 1 \in 1..Len(s) /\ (i + 1) - 1 = i
        BY <2>1, <2>3, <3>1
      <4>2. QED BY <1>1, <4>1
    <3>4. t[i + 2] = s[i + 1] /\ Size(s[i + 1]) \in Nat
      <4>1. i + 1 \in 1..n /\ (i + 1) + 1 = i + 2
        BY <2>3, <3>1
      <4>2. QED BY <2>3, <4>1, SizeIsNat
    <3>5. g[i + 1] = Size(m) + 1 + f[i] /\ f[i] \in Nat
      BY <1>1, <2>1, <2>3, <3>1
    <3>6. QED BY <2>5, <3>2, <3>3, <3>4, <3>5
  <2>8. \A i \in Nat : i \in D
    <3>1. D \in SUBSET Nat
      OBVIOUS
    <3> HIDE DEF D
    <3>2. QED BY <2>6, <2>7, <3>1, Induction
  <2>9. g[n + 1] = Size(m) + 1 + f[n]
    BY <2>3, <2>8
  <2>10. QED BY <1>1, <2>1, <2>2, <2>4, <2>9
<1>4. QED BY <1>2, <1>3

-------------------------------------------------------------------------------
(* Payload: the search for the longest room *)

Ranges(c) == (0..c) \X (0..c)

Middle(p) == (p[1] + p[2] + 1) \div 2

Upper(p) == <<Middle(p), p[2]>>

Lower(p) == <<p[1], Middle(p) - 1>>

\* A binary search among the rooms of which those in Rooms fit, over the ranges in D.
Searches(f, D, Rooms) ==
  f = [p \in D |-> IF p[1] >= p[2] THEN p[1]
                   ELSE IF Middle(p) \in Rooms THEN f[Upper(p)] ELSE f[Lower(p)]]

LEMMA Halves ==
  ASSUME NEW c \in Nat, NEW p \in Ranges(c), p[1] < p[2]
  PROVE  /\ p[1] \in 0..c /\ p[2] \in 0..c
         /\ Middle(p) \in 1..c /\ p[1] < Middle(p) /\ Middle(p) <= p[2]
         /\ Upper(p) \in Ranges(c) /\ Upper(p)[1] = Middle(p) /\ Upper(p)[2] = p[2]
         /\ Lower(p) \in Ranges(c) /\ Lower(p)[1] = p[1] /\ Lower(p)[2] = Middle(p) - 1
<1>1. p[1] \in 0..c /\ p[2] \in 0..c
  BY DEF Ranges
<1>2. Middle(p) \in 1..c /\ p[1] < Middle(p) /\ Middle(p) <= p[2]
  BY <1>1 DEF Middle
<1>3. Upper(p) \in Ranges(c) /\ Upper(p)[1] = Middle(p) /\ Upper(p)[2] = p[2]
  BY <1>1, <1>2 DEF Upper, Ranges
<1>4. Lower(p) \in Ranges(c) /\ Lower(p)[1] = p[1] /\ Lower(p)[2] = Middle(p) - 1
  <2>1. Middle(p) - 1 \in 0..c
    BY <1>2
  <2>2. QED BY <1>1, <2>1 DEF Lower, Ranges
<1>5. QED BY <1>1, <1>2, <1>3, <1>4

Within(c, d) == {p \in Ranges(c) : p[2] - p[1] <= d}

LEMMA SearchesExist ==
  ASSUME NEW c \in Nat, NEW Rooms
  PROVE  \E f : Searches(f, Ranges(c), Rooms)
<1> DEFINE D == {d \in Nat : \E f : Searches(f, Within(c, d), Rooms)}
<1>1. 0 \in D
  <2>1. PICK f : f = [p \in Within(c, 0) |-> p[1]]
    OBVIOUS
  <2>2. \A p \in Within(c, 0) : p[1] >= p[2]
    BY DEF Within, Ranges
  <2>3. Searches(f, Within(c, 0), Rooms)
    BY <2>1, <2>2 DEF Searches
  <2>4. QED BY <2>3
<1>2. ASSUME NEW d \in D PROVE d + 1 \in D
  <2>1. PICK f : Searches(f, Within(c, d), Rooms)
    OBVIOUS
  <2>2. PICK g : g = [p \in Within(c, d + 1) |->
                        IF p[1] >= p[2] THEN p[1]
                        ELSE IF Middle(p) \in Rooms THEN f[Upper(p)] ELSE f[Lower(p)]]
    OBVIOUS
  <2>3. ASSUME NEW p \in Within(c, d) PROVE g[p] = f[p]
    <3>1. p \in Within(c, d + 1)
      BY DEF Within, Ranges
    <3>2. QED BY <2>1, <2>2, <3>1 DEF Searches
  <2>4. ASSUME NEW p \in Within(c, d + 1), ~(p[1] >= p[2])
        PROVE  Upper(p) \in Within(c, d) /\ Lower(p) \in Within(c, d)
    <3>1. p \in Ranges(c) /\ p[2] - p[1] <= d + 1 /\ p[1] < p[2]
      BY <2>4 DEF Within, Ranges
    <3>2. QED BY <3>1, Halves DEF Within
  <2>5. g = [p \in Within(c, d + 1) |->
               IF p[1] >= p[2] THEN p[1]
               ELSE IF Middle(p) \in Rooms THEN g[Upper(p)] ELSE g[Lower(p)]]
    BY <2>2, <2>3, <2>4
  <2>6. QED BY <2>5 DEF Searches
<1>3. c \in D
  <2>1. D \in SUBSET Nat
    OBVIOUS
  <2> HIDE DEF D
  <2>2. QED BY <1>1, <1>2, <2>1, Induction
<1>4. Within(c, c) = Ranges(c)
  BY DEF Within, Ranges
<1>5. QED BY <1>3, <1>4

\* What the search returns fits if anything was found to, and one more does not.
Found(r, c, Rooms) == r \in 0..c /\ (r \in Rooms \/ r = 0) /\ (r = c \/ r + 1 \notin Rooms)

Narrowed(p, c, Rooms) ==
  /\ p \in Ranges(c) /\ p[1] <= p[2]
  /\ p[1] \in Rooms \/ p[1] = 0
  /\ p[2] = c \/ p[2] + 1 \notin Rooms

LEMMA SearchFinds ==
  ASSUME NEW c \in Nat, NEW Rooms, NEW f, Searches(f, Ranges(c), Rooms)
  PROVE  Found(f[<<0, c>>], c, Rooms)
<1> DEFINE D == {d \in Nat : \A p \in Within(c, d) : Narrowed(p, c, Rooms) => Found(f[p], c, Rooms)}
<1>1. ASSUME NEW p \in Ranges(c), p[1] = p[2], Narrowed(p, c, Rooms)
      PROVE  Found(f[p], c, Rooms)
  <2>1. p[1] \in 0..c /\ f[p] = p[1]
    BY <1>1 DEF Ranges, Searches
  <2>2. QED BY <1>1, <2>1 DEF Narrowed, Found
<1>2. 0 \in D
  <2>1. ASSUME NEW p \in Within(c, 0), Narrowed(p, c, Rooms) PROVE p \in Ranges(c) /\ p[1] = p[2]
    BY <2>1 DEF Within, Ranges, Narrowed
  <2>2. QED BY <1>1, <2>1
<1>3. ASSUME NEW d \in D PROVE d + 1 \in D
  <2>1. SUFFICES ASSUME NEW p \in Within(c, d + 1), Narrowed(p, c, Rooms)
                 PROVE  Found(f[p], c, Rooms)
    OBVIOUS
  <2>2. p \in Ranges(c) /\ p[2] - p[1] <= d + 1 /\ p[1] <= p[2] /\ p[1] \in Int /\ p[2] \in Int
    BY <2>1 DEF Within, Narrowed, Ranges
  <2>3. CASE p[1] = p[2]
    BY <1>1, <2>1, <2>2, <2>3
  <2>4. CASE p[1] < p[2]
    <3>1. f[p] = IF Middle(p) \in Rooms THEN f[Upper(p)] ELSE f[Lower(p)]
      BY <2>2, <2>4 DEF Searches
    <3>2. \A q \in Within(c, d) : Narrowed(q, c, Rooms) => Found(f[q], c, Rooms)
      OBVIOUS
    <3>3. CASE Middle(p) \in Rooms
      <4>1. Upper(p) \in Within(c, d) /\ Narrowed(Upper(p), c, Rooms)
        BY <2>1, <2>2, <2>4, <3>3, Halves DEF Within, Narrowed
      <4>2. QED BY <3>1, <3>2, <3>3, <4>1
    <3>4. CASE Middle(p) \notin Rooms
      <4>1. Lower(p) \in Within(c, d)
        BY <2>2, <2>4, Halves DEF Within
      <4>2. Narrowed(Lower(p), c, Rooms)
        <5>1. (Middle(p) - 1) + 1 = Middle(p) /\ p[1] <= Middle(p) - 1
          BY <2>2, <2>4, Halves
        <5>2. QED BY <2>1, <2>2, <2>4, <3>4, <5>1, Halves DEF Narrowed
      <4>3. QED BY <3>1, <3>2, <3>4, <4>1, <4>2
    <3>5. QED BY <3>3, <3>4
  <2>5. QED BY <2>2, <2>3, <2>4
<1>4. c \in D
  <2>1. D \in SUBSET Nat
    OBVIOUS
  <2> HIDE DEF D
  <2>2. QED BY <1>2, <1>3, <2>1, Induction
<1>5. <<0, c>> \in Within(c, c) /\ Narrowed(<<0, c>>, c, Rooms)
  BY DEF Within, Ranges, Narrowed
<1>6. QED BY <1>4, <1>5

LEMMA LongestRoomFound ==
  ASSUME NEW m \in Text, NEW budget \in Int
  PROVE  Found(LongestRoom(m, budget), m.content,
               {r \in 0..m.content : Size(Shortened(m, r)) <= budget})
<1> DEFINE c == m.content
           Rooms == {r \in 0..c : Size(Shortened(m, r)) <= budget}
<1>1. c \in Nat
  BY DEF Text
<1>2. PICK f : Searches(f, Ranges(c), Rooms)
  BY <1>1, SearchesExist, SMTT(60)
<1>3. ASSUME NEW p \in Ranges(c), ~(p[1] >= p[2])
      PROVE  Middle(p) \in Rooms <=> Size(Shortened(m, Middle(p))) <= budget
  <2>1. p[1] < p[2]
    BY <1>3 DEF Ranges
  <2>2. Middle(p) \in 0..c
    BY <1>1, <2>1, Halves
  <2>3. QED BY <2>2
<1>4. \E g : g = [p \in (0..c) \X (0..c) |->
                    IF p[1] >= p[2] THEN p[1]
                    ELSE IF Size(Shortened(m, (p[1] + p[2] + 1) \div 2)) <= budget
                    THEN g[<<(p[1] + p[2] + 1) \div 2, p[2]>>]
                    ELSE g[<<p[1], (p[1] + p[2] + 1) \div 2 - 1>>]]
  <2>1. f = [p \in (0..c) \X (0..c) |->
                    IF p[1] >= p[2] THEN p[1]
                    ELSE IF Size(Shortened(m, (p[1] + p[2] + 1) \div 2)) <= budget
                    THEN f[<<(p[1] + p[2] + 1) \div 2, p[2]>>]
                    ELSE f[<<p[1], (p[1] + p[2] + 1) \div 2 - 1>>]]
    <3> HIDE DEF Rooms
    <3>1. QED BY <1>2, <1>3 DEF Searches, Ranges, Middle, Upper, Lower
  <2>2. QED BY <2>1, SMTT(60)
<1>5. \E g : /\ g = [p \in (0..c) \X (0..c) |->
                    IF p[1] >= p[2] THEN p[1]
                    ELSE IF Size(Shortened(m, (p[1] + p[2] + 1) \div 2)) <= budget
                    THEN g[<<(p[1] + p[2] + 1) \div 2, p[2]>>]
                    ELSE g[<<p[1], (p[1] + p[2] + 1) \div 2 - 1>>]]
             /\ g[<<0, c>>] = LongestRoom(m, budget)
  BY <1>4, Zenon DEF LongestRoom
<1>6. PICK g : Searches(g, Ranges(c), Rooms) /\ g[<<0, c>>] = LongestRoom(m, budget)
  <2> HIDE DEF Rooms
  <2>1. QED BY <1>3, <1>5, ZenonT(60) DEF Searches, Ranges, Middle, Upper, Lower
<1>7. Found(g[<<0, c>>], c, Rooms)
  <2> HIDE DEF Rooms
  <2>1. QED BY <1>1, <1>6, SearchFinds
<1>8. QED BY <1>6, <1>7

-------------------------------------------------------------------------------
(* Payload: which messages are kept *)

PayloadTypes ==
  /\ body.envelope \in Nat /\ body.tools \in Nat /\ body.messages \in Seq(Text)
  /\ limit \in Nat

LEMMA ConstantTypes ==
  /\ Margin \in Nat /\ Worthwhile \in Nat /\ Marker \in Nat /\ ToolsNote \in Nat
  /\ ElidedNote \in Nat /\ ElidedNote < Margin
BY PayloadAssumption DEF PayloadAssumption

LEMMA BudgetTypes ==
  ASSUME PayloadTypes
  PROVE  Envelope \in Nat /\ Budget \in Int /\ Budget = limit - Envelope - Margin
<1>1. Envelope \in Nat
  BY ConstantTypes DEF PayloadTypes, Envelope
<1>2. QED BY <1>1, ConstantTypes DEF PayloadTypes, Budget

\* A message shortened to a budget worth shortening for: within it, if anything of the
\* message is, and with as much of the content as there is room for.
LEMMA Shortening ==
  ASSUME NEW m \in Text, NEW b \in Int, NEW s, s = Shorten(m, b)
  PROVE  /\ s \in Text /\ s.content <= m.content
         /\ s.content < m.content => Size(s) + m.escape > b
         /\ m.fields + Marker <= b => Size(s) <= b
<1>1. PICK r : r = LongestRoom(m, b)
  OBVIOUS
<1>2. Found(r, m.content, {x \in 0..m.content : Size(Shortened(m, x)) <= b})
  BY <1>1, LongestRoomFound
<1>3. m.fields \in Nat /\ m.content \in Nat /\ m.escape \in Nat
  BY DEF Text
<1>4. r \in 0..m.content
  BY <1>2 DEF Found
<1>5. s = [fields |-> m.fields + Marker, content |-> r, escape |-> m.escape]
  BY <1>1 DEF Shorten, Shortened
<1>6. s \in Text /\ s.content <= m.content
  BY <1>3, <1>4, <1>5, ConstantTypes DEF Text
<1>7. Size(s) = m.fields + Marker + r * m.escape /\ Size(s) = Size(Shortened(m, r))
  BY <1>5 DEF Size, Shortened
<1>8. ASSUME s.content < m.content PROVE Size(s) + m.escape > b
  <2>1. r + 1 \in 0..m.content
    BY <1>3, <1>4, <1>5, <1>8
  <2>2. ~(Size(Shortened(m, r + 1)) <= b)
    BY <1>2, <1>5, <1>8, <2>1 DEF Found
  <2>3. Size(Shortened(m, r + 1)) = m.fields + Marker + (r + 1) * m.escape
    BY DEF Size, Shortened
  <2>4. (r + 1) * m.escape = r * m.escape + m.escape /\ r * m.escape \in Int
    BY <1>3, <1>4
  <2>5. QED BY <1>3, <1>7, <2>2, <2>3, <2>4, ConstantTypes
<1>9. ASSUME m.fields + Marker <= b PROVE Size(s) <= b
  <2>1. CASE r = 0
    BY <1>3, <1>7, <1>9, <2>1, ConstantTypes
  <2>2. CASE r # 0
    BY <1>2, <1>7, <2>2 DEF Found
  <2>3. QED BY <2>1, <2>2
<1>10. QED BY <1>6, <1>8, <1>9

\* The loop's state.
Keeping == [kept : Seq(Text), budget : Int, elided : Nat, stopped : BOOLEAN]

Begun == [kept |-> <<>>, budget |-> Budget, elided |-> 0, stopped |-> FALSE]

LEMMA ConsiderTypes ==
  ASSUME PayloadTypes, NEW s \in Keeping, NEW j \in DOMAIN body.messages
  PROVE  Consider(s, j) \in Keeping
<1>1. PICK m : m = body.messages[j] /\ m \in Text
  BY DEF PayloadTypes
<1>2. s.kept \in Seq(Text) /\ s.budget \in Int /\ j \in Nat
  BY DEF Keeping, PayloadTypes
<1>3. Size(m) \in Nat
  BY <1>1, SizeIsNat
<1>4. Shorten(m, s.budget) \in Text
  BY <1>1, <1>2, Shortening
<1>5. <<m>> \o s.kept \in Seq(Text) /\ <<Shorten(m, s.budget)>> \o s.kept \in Seq(Text)
  BY <1>1, <1>2, <1>4
<1>6. PICK whole : whole = [s EXCEPT !.kept = <<m>> \o @, !.budget = @ - (Size(m) + 1)]
  OBVIOUS
<1>7. PICK cut : cut = [s EXCEPT !.kept = <<Shorten(m, s.budget)>> \o @, !.budget = 0]
  OBVIOUS
<1>8. PICK stop : stop = [s EXCEPT !.elided = j, !.stopped = TRUE]
  OBVIOUS
<1>9. whole \in Keeping /\ cut \in Keeping /\ stop \in Keeping
  <2>1. s.elided \in Nat /\ s.stopped \in BOOLEAN /\ s.budget - (Size(m) + 1) \in Int
    BY <1>2, <1>3 DEF Keeping
  <2>2. whole = [kept |-> <<m>> \o s.kept, budget |-> s.budget - (Size(m) + 1),
                 elided |-> s.elided, stopped |-> s.stopped]
    BY <1>6 DEF Keeping
  <2>3. cut = [kept |-> <<Shorten(m, s.budget)>> \o s.kept, budget |-> 0,
               elided |-> s.elided, stopped |-> s.stopped]
    BY <1>7 DEF Keeping
  <2>4. stop = [kept |-> s.kept, budget |-> s.budget, elided |-> j, stopped |-> TRUE]
    BY <1>8 DEF Keeping
  <2>5. QED BY <1>2, <1>5, <2>1, <2>2, <2>3, <2>4 DEF Keeping
<1>10. Consider(s, j) \in {s, whole, cut, stop}
  BY <1>1, <1>6, <1>7, <1>8 DEF Consider
<1>11. QED BY <1>9, <1>10

LEMMA KeptFold ==
  ASSUME PayloadTypes
  PROVE  \E f : /\ f[0] = Begun
                /\ \A i \in 1..Len(body.messages) :
                     f[i] = Consider(f[i - 1], Len(body.messages) - i + 1)
                /\ Kept = f[Len(body.messages)]
<1> DEFINE n == Len(body.messages)
           seq == Reverse([i \in DOMAIN body.messages |-> i])
           G == [p \in Keeping \X (1..n) |-> Consider(p[1], p[2])]
<1>1. n \in Nat /\ DOMAIN body.messages = 1..n
  BY DEF PayloadTypes
<1>2. seq \in Seq(1..n) /\ Len(seq) = n /\ DOMAIN seq = 1..n /\ \A i \in 1..n : seq[i] = n - i + 1
  <2>1. PICK id : id = [i \in DOMAIN body.messages |-> i]
    OBVIOUS
  <2>2. id \in Seq(1..n) /\ Len(id) = n /\ \A i \in 1..n : id[i] = i
    BY <1>1, <2>1
  <2>3. seq = [i \in 1..n |-> id[n - i + 1]]
    BY <2>1, <2>2 DEF Reverse
  <2> HIDE DEF n, seq
  <2>4. \A i \in 1..n : n - i + 1 \in 1..n
    BY <1>1
  <2>5. seq = [i \in 1..n |-> n - i + 1]
    BY <2>2, <2>3, <2>4
  <2>6. QED BY <1>1, <2>4, <2>5
<1>3. G \in [Keeping \X (1..n) -> Keeping]
  BY <1>1, ConsiderTypes
<1>4. Begun \in Keeping
  BY BudgetTypes DEF Begun, Keeping
<1>5. PICK h : Folds(h, Begun, seq, G, SUBSET (1..n))
  BY <1>1, FoldsExist
<1>6. \A T \in SUBSET (1..n) : h[T] \in Keeping
  <2> HIDE DEF G, n, seq
  <2>1. QED BY <1>2, <1>3, <1>4, <1>5, FoldsClosed
<1>7. ASSUME NEW T \in SUBSET (1..n), T # {}
      PROVE  G[<<h[T \ {Max(T)}], seq[Max(T)]>>] = Consider(h[T \ {Max(T)}], seq[Max(T)])
  <2>1. Max(T) \in T
    BY <1>1, <1>7, Highest
  <2>2. Max(T) \in 1..n /\ T \ {Max(T)} \in SUBSET (1..n)
    BY <2>1
  <2>3. seq[Max(T)] \in 1..n /\ h[T \ {Max(T)}] \in Keeping
    <3> HIDE DEF G, n, seq
    <3>1. seq[Max(T)] \in 1..n
      BY ONLY <1>2, <2>2
    <3>2. QED BY <1>6, <2>2, <3>1
  <2> HIDE DEF n, seq
  <2>4. QED BY <2>3
<1>8. h = [T \in SUBSET DOMAIN seq |->
             IF T = {} THEN Begun ELSE Consider(h[T \ {Max(T)}], seq[Max(T)])]
  <2> HIDE DEF G, n, seq
  <2>1. QED BY <1>2, <1>5, <1>7 DEF Folds
<1>9. \E g : /\ g = [T \in SUBSET DOMAIN seq |->
                       IF T = {} THEN Begun ELSE Consider(g[T \ {Max(T)}], seq[Max(T)])]
             /\ Kept = g[DOMAIN seq]
  BY <1>8, Zenon DEF Kept, Begun, FoldLeft, MapThenFoldSet
<1>10. PICK g : /\ g = [T \in SUBSET (1..n) |->
                         IF T = {} THEN Begun ELSE Consider(g[T \ {Max(T)}], seq[Max(T)])]
                /\ Kept = g[1..n]
  <2> HIDE DEF n, seq
  <2>1. QED BY <1>2, <1>9
<1>11. PICK f : f = [i \in 0..n |-> g[1..i]]
  OBVIOUS
<1> HIDE DEF seq, G
<1>12. f[0] = Begun
  BY <1>1, <1>10, <1>11, Beginnings
<1>13. ASSUME NEW i \in 1..n PROVE f[i] = Consider(f[i - 1], n - i + 1)
  <2>1. g[1..i] = Consider(g[1..(i - 1)], seq[i])
    BY <1>1, <1>10, Beginnings, ZenonT(60)
  <2>2. i \in 0..n /\ i - 1 \in 0..n /\ seq[i] = n - i + 1
    BY <1>1, <1>2
  <2>3. QED BY <1>11, <2>1, <2>2
<1>14. f[n] = Kept
  BY <1>1, <1>10, <1>11
<1>15. QED BY <1>12, <1>13, <1>14

\* The newest k messages, as they came.
Suffix(kept, k) ==
  /\ kept \in Seq(Text) /\ Len(kept) = k /\ k \in 0..Len(body.messages)
  /\ \A j \in 1..k : kept[j] = body.messages[Len(body.messages) - k + j]

\* What is left of the budget beside them.
Spare(kept) == Budget - TotalSize(kept)

Going(s, i) ==
  /\ ~s.stopped /\ s.elided = 0 /\ Suffix(s.kept, i)
  /\ s.budget = Spare(s.kept) /\ s.budget >= 0

\* The first message was shortened.
Cut(s, i) ==
  /\ ~s.stopped /\ s.elided = 0 /\ i = Len(body.messages)
  /\ \E rest : /\ Suffix(rest, i - 1) /\ i - 1 >= 1 /\ Spare(rest) > Worthwhile
               /\ s.kept = <<Shorten(body.messages[1], Spare(rest))>> \o rest

Stopped(s) ==
  /\ s.stopped /\ s.elided \in 1..Len(body.messages)
  /\ Suffix(s.kept, Len(body.messages) - s.elided)
  /\ s.budget = Spare(s.kept) /\ s.budget >= 0

LEMMA ConsiderStep ==
  ASSUME PayloadTypes, NEW i \in Nat, i < Len(body.messages), NEW s \in Keeping, Going(s, i),
         NEW t, t = Consider(s, Len(body.messages) - i)
  PROVE  Going(t, i + 1) \/ Cut(t, i + 1) \/ Stopped(t)
<1>1. PICK n : n = Len(body.messages)
  OBVIOUS
<1>2. PICK j : j = n - i
  OBVIOUS
<1>3. n \in Nat /\ j \in 1..n /\ i \in 0..n /\ i + 1 \in 1..n
  BY <1>1, <1>2 DEF PayloadTypes
<1>4. PICK m : m = body.messages[j] /\ m \in Text
  BY <1>1, <1>3 DEF PayloadTypes
<1>5. PICK kept, budget : kept = s.kept /\ budget = s.budget
  OBVIOUS
<1>6. /\ ~s.stopped /\ s.elided = 0 /\ Suffix(kept, i) /\ budget = Spare(kept) /\ budget >= 0
      /\ kept \in Seq(Text) /\ Len(kept) = i
  BY <1>5 DEF Going, Suffix
<1>7. Size(m) \in Nat /\ TotalSize(kept) \in Nat /\ TotalSize(<<m>> \o kept) = Size(m) + 1 + TotalSize(kept)
  BY <1>4, <1>6, SizeIsNat, TotalSizes
<1>8. Budget \in Int /\ budget = Budget - TotalSize(kept) /\ budget \in Int
  BY <1>6, <1>7, BudgetTypes DEF Spare
<1>9. CASE Size(m) + 1 <= budget
  <2>1. t = [s EXCEPT !.kept = <<m>> \o kept, !.budget = budget - (Size(m) + 1)]
    BY <1>1, <1>2, <1>4, <1>5, <1>6, <1>9 DEF Consider
  <2>2. Suffix(<<m>> \o kept, i + 1)
    <3>1. PICK u : u = <<m>> \o kept
      OBVIOUS
    <3>2. u \in Seq(Text) /\ Len(u) = i + 1 /\ u[1] = m /\ \A x \in 1..i : u[x + 1] = kept[x]
      BY <1>4, <1>6, <3>1
    <3>3. ASSUME NEW x \in 1..(i + 1) PROVE u[x] = body.messages[n - (i + 1) + x]
      <4>1. CASE x = 1
        BY <1>2, <1>3, <1>4, <3>2, <4>1
      <4>2. CASE x # 1
        <5>1. x - 1 \in 1..i /\ (x - 1) + 1 = x /\ n - i + (x - 1) = n - (i + 1) + x
          BY <1>3, <4>2
        <5>2. u[x] = kept[x - 1] /\ kept[x - 1] = body.messages[n - i + (x - 1)]
          BY <1>1, <1>6, <3>2, <5>1 DEF Suffix
        <5>3. QED BY <5>1, <5>2
      <4>3. QED BY <4>1, <4>2
    <3>4. Suffix(u, i + 1)
      BY <1>1, <1>3, <3>2, <3>3 DEF Suffix
    <3>5. QED BY <3>1, <3>4
  <2>3. /\ t.kept = <<m>> \o kept /\ t.budget = budget - (Size(m) + 1)
        /\ t.elided = s.elided /\ t.stopped = s.stopped
    BY <2>1 DEF Keeping
  <2>4. t.budget = Spare(t.kept) /\ t.budget >= 0
    <3>1. TotalSize(t.kept) = Size(m) + 1 + TotalSize(kept)
      BY <1>7, <2>3
    <3>2. QED BY <1>7, <1>8, <1>9, <2>3, <3>1, SMTT(60) DEF Spare
  <2>5. Suffix(t.kept, i + 1)
    BY <2>2, <2>3
  <2>6. QED BY <1>6, <2>3, <2>4, <2>5 DEF Going
<1>10. CASE ~(Size(m) + 1 <= budget) /\ j = 1 /\ kept # <<>> /\ budget > Worthwhile
  <2>1. t = [s EXCEPT !.kept = <<Shorten(m, budget)>> \o kept, !.budget = 0]
    BY <1>1, <1>2, <1>4, <1>5, <1>6, <1>10 DEF Consider
  <2>2. /\ t.kept = <<Shorten(m, budget)>> \o kept
        /\ t.elided = s.elided /\ t.stopped = s.stopped
    BY <2>1 DEF Keeping
  <2>3. i + 1 = n /\ i >= 1 /\ (i + 1) - 1 = i
    BY <1>2, <1>3, <1>6, <1>10
  <2>4. t.kept = <<Shorten(body.messages[1], Spare(kept))>> \o kept
    BY <1>4, <1>6, <1>10, <2>2
  <2>5. QED BY <1>1, <1>6, <1>10, <2>2, <2>3, <2>4 DEF Cut
<1>11. CASE ~(Size(m) + 1 <= budget) /\ ~(j = 1 /\ kept # <<>> /\ budget > Worthwhile)
  <2>1. t = [s EXCEPT !.elided = j, !.stopped = TRUE]
    BY <1>1, <1>2, <1>4, <1>5, <1>6, <1>11 DEF Consider
  <2>2. t.kept = kept /\ t.budget = budget /\ t.elided = j /\ t.stopped
    BY <1>5, <2>1 DEF Keeping
  <2>3. n - j = i
    BY <1>2, <1>3
  <2>4. QED BY <1>1, <1>3, <1>6, <2>2, <2>3 DEF Stopped
<1>12. QED BY <1>9, <1>10, <1>11

LEMMA KeptIs ==
  ASSUME PayloadTypes, Budget > 0, body.messages # <<>>
  PROVE  \/ Going(Kept, Len(body.messages)) \/ Cut(Kept, Len(body.messages)) \/ Stopped(Kept)
<1>1. PICK n : n = Len(body.messages)
  OBVIOUS
<1>2. n \in Nat /\ n >= 1 /\ DOMAIN body.messages = 1..n
  BY <1>1 DEF PayloadTypes
<1>3. PICK f : /\ f[0] = Begun /\ \A i \in 1..n : f[i] = Consider(f[i - 1], n - i + 1)
               /\ Kept = f[n]
  BY <1>1, KeptFold
<1> DEFINE Loop(i) == Going(f[i], i) \/ Cut(f[i], i) \/ Stopped(f[i])
           D == {i \in Nat : i <= n => f[i] \in Keeping /\ Loop(i)}
<1>4. 0 \in D
  <2>1. Begun \in Keeping
    BY BudgetTypes DEF Begun, Keeping
  <2>2. TotalSize(<<>>) = 0 /\ <<>> \in Seq(Text)
    <3>1. <<>> \in Seq(Text)
      OBVIOUS
    <3>2. QED BY <3>1, TotalSizes
  <2>3. Suffix(<<>>, 0)
    BY <1>1, <1>2 DEF Suffix
  <2>4. Going(Begun, 0)
    BY <2>2, <2>3, BudgetTypes DEF Going, Begun, Spare
  <2>5. QED BY <1>3, <2>1, <2>4
<1>5. ASSUME NEW i \in D PROVE i + 1 \in D
  <2>1. SUFFICES ASSUME i + 1 <= n PROVE f[i + 1] \in Keeping /\ Loop(i + 1)
    OBVIOUS
  <2>2. i \in Nat /\ i < n /\ f[i] \in Keeping /\ Loop(i)
    BY <1>2, <2>1
  <2>3. i + 1 \in 1..n /\ (i + 1) - 1 = i /\ n - (i + 1) + 1 = n - i /\ n - i \in 1..n
    BY <1>2, <2>1, <2>2
  <2>4. PICK s : s = f[i]
    OBVIOUS
  <2>5. PICK t : t = f[i + 1]
    OBVIOUS
  <2>6. t = Consider(s, n - i)
    BY <1>3, <2>3, <2>4, <2>5
  <2>7. t \in Keeping
    BY <1>2, <2>2, <2>3, <2>4, <2>6, ConsiderTypes, SMTT(60)
  <2>8. CASE Going(s, i)
    <3>1. Going(t, i + 1) \/ Cut(t, i + 1) \/ Stopped(t)
      BY <1>1, <2>2, <2>4, <2>6, <2>8, ConsiderStep
    <3>2. QED BY <2>5, <2>7, <3>1
  <2>9. CASE Cut(s, i)
    BY <1>1, <2>2, <2>9 DEF Cut
  <2>10. CASE Stopped(s)
    <3>1. t = s
      BY <2>6, <2>10 DEF Stopped, Consider
    <3>2. QED BY <2>5, <2>7, <2>10, <3>1
  <2>11. QED BY <2>2, <2>4, <2>8, <2>9, <2>10
<1>6. Loop(n)
  <2>1. D \in SUBSET Nat
    OBVIOUS
  <2>2. \A i \in Nat : i \in D
    <3> HIDE DEF D
    <3>1. QED BY <1>4, <1>5, <2>1, Induction
  <2>3. QED BY <1>2, <2>2
<1>7. QED BY <1>1, <1>3, <1>6

\* A chat of the newest messages, of which the first may be shortened.
Recent(messages, elided) ==
  /\ elided \in Nat /\ elided < Len(body.messages)
  /\ Suffix(messages, Len(body.messages) - elided) /\ TotalSize(messages) <= Budget

RecentCut(messages, elided) ==
  \E rest : LET j == elided + 1
                m == body.messages[j] IN
    /\ elided \in 0..(Len(body.messages) - 1) /\ (elided = 0 \/ rest = <<>>)
    /\ Suffix(rest, Len(body.messages) - j) /\ Spare(rest) > Worthwhile
    /\ messages = <<Shorten(m, Spare(rest))>> \o rest

LEMMA ChatIs ==
  ASSUME PayloadTypes, NEW c, c = BoundedText, c.form = "chat"
  PROVE  /\ limit < TextSize
         /\ \E messages, elided :
              /\ c = Chat(messages, elided)
              /\ Recent(messages, elided) \/ RecentCut(messages, elided)
<1>1. PICK n : n = Len(body.messages)
  OBVIOUS
<1>2. n \in Nat /\ DOMAIN body.messages = 1..n
  BY <1>1 DEF PayloadTypes
<1>3. limit < TextSize /\ body.messages # <<>> /\ Budget > 0
  <2>1. TextSize \in Nat /\ limit \in Nat /\ Budget \in Int
    BY TotalSizes, BudgetTypes, SMTT(60) DEF PayloadTypes, TextSize
  <2>2. c.form # "whole" /\ c.form # "prefix"
    OBVIOUS
  <2>3. QED BY <2>1, <2>2 DEF BoundedText, Prefix
<1>4. Going(Kept, n) \/ Cut(Kept, n) \/ Stopped(Kept)
  BY <1>1, <1>3, KeptIs
<1>5. PICK kept, elided : kept = Kept.kept /\ elided = Kept.elided
  OBVIOUS
<1>6. CASE kept # <<>>
  <2>1. c = Chat(kept, elided)
    BY <1>3, <1>5, <1>6, BudgetTypes, TotalSizes DEF BoundedText, PayloadTypes, TextSize
  <2>2. CASE Going(Kept, n)
    <3>1. Suffix(kept, n) /\ elided = 0 /\ Spare(kept) >= 0
      BY <1>5, <2>2 DEF Going
    <3>2. TotalSize(kept) <= Budget
      BY <3>1, TotalSizes, BudgetTypes DEF Spare, Suffix
    <3>3. n >= 1
      BY <1>2, <1>6, <3>1 DEF Suffix
    <3>4. Recent(kept, elided)
      BY <1>1, <1>2, <3>1, <3>2, <3>3 DEF Recent
    <3>5. QED BY <1>3, <2>1, <3>4
  <2>3. CASE Cut(Kept, n)
    <3>1. PICK rest : /\ Suffix(rest, n - 1) /\ n - 1 >= 1 /\ Spare(rest) > Worthwhile
                      /\ kept = <<Shorten(body.messages[1], Spare(rest))>> \o rest
      BY <1>5, <2>3 DEF Cut
    <3>2. elided = 0
      BY <1>5, <2>3 DEF Cut
    <3>3. RecentCut(kept, elided)
      <4>1. elided + 1 = 1 /\ elided \in 0..(n - 1)
        BY <1>2, <3>1, <3>2
      <4>2. QED BY <1>1, <3>1, <3>2, <4>1 DEF RecentCut
    <3>4. QED BY <1>3, <2>1, <3>3
  <2>4. CASE Stopped(Kept)
    <3>1. elided \in 1..n /\ Suffix(kept, n - elided) /\ Spare(kept) >= 0
      BY <1>1, <1>5, <2>4 DEF Stopped
    <3>2. TotalSize(kept) <= Budget
      BY <3>1, TotalSizes, BudgetTypes DEF Spare, Suffix
    <3>3. elided < n
      BY <1>2, <1>6, <3>1 DEF Suffix
    <3>4. Recent(kept, elided)
      BY <1>1, <1>2, <3>1, <3>2, <3>3 DEF Recent
    <3>5. QED BY <1>3, <2>1, <3>4
  <2>5. QED BY <1>4, <2>2, <2>3, <2>4
<1>7. CASE kept = <<>>
  <2>1. Stopped(Kept) /\ elided = n
    <3>1. ~Going(Kept, n)
      BY <1>1, <1>2, <1>3, <1>5, <1>7 DEF Going, Suffix, PayloadTypes
    <3>2. ~Cut(Kept, n)
      <4>1. SUFFICES ASSUME Cut(Kept, n) PROVE FALSE
        OBVIOUS
      <4>2. PICK rest, m : Suffix(rest, n - 1) /\ kept = <<m>> \o rest
        BY <1>5, <4>1 DEF Cut
      <4>3. rest \in Seq(Text \cup {m})
        BY <4>2 DEF Suffix
      <4>4. Len(<<m>> \o rest) = 1 + Len(rest) /\ Len(rest) \in Nat
        BY <4>3
      <4>5. Len(kept) = 1 + Len(rest)
        BY <4>2, <4>4
      <4>6. Len(kept) = 0
        BY <1>7
      <4>7. QED BY <4>4, <4>5, <4>6
    <3>3. Stopped(Kept) /\ Suffix(kept, n - elided) /\ elided \in 1..n
      BY <1>1, <1>4, <1>5, <3>1, <3>2 DEF Stopped
    <3>4. QED BY <1>2, <1>7, <3>3 DEF Suffix
  <2>2. Kept.budget = Spare(<<>>)
    BY <1>5, <1>7, <2>1 DEF Stopped
  <2>3. Kept.budget > Worthwhile /\ c = Chat(<<Shorten(Newest, Kept.budget)>>, n - 1)
    <3>1. c.form # "prefix"
      OBVIOUS
    <3>2. ~(TextSize <= limit)
      BY <1>3, TotalSizes DEF PayloadTypes, TextSize
    <3>3. QED BY <1>1, <1>3, <1>5, <1>7, <3>1, <3>2, BudgetTypes DEF BoundedText, Prefix
  <2>4. n >= 1 /\ (n - 1) + 1 = n /\ n - 1 \in 0..(n - 1) /\ n - n = 0
    BY <1>1, <1>2, <1>3 DEF PayloadTypes
  <2>5. PICK s : s = Shorten(body.messages[n], Spare(<<>>))
    OBVIOUS
  <2>6. Newest = body.messages[n]
    BY <1>1 DEF Newest, Last
  <2>7. <<s>> \o <<>> = <<s>>
    OBVIOUS
  <2>8. Suffix(<<>>, 0)
    BY <1>1, <1>2 DEF Suffix
  <2>9. RecentCut(<<s>>, n - 1)
    BY <1>1, <2>2, <2>3, <2>4, <2>5, <2>7, <2>8 DEF RecentCut
  <2>10. QED BY <1>3, <2>2, <2>3, <2>5, <2>6, <2>9
<1>8. QED BY <1>6, <1>7

Bounded(c) == (FieldsFit => c.size <= limit) /\ NewestExchange(c)

LEMMA RecentBounded ==
  ASSUME PayloadTypes, NEW messages, NEW elided, Recent(messages, elided),
         NEW c, c = Chat(messages, elided)
  PROVE  Bounded(c)
<1>1. PICK n : n = Len(body.messages) /\ n \in Nat
  BY DEF PayloadTypes
<1>2. PICK k : k = Len(messages)
  OBVIOUS
<1>3. /\ elided \in Nat /\ elided < n /\ k = n - elided /\ messages \in Seq(Text)
      /\ \A j \in 1..k : messages[j] = body.messages[n - k + j]
      /\ TotalSize(messages) <= Budget
  BY <1>1, <1>2 DEF Recent, Suffix
<1>4. /\ c.form = "chat" /\ c.messages = messages /\ c.elided = elided
      /\ c.size = Envelope + TotalSize(messages) + (IF elided > 0 THEN ElidedNote ELSE 0)
  BY DEF Chat
<1>5. c.size <= limit
  BY <1>3, <1>4, TotalSizes, BudgetTypes, ConstantTypes, SMTT(60) DEF PayloadTypes
<1>6. k >= 1 /\ k + elided = n
  BY <1>1, <1>3
<1>7. NewestExchange(c)
  BY <1>1, <1>2, <1>3, <1>4, <1>6 DEF NewestExchange
<1>8. QED BY <1>5, <1>7 DEF Bounded

LEMMA RecentCutBounded ==
  ASSUME PayloadTypes, NEW messages, NEW elided, RecentCut(messages, elided),
         NEW c, c = Chat(messages, elided)
  PROVE  Bounded(c)
<1>1. PICK n : n = Len(body.messages) /\ n \in Nat
  BY DEF PayloadTypes
<1>2. PICK j : j = elided + 1
  OBVIOUS
<1>3. PICK m : m = body.messages[j]
  OBVIOUS
<1>4. PICK rest : /\ elided \in 0..(n - 1) /\ (elided = 0 \/ rest = <<>>)
                  /\ Suffix(rest, n - j) /\ Spare(rest) > Worthwhile
                  /\ messages = <<Shorten(m, Spare(rest))>> \o rest
  BY <1>1, <1>2, <1>3 DEF RecentCut
<1>5. elided \in Nat /\ elided < n /\ j \in 1..n /\ m \in Text
  BY <1>1, <1>2, <1>3, <1>4 DEF PayloadTypes
<1>6. PICK s : s = Shorten(m, Spare(rest))
  OBVIOUS
<1>7. PICK k : k = n - elided
  OBVIOUS
<1>8. /\ rest \in Seq(Text) /\ Len(rest) = k - 1 /\ k \in 1..n /\ k + elided = n
      /\ \A x \in 1..(k - 1) : rest[x] = body.messages[j + x]
  <2>1. /\ rest \in Seq(Text) /\ Len(rest) = n - j
        /\ \A x \in 1..(n - j) : rest[x] = body.messages[n - (n - j) + x]
    BY <1>1, <1>4 DEF Suffix
  <2>2. n - j = k - 1 /\ n - (n - j) = j /\ k \in 1..n /\ k + elided = n
    <3>1. n \in Nat /\ elided \in Nat /\ elided < n
      BY <1>1, <1>5
    <3>2. k \in Nat /\ j \in Nat
      BY <1>2, <1>7, <3>1
    <3>3. n - j = k - 1 /\ k + elided = n
      BY <1>2, <1>7, <3>1
    <3>4. QED BY <1>7, <3>1, <3>2, <3>3
  <2>3. QED BY <2>1, <2>2
<1>9. /\ TotalSize(rest) \in Nat /\ Spare(rest) = Budget - TotalSize(rest) /\ Spare(rest) \in Int
      /\ Budget \in Int /\ Envelope \in Nat /\ Budget = limit - Envelope - Margin /\ limit \in Nat
  BY <1>8, TotalSizes, BudgetTypes DEF Spare, PayloadTypes
<1>10. /\ s \in Text /\ s.content <= m.content
       /\ s.content < m.content => Size(s) + m.escape > Spare(rest)
       /\ m.fields + Marker <= Spare(rest) => Size(s) <= Spare(rest)
  BY <1>5, <1>6, <1>9, Shortening
<1>11. TotalSize(messages) = Size(s) + 1 + TotalSize(rest) /\ Size(s) \in Nat /\ m.escape \in Nat
  BY <1>4, <1>5, <1>6, <1>8, <1>10, TotalSizes, SizeIsNat DEF Text
<1>12. PICK note : note = (IF elided > 0 THEN ElidedNote ELSE 0)
  OBVIOUS
<1>13. note \in Nat /\ note < Margin /\ Margin \in Nat
  BY <1>12, ConstantTypes
<1>14. /\ c.form = "chat" /\ c.messages = messages /\ c.elided = elided
       /\ c.size = Envelope + TotalSize(messages) + note
  BY <1>12 DEF Chat
<1>15. ASSUME FieldsFit PROVE c.size <= limit
  <2>1. m.fields + Marker <= Worthwhile /\ m.fields \in Nat
    BY <1>1, <1>3, <1>5, <1>15, SMTT(60) DEF FieldsFit, PayloadTypes, Text
  <2>2. Size(s) <= Spare(rest)
    BY <1>4, <1>9, <1>10, <2>1, ConstantTypes
  <2>3. QED BY <1>9, <1>11, <1>13, <1>14, <2>2
<1>16. messages \in Seq(Text) /\ Len(messages) = k /\ messages[1] = s
  BY <1>4, <1>6, <1>8, <1>10
<1>17. ASSUME NEW x \in 1..k, x # 1 PROVE messages[x] = body.messages[n - k + x]
  <2>1. x - 1 \in 1..(k - 1) /\ (x - 1) + 1 = x /\ j + (x - 1) = n - k + x
    BY <1>1, <1>2, <1>5, <1>7, <1>8, <1>17
  <2>2. messages[x] = rest[x - 1]
    BY <1>4, <1>6, <1>8, <1>10, <2>1
  <2>3. QED BY <1>8, <2>1, <2>2
<1>18. body.messages[n - k + 1] = m /\ (n - k + 1 = 1 \/ k = 1)
  <2>1. n - k + 1 = j
    BY <1>1, <1>2, <1>5, <1>7
  <2>2. elided = 0 \/ k - 1 = 0
    BY <1>4, <1>8
  <2>3. QED BY <1>2, <1>3, <1>5, <1>8, <2>1, <2>2
<1>19. ASSUME s.content < m.content PROVE c.size + m.escape + Margin > limit
  BY <1>9, <1>10, <1>11, <1>13, <1>14, <1>19
<1>20. NewestExchange(c)
  <2>1. k >= 1 /\ k + c.elided = n
    BY <1>8, <1>14
  <2>2. ASSUME NEW x \in 1..k, messages[x] # body.messages[n - k + x]
        PROVE  /\ x = 1 /\ (n - k + x = 1 \/ k = 1)
               /\ messages[x].content <= body.messages[n - k + x].content
    BY <1>10, <1>16, <1>17, <1>18, <2>2
  <2>3. ASSUME NEW x \in 1..k, messages[x] # body.messages[n - k + x],
               messages[x].content < body.messages[n - k + x].content
        PROVE  c.size + body.messages[n - k + x].escape + Margin > limit
    <3>1. x = 1
      BY <1>17, <2>3
    <3>2. QED BY <1>16, <1>18, <1>19, <2>3, <3>1
  <2>4. QED BY <1>1, <1>14, <1>16, <2>1, <2>2, <2>3 DEF NewestExchange
<1>21. QED BY <1>15, <1>20 DEF Bounded

LEMMA BoundedTextBounded == PayloadTypes => Bounded(BoundedText)
<1> SUFFICES ASSUME PayloadTypes, NEW c, c = BoundedText PROVE Bounded(c)
  OBVIOUS
<1>1. CASE c.form = "chat"
  <2>1. PICK messages, elided : /\ c = Chat(messages, elided)
                                /\ Recent(messages, elided) \/ RecentCut(messages, elided)
    BY <1>1, ChatIs
  <2>2. QED BY <2>1, RecentBounded, RecentCutBounded
<1>2. CASE c.form # "chat"
  <2>1. NewestExchange(c)
    BY <1>2 DEF NewestExchange
  <2>2. c.size <= limit
    <3>1. limit \in Nat
      BY DEF PayloadTypes
    <3>2. CASE TextSize <= limit
      BY <3>2 DEF BoundedText
    <3>3. CASE ~(TextSize <= limit)
      <4>1. c = Prefix
        BY <1>2, <3>3 DEF BoundedText, Chat
      <4>2. QED BY <3>1, <4>1 DEF Prefix
    <3>4. QED BY <3>2, <3>3
  <2>3. QED BY <2>1, <2>2 DEF Bounded
<1>3. QED BY <1>1, <1>2

PayloadInv == PayloadTypes /\ (capture = NotYet \/ Bounded(capture))

\* A capture is within the limit, as far as shortening content can achieve it, and it is
\* the newest part of the exchange in order: of any body, any sizes and any budget.
THEOREM CapturesAreBounded == PayloadSpec => []CaptureBounded
<1>1. PayloadInit => PayloadInv
  <2> SUFFICES ASSUME PayloadInit PROVE PayloadInv
    OBVIOUS
  <2>1. Message \subseteq Text
    BY PayloadAssumption DEF PayloadAssumption, Message, Text
  <2>2. limit \in Nat /\ capture = NotYet
    BY PayloadAssumption DEF PayloadAssumption, PayloadInit
  <2>3. /\ body.envelope \in Envelopes /\ body.tools \in ToolSizes
        /\ \E n \in 0..MaxMessages : body.messages \in [1..n -> Message]
    BY DEF PayloadInit
  <2>4. body.envelope \in Nat /\ body.tools \in Nat /\ MaxMessages \in Nat
    BY <2>3, PayloadAssumption DEF PayloadAssumption
  <2>5. PICK n \in Nat : body.messages \in [1..n -> Text]
    BY <2>1, <2>3, <2>4
  <2>6. body.messages \in Seq(Text)
    BY <2>5, SeqDef
  <2>7. QED BY <2>2, <2>4, <2>6 DEF PayloadInv, PayloadTypes
<1>2. PayloadInv /\ [PayloadNext]_payloadVars => PayloadInv'
  <2>1. ASSUME PayloadInv, Capture PROVE PayloadInv'
    <3>1. PICK c : c = BoundedText
      OBVIOUS
    <3>2. body' = body /\ limit' = limit /\ capture' = c
      BY <2>1, <3>1 DEF Capture
    <3>3. PayloadTypes'
      BY <2>1, <3>2 DEF PayloadInv, PayloadTypes
    <3>4. Bounded(c)
      BY <2>1, <3>1, BoundedTextBounded DEF PayloadInv
    <3>5. Bounded(capture)'
      BY <3>2, <3>4 DEF Bounded, NewestExchange, FieldsFit
    <3>6. QED BY <3>3, <3>5 DEF PayloadInv
  <2>2. ASSUME PayloadInv, UNCHANGED payloadVars PROVE PayloadInv'
    BY <2>2 DEF payloadVars, PayloadInv, PayloadTypes, NotYet, Bounded, NewestExchange, FieldsFit
  <2>3. QED BY <2>1, <2>2 DEF PayloadNext
<1>3. PayloadInv => CaptureBounded
  <2>1. ASSUME capture = NotYet PROVE CaptureBounded
    BY <2>1 DEF NotYet, CaptureBounded, WithinTheLimit, NewestExchange
  <2>2. QED BY <2>1 DEF PayloadInv, Bounded, CaptureBounded, WithinTheLimit
<1>4. QED BY <1>1, <1>2, <1>3, PTL DEF PayloadSpec

-------------------------------------------------------------------------------
(* AudioTrack: rounding *)

\* Division with remainder.
LEMMA Division ==
  ASSUME NEW a \in Nat, NEW b \in Nat \ {0}
  PROVE  /\ a \div b \in Nat /\ a % b \in Nat /\ a % b < b
         /\ a = b * (a \div b) + (a % b)
<1>1. a \div b \in Nat /\ a % b \in Nat /\ a % b < b
  OBVIOUS
<1>2. a % b = a - b * (a \div b) /\ b * (a \div b) \in Nat
  OBVIOUS
<1>3. PICK x, r : x = b * (a \div b) /\ r = a % b
  OBVIOUS
<1>4. a = x + r
  BY <1>1, <1>2, <1>3
<1>5. QED BY <1>1, <1>3, <1>4

LEMMA Times ==
  ASSUME NEW a \in Nat, NEW b \in Nat, NEW c \in Nat, a <= b
  PROVE  a * c <= b * c /\ c * a <= c * b /\ a * c \in Nat /\ c * a = a * c
OBVIOUS

LEMMA Cancels ==
  ASSUME NEW a \in Nat, NEW b \in Nat, NEW c \in Nat \ {0}, c * a <= c * b
  PROVE  a <= b
OBVIOUS
LEMMA CancelsLess ==
  ASSUME NEW a \in Nat, NEW b \in Nat, NEW c \in Nat, c * a < c * b
  PROVE  a < b
OBVIOUS

\* Rounding is off by half at most, and passes no whole number.
LEMMA Rounding ==
  ASSUME NEW a \in Nat, NEW b \in Nat \ {0}
  PROVE  /\ Round(a, b) \in Nat
         /\ 2 * (b * Round(a, b)) <= 2 * a + b /\ 2 * a <= 2 * (b * Round(a, b)) + b
         /\ \A c \in Nat : b * c <= a => c <= Round(a, b)
         /\ \A c \in Nat : a <= b * c => Round(a, b) <= c
<1>1. PICK q, r : q = a \div b /\ r = a % b
  OBVIOUS
<1>2. q \in Nat /\ r \in Nat /\ r < b /\ a = b * q + r
  BY <1>1, Division
<1>3. PICK R : R = Round(a, b)
  OBVIOUS
<1>4. R = IF 2 * r < b \/ (2 * r = b /\ q % 2 = 0) THEN q ELSE q + 1
  BY <1>1, <1>3 DEF Round
<1>5. b * (q + 1) = b * q + b /\ b * q \in Nat
  BY <1>2
<1>6. R \in {q, q + 1} /\ R \in Nat
  BY <1>2, <1>4
<1>7. 2 * (b * R) <= 2 * a + b /\ 2 * a <= 2 * (b * R) + b
  BY <1>2, <1>4, <1>5
<1>8. ASSUME NEW c \in Nat, b * c <= a PROVE c <= R
  <2>1. b * c < b * (q + 1)
    BY <1>2, <1>5, <1>8
  <2>2. c < q + 1
    BY <1>2, <2>1, CancelsLess
  <2>3. QED BY <1>2, <1>6, <2>2
<1>9. ASSUME NEW c \in Nat, a <= b * c PROVE R <= c
  <2>1. b * q <= b * c
    BY <1>2, <1>5, <1>9
  <2>2. q <= c
    BY <1>2, <2>1, Cancels
  <2>3. CASE r = 0
    BY <1>2, <1>4, <2>2, <2>3
  <2>4. CASE r # 0
    <3>1. b * q < b * c
      BY <1>2, <1>5, <1>9, <2>4
    <3>2. QED BY <1>2, <1>6, <3>1, CancelsLess
  <2>5. QED BY <1>2, <2>3, <2>4
<1>10. QED BY <1>3, <1>6, <1>7, <1>8, <1>9

\* Rounding keeps the order.
LEMMA RoundingOrdered ==
  ASSUME NEW a \in Nat, NEW d \in Nat, NEW b \in Nat \ {0}, a <= d
  PROVE  Round(a, b) <= Round(d, b)
<1>1. PICK q, r, u, v : q = a \div b /\ r = a % b /\ u = d \div b /\ v = d % b
  OBVIOUS
<1>2. /\ q \in Nat /\ r \in Nat /\ r < b /\ a = b * q + r
      /\ u \in Nat /\ v \in Nat /\ v < b /\ d = b * u + v
  BY <1>1, Division
<1>3. /\ Round(a, b) = IF 2 * r < b \/ (2 * r = b /\ q % 2 = 0) THEN q ELSE q + 1
      /\ Round(d, b) = IF 2 * v < b \/ (2 * v = b /\ u % 2 = 0) THEN u ELSE u + 1
  BY <1>1 DEF Round
<1>4. q <= u
  <2>1. b * (u + 1) = b * u + b /\ b * u \in Nat /\ b * q \in Nat
    BY <1>2
  <2>2. b * q < b * (u + 1)
    BY <1>2, <2>1
  <2>3. q < u + 1
    BY <1>2, <2>2, CancelsLess
  <2>4. QED BY <1>2, <2>3
<1>5. CASE q = u
  <2>1. r <= v
    BY <1>2, <1>5
  <2>2. QED BY <1>2, <1>3, <1>5, <2>1
<1>6. CASE q # u
  BY <1>2, <1>3, <1>4, <1>6
<1>7. QED BY <1>5, <1>6

-------------------------------------------------------------------------------
(* AudioTrack: the clock of a reply *)

Byte == Nat \X Nat

AudioEvent == [track : Tracks, at : Nat, size : Nat]

Chunk == [track : Tracks, received : Nat, at : Nat, size : Nat,
          audioKept : BOOLEAN, eventKept : BOOLEAN]

AudioTypes ==
  /\ now \in Nat /\ ends \in [Tracks -> Nat] /\ file \in [Tracks -> Seq(Byte)]
  /\ events \in Seq(AudioEvent) /\ chunks \in Seq(Chunk)

LEMMA TrackTypes ==
  /\ Tracks = {"caller", "agent"} /\ Ticks \in Nat \ {0}
  /\ \A k \in Tracks : Rate[k] \in Nat \ {0}
  /\ Sizes \subseteq Nat /\ Stamps \subseteq Nat
BY AudioAssumption DEF AudioAssumption

\* A byte takes half a sample's time, a whole number of ticks.
LEMMA Durations ==
  ASSUME NEW k \in Tracks
  PROVE  \E c \in Nat : /\ 1000 * Ticks = (2 * Rate[k]) * c
                        /\ \A size \in Nat : Duration(k, size) = size * c
<1>1. PICK p : p = 2 * Rate[k]
  OBVIOUS
<1>a. PICK T : T = 1000 * Ticks
  OBVIOUS
<1>2. p \in Nat \ {0} /\ T \in Nat /\ T % p = 0
  BY <1>1, <1>a, TrackTypes, AudioAssumption DEF AudioAssumption
<1>3. PICK c : c = T \div p
  OBVIOUS
<1>4. c \in Nat /\ T = p * c
  BY <1>2, <1>3, Division
<1>5. ASSUME NEW size \in Nat PROVE Duration(k, size) = size * c
  <2>1. PICK a : a = size * T
    OBVIOUS
  <2>2. a = p * (size * c) /\ a \in Nat /\ size * c \in Nat
    BY <1>2, <1>4, <2>1
  <2>3. /\ a \div p \in Nat /\ a % p \in Nat /\ a % p < p
        /\ a = p * (a \div p) + (a % p)
    BY <1>2, <2>2, Division
  <2>4. a \div p = size * c
    <3>1. p * (a \div p) <= p * (size * c)
      BY <1>2, <2>2, <2>3
    <3>2. p * (size * c) < p * (a \div p + 1)
      BY <1>2, <2>2, <2>3
    <3>3. a \div p <= size * c
      BY <1>2, <2>2, <2>3, <3>1, Cancels
    <3>4. size * c < a \div p + 1
      BY <1>2, <2>2, <2>3, <3>2, CancelsLess
    <3>5. QED BY <2>2, <2>3, <3>3, <3>4
  <2>5. QED BY <1>1, <1>a, <2>1, <2>4 DEF Duration
<1>6. QED BY <1>1, <1>a, <1>4, <1>5

LEMMA DurationTypes ==
  ASSUME NEW k \in Tracks, NEW size \in Nat
  PROVE  Duration(k, size) \in Nat
<1>1. PICK a, p : a = size * (1000 * Ticks) /\ p = 2 * Rate[k]
  OBVIOUS
<1>2. a \in Nat /\ p \in Nat \ {0}
  <2>1. PICK T, rate : T = 1000 * Ticks /\ rate = Rate[k]
    OBVIOUS
  <2>2. T \in Nat /\ rate \in Nat \ {0}
    BY <2>1, TrackTypes
  <2>3. a = size * T /\ p = 2 * rate
    BY <1>1, <2>1, Zenon
  <2>4. QED BY ONLY size \in Nat, <2>2, <2>3
<1>3. a \div p \in Nat
  BY ONLY <1>2, Division, ZenonT(60)
<1>4. QED BY ONLY <1>1, <1>3, ZenonT(60) DEF Duration

\* A reply is due when the one before it is over, and not before it was received.
ClockInv ==
  \A n \in DOMAIN chunks : chunks[n].track = "agent" =>
    /\ chunks[n].received <= chunks[n].at
    /\ chunks[n].at + Duration("agent", chunks[n].size) <= ends["agent"]
    /\ \A m \in DOMAIN chunks : m > n /\ chunks[m].track = "agent" =>
         chunks[n].at + Duration("agent", chunks[n].size) <= chunks[m].at

\* The number of samples that s at rate p become at the rate o.
Many(s, p, o) == IF s = 0 THEN 0 ELSE Larger(1, Round(s * o, p))

\* A sound that begins at a begins at this frame of a recording at the rate o.
FrameOf(a, o) == Round(Round(a, Ticks) * o, 1000)

LEMMA FrameTypes ==
  ASSUME NEW a \in Nat, NEW o \in Nat \ {0}
  PROVE  Round(a, Ticks) \in Nat /\ Round(a, Ticks) * o \in Nat /\ FrameOf(a, o) \in Nat
<1>1. PICK A : A = Round(a, Ticks)
  OBVIOUS
<1>2. A \in Nat
  BY <1>1, TrackTypes, Rounding
<1>3. A * o \in Nat
  BY <1>2
<1>4. Round(A * o, 1000) \in Nat
  <2>1. PICK U : U = A * o
    OBVIOUS
  <2>2. U \in Nat
    BY <1>3, <2>1
  <2>3. Round(U, 1000) \in Nat
    BY <2>2, Rounding
  <2>4. QED BY ONLY <2>1, <2>3, Zenon
<1>5. QED BY ONLY <1>1, <1>2, <1>3, <1>4, Zenon DEF FrameOf

\* The order of two times is kept.
LEMMA FramesOrdered ==
  ASSUME NEW a \in Nat, NEW b \in Nat, a <= b, NEW o \in Nat \ {0}
  PROVE  FrameOf(a, o) <= FrameOf(b, o)
<1>1. PICK A, B : A = Round(a, Ticks) /\ B = Round(b, Ticks)
  OBVIOUS
<1>2. A \in Nat /\ B \in Nat /\ A <= B
  BY <1>1, TrackTypes, Rounding, RoundingOrdered
<1>3. A * o \in Nat /\ B * o \in Nat /\ A * o <= B * o
  BY <1>2, Times
<1>4. Round(A * o, 1000) <= Round(B * o, 1000)
  BY <1>3, RoundingOrdered
<1>5. QED BY <1>1, <1>4 DEF FrameOf

\* The samples of a chunk, at a rate no lower than its own.
LEMMA ManySamples ==
  ASSUME NEW s \in Nat, NEW p \in Nat \ {0}, NEW o \in Nat \ {0}, p <= o
  PROVE  Many(s, p, o) \in Nat /\ 2 * (p * Many(s, p, o)) <= 2 * (s * o) + p
<1>1. CASE s = 0
  BY <1>1 DEF Many
<1>2. CASE s # 0
  <2>1. PICK W, R : W = s * o /\ R = Round(s * o, p)
    OBVIOUS
  <2>2. W \in Nat /\ p * 1 <= W
    <3>1. 1 * o <= s * o /\ s * o \in Nat
      BY <1>2, Times
    <3>2. QED BY <2>1, <3>1
  <2>3. R \in Nat /\ 2 * (p * R) <= 2 * W + p /\ 1 <= R
    BY <2>1, <2>2, Rounding
  <2>4. Many(s, p, o) = R
    BY <1>2, <2>1, <2>3 DEF Many, Larger
  <2>5. QED BY <2>1, <2>3, <2>4
<1>3. QED BY <1>1, <1>2

\* Two chunks, the second due when the first is over: no more than the frames of a
\* millisecond, and one and a half, of the first lie behind the beginning of the second.
Follows(p, o, c, a, b, size) ==
  /\ p \in Nat \ {0} /\ o \in Nat \ {0} /\ p <= o
  /\ c \in Nat /\ 1000 * Ticks = (2 * p) * c
  /\ a \in Nat /\ b \in Nat /\ size \in Nat /\ a + size * c <= b

Spared(p, o, a, b, size) ==
  /\ FrameOf(a, o) \in Nat /\ FrameOf(b, o) \in Nat
  /\ Many(size \div 2, p, o) \in Nat
  /\ 1000 * (FrameOf(a, o) + Many(size \div 2, p, o)) <= 1000 * FrameOf(b, o) + o + 1500

LEMMA Overlap ==
  ASSUME NEW p, NEW o, NEW c, NEW a, NEW b, NEW size, Follows(p, o, c, a, b, size)
  PROVE  Spared(p, o, a, b, size)
<1> p \in Nat \ {0} /\ o \in Nat \ {0} /\ p <= o /\ c \in Nat
    /\ 1000 * Ticks = (2 * p) * c
    /\ a \in Nat /\ b \in Nat /\ size \in Nat /\ a + size * c <= b
  BY DEF Follows
<1>1. PICK s : s = size \div 2
  OBVIOUS
<1>2. s \in Nat /\ 2 * s <= size
  BY <1>1
<1>3. PICK A, B : A = Round(a, Ticks) /\ B = Round(b, Ticks)
  OBVIOUS
<1>4. /\ A \in Nat /\ 2 * (Ticks * A) <= 2 * a + Ticks
      /\ B \in Nat /\ 2 * b <= 2 * (Ticks * B) + Ticks
  BY <1>3, TrackTypes, Rounding
<1>5. c \in Nat \ {0}
  <2>1. c # 0
    BY TrackTypes
  <2>2. QED BY <2>1
<1>6. p * A + 1000 * s <= p * B + p
  <2>1. c * (2 * s) <= size * c
    BY <1>2, Times
  <2>2. PICK x, y, z : x = Ticks * A /\ y = Ticks * B /\ z = size * c
    OBVIOUS
  <2>3. x \in Nat /\ y \in Nat /\ z \in Nat
    BY <1>4, <2>2, TrackTypes
  <2>4. 1000 * x + 1000 * z <= 1000 * y + 1000 * Ticks
    BY <1>4, <2>2, <2>3, TrackTypes
  <2>5. /\ 1000 * x = (2 * c) * (p * A) /\ 1000 * y = (2 * c) * (p * B)
        /\ 1000 * Ticks = (2 * c) * p
    <3>1. (2 * p) * c = (2 * c) * p
      OBVIOUS
    <3>2. 1000 * x = (1000 * Ticks) * A /\ 1000 * y = (1000 * Ticks) * B
      BY <1>4, <2>2, TrackTypes
    <3>3. ((2 * c) * p) * A = (2 * c) * (p * A) /\ ((2 * c) * p) * B = (2 * c) * (p * B)
      BY <1>4
    <3>4. QED BY <3>1, <3>2, <3>3
  <2>6. (2 * c) * (1000 * s) <= 1000 * z
    <3>1. (2 * c) * (1000 * s) = 1000 * (c * (2 * s))
      BY <1>2
    <3>2. c * (2 * s) \in Nat
      BY <1>2
    <3>3. QED BY <2>1, <2>2, <2>3, <3>1, <3>2
  <2>7. (2 * c) * (p * A + 1000 * s) <= (2 * c) * (p * B + p)
    <3>1. (2 * c) * (p * A + 1000 * s) = (2 * c) * (p * A) + (2 * c) * (1000 * s)
      BY <1>2, <1>4
    <3>2. (2 * c) * (p * B + p) = (2 * c) * (p * B) + (2 * c) * p
      BY <1>4
    <3>3. (2 * c) * (1000 * s) \in Nat
      BY <1>2
    <3>4. QED BY <2>3, <2>4, <2>5, <2>6, <3>1, <3>2, <3>3, TrackTypes
  <2>8. p * A + 1000 * s \in Nat /\ p * B + p \in Nat /\ 2 * c \in Nat \ {0}
    BY <1>2, <1>4, <1>5
  <2>9. QED BY <2>7, <2>8, Cancels
<1>7. PICK U, V, W : U = A * o /\ V = B * o /\ W = s * o
  OBVIOUS
<1>8. U \in Nat /\ V \in Nat /\ W \in Nat
  BY <1>2, <1>4, <1>7
<1>9. p * U + 1000 * W <= p * V + p * o
  <2>1. (p * A + 1000 * s) * o <= (p * B + p) * o
    <3>1. p * A + 1000 * s \in Nat /\ p * B + p \in Nat
      BY <1>2, <1>4
    <3>2. QED BY <1>6, <3>1, Times
  <2>2. (p * A + 1000 * s) * o = p * (A * o) + 1000 * (s * o)
    BY <1>2, <1>4
  <2>3. (p * B + p) * o = p * (B * o) + p * o
    BY <1>4
  <2>4. QED BY <1>7, <2>1, <2>2, <2>3
<1>10. PICK x, y, m : x = Round(U, 1000) /\ y = Round(V, 1000) /\ m = Many(s, p, o)
  OBVIOUS
<1>11. /\ x \in Nat /\ y \in Nat /\ 1000 * x <= U + 500 /\ V <= 1000 * y + 500
  <2>1. /\ x \in Nat /\ 2 * (1000 * x) <= 2 * U + 1000
        /\ y \in Nat /\ 2 * V <= 2 * (1000 * y) + 1000
    BY <1>8, <1>10, Rounding
  <2>2. QED BY <1>8, <2>1
<1>12. m \in Nat /\ 2 * (p * m) <= 2 * W + p
  BY <1>2, <1>7, <1>10, ManySamples
<1>13. 1000 * (x + m) <= 1000 * y + o + 1500
  <2>1. PICK pU, pV, po, pm : pU = p * U /\ pV = p * V /\ po = p * o /\ pm = p * m
    OBVIOUS
  <2>2. pU \in Nat /\ pV \in Nat /\ po \in Nat /\ pm \in Nat
    BY <1>8, <1>12, <2>1
  <2>3. p * (1000 * x) <= pU + 500 * p
    <3>1. p * (1000 * x) <= p * (U + 500)
      BY <1>8, <1>11, Times
    <3>2. p * (U + 500) = p * U + 500 * p
      BY <1>8
    <3>3. QED BY <2>1, <3>1, <3>2
  <2>4. pV <= p * (1000 * y) + 500 * p
    <3>1. p * V <= p * (1000 * y + 500)
      BY <1>8, <1>11, Times
    <3>2. p * (1000 * y + 500) = p * (1000 * y) + 500 * p
      BY <1>11
    <3>3. QED BY <2>1, <3>1, <3>2
  <2>5. p * (1000 * (x + m)) = p * (1000 * x) + 1000 * pm
    <3>1. p * (1000 * (x + m)) = p * (1000 * x) + 1000 * (p * m)
      BY <1>11, <1>12
    <3>2. QED BY <2>1, <3>1
  <2>6. p * (1000 * y + o + 1500) = p * (1000 * y) + po + 1500 * p
    <3>1. p * (1000 * y + o + 1500) = p * (1000 * y) + p * o + 1500 * p
      BY <1>11
    <3>2. QED BY <2>1, <3>1
  <2>7. pU + 1000 * W <= pV + po /\ 2 * pm <= 2 * W + p
    BY <1>9, <1>12, <2>1
  <2>8. PICK X, Y : X = p * (1000 * x) /\ Y = p * (1000 * y)
    OBVIOUS
  <2>9. X \in Nat /\ Y \in Nat
    BY <1>11, <2>8
  <2>10. X + 1000 * pm <= Y + po + 1500 * p
    BY ONLY p \in Nat, <1>8, <2>2, <2>3, <2>4, <2>7, <2>8, <2>9
  <2>11. p * (1000 * (x + m)) <= p * (1000 * y + o + 1500)
    BY ONLY <2>5, <2>6, <2>8, <2>10
  <2>12. 1000 * (x + m) \in Nat /\ 1000 * y + o + 1500 \in Nat
    BY <1>11, <1>12
  <2>13. QED BY <2>11, <2>12, Cancels
<1>14. FrameOf(a, o) = x /\ FrameOf(b, o) = y
  BY <1>3, <1>7, <1>10 DEF FrameOf
<1>15. QED BY <1>1, <1>10, <1>11, <1>12, <1>13, <1>14 DEF Spared

LEMMA Rates ==
  ASSUME AudioTypes, Used # {}
  PROVE  /\ OutRate \in Nat \ {0}
         /\ \E k \in Used : OutRate = Rate[k]
         /\ \A j \in Used : j \in Tracks /\ Rate[j] <= OutRate
<1>1. Used \subseteq {"caller", "agent"}
  BY TrackTypes DEF Used
<1>2. PICK x, y : x = Rate["caller"] /\ y = Rate["agent"]
  OBVIOUS
<1>3. x \in Nat \ {0} /\ y \in Nat \ {0}
  BY <1>2, TrackTypes
<1>4. \E k \in Used : \A j \in Used : Rate[j] <= Rate[k]
  <2>1. CASE Used = {"caller"}
    BY <1>2, <1>3, <2>1
  <2>2. CASE Used = {"agent"}
    BY <1>2, <1>3, <2>2
  <2>3. CASE Used = {"caller", "agent"} /\ x <= y
    BY <1>2, <1>3, <2>3
  <2>4. CASE Used = {"caller", "agent"} /\ ~(x <= y)
    BY <1>2, <1>3, <2>4
  <2>5. Used = {"caller"} \/ Used = {"agent"} \/ Used = {"caller", "agent"}
    BY <1>1
  <2>6. QED BY <2>1, <2>2, <2>3, <2>4, <2>5
<1>5. \E k \in Used : OutRate = Rate[k] /\ \A j \in Used : Rate[j] <= Rate[k]
  BY <1>4, Zenon DEF OutRate
<1>6. QED BY <1>1, <1>5, TrackTypes

LEMMA ChunkPlace ==
  ASSUME AudioTypes, NEW n \in DOMAIN chunks
  PROVE  /\ chunks[n].track \in Used /\ chunks[n].track \in Tracks
         /\ chunks[n].at \in Nat /\ chunks[n].size \in Nat /\ chunks[n].received \in Nat
         /\ First(n) = FrameOf(chunks[n].at, OutRate)
         /\ Frames(n) = Many(chunks[n].size \div 2, Rate[chunks[n].track], OutRate)
<1>1. chunks[n] \in Chunk
  BY DEF AudioTypes
<1>2. /\ chunks[n].track \in Tracks
      /\ chunks[n].at \in Nat /\ chunks[n].size \in Nat /\ chunks[n].received \in Nat
  BY <1>1 DEF Chunk
<1>3. QED BY <1>2 DEF Used, First, Frames, Many, FrameOf, FrameAt

LEMMA ClockTells == AudioTypes /\ ClockInv => RepliesLaidEndToEnd
<1> SUFFICES ASSUME AudioTypes, ClockInv, NEW n \in DOMAIN chunks, chunks[n].track = "agent"
             PROVE  /\ 1000 * Cardinality(Lost(n)) <= OutRate + 1500
                    /\ First(n) >= FrameAt(Round(chunks[n].received, Ticks))
  BY DEF RepliesLaidEndToEnd
<1>1. PICK o : o = OutRate
  OBVIOUS
<1>2. o \in Nat \ {0}
  BY <1>1, ChunkPlace, Rates
<1>3. PICK p : p = Rate["agent"]
  OBVIOUS
<1>4. p \in Nat \ {0} /\ "agent" \in Tracks /\ p <= o
  <2>1. "agent" \in Used
    BY ChunkPlace
  <2>2. QED BY <1>1, <1>3, <2>1, TrackTypes, Rates
<1>5. PICK c \in Nat : /\ 1000 * Ticks = (2 * p) * c
                       /\ \A size \in Nat : Duration("agent", size) = size * c
  BY <1>3, <1>4, Durations
<1>6. PICK at, size, received :
        at = chunks[n].at /\ size = chunks[n].size /\ received = chunks[n].received
  OBVIOUS
<1>7. /\ at \in Nat /\ size \in Nat /\ received \in Nat
      /\ First(n) = FrameOf(at, o) /\ Frames(n) = Many(size \div 2, p, o)
  BY <1>1, <1>3, <1>6, ChunkPlace
<1>8. ASSUME NEW m \in DOMAIN chunks, m > n, chunks[m].track = "agent"
      PROVE  /\ First(n) \in Nat /\ First(m) \in Nat /\ Frames(n) \in Nat
             /\ 1000 * (First(n) + Frames(n)) <= 1000 * First(m) + o + 1500
  <2>1. PICK b : b = chunks[m].at
    OBVIOUS
  <2>2. b \in Nat /\ First(m) = FrameOf(b, o)
    BY <1>1, <2>1, ChunkPlace
  <2>3. at + size * c <= b
    <3>1. chunks[n].at + Duration("agent", chunks[n].size) <= chunks[m].at
      BY <1>8, Zenon DEF ClockInv
    <3>2. Duration("agent", size) = size * c
      BY <1>5, <1>7
    <3>3. at + Duration("agent", size) <= b
      BY <1>6, <2>1, <3>1, Zenon
    <3>4. QED BY <3>2, <3>3, Zenon
  <2>4. Spared(p, o, at, b, size)
    <3>1. Follows(p, o, c, at, b, size)
      BY <1>2, <1>4, <1>5, <1>7, <2>2, <2>3 DEF Follows
    <3>2. QED BY <3>1, Overlap, Zenon
  <2>5. PICK x, y, z : x = FrameOf(at, o) /\ y = FrameOf(b, o)
                       /\ z = Many(size \div 2, p, o)
    OBVIOUS
  <2>6. First(n) = x /\ First(m) = y /\ Frames(n) = z
    BY <1>7, <2>2, <2>5
  <2>7. QED BY ONLY <2>4, <2>5, <2>6 DEF Spared
<1>9. First(n) \in Nat /\ First(n) >= FrameAt(Round(chunks[n].received, Ticks))
  <2>1. received <= at
    BY <1>6 DEF ClockInv
  <2>2. FrameOf(received, o) <= FrameOf(at, o)
    BY <1>2, <1>7, <2>1, FramesOrdered
  <2>3. FrameAt(Round(chunks[n].received, Ticks)) = FrameOf(received, o)
    BY <1>1, <1>6 DEF FrameAt, FrameOf
  <2>4. FrameOf(at, o) \in Nat /\ FrameOf(received, o) \in Nat
    BY <1>2, <1>7, FrameTypes
  <2>5. QED BY <1>7, <2>2, <2>3, <2>4
<1>10. 1000 * Cardinality(Lost(n)) <= o + 1500
  <2>1. CASE \A m \in DOMAIN chunks : ~(m > n /\ chunks[m].track = "agent")
    <3>1. Lost(n) = {}
      BY <2>1 DEF Lost
    <3>2. Cardinality(Lost(n)) = 0
      BY <3>1, FS_EmptySet
    <3>3. QED BY <1>2, <3>2
  <2>2. CASE \E m \in DOMAIN chunks : m > n /\ chunks[m].track = "agent"
    <3>1. First(n) \in Nat /\ Frames(n) \in Nat
      BY <1>8, <2>2
    <3>2. PICK hi, D : hi = First(n) + Frames(n) /\ D = (o + 1500) \div 1000
      OBVIOUS
    <3>3. hi \in Nat /\ D \in Nat /\ hi - D + 1 \in Int /\ 1000 * D <= o + 1500 /\ o + 1500 < 1000 * D + 1000
      BY <1>2, <3>1, <3>2
    <3>4. Lost(n) \subseteq (hi - D + 1)..hi
      <4>1. ASSUME NEW i \in Lost(n) PROVE i \in (hi - D + 1)..hi
        <5>1. i \in (First(n) + 1)..hi
          BY <3>2 DEF Lost
        <5>2. PICK m \in DOMAIN chunks : m > n /\ chunks[m].track = "agent" /\ First(m) < i
          BY DEF Lost, Covers
        <5>3. First(m) \in Nat /\ 1000 * hi <= 1000 * First(m) + o + 1500
          BY <1>8, <3>2, <5>2
        <5>4. hi <= First(m) + D
          <6>1. PICK f : f = First(m)
            OBVIOUS
          <6>2. f \in Nat /\ 1000 * hi <= 1000 * f + o + 1500
            BY <5>3, <6>1
          <6>3. hi <= f + D
            BY ONLY <1>2, <3>3, <6>2
          <6>4. QED BY <6>1, <6>3
        <5>5. QED BY <3>1, <3>3, <5>1, <5>2, <5>3, <5>4
      <4>2. QED BY <4>1
    <3>5. IsFiniteSet((hi - D + 1)..hi) /\ Cardinality((hi - D + 1)..hi) = D
      <4>1. PICK lo : lo = hi - D + 1
        OBVIOUS
      <4>2. lo \in Int /\ hi \in Int /\ lo <= hi /\ hi - lo + 1 = D
        BY <1>2, <3>3, <4>1
      <4>3. IsFiniteSet(lo..hi) /\ Cardinality(lo..hi) = hi - lo + 1
        <5>1. IsFiniteSet(lo..hi) /\ Cardinality(lo..hi) = IF lo > hi THEN 0 ELSE hi - lo + 1
          BY ONLY <4>2, FS_Interval, ZenonT(60)
        <5>2. ~(lo > hi)
          BY ONLY <4>2, SMTT(60)
        <5>3. QED BY ONLY <5>1, <5>2, Zenon
      <4>4. QED BY ONLY <4>1, <4>2, <4>3
    <3>6. Cardinality(Lost(n)) \in Nat /\ Cardinality(Lost(n)) <= D
      BY <3>4, <3>5, FS_Subset, FS_CardinalityType
    <3>7. QED BY <1>2, <3>3, <3>6
  <2>3. QED BY <2>1, <2>2
<1>11. QED BY <1>1, <1>9, <1>10

\* What Record() leaves behind, in the words of the step.
Made(k, size, received, audioKept, eventKept, at, d, bytes, event, chunk) ==
  /\ at = OccurredAt(k, received) /\ d = Duration(k, size) /\ size \in Nat
  /\ recording = <<>> /\ recording' = <<>> /\ now' = now
  /\ ends' = [ends EXCEPT ![k] = at + d]
  /\ bytes = Bytes(Len(chunks) + 1, size)
  /\ file' = IF audioKept THEN [file EXCEPT ![k] = file[k] \o bytes] ELSE file
  /\ event = [track |-> k, at |-> at, size |-> size]
  /\ events' = IF eventKept THEN Append(events, event) ELSE events
  /\ chunk.track = k /\ chunk.received = received /\ chunk.at = at /\ chunk.size = size
  /\ chunk.audioKept = audioKept /\ chunk.eventKept = eventKept
  /\ chunks' = Append(chunks, chunk)

Recorded(k, size, received, audioKept, eventKept) ==
  \E at \in Nat, d \in Nat, bytes \in Seq(Byte), event \in AudioEvent, chunk \in Chunk :
    Made(k, size, received, audioKept, eventKept, at, d, bytes, event, chunk)

LEMMA ReceivedType ==
  ASSUME AudioTypes, NEW received \in Received
  PROVE  received \in Nat
<1>1. now * Ticks \in Nat
  BY TrackTypes DEF AudioTypes
<1>2. QED BY <1>1, TrackTypes DEF Received

LEMMA Recording ==
  ASSUME AudioTypes, NEW k \in Tracks, NEW size \in Sizes, NEW received \in Received,
         NEW audioKept \in BOOLEAN, NEW eventKept \in BOOLEAN,
         Record(k, size, received, audioKept, eventKept)
  PROVE  Recorded(k, size, received, audioKept, eventKept)
<1>1. PICK at : at = OccurredAt(k, received)
  OBVIOUS
<1>2. PICK d : d = Duration(k, size)
  OBVIOUS
<1>3. PICK L : L = Len(chunks)
  OBVIOUS
<1>4. at \in Nat /\ size \in Nat /\ L \in Nat /\ received \in Nat
  <2>1. received \in Nat
    BY ReceivedType, Zenon
  <2>2. QED BY <1>1, <1>3, <2>1, TrackTypes DEF AudioTypes, OccurredAt, Larger
<1>5. d \in Nat
  BY <1>2, <1>4, DurationTypes
<1>6. Bytes(L + 1, size) \in Seq(Byte)
  BY <1>4, SeqDef DEF Bytes, Byte
<1>7. PICK event : event = [track |-> k, at |-> at, size |-> size]
  OBVIOUS
<1>8. PICK chunk : chunk = [track |-> k, received |-> received, at |-> at, size |-> size,
                            audioKept |-> audioKept, eventKept |-> eventKept]
  OBVIOUS
<1>9. event \in AudioEvent /\ chunk \in Chunk
  BY <1>4, <1>7, <1>8 DEF AudioTypes, AudioEvent, Chunk
<1>10. PICK bytes : bytes = Bytes(L + 1, size)
  OBVIOUS
<1>11. /\ recording = <<>> /\ recording' = <<>> /\ now' = now
       /\ ends' = [ends EXCEPT ![k] = at + d]
       /\ file' = IF audioKept THEN [file EXCEPT ![k] = file[k] \o bytes] ELSE file
       /\ events' = IF eventKept THEN Append(events, event) ELSE events
       /\ chunks' = Append(chunks, chunk)
  BY <1>1, <1>2, <1>3, <1>7, <1>8, <1>10 DEF Record
<1>12. /\ chunk.track = k /\ chunk.received = received /\ chunk.at = at /\ chunk.size = size
       /\ chunk.audioKept = audioKept /\ chunk.eventKept = eventKept
  BY <1>8
<1>13. bytes \in Seq(Byte)
  BY <1>6, <1>10
<1>14. Made(k, size, received, audioKept, eventKept, at, d, bytes, event, chunk)
  BY ONLY <1>1, <1>2, <1>3, <1>4, <1>7, <1>10, <1>11, <1>12, Zenon DEF Made
<1>15. QED BY ONLY <1>4, <1>5, <1>9, <1>13, <1>14, Zenon DEF Recorded

LEMMA RecordTypes ==
  ASSUME AudioTypes, NEW k \in Tracks, NEW size \in Sizes, NEW received \in Received,
         NEW audioKept \in BOOLEAN, NEW eventKept \in BOOLEAN,
         Record(k, size, received, audioKept, eventKept)
  PROVE  AudioTypes'
<1>0. PICK at \in Nat, d \in Nat, bytes \in Seq(Byte), event \in AudioEvent, chunk \in Chunk :
        Made(k, size, received, audioKept, eventKept, at, d, bytes, event, chunk)
  BY Recording, Zenon DEF Recorded
<1>1. /\ now' = now /\ ends' = [ends EXCEPT ![k] = at + d]
      /\ file' = IF audioKept THEN [file EXCEPT ![k] = file[k] \o bytes] ELSE file
      /\ events' = IF eventKept THEN Append(events, event) ELSE events
      /\ chunks' = Append(chunks, chunk)
  BY ONLY <1>0, Zenon DEF Made
<1>2. now' \in Nat /\ ends' \in [Tracks -> Nat]
  BY <1>1 DEF AudioTypes
<1>3. file' \in [Tracks -> Seq(Byte)]
  <2>1. file[k] \o bytes \in Seq(Byte)
    BY <1>1 DEF AudioTypes
  <2>2. QED BY <1>1, <2>1 DEF AudioTypes
<1>4. events' \in Seq(AudioEvent) /\ chunks' \in Seq(Chunk)
  BY <1>1 DEF AudioTypes
<1>5. QED BY <1>2, <1>3, <1>4 DEF AudioTypes

LEMMA RecordClock ==
  ASSUME AudioTypes, ClockInv, NEW k \in Tracks, NEW size \in Sizes, NEW received \in Received,
         NEW audioKept \in BOOLEAN, NEW eventKept \in BOOLEAN,
         Record(k, size, received, audioKept, eventKept)
  PROVE  ClockInv'
<1>0. PICK at \in Nat, d \in Nat, bytes \in Seq(Byte), event \in AudioEvent, chunk \in Chunk :
        Made(k, size, received, audioKept, eventKept, at, d, bytes, event, chunk)
  BY Recording, Zenon DEF Recorded
<1>1. /\ at = OccurredAt(k, received) /\ d = Duration(k, size) /\ size \in Nat
      /\ ends' = [ends EXCEPT ![k] = at + d] /\ now' = now
      /\ chunks' = Append(chunks, chunk)
      /\ chunk.track = k /\ chunk.received = received /\ chunk.at = at /\ chunk.size = size
  BY ONLY <1>0, Zenon DEF Made
<1>2. PICK L : L = Len(chunks)
  OBVIOUS
<1>3. /\ L \in Nat /\ DOMAIN chunks = 1..L /\ DOMAIN chunks' = 1..(L + 1)
      /\ chunks'[L + 1] = chunk /\ \A n \in 1..L : chunks'[n] = chunks[n] /\ chunks[n] \in Chunk
  BY <1>1, <1>2, SMTT(60) DEF AudioTypes
<1>4. "agent" \in Tracks /\ k \in {"caller", "agent"} /\ ends["agent"] \in Nat /\ received \in Nat
  BY TrackTypes, ReceivedType DEF AudioTypes
<1>5. /\ ends["agent"] <= ends'["agent"]
      /\ k = "agent" => /\ received <= at /\ ends["agent"] <= at
                        /\ ends'["agent"] = at + d
  <2>1. CASE k = "agent"
    <3>1. at = Larger(received, ends["agent"]) /\ ends'["agent"] = at + d
      BY <1>1, <1>4, <2>1 DEF OccurredAt, AudioTypes
    <3>2. QED BY <1>1, <1>4, <2>1, <3>1, SMTT(60) DEF Larger
  <2>2. CASE k = "caller"
    <3>1. ends'["agent"] = ends["agent"]
      BY <1>1, <1>4, <2>2 DEF AudioTypes
    <3>2. QED BY <1>4, <2>2, <3>1
  <2>3. QED BY <1>4, <2>1, <2>2
<1>6. \A n \in 1..L : chunks[n].track = "agent" =>
        /\ chunks[n].at \in Nat /\ Duration("agent", chunks[n].size) \in Nat
        /\ chunks[n].received <= chunks[n].at
        /\ chunks[n].at + Duration("agent", chunks[n].size) <= ends["agent"]
        /\ \A m \in 1..L : m > n /\ chunks[m].track = "agent" =>
             chunks[n].at + Duration("agent", chunks[n].size) <= chunks[m].at
  <2>1. ASSUME NEW n \in 1..L PROVE chunks[n].at \in Nat /\ Duration("agent", chunks[n].size) \in Nat
    <3>1. chunks[n].at \in Nat /\ chunks[n].size \in Nat
      BY <1>3 DEF Chunk
    <3>2. PICK z : z = chunks[n].size
      OBVIOUS
    <3>3. Duration("agent", z) \in Nat
      BY <1>4, <3>1, <3>2, DurationTypes
    <3>4. QED BY <3>1, <3>2, <3>3
  <2>2. QED BY <1>3, <2>1, Zenon DEF ClockInv
<1>7. ASSUME NEW n \in 1..(L + 1), chunks'[n].track = "agent"
      PROVE  /\ chunks'[n].received <= chunks'[n].at
             /\ chunks'[n].at + Duration("agent", chunks'[n].size) <= ends'["agent"]
             /\ \A m \in 1..(L + 1) : m > n /\ chunks'[m].track = "agent" =>
                  chunks'[n].at + Duration("agent", chunks'[n].size) <= chunks'[m].at
  <2>1. CASE n = L + 1
    <3>1. k = "agent" /\ chunks'[n] = chunk
      BY <1>1, <1>3, <1>7, <2>1
    <3>2. at + d <= ends'["agent"]
      BY <1>1, <1>5, <3>1
    <3>3. \A m \in 1..(L + 1) : ~(m > n)
      BY <1>3, <2>1
    <3>4. QED BY <1>1, <1>5, <3>1, <3>2, <3>3
  <2>2. CASE n # L + 1
    <3>1. n \in 1..L /\ chunks'[n] = chunks[n]
      BY <1>3, <2>2
    <3>2. PICK a, e : a = chunks[n].at + Duration("agent", chunks[n].size) /\ e = ends'["agent"]
      OBVIOUS
    <3>3. a \in Nat /\ a <= ends["agent"] /\ ends["agent"] <= e /\ e \in Nat
      <4>1. e \in Nat
        <5>1. ends' \in [Tracks -> Nat]
          BY RecordTypes DEF AudioTypes
        <5>2. QED BY <1>4, <3>2, <5>1
      <4>2. a \in Nat /\ a <= ends["agent"]
        BY <1>6, <1>7, <3>1, <3>2
      <4>3. QED BY <1>5, <3>2, <4>1, <4>2
    <3>4. a <= e
      BY <1>4, <3>3
    <3>5. ASSUME NEW m \in 1..(L + 1), m > n, chunks'[m].track = "agent"
          PROVE  a <= chunks'[m].at
      <4>1. CASE m = L + 1
        <5>1. k = "agent" /\ chunks'[m].at = at
          BY <1>1, <1>3, <3>5, <4>1
        <5>2. QED BY <1>1, <1>4, <1>5, <3>3, <5>1, SMTT(60)
      <4>2. CASE m # L + 1
        <5>1. m \in 1..L /\ chunks'[m] = chunks[m]
          BY <1>3, <4>2
        <5>2. QED BY <1>6, <1>7, <3>1, <3>2, <3>5, <5>1
      <4>3. QED BY <4>1, <4>2
    <3>6. QED BY <1>6, <1>7, <3>1, <3>2, <3>4, <3>5
  <2>3. QED BY <2>1, <2>2
<1>8. QED BY <1>3, <1>7 DEF ClockInv

LEMMA Clockwork == Spec => [](AudioTypes /\ ClockInv)
<1>1. Init => AudioTypes /\ ClockInv
  BY DEF Init, AudioTypes, ClockInv
<1>2. AudioTypes /\ ClockInv /\ [Next]_vars => (AudioTypes /\ ClockInv)'
  <2> SUFFICES ASSUME AudioTypes, ClockInv, [Next]_vars PROVE AudioTypes' /\ ClockInv'
    OBVIOUS
  <2>1. CASE Tick
    BY <2>1 DEF Tick, AudioTypes, ClockInv, Duration
  <2>2. CASE Compose
    BY <2>2 DEF Compose, AudioTypes, ClockInv, Duration
  <2>3. ASSUME NEW k \in Tracks, NEW size \in Sizes, NEW received \in Received,
               NEW audioKept \in BOOLEAN, NEW eventKept \in BOOLEAN,
               Record(k, size, received, audioKept, eventKept)
        PROVE  AudioTypes' /\ ClockInv'
    BY <2>3, RecordTypes, RecordClock
  <2>4. CASE UNCHANGED vars
    BY <2>4 DEF vars, AudioTypes, ClockInv, Duration
  <2>5. QED BY <2>1, <2>2, <2>3, <2>4 DEF Next
<1>3. QED BY <1>1, <1>2, PTL DEF Spec

\* Replies that arrive in a burst, faster than they play, are laid out one behind the
\* other, and the pause that follows them is kept: no chunk is placed before it was
\* received, and what its followers write over is a millisecond of it and a frame and a half
\* at most.
THEOREM RepliesFollow == Spec => []RepliesLaidEndToEnd
BY Clockwork, ClockTells, PTL

-------------------------------------------------------------------------------
(* AudioTrack: rendering a track *)

Pair == Byte \X Byte

Sound == {Silence} \cup Pair

\* _decode_mono() keeps the bytes in their order, two to a sample.
LEMMA Decoding ==
  ASSUME NEW data \in Seq(Byte)
  PROVE  /\ Decode(data) \in Seq(Pair) /\ Len(Decode(data)) = Len(data) \div 2
         /\ \A i \in 1..(Len(data) \div 2) :
              /\ 2 * i - 1 \in 1..Len(data) /\ 2 * i \in 1..Len(data)
              /\ Decode(data)[i] = <<data[2 * i - 1], data[2 * i]>>
<1>1. PICK n : n = Len(data)
  OBVIOUS
<1>2. n \in Nat /\ n \div 2 \in Nat /\ 2 * (n \div 2) <= n
  BY <1>1
<1>3. \A i \in 1..(n \div 2) : 2 * i - 1 \in 1..n /\ 2 * i \in 1..n
  BY <1>2
<1>4. \A i \in 1..(n \div 2) : <<data[2 * i - 1], data[2 * i]>> \in Pair
  <2>1. ASSUME NEW i \in 1..(n \div 2) PROVE <<data[2 * i - 1], data[2 * i]>> \in Pair
    <3>1. PICK a, b : a = 2 * i - 1 /\ b = 2 * i
      OBVIOUS
    <3>2. a \in 1..n /\ b \in 1..n
      BY <1>3, <3>1
    <3>3. data[a] \in Byte /\ data[b] \in Byte
      BY <1>1, <3>2
    <3>4. QED BY <3>1, <3>3 DEF Pair
  <2>2. QED BY <2>1
<1>5. PICK d : d = Decode(data)
  OBVIOUS
<1>6. d = [i \in 1..(n \div 2) |-> <<data[2 * i - 1], data[2 * i]>>]
  BY <1>1, <1>5 DEF Decode
<1>7. d \in [1..(n \div 2) -> Pair]
  BY <1>4, <1>6
<1>8. d \in Seq(Pair) /\ Len(d) = n \div 2
  BY <1>2, <1>7, SeqDef
<1>9. QED BY <1>1, <1>3, <1>5, <1>6, <1>8

\* _resample(): at the track's own rate nothing changes; at a higher one each sample
\* stands for the left neighbour in the source.
LEMMA Resampling ==
  ASSUME AudioTypes, NEW k \in Used, NEW samples \in Seq(Pair), samples # <<>>,
         NEW s, s = Len(samples), NEW p, p = Rate[k], NEW o, o = OutRate
  PROVE  /\ Many(s, p, o) \in Nat
         /\ Resample(k, samples) \in Seq(Pair) /\ Len(Resample(k, samples)) = Many(s, p, o)
         /\ \A x \in 1..Many(s, p, o) :
              /\ Smaller(s, ((x - 1) * p) \div o + 1) \in 1..s
              /\ Resample(k, samples)[x] = samples[Smaller(s, ((x - 1) * p) \div o + 1)]
<1>1. s \in Nat \ {0}
  OBVIOUS
<1>2. k \in Tracks /\ p \in Nat \ {0} /\ o \in Nat \ {0}
  BY Rates, TrackTypes DEF Used
<1>3. s * o \in Nat
  BY <1>1, <1>2
<1>4. PICK R : R = Round(s * o, p)
  OBVIOUS
<1>5. R \in Nat /\ (\A c \in Nat : p * c <= s * o => c <= R) /\ (\A c \in Nat : s * o <= p * c => R <= c)
  BY <1>2, <1>3, <1>4, Rounding
<1>6. PICK M : M = Larger(1, R)
  OBVIOUS
<1>7. M \in Nat /\ M = Many(s, p, o)
  BY <1>1, <1>4, <1>5, <1>6 DEF Many, Larger
<1>8. ASSUME NEW x \in 1..M
      PROVE  /\ Smaller(s, ((x - 1) * p) \div o + 1) \in 1..s
             /\ p = o => Smaller(s, ((x - 1) * p) \div o + 1) = Smaller(s, x)
  <2>1. x - 1 \in Nat /\ x \in Nat
    BY <1>7
  <2>2. PICK a : a = (x - 1) * p
    OBVIOUS
  <2>3. a \in Nat
    BY <1>2, <2>1, <2>2
  <2>4. PICK q : q = a \div o
    OBVIOUS
  <2>5. q \in Nat /\ a % o \in Nat /\ a % o < o /\ a = o * q + (a % o)
    BY <1>2, <2>3, <2>4, Division
  <2>6. Smaller(s, q + 1) \in 1..s
    BY <1>1, <2>5 DEF Smaller
  <2>7. ASSUME p = o PROVE q = x - 1
    <3>1. o * q <= o * (x - 1) /\ o * (x - 1) < o * (q + 1)
      <4>1. a = o * (x - 1) /\ o * (q + 1) = o * q + o /\ o * q \in Nat
        BY <1>2, <2>1, <2>2, <2>5, <2>7
      <4>2. QED BY <1>2, <2>3, <2>5, <4>1, SMTT(60)
    <3>2. q <= x - 1
      BY <1>2, <2>1, <2>5, <3>1, Cancels
    <3>3. x - 1 < q + 1
      BY <1>2, <2>1, <2>5, <3>1, CancelsLess
    <3>4. QED BY <2>1, <2>5, <3>2, <3>3
  <2>8. QED BY <2>1, <2>2, <2>4, <2>5, <2>6, <2>7
<1>9. PICK r : r = Resample(k, samples)
  OBVIOUS
<1>10. CASE p = o
  <2>1. r = samples
    BY <1>9, <1>10 DEF Resample
  <2>2. M = s
    <3>1. p * s <= s * o /\ s * o <= p * s
      BY <1>1, <1>2, <1>10
    <3>2. R = s
      BY <1>1, <1>5, <3>1
    <3>3. QED BY <1>1, <1>6, <3>2 DEF Larger
  <2>3. \A x \in 1..M : Smaller(s, ((x - 1) * p) \div o + 1) = x
    <3>1. ASSUME NEW x \in 1..M PROVE Smaller(s, x) = x
      BY <1>1, <2>2 DEF Smaller
    <3>2. QED BY <1>8, <1>10, <3>1
  <2>4. QED BY <1>7, <1>8, <1>9, <2>1, <2>2, <2>3
<1>11. CASE p # o
  <2>1. r = [x \in 1..M |-> samples[Smaller(s, ((x - 1) * p) \div o + 1)]]
    BY <1>4, <1>6, <1>9, <1>11 DEF Resample
  <2>2. \A x \in 1..M : samples[Smaller(s, ((x - 1) * p) \div o + 1)] \in Pair
    <3>1. \A y \in 1..s : samples[y] \in Pair
      OBVIOUS
    <3>2. QED BY <1>8, <3>1
  <2>3. r \in [1..M -> Pair]
    BY <2>1, <2>2
  <2>4. r \in Seq(Pair) /\ Len(r) = M
    BY <1>7, <2>3, SeqDef
  <2>5. QED BY <1>7, <1>8, <1>9, <2>1, <2>4
<1>12. QED BY <1>10, <1>11

\* output[start:required] = samples: what is written is heard, and the rest stays.
IsWritten(w, output, samples, start) ==
  /\ w \in Seq(Sound) /\ Len(w) = Larger(Len(output), start + Len(samples))
  /\ \A i \in 1..Len(w) :
       w[i] = IF i > start /\ i <= start + Len(samples) THEN samples[i - start]
              ELSE IF i <= Len(output) THEN output[i] ELSE Silence

LEMMA Writing ==
  ASSUME NEW output \in Seq(Sound), NEW samples \in Seq(Pair), NEW start \in Nat
  PROVE  IsWritten(Written(output, samples, start), output, samples, start)
<1>0. PICK w : w = Written(output, samples, start)
  OBVIOUS
<1>1. PICK a, b : a = Len(output) /\ b = Len(samples)
  OBVIOUS
<1>2. a \in Nat /\ b \in Nat
  BY <1>1
<1>3. PICK M : M = Larger(a, start + b)
  OBVIOUS
<1>4. M \in Nat
  BY <1>2, <1>3 DEF Larger
<1>5. w = [i \in 1..M |-> IF i > start /\ i <= start + b THEN samples[i - start]
                          ELSE IF i <= a THEN output[i] ELSE Silence]
  BY <1>0, <1>1, <1>3 DEF Written
<1>6. ASSUME NEW i \in 1..M
      PROVE  (IF i > start /\ i <= start + b THEN samples[i - start]
              ELSE IF i <= a THEN output[i] ELSE Silence) \in Sound
  <2>1. ASSUME i > start /\ i <= start + b PROVE samples[i - start] \in Sound
    <3>1. PICK x : x = i - start
      OBVIOUS
    <3>2. x \in 1..b
      BY <1>2, <1>4, <2>1, <3>1
    <3>3. samples[x] \in Pair
      BY <1>1, <3>2
    <3>4. QED BY <3>1, <3>3 DEF Sound
  <2>2. ASSUME i <= a PROVE output[i] \in Sound
    BY <1>1, <1>2, <1>4, <2>2
  <2>3. QED BY <2>1, <2>2 DEF Sound
<1>7. w \in [1..M -> Sound]
  BY <1>5, <1>6
<1>8. w \in Seq(Sound) /\ Len(w) = M
  BY <1>4, <1>7, SeqDef
<1>9. IsWritten(w, output, samples, start)
  BY <1>1, <1>3, <1>5, <1>8 DEF IsWritten
<1>10. QED BY ONLY <1>0, <1>9, Zenon

Painting(k) == [offset : 0..Len(file[k]), output : Seq(Sound)]

\* What sounds at a frame: behind the end, silence.
SoundAt(output, i) == IF i \in 1..Len(output) THEN output[i] ELSE Silence

\* The bytes that an event stands for: size of them, or as many as are left.
Taken(d, data, offset, size) ==
  /\ d \in Seq(Byte) /\ offset + Len(d) \in 0..Len(data)
  /\ offset + size <= Len(data) => Len(d) = size
  /\ \A z \in 1..Len(d) : d[z] = data[offset + z]

LEMMA Cutting ==
  ASSUME NEW data, data \in Seq(Byte), NEW offset, offset \in 0..Len(data),
         NEW size, size \in Nat
  PROVE  Taken(SubSeq(data, offset + 1, Smaller(Len(data), offset + size)), data, offset, size)
<1>0. PICK d : d = SubSeq(data, offset + 1, Smaller(Len(data), offset + size))
  OBVIOUS
<1>1. PICK n : n = Len(data)
  OBVIOUS
<1>2. PICK end : end = Smaller(n, offset + size)
  OBVIOUS
<1>3. n \in Nat /\ offset \in Nat /\ offset <= n /\ size \in Nat
  BY <1>1
<1>4. end \in Nat /\ offset <= end /\ end <= n /\ (offset + size <= n => end = offset + size)
  BY <1>2, <1>3 DEF Smaller
<1>5. d = SubSeq(data, offset + 1, end)
  BY <1>0, <1>1, <1>2
<1>6. d \in Seq(Byte) /\ Len(d) = end - offset /\ \A z \in 1..(end - offset) : d[z] = data[offset + z]
  <2>1. PICK a : a = offset + 1
    OBVIOUS
  <2>2. a \in Int /\ end \in Int /\ d = SubSeq(data, a, end)
    <3>1. d = SubSeq(data, a, end)
      BY ONLY <1>5, <2>1, Zenon
    <3>2. a \in Int /\ end \in Int
      BY ONLY <1>3, <1>4, <2>1
    <3>3. QED BY ONLY <3>1, <3>2, Zenon
  <2>3. \A i \in a..end : data[i] \in Byte
    BY <1>1, <1>3, <1>4, <2>1
  <2>4. /\ d \in Seq(Byte) /\ Len(d) = IF a <= end THEN end - a + 1 ELSE 0
        /\ \A z \in 1..(end - a + 1) : d[z] = data[a + z - 1]
    BY ONLY <2>2, <2>3, SubSeqProperties
  <2>5. end - a + 1 = end - offset
    BY <1>3, <1>4, <2>1
  <2>6. Len(d) = end - offset
    BY <1>3, <1>4, <2>1, <2>4, <2>5
  <2>7. ASSUME NEW z \in 1..(end - offset) PROVE d[z] = data[offset + z]
    <3>1. d[z] = data[a + z - 1]
      BY <2>4, <2>5
    <3>2. a + z - 1 = offset + z
      BY <1>3, <1>4, <2>1
    <3>3. QED BY ONLY <3>1, <3>2, Zenon
  <2>8. QED BY ONLY <2>4, <2>6, <2>7, Zenon
<1>7. offset + Len(d) = end
  BY ONLY <1>3, <1>4, <1>6
<1>8. end \in 0..n
  BY ONLY <1>3, <1>4
<1>9. ASSUME offset + size <= n PROVE Len(d) = size
  BY ONLY <1>3, <1>4, <1>6, <1>9, <1>3
<1>10. offset + Len(d) \in 0..Len(data)
  BY ONLY <1>1, <1>7, <1>8, Zenon
<1>11. offset + size <= Len(data) => Len(d) = size
  BY ONLY <1>1, <1>9, Zenon
<1>12. \A z \in 1..Len(d) : d[z] = data[offset + z]
  BY ONLY <1>6, Zenon
<1>13. Taken(d, data, offset, size)
  BY ONLY <1>6, <1>10, <1>11, <1>12, Zenon DEF Taken
<1>14. QED BY ONLY <1>0, <1>13, Zenon

\* The m frames behind start hold the bytes of the event, and nothing else has changed.
Placed(t, s, k, e, p, o, start, m) ==
  /\ t.offset = s.offset + e.size /\ start \in Nat /\ m \in Nat
  /\ \A i \in Nat \ {0} :
       IF start < i /\ i <= start + m
       THEN LET place == Smaller(e.size \div 2, ((i - start - 1) * p) \div o + 1)
            IN /\ i \in 1..Len(t.output)
               /\ place \in 1..(e.size \div 2)
               /\ t.output[i] = <<file[k][s.offset + (2 * place - 1)],
                                  file[k][s.offset + 2 * place]>>
       ELSE SoundAt(t.output, i) = SoundAt(s.output, i)

\* One event of the fold.
LEMMA RenderStep ==
  ASSUME AudioTypes, NEW k \in Used, NEW s \in Painting(k), NEW e \in AudioEvent,
         NEW t, t = RenderEvent(k, s, e),
         NEW p, p = Rate[k], NEW o, o = OutRate,
         NEW start, start = FrameOf(e.at, o),
         NEW m, m = Many(e.size \div 2, p, o)
  PROVE  /\ t \in Painting(k)
         /\ e.track # k => t = s
         /\ e.track = k /\ s.offset + e.size <= Len(file[k]) =>
              Placed(t, s, k, e, p, o, start, m)
<1>1. PICK data : data = SubSeq(file[k], s.offset + 1, Smaller(Len(file[k]), s.offset + e.size))
  OBVIOUS
<1>2. /\ k \in Tracks /\ file[k] \in Seq(Byte) /\ s.offset \in 0..Len(file[k])
      /\ s.output \in Seq(Sound) /\ e.size \in Nat /\ e.at \in Nat
      /\ p \in Nat \ {0} /\ o \in Nat \ {0}
  BY Rates, TrackTypes DEF Used, AudioTypes, Painting, AudioEvent
<1>3. /\ data \in Seq(Byte) /\ s.offset + Len(data) \in 0..Len(file[k])
      /\ s.offset + e.size <= Len(file[k]) => Len(data) = e.size
      /\ \A z \in 1..Len(data) : data[z] = file[k][s.offset + z]
  <2>1. PICK whole, from, size : whole = file[k] /\ from = s.offset /\ size = e.size
    OBVIOUS
  <2>2. /\ whole \in Seq(Byte) /\ from \in 0..Len(whole) /\ size \in Nat
        /\ data = SubSeq(whole, from + 1, Smaller(Len(whole), from + size))
    BY <1>1, <1>2, <2>1
  <2>3. Taken(data, whole, from, size)
    <3>1. Taken(SubSeq(whole, from + 1, Smaller(Len(whole), from + size)), whole, from, size)
      BY <2>2, Cutting
    <3>2. QED BY ONLY <2>2, <3>1, Zenon
  <2>4. Taken(data, file[k], s.offset, e.size)
    BY ONLY <2>1, <2>3, Zenon
  <2>5. QED BY ONLY <2>4, Zenon DEF Taken
<1>4. PICK mono : mono = Decode(data)
  OBVIOUS
<1>5. /\ mono \in Seq(Pair) /\ Len(mono) = Len(data) \div 2
      /\ \A i \in 1..(Len(data) \div 2) :
           /\ 2 * i - 1 \in 1..Len(data) /\ 2 * i \in 1..Len(data)
           /\ mono[i] = <<data[2 * i - 1], data[2 * i]>>
  BY <1>3, <1>4, Decoding
<1>6. start \in Nat
  BY <1>2, FrameTypes
<1>7. PICK samples : samples = Resample(k, mono)
  OBVIOUS
<1>8. PICK w : w = Written(s.output, samples, start)
  OBVIOUS
<1>9. t = IF e.track # k THEN s
          ELSE [offset |-> s.offset + Len(data),
                output |-> IF mono = <<>> THEN s.output ELSE w]
  BY <1>1, <1>4, <1>7, <1>8 DEF RenderEvent, FrameOf, FrameAt
<1>10. ASSUME mono # <<>>
       PROVE  /\ w \in Seq(Sound) /\ Many(Len(mono), p, o) \in Nat
              /\ Len(samples) = Many(Len(mono), p, o) /\ samples \in Seq(Pair)
              /\ Len(w) = Larger(Len(s.output), start + Len(samples))
              /\ \A i \in 1..Len(w) :
                   w[i] = IF i > start /\ i <= start + Len(samples) THEN samples[i - start]
                          ELSE IF i <= Len(s.output) THEN s.output[i] ELSE Silence
              /\ \A x \in 1..Len(samples) :
                   /\ Smaller(Len(mono), ((x - 1) * p) \div o + 1) \in 1..Len(mono)
                   /\ samples[x] = mono[Smaller(Len(mono), ((x - 1) * p) \div o + 1)]
  <2>1. PICK n : n = Len(mono)
    OBVIOUS
  <2>2. /\ Many(n, p, o) \in Nat /\ samples \in Seq(Pair) /\ Len(samples) = Many(n, p, o)
        /\ \A x \in 1..Many(n, p, o) :
              /\ Smaller(n, ((x - 1) * p) \div o + 1) \in 1..n
              /\ samples[x] = mono[Smaller(n, ((x - 1) * p) \div o + 1)]
    BY <1>5, <1>7, <1>10, <2>1, Resampling, SMTT(60)
  <2>3. /\ w \in Seq(Sound) /\ Len(w) = Larger(Len(s.output), start + Len(samples))
        /\ \A i \in 1..Len(w) :
              w[i] = IF i > start /\ i <= start + Len(samples) THEN samples[i - start]
                     ELSE IF i <= Len(s.output) THEN s.output[i] ELSE Silence
    <3>1. PICK output : output = s.output
      OBVIOUS
    <3>2. output \in Seq(Sound) /\ w = Written(output, samples, start)
      BY <1>2, <1>8, <3>1
    <3>3. IsWritten(w, output, samples, start)
      <4>1. IsWritten(Written(output, samples, start), output, samples, start)
        BY <1>6, <2>2, <3>2, Writing
      <4>2. QED BY ONLY <3>2, <4>1, Zenon
    <3>4. IsWritten(w, s.output, samples, start)
      BY ONLY <3>1, <3>3, Zenon
    <3>5. QED BY ONLY <3>4, Zenon DEF IsWritten
  <2>4. QED BY <2>1, <2>2, <2>3
<1>11. t \in Painting(k)
  <2>1. CASE e.track # k
    BY <1>9, <2>1
  <2>2. CASE e.track = k
    <3>1. t = [offset |-> s.offset + Len(data), output |-> IF mono = <<>> THEN s.output ELSE w]
      BY <1>9, <2>2
    <3>2. (IF mono = <<>> THEN s.output ELSE w) \in Seq(Sound)
      BY <1>2, <1>10
    <3>3. QED BY <1>3, <3>1, <3>2 DEF Painting
  <2>3. QED BY <2>1, <2>2
<1>12. ASSUME e.track = k, s.offset + e.size <= Len(file[k])
       PROVE  /\ t.offset = s.offset + e.size /\ m \in Nat
              /\ \A i \in Nat \ {0} :
                   IF start < i /\ i <= start + m
                   THEN LET place == Smaller(e.size \div 2, ((i - start - 1) * p) \div o + 1)
                        IN /\ i \in 1..Len(t.output)
                           /\ place \in 1..(e.size \div 2)
                           /\ t.output[i] = <<file[k][s.offset + (2 * place - 1)],
                                              file[k][s.offset + 2 * place]>>
                   ELSE SoundAt(t.output, i) = SoundAt(s.output, i)
  <2>1. PICK n : n = e.size \div 2
    OBVIOUS
  <2>2. Len(data) = e.size /\ Len(mono) = n /\ n \in Nat /\ m = Many(n, p, o)
    BY <1>2, <1>3, <1>5, <1>12, <2>1
  <2>3. t.offset = s.offset + e.size /\ t.output = IF mono = <<>> THEN s.output ELSE w
    BY <1>9, <1>12, <2>2
  <2>4. CASE mono = <<>>
    <3>1. n = 0 /\ m = 0
      BY <2>2, <2>4 DEF Many
    <3>2. t.output = s.output
      BY <2>3, <2>4
    <3>3. \A i \in Nat \ {0} : ~(start < i /\ i <= start + m)
      BY <1>6, <3>1
    <3>4. QED BY <2>3, <3>1, <3>2, <3>3
  <2>5. CASE mono # <<>>
    <3>1. t.output = w /\ Len(samples) = m /\ m \in Nat
      BY <1>10, <2>2, <2>3, <2>5
    <3>2. PICK a : a = Len(s.output)
      OBVIOUS
    <3>3. a \in Nat
      BY <1>2, <3>2
    <3>4. Len(w) = Larger(a, start + m)
      BY <1>10, <2>5, <3>1, <3>2
    <3>5. \A i \in 1..Len(w) :
            w[i] = IF i > start /\ i <= start + m THEN samples[i - start]
                   ELSE IF i <= a THEN s.output[i] ELSE Silence
      BY <1>10, <2>5, <3>1, <3>2
    <3>6. ASSUME NEW i \in Nat \ {0}, start < i, i <= start + m,
                 NEW place, place = Smaller(n, ((i - start - 1) * p) \div o + 1)
          PROVE  /\ i \in 1..Len(w) /\ place \in 1..n
                 /\ w[i] = <<file[k][s.offset + (2 * place - 1)], file[k][s.offset + 2 * place]>>
      <4>1. PICK x : x = i - start
        OBVIOUS
      <4>2. x \in 1..m /\ i \in 1..Len(w)
        BY <1>6, <3>1, <3>3, <3>4, <3>6, <4>1, SMTT(60) DEF Larger
      <4>3. w[i] = samples[x]
        BY <3>5, <3>6, <4>1, <4>2
      <4>4. place = Smaller(n, ((x - 1) * p) \div o + 1)
        BY <3>6, <4>1
      <4>5. place \in 1..n /\ samples[x] = mono[place]
        BY <1>10, <2>2, <2>5, <3>1, <4>2, <4>4
      <4>6. PICK y, z : y = 2 * place - 1 /\ z = 2 * place
        OBVIOUS
      <4>7. y \in 1..Len(data) /\ z \in 1..Len(data) /\ mono[place] = <<data[y], data[z]>>
        BY <1>5, <2>2, <4>5, <4>6
      <4>8. data[y] = file[k][s.offset + y] /\ data[z] = file[k][s.offset + z]
        BY <1>3, <4>7
      <4>9. QED BY <4>2, <4>3, <4>5, <4>6, <4>7, <4>8
    <3>7. ASSUME NEW i \in Nat \ {0}, ~(start < i /\ i <= start + m)
          PROVE  SoundAt(w, i) = SoundAt(s.output, i)
      <4>1. ~(start < i /\ i <= start + m) /\ i >= 1
        BY <3>7
      <4>2. CASE i <= a
        <5>1. i \in 1..Len(w)
          BY <1>6, <3>1, <3>3, <3>4, <3>7, <4>1, <4>2 DEF Larger
        <5>2. w[i] = s.output[i]
          BY <3>5, <3>7, <4>2, <5>1
        <5>3. i \in 1..Len(s.output)
          BY <3>2, <3>3, <4>1, <4>2
        <5>4. QED BY <5>1, <5>2, <5>3 DEF SoundAt
      <4>3. CASE ~(i <= a)
        <5>1. i \notin 1..Len(s.output)
          BY <3>2, <3>3, <4>3
        <5>2. ASSUME i \in 1..Len(w) PROVE w[i] = Silence
          BY <3>5, <3>7, <4>3, <5>2
        <5>3. QED BY <5>1, <5>2 DEF SoundAt
      <4>4. QED BY <4>2, <4>3
    <3>8. QED BY <2>1, <2>3, <3>1, <3>6, <3>7
  <2>6. QED BY <2>4, <2>5
<1>13. e.track = k /\ s.offset + e.size <= Len(file[k]) => Placed(t, s, k, e, p, o, start, m)
  BY ONLY <1>6, <1>12, Zenon DEF Placed
<1>14. QED BY <1>9, <1>11, <1>13

Blank == [offset |-> 0, output |-> <<>>]

\* The fold of _render_track().
Painted(k, listed) == FoldLeft(LAMBDA sofar, e : RenderEvent(k, sofar, e), Blank, listed)

LEMMA RenderFold ==
  ASSUME AudioTypes, NEW k \in Used, NEW listed \in Seq(AudioEvent)
  PROVE  \E f : /\ f[0] = Blank
                /\ \A i \in 1..Len(listed) : f[i] = RenderEvent(k, f[i - 1], listed[i])
                /\ \A i \in 0..Len(listed) : f[i] \in Painting(k)
                /\ Painted(k, listed) = f[Len(listed)]
<1> DEFINE n == Len(listed)
           G == [q \in Painting(k) \X AudioEvent |-> RenderEvent(k, q[1], q[2])]
<1>1. n \in Nat /\ DOMAIN listed = 1..n
  OBVIOUS
<1>2. G \in [Painting(k) \X AudioEvent -> Painting(k)]
  <2>1. ASSUME NEW s \in Painting(k), NEW e \in AudioEvent PROVE RenderEvent(k, s, e) \in Painting(k)
    BY RenderStep
  <2>2. QED BY <2>1
<1>3. Blank \in Painting(k)
  <2>1. k \in Tracks /\ file[k] \in Seq(Byte)
    BY DEF Used, AudioTypes
  <2>2. Len(file[k]) \in Nat /\ <<>> \in Seq(Sound)
    BY <2>1
  <2>3. 0 \in 0..Len(file[k])
    BY <2>2
  <2>4. QED BY <2>2, <2>3 DEF Blank, Painting
<1>4. PICK h : Folds(h, Blank, listed, G, SUBSET (1..n))
  BY <1>1, FoldsExist
<1>5. \A T \in SUBSET (1..n) : h[T] \in Painting(k)
  <2> HIDE DEF G
  <2>1. QED BY <1>2, <1>3, <1>4, FoldsClosed
<1>6. ASSUME NEW T \in SUBSET (1..n), T # {}
      PROVE  G[<<h[T \ {Max(T)}], listed[Max(T)]>>] = RenderEvent(k, h[T \ {Max(T)}], listed[Max(T)])
  <2>1. Max(T) \in T
    BY <1>1, <1>6, Highest
  <2>2. Max(T) \in 1..n /\ T \ {Max(T)} \in SUBSET (1..n)
    BY <2>1
  <2>3. listed[Max(T)] \in AudioEvent /\ h[T \ {Max(T)}] \in Painting(k)
    BY <1>1, <1>5, <2>2
  <2>4. PICK a, b : a = h[T \ {Max(T)}] /\ b = listed[Max(T)]
    OBVIOUS
  <2>5. G[<<a, b>>] = RenderEvent(k, a, b)
    BY <2>3, <2>4
  <2> HIDE DEF G
  <2>6. QED BY ONLY <2>4, <2>5, Zenon
<1>7. h = [T \in SUBSET DOMAIN listed |->
             IF T = {} THEN Blank ELSE RenderEvent(k, h[T \ {Max(T)}], listed[Max(T)])]
  <2> HIDE DEF G
  <2>1. QED BY <1>1, <1>4, <1>6 DEF Folds
<1>8. \E g : /\ g = [T \in SUBSET DOMAIN listed |->
                       IF T = {} THEN Blank ELSE RenderEvent(k, g[T \ {Max(T)}], listed[Max(T)])]
             /\ Painted(k, listed) = g[DOMAIN listed]
  BY <1>7, Zenon DEF Painted, FoldLeft, MapThenFoldSet
<1>9. PICK g : /\ g = [T \in SUBSET (1..n) |->
                         IF T = {} THEN Blank ELSE RenderEvent(k, g[T \ {Max(T)}], listed[Max(T)])]
               /\ Painted(k, listed) = g[1..n]
  BY <1>1, <1>8
<1>10. PICK f : f = [i \in 0..n |-> g[1..i]]
  OBVIOUS
<1> HIDE DEF G
<1>11. f[0] = Blank
  BY <1>1, <1>9, <1>10, Beginnings
<1>12. ASSUME NEW i \in 1..n PROVE f[i] = RenderEvent(k, f[i - 1], listed[i])
  <2>1. g[1..i] = RenderEvent(k, g[1..(i - 1)], listed[i])
    BY <1>1, <1>9, Beginnings, ZenonT(60)
  <2>2. i \in 0..n /\ i - 1 \in 0..n
    BY <1>1
  <2>3. QED BY <1>10, <2>1, <2>2
<1>13. f[n] = Painted(k, listed)
  BY <1>1, <1>9, <1>10
<1>14. \A i \in 0..n : f[i] \in Painting(k)
  <2> DEFINE D == {i \in Nat : i <= n => f[i] \in Painting(k)}
  <2>1. 0 \in D
    BY <1>3, <1>11
  <2>2. ASSUME NEW i \in D PROVE i + 1 \in D
    <3>1. SUFFICES ASSUME i + 1 <= n PROVE f[i + 1] \in Painting(k)
      OBVIOUS
    <3>2. i + 1 \in 1..n /\ (i + 1) - 1 = i /\ f[i] \in Painting(k)
      BY <1>1, <3>1
    <3>3. f[i + 1] = RenderEvent(k, f[i], listed[i + 1]) /\ listed[i + 1] \in AudioEvent
      BY <1>1, <1>12, <3>2
    <3>4. QED BY <3>2, <3>3, RenderStep
  <2>3. D \in SUBSET Nat
    OBVIOUS
  <2>4. \A i \in Nat : i \in D
    <3> HIDE DEF D
    <3>1. QED BY <2>1, <2>2, <2>3, Induction
  <2>5. QED BY <1>1, <2>4
<1>15. QED BY <1>11, <1>12, <1>13, <1>14

\* A rendered track is a sequence of samples, and nothing is added behind the events when
\* they account for every byte.
LEMMA Rendering ==
  ASSUME AudioTypes, NEW k \in Used
  PROVE  /\ Render(k) \in Seq(Sound)
         /\ (\E j \in DOMAIN events : events[j].track = k)
            /\ Painted(k, events).offset = Len(file[k]) => Render(k) = Painted(k, events).output
<1>1. k \in Tracks /\ file[k] \in Seq(Byte) /\ events \in Seq(AudioEvent)
  BY DEF Used, AudioTypes
<1>2. PICK n : n = Len(file[k])
  OBVIOUS
<1>3. n \in Nat
  BY <1>1, <1>2
<1>4. PICK listed : listed = IF (\A j \in DOMAIN events : events[j].track # k) /\ file[k] # <<>>
                             THEN <<[track |-> k, at |-> 0, size |-> n]>> ELSE events
  OBVIOUS
<1>5. listed \in Seq(AudioEvent)
  <2>1. [track |-> k, at |-> 0, size |-> n] \in AudioEvent
    BY <1>1, <1>3 DEF AudioEvent
  <2>2. PICK e : e = [track |-> k, at |-> 0, size |-> n]
    OBVIOUS
  <2>3. <<e>> \in Seq(AudioEvent)
    BY <2>1, <2>2
  <2>4. QED BY <1>1, <1>4, <2>2, <2>3
<1>6. PICK done : done = Painted(k, listed)
  OBVIOUS
<1>7. done \in Painting(k)
  <2>1. PICK f : /\ \A i \in 0..Len(listed) : f[i] \in Painting(k)
                 /\ Painted(k, listed) = f[Len(listed)]
    BY <1>5, RenderFold
  <2>2. Len(listed) \in 0..Len(listed)
    BY <1>5
  <2>3. QED BY <1>6, <2>1, <2>2
<1>8. done.offset \in 0..n /\ done.output \in Seq(Sound)
  BY <1>2, <1>7 DEF Painting
<1>9. PICK left : left = SubSeq(file[k], done.offset + 1, n)
  OBVIOUS
<1>10. left \in Seq(Byte)
  <2>1. PICK whole, a : whole = file[k] /\ a = done.offset + 1
    OBVIOUS
  <2>2. a \in Int /\ n \in Int /\ \A i \in a..n : whole[i] \in Byte
    BY <1>1, <1>2, <1>3, <1>8, <2>1
  <2>3. SubSeq(whole, a, n) \in Seq(Byte)
    BY ONLY <2>2, SubSeqProperties
  <2>4. QED BY ONLY <1>9, <2>1, <2>3, Zenon
<1>11. PICK rest : rest = Decode(left)
  OBVIOUS
<1>12. rest \in Seq(Pair)
  BY <1>10, <1>11, Decoding
<1>13. PICK tail : tail = IF rest = <<>> /\ Rate[k] = OutRate THEN <<>>
                          ELSE IF rest = <<>> THEN <<Silence>> ELSE Resample(k, rest)
  OBVIOUS
<1>14. tail \in Seq(Sound)
  <2>1. ASSUME rest # <<>> PROVE Resample(k, rest) \in Seq(Pair)
    BY <1>12, <2>1, Resampling
  <2>2. Seq(Pair) \subseteq Seq(Sound)
    BY DEF Sound
  <2>3. <<Silence>> \in Seq(Sound) /\ <<>> \in Seq(Sound)
    BY DEF Sound
  <2>4. QED BY <1>13, <2>1, <2>2, <2>3
<1>15. Render(k) = IF done.offset < n THEN done.output \o tail ELSE done.output
  BY <1>2, <1>4, <1>6, <1>9, <1>11, <1>13, Zenon DEF Render, Painted, Blank
<1>16. Render(k) \in Seq(Sound)
  BY <1>8, <1>14, <1>15
<1>17. ASSUME \E j \in DOMAIN events : events[j].track = k,
              Painted(k, events).offset = Len(file[k])
       PROVE  Render(k) = Painted(k, events).output
  <2>1. listed = events
    BY <1>4, <1>17
  <2>2. done = Painted(k, events)
    BY <1>6, <2>1
  <2>3. ~(done.offset < n)
    BY <1>2, <1>3, <1>17, <2>2
  <2>4. QED BY <1>15, <2>2, <2>3
<1>18. QED BY <1>16, <1>17

-------------------------------------------------------------------------------
(* AudioTrack: what the files say of a track *)

\* Event j of listed stands for chunk place[j] of heard, in order, and its bytes, if the
\* chunk is of track k, are in the file behind the first pos[j - 1]; no chunk of track k
\* is left out.
Laid(bytes, listed, heard, k, pos, place) ==
  /\ pos \in [0..Len(listed) -> Nat] /\ pos[0] = 0 /\ pos[Len(listed)] = Len(bytes)
  /\ place \in [1..Len(listed) -> 1..Len(heard)]
  /\ \A j \in 1..Len(listed) :
       /\ pos[j] = pos[j - 1] + (IF listed[j].track = k THEN listed[j].size ELSE 0)
       /\ pos[j] <= Len(bytes)
       /\ heard[place[j]].track = listed[j].track
       /\ heard[place[j]].at = listed[j].at /\ heard[place[j]].size = listed[j].size
       /\ listed[j].track = k =>
            \A i \in 1..listed[j].size : bytes[pos[j - 1] + i] = <<place[j], i>>
  /\ \A i, j \in 1..Len(listed) : i < j => place[i] < place[j]
  /\ \A n \in 1..Len(heard) : heard[n].track = k => \E j \in 1..Len(listed) : place[j] = n

\* A chunk of the other track, without an event.
LEMMA LaidWithout ==
  ASSUME NEW bytes \in Seq(Byte), NEW listed \in Seq(AudioEvent), NEW heard \in Seq(Chunk),
         NEW k \in Tracks, NEW pos, NEW place, Laid(bytes, listed, heard, k, pos, place),
         NEW c \in Chunk, c.track # k
  PROVE  Laid(bytes, listed, Append(heard, c), k, pos, place)
<1>1. PICK longer : longer = Append(heard, c)
  OBVIOUS
<1>2. PICK L, E : L = Len(heard) /\ E = Len(listed)
  OBVIOUS
<1>3. /\ L \in Nat /\ E \in Nat /\ Len(longer) = L + 1 /\ longer[L + 1] = c
      /\ \A n \in 1..L : longer[n] = heard[n]
  BY <1>1, <1>2
<1>4. /\ pos \in [0..E -> Nat] /\ pos[0] = 0 /\ pos[E] = Len(bytes)
      /\ place \in [1..E -> 1..L]
      /\ \A j \in 1..E :
           /\ pos[j] = pos[j - 1] + (IF listed[j].track = k THEN listed[j].size ELSE 0)
           /\ pos[j] <= Len(bytes)
           /\ heard[place[j]].track = listed[j].track
           /\ heard[place[j]].at = listed[j].at /\ heard[place[j]].size = listed[j].size
           /\ listed[j].track = k =>
                \A i \in 1..listed[j].size : bytes[pos[j - 1] + i] = <<place[j], i>>
      /\ \A i, j \in 1..E : i < j => place[i] < place[j]
      /\ \A n \in 1..L : heard[n].track = k => \E j \in 1..E : place[j] = n
  BY <1>2, Zenon DEF Laid
<1>5. place \in [1..E -> 1..(L + 1)]
  BY <1>3, <1>4, SMTT(60)
<1>6. \A j \in 1..E : /\ longer[place[j]].track = listed[j].track
                      /\ longer[place[j]].at = listed[j].at
                      /\ longer[place[j]].size = listed[j].size
  <2>1. ASSUME NEW j \in 1..E PROVE longer[place[j]] = heard[place[j]]
    BY <1>3, <1>4
  <2>2. QED BY <1>4, <2>1, SMTT(60)
<1>7. ASSUME NEW n \in 1..(L + 1), longer[n].track = k PROVE \E j \in 1..E : place[j] = n
  <2>1. n # L + 1
    BY <1>3, <1>7
  <2>2. n \in 1..L
    BY <1>3, <2>1
  <2>3. QED BY <1>3, <1>4, <1>7, <2>2
<1>8. Laid(bytes, listed, longer, k, pos, place)
  BY ONLY <1>2, <1>3, <1>4, <1>5, <1>6, <1>7, Zenon DEF Laid
<1>9. QED BY ONLY <1>1, <1>8, Zenon

\* A chunk and its event.
LEMMA LaidWith ==
  ASSUME NEW bytes \in Seq(Byte), NEW listed \in Seq(AudioEvent), NEW heard \in Seq(Chunk),
         NEW k \in Tracks, NEW pos, NEW place, Laid(bytes, listed, heard, k, pos, place),
         NEW c \in Chunk, NEW e \in AudioEvent,
         e.track = c.track, e.at = c.at, e.size = c.size,
         NEW longer, longer = IF c.track = k THEN bytes \o Bytes(Len(heard) + 1, c.size) ELSE bytes
  PROVE  \E pos2, place2 : Laid(longer, Append(listed, e), Append(heard, c), k, pos2, place2)
<1>1. PICK more, most : more = Append(listed, e) /\ most = Append(heard, c)
  OBVIOUS
<1>2. PICK L, E, B : L = Len(heard) /\ E = Len(listed) /\ B = Len(bytes)
  OBVIOUS
<1>3. /\ L \in Nat /\ E \in Nat /\ B \in Nat /\ e.size \in Nat
      /\ Len(most) = L + 1 /\ most[L + 1] = c /\ \A n \in 1..L : most[n] = heard[n]
      /\ Len(more) = E + 1 /\ more[E + 1] = e /\ \A j \in 1..E : more[j] = listed[j]
  BY <1>1, <1>2 DEF AudioEvent
<1>4. /\ pos \in [0..E -> Nat] /\ pos[0] = 0 /\ pos[E] = B
      /\ place \in [1..E -> 1..L]
      /\ \A j \in 1..E :
           /\ pos[j] = pos[j - 1] + (IF listed[j].track = k THEN listed[j].size ELSE 0)
           /\ pos[j] <= B
           /\ heard[place[j]].track = listed[j].track
           /\ heard[place[j]].at = listed[j].at /\ heard[place[j]].size = listed[j].size
           /\ listed[j].track = k =>
                \A i \in 1..listed[j].size : bytes[pos[j - 1] + i] = <<place[j], i>>
      /\ \A i, j \in 1..E : i < j => place[i] < place[j]
      /\ \A n \in 1..L : heard[n].track = k => \E j \in 1..E : place[j] = n
  BY <1>2, Zenon DEF Laid
<1>5. PICK d : d = IF e.track = k THEN e.size ELSE 0
  OBVIOUS
<1>6. d \in Nat
  BY <1>3, <1>5
<1>7. PICK B2 : B2 = B + d
  OBVIOUS
<1>8. /\ Len(longer) = B2 /\ B2 \in Nat /\ B <= B2
      /\ \A i \in 1..B : longer[i] = bytes[i]
      /\ e.track = k => \A i \in 1..e.size : longer[B + i] = <<L + 1, i>>
  <2>1. CASE c.track # k
    BY <1>2, <1>3, <1>5, <1>7, <2>1
  <2>2. CASE c.track = k
    <3>1. PICK z : z = e.size
      OBVIOUS
    <3>2. z \in Nat /\ z = c.size /\ d = z
      BY <1>3, <1>5, <2>2, <3>1
    <3>3. PICK chunk : chunk = Bytes(L + 1, z)
      OBVIOUS
    <3>4. chunk = [i \in 1..z |-> <<L + 1, i>>] /\ longer = bytes \o chunk
      BY <1>2, <2>2, <3>2, <3>3, SMTT(60) DEF Bytes
    <3>5. chunk \in Seq(Byte) /\ Len(chunk) = z
      <4>1. \A i \in 1..z : <<L + 1, i>> \in Byte
        BY <1>3, <3>2 DEF Byte
      <4>2. chunk \in [1..z -> Byte]
        BY <3>4, <4>1
      <4>3. chunk \in Seq(Byte)
        BY ONLY <3>2, <4>2, SeqDef
      <4>4. QED BY ONLY <3>2, <4>2, <4>3
    <3>0. bytes \in Seq(Byte) /\ longer = bytes \o chunk
      BY <3>4
    <3>6. Len(longer) = B + z
      <4>1. Len(bytes \o chunk) = Len(bytes) + Len(chunk)
        BY ONLY <3>0, <3>5, ConcatProperties
      <4>2. QED BY ONLY <1>2, <3>0, <3>5, <4>1, Zenon
    <3>7. ASSUME NEW i \in 1..B PROVE longer[i] = bytes[i]
      BY <1>2, <1>3, <3>4, <3>5
    <3>8. ASSUME NEW i \in 1..z PROVE longer[B + i] = <<L + 1, i>>
      <4>1. longer[B + i] = chunk[i]
        BY ONLY <1>2, <1>3, <3>0, <3>2, <3>5, <3>8
      <4>2. QED BY <3>4, <4>1
    <3>9. \A i \in 1..e.size : longer[B + i] = <<L + 1, i>>
      BY ONLY <3>1, <3>8, Zenon
    <3>10. Len(longer) = B2 /\ B2 \in Nat /\ B <= B2
      BY <1>3, <1>7, <3>2, <3>6, SMTT(60)
    <3>11. QED BY ONLY <3>7, <3>9, <3>10, Zenon
  <2>3. QED BY <2>1, <2>2
<1>9. PICK pos2 : pos2 = [j \in 0..(E + 1) |-> IF j = E + 1 THEN B2 ELSE pos[j]]
  OBVIOUS
<1>10. PICK place2 : place2 = [j \in 1..(E + 1) |-> IF j = E + 1 THEN L + 1 ELSE place[j]]
  OBVIOUS
<1>11. /\ pos2 \in [0..(E + 1) -> Nat] /\ pos2[0] = 0 /\ pos2[E + 1] = B2
       /\ \A j \in 0..E : pos2[j] = pos[j]
  BY <1>3, <1>4, <1>8, <1>9, SMTT(60)
<1>12. /\ place2 \in [1..(E + 1) -> 1..(L + 1)] /\ place2[E + 1] = L + 1
       /\ \A j \in 1..E : place2[j] = place[j] /\ place[j] \in 1..L
  <2>1. \A j \in 1..E : place[j] \in 1..L
    BY <1>4, SMTT(60)
  <2>2. \A j \in 1..(E + 1) : (IF j = E + 1 THEN L + 1 ELSE place[j]) \in 1..(L + 1)
    BY <1>3, <2>1
  <2>3. place2 \in [1..(E + 1) -> 1..(L + 1)] /\ place2[E + 1] = L + 1
    BY <1>3, <1>10, <2>2
  <2>4. \A j \in 1..E : j \in 1..(E + 1) /\ j # E + 1
    BY <1>3
  <2>5. QED BY <1>10, <2>1, <2>3, <2>4
<1>13. ASSUME NEW j \in 1..(E + 1)
       PROVE  /\ pos2[j] = pos2[j - 1] + (IF more[j].track = k THEN more[j].size ELSE 0)
              /\ pos2[j] <= B2
              /\ most[place2[j]].track = more[j].track
              /\ most[place2[j]].at = more[j].at /\ most[place2[j]].size = more[j].size
              /\ more[j].track = k =>
                   \A i \in 1..more[j].size : longer[pos2[j - 1] + i] = <<place2[j], i>>
  <2>1. CASE j = E + 1
    <3>1. /\ more[j] = e /\ most[place2[j]] = c /\ pos2[j] = B2 /\ j - 1 = E
          /\ place2[j] = L + 1
      BY <1>3, <1>11, <1>12, <2>1
    <3>2. pos2[j - 1] = B
      BY <1>3, <1>4, <1>11, <3>1
    <3>3. e.track = k => \A i \in 1..e.size : longer[pos2[j - 1] + i] = <<place2[j], i>>
      BY ONLY <1>8, <3>1, <3>2
    <3>4. pos2[j] = pos2[j - 1] + (IF e.track = k THEN e.size ELSE 0) /\ pos2[j] <= B2
      BY <1>5, <1>7, <1>8, <3>1, <3>2
    <3>5. QED BY <3>1, <3>3, <3>4
  <2>2. CASE j # E + 1
    <3>1. j \in 1..E /\ j - 1 \in 0..E /\ j \in 0..E
      BY <1>3, <2>2
    <3>2. /\ more[j] = listed[j] /\ place2[j] = place[j] /\ place[j] \in 1..L
          /\ pos2[j] = pos[j] /\ pos2[j - 1] = pos[j - 1]
      BY <1>3, <1>11, <1>12, <3>1
    <3>3. most[place2[j]] = heard[place[j]]
      BY <1>3, <3>2, SMTT(60)
    <3>4. /\ pos[j] = pos[j - 1] + (IF listed[j].track = k THEN listed[j].size ELSE 0)
          /\ pos[j] <= B
          /\ heard[place[j]].track = listed[j].track
          /\ heard[place[j]].at = listed[j].at /\ heard[place[j]].size = listed[j].size
          /\ listed[j].track = k =>
               \A i \in 1..listed[j].size : bytes[pos[j - 1] + i] = <<place[j], i>>
          /\ pos[j] \in Nat /\ pos[j - 1] \in Nat
      BY <1>4, <3>1
    <3>5. pos2[j] <= B2
      BY <1>3, <1>8, <3>2, <3>4, SMTT(60)
    <3>6. ASSUME listed[j].track = k, NEW i \in 1..listed[j].size
          PROVE  longer[pos[j - 1] + i] = <<place[j], i>>
      <4>1. listed[j].size \in Nat
        <5>1. listed[j] \in AudioEvent
          BY <1>2, <3>1
        <5>2. QED BY <5>1 DEF AudioEvent
      <4>2. pos[j - 1] + i \in 1..B
        <5>1. PICK z, q, r : z = listed[j].size /\ q = pos[j - 1] /\ r = pos[j]
          OBVIOUS
        <5>2. z \in Nat /\ q \in Nat /\ r = q + z /\ r <= B /\ i \in 1..z
          BY <3>4, <3>6, <4>1, <5>1
        <5>3. q + i \in 1..B
          BY <1>3, <5>2
        <5>4. QED BY <5>1, <5>3
      <4>3. QED BY <1>8, <3>4, <3>6, <4>2
    <3>7. QED BY ONLY <3>2, <3>3, <3>4, <3>5, <3>6
  <2>3. QED BY <2>1, <2>2
<1>14. ASSUME NEW i \in 1..(E + 1), NEW j \in 1..(E + 1), i < j PROVE place2[i] < place2[j]
  <2>1. i \in 1..E
    BY <1>3, <1>14
  <2>2. CASE j = E + 1
    BY <1>3, <1>12, <2>1, <2>2, SMTT(60)
  <2>3. CASE j # E + 1
    <3>1. j \in 1..E
      BY <1>3, <2>3
    <3>2. place[i] < place[j]
      BY <1>4, <1>14, <2>1, <3>1
    <3>3. QED BY <1>12, <2>1, <3>1, <3>2
  <2>4. QED BY <2>2, <2>3
<1>15. ASSUME NEW n \in 1..(L + 1), most[n].track = k PROVE \E j \in 1..(E + 1) : place2[j] = n
  <2>1. CASE n = L + 1
    BY <1>3, <1>12, <2>1
  <2>2. CASE n # L + 1
    <3>1. n \in 1..L /\ heard[n].track = k
      BY <1>3, <1>15, <2>2
    <3>2. PICK j \in 1..E : place[j] = n
      BY <1>4, <3>1
    <3>3. j \in 1..(E + 1) /\ place2[j] = n
      BY <1>3, <1>12, <3>2
    <3>4. QED BY <3>3
  <2>3. QED BY <2>1, <2>2
<1>16. Laid(longer, more, most, k, pos2, place2)
  <2>1. Len(more) = E + 1 /\ Len(most) = L + 1 /\ Len(longer) = B2
    BY <1>3, <1>8
  <2>2. QED BY ONLY <2>1, <1>11, <1>12, <1>13, <1>14, <1>15, Zenon DEF Laid
<1>17. QED BY ONLY <1>1, <1>16, Zenon

TrackInv ==
  \A k \in Tracks : NothingLost(k) =>
    \E pos, place : Laid(file[k], events, chunks, k, pos, place)

LEMMA TrackBegun == Init => TrackInv
<1> SUFFICES ASSUME Init, NEW k \in Tracks
             PROVE  \E pos, place : Laid(file[k], events, chunks, k, pos, place)
  BY DEF TrackInv
<1>1. file[k] = <<>> /\ events = <<>> /\ chunks = <<>>
  BY DEF Init
<1>2. PICK pos, place : pos = [j \in 0..0 |-> 0] /\ place = [j \in 1..0 |-> 1]
  OBVIOUS
<1>3. pos \in [0..0 -> Nat] /\ pos[0] = 0 /\ place \in [1..0 -> 1..0]
  BY <1>2
<1>4. Laid(<<>>, <<>>, <<>>, k, pos, place)
  BY <1>3 DEF Laid
<1>5. QED BY <1>1, <1>4

LEMMA RecordTracks ==
  ASSUME AudioTypes, TrackInv, NEW k \in Tracks, NEW size \in Sizes, NEW received \in Received,
         NEW audioKept \in BOOLEAN, NEW eventKept \in BOOLEAN,
         Record(k, size, received, audioKept, eventKept)
  PROVE  TrackInv'
<1>0. PICK at \in Nat, d \in Nat, bytes \in Seq(Byte), event \in AudioEvent, chunk \in Chunk :
        Made(k, size, received, audioKept, eventKept, at, d, bytes, event, chunk)
  BY Recording, Zenon DEF Recorded
<1>1. /\ bytes = Bytes(Len(chunks) + 1, size)
      /\ file' = IF audioKept THEN [file EXCEPT ![k] = file[k] \o bytes] ELSE file
      /\ event = [track |-> k, at |-> at, size |-> size]
      /\ events' = IF eventKept THEN Append(events, event) ELSE events
      /\ chunk.track = k /\ chunk.at = at /\ chunk.size = size
      /\ chunk.audioKept = audioKept /\ chunk.eventKept = eventKept
      /\ chunks' = Append(chunks, chunk)
  BY ONLY <1>0, Zenon DEF Made
<1>2. SUFFICES ASSUME NEW j \in Tracks, NothingLost(j)'
               PROVE  \E pos, place : Laid(file'[j], events', chunks', j, pos, place)
  BY DEF TrackInv
<1>3. PICK L : L = Len(chunks)
  OBVIOUS
<1>4. /\ L \in Nat /\ DOMAIN chunks = 1..L /\ DOMAIN chunks' = 1..(L + 1)
      /\ chunks'[L + 1] = chunk /\ \A n \in 1..L : chunks'[n] = chunks[n]
      /\ file[j] \in Seq(Byte) /\ events \in Seq(AudioEvent) /\ chunks \in Seq(Chunk)
      /\ file \in [Tracks -> Seq(Byte)]
  BY <1>1, <1>3, SMTT(60) DEF AudioTypes
<1>5. NothingLost(j)
  <2>1. ASSUME NEW n \in 1..L, chunks[n].track = j PROVE chunks[n].audioKept /\ chunks[n].eventKept
    <3>1. n \in DOMAIN chunks' /\ chunks'[n] = chunks[n]
      BY <1>4
    <3>2. QED BY <1>2, <2>1, <3>1 DEF NothingLost
  <2>2. QED BY <1>4, <2>1 DEF NothingLost
<1>6. k = j => audioKept /\ eventKept
  <2>1. L + 1 \in DOMAIN chunks'
    BY <1>4
  <2>2. chunks'[L + 1].track = j => chunks'[L + 1].audioKept /\ chunks'[L + 1].eventKept
    BY <1>2, <2>1, Zenon DEF NothingLost
  <2>3. chunk.track = j => chunk.audioKept /\ chunk.eventKept
    BY ONLY <1>4, <2>2, Zenon
  <2>4. QED BY ONLY <1>1, <2>3, Zenon
<1>7. PICK pos, place : Laid(file[j], events, chunks, j, pos, place)
  BY <1>5 DEF TrackInv
<1>8. CASE eventKept
  <2>1. PICK longer : longer = IF chunk.track = j THEN file[j] \o Bytes(Len(chunks) + 1, chunk.size)
                               ELSE file[j]
    OBVIOUS
  <2>2. file'[j] = longer
    <3>1. CASE k = j
      <4>1. file'[j] = file[j] \o bytes
        BY <1>1, <1>4, <1>6, <3>1
      <4>2. longer = file[j] \o bytes
        BY <1>1, <2>1, <3>1
      <4>3. QED BY <4>1, <4>2
    <3>2. CASE k # j
      <4>1. file'[j] = file[j]
        BY <1>1, <1>4, <3>2
      <4>2. longer = file[j]
        BY <1>1, <2>1, <3>2
      <4>3. QED BY <4>1, <4>2
    <3>3. QED BY <3>1, <3>2
  <2>3. event.track = chunk.track /\ event.at = chunk.at /\ event.size = chunk.size
    BY <1>1
  <2>4. PICK whole : whole = file[j]
    OBVIOUS
  <2>5. \E pos2, place2 : Laid(longer, Append(events, event), Append(chunks, chunk), j, pos2, place2)
    <3>1. /\ whole \in Seq(Byte) /\ Laid(whole, events, chunks, j, pos, place)
          /\ longer = IF chunk.track = j THEN whole \o Bytes(Len(chunks) + 1, chunk.size) ELSE whole
      BY ONLY <1>4, <1>7, <2>1, <2>4, Zenon
    <3>2. events \in Seq(AudioEvent) /\ chunks \in Seq(Chunk)
      BY <1>4
    <3>3. QED BY <2>3, <3>1, <3>2, LaidWith
  <2>6. events' = Append(events, event) /\ chunks' = Append(chunks, chunk)
    BY <1>1, <1>8
  <2>7. QED BY ONLY <2>2, <2>5, <2>6, Zenon
<1>9. CASE ~eventKept
  <2>1. k # j
    BY <1>6, <1>9
  <2>2. file'[j] = file[j] /\ events' = events /\ chunks' = Append(chunks, chunk) /\ chunk.track # j
    BY <1>1, <1>4, <1>9, <2>1
  <2>3. Laid(file[j], events, Append(chunks, chunk), j, pos, place)
    BY <1>4, <1>7, <2>2, LaidWithout
  <2>4. Laid(file'[j], events', chunks', j, pos, place)
    BY ONLY <2>2, <2>3, Zenon
  <2>5. QED BY <2>4
<1>10. QED BY <1>8, <1>9

\* What sounds at frame i of track k: of chunks, the latest there.
Latest(k, i, v) ==
  \/ v = Silence /\ \A n \in DOMAIN chunks : chunks[n].track = k => ~Covers(n, i)
  \/ \E n \in DOMAIN chunks :
       /\ chunks[n].track = k /\ Covers(n, i) /\ v = Sample(n, i)
       /\ \A m \in DOMAIN chunks : m > n /\ chunks[m].track = k => ~Covers(m, i)

\* The same of the chunks of the first j events.
LatestOf(k, place, j, i, v) ==
  \/ v = Silence /\ \A a \in 1..j : events[a].track = k => ~Covers(place[a], i)
  \/ \E a \in 1..j :
       /\ events[a].track = k /\ Covers(place[a], i) /\ v = Sample(place[a], i)
       /\ \A b \in 1..j : b > a /\ events[b].track = k => ~Covers(place[b], i)

\* The fold after j events.
PaintedTo(k, pos, place, j, s) ==
  /\ s.offset = pos[j]
  /\ \A i \in Nat \ {0} : LatestOf(k, place, j, i, SoundAt(s.output, i))

\* Each event of the fold puts its chunk where it belongs.
LEMMA PaintingStep ==
  ASSUME AudioTypes, NEW k \in Used, NEW pos, NEW place,
         Laid(file[k], events, chunks, k, pos, place),
         NEW j \in Nat, j + 1 <= Len(events), NEW s \in Painting(k),
         PaintedTo(k, pos, place, j, s)
  PROVE  PaintedTo(k, pos, place, j + 1, RenderEvent(k, s, events[j + 1]))
<1>0. PICK t : t = RenderEvent(k, s, events[j + 1])
  OBVIOUS
<1>a. s.offset = pos[j] /\ \A i \in Nat \ {0} : LatestOf(k, place, j, i, SoundAt(s.output, i))
  BY Zenon DEF PaintedTo
<1>1. PICK e, n : e = events[j + 1] /\ n = place[j + 1]
  OBVIOUS
<1>2. /\ Len(events) \in Nat /\ j + 1 \in 1..Len(events) /\ (j + 1) - 1 = j
      /\ events \in Seq(AudioEvent)
  BY DEF AudioTypes
<1>3. e \in AudioEvent
  BY <1>1, <1>2
<1>4. /\ pos[j + 1] = pos[j] + (IF e.track = k THEN e.size ELSE 0) /\ pos[j + 1] <= Len(file[k])
      /\ n \in 1..Len(chunks)
      /\ chunks[n].track = e.track /\ chunks[n].at = e.at /\ chunks[n].size = e.size
      /\ e.track = k => \A i \in 1..e.size : file[k][pos[j] + i] = <<n, i>>
      /\ pos[j] \in Nat
  <2>1. j \in 0..Len(events)
    BY <1>2
  <2>2. /\ pos \in [0..Len(events) -> Nat] /\ place \in [1..Len(events) -> 1..Len(chunks)]
        /\ \A a \in 1..Len(events) :
             /\ pos[a] = pos[a - 1] + (IF events[a].track = k THEN events[a].size ELSE 0)
             /\ pos[a] <= Len(file[k])
             /\ chunks[place[a]].track = events[a].track
             /\ chunks[place[a]].at = events[a].at /\ chunks[place[a]].size = events[a].size
             /\ events[a].track = k =>
                  \A i \in 1..events[a].size : file[k][pos[a - 1] + i] = <<place[a], i>>
    BY Zenon DEF Laid
  <2>3. pos[j] \in Nat /\ n \in 1..Len(chunks)
    BY <1>1, <1>2, <2>1, <2>2
  <2>4. /\ pos[j + 1] = pos[(j + 1) - 1] + (IF e.track = k THEN e.size ELSE 0)
        /\ pos[j + 1] <= Len(file[k])
        /\ chunks[n].track = e.track /\ chunks[n].at = e.at /\ chunks[n].size = e.size
        /\ e.track = k => \A i \in 1..e.size : file[k][pos[(j + 1) - 1] + i] = <<n, i>>
    BY ONLY <1>1, <1>2, <2>2, Zenon
  <2>5. QED BY ONLY <1>2, <2>3, <2>4, Zenon
<1>5. t = RenderEvent(k, s, e)
  BY <1>0, <1>1
<1>6. ASSUME e.track # k
      PROVE  /\ t.offset = pos[j + 1]
             /\ \A i \in Nat \ {0} : LatestOf(k, place, j + 1, i, SoundAt(t.output, i))
  <2>1. t = s
    BY <1>3, <1>5, <1>6, RenderStep
  <2>2. pos[j + 1] = pos[j]
    BY <1>4, <1>6
  <2>3. ASSUME NEW i \in Nat \ {0} PROVE LatestOf(k, place, j + 1, i, SoundAt(t.output, i))
    <3>1. PICK v : v = SoundAt(s.output, i)
      OBVIOUS
    <3>2. LatestOf(k, place, j, i, v)
      BY <1>a, <3>1
    <3>3. events[j + 1].track # k
      BY <1>1, <1>6
    <3>4. 1..j \subseteq 1..(j + 1) /\ \A a \in 1..(j + 1) : a # j + 1 => a \in 1..j
      OBVIOUS
    <3>5. \A a \in 1..(j + 1) : events[a].track = k => a \in 1..j
      BY <3>3, <3>4
    <3>6. LatestOf(k, place, j + 1, i, v)
      BY ONLY <3>2, <3>4, <3>5, Zenon DEF LatestOf
    <3>7. QED BY <2>1, <3>1, <3>6
  <2>4. QED BY <1>a, <2>1, <2>2, <2>3
<1>7. ASSUME e.track = k
      PROVE  /\ t.offset = pos[j + 1]
             /\ \A i \in Nat \ {0} : LatestOf(k, place, j + 1, i, SoundAt(t.output, i))
  <2>1. PICK p, o, start, m : /\ p = Rate[k] /\ o = OutRate /\ start = FrameOf(e.at, o)
                              /\ m = Many(e.size \div 2, p, o)
    OBVIOUS
  <2>2. s.offset + e.size <= Len(file[k]) /\ pos[j + 1] = pos[j] + e.size
    BY <1>a, <1>4, <1>7
  <2>3. /\ t.offset = s.offset + e.size /\ start \in Nat /\ m \in Nat
        /\ \A i \in Nat \ {0} :
             IF start < i /\ i <= start + m
             THEN LET placed == Smaller(e.size \div 2, ((i - start - 1) * p) \div o + 1)
                  IN /\ i \in 1..Len(t.output)
                     /\ placed \in 1..(e.size \div 2)
                     /\ t.output[i] = <<file[k][s.offset + (2 * placed - 1)],
                                        file[k][s.offset + 2 * placed]>>
             ELSE SoundAt(t.output, i) = SoundAt(s.output, i)
    <3>1. Placed(t, s, k, e, p, o, start, m)
      BY <1>3, <1>5, <1>7, <2>1, <2>2, RenderStep
    <3>2. QED BY ONLY <3>1, Zenon DEF Placed
  <2>4. n \in DOMAIN chunks /\ chunks[n].track = k
    BY <1>4, <1>7 DEF AudioTypes
  <2>5. First(n) = start /\ Frames(n) = m
    BY <1>4, <2>1, <2>4, ChunkPlace
  <2>6. e.size \in Nat
    BY <1>3 DEF AudioEvent
  <2>7. ASSUME NEW i \in Nat \ {0} PROVE LatestOf(k, place, j + 1, i, SoundAt(t.output, i))
    <3>1. CASE start < i /\ i <= start + m
      <4>1. Covers(n, i)
        BY <2>5, <3>1 DEF Covers
      <4>2. PICK y : y = Smaller(e.size \div 2, ((i - start - 1) * p) \div o + 1)
        OBVIOUS
      <4>3. /\ i \in 1..Len(t.output) /\ y \in 1..(e.size \div 2)
            /\ t.output[i] = <<file[k][s.offset + (2 * y - 1)], file[k][s.offset + 2 * y]>>
        BY <2>3, <3>1, <4>2
      <4>4. 2 * y - 1 \in 1..e.size /\ 2 * y \in 1..e.size
        BY <2>6, <4>3, SMTT(60)
      <4>5. PICK u, w : u = 2 * y - 1 /\ w = 2 * y
        OBVIOUS
      <4>6. t.output[i] = <<<<n, u>>, <<n, w>>>>
        <5>1. t.output[i] = <<file[k][pos[j] + u], file[k][pos[j] + w]>>
          BY ONLY <1>a, <4>3, <4>5, Zenon
        <5>2. u \in 1..e.size /\ w \in 1..e.size
          BY <4>4, <4>5
        <5>3. file[k][pos[j] + u] = <<n, u>> /\ file[k][pos[j] + w] = <<n, w>>
          BY ONLY <1>4, <1>7, <5>2, Zenon
        <5>4. QED BY ONLY <5>1, <5>3, Zenon
      <4>7. Sample(n, i) = <<<<n, u>>, <<n, w>>>>
        <5>1. y = Smaller(chunks[n].size \div 2,
                          ((i - First(n) - 1) * Rate[chunks[n].track]) \div OutRate + 1)
          BY ONLY <1>4, <2>1, <2>4, <2>5, <4>2, Zenon
        <5>2. QED BY ONLY <4>5, <5>1, Zenon DEF Sample
      <4>8. SoundAt(t.output, i) = Sample(n, i)
        BY <4>3, <4>6, <4>7 DEF SoundAt
      <4>9. j + 1 \in 1..(j + 1) /\ \A b \in 1..(j + 1) : ~(b > j + 1)
        OBVIOUS
      <4>10. events[j + 1].track = k /\ place[j + 1] = n
        BY <1>1, <1>7
      <4>11. QED BY ONLY <4>1, <4>8, <4>9, <4>10, Zenon DEF LatestOf
    <3>2. CASE ~(start < i /\ i <= start + m)
      <4>1. ~Covers(place[j + 1], i)
        BY <1>1, <2>5, <3>2 DEF Covers
      <4>2. PICK v : v = SoundAt(s.output, i)
        OBVIOUS
      <4>3. LatestOf(k, place, j, i, v) /\ SoundAt(t.output, i) = v
        BY <1>a, <2>3, <3>2, <4>2
      <4>4. 1..j \subseteq 1..(j + 1) /\ \A a \in 1..(j + 1) : a # j + 1 => a \in 1..j
        OBVIOUS
      <4>5. \A a \in 1..(j + 1) : Covers(place[a], i) => a \in 1..j
        BY <4>1, <4>4
      <4>6. LatestOf(k, place, j + 1, i, v)
        BY ONLY <4>3, <4>4, <4>5, Zenon DEF LatestOf
      <4>7. QED BY <4>3, <4>6
    <3>3. QED BY <3>1, <3>2
  <2>8. QED BY <1>a, <2>2, <2>3, <2>7
<1>8. t.offset = pos[j + 1]
  BY <1>6, <1>7
<1>9. \A i \in Nat \ {0} : LatestOf(k, place, j + 1, i, SoundAt(t.output, i))
  BY <1>6, <1>7
<1>10. PaintedTo(k, pos, place, j + 1, t)
  BY ONLY <1>8, <1>9, Zenon DEF PaintedTo
<1>11. QED BY ONLY <1>0, <1>10, Zenon

\* A track of which nothing was dropped is rendered as it was heard.
LEMMA RenderedAsHeard ==
  ASSUME AudioTypes, TrackInv, NEW k \in Used, NothingLost(k)
  PROVE  \A i \in Nat \ {0} : Latest(k, i, SoundAt(Render(k), i))
<1>1. PICK pos, place : Laid(file[k], events, chunks, k, pos, place)
  BY DEF TrackInv, Used
<1>2. PICK E, L, B : E = Len(events) /\ L = Len(chunks) /\ B = Len(file[k])
  OBVIOUS
<1>3. /\ E \in Nat /\ DOMAIN events = 1..E /\ events \in Seq(AudioEvent)
      /\ L \in Nat /\ DOMAIN chunks = 1..L
  BY <1>2 DEF AudioTypes
<1>4. /\ pos[0] = 0 /\ pos[E] = B
      /\ place \in [1..E -> 1..L]
      /\ \A j \in 1..E : chunks[place[j]].track = events[j].track
      /\ \A i, j \in 1..E : i < j => place[i] < place[j]
      /\ \A n \in 1..L : chunks[n].track = k => \E j \in 1..E : place[j] = n
  BY <1>1, <1>2, Zenon DEF Laid
<1>5. PICK f : /\ f[0] = Blank
               /\ \A i \in 1..E : f[i] = RenderEvent(k, f[i - 1], events[i])
               /\ \A i \in 0..E : f[i] \in Painting(k)
               /\ Painted(k, events) = f[E]
  BY <1>2, <1>3, RenderFold
<1> DEFINE D == {j \in Nat : j <= E => PaintedTo(k, pos, place, j, f[j])}
<1>6. 0 \in D
  <2>1. f[0].offset = pos[0] /\ f[0].output = <<>>
    BY <1>4, <1>5 DEF Blank
  <2>2. ASSUME NEW i \in Nat \ {0} PROVE LatestOf(k, place, 0, i, SoundAt(f[0].output, i))
    <3>1. SoundAt(f[0].output, i) = Silence
      BY <2>1 DEF SoundAt
    <3>2. \A a \in 1..0 : events[a].track = k => ~Covers(place[a], i)
      OBVIOUS
    <3>3. QED BY ONLY <3>1, <3>2, Zenon DEF LatestOf
  <2>3. PaintedTo(k, pos, place, 0, f[0])
    BY ONLY <2>1, <2>2, Zenon DEF PaintedTo
  <2>4. QED BY <2>3
<1>7. ASSUME NEW j \in D PROVE j + 1 \in D
  <2>1. SUFFICES ASSUME j + 1 <= E PROVE PaintedTo(k, pos, place, j + 1, f[j + 1])
    OBVIOUS
  <2>2. j \in Nat /\ j + 1 \in 1..E /\ (j + 1) - 1 = j /\ j \in 0..E /\ j + 1 <= Len(events)
        /\ PaintedTo(k, pos, place, j, f[j])
    BY <1>2, <1>3, <2>1
  <2>3. f[j + 1] = RenderEvent(k, f[(j + 1) - 1], events[j + 1])
    BY ONLY <1>5, <2>2, Zenon
  <2>4. f[j + 1] = RenderEvent(k, f[j], events[j + 1]) /\ f[j] \in Painting(k)
    BY ONLY <1>5, <2>2, <2>3, Zenon
  <2>5. PaintedTo(k, pos, place, j + 1, RenderEvent(k, f[j], events[j + 1]))
    BY <1>1, <2>2, <2>4, PaintingStep
  <2>6. QED BY ONLY <2>4, <2>5, Zenon
<1>8. PaintedTo(k, pos, place, E, f[E])
  <2>1. D \in SUBSET Nat
    OBVIOUS
  <2>2. E \in D
    <3> HIDE DEF D
    <3>1. QED BY <1>3, <1>6, <1>7, <2>1, Induction
  <2>3. QED BY <1>3, <2>2
<1>9. f[E].offset = B /\ \A i \in Nat \ {0} : LatestOf(k, place, E, i, SoundAt(f[E].output, i))
  BY <1>4, <1>8 DEF PaintedTo
<1> HIDE DEF D
<1>10. Render(k) = f[E].output
  <2>1. PICK n \in 1..L : chunks[n].track = k
    BY <1>3 DEF Used
  <2>2. PICK j \in 1..E : place[j] = n
    BY <1>4, <2>1
  <2>3. events[j].track = k
    BY <1>4, <2>1, <2>2
  <2>4. \E a \in DOMAIN events : events[a].track = k
    BY <1>3, <2>2, <2>3
  <2>5. Painted(k, events).offset = Len(file[k])
    BY <1>2, <1>5, <1>9
  <2>6. QED BY <1>5, <2>4, <2>5, Rendering
<1>11. ASSUME NEW i \in Nat \ {0}, NEW v, LatestOf(k, place, E, i, v) PROVE Latest(k, i, v)
  <2>1. CASE v = Silence /\ \A a \in 1..E : events[a].track = k => ~Covers(place[a], i)
    <3>1. ASSUME NEW n \in DOMAIN chunks, chunks[n].track = k PROVE ~Covers(n, i)
      <4>1. PICK a \in 1..E : place[a] = n
        BY <1>3, <1>4, <3>1
      <4>2. events[a].track = k
        BY <1>4, <3>1, <4>1
      <4>3. QED BY <2>1, <4>1, <4>2
    <3>2. QED BY <2>1, <3>1 DEF Latest
  <2>2. CASE \E a \in 1..E :
               /\ events[a].track = k /\ Covers(place[a], i) /\ v = Sample(place[a], i)
               /\ \A b \in 1..E : b > a /\ events[b].track = k => ~Covers(place[b], i)
    <3>1. PICK a \in 1..E :
            /\ events[a].track = k /\ Covers(place[a], i) /\ v = Sample(place[a], i)
            /\ \A b \in 1..E : b > a /\ events[b].track = k => ~Covers(place[b], i)
      BY <2>2
    <3>2. PICK n : n = place[a]
      OBVIOUS
    <3>3. n \in 1..L /\ chunks[n].track = k
      BY <1>4, <3>1, <3>2
    <3>4. ASSUME NEW m \in 1..L, m > n, chunks[m].track = k PROVE ~Covers(m, i)
      <4>1. PICK b \in 1..E : place[b] = m
        BY <1>4, <3>4
      <4>2. events[b].track = k
        BY <1>4, <3>4, <4>1
      <4>3. b > a
        <5>1. ~(b < a) /\ b # a
          <6>1. b < a => m < n
            BY <1>4, <3>2, <4>1
          <6>2. b = a => m = n
            BY <3>2, <4>1
          <6>3. QED BY <3>3, <3>4, <6>1, <6>2
        <5>2. QED BY <5>1
      <4>4. QED BY <3>1, <4>1, <4>2, <4>3
    <3>5. QED BY ONLY <1>3, <3>1, <3>2, <3>3, <3>4, Zenon DEF Latest
  <2>3. QED BY <1>11, <2>1, <2>2, Zenon DEF LatestOf
<1>12. QED BY <1>9, <1>10, <1>11

-------------------------------------------------------------------------------
(* AudioTrack: the recording *)

\* The same as Covers(), Sample() and Latest(), of a sequence of chunks at the rate o.
Begins(c, o) == FrameOf(c.at, o)

Spans(c, i, o) ==
  Begins(c, o) < i /\ i <= Begins(c, o) + Many(c.size \div 2, Rate[c.track], o)

Bit(n, c, i, o) ==
  LET place == Smaller(c.size \div 2, ((i - Begins(c, o) - 1) * Rate[c.track]) \div o + 1)
  IN <<<<n, 2 * place - 1>>, <<n, 2 * place>>>>

Sounds(heard, k, i, o, v) ==
  \/ v = Silence /\ \A n \in DOMAIN heard : heard[n].track = k => ~Spans(heard[n], i, o)
  \/ \E n \in DOMAIN heard :
       /\ heard[n].track = k /\ Spans(heard[n], i, o) /\ v = Bit(n, heard[n], i, o)
       /\ \A m \in DOMAIN heard : m > n /\ heard[m].track = k => ~Spans(heard[m], i, o)

RightRecording(heard, time, rec) ==
  \E o \in Nat, frames \in Nat :
    /\ \E k \in Tracks : (\E n \in DOMAIN heard : heard[n].track = k) /\ o = Rate[k]
    /\ \A j \in Tracks : (\E n \in DOMAIN heard : heard[n].track = j) => Rate[j] <= o
    /\ Round(time * o, 1000) <= frames
    /\ \A k \in Tracks : Len(rec[k]) = frames /\ DOMAIN rec[k] = 1..frames
    /\ \A k \in Tracks :
         /\ \E n \in DOMAIN heard : heard[n].track = k
         /\ \A n \in DOMAIN heard : heard[n].track = k => heard[n].audioKept /\ heard[n].eventKept
         => \A i \in 1..frames : Sounds(heard, k, i, o, rec[k][i])

LEMMA SameSounds ==
  ASSUME AudioTypes, NEW k, NEW i, NEW v, NEW o, o = OutRate
  PROVE  Latest(k, i, v) <=> Sounds(chunks, k, i, o, v)
<1>1. ASSUME NEW n \in DOMAIN chunks
      PROVE  (Covers(n, i) <=> Spans(chunks[n], i, o)) /\ Sample(n, i) = Bit(n, chunks[n], i, o)
  <2>1. First(n) = Begins(chunks[n], o)
    BY ChunkPlace DEF Begins
  <2>2. Frames(n) = Many(chunks[n].size \div 2, Rate[chunks[n].track], o)
    BY ChunkPlace
  <2>3. Covers(n, i) <=> Spans(chunks[n], i, o)
    BY ONLY <2>1, <2>2, Zenon DEF Covers, Spans
  <2>4. PICK x, y : x = First(n) /\ y = Begins(chunks[n], o)
    OBVIOUS
  <2>5. PICK place : place = Smaller(chunks[n].size \div 2, ((i - x - 1) * Rate[chunks[n].track]) \div o + 1)
    OBVIOUS
  <2>6. Sample(n, i) = <<<<n, 2 * place - 1>>, <<n, 2 * place>>>>
    BY ONLY <2>4, <2>5, o = OutRate, Zenon DEF Sample
  <2>7. Bit(n, chunks[n], i, o) = <<<<n, 2 * place - 1>>, <<n, 2 * place>>>>
    <3>1. x = y
      BY ONLY <2>1, <2>4, Zenon
    <3>2. QED BY ONLY <2>4, <2>5, <3>1, Zenon DEF Bit
  <2>8. QED BY <2>3, <2>6, <2>7
<1>2. QED BY ONLY <1>1, Zenon DEF Latest, Sounds

Drawn == [k \in Tracks |-> IF k \in Used THEN Render(k) ELSE <<>>]

LengthOf(rendered) ==
  Larger(FrameAt(now), Larger(Len(rendered["caller"]), Len(rendered["agent"])))

\* What compose_stereo() returns.
LEMMA Composing ==
  ASSUME AudioTypes, TrackInv, Compose
  PROVE  RightRecording(chunks, now, recording')
<1>1. PICK rendered : rendered = [k \in Tracks |-> IF k \in Used THEN Render(k) ELSE <<>>]
  OBVIOUS
<1>2. PICK o : o = OutRate
  OBVIOUS
<1>3. /\ o \in Nat \ {0} /\ \E k \in Used : o = Rate[k]
      /\ \A j \in Used : j \in Tracks /\ Rate[j] <= o
  BY <1>2, Rates DEF Compose
<1>4. \A k \in Tracks : rendered[k] \in Seq(Sound)
  <2>1. ASSUME NEW k \in Tracks PROVE rendered[k] \in Seq(Sound)
    <3>1. rendered[k] = IF k \in Used THEN Render(k) ELSE <<>>
      BY <1>1
    <3>2. k \in Used => Render(k) \in Seq(Sound)
      BY Rendering
    <3>3. <<>> \in Seq(Sound)
      OBVIOUS
    <3>4. QED BY ONLY <3>1, <3>2, <3>3, Zenon
  <2>2. QED BY <2>1
<1>5. PICK a, b : a = Len(rendered["caller"]) /\ b = Len(rendered["agent"])
  OBVIOUS
<1>6. a \in Nat /\ b \in Nat /\ Round(now * o, 1000) \in Nat
  <2>1. rendered["caller"] \in Seq(Sound) /\ rendered["agent"] \in Seq(Sound)
    BY <1>4, TrackTypes
  <2>2. now \in Nat
    BY DEF AudioTypes
  <2>3. now * o \in Nat
    BY <1>3, <2>2
  <2>4. Round(now * o, 1000) \in Nat
    BY <2>3, Rounding
  <2>5. QED BY <1>5, <2>1, <2>4, SMTT(60)
<1>7. PICK frames : frames = Larger(Round(now * o, 1000), Larger(a, b))
  OBVIOUS
<1>8. frames \in Nat /\ Round(now * o, 1000) <= frames /\ a <= frames /\ b <= frames
  BY <1>6, <1>7 DEF Larger
<1>9. recording' = [k \in Tracks |-> Fit(rendered[k], frames)]
  <2>1. recording' = [k \in Tracks |-> Fit(Drawn[k], LengthOf(Drawn))]
    BY Zenon DEF Compose, Drawn, LengthOf
  <2>2. Drawn = rendered
    BY <1>1, ZenonT(60) DEF Drawn
  <2>3. LengthOf(Drawn) = frames
    <3>1. FrameAt(now) = Round(now * o, 1000)
      BY <1>2 DEF FrameAt
    <3>2. LengthOf(rendered) = Larger(FrameAt(now), Larger(a, b))
      BY ONLY <1>5, Zenon DEF LengthOf
    <3>3. LengthOf(rendered) = frames
      BY ONLY <1>7, <3>1, <3>2
    <3>4. QED BY ONLY <2>2, <3>3
  <2>4. PICK drawn, length : drawn = Drawn /\ length = LengthOf(Drawn)
    OBVIOUS
  <2>5. recording' = [k \in Tracks |-> Fit(drawn[k], length)]
    BY ONLY <2>1, <2>4
  <2>6. drawn = rendered /\ length = frames
    BY ONLY <2>2, <2>3, <2>4, Zenon
  <2>7. QED BY ONLY <2>5, <2>6
<1>10. PICK rec : rec = [k \in Tracks |-> Fit(rendered[k], frames)]
  OBVIOUS
<1>11. ASSUME NEW k \in Tracks
       PROVE  /\ Len(rec[k]) = frames /\ DOMAIN rec[k] = 1..frames
              /\ \A i \in 1..frames : rec[k][i] = SoundAt(rendered[k], i)
  <2>1. PICK s : s = rendered[k]
    OBVIOUS
  <2>2. s \in Seq(Sound) /\ Len(s) <= frames /\ Len(s) \in Nat
    BY <1>4, <1>5, <1>8, <2>1, TrackTypes
  <2>3. rec[k] = [i \in 1..frames |-> IF i <= Len(s) THEN s[i] ELSE Silence]
    BY <1>10, <2>1 DEF Fit
  <2>4. ASSUME NEW i \in 1..frames PROVE rec[k][i] = SoundAt(s, i)
    BY <1>8, <2>2, <2>3 DEF SoundAt
  <2>5. PICK r : r = rec[k]
    OBVIOUS
  <2>6. r = [i \in 1..frames |-> IF i <= Len(s) THEN s[i] ELSE Silence]
    BY <2>3, <2>5
  <2>7. \A i \in 1..frames : (IF i <= Len(s) THEN s[i] ELSE Silence) \in Sound
    <3>1. ASSUME NEW i \in 1..frames, i <= Len(s) PROVE s[i] \in Sound
      BY <1>8, <2>2, <3>1
    <3>2. QED BY <3>1 DEF Sound
  <2>8. r \in [1..frames -> Sound]
    BY <2>6, <2>7
  <2>9. r \in Seq(Sound)
    BY <1>8, <2>8, SeqDef
  <2>10. DOMAIN r = 1..frames
    BY <2>6
  <2>11. Len(r) = frames
    BY ONLY <1>8, <2>9, <2>10
  <2>12. QED BY ONLY <2>1, <2>4, <2>5, <2>10, <2>11, Zenon
<1>12. ASSUME NEW k \in Tracks, \E n \in DOMAIN chunks : chunks[n].track = k,
              \A n \in DOMAIN chunks : chunks[n].track = k =>
                chunks[n].audioKept /\ chunks[n].eventKept,
              NEW i \in 1..frames
       PROVE  Sounds(chunks, k, i, o, rec[k][i])
  <2>1. k \in Used /\ NothingLost(k)
    BY <1>12 DEF Used, NothingLost
  <2>2. rendered[k] = Render(k)
    BY <1>1, <2>1
  <2>3. i \in Nat \ {0}
    BY <1>8
  <2>4. rec[k][i] = SoundAt(Render(k), i)
    BY <1>11, <2>2
  <2>5. Latest(k, i, rec[k][i])
    BY <2>1, <2>3, <2>4, RenderedAsHeard
  <2>6. QED BY <1>2, <2>5, SameSounds
<1>13. /\ \E k \in Tracks : (\E n \in DOMAIN chunks : chunks[n].track = k) /\ o = Rate[k]
       /\ \A j \in Tracks : (\E n \in DOMAIN chunks : chunks[n].track = j) => Rate[j] <= o
  BY <1>3, ZenonT(60) DEF Used
<1>14. RightRecording(chunks, now, rec)
  <2>1. o \in Nat
    BY <1>3
  <2>2. QED BY ONLY <1>8, <1>11, <1>12, <1>13, <2>1, Zenon DEF RightRecording
<1>15. QED BY <1>9, <1>10, <1>14

TimelineInv == recording = <<>> \/ RightRecording(chunks, now, recording)

\* The words of the invariant mean what the property says.
LEMMA TimelineTells == AudioTypes /\ TimelineInv => TimelineKept
<1> SUFFICES ASSUME AudioTypes, RightRecording(chunks, now, recording) PROVE TimelineKept
  BY DEF TimelineInv, TimelineKept, Composed
<1>1. PICK o \in Nat, frames \in Nat :
        /\ \E k \in Tracks : (\E n \in DOMAIN chunks : chunks[n].track = k) /\ o = Rate[k]
        /\ \A j \in Tracks : (\E n \in DOMAIN chunks : chunks[n].track = j) => Rate[j] <= o
        /\ Round(now * o, 1000) <= frames
        /\ \A k \in Tracks : Len(recording[k]) = frames /\ DOMAIN recording[k] = 1..frames
        /\ \A k \in Tracks :
             /\ \E n \in DOMAIN chunks : chunks[n].track = k
             /\ \A n \in DOMAIN chunks : chunks[n].track = k =>
                  chunks[n].audioKept /\ chunks[n].eventKept
             => \A i \in 1..frames : Sounds(chunks, k, i, o, recording[k][i])
  BY Zenon DEF RightRecording
<1>2. o = OutRate
  <2>1. (\E k \in Used : o = Rate[k]) /\ \A j \in Used : Rate[j] <= o
    BY <1>1 DEF Used
  <2>2. Used # {}
    BY <2>1
  <2>3. PICK q : q = OutRate
    OBVIOUS
  <2>4. q \in Nat /\ (\E k \in Used : q = Rate[k]) /\ \A j \in Used : Rate[j] <= q
    BY <2>2, <2>3, Rates
  <2>5. o <= q /\ q <= o
    BY <2>1, <2>4
  <2>6. QED BY <1>1, <2>3, <2>4, <2>5
<1>3. ASSUME NEW k \in Used, NothingLost(k), NEW i \in DOMAIN recording[k]
      PROVE  recording[k][i] = IF Heard(k, i) = {} THEN Silence
                               ELSE Sample(CHOOSE n \in Heard(k, i) : \A m \in Heard(k, i) : m <= n, i)
  <2>1. k \in Tracks /\ i \in 1..frames
    BY <1>1, <1>3 DEF Used
  <2>2. PICK v : v = recording[k][i]
    OBVIOUS
  <2>3. Sounds(chunks, k, i, o, v)
    <3>1. \E n \in DOMAIN chunks : chunks[n].track = k
      BY DEF Used
    <3>2. \A n \in DOMAIN chunks : chunks[n].track = k =>
            chunks[n].audioKept /\ chunks[n].eventKept
      BY <1>3 DEF NothingLost
    <3>3. QED BY ONLY <1>1, <2>1, <2>2, <3>1, <3>2, Zenon
  <2>4. Latest(k, i, v)
    BY <1>2, <2>3, SameSounds
  <2>5. PICK H : H = Heard(k, i)
    OBVIOUS
  <2>6. H = {n \in DOMAIN chunks : chunks[n].track = k /\ Covers(n, i)}
    BY <2>5 DEF Heard
  <2>7. H \subseteq Nat
    BY <2>6 DEF AudioTypes
  <2>8. CASE v = Silence /\ \A n \in DOMAIN chunks : chunks[n].track = k => ~Covers(n, i)
    <3>1. H = {}
      BY <2>6, <2>8
    <3>2. QED BY <2>2, <2>5, <2>8, <3>1
  <2>9. CASE \E n \in DOMAIN chunks :
               /\ chunks[n].track = k /\ Covers(n, i) /\ v = Sample(n, i)
               /\ \A m \in DOMAIN chunks : m > n /\ chunks[m].track = k => ~Covers(m, i)
    <3>1. PICK n \in DOMAIN chunks :
            /\ chunks[n].track = k /\ Covers(n, i) /\ v = Sample(n, i)
            /\ \A m \in DOMAIN chunks : m > n /\ chunks[m].track = k => ~Covers(m, i)
      BY <2>9
    <3>2. n \in H /\ H # {}
      BY <2>6, <3>1
    <3>3. ASSUME NEW m \in H PROVE m <= n
      <4>1. m \in DOMAIN chunks /\ chunks[m].track = k /\ Covers(m, i)
        BY <2>6
      <4>2. ~(m > n)
        BY <3>1, <4>1
      <4>3. m \in Nat /\ n \in Nat
        BY <2>7, <3>2
      <4>4. QED BY <4>2, <4>3
    <3>4. PICK x : x = CHOOSE y \in Heard(k, i) : \A m \in Heard(k, i) : m <= y
      OBVIOUS
    <3>5. \E y \in Heard(k, i) : \A m \in Heard(k, i) : m <= y
      BY ONLY <2>5, <3>2, <3>3, Zenon
    <3>6. x \in Heard(k, i) /\ \A m \in Heard(k, i) : m <= x
      BY ONLY <3>4, <3>5, Zenon
    <3>7. x \in H /\ n <= x /\ x <= n
      BY ONLY <2>5, <3>2, <3>3, <3>6, Zenon
    <3>8. x \in Nat /\ n \in Nat
      BY <2>7, <3>2, <3>7
    <3>9. x = n
      BY ONLY <3>7, <3>8
    <3>10. recording[k][i] = Sample(x, i) /\ Heard(k, i) # {}
      BY ONLY <2>2, <2>5, <3>1, <3>2, <3>9, Zenon
    <3>11. QED BY ONLY <3>4, <3>10, Zenon
  <2>10. QED BY ONLY <2>4, <2>8, <2>9, Zenon DEF Latest
<1>4. \A k \in Used : NothingLost(k) => OnTheTimeline(k)
  BY <1>3, Zenon DEF OnTheTimeline
<1>5. \A k, j \in Tracks : Len(recording[k]) = Len(recording[j])
  BY <1>1, SMTT(60)
<1>6. \A k \in Tracks : Len(recording[k]) >= FrameAt(now)
  <2>1. Round(now * o, 1000) \in Nat
    <3>1. now * o \in Nat
      BY <1>1 DEF AudioTypes
    <3>2. QED BY <3>1, Rounding
  <2>2. FrameAt(now) = Round(now * o, 1000)
    BY <1>2 DEF FrameAt
  <2>3. QED BY <1>1, <2>1, <2>2
<1>7. QED BY ONLY <1>4, <1>5, <1>6, Zenon DEF TimelineKept

LEMMA Timeline == Spec => [](AudioTypes /\ TrackInv /\ TimelineInv)
<1>1. Init => AudioTypes /\ TrackInv /\ TimelineInv
  <2>1. Init => AudioTypes
    BY DEF Init, AudioTypes
  <2>2. QED BY <2>1, TrackBegun DEF Init, TimelineInv
<1>2. AudioTypes /\ TrackInv /\ TimelineInv /\ [Next]_vars => (AudioTypes /\ TrackInv /\ TimelineInv)'
  <2> SUFFICES ASSUME AudioTypes, TrackInv, TimelineInv, [Next]_vars
               PROVE  AudioTypes' /\ TrackInv' /\ TimelineInv'
    OBVIOUS
  <2>1. CASE Tick
    BY <2>1 DEF Tick, AudioTypes, TrackInv, NothingLost, TimelineInv
  <2>2. CASE Compose
    <3>1. UNCHANGED <<now, ends, file, events, chunks>>
      BY <2>2 DEF Compose
    <3>2. AudioTypes' /\ TrackInv'
      BY <3>1 DEF AudioTypes, TrackInv, NothingLost
    <3>3. RightRecording(chunks, now, recording')
      BY <2>2, Composing
    <3>4. RightRecording(chunks', now', recording')
      BY <3>1, <3>3
    <3>5. QED BY <3>2, <3>4 DEF TimelineInv
  <2>3. ASSUME NEW k \in Tracks, NEW size \in Sizes, NEW received \in Received,
               NEW audioKept \in BOOLEAN, NEW eventKept \in BOOLEAN,
               Record(k, size, received, audioKept, eventKept)
        PROVE  AudioTypes' /\ TrackInv' /\ TimelineInv'
    <3>1. recording' = <<>>
      BY <2>3 DEF Record
    <3>2. QED BY <2>3, <3>1, RecordTypes, RecordTracks DEF TimelineInv
  <2>4. CASE UNCHANGED vars
    BY <2>4 DEF vars, AudioTypes, TrackInv, NothingLost, TimelineInv
  <2>5. QED BY <2>1, <2>2, <2>3, <2>4 DEF Next
<1>3. QED BY <1>1, <1>2, PTL DEF Spec

\* The recording is aligned with the call: of a track of which nothing was dropped, each
\* frame holds what was recorded for that instant, whatever the sizes of the chunks, their
\* number, the bursts, the pauses and the rates of the two tracks; and both channels are
\* as long as the call.
THEOREM RecordingIsAligned == Spec => []TimelineKept
BY Timeline, TimelineTells, PTL

=============================================================================
