----------------------------- MODULE DataLemmas -----------------------------
(***************************************************************************)
(* Facts about data that the proofs about several components need:         *)
(* induction over the numbers, sums of reservations, sequences of rows     *)
(* that are cut into batches and put together again, what a filter keeps   *)
(* of a list, sums of lists, and the members of a set in their order.      *)
(***************************************************************************)
EXTENDS Integers, Sequences, Collections, FiniteSetTheorems, SequenceTheorems,
        WellFoundedInduction, TLAPS

(***************************************************************************)
(* Induction                                                               *)
(*                                                                         *)
(* The library's induction rules are about operators, which the provers do *)
(* not instantiate.  These are about sets: to show P(n) for all n, show    *)
(* it of the set of the n that have P(n).                                  *)
(***************************************************************************)

(* A set of numbers has a least one. *)
LEMMA LeastNumber ==
  ASSUME NEW T, T \subseteq Nat, T # {}
  PROVE  \E x \in T : \A y \in T : x <= y
<1> DEFINE R == {ss \in Nat \X Nat : ss[1] < ss[2]}
<1>1. IsWellFoundedOn(R, Nat)
  BY NatLessThanWellFounded DEF OpToRel
<1>2. PICK x \in T : \A y \in T : ~(<<y, x>> \in R)
  <2> HIDE DEF R
  <2> QED BY <1>1, WFMin
<1>3. \A y \in T : x <= y
  <2>1. \A y \in T : y < x => <<y, x>> \in R
    OBVIOUS
  <2> HIDE DEF R
  <2>2. \A y \in T : ~(y < x)
    BY <1>2, <2>1
  <2>3. \A y \in T : y \in Nat /\ x \in Nat
    OBVIOUS
  <2> QED BY <2>2, <2>3
<1> QED BY <1>3

(* A set that has 0, and the successor of each of its numbers, has all. *)
LEMMA Inductive ==
  ASSUME NEW P, 0 \in P, \A n \in Nat : n \in P => n + 1 \in P
  PROVE  Nat \subseteq P
<1>1. SUFFICES ASSUME Nat \ P # {} PROVE FALSE
  OBVIOUS
<1>2. PICK x \in Nat \ P : \A y \in Nat \ P : x <= y
  BY <1>1, LeastNumber
<1>3. x # 0 /\ x - 1 \in Nat
  BY <1>2
<1>4. x - 1 \in P
  BY <1>2, <1>3
<1> QED BY <1>3, <1>4, <1>2

-----------------------------------------------------------------------------
(***************************************************************************)
(* Sums of reservations                                                    *)
(*                                                                         *)
(* What consumers hold of a memory pool is counted in cells: consumer c,   *)
(* which holds n, has the cells <<c, 1>> to <<c, n>>.  The sum of all      *)
(* reservations is the number of cells, so the theorems on finite sets do  *)
(* what would otherwise take an induction over the consumers.              *)
(***************************************************************************)

(* The cells of c. *)
Row(c, n) == {c} \X (1..n)

(* The cells of the consumers K, of which f[c] says what c holds. *)
Cells(K, f) == UNION {Row(c, f[c]) : c \in K}

(* A consumer has as many cells as it holds. *)
LEMMA RowCounted ==
  ASSUME NEW c, NEW n \in Nat
  PROVE  IsFiniteSet(Row(c, n)) /\ Cardinality(Row(c, n)) = n
<1>1. IsFiniteSet(1..n) /\ Cardinality(1..n) = n
  <2>1. 1 \in Int /\ n \in Int
    OBVIOUS
  <2>2. Cardinality(1..n) = IF 1 > n THEN 0 ELSE n - 1 + 1
    BY <2>1, FS_Interval
  <2> QED BY <2>1, <2>2, FS_Interval
<1>2. IsFiniteSet({c}) /\ Cardinality({c}) = 1
  BY FS_Singleton
<1>3. IsFiniteSet({c} \X (1..n)) /\ Cardinality({c} \X (1..n)) = Cardinality({c}) * Cardinality(1..n)
  <2> DEFINE S == {c}
             T == 1..n
  <2>1. IsFiniteSet(S) /\ IsFiniteSet(T)
    BY <1>1, <1>2
  <2> HIDE DEF S, T
  <2>2. IsFiniteSet(S \X T) /\ Cardinality(S \X T) = Cardinality(S) * Cardinality(T)
    BY <2>1, FS_Product
  <2> QED BY <2>2 DEF S, T
<1> QED BY <1>1, <1>2, <1>3 DEF Row

(* No cell is held while nothing is reserved. *)
LEMMA CellsOfNothing ==
  ASSUME NEW K, NEW f, \A c \in K : f[c] = 0
  PROVE  Cells(K, f) = {}
<1>1. \A c \in K : Row(c, f[c]) = {}
  BY DEF Row
<1> QED BY <1>1 DEF Cells

(* Only the reservations of K count. *)
LEMMA CellsSame ==
  ASSUME NEW K, NEW f, NEW g, \A c \in K : g[c] = f[c]
  PROVE  Cells(K, g) = Cells(K, f)
BY DEF Cells

(* From f to g, the reservation of c is resized and no other of K is. *)
Resized(K, f, g, c) ==
  c \in K /\ f[c] \in Nat /\ g[c] \in Nat /\ \A d \in K \ {c} : g[d] = f[d]

(* The sum follows one consumer's reservation. *)
LEMMA CellsResized ==
  ASSUME NEW K, NEW f, NEW g, NEW c, Resized(K, f, g, c), IsFiniteSet(Cells(K, f))
  PROVE  /\ IsFiniteSet(Cells(K, g))
         /\ Cardinality(Cells(K, g)) = Cardinality(Cells(K, f)) - f[c] + g[c]
<1>0. c \in K /\ f[c] \in Nat /\ g[c] \in Nat /\ \A d \in K \ {c} : g[d] = f[d]
  BY DEF Resized
<1> DEFINE all == Cells(K, f)
           old == Row(c, f[c])
           new == Row(c, g[c])
           rest == all \ old
<1>1. /\ IsFiniteSet(old) /\ Cardinality(old) = f[c]
      /\ IsFiniteSet(new) /\ Cardinality(new) = g[c]
  BY <1>0, RowCounted
<1>2. old \subseteq all
  BY <1>0 DEF Cells
<1>3. rest \cap new = {} /\ rest \cup new = Cells(K, g)
  <2>1. \A p \in rest : p \notin new /\ p \in Cells(K, g)
    <3> SUFFICES ASSUME NEW d \in K, NEW p \in Row(d, f[d]), p \notin old
                 PROVE  p \notin new /\ p \in Cells(K, g)
      BY DEF Cells
    <3>1. d # c
      OBVIOUS
    <3>2. g[d] = f[d] /\ p \notin new
      BY <1>0, <3>1 DEF Row
    <3> QED BY <3>2 DEF Cells
  <2>2. \A p \in Cells(K, g) : p \in rest \/ p \in new
    <3> SUFFICES ASSUME NEW d \in K, NEW p \in Row(d, g[d]), p \notin new
                 PROVE  p \in rest
      BY DEF Cells
    <3>1. d # c
      OBVIOUS
    <3>2. p \in Row(d, f[d]) /\ p \notin old
      BY <1>0, <3>1 DEF Row
    <3> QED BY <3>2 DEF Cells
  <2>3. new \subseteq Cells(K, g)
    BY <1>0 DEF Cells
  <2> QED BY <2>1, <2>2, <2>3
<1> HIDE DEF old, new
<1>4. IsFiniteSet(rest) /\ Cardinality(rest) = Cardinality(all) - Cardinality(old)
  <2>1. all \cap old = old
    BY <1>2
  <2> QED BY <2>1, FS_Difference
<1> HIDE DEF rest, all
<1>5. /\ IsFiniteSet(rest \cup new)
      /\ Cardinality(rest \cup new) = Cardinality(rest) + Cardinality(new)
                                        - Cardinality(rest \cap new)
  BY <1>1, <1>4, FS_Union
<1>6. Cardinality(rest \cap new) = 0
  BY <1>3, FS_EmptySet
<1>7. Cardinality(all) \in Int /\ IsFiniteSet(all)
  BY FS_CardinalityType DEF all
<1>8. Cardinality(rest \cup new) = Cardinality(all) - f[c] + g[c]
  <2>1. Cardinality(rest) = Cardinality(all) - f[c] /\ Cardinality(rest) \in Int
    BY <1>0, <1>1, <1>4, <1>7
  <2> QED BY <1>0, <1>1, <1>5, <1>6, <2>1
<1> QED BY <1>3, <1>5, <1>8 DEF all

(* Each of the consumers L holds at most q, and no other one holds anything. *)
LEMMA CellsBounded ==
  ASSUME NEW K, NEW f, NEW L, IsFiniteSet(L), NEW q \in Nat,
         \A c \in K : f[c] \in Nat /\ (f[c] # 0 => c \in L /\ f[c] <= q)
  PROVE  Cardinality(Cells(K, f)) <= Cardinality(L) * q
<1>1. Cells(K, f) \subseteq L \X (1..q)
  <2> SUFFICES ASSUME NEW c \in K, NEW p \in Row(c, f[c]) PROVE p \in L \X (1..q)
    BY DEF Cells
  <2>1. p[2] \in 1..f[c] /\ p = <<c, p[2]>>
    BY DEF Row
  <2>2. c \in L /\ p[2] \in 1..q
    BY <2>1
  <2> QED BY <2>1, <2>2
<1>2. IsFiniteSet(1..q) /\ Cardinality(1..q) = q
  <2>1. 1 \in Int /\ q \in Int
    OBVIOUS
  <2>2. Cardinality(1..q) = IF 1 > q THEN 0 ELSE q - 1 + 1
    BY <2>1, FS_Interval
  <2> QED BY <2>1, <2>2, FS_Interval
<1>3. IsFiniteSet(L \X (1..q)) /\ Cardinality(L \X (1..q)) = Cardinality(L) * q
  BY <1>2, FS_Product
<1> QED BY <1>1, <1>3, FS_Subset

-----------------------------------------------------------------------------
(***************************************************************************)
(* FlattenSeq                                                              *)
(***************************************************************************)

(* f[i] is what the first i sequences of ss are together. *)
Longer(ss, f, i) == IF i = 1 THEN ss[i] ELSE f[i - 1] \o ss[i]
IsFlat(f, ss, n) == f = [i \in 1..n |-> Longer(ss, f, i)]

(* The recursion that defines FlattenSeq has a solution. *)
LEMMA FlatExists ==
  ASSUME NEW ss
  PROVE  \A n \in Nat : \E f : IsFlat(f, ss, n)
<1> DEFINE P == {n \in Nat : \E f : IsFlat(f, ss, n)}
<1>1. 0 \in P
  <2>1. IsFlat([i \in {} |-> 0], ss, 0)
    BY DEF IsFlat
  <2> QED BY <2>1
<1>2. ASSUME NEW n \in Nat, n \in P PROVE n + 1 \in P
  <2>1. PICK f : IsFlat(f, ss, n)
    BY <1>2
  <2> DEFINE g == [i \in 1..(n + 1) |-> Longer(ss, f, i)]
  <2>2. \A i \in 1..n : f[i] = g[i]
    BY <2>1 DEF IsFlat
  <2> HIDE DEF g
  <2>3. \A i \in 1..(n + 1) : Longer(ss, f, i) = Longer(ss, g, i)
    <3>1. TAKE i \in 1..(n + 1)
    <3>2. i # 1 => i - 1 \in 1..n
      OBVIOUS
    <3> QED BY <2>2, <3>2 DEF Longer
  <2>4. g = [i \in 1..(n + 1) |-> Longer(ss, f, i)]
    BY DEF g
  <2>5. g = [i \in 1..(n + 1) |-> Longer(ss, g, i)]
    BY <2>3, <2>4, Zenon
  <2>6. IsFlat(g, ss, n + 1)
    BY <2>5 DEF IsFlat
  <2> QED BY <2>6
<1>3. Nat \subseteq P
  <2> HIDE DEF P
  <2> QED BY <1>1, <1>2, Inductive
<1> QED BY <1>3

(* FlattenSeq is the last value of a solution. *)
LEMMA FlattenRule ==
  ASSUME NEW ss, Len(ss) \in Nat, Len(ss) # 0
  PROVE  \E f : IsFlat(f, ss, Len(ss)) /\ FlattenSeq(ss) = f[Len(ss)]
<1>1. \E f : IsFlat(f, ss, Len(ss))
  BY FlatExists
<1> DEFINE F == CHOOSE f : IsFlat(f, ss, Len(ss))
<1>2. IsFlat(F, ss, Len(ss))
  BY <1>1
<1>3. FlattenSeq(ss) = F[Len(ss)]
  BY Zenon DEF FlattenSeq, IsFlat, Longer
<1> QED BY <1>2, <1>3

-----------------------------------------------------------------------------
(***************************************************************************)
(* Queues                                                                  *)
(***************************************************************************)

(* What is taken from the front, and what is left. *)
LEMMA QueueHead ==
  ASSUME NEW S, NEW s \in Seq(S), s # <<>>
  PROVE  /\ Head(s) \in S /\ <<Head(s)>> \in Seq(S) /\ Len(<<Head(s)>>) = 1
         /\ Tail(s) \in Seq(S) /\ Len(s) = 1 + Len(Tail(s)) /\ Len(Tail(s)) \in Nat
OBVIOUS

(* One queue after another. *)
LEMMA QueueJoin ==
  ASSUME NEW S, NEW s \in Seq(S), NEW t \in Seq(S)
  PROVE  s \o t \in Seq(S) /\ Len(s \o t) = Len(s) + Len(t)
OBVIOUS

(* What is put at the end. *)
LEMMA QueueAppend ==
  ASSUME NEW S, NEW s \in Seq(S), NEW x \in S
  PROVE  Append(s, x) \in Seq(S) /\ Len(Append(s, x)) = Len(s) + 1
OBVIOUS

(* Removing the first is taking it. *)
LEMMA FirstRemoved ==
  ASSUME NEW S, NEW s \in Seq(S), s # <<>>
  PROVE  RemoveAt(s, 1) = Tail(s) /\ Head(s) = s[1]
<1>1. SubSeq(s, 1, 1 - 1) = <<>> /\ SubSeq(s, 1 + 1, Len(s)) = Tail(s)
  OBVIOUS
<1> DEFINE t == Tail(s)
<1>2. t \in Seq(S)
  OBVIOUS
<1> HIDE DEF t
<1>3. <<>> \o t = t
  BY <1>2
<1> QED BY <1>1, <1>3 DEF RemoveAt, t

-----------------------------------------------------------------------------
(***************************************************************************)
(* Rows in order                                                           *)
(***************************************************************************)

(* The rows from m + 1 to n of a stream. *)
Span(m, n) == [i \in 1..(n - m) |-> m + i]

(* A span is a sequence of numbers. *)
LEMMA SpanType ==
  ASSUME NEW m \in Nat, NEW n \in Nat, m <= n
  PROVE  Span(m, n) \in Seq(Nat) /\ Len(Span(m, n)) = n - m
BY DEF Span

(* Nothing is between n and n. *)
LEMMA SpanOfNothing ==
  ASSUME NEW n \in Nat
  PROVE  Span(n, n) = <<>>
BY DEF Span

(* A sequence is a span when its elements are. *)
LEMMA SpanIs ==
  ASSUME NEW S, NEW s \in Seq(S), NEW m \in Nat, NEW n \in Nat, m <= n,
         Len(s) = n - m, \A i \in 1..(n - m) : s[i] = m + i
  PROVE  s = Span(m, n)
<1>1. s = [i \in 1..Len(s) |-> s[i]]
  OBVIOUS
<1> QED BY <1>1 DEF Span

(* A span and the next one are a span. *)
LEMMA SpanJoin ==
  ASSUME NEW a \in Nat, NEW b \in Nat, NEW c \in Nat, a <= b, b <= c
  PROVE  Span(a, b) \o Span(b, c) = Span(a, c)
<1>1. /\ Span(a, b) \in Seq(Nat) /\ Len(Span(a, b)) = b - a
      /\ Span(b, c) \in Seq(Nat) /\ Len(Span(b, c)) = c - b
      /\ \A i \in 1..(b - a) : Span(a, b)[i] = a + i
      /\ \A i \in 1..(c - b) : Span(b, c)[i] = b + i
  BY SpanType DEF Span
<1> DEFINE s == Span(a, b)
           t == Span(b, c)
           u == s \o t
<1>0. /\ s \in Seq(Nat) /\ Len(s) = b - a /\ \A i \in 1..(b - a) : s[i] = a + i
      /\ t \in Seq(Nat) /\ Len(t) = c - b /\ \A i \in 1..(c - b) : t[i] = b + i
  BY <1>1
<1> HIDE DEF s, t
<1>2. u \in Seq(Nat) /\ Len(u) = c - a
  <2>1. s \in Seq(Nat) /\ Len(s) = b - a /\ t \in Seq(Nat) /\ Len(t) = c - b
    BY <1>0
  <2> QED BY <2>1
<1> HIDE DEF u
<1>3. \A i \in 1..(c - a) : u[i] = a + i
  <2>1. TAKE i \in 1..(c - a)
  <2>2. CASE i <= b - a
    BY <1>0, <2>2 DEF u
  <2>3. CASE i > b - a
    <3>1. u[i] = t[i - (b - a)]
      <4>1. s \in Seq(Nat) /\ t \in Seq(Nat) /\ Len(s) = b - a /\ Len(t) = c - b
        BY <1>0
      <4>2. i \in 1..(Len(s) + Len(t)) /\ i > Len(s)
        BY <2>3, <4>1
      <4>3. (s \o t)[i] = t[i - Len(s)]
        BY <4>1, <4>2
      <4> QED BY <4>1, <4>3 DEF u
    <3>2. i - (b - a) \in 1..(c - b)
      BY <2>3
    <3> QED BY <1>0, <3>1, <3>2
  <2> QED BY <2>2, <2>3
<1>4. u = Span(a, c)
  BY <1>2, <1>3, SpanIs
<1> QED BY <1>4 DEF s, t, u

(* The rows from c + 1 to d are the elements i to j of the rows from a + 1 to b. *)
Within(a, b, c, d, i, j) ==
  /\ a \in Nat /\ b \in Nat /\ c \in Nat /\ d \in Nat /\ i \in Nat \ {0} /\ j \in Nat
  /\ a <= c /\ c <= d /\ d <= b /\ c + 1 = a + i /\ d = a + j

(* A part of a span is a span. *)
LEMMA SpanCut ==
  ASSUME NEW a, NEW b, NEW c, NEW d, NEW i, NEW j, Within(a, b, c, d, i, j)
  PROVE  SubSeq(Span(a, b), i, j) = Span(c, d)
<1>0. /\ a \in Nat /\ b \in Nat /\ c \in Nat /\ d \in Nat /\ i \in Nat \ {0} /\ j \in Nat
      /\ a <= c /\ c <= d /\ d <= b /\ c + 1 = a + i /\ d = a + j /\ a <= b
  BY DEF Within
<1> DEFINE s == Span(a, b)
<1>1. /\ s \in Seq(Nat) /\ Len(s) = b - a /\ \A k \in 1..(b - a) : s[k] = a + k
  BY <1>0, SpanType DEF Span
<1> HIDE DEF s
<1>2. SubSeq(s, i, j) = [k \in 1..(j - i + 1) |-> s[k + i - 1]]
  BY <1>0, <1>1
<1>3. \A k \in 1..(j - i + 1) : s[k + i - 1] = c + k
  <2>1. TAKE k \in 1..(j - i + 1)
  <2>2. k + i - 1 \in 1..(b - a) /\ a + (k + i - 1) = c + k
    BY <1>0
  <2> QED BY <1>1, <2>2
<1>4. Span(c, d) = [k \in 1..(j - i + 1) |-> c + k]
  <2>1. d - c = j - i + 1
    BY <1>0
  <2> QED BY <2>1 DEF Span
<1> QED BY <1>2, <1>3, <1>4 DEF s

(* What has been read of a stream is a prefix of what will be. *)
LEMMA SpanPrefix ==
  ASSUME NEW m \in Nat, NEW n \in Nat, m <= n
  PROVE  IsPrefix(Span(0, m), Span(0, n))
<1> DEFINE s == Span(0, m)
           t == Span(0, n)
<1>1. s \in Seq(Nat) /\ Len(s) = m /\ t \in Seq(Nat) /\ Len(t) = n
  <2>1. 0 <= m /\ 0 <= n
    OBVIOUS
  <2>2. Span(0, m) \in Seq(Nat) /\ Len(Span(0, m)) = m - 0
    BY <2>1, SpanType
  <2>3. Span(0, n) \in Seq(Nat) /\ Len(Span(0, n)) = n - 0
    BY <2>1, SpanType
  <2> QED BY <2>2, <2>3
<1>2. \A i \in 1..m : s[i] = i /\ t[i] = i
  BY DEF Span
<1> HIDE DEF s, t
<1>3. SubSeq(s, 1, m) = [i \in 1..m |-> s[i]] /\ SubSeq(t, 1, m) = [i \in 1..m |-> t[i]]
  BY <1>1
<1>4. SubSeq(s, 1, m) = SubSeq(t, 1, m)
  BY <1>2, <1>3
<1>5. IsPrefix(s, t)
  BY <1>1, <1>4 DEF IsPrefix
<1> QED BY <1>5 DEF s, t

-----------------------------------------------------------------------------
(* A queue of batches holds the rows from m + 1 to n: e[i] is the last row of
   its i-th batch. *)
Chain(bs, m, n) ==
  \E e \in [0..Len(bs) -> Nat] :
    /\ e[0] = m /\ e[Len(bs)] = n
    /\ \A i \in 1..Len(bs) : e[i - 1] < e[i] /\ e[i] <= n /\ bs[i] = Span(e[i - 1], e[i])

(* An empty queue holds nothing. *)
LEMMA ChainOfNothing ==
  ASSUME NEW m \in Nat
  PROVE  Chain(<<>>, m, m)
<1> DEFINE e == [i \in 0..Len(<<>>) |-> m]
<1>1. e \in [0..Len(<<>>) -> Nat] /\ e[0] = m /\ e[Len(<<>>)] = m
  OBVIOUS
<1>2. \A i \in 1..Len(<<>>) : FALSE
  OBVIOUS
<1> QED BY <1>1, <1>2 DEF Chain

(* Nothing is in no batch. *)
LEMMA ChainEmpty ==
  ASSUME NEW m \in Nat, NEW n \in Nat, Chain(<<>>, m, n)
  PROVE  m = n
BY DEF Chain

(* The rows of a queue are in the stream. *)
LEMMA ChainOrder ==
  ASSUME NEW bs \in Seq(Seq(Nat)), NEW m \in Nat, NEW n \in Nat, Chain(bs, m, n)
  PROVE  m <= n
<1>1. CASE bs = <<>>
  BY <1>1, ChainEmpty
<1>2. CASE bs # <<>>
  <2>1. PICK e \in [0..Len(bs) -> Nat] :
          e[0] = m /\ \A i \in 1..Len(bs) : e[i - 1] < e[i] /\ e[i] <= n
    BY DEF Chain
  <2>2. 0 \in 0..Len(bs) /\ 1 \in 0..Len(bs) /\ 1 \in 1..Len(bs) /\ 1 - 1 = 0
    BY <1>2
  <2>3. e[1 - 1] < e[1] /\ e[1] <= n /\ e[0] \in Nat /\ e[1] \in Nat
    BY <2>1, <2>2
  <2> QED BY <2>1, <2>2, <2>3
<1> QED BY <1>1, <1>2

(* A batch is put at the end. *)
LEMMA ChainAppend ==
  ASSUME NEW bs \in Seq(Seq(Nat)), NEW m \in Nat, NEW n \in Nat, NEW k \in Nat \ {0},
         Chain(bs, m, n)
  PROVE  Chain(Append(bs, Span(n, n + k)), m, n + k)
<1>1. PICK e \in [0..Len(bs) -> Nat] :
        /\ e[0] = m /\ e[Len(bs)] = n
        /\ \A i \in 1..Len(bs) : e[i - 1] < e[i] /\ e[i] <= n /\ bs[i] = Span(e[i - 1], e[i])
  BY DEF Chain
<1> DEFINE l == Len(bs)
           x == Span(n, n + k)
           cs == Append(bs, x)
           f == [i \in 0..(l + 1) |-> IF i <= l THEN e[i] ELSE n + k]
<1>2. x \in Seq(Nat)
  BY SpanType
<1> HIDE DEF x
<1>0. /\ e \in [0..l -> Nat] /\ e[0] = m /\ e[l] = n
      /\ \A i \in 1..l : e[i - 1] < e[i] /\ e[i] <= n /\ bs[i] = Span(e[i - 1], e[i])
  BY <1>1
<1>3. l \in Nat /\ Len(cs) = l + 1 /\ cs[l + 1] = x /\ \A i \in 1..l : cs[i] = bs[i]
  BY <1>2
<1> HIDE DEF l, cs
<1>4. f \in [0..Len(cs) -> Nat]
  BY <1>0, <1>3
<1>5. f[0] = m /\ f[Len(cs)] = n + k
  BY <1>0, <1>3
<1>6. \A i \in 1..Len(cs) : f[i - 1] < f[i] /\ f[i] <= n + k /\ cs[i] = Span(f[i - 1], f[i])
  <2>1. TAKE i \in 1..Len(cs)
  <2>2. CASE i <= l
    <3>0. i \in 1..l /\ i - 1 \in 0..l /\ i \in 0..(l + 1) /\ i - 1 \in 0..(l + 1)
      BY <1>3, <2>2
    <3>1. f[i] = e[i] /\ f[i - 1] = e[i - 1] /\ i \in 1..l /\ e[i] \in Nat
      BY <1>0, <1>3, <3>0
    <3>2. e[i - 1] < e[i] /\ e[i] <= n /\ cs[i] = Span(e[i - 1], e[i])
      BY <1>0, <1>3, <3>1
    <3> QED BY <3>1, <3>2
  <2>3. CASE i = l + 1
    <3>1. f[i] = n + k /\ f[i - 1] = n
      BY <1>0, <1>3, <2>3
    <3> QED BY <1>3, <2>3, <3>1 DEF x
  <2> QED BY <1>3, <2>2, <2>3
<1> HIDE DEF f
<1>7. Chain(cs, m, n + k)
  BY <1>4, <1>5, <1>6 DEF Chain
<1> QED BY <1>7 DEF cs, x

(* The first batch is taken from the front. *)
LEMMA ChainHead ==
  ASSUME NEW bs \in Seq(Seq(Nat)), bs # <<>>, NEW m \in Nat, NEW n \in Nat, Chain(bs, m, n)
  PROVE  /\ Len(Head(bs)) \in Nat \ {0}
         /\ Head(bs) = Span(m, m + Len(Head(bs)))
         /\ m + Len(Head(bs)) <= n
         /\ Chain(Tail(bs), m + Len(Head(bs)), n)
<1>1. PICK e \in [0..Len(bs) -> Nat] :
        /\ e[0] = m /\ e[Len(bs)] = n
        /\ \A i \in 1..Len(bs) : e[i - 1] < e[i] /\ e[i] <= n /\ bs[i] = Span(e[i - 1], e[i])
  BY DEF Chain
<1> DEFINE l == Len(bs)
           cs == Tail(bs)
           f == [i \in 0..(l - 1) |-> e[i + 1]]
<1>2. /\ l \in Nat \ {0} /\ Len(cs) = l - 1 /\ Head(bs) = bs[1]
      /\ \A i \in 1..(l - 1) : cs[i] = bs[i + 1]
  OBVIOUS
<1>0. /\ e \in [0..l -> Nat] /\ e[0] = m /\ e[l] = n
      /\ \A i \in 1..l : e[i - 1] < e[i] /\ e[i] <= n /\ bs[i] = Span(e[i - 1], e[i])
  BY <1>1
<1> HIDE DEF l, cs
<1>3. e[0] \in Nat /\ e[1] \in Nat /\ e[0] < e[1] /\ e[1] <= n /\ bs[1] = Span(e[0], e[1])
  <2>1. 0 \in 0..l /\ 1 \in 0..l /\ 1 \in 1..l /\ 1 - 1 = 0
    BY <1>2
  <2> QED BY <1>0, <2>1
<1>4. Len(bs[1]) = e[1] - m
  <2>1. Len(Span(e[0], e[1])) = e[1] - e[0]
    <3>1. e[0] <= e[1]
      BY <1>3
    <3> QED BY <1>3, <3>1, SpanType
  <2> QED BY <1>0, <1>3, <2>1
<1>5. m + Len(Head(bs)) = e[1]
  <2>1. m + Len(bs[1]) = e[1]
    BY <1>3, <1>4
  <2> QED BY <1>2, <2>1, Zenon
<1>6. f \in [0..Len(cs) -> Nat] /\ f[0] = e[1] /\ f[Len(cs)] = n
  BY <1>0, <1>2
<1>7. \A i \in 1..Len(cs) : f[i - 1] < f[i] /\ f[i] <= n /\ cs[i] = Span(f[i - 1], f[i])
  <2>1. TAKE i \in 1..Len(cs)
  <2>2. f[i] = e[i + 1] /\ f[i - 1] = e[i] /\ i + 1 \in 1..l /\ i + 1 - 1 = i /\ cs[i] = bs[i + 1]
    BY <1>2
  <2>3. e[i + 1 - 1] < e[i + 1] /\ e[i + 1] <= n /\ bs[i + 1] = Span(e[i + 1 - 1], e[i + 1])
    BY <1>0, <2>2
  <2> QED BY <2>2, <2>3
<1> HIDE DEF f
<1>8. Chain(cs, e[1], n)
  BY <1>6, <1>7 DEF Chain
<1>9. Len(Head(bs)) \in Nat \ {0} /\ Head(bs) = Span(m, e[1])
  BY <1>0, <1>2, <1>3, <1>4
<1> QED BY <1>3, <1>5, <1>8, <1>9 DEF cs

(* A buffer, what is left of a batch, and a queue of batches go on from row m
   to row n. *)
Following(m, buffer, rest, bs, n) ==
  \E b \in Nat, r \in Nat :
    /\ m <= b /\ b <= r /\ buffer = Span(m, b) /\ rest = Span(b, r)
    /\ Chain(bs, r, n)

(* Its parts. *)
LEMMA FollowingParts ==
  ASSUME NEW m \in Nat, NEW n \in Nat, NEW buffer, NEW rest, NEW bs \in Seq(Seq(Nat)),
         Following(m, buffer, rest, bs, n)
  PROVE  /\ buffer \in Seq(Nat) /\ rest \in Seq(Nat)
         /\ Len(buffer) \in Nat /\ Len(rest) \in Nat
         /\ buffer = Span(m, m + Len(buffer))
         /\ rest = Span(m + Len(buffer), m + Len(buffer) + Len(rest))
         /\ Chain(bs, m + Len(buffer) + Len(rest), n)
         /\ m + Len(buffer) + Len(rest) <= n
<1>1. PICK b \in Nat, r \in Nat :
        /\ m <= b /\ b <= r /\ buffer = Span(m, b) /\ rest = Span(b, r)
        /\ Chain(bs, r, n)
  BY DEF Following
<1>2. buffer \in Seq(Nat) /\ Len(buffer) = b - m
  BY <1>1, SpanType
<1>3. rest \in Seq(Nat) /\ Len(rest) = r - b
  BY <1>1, SpanType
<1>4. r <= n
  BY <1>1, ChainOrder
<1>5. m + Len(buffer) = b /\ m + Len(buffer) + Len(rest) = r
  BY <1>2, <1>3
<1>6. Len(buffer) \in Nat /\ Len(rest) \in Nat
  BY <1>2, <1>3
<1> QED BY <1>1, <1>2, <1>3, <1>4, <1>5, <1>6

(* And the whole of them. *)
LEMMA FollowingWhole ==
  ASSUME NEW m \in Nat, NEW b \in Nat, NEW r \in Nat, NEW n, NEW bs, m <= b, b <= r,
         Chain(bs, r, n)
  PROVE  Following(m, Span(m, b), Span(b, r), bs, n)
BY DEF Following

(* Nothing is left when all is empty. *)
LEMMA FollowingEnd ==
  ASSUME NEW m \in Nat, NEW n \in Nat, NEW buffer, Following(m, buffer, <<>>, <<>>, n)
  PROVE  n = m + Len(buffer)
<1> DEFINE bs == <<>>
<1>0. bs \in Seq(Seq(Nat)) /\ Len(bs) = 0
  OBVIOUS
<1>1. Following(m, buffer, bs, bs, n)
  OBVIOUS
<1> HIDE DEF bs
<1>2. Len(buffer) \in Nat /\ Chain(bs, m + Len(buffer) + Len(bs), n)
  BY <1>0, <1>1, FollowingParts
<1>3. m + Len(buffer) + Len(bs) = m + Len(buffer)
  BY <1>0, <1>2
<1>4. Chain(<<>>, m + Len(buffer), n)
  BY <1>2, <1>3 DEF bs
<1>5. m + Len(buffer) \in Nat
  BY <1>2
<1> DEFINE k == m + Len(buffer)
<1> HIDE DEF k
<1>6. k \in Nat /\ Chain(<<>>, k, n)
  BY <1>4, <1>5 DEF k
<1>7. k = n
  BY <1>6, ChainEmpty
<1> QED BY <1>7 DEF k

(* A batch is put into the queue. *)
LEMMA FollowingAppend ==
  ASSUME NEW m \in Nat, NEW n \in Nat, NEW k \in Nat \ {0}, NEW buffer, NEW rest,
         NEW bs \in Seq(Seq(Nat)), Following(m, buffer, rest, bs, n)
  PROVE  Following(m, buffer, rest, Append(bs, Span(n, n + k)), n + k)
BY ChainAppend DEF Following

(* A batch is taken from the queue. *)
LEMMA FollowingTake ==
  ASSUME NEW m \in Nat, NEW n \in Nat, NEW buffer, NEW bs \in Seq(Seq(Nat)), bs # <<>>,
         Following(m, buffer, <<>>, bs, n)
  PROVE  Following(m, buffer, Head(bs), Tail(bs), n)
<1>1. PICK b \in Nat, r \in Nat :
        /\ m <= b /\ b <= r /\ buffer = Span(m, b) /\ <<>> = Span(b, r)
        /\ Chain(bs, r, n)
  BY DEF Following
<1>2. r = b
  <2>1. Len(Span(b, r)) = r - b
    BY <1>1, SpanType
  <2>2. Len(<<>>) = 0
    OBVIOUS
  <2> QED BY <1>1, <2>1, <2>2
<1> DEFINE l == Len(Head(bs))
<1>3. l \in Nat /\ Head(bs) = Span(b, b + l) /\ Chain(Tail(bs), b + l, n)
  BY <1>1, <1>2, ChainHead
<1> HIDE DEF l
<1>4. b <= b + l /\ b + l \in Nat
  BY <1>3
<1> QED BY <1>1, <1>3, <1>4, FollowingWhole

(* The first k rows of what is left are put into the buffer. *)
LEMMA FollowingFill ==
  ASSUME NEW m \in Nat, NEW n \in Nat, NEW buffer, NEW rest, NEW bs \in Seq(Seq(Nat)),
         Following(m, buffer, rest, bs, n), NEW k \in Nat, k <= Len(rest)
  PROVE  /\ Following(m, buffer \o SubSeq(rest, 1, k), SubSeq(rest, k + 1, Len(rest)), bs, n)
         /\ Len(buffer \o SubSeq(rest, 1, k)) = Len(buffer) + k
         /\ Len(SubSeq(rest, k + 1, Len(rest))) = Len(rest) - k
<1>1. PICK b \in Nat, r \in Nat :
        /\ m <= b /\ b <= r /\ buffer = Span(m, b) /\ rest = Span(b, r)
        /\ Chain(bs, r, n)
  BY DEF Following
<1>2. Len(buffer) = b - m /\ Len(rest) = r - b
  BY <1>1, SpanType
<1> DEFINE c == b + k
<1>3. c \in Nat /\ b <= c /\ c <= r /\ m <= c
  BY <1>1, <1>2
<1>4. SubSeq(rest, 1, k) = Span(b, c)
  <2> DEFINE i == 1
  <2>1. Within(b, r, b, c, i, k)
    BY <1>1, <1>2 DEF Within
  <2> HIDE DEF i
  <2>2. SubSeq(Span(b, r), i, k) = Span(b, c)
    BY <2>1, SpanCut
  <2> QED BY <1>1, <2>2 DEF i
<1>5. SubSeq(rest, k + 1, Len(rest)) = Span(c, r)
  <2>1. Within(b, r, c, r, k + 1, Len(rest))
    BY <1>1, <1>2 DEF Within
  <2>2. SubSeq(Span(b, r), k + 1, Len(rest)) = Span(c, r)
    BY <2>1, SpanCut
  <2> QED BY <1>1, <2>2
<1> HIDE DEF c
<1>6. Span(m, b) \o Span(b, c) = Span(m, c)
  BY <1>1, <1>3, SpanJoin
<1>7. Following(m, Span(m, c), Span(c, r), bs, n)
  BY <1>1, <1>3, FollowingWhole
<1>8. Len(Span(m, c)) = c - m /\ Len(Span(c, r)) = r - c
  BY <1>3, SpanType
<1>9. c - m = Len(buffer) + k /\ r - c = Len(rest) - k
  BY <1>1, <1>2 DEF c
<1> QED BY <1>1, <1>4, <1>5, <1>6, <1>7, <1>8, <1>9

(* The next batch is put into the buffer. *)
LEMMA FollowingPush ==
  ASSUME NEW m \in Nat, NEW n \in Nat, NEW buffer \in Seq(Nat), NEW bs \in Seq(Seq(Nat)),
         bs # <<>>, Following(m, buffer, <<>>, bs, n)
  PROVE  Following(m, buffer \o Head(bs), <<>>, Tail(bs), n)
<1> DEFINE h == Head(bs)
           t == Tail(bs)
           l == Len(h)
<1>1. h \in Seq(Nat) /\ t \in Seq(Seq(Nat)) /\ l \in Nat
  BY QueueHead
<1>2. Following(m, buffer, h, t, n)
  BY FollowingTake
<1> HIDE DEF h, t
<1>3. SubSeq(h, 1, l) = h /\ SubSeq(h, l + 1, Len(h)) = <<>>
  BY <1>1
<1>4. l <= Len(h)
  BY <1>1
<1> HIDE DEF l
<1>5. Following(m, buffer \o SubSeq(h, 1, l), SubSeq(h, l + 1, Len(h)), t, n)
  BY <1>1, <1>2, <1>4, FollowingFill
<1>6. Following(m, buffer \o h, <<>>, t, n)
  BY <1>3, <1>5
<1> QED BY <1>6 DEF h, t

(* The first k rows of the buffer are passed on. *)
LEMMA FollowingDrop ==
  ASSUME NEW m \in Nat, NEW n \in Nat, NEW buffer, NEW bs \in Seq(Seq(Nat)),
         Following(m, buffer, <<>>, bs, n), NEW k \in Nat, k <= Len(buffer)
  PROVE  Following(m + k, SubSeq(buffer, k + 1, Len(buffer)), <<>>, bs, n)
<1>1. PICK b \in Nat, r \in Nat :
        /\ m <= b /\ b <= r /\ buffer = Span(m, b) /\ <<>> = Span(b, r)
        /\ Chain(bs, r, n)
  BY DEF Following
<1>2. Len(buffer) = b - m
  BY <1>1, SpanType
<1> DEFINE c == m + k
<1>3. c \in Nat /\ c <= b
  BY <1>1, <1>2
<1>4. Within(m, b, c, b, k + 1, Len(buffer))
  BY <1>1, <1>2 DEF Within
<1>5. SubSeq(buffer, k + 1, Len(buffer)) = Span(c, b)
  <2> DEFINE i == k + 1
             j == Len(buffer)
  <2>1. Within(m, b, c, b, i, j)
    BY <1>4
  <2> HIDE DEF c, i, j
  <2>2. SubSeq(Span(m, b), i, j) = Span(c, b)
    BY <2>1, SpanCut
  <2> QED BY <1>1, <2>2 DEF i, j
<1> HIDE DEF c
<1>6. Following(c, Span(c, b), Span(b, r), bs, n)
  BY <1>1, <1>3, FollowingWhole
<1> QED BY <1>1, <1>5, <1>6 DEF c

(* The buffer is passed on. *)
LEMMA FollowingCut ==
  ASSUME NEW m \in Nat, NEW n \in Nat, NEW buffer, NEW rest, NEW bs \in Seq(Seq(Nat)),
         Following(m, buffer, rest, bs, n)
  PROVE  Following(m + Len(buffer), <<>>, rest, bs, n)
<1>1. PICK b \in Nat, r \in Nat :
        /\ m <= b /\ b <= r /\ buffer = Span(m, b) /\ rest = Span(b, r)
        /\ Chain(bs, r, n)
  BY DEF Following
<1>2. m + Len(buffer) = b
  <2>1. Len(buffer) = b - m
    BY <1>1, SpanType
  <2> QED BY <2>1
<1>3. Following(b, Span(b, b), Span(b, r), bs, n)
  <2>1. b <= b
    OBVIOUS
  <2> QED BY <1>1, <2>1, FollowingWhole
<1> QED BY <1>1, <1>2, <1>3, SpanOfNothing

-----------------------------------------------------------------------------
(***************************************************************************)
(* Pieces in place                                                         *)
(***************************************************************************)

(* T says what may be at a place.  The elements of s may be where they are
   when s begins after place k. *)
InPlace(s, k, T) == \A i \in 1..Len(s) : <<s[i], k + i>> \in T

(* Nothing is in place anywhere. *)
LEMMA PlaceNone ==
  ASSUME NEW k, NEW T
  PROVE  InPlace(<<>>, k, T)
BY DEF InPlace

(* One element. *)
LEMMA PlaceOne ==
  ASSUME NEW x, NEW k \in Nat, NEW T, <<x, k + 1>> \in T
  PROVE  InPlace(<<x>>, k, T)
BY DEF InPlace

(* What may be there stays there when more may be. *)
LEMMA PlaceMore ==
  ASSUME NEW s, NEW k, NEW T, NEW U, T \subseteq U, InPlace(s, k, T)
  PROVE  InPlace(s, k, U)
BY DEF InPlace

(* A sequence after another. *)
LEMMA PlaceJoin ==
  ASSUME NEW S, NEW s \in Seq(S), NEW t \in Seq(S), NEW k \in Nat, NEW T,
         InPlace(s, k, T), InPlace(t, k + Len(s), T)
  PROVE  InPlace(s \o t, k, T)
<1> DEFINE u == s \o t
           l == Len(s)
<1>1. /\ l \in Nat /\ Len(t) \in Nat /\ Len(u) = l + Len(t)
      /\ \A i \in 1..l : u[i] = s[i]
      /\ \A i \in (l + 1)..(l + Len(t)) : u[i] = t[i - l]
  OBVIOUS
<1>2. /\ \A i \in 1..l : <<s[i], k + i>> \in T
      /\ \A i \in 1..Len(t) : <<t[i], k + l + i>> \in T
  BY DEF InPlace
<1> HIDE DEF u, l
<1>3. \A i \in 1..Len(u) : <<u[i], k + i>> \in T
  <2>1. TAKE i \in 1..Len(u)
  <2>2. CASE i <= l
    <3>1. i \in 1..l
      BY <1>1, <2>2
    <3> QED BY <1>1, <1>2, <3>1
  <2>3. CASE i > l
    <3>1. i \in (l + 1)..(l + Len(t)) /\ i - l \in 1..Len(t) /\ k + l + (i - l) = k + i
      BY <1>1, <2>3
    <3>2. <<t[i - l], k + l + (i - l)>> \in T
      BY <1>2, <3>1
    <3> QED BY <1>1, <3>1, <3>2
  <2> QED BY <1>1, <2>2, <2>3
<1> QED BY <1>3 DEF InPlace, u

(* One more element. *)
LEMMA PlaceAppend ==
  ASSUME NEW S, NEW s \in Seq(S), NEW x \in S, NEW k \in Nat, NEW T,
         InPlace(s, k, T), InPlace(<<x>>, k + Len(s), T)
  PROVE  InPlace(Append(s, x), k, T)
<1>1. Append(s, x) = s \o <<x>> /\ <<x>> \in Seq(S)
  OBVIOUS
<1> DEFINE t == <<x>>
<1> HIDE DEF t
<1>2. t \in Seq(S) /\ InPlace(t, k + Len(s), T)
  BY <1>1 DEF t
<1>3. InPlace(s \o t, k, T)
  BY <1>2, PlaceJoin
<1> QED BY <1>1, <1>3 DEF t

(* The first element and the others. *)
LEMMA PlaceHead ==
  ASSUME NEW S, NEW s \in Seq(S), s # <<>>, NEW k \in Nat, NEW T, InPlace(s, k, T)
  PROVE  <<Head(s), k + 1>> \in T /\ InPlace(<<Head(s)>>, k, T) /\ InPlace(Tail(s), k + 1, T)
<1> DEFINE t == Tail(s)
           l == Len(s)
<1>1. l \in Nat \ {0} /\ Head(s) = s[1] /\ Len(t) = l - 1 /\ \A i \in 1..(l - 1) : t[i] = s[i + 1]
  OBVIOUS
<1>2. \A i \in 1..l : <<s[i], k + i>> \in T
  BY DEF InPlace
<1> HIDE DEF t, l
<1>3. <<Head(s), k + 1>> \in T
  BY <1>1, <1>2
<1>4. \A i \in 1..Len(t) : <<t[i], k + 1 + i>> \in T
  <2>1. TAKE i \in 1..Len(t)
  <2>2. i + 1 \in 1..l /\ k + (i + 1) = k + 1 + i /\ t[i] = s[i + 1]
    BY <1>1
  <2>3. <<s[i + 1], k + (i + 1)>> \in T
    BY <1>2, <2>2
  <2> QED BY <2>2, <2>3
<1>5. InPlace(t, k + 1, T)
  BY <1>4 DEF InPlace
<1> QED BY <1>3, <1>5, PlaceOne DEF t

-----------------------------------------------------------------------------
(* A stream of n rows in pieces of w                                        *)

(* The last row of the k-th piece, if all are full. *)
Edge(k, w) == k * w

(* What the first k pieces hold. *)
Upto(k, w, n) == IF Edge(k, w) <= n THEN Edge(k, w) ELSE n

(* rows are the k-th piece: it is full unless the stream ends in it, which a
   stream that is still open does not. *)
IsPiece(rows, k, w, n, open) ==
  /\ rows = Span(Edge(k - 1, w), Upto(k, w, n))
  /\ Edge(k - 1, w) < n
  /\ Edge(k, w) <= n \/ ~open

(* Bounds are numbers, a piece apart. *)
LEMMA EdgeType ==
  ASSUME NEW k \in Nat, NEW w \in Nat
  PROVE  Edge(k, w) \in Nat
BY DEF Edge

(* The next piece has w rows. *)
LEMMA EdgeNext ==
  ASSUME NEW k \in Nat, NEW w \in Nat
  PROVE  Edge(k + 1, w) = Edge(k, w) + w
BY DEF Edge

(* The first piece begins at the beginning. *)
LEMMA EdgeZero ==
  ASSUME NEW w \in Nat
  PROVE  Edge(0, w) = 0
BY DEF Edge

(* Pieces add up. *)
LEMMA EdgeAdd ==
  ASSUME NEW k \in Nat, NEW l \in Nat, NEW w \in Nat
  PROVE  Edge(k + l, w) = Edge(k, w) + Edge(l, w)
BY DEF Edge

(* A later bound is not less. *)
LEMMA EdgeOrder ==
  ASSUME NEW k \in Nat, NEW l \in Nat, NEW w \in Nat, k <= l
  PROVE  Edge(k, w) <= Edge(l, w)
<1>1. l - k \in Nat /\ k + (l - k) = l
  OBVIOUS
<1> DEFINE d == l - k
<1> HIDE DEF d
<1>2. d \in Nat /\ k + d = l
  BY <1>1 DEF d
<1>3. Edge(k + d, w) = Edge(k, w) + Edge(d, w)
  BY <1>2, EdgeAdd
<1>4. Edge(k, w) \in Nat /\ Edge(d, w) \in Nat
  BY <1>2, EdgeType
<1> QED BY <1>2, <1>3, <1>4

(* The pieces that n rows fill, and what is left of them. *)
LEMMA EdgeDiv ==
  ASSUME NEW n \in Nat, NEW w \in Nat \ {0}
  PROVE  n \div w \in Nat /\ Edge(n \div w, w) <= n /\ n < Edge(n \div w, w) + w
BY DEF Edge

(* What the first k pieces hold is no more than they can and there is. *)
LEMMA UptoType ==
  ASSUME NEW k \in Nat, NEW w \in Nat, NEW n \in Nat
  PROVE  Upto(k, w, n) \in Nat /\ Upto(k, w, n) <= n /\ Upto(k, w, n) <= Edge(k, w)
<1>1. Edge(k, w) \in Nat
  BY EdgeType
<1> QED BY <1>1 DEF Upto

(* Pieces that begin in the stream are not empty and go on where the ones
   before them end. *)
LEMMA PieceLen ==
  ASSUME NEW k \in Nat, NEW w \in Nat \ {0}, NEW n \in Nat, NEW rows, NEW open,
         IsPiece(rows, k + 1, w, n, open)
  PROVE  /\ rows \in Seq(Nat) /\ Len(rows) \in 1..w
         /\ Upto(k, w, n) = Edge(k, w)
         /\ Upto(k + 1, w, n) = Upto(k, w, n) + Len(rows)
         /\ rows = Span(Upto(k, w, n), Upto(k + 1, w, n))
         /\ Edge(k + 1, w) <= n => Len(rows) = w
<1> DEFINE a == Edge(k, w)
           b == Edge(k + 1, w)
           c == Upto(k + 1, w, n)
<1>1. a \in Nat /\ b \in Nat /\ b = a + w
  <2>1. a \in Nat
    BY EdgeType
  <2>2. b = a + w
    BY EdgeNext
  <2> HIDE DEF a, b
  <2> QED BY <2>1, <2>2
<1>2. rows = Span(a, c) /\ a < n
  BY DEF IsPiece
<1>3. c = (IF b <= n THEN b ELSE n) /\ Upto(k, w, n) = (IF a <= n THEN a ELSE n)
  BY DEF Upto
<1> HIDE DEF a, b, c
<1>4. c \in Nat /\ a <= c /\ c - a \in 1..w /\ Upto(k, w, n) = a /\ (b <= n => c - a = w)
  BY <1>1, <1>2, <1>3
<1>5. Span(a, c) \in Seq(Nat) /\ Len(Span(a, c)) = c - a
  BY <1>1, <1>4, SpanType
<1>6. a + Len(rows) = c
  BY <1>1, <1>2, <1>4, <1>5
<1> QED BY <1>1, <1>2, <1>4, <1>5, <1>6 DEF a, b, c

(* Rows that go on where the pieces end are the next one when there are enough
   of them, or when they are the last. *)
LEMMA PieceMade ==
  ASSUME NEW k \in Nat, NEW w \in Nat \ {0}, NEW n \in Nat, NEW rows, NEW open,
         Len(rows) \in 1..w, rows = Span(Edge(k, w), Edge(k, w) + Len(rows)),
         Edge(k, w) + Len(rows) <= n,
         Len(rows) = w \/ (n = Edge(k, w) + Len(rows) /\ ~open)
  PROVE  IsPiece(rows, k + 1, w, n, open)
<1> DEFINE a == Edge(k, w)
           b == Edge(k + 1, w)
           l == Len(rows)
<1>1. a \in Nat /\ b = a + w /\ k + 1 - 1 = k
  <2>1. a \in Nat
    BY EdgeType
  <2>2. b = a + w
    BY EdgeNext
  <2> HIDE DEF a, b
  <2> QED BY <2>1, <2>2
<1>2. l \in 1..w /\ rows = Span(a, a + l) /\ a + l <= n /\ (l = w \/ (n = a + l /\ ~open))
  OBVIOUS
<1> HIDE DEF a, b, l
<1>3. (IF b <= n THEN b ELSE n) = a + l /\ a < n /\ (b <= n \/ ~open)
  BY <1>1, <1>2
<1>4. Upto(k + 1, w, n) = a + l
  BY <1>3 DEF Upto, b
<1> QED BY <1>1, <1>2, <1>3, <1>4 DEF IsPiece, a, b

(* A piece stays one when the stream grows, if it may. *)
LEMMA PieceStays ==
  ASSUME NEW k \in Nat, NEW w \in Nat, NEW n \in Nat, NEW m \in Nat, NEW rows,
         NEW open \in BOOLEAN, NEW still \in BOOLEAN,
         IsPiece(rows, k + 1, w, n, open), n <= m, n = m \/ open, still => open
  PROVE  IsPiece(rows, k + 1, w, m, still)
<1>1. Edge(k, w) \in Nat /\ Edge(k + 1, w) \in Nat /\ k + 1 - 1 = k
  <2>1. Edge(k, w) \in Nat
    BY EdgeType
  <2>2. Edge(k + 1, w) = Edge(k, w) + w
    BY EdgeNext
  <2> QED BY <2>1, <2>2
<1>2. CASE n = m
  BY <1>2 DEF IsPiece
<1>3. CASE n # m
  BY <1>1, <1>3 DEF IsPiece, Upto
<1> QED BY <1>2, <1>3

(* The pieces put together are the stream. *)
LEMMA PiecesFlat ==
  ASSUME NEW w \in Nat \ {0}, NEW n \in Nat, NEW open, NEW ps \in Seq(Seq(Nat)),
         \A i \in 1..Len(ps) : IsPiece(ps[i], i, w, n, open)
  PROVE  FlattenSeq(ps) = Span(0, Upto(Len(ps), w, n))
<1>1. CASE Len(ps) = 0
  <2>1. ps = <<>> /\ FlattenSeq(ps) = ps
    BY <1>1 DEF FlattenSeq
  <2>2. Upto(0, w, n) = 0
    BY EdgeZero DEF Upto
  <2> QED BY <1>1, <2>1, <2>2, SpanOfNothing
<1>2. CASE Len(ps) # 0
  <2> DEFINE l == Len(ps)
  <2>0. l \in Nat \ {0}
    BY <1>2
  <2>1. PICK f : IsFlat(f, ps, l) /\ FlattenSeq(ps) = f[l]
    BY <1>2, FlattenRule
  <2>2. \A i \in 1..l : f[i] = IF i = 1 THEN ps[i] ELSE f[i - 1] \o ps[i]
    BY <2>1 DEF IsFlat, Longer
  <2> HIDE DEF l
  <2> DEFINE P == {i \in Nat : i + 1 \in 1..l => f[i + 1] = Span(0, Upto(i + 1, w, n))}
  <2>3. \A i \in Nat : i + 1 \in 1..l =>
          ps[i + 1] = Span(Upto(i, w, n), Upto(i + 1, w, n)) /\ Upto(i, w, n) <= Upto(i + 1, w, n)
    <3> SUFFICES ASSUME NEW i \in Nat, i + 1 \in 1..l
                 PROVE  /\ ps[i + 1] = Span(Upto(i, w, n), Upto(i + 1, w, n))
                        /\ Upto(i, w, n) <= Upto(i + 1, w, n)
      OBVIOUS
    <3>1. IsPiece(ps[i + 1], i + 1, w, n, open)
      BY DEF l
    <3>2. /\ Len(ps[i + 1]) \in 1..w /\ Upto(i + 1, w, n) = Upto(i, w, n) + Len(ps[i + 1])
          /\ ps[i + 1] = Span(Upto(i, w, n), Upto(i + 1, w, n))
      BY <3>1, PieceLen
    <3>3. Upto(i, w, n) \in Nat
      BY UptoType
    <3> QED BY <3>2, <3>3
  <2>4. 0 \in P
    <3>1. Upto(0, w, n) = 0
      BY EdgeZero DEF Upto
    <3>2. 0 + 1 \in 1..l => f[1] = ps[1]
      BY <2>2
    <3>3. 0 + 1 \in 1..l => ps[0 + 1] = Span(Upto(0, w, n), Upto(0 + 1, w, n))
      BY <2>3
    <3> QED BY <3>1, <3>2, <3>3
  <2>5. ASSUME NEW i \in Nat, i \in P PROVE i + 1 \in P
    <3> SUFFICES ASSUME i + 1 + 1 \in 1..l
                 PROVE  f[i + 1 + 1] = Span(0, Upto(i + 1 + 1, w, n))
      OBVIOUS
    <3> DEFINE a == Upto(i + 1, w, n)
               b == Upto(i + 1 + 1, w, n)
    <3>1. f[i + 1] = Span(0, a)
      BY <2>0, <2>5
    <3>2. ps[i + 1 + 1] = Span(a, b) /\ a <= b /\ a \in Nat /\ b \in Nat
      <4> DEFINE j == i + 1
      <4>1. j \in Nat /\ j + 1 \in Nat
        OBVIOUS
      <4> HIDE DEF j
      <4>2. Upto(j, w, n) \in Nat /\ Upto(j + 1, w, n) \in Nat
        BY <4>1, UptoType
      <4> QED BY <2>3, <4>1, <4>2 DEF j
    <3>3. f[i + 1 + 1] = f[i + 1] \o ps[i + 1 + 1]
      <4> DEFINE j == i + 1 + 1
      <4>1. j \in 1..l /\ j # 1 /\ j - 1 = i + 1
        OBVIOUS
      <4> HIDE DEF j
      <4>2. f[j] = f[j - 1] \o ps[j]
        BY <2>2, <4>1
      <4> QED BY <4>1, <4>2 DEF j
    <3> HIDE DEF a, b
    <3>4. Span(0, a) \o Span(a, b) = Span(0, b)
      <4>1. 0 <= a
        BY <3>2
      <4> QED BY <3>2, <4>1, SpanJoin
    <3>5. f[i + 1 + 1] = Span(0, b)
      BY <3>1, <3>2, <3>3, <3>4
    <3> QED BY <3>5 DEF b
  <2>6. Nat \subseteq P
    <3> HIDE DEF P
    <3> QED BY <2>4, <2>5, Inductive
  <2>7. l - 1 \in P /\ l - 1 + 1 = l /\ l \in 1..l
    <3> HIDE DEF P
    <3> QED BY <2>0, <2>6
  <2>8. f[l] = Span(0, Upto(l, w, n))
    BY <2>7
  <2> QED BY <2>1, <2>8 DEF l
<1> QED BY <1>1, <1>2
-----------------------------------------------------------------------------
(***************************************************************************)
(* What is in a sequence                                                   *)
(***************************************************************************)

(* Every element of the sequence a is one of b. *)
Among(a, b) == \A i \in 1..Len(a) : \E j \in 1..Len(b) : b[j] = a[i]

(* Joining sequences keeps what is in them. *)
LEMMA AmongJoin ==
  ASSUME NEW S, NEW a \in Seq(S), NEW b \in Seq(S), NEW c \in Seq(S)
  PROVE  Among(a, c) => Among(a, c \o b)
<1> SUFFICES ASSUME Among(a, c), NEW i \in 1..Len(a)
             PROVE  \E j \in 1..Len(c \o b) : (c \o b)[j] = a[i]
  BY DEF Among
<1>1. PICK j \in 1..Len(c) : c[j] = a[i]
  BY DEF Among
<1>2. j \in 1..Len(c \o b) /\ (c \o b)[j] = c[j]
  OBVIOUS
<1> QED BY <1>1, <1>2

(* What is joined is in the whole. *)
LEMMA AmongLast ==
  ASSUME NEW S, NEW a \in Seq(S), NEW c \in Seq(S)
  PROVE  Among(a, c \o a)
<1> SUFFICES ASSUME NEW i \in 1..Len(a)
             PROVE  \E j \in 1..Len(c \o a) : (c \o a)[j] = a[i]
  BY DEF Among
<1>1. Len(c) + i \in 1..Len(c \o a) /\ (c \o a)[Len(c) + i] = a[i]
  OBVIOUS
<1> QED BY <1>1

(* Flattening loses no element, and makes none up. *)
LEMMA FlattenKeeps ==
  ASSUME NEW S, NEW ss \in Seq(Seq(S))
  PROVE  /\ FlattenSeq(ss) \in Seq(S)
         /\ \A i \in 1..Len(ss) : Among(ss[i], FlattenSeq(ss))
<1>1. CASE Len(ss) = 0
  <2>1. ss = <<>> /\ FlattenSeq(ss) = ss
    BY <1>1 DEF FlattenSeq
  <2>2. <<>> \in Seq(S) /\ FlattenSeq(ss) = <<>>
    BY <2>1
  <2>3. \A i \in 1..Len(ss) : FALSE
    BY <1>1
  <2> QED BY <2>2, <2>3
<1>2. CASE Len(ss) # 0
  <2> DEFINE l == Len(ss)
  <2>0. l \in Nat \ {0}
    BY <1>2
  <2>1. PICK f : IsFlat(f, ss, l) /\ FlattenSeq(ss) = f[l]
    BY <1>2, FlattenRule
  <2>2. \A i \in 1..l : f[i] = IF i = 1 THEN ss[i] ELSE f[i - 1] \o ss[i]
    BY <2>1 DEF IsFlat, Longer
  <2>3. \A i \in 1..l : ss[i] \in Seq(S)
    OBVIOUS
  <2> HIDE DEF l
  <2> DEFINE Q(n) == f[n] \in Seq(S) /\ \A i \in 1..n : Among(ss[i], f[n])
             P == {n \in Nat : n + 1 \in 1..l => Q(n + 1)}
  <2>4. 0 \in P
    <3> SUFFICES ASSUME 1 \in 1..l PROVE Q(1)
      OBVIOUS
    <3>1. f[1] = ss[1] /\ ss[1] \in Seq(S)
      BY <2>2, <2>3
    <3>2. Among(ss[1], ss[1])
      BY DEF Among
    <3>3. \A i \in 1..1 : i = 1
      OBVIOUS
    <3> QED BY <3>1, <3>2, <3>3
  <2>5. ASSUME NEW n \in Nat, n \in P PROVE n + 1 \in P
    <3> DEFINE m == n + 1
    <3>1. m \in Nat /\ m # 0
      OBVIOUS
    <3>2. m \in 1..l => Q(m)
      BY <2>5
    <3> SUFFICES ASSUME m + 1 \in 1..l PROVE Q(m + 1)
      OBVIOUS
    <3> HIDE DEF m
    <3>3. m \in 1..l /\ m + 1 # 1 /\ m + 1 - 1 = m
      BY <2>0, <3>1
    <3> HIDE DEF P
    <3>4. f[m] \in Seq(S) /\ ss[m + 1] \in Seq(S)
      BY <2>3, <3>2, <3>3
    <3>5. f[m + 1] = f[m] \o ss[m + 1]
      <4> DEFINE j == m + 1
      <4>1. j \in 1..l /\ j # 1 /\ j - 1 = m
        BY <3>3
      <4> HIDE DEF j
      <4>2. f[j] = f[j - 1] \o ss[j]
        BY <2>2, <4>1
      <4> QED BY <4>1, <4>2 DEF j
    <3>6. f[m + 1] \in Seq(S)
      BY <3>4, <3>5
    <3>7. ASSUME NEW i \in 1..(m + 1) PROVE Among(ss[i], f[m + 1])
      <4>1. CASE i = m + 1
        BY <3>4, <3>5, <4>1, AmongLast
      <4>2. CASE i # m + 1
        <5>1. i \in 1..m
          BY <3>1, <4>2
        <5>2. i \in 1..l
          BY <2>0, <3>1, <3>3, <5>1
        <5>2a. ss[i] \in Seq(S)
          BY <2>3, <5>2
        <5>3. Among(ss[i], f[m])
          BY <3>2, <3>3, <5>1
        <5> QED BY <3>4, <3>5, <5>2a, <5>3, AmongJoin
      <4> QED BY <4>1, <4>2
    <3> QED BY <3>6, <3>7
  <2>6. Nat \subseteq P
    <3> HIDE DEF P
    <3> QED BY <2>4, <2>5, Inductive
  <2>7. l - 1 \in P /\ l - 1 + 1 = l /\ l \in 1..l
    <3> HIDE DEF P
    <3> QED BY <2>0, <2>6
  <2>8. Q(l)
    BY <2>7
  <2> QED BY <2>1, <2>8 DEF l
<1> QED BY <1>1, <1>2

(***************************************************************************)
(* Lists                                                                   *)
(***************************************************************************)

(* ss and tt begin with the same m. *)
SameUpTo(ss, tt, m) == \A i \in 1..m : tt[i] = ss[i]

(* Two solutions of the recursion agree where both are defined. *)
LEMMA FlatUnique ==
  ASSUME NEW ss, NEW tt, NEW m \in Nat, NEW n \in Nat, m <= n,
         SameUpTo(ss, tt, m), NEW f, IsFlat(f, ss, m), NEW g, IsFlat(g, tt, n)
  PROVE  SameUpTo(g, f, m)
<1> DEFINE P == {k \in Nat : k + 1 \in 1..m => f[k + 1] = g[k + 1]}
<1>1. /\ \A i \in 1..m : f[i] = Longer(ss, f, i) /\ tt[i] = ss[i]
      /\ \A i \in 1..n : g[i] = Longer(tt, g, i)
  BY DEF IsFlat, SameUpTo
<1>2. 0 \in P
  <2> SUFFICES ASSUME 1 \in 1..m PROVE f[1] = g[1]
    OBVIOUS
  <2>1. 1 \in 1..n
    OBVIOUS
  <2> QED BY <1>1, <2>1 DEF Longer
<1>3. ASSUME NEW k \in Nat, k \in P PROVE k + 1 \in P
  <2> DEFINE j == k + 1 + 1
  <2> SUFFICES ASSUME j \in 1..m PROVE f[j] = g[j]
    OBVIOUS
  <2>1. k + 1 \in 1..m /\ j \in 1..n /\ j - 1 = k + 1 /\ j # 1
    OBVIOUS
  <2>2. f[k + 1] = g[k + 1]
    BY <1>3, <2>1
  <2> HIDE DEF j
  <2>3. f[j] = f[j - 1] \o ss[j] /\ g[j] = g[j - 1] \o tt[j] /\ tt[j] = ss[j]
    BY <1>1, <2>1 DEF Longer
  <2> QED BY <2>1, <2>2, <2>3
<1>4. Nat \subseteq P
  <2> HIDE DEF P
  <2> QED BY <1>2, <1>3, Inductive
<1>5. ASSUME NEW i \in 1..m PROVE f[i] = g[i]
  <2>1. i - 1 \in P /\ i - 1 + 1 = i
    BY <1>4
  <2> QED BY <2>1
<1> QED BY <1>5 DEF SameUpTo

(* Nothing flattened is nothing; one more sequence is joined to the rest. *)
LEMMA FlattenAppend ==
  ASSUME NEW S, NEW ss \in Seq(Seq(S)), NEW x \in Seq(S)
  PROVE  FlattenSeq(Append(ss, x)) = FlattenSeq(ss) \o x
<1> DEFINE n == Len(ss)
           tt == Append(ss, x)
<1>1. n \in Nat /\ tt \in Seq(Seq(S)) /\ Len(tt) = n + 1 /\ tt[n + 1] = x
      /\ \A i \in 1..n : tt[i] = ss[i]
  OBVIOUS
<1> DEFINE j == n + 1
<1>0. j \in Nat /\ n <= j /\ j \in 1..j /\ j - 1 = n /\ tt[j] = x /\ Len(tt) = j /\ j # 0
      /\ SameUpTo(ss, tt, n) /\ n \in Nat
  BY <1>1 DEF SameUpTo
<1> HIDE DEF tt, j
<1>2. PICK g : IsFlat(g, tt, j) /\ FlattenSeq(tt) = g[j]
  BY <1>0, FlattenRule
<1>3. g[j] = IF j = 1 THEN x ELSE g[n] \o x
  <2>1. g[j] = Longer(tt, g, j)
    BY <1>0, <1>2 DEF IsFlat
  <2> QED BY <1>0, <2>1 DEF Longer
<1>4. CASE n = 0
  <2>1. ss = <<>> /\ FlattenSeq(ss) = ss
    BY <1>4 DEF FlattenSeq
  <2>2. <<>> \o x = x
    OBVIOUS
  <2>3. j = 1
    BY <1>4 DEF j
  <2>4. FlattenSeq(tt) = x
    BY <1>2, <1>3, <2>3
  <2> QED BY <2>1, <2>2, <2>4 DEF tt
<1>5. CASE n # 0
  <2>1. PICK f : IsFlat(f, ss, n) /\ FlattenSeq(ss) = f[n]
    BY <1>5, FlattenRule
  <2> HIDE DEF n
  <2>2. n \in 1..n /\ j # 1
    BY <1>0, <1>5
  <2>3. SameUpTo(g, f, n)
    BY <1>0, <1>2, <2>1, FlatUnique
  <2>4. f[n] = g[n]
    BY <2>2, <2>3 DEF SameUpTo
  <2> QED BY <1>2, <1>3, <2>1, <2>2, <2>4 DEF tt
<1> QED BY <1>4, <1>5

(* A sequence is its front and its last element. *)
LEMMA FrontAndLast ==
  ASSUME NEW S, NEW s \in Seq(S), NEW n \in Nat, Len(s) = n + 1
  PROVE  /\ SubSeq(s, 1, n) \in Seq(S) /\ Len(SubSeq(s, 1, n)) = n /\ s[n + 1] \in S
         /\ s = Append(SubSeq(s, 1, n), s[n + 1])
         /\ \A i \in 1..n : SubSeq(s, 1, n)[i] = s[i]
OBVIOUS

(* What is flattened in two parts is flattened together. *)
LEMMA FlattenJoin ==
  ASSUME NEW S, NEW ss \in Seq(Seq(S)), NEW tt \in Seq(Seq(S))
  PROVE  FlattenSeq(ss \o tt) = FlattenSeq(ss) \o FlattenSeq(tt)
<1> DEFINE P == {n \in Nat : \A u \in Seq(Seq(S)) : Len(u) = n =>
                   FlattenSeq(ss \o u) = FlattenSeq(ss) \o FlattenSeq(u)}
<1>0. \A u \in Seq(Seq(S)) : FlattenSeq(u) \in Seq(S)
  BY FlattenKeeps
<1>1. 0 \in P
  <2> SUFFICES ASSUME NEW u \in Seq(Seq(S)), Len(u) = 0
               PROVE  FlattenSeq(ss \o u) = FlattenSeq(ss) \o FlattenSeq(u)
    OBVIOUS
  <2>1. u = <<>> /\ ss \o u = ss
    OBVIOUS
  <2>2. FlattenSeq(u) = <<>>
    BY <2>1 DEF FlattenSeq
  <2>3. FlattenSeq(ss) \in Seq(S)
    BY <1>0
  <2> QED BY <2>1, <2>2, <2>3
<1>2. ASSUME NEW n \in Nat, n \in P PROVE n + 1 \in P
  <2> SUFFICES ASSUME NEW u \in Seq(Seq(S)), Len(u) = n + 1
               PROVE  FlattenSeq(ss \o u) = FlattenSeq(ss) \o FlattenSeq(u)
    OBVIOUS
  <2> DEFINE v == SubSeq(u, 1, n)
             x == u[n + 1]
  <2>1. v \in Seq(Seq(S)) /\ Len(v) = n /\ x \in Seq(S) /\ u = Append(v, x)
    BY FrontAndLast
  <2>2. FlattenSeq(ss \o v) = FlattenSeq(ss) \o FlattenSeq(v)
    BY <1>2, <2>1
  <2> HIDE DEF v, x, P
  <2>3. ss \o u = Append(ss \o v, x) /\ ss \o v \in Seq(Seq(S))
    BY <2>1
  <2>4. FlattenSeq(ss \o u) = FlattenSeq(ss \o v) \o x
    BY <2>1, <2>3, FlattenAppend
  <2>5. FlattenSeq(u) = FlattenSeq(v) \o x
    BY <2>1, FlattenAppend
  <2>6. FlattenSeq(ss) \in Seq(S) /\ FlattenSeq(v) \in Seq(S)
    BY <1>0, <2>1
  <2> QED BY <2>1, <2>2, <2>4, <2>5, <2>6
<1>3. Nat \subseteq P
  <2> HIDE DEF P
  <2> QED BY <1>1, <1>2, Inductive
<1>4. Len(tt) \in P
  <2>1. Len(tt) \in Nat
    OBVIOUS
  <2> HIDE DEF P
  <2> QED BY <1>3, <2>1
<1> QED BY <1>4

(* The elements of s at the places T, in their order. *)
Passed(s, T) == [i \in DOMAIN s |-> IF i \in T THEN <<s[i]>> ELSE <<>>]
Filtered(s, T) == FlattenSeq(Passed(s, T))

(* Element k of r is the element of s at place e[k]; these places, one after
   another, are those of T. *)
IsPick(e, s, T, r) ==
  /\ e \in Seq(DOMAIN s) /\ r = [k \in 1..Len(e) |-> s[e[k]]]
  /\ \A j, k \in DOMAIN e : j < k => e[j] < e[k]
  /\ \A i \in DOMAIN s : i \in T <=> \E k \in DOMAIN e : e[k] = i

(* What passes a filter, one by one. *)
LEMMA PassedType ==
  ASSUME NEW S, NEW s \in Seq(S), NEW T
  PROVE  Passed(s, T) \in Seq(Seq(S)) /\ Len(Passed(s, T)) = Len(s)
<1>1. \A i \in 1..Len(s) : (IF i \in T THEN <<s[i]>> ELSE <<>>) \in Seq(S)
  <2> SUFFICES ASSUME NEW i \in 1..Len(s)
               PROVE (IF i \in T THEN <<s[i]>> ELSE <<>>) \in Seq(S)
    OBVIOUS
  <2>1. s[i] \in S
    OBVIOUS
  <2>2. <<s[i]>> \in Seq(S) /\ <<>> \in Seq(S)
    BY <2>1
  <2> QED BY <2>2
<1>2. Len(s) \in Nat /\ DOMAIN s = 1..Len(s)
  OBVIOUS
<1> DEFINE X(i) == IF i \in T THEN <<s[i]>> ELSE <<>>
<1> HIDE DEF X
<1>3. \A i \in 1..Len(s) : X(i) \in Seq(S)
  BY <1>1 DEF X
<1>4. [i \in 1..Len(s) |-> X(i)] \in Seq(Seq(S)) /\ Len([i \in 1..Len(s) |-> X(i)]) = Len(s)
  BY <1>2, <1>3
<1> QED BY <1>2, <1>4 DEF Passed, X

(* A filter is such a choice of places. *)
LEMMA FilterPicks ==
  ASSUME NEW S, NEW s \in Seq(S), NEW T
  PROVE  \E e : IsPick(e, s, T, Filtered(s, T))
<1> DEFINE P == {n \in Nat : \A u \in Seq(S) : Len(u) = n =>
                   \E e : IsPick(e, u, T, Filtered(u, T))}
<1>1. 0 \in P
  <2> SUFFICES ASSUME NEW u \in Seq(S), Len(u) = 0
               PROVE  \E e : IsPick(e, u, T, Filtered(u, T))
    OBVIOUS
  <2>0. u = <<>> /\ DOMAIN u = {}
    OBVIOUS
  <2>1. u = <<>> /\ DOMAIN u = {} /\ Len(Passed(u, T)) = 0 /\ Passed(u, T) \in Seq(Seq(S))
    BY <2>0, PassedType
  <2>2. Passed(u, T) = <<>> /\ FlattenSeq(Passed(u, T)) = Passed(u, T)
    BY <2>1 DEF FlattenSeq
  <2>3. Filtered(u, T) = <<>>
    BY <2>2 DEF Filtered
  <2>4. <<>> \in Seq(DOMAIN u) /\ <<>> = [k \in 1..Len(<<>>) |-> u[<<>>[k]]]
    OBVIOUS
  <2>5. IsPick(<<>>, u, T, Filtered(u, T))
    BY <2>1, <2>3, <2>4 DEF IsPick
  <2> QED BY <2>5
<1>2. ASSUME NEW n \in Nat, n \in P PROVE n + 1 \in P
  <2> SUFFICES ASSUME NEW u \in Seq(S), Len(u) = n + 1
               PROVE  \E e : IsPick(e, u, T, Filtered(u, T))
    OBVIOUS
  <2> DEFINE v == SubSeq(u, 1, n)
             x == u[n + 1]
             y == IF n + 1 \in T THEN <<x>> ELSE <<>>
  <2>1. /\ v \in Seq(S) /\ Len(v) = n /\ x \in S /\ u = Append(v, x)
        /\ \A i \in 1..n : v[i] = u[i]
    BY FrontAndLast
  <2>2. PICK e : IsPick(e, v, T, Filtered(v, T))
    BY <1>2, <2>1
  <2> HIDE DEF v, x, P
  <2>3. Passed(u, T) = Append(Passed(v, T), y)
    <3>1. /\ Passed(v, T) \in Seq(Seq(S)) /\ Len(Passed(v, T)) = n
          /\ Passed(u, T) \in Seq(Seq(S)) /\ Len(Passed(u, T)) = n + 1
      BY <2>1, PassedType
    <3>2. y \in Seq(S)
      BY <2>1
    <3>3. \A i \in 1..n : Passed(u, T)[i] = Passed(v, T)[i]
      BY <2>1 DEF Passed
    <3>4. Passed(u, T)[n + 1] = y
      BY <2>1 DEF Passed, x
    <3> HIDE DEF y
    <3>5. Append(Passed(v, T), y) \in Seq(Seq(S)) /\ Len(Append(Passed(v, T), y)) = n + 1
      BY <3>1, <3>2
    <3>6. \A i \in 1..(n + 1) : Passed(u, T)[i] = Append(Passed(v, T), y)[i]
      BY <3>1, <3>2, <3>3, <3>4
    <3> QED BY <3>1, <3>5, <3>6, SeqEqual
  <2>4. Filtered(u, T) = Filtered(v, T) \o y
    <3>1. Passed(v, T) \in Seq(Seq(S)) /\ y \in Seq(S)
      BY <2>1, PassedType
    <3> HIDE DEF y
    <3> QED BY <2>3, <3>1, FlattenAppend DEF Filtered
  <2>5. /\ e \in Seq(1..n) /\ Filtered(v, T) = [k \in 1..Len(e) |-> v[e[k]]]
        /\ \A j, k \in 1..Len(e) : j < k => e[j] < e[k]
        /\ \A i \in 1..n : i \in T <=> \E k \in 1..Len(e) : e[k] = i
    <3>1. DOMAIN v = 1..n
      BY <2>1
    <3>2. e \in Seq(1..n)
      BY <2>2, <3>1 DEF IsPick
    <3>3. DOMAIN e = 1..Len(e)
      BY <3>2
    <3> QED BY <2>2, <3>1, <3>2, <3>3 DEF IsPick
  <2>5a. \A k \in 1..Len(e) : e[k] \in 1..n /\ v[e[k]] = u[e[k]]
    BY <2>1, <2>5
  <2>6. CASE n + 1 \notin T
    <3>1. Filtered(u, T) = Filtered(v, T)
      <4>1. y = <<>>
        BY <2>6
      <4>2. \A k \in 1..Len(e) : v[e[k]] \in S
        BY <2>1, <2>5a
      <4>3. Filtered(v, T) \in Seq(S)
        BY <2>5, <4>2
      <4> QED BY <2>4, <4>1, <4>3
    <3>2. Filtered(v, T) = [k \in 1..Len(e) |-> u[e[k]]]
      BY <2>5, <2>5a
    <3>3. e \in Seq(1..(n + 1))
      BY <2>5
    <3>4. \A i \in 1..(n + 1) : i \in T <=> \E k \in 1..Len(e) : e[k] = i
      BY <2>5, <2>5a, <2>6
    <3>5. DOMAIN u = 1..(n + 1) /\ DOMAIN e = 1..Len(e)
      BY <2>5
    <3>6. IsPick(e, u, T, Filtered(u, T))
      BY <2>5, <3>1, <3>2, <3>3, <3>4, <3>5 DEF IsPick
    <3> QED BY <3>6
  <2>7. CASE n + 1 \in T
    <3> DEFINE d == Append(e, n + 1)
    <3>1. /\ d \in Seq(1..(n + 1)) /\ Len(d) = Len(e) + 1 /\ d[Len(e) + 1] = n + 1
          /\ \A k \in 1..Len(e) : d[k] = e[k]
          /\ Len(e) \in Nat
      <4>1. e \in Seq(1..(n + 1)) /\ n + 1 \in 1..(n + 1)
        BY <2>5
      <4> QED BY <4>1
    <3> HIDE DEF d
    <3>2. \A k \in 1..Len(d) : d[k] \in 1..(n + 1) /\ (k \in 1..Len(e) \/ k = Len(e) + 1)
      BY <3>1
    <3>3. Filtered(u, T) = [k \in 1..Len(d) |-> u[d[k]]]
      <4>1. y = <<x>> /\ x = u[n + 1]
        BY <2>7 DEF x
      <4>2. \A k \in 1..Len(e) : v[e[k]] \in S
        BY <2>1, <2>5a
      <4>3. Filtered(v, T) \in Seq(S) /\ Len(Filtered(v, T)) = Len(e)
        BY <2>5, <4>2
      <4>4. \A k \in 1..Len(e) : Filtered(v, T)[k] = u[d[k]]
        BY <2>5, <2>5a, <3>1
      <4>5. u[d[Len(e) + 1]] = x
        BY <3>1, <4>1
      <4>6. Filtered(u, T) = Append(Filtered(v, T), x)
        <5>1. Filtered(v, T) \o <<x>> = Append(Filtered(v, T), x)
          BY <2>1, <4>3
        <5> QED BY <2>4, <4>1, <5>1
      <4>7. /\ Append(Filtered(v, T), x) \in Seq(S)
            /\ Len(Append(Filtered(v, T), x)) = Len(e) + 1
            /\ \A k \in 1..Len(e) : Append(Filtered(v, T), x)[k] = Filtered(v, T)[k]
            /\ Append(Filtered(v, T), x)[Len(e) + 1] = x
        BY <2>1, <4>3
      <4>8. \A k \in 1..Len(d) : Append(Filtered(v, T), x)[k] = u[d[k]]
        BY <3>1, <3>2, <4>4, <4>5, <4>7
      <4> HIDE DEF y
      <4>9. Append(Filtered(v, T), x) = [k \in 1..Len(d) |-> u[d[k]]]
        <5> DEFINE a == Append(Filtered(v, T), x)
        <5>0. a \in Seq(S)
          BY <4>7
        <5>1. a = [k \in 1..Len(a) |-> a[k]]
          <6> HIDE DEF a
          <6> QED BY <5>0
        <5>2. Len(a) = Len(d) /\ \A k \in 1..Len(d) : a[k] = u[d[k]]
          BY <3>1, <4>7, <4>8
        <5> HIDE DEF a
        <5>3. a = [k \in 1..Len(d) |-> u[d[k]]]
          BY <5>1, <5>2
        <5> QED BY <5>3 DEF a
      <4> QED BY <4>6, <4>9
    <3>4. \A j, k \in 1..Len(d) : j < k => d[j] < d[k]
      <4> SUFFICES ASSUME NEW j \in 1..Len(d), NEW k \in 1..Len(d), j < k
                   PROVE  d[j] < d[k]
        OBVIOUS
      <4>1. j \in 1..Len(e)
        BY <3>1
      <4>2. d[j] = e[j] /\ e[j] \in 1..n
        BY <2>5a, <3>1, <4>1
      <4>3. CASE k \in 1..Len(e)
        <5>1. d[k] = e[k] /\ e[j] < e[k]
          BY <2>5, <3>1, <4>1, <4>3
        <5> QED BY <4>2, <5>1
      <4>4. CASE k = Len(e) + 1
        BY <3>1, <4>2, <4>4
      <4> QED BY <3>2, <4>3, <4>4
    <3>5. \A i \in 1..(n + 1) : i \in T <=> \E k \in 1..Len(d) : d[k] = i
      <4> SUFFICES ASSUME NEW i \in 1..(n + 1)
                   PROVE  i \in T <=> \E k \in 1..Len(d) : d[k] = i
        OBVIOUS
      <4>1. CASE i = n + 1
        <5>1. Len(e) + 1 \in 1..Len(d)
          BY <3>1
        <5> QED BY <2>7, <3>1, <4>1, <5>1
      <4>2. CASE i # n + 1
        <5>1. i \in 1..n
          BY <4>2
        <5>2. \A k \in 1..Len(e) : k \in 1..Len(d)
          BY <3>1
        <5>3. ASSUME NEW k \in 1..Len(d), d[k] = i PROVE \E q \in 1..Len(e) : e[q] = i
          <6>1. k \in 1..Len(e)
            BY <3>1, <3>2, <4>2, <5>3
          <6> QED BY <3>1, <5>3, <6>1
        <5> QED BY <2>5, <3>1, <5>1, <5>2, <5>3
      <4> QED BY <4>1, <4>2
    <3>6. DOMAIN u = 1..(n + 1) /\ DOMAIN d = 1..Len(d)
      BY <3>1
    <3>7. IsPick(d, u, T, Filtered(u, T))
      BY <3>1, <3>3, <3>4, <3>5, <3>6 DEF IsPick
    <3> QED BY <3>7
  <2> QED BY <2>6, <2>7
<1>3. Nat \subseteq P
  <2> HIDE DEF P
  <2> QED BY <1>1, <1>2, Inductive
<1>4. Len(s) \in P
  <2>1. Len(s) \in Nat
    OBVIOUS
  <2> HIDE DEF P
  <2> QED BY <1>3, <2>1
<1> QED BY <1>4

(***************************************************************************)
(* Sums                                                                    *)
(***************************************************************************)

(* One consumer's cells beside those of the others. *)
LEMMA CellsTaken ==
  ASSUME NEW K, NEW f, NEW c \in K, f[c] \in Nat, IsFiniteSet(Cells(K \ {c}, f))
  PROVE  /\ IsFiniteSet(Cells(K, f))
         /\ Cardinality(Cells(K, f)) = f[c] + Cardinality(Cells(K \ {c}, f))
<1> DEFINE one == Row(c, f[c])
           rest == Cells(K \ {c}, f)
<1>1. Cells(K, f) = one \cup rest /\ one \cap rest = {}
  BY DEF Cells, Row
<1>2. IsFiniteSet(one) /\ Cardinality(one) = f[c]
  BY RowCounted
<1>3. IsFiniteSet(rest)
  OBVIOUS
<1> HIDE DEF one, rest
<1>4. /\ IsFiniteSet(one \cup rest)
      /\ Cardinality(one \cup rest) = Cardinality(one) + Cardinality(rest) - Cardinality(one \cap rest)
  BY <1>2, <1>3, FS_Union
<1>5. Cardinality(one \cap rest) = 0
  BY <1>1, FS_EmptySet
<1>6. Cardinality(rest) \in Nat
  BY <1>3, FS_CardinalityType
<1> QED BY <1>1, <1>2, <1>4, <1>5, <1>6 DEF rest

(* Finitely many consumers have finitely many cells. *)
LEMMA CellsFinite ==
  ASSUME NEW K, IsFiniteSet(K), NEW f, \A c \in K : f[c] \in Nat
  PROVE  IsFiniteSet(Cells(K, f))
<1> DEFINE P == {n \in Nat : \A L \in SUBSET K :
                   Cardinality(L) = n => IsFiniteSet(Cells(L, f))}
<1>0. \A L \in SUBSET K : IsFiniteSet(L) /\ Cardinality(L) \in Nat
  BY FS_Subset, FS_CardinalityType
<1>1. 0 \in P
  <2> SUFFICES ASSUME NEW L \in SUBSET K, Cardinality(L) = 0
               PROVE  IsFiniteSet(Cells(L, f))
    OBVIOUS
  <2>1. L = {}
    BY <1>0, FS_EmptySet
  <2>2. Cells(L, f) = {}
    BY <2>1 DEF Cells
  <2> QED BY <2>2, FS_EmptySet
<1>2. ASSUME NEW n \in Nat, n \in P PROVE n + 1 \in P
  <2> SUFFICES ASSUME NEW L \in SUBSET K, Cardinality(L) = n + 1
               PROVE  IsFiniteSet(Cells(L, f))
    OBVIOUS
  <2>1. L # {}
    BY FS_EmptySet
  <2>2. PICK c \in L : TRUE
    BY <2>1
  <2>3. L \ {c} \in SUBSET K /\ Cardinality(L \ {c}) = n
    <3> HIDE DEF P
    <3>1. IsFiniteSet(L) /\ c \in L
      BY <1>0, <2>2
    <3>2. Cardinality(L \ {c}) = Cardinality(L) - 1
      BY <3>1, FS_RemoveElement
    <3> QED BY <3>2
  <2>4. IsFiniteSet(Cells(L \ {c}, f))
    BY <1>2, <2>3
  <2>5. f[c] \in Nat
    BY <2>2
  <2> QED BY <2>2, <2>4, <2>5, CellsTaken
<1>3. Nat \subseteq P
  <2> HIDE DEF P
  <2> QED BY <1>1, <1>2, Inductive
<1> QED BY <1>0, <1>3

(* What the recursion that defines SumOf demands of h, over the subsets of S. *)
TheOne(s) == CHOOSE x \in s : TRUE
IsSum(h, S, f) == h = [s \in SUBSET S |->
  IF s = {} THEN 0 ELSE f[TheOne(s)] + h[s \ {TheOne(s)}]]

(* A sum is a number of cells. *)
LEMMA SumIsCells ==
  ASSUME NEW f, IsFiniteSet(DOMAIN f), \A x \in DOMAIN f : f[x] \in Nat
  PROVE  SumOf(f) = Cardinality(Cells(DOMAIN f, f)) /\ SumOf(f) \in Nat
<1> DEFINE S == DOMAIN f
           count == [s \in SUBSET S |-> Cardinality(Cells(s, f))]
<1>0. \A s \in SUBSET S : /\ IsFiniteSet(s) /\ Cardinality(s) \in Nat
                          /\ IsFiniteSet(Cells(s, f)) /\ Cardinality(Cells(s, f)) \in Nat
  <2> SUFFICES ASSUME NEW s \in SUBSET S
               PROVE  /\ IsFiniteSet(s) /\ Cardinality(s) \in Nat
                      /\ IsFiniteSet(Cells(s, f)) /\ Cardinality(Cells(s, f)) \in Nat
    OBVIOUS
  <2>1. IsFiniteSet(s) /\ \A x \in s : f[x] \in Nat
    BY FS_Subset
  <2>2. IsFiniteSet(Cells(s, f))
    BY <2>1, CellsFinite
  <2> QED BY <2>1, <2>2, FS_CardinalityType
<1>1. ASSUME NEW s \in SUBSET S
      PROVE  Cardinality(Cells(s, f)) = IF s = {} THEN 0
               ELSE f[TheOne(s)] + Cardinality(Cells(s \ {TheOne(s)}, f))
  <2>1. CASE s = {}
    <3>1. Cells(s, f) = {}
      BY <2>1 DEF Cells
    <3> QED BY <2>1, <3>1, FS_EmptySet
  <2>2. CASE s # {}
    <3>1. TheOne(s) \in s
      BY <2>2 DEF TheOne
    <3>2. f[TheOne(s)] \in Nat /\ IsFiniteSet(Cells(s \ {TheOne(s)}, f))
      BY <1>0, <3>1
    <3> QED BY <2>2, <3>1, <3>2, CellsTaken
  <2> QED BY <2>1, <2>2
<1>2. IsSum(count, S, f)
  <2>1. \A s \in SUBSET S : s \ {TheOne(s)} \in SUBSET S
    OBVIOUS
  <2> DEFINE next == [s \in SUBSET S |->
               IF s = {} THEN 0 ELSE f[TheOne(s)] + count[s \ {TheOne(s)}]]
  <2>2. ASSUME NEW s \in SUBSET S PROVE count[s] = next[s]
    BY <1>1, <2>1
  <2>3. count = next
    BY <2>2, Zenon
  <2> QED BY <2>3 DEF IsSum
<1> DEFINE h == CHOOSE h : IsSum(h, S, f)
<1>3. IsSum(h, S, f)
  BY <1>2
<1>4. SumOf(f) = h[S]
  BY Zenon DEF SumOf, MapThenSumSet, MapThenFoldSet, IsSum, TheOne
<1> HIDE DEF h
<1> DEFINE P == {n \in Nat : \A s \in SUBSET S :
                   Cardinality(s) = n => h[s] = Cardinality(Cells(s, f))}
<1>5. \A s \in SUBSET S : h[s] = IF s = {} THEN 0 ELSE f[TheOne(s)] + h[s \ {TheOne(s)}]
  BY <1>3 DEF IsSum
<1>6. 0 \in P
  <2> SUFFICES ASSUME NEW s \in SUBSET S, Cardinality(s) = 0
               PROVE  h[s] = Cardinality(Cells(s, f))
    OBVIOUS
  <2>1. s = {}
    BY <1>0, FS_EmptySet
  <2> QED BY <1>1, <1>5, <2>1
<1>7. ASSUME NEW n \in Nat, n \in P PROVE n + 1 \in P
  <2> SUFFICES ASSUME NEW s \in SUBSET S, Cardinality(s) = n + 1
               PROVE  h[s] = Cardinality(Cells(s, f))
    OBVIOUS
  <2>1. s # {}
    BY FS_EmptySet
  <2>2. TheOne(s) \in s
    BY <2>1 DEF TheOne
  <2>3. s \ {TheOne(s)} \in SUBSET S /\ Cardinality(s \ {TheOne(s)}) = n
    <3> HIDE DEF P
    <3>1. IsFiniteSet(s)
      BY <1>0
    <3>2. Cardinality(s \ {TheOne(s)}) = Cardinality(s) - 1
      BY <2>2, <3>1, FS_RemoveElement
    <3> QED BY <3>2
  <2>4. h[s \ {TheOne(s)}] = Cardinality(Cells(s \ {TheOne(s)}, f))
    BY <1>7, <2>3
  <2> QED BY <1>1, <1>5, <2>1, <2>4
<1>8. Nat \subseteq P
  <2> HIDE DEF P
  <2> QED BY <1>6, <1>7, Inductive
<1>9. S \in SUBSET S
  OBVIOUS
<1>10. h[S] = Cardinality(Cells(S, f))
  BY <1>0, <1>8, <1>9
<1> QED BY <1>0, <1>4, <1>9, <1>10

(***************************************************************************)
(* Members in order                                                        *)
(***************************************************************************)

(* R puts any two members of S in one order. *)
Ranks(R, S) ==
  /\ \A x, y \in S : x = y \/ <<x, y>> \in R \/ <<y, x>> \in R
  /\ \A x, y, z \in S : <<x, y>> \in R /\ <<y, z>> \in R => <<x, z>> \in R

(* A finite set that is ranked has a first member. *)
LEMMA FirstOf ==
  ASSUME NEW R, NEW S, IsFiniteSet(S), S # {}, Ranks(R, S)
  PROVE  \E x \in S : \A y \in S \ {x} : <<x, y>> \in R
<1> DEFINE P == {n \in Nat : \A T \in SUBSET S : Cardinality(T) = n + 1 =>
                   \E x \in T : \A y \in T \ {x} : <<x, y>> \in R}
<1>0. \A T \in SUBSET S : IsFiniteSet(T) /\ Cardinality(T) \in Nat
  BY FS_Subset, FS_CardinalityType
<1>1. 0 \in P
  <2> SUFFICES ASSUME NEW T \in SUBSET S, Cardinality(T) = 1
               PROVE  \E x \in T : \A y \in T \ {x} : <<x, y>> \in R
    OBVIOUS
  <2>1. \E x : T = {x}
    BY <1>0, FS_Singleton
  <2> QED BY <2>1
<1>2. ASSUME NEW n \in Nat, n \in P PROVE n + 1 \in P
  <2> SUFFICES ASSUME NEW T \in SUBSET S, Cardinality(T) = n + 1 + 1
               PROVE  \E x \in T : \A y \in T \ {x} : <<x, y>> \in R
    OBVIOUS
  <2>1. T # {}
    <3>1. Cardinality(T) # 0
      OBVIOUS
    <3> QED BY <3>1, FS_EmptySet
  <2>2. PICK c \in T : TRUE
    BY <2>1
  <2>3. T \ {c} \in SUBSET S /\ Cardinality(T \ {c}) = n + 1
    <3> HIDE DEF P
    <3>1. IsFiniteSet(T)
      BY <1>0
    <3>2. Cardinality(T \ {c}) = Cardinality(T) - 1
      BY <2>2, <3>1, FS_RemoveElement
    <3> QED BY <3>2
  <2>4. PICK x \in T \ {c} : \A y \in (T \ {c}) \ {x} : <<x, y>> \in R
    BY <1>2, <2>3
  <2>5. CASE <<x, c>> \in R
    BY <2>4, <2>5
  <2>6. CASE <<x, c>> \notin R
    <3>1. <<c, x>> \in R
      BY <2>2, <2>4, <2>6 DEF Ranks
    <3>2. \A y \in T \ {c} : <<c, y>> \in R
      BY <2>2, <2>4, <3>1 DEF Ranks
    <3> QED BY <2>2, <3>2
  <2> QED BY <2>5, <2>6
<1>3. Nat \subseteq P
  <2> HIDE DEF P
  <2> QED BY <1>1, <1>2, Inductive
<1>4. Cardinality(S) \in Nat /\ Cardinality(S) # 0
  BY FS_CardinalityType, FS_EmptySet
<1>5. Cardinality(S) - 1 \in P
  <2> HIDE DEF P
  <2>1. Cardinality(S) - 1 \in Nat
    BY <1>4
  <2> QED BY <1>3, <2>1
<1>6. Cardinality(S) = Cardinality(S) - 1 + 1
  BY <1>4
<1> QED BY <1>5, <1>6

(* s lists n members of S, each before the next. *)
Lists(R, S, n, s) ==
  s \in [1..n -> S] /\ \A i, j \in 1..n : i < j => <<s[i], s[j]>> \in R

(* A finite set that is ranked can be listed. *)
LEMMA ListExists ==
  ASSUME NEW R, NEW S, IsFiniteSet(S), Ranks(R, S)
  PROVE  \E s : Lists(R, S, Cardinality(S), s)
<1> DEFINE P == {n \in Nat : \A T \in SUBSET S : Cardinality(T) = n =>
                   \E s : Lists(R, T, n, s)}
<1>0. \A T \in SUBSET S : IsFiniteSet(T) /\ Cardinality(T) \in Nat
  BY FS_Subset, FS_CardinalityType
<1>1. 0 \in P
  <2> SUFFICES ASSUME NEW T \in SUBSET S PROVE \E s : Lists(R, T, 0, s)
    OBVIOUS
  <2>1. Lists(R, T, 0, [i \in 1..0 |-> CHOOSE x \in T : TRUE])
    BY DEF Lists
  <2> QED BY <2>1
<1>2. ASSUME NEW n \in Nat, n \in P PROVE n + 1 \in P
  <2> SUFFICES ASSUME NEW T \in SUBSET S, Cardinality(T) = n + 1
               PROVE  \E s : Lists(R, T, n + 1, s)
    OBVIOUS
  <2>1. T # {} /\ IsFiniteSet(T)
    BY <1>0, FS_EmptySet
  <2>2. PICK x \in T : \A y \in T \ {x} : <<x, y>> \in R
    <3>1. Ranks(R, T)
      BY DEF Ranks
    <3> QED BY <2>1, <3>1, FirstOf
  <2>3. T \ {x} \in SUBSET S /\ Cardinality(T \ {x}) = n
    <3> HIDE DEF P
    <3>1. Cardinality(T \ {x}) = Cardinality(T) - 1
      BY <2>1, <2>2, FS_RemoveElement
    <3> QED BY <3>1
  <2>4. PICK t : Lists(R, T \ {x}, n, t)
    BY <1>2, <2>3
  <2> DEFINE s == [i \in 1..(n + 1) |-> IF i = 1 THEN x ELSE t[i - 1]]
  <2>5. \A i \in 1..(n + 1) : i = 1 \/ i - 1 \in 1..n
    OBVIOUS
  <2>6. s \in [1..(n + 1) -> T]
    BY <2>2, <2>4, <2>5 DEF Lists
  <2>7. ASSUME NEW i \in 1..(n + 1), NEW j \in 1..(n + 1), i < j
        PROVE  <<s[i], s[j]>> \in R
    <3>1. j # 1 /\ j - 1 \in 1..n /\ s[j] = t[j - 1] /\ t[j - 1] \in T \ {x}
      BY <2>4, <2>7 DEF Lists
    <3>2. CASE i = 1
      BY <2>2, <3>1, <3>2
    <3>3. CASE i # 1
      <4>1. i - 1 \in 1..n /\ s[i] = t[i - 1] /\ i - 1 < j - 1
        BY <2>7, <3>3
      <4> QED BY <2>4, <3>1, <4>1 DEF Lists
    <3> QED BY <3>2, <3>3
  <2>8. Lists(R, T, n + 1, s)
    BY <2>6, <2>7 DEF Lists
  <2> QED BY <2>8
<1>3. Nat \subseteq P
  <2> HIDE DEF P
  <2> QED BY <1>1, <1>2, Inductive
<1>4. Cardinality(S) \in P
  <2> HIDE DEF P
  <2> QED BY <1>0, <1>3
<1> QED BY <1>4

(* As many different members as there are are all of them. *)
LEMMA AllOfThem ==
  ASSUME NEW S, IsFiniteSet(S), NEW n \in Nat, n = Cardinality(S),
         NEW f \in [1..n -> S], \A i, j \in 1..n : f[i] = f[j] => i = j
  PROVE  \A x \in S : \E i \in 1..n : f[i] = x
<1>1. f \in Injection(1..n, S)
  BY DEF Injection, IsInjective
<1>2. Cardinality(1..n) = n
  BY FS_Interval
<1>3. f \in Surjection(1..n, S)
  BY <1>1, <1>2, FS_Injection
<1> QED BY <1>3 DEF Surjection

(* What lists a set has all its members. *)
LEMMA ListIsAll ==
  ASSUME NEW R, NEW S, IsFiniteSet(S), \A x \in S : <<x, x>> \notin R,
         NEW s, Lists(R, S, Cardinality(S), s)
  PROVE  /\ s \in Seq(S) /\ Len(s) = Cardinality(S)
         /\ \A x \in S : \E i \in 1..Len(s) : s[i] = x
<1> DEFINE n == Cardinality(S)
<1>1. n \in Nat
  BY FS_CardinalityType
<1>2. s \in [1..n -> S] /\ \A i, j \in 1..n : i < j => <<s[i], s[j]>> \in R
  BY DEF Lists
<1> HIDE DEF n
<1>3. \A i, j \in 1..n : s[i] = s[j] => i = j
  <2> SUFFICES ASSUME NEW i \in 1..n, NEW j \in 1..n, s[i] = s[j] PROVE i = j
    OBVIOUS
  <2>1. ~(i < j) /\ ~(j < i)
    BY <1>2
  <2> QED BY <1>1, <2>1
<1>4. \A x \in S : \E i \in 1..n : s[i] = x
  BY <1>1, <1>2, <1>3, AllOfThem DEF n
<1>5. s \in Seq(S) /\ Len(s) = n
  BY <1>1, <1>2
<1> QED BY <1>4, <1>5 DEF n


(* The longest common prefix of lists is a prefix of each. *)
LEMMA PrefixOfEach ==
  ASSUME NEW D, NEW S, S \subseteq Seq(D), NEW t \in S
  PROVE  IsPrefix(LongestCommonPrefix(S), t)
<1> DEFINE C == CommonPrefixes(S)
<1>1. <<>> \in C
  <2>1. SubSeq(t, 1, 0) = <<>> /\ Len(t) \in Nat
    OBVIOUS
  <2>2. <<>> \in Prefixes(t)
    BY <2>1 DEF Prefixes
  <2>3. \A u \in S : IsPrefix(<<>>, u)
    <3> SUFFICES ASSUME NEW u \in S PROVE IsPrefix(<<>>, u)
      OBVIOUS
    <3>1. Len(u) \in Nat /\ SubSeq(u, 1, 0) = <<>> /\ Len(<<>>) = 0
          /\ SubSeq(<<>>, 1, 0) = <<>>
      OBVIOUS
    <3> QED BY <3>1 DEF IsPrefix
  <2> QED BY <2>2, <2>3 DEF CommonPrefixes
<1>2. \A c \in C : Len(c) \in Nat /\ Len(c) <= Len(t)
  <2> SUFFICES ASSUME NEW c \in C PROVE Len(c) \in Nat /\ Len(c) <= Len(t)
    OBVIOUS
  <2>1. PICK u \in S : c \in Prefixes(u)
    BY DEF CommonPrefixes
  <2>2. PICK l \in 0..Len(u) : c = SubSeq(u, 1, l)
    BY <2>1 DEF Prefixes
  <2>3. Len(c) \in Nat
    BY <2>2
  <2>4. IsPrefix(c, t)
    BY DEF CommonPrefixes
  <2> QED BY <2>3, <2>4 DEF IsPrefix
<1> HIDE DEF C
<1> DEFINE Gaps == {Len(t) - Len(c) : c \in C}
<1>3. PICK g \in Gaps : \A h \in Gaps : g <= h
  <2>1. Gaps \subseteq Nat
    BY <1>2
  <2>2. Len(t) - Len(<<>>) \in Gaps
    BY <1>1
  <2> HIDE DEF Gaps
  <2> QED BY <2>1, <2>2, LeastNumber
<1>4. PICK c \in C : g = Len(t) - Len(c)
  OBVIOUS
<1>5. \A d \in C : Len(d) <= Len(c)
  <2> SUFFICES ASSUME NEW d \in C PROVE Len(d) <= Len(c)
    OBVIOUS
  <2>1. Len(t) - Len(c) <= Len(t) - Len(d)
    BY <1>3, <1>4
  <2>2. Len(t) \in Nat /\ Len(c) \in Nat /\ Len(d) \in Nat
    BY <1>2
  <2> HIDE DEF Gaps
  <2> QED BY <2>1, <2>2
<1>6. \E longest \in C : \A other \in C : Len(other) <= Len(longest)
  BY <1>5
<1>7. LongestCommonPrefix(S) = CHOOSE longest \in C : \A other \in C : Len(other) <= Len(longest)
  BY DEF LongestCommonPrefix, C
<1>8. LongestCommonPrefix(S) \in C
  BY <1>6, <1>7
<1> QED BY <1>8 DEF CommonPrefixes, C


(* What is flattened with one more sequence at the end. *)
LEMMA FlattenLast ==
  ASSUME NEW D, NEW ss \in Seq(Seq(D)), NEW tt \in Seq(Seq(D)), NEW n \in Nat,
         Len(ss) = n, Len(tt) = n + 1, \A i \in 1..n : tt[i] = ss[i]
  PROVE  FlattenSeq(tt) = FlattenSeq(ss) \o tt[n + 1]
<1> DEFINE y == tt[n + 1]
<1>1. y \in Seq(D)
  OBVIOUS
<1>2. Append(ss, y) \in Seq(Seq(D)) /\ Len(Append(ss, y)) = n + 1
  BY <1>1
<1>3. \A i \in 1..(n + 1) : tt[i] = Append(ss, y)[i]
  OBVIOUS
<1>4. tt = Append(ss, y)
  BY <1>2, <1>3, SeqEqual
<1> HIDE DEF y
<1>5. FlattenSeq(Append(ss, y)) = FlattenSeq(ss) \o y
  BY <1>1, FlattenAppend
<1> QED BY <1>4, <1>5 DEF y

(* A filter of a sequence that grows. *)
LEMMA FilterAppend ==
  ASSUME NEW D, NEW s \in Seq(D), NEW x \in D, NEW T, NEW Q,
         \A i \in 1..Len(s) : i \in T <=> i \in Q
  PROVE  Filtered(Append(s, x), T)
           = IF Len(s) + 1 \in T THEN Append(Filtered(s, Q), x) ELSE Filtered(s, Q)
<1> DEFINE n == Len(s)
           u == Append(s, x)
           y == IF n + 1 \in T THEN <<x>> ELSE <<>>
<1>1. n \in Nat /\ u \in Seq(D) /\ Len(u) = n + 1 /\ u[n + 1] = x /\ DOMAIN s = 1..n
      /\ (\A i \in 1..n : u[i] = s[i]) /\ DOMAIN u = 1..(n + 1)
  OBVIOUS
<1> HIDE DEF u
<1>2. /\ Passed(s, Q) \in Seq(Seq(D)) /\ Len(Passed(s, Q)) = n
      /\ Passed(u, T) \in Seq(Seq(D)) /\ Len(Passed(u, T)) = n + 1
  BY <1>1, PassedType
<1>3. y \in Seq(D)
  OBVIOUS
<1>4. \A i \in 1..n : Passed(u, T)[i] = Passed(s, Q)[i]
  BY <1>1 DEF Passed
<1>5. Passed(u, T)[n + 1] = y
  BY <1>1 DEF Passed
<1>6. Filtered(s, Q) \in Seq(D)
  BY <1>2, FlattenKeeps DEF Filtered
<1> HIDE DEF y, n
<1>6a. Filtered(u, T) = Filtered(s, Q) \o y
  <2>1. FlattenSeq(Passed(u, T)) = FlattenSeq(Passed(s, Q)) \o Passed(u, T)[n + 1]
    BY <1>1, <1>2, <1>4, FlattenLast
  <2> QED BY <1>5, <2>1 DEF Filtered
<1>7. CASE n + 1 \in T
  <2>1. Filtered(s, Q) \o <<x>> = Append(Filtered(s, Q), x) /\ y = <<x>>
    BY <1>6, <1>7 DEF y
  <2> QED BY <1>6a, <1>7, <2>1 DEF u, n
<1>8. CASE n + 1 \notin T
  <2>1. Filtered(s, Q) \o <<>> = Filtered(s, Q) /\ y = <<>>
    BY <1>6, <1>8 DEF y
  <2> QED BY <1>6a, <1>8, <2>1 DEF u, n
<1> QED BY <1>7, <1>8

(* A filter of two sequences, one after the other. *)
LEMMA FilterJoin ==
  ASSUME NEW D, NEW s \in Seq(D), NEW t \in Seq(D), NEW T, NEW Q, NEW P,
         \A i \in 1..Len(s) : i \in T <=> i \in Q,
         \A i \in 1..Len(t) : Len(s) + i \in T <=> i \in P
  PROVE  Filtered(s \o t, T) = Filtered(s, Q) \o Filtered(t, P)
<1> DEFINE u == s \o t
           m == Len(s)
           n == Len(t)
<1>1. /\ u \in Seq(D) /\ Len(u) = m + n /\ m \in Nat /\ n \in Nat
      /\ DOMAIN s = 1..m /\ DOMAIN t = 1..n /\ DOMAIN u = 1..(m + n)
      /\ (\A i \in 1..m : u[i] = s[i]) /\ \A i \in 1..n : u[m + i] = t[i]
  OBVIOUS
<1>2. /\ \A i \in 1..m : i \in T <=> i \in Q
      /\ \A i \in 1..n : m + i \in T <=> i \in P
  OBVIOUS
<1> DEFINE ps == Passed(s, Q)
           pt == Passed(t, P)
           pu == Passed(u, T)
<1> HIDE DEF u, m, n
<1>3. /\ ps \in Seq(Seq(D)) /\ Len(ps) = m /\ pt \in Seq(Seq(D)) /\ Len(pt) = n
      /\ pu \in Seq(Seq(D)) /\ Len(pu) = m + n
  BY <1>1, PassedType DEF m, n
<1>4. \A i \in 1..m : pu[i] = ps[i]
  BY <1>1, <1>2 DEF Passed
<1>5. \A i \in 1..n : pu[m + i] = pt[i]
  BY <1>1, <1>2 DEF Passed
<1> HIDE DEF ps, pt, pu
<1>6. ps \o pt \in Seq(Seq(D)) /\ Len(ps \o pt) = m + n
  <2> DEFINE E == Seq(D)
  <2>1. ps \in Seq(E) /\ pt \in Seq(E) /\ Len(ps) = m /\ Len(pt) = n
    BY <1>3
  <2> HIDE DEF E
  <2>2. ps \o pt \in Seq(E) /\ Len(ps \o pt) = Len(ps) + Len(pt)
    BY <2>1, ConcatProperties
  <2> QED BY <2>1, <2>2 DEF E
<1>7. \A i \in 1..(m + n) : pu[i] = (ps \o pt)[i]
  <2> SUFFICES ASSUME NEW i \in 1..(m + n) PROVE pu[i] = (ps \o pt)[i]
    OBVIOUS
  <2>1. CASE i <= m
    <3>1. i \in 1..m /\ (ps \o pt)[i] = ps[i]
      BY <1>1, <1>3, <2>1
    <3> QED BY <1>4, <3>1
  <2>2. CASE ~(i <= m)
    <3> DEFINE k == i - m
    <3>1. k \in 1..n /\ i = m + k /\ i \in Nat
      BY <1>1, <2>2
    <3>2. (ps \o pt)[i] = pt[k]
      <4> DEFINE E == Seq(D)
      <4>1. ps \in Seq(E) /\ pt \in Seq(E) /\ Len(ps) = m /\ Len(pt) = n
        BY <1>3
      <4> HIDE DEF E, k
      <4>2. i > Len(ps) /\ i <= Len(ps) + Len(pt) /\ i - Len(ps) = k
        BY <1>1, <2>2, <3>1, <4>1
      <4> QED BY <3>1, <4>1, <4>2
    <3> HIDE DEF k
    <3> QED BY <1>5, <3>1, <3>2
  <2> QED BY <2>1, <2>2
<1>8. pu = ps \o pt
  BY <1>3, <1>6, <1>7, SeqEqual
<1>9. FlattenSeq(ps \o pt) = FlattenSeq(ps) \o FlattenSeq(pt)
  BY <1>3, FlattenJoin
<1> QED BY <1>8, <1>9 DEF Filtered, ps, pt, pu, u

(* Where all of the first m places pass, they come first. *)
LEMMA PickStarts ==
  ASSUME NEW D, NEW s \in Seq(D), NEW T, NEW e, NEW r, IsPick(e, s, T, r),
         NEW m \in Nat, m <= Len(s), 1..m \subseteq T
  PROVE  m <= Len(e) /\ \A i \in 1..m : e[i] = i
<1>1. /\ e \in Seq(1..Len(s)) /\ Len(e) \in Nat /\ DOMAIN e = 1..Len(e)
      /\ \A i \in 1..Len(e) : e[i] \in 1..Len(s)
  BY DEF IsPick
<1>2. \A j, k \in 1..Len(e) : j < k => e[j] < e[k]
  BY <1>1 DEF IsPick
<1>3. \A i \in 1..m : \E k \in 1..Len(e) : e[k] = i
  <2>1. \A i \in DOMAIN s : i \in T => \E k \in DOMAIN e : e[k] = i
    BY DEF IsPick
  <2>2. \A i \in 1..m : i \in DOMAIN s /\ i \in T
    OBVIOUS
  <2> QED BY <1>1, <2>1, <2>2
<1> DEFINE P == {n \in Nat : n + 1 <= m =>
                   n + 1 <= Len(e) /\ \A i \in 1..(n + 1) : e[i] = i}
<1>4. 0 \in P
  <2> SUFFICES ASSUME 1 <= m PROVE 1 <= Len(e) /\ e[1] = 1
    OBVIOUS
  <2>1. PICK k \in 1..Len(e) : e[k] = 1
    BY <1>3
  <2>2. 1 \in 1..Len(e) /\ e[1] >= 1
    BY <1>1
  <2>3. CASE k = 1
    BY <2>1, <2>2, <2>3
  <2>4. CASE k # 1
    <3>1. e[1] < e[k]
      BY <1>2, <2>2, <2>4
    <3> QED BY <1>1, <2>1, <2>2, <3>1
  <2> QED BY <2>3, <2>4
<1>5. ASSUME NEW n \in Nat, n \in P PROVE n + 1 \in P
  <2> DEFINE j == n + 1 + 1
  <2> SUFFICES ASSUME j <= m PROVE j <= Len(e) /\ \A i \in 1..j : e[i] = i
    OBVIOUS
  <2>1. n + 1 <= Len(e) /\ \A i \in 1..(n + 1) : e[i] = i
    BY <1>5
  <2>2. PICK k \in 1..Len(e) : e[k] = j
    BY <1>3
  <2>3. k > n + 1
    <3>1. \A i \in 1..(n + 1) : e[i] # j
      BY <2>1
    <3> QED BY <2>2, <3>1
  <2>4. j \in 1..Len(e)
    BY <1>1, <2>3
  <2>5. e[n + 1] = n + 1 /\ n + 1 \in 1..Len(e)
    BY <2>1
  <2>6. e[n + 1] < e[j]
    <3>1. n + 1 < j
      OBVIOUS
    <3> HIDE DEF j
    <3> QED BY <1>2, <2>4, <2>5, <3>1
  <2>7. CASE k = j
    <3>1. \A i \in 1..j : i = j \/ i \in 1..(n + 1)
      OBVIOUS
    <3> HIDE DEF j
    <3> QED BY <2>1, <2>2, <2>4, <2>7, <3>1
  <2>8. CASE k # j
    <3>1. e[j] < e[k]
      <4>1. j < k
        BY <2>3, <2>8
      <4> HIDE DEF j
      <4> QED BY <1>2, <2>4, <4>1
    <3>2. e[j] \in Nat
      BY <1>1, <2>4
    <3> QED BY <2>2, <2>5, <2>6, <3>1, <3>2
  <2> QED BY <2>7, <2>8
<1>6. Nat \subseteq P
  <2> HIDE DEF P
  <2> QED BY <1>4, <1>5, Inductive
<1>7. CASE m = 0
  BY <1>1, <1>7
<1>8. CASE m # 0
  <2>1. m - 1 \in Nat /\ m - 1 + 1 = m
    BY <1>8
  <2>2. m - 1 \in P
    <3> HIDE DEF P
    <3> QED BY <1>6, <2>1
  <2> QED BY <2>1, <2>2
<1> QED BY <1>7, <1>8

(* Where all pass, nothing is left out. *)
LEMMA FilterAll ==
  ASSUME NEW D, NEW s \in Seq(D), NEW T, 1..Len(s) \subseteq T
  PROVE  Filtered(s, T) = s
<1> DEFINE n == Len(s)
<1>1. PICK e : IsPick(e, s, T, Filtered(s, T))
  BY FilterPicks
<1>2. n <= Len(e) /\ \A i \in 1..n : e[i] = i
  BY <1>1, PickStarts
<1>3. /\ Len(e) \in Nat /\ \A i \in 1..Len(e) : e[i] \in 1..n
      /\ \A j, k \in 1..Len(e) : j < k => e[j] < e[k]
  <2>1. e \in Seq(1..n)
    BY <1>1 DEF IsPick
  <2> QED BY <1>1, <2>1 DEF IsPick
<1>4. Len(e) = n
  <2> SUFFICES ASSUME n < Len(e) PROVE FALSE
    BY <1>2, <1>3
  <2>1. n + 1 \in 1..Len(e) /\ n \in Nat
    BY <1>3
  <2>2. e[n + 1] \in 1..n
    BY <1>3, <2>1
  <2>3. n \in 1..Len(e) /\ n \in 1..n /\ e[n] = n
    BY <1>2, <2>1, <2>2
  <2>4. e[n] < e[n + 1]
    <3>1. n < n + 1
      BY <2>1
    <3> HIDE DEF n
    <3> QED BY <1>3, <2>1, <2>3, <3>1
  <2> QED BY <2>1, <2>2, <2>3, <2>4
<1>5. Filtered(s, T) = [k \in 1..Len(e) |-> s[e[k]]]
  BY <1>1 DEF IsPick
<1>6. [k \in 1..Len(e) |-> s[e[k]]] = [k \in 1..n |-> s[k]]
  BY <1>2, <1>4
<1>7. s = [k \in 1..n |-> s[k]]
  OBVIOUS
<1> QED BY <1>5, <1>6, <1>7

-----------------------------------------------------------------------------
(* Sums of sequences of numbers *)

(* The sum of numbers is the number of their cells. *)
LEMMA SumType ==
  ASSUME NEW s \in Seq(Nat)
  PROVE  SumOf(s) \in Nat /\ SumOf(s) = Cardinality(Cells(1..Len(s), s))
<1>1. DOMAIN s = 1..Len(s) /\ Len(s) \in Nat /\ \A i \in 1..Len(s) : s[i] \in Nat
  OBVIOUS
<1>2. IsFiniteSet(DOMAIN s)
  BY <1>1, FS_Interval
<1> QED BY <1>1, <1>2, SumIsCells

(* The sum of no numbers. *)
LEMMA SumOfNothing == SumOf(<<>>) = 0
<1>1. <<>> \in Seq(Nat) /\ 1..Len(<<>>) = {}
  OBVIOUS
<1>2. Cells(1..Len(<<>>), <<>>) = {}
  BY <1>1 DEF Cells
<1> QED BY <1>1, <1>2, SumType, FS_EmptySet

(* The sums of two sequences that differ at one place differ by as much. *)
LEMMA SumChanged ==
  ASSUME NEW s \in Seq(Nat), NEW t \in Seq(Nat), Len(s) = Len(t), NEW i \in 1..Len(s),
         \A j \in 1..Len(s) : j # i => t[j] = s[j]
  PROVE  SumOf(t) + s[i] = SumOf(s) + t[i]
<1> DEFINE K == 1..Len(s)
<1>1. IsFiniteSet(K \ {i}) /\ (\A j \in K : s[j] \in Nat /\ t[j] \in Nat)
  <2>1. Len(s) \in Nat /\ \A j \in K : s[j] \in Nat /\ t[j] \in Nat
    OBVIOUS
  <2>2. IsFiniteSet(K)
    BY <2>1, FS_Interval
  <2> HIDE DEF K
  <2> QED BY <2>1, <2>2, FS_RemoveElement
<1>2. Cells(K \ {i}, s) = Cells(K \ {i}, t)
  BY DEF Cells
<1>3. IsFiniteSet(Cells(K \ {i}, s))
  BY <1>1, CellsFinite
<1>4. Cardinality(Cells(K \ {i}, s)) \in Nat
  BY <1>3, FS_CardinalityType
<1>5. SumOf(s) = Cardinality(Cells(K, s)) /\ SumOf(t) = Cardinality(Cells(K, t))
  BY SumType
<1> HIDE DEF K
<1>6. Cardinality(Cells(K, s)) = s[i] + Cardinality(Cells(K \ {i}, s))
  BY <1>1, <1>3, CellsTaken DEF K
<1>7. Cardinality(Cells(K, t)) = t[i] + Cardinality(Cells(K \ {i}, t))
  BY <1>1, <1>2, <1>3, CellsTaken DEF K
<1>8. s[i] \in Nat /\ t[i] \in Nat
  OBVIOUS
<1> QED BY <1>2, <1>4, <1>5, <1>6, <1>7, <1>8

(* A sum with another number. *)
LEMMA SumAppend ==
  ASSUME NEW s \in Seq(Nat), NEW x \in Nat
  PROVE  SumOf(Append(s, x)) = SumOf(s) + x
<1> DEFINE n == Len(s)
           t == Append(s, x)
           K == 1..(n + 1)
<1>1. t \in Seq(Nat) /\ Len(t) = n + 1 /\ t[n + 1] = x /\ n \in Nat
      /\ \A j \in 1..n : t[j] = s[j]
  OBVIOUS
<1>2. K \ {n + 1} = 1..n /\ n + 1 \in K
  BY <1>1
<1> HIDE DEF t, K
<1>3. Cells(K \ {n + 1}, t) = Cells(1..n, s)
  BY <1>1, <1>2 DEF Cells
<1>4. IsFiniteSet(Cells(1..n, s))
  <2>1. \A j \in 1..n : s[j] \in Nat
    OBVIOUS
  <2>2. IsFiniteSet(1..n)
    BY <1>1, FS_Interval
  <2> HIDE DEF n
  <2> QED BY <2>1, <2>2, CellsFinite
<1>5. SumOf(t) = x + Cardinality(Cells(1..n, s))
  <2>1. Cardinality(Cells(K, t)) = t[n + 1] + Cardinality(Cells(K \ {n + 1}, t))
    BY <1>1, <1>2, <1>3, <1>4, CellsTaken
  <2>2. SumOf(t) = Cardinality(Cells(K, t))
    BY <1>1, SumType DEF K
  <2> QED BY <1>1, <1>3, <2>1, <2>2
<1>6. SumOf(s) = Cardinality(Cells(1..n, s)) /\ SumOf(s) \in Nat
  BY SumType
<1> QED BY <1>5, <1>6 DEF t

(* A sum without its first number. *)
LEMMA SumTail ==
  ASSUME NEW s \in Seq(Nat), s # <<>>
  PROVE  SumOf(s) = s[1] + SumOf(Tail(s))
<1> DEFINE P == {n \in Nat : \A u \in Seq(Nat) : Len(u) = n + 1 =>
                   SumOf(u) = u[1] + SumOf(Tail(u))}
<1>1. 0 \in P
  <2> SUFFICES ASSUME NEW u \in Seq(Nat), Len(u) = 1
               PROVE  SumOf(u) = u[1] + SumOf(Tail(u))
    OBVIOUS
  <2> HIDE DEF P
  <2>0. u[1] \in Nat /\ <<>> \in Seq(Nat) /\ Len(<<>>) = 0
    <3>1. 1 \in 1..Len(u)
      OBVIOUS
    <3> QED BY <3>1, ElementOfSeq, EmptySeq
  <2>1. u = Append(<<>>, u[1]) /\ Tail(u) = <<>>
    <3>1. Tail(u) = <<>>
      <4>1. u # <<>>
        <5> SUFFICES ASSUME u = <<>> PROVE FALSE
          OBVIOUS
        <5>1. Len(u) = Len(<<>>)
          BY Zenon
        <5> QED BY <2>0, <5>1
      <4>2. Tail(u) \in Seq(Nat) /\ Len(Tail(u)) = 0
        BY <4>1, HeadTailProperties
      <4> QED BY <4>2, EmptySeq
    <3>2. Append(<<>>, u[1]) \in Seq(Nat) /\ Len(Append(<<>>, u[1])) = 1
          /\ Append(<<>>, u[1])[1] = u[1]
      BY <2>0
    <3>3. \A i \in 1..1 : u[i] = Append(<<>>, u[1])[i]
      BY <3>2
    <3> QED BY <3>1, <3>2, <3>3, SeqEqual
  <2>2. SumOf(Append(<<>>, u[1])) = SumOf(<<>>) + u[1]
    BY <2>0, SumAppend
  <2>3. SumOf(u) = u[1] /\ SumOf(Tail(u)) = 0
    <3>1. SumOf(u) = 0 + u[1]
      BY <2>1, <2>2, SumOfNothing
    <3>2. SumOf(Tail(u)) = 0
      BY <2>1, SumOfNothing
    <3>3. 0 + u[1] = u[1]
      BY <2>0
    <3> QED BY <3>1, <3>2, <3>3
  <2>4. u[1] + 0 = u[1]
    BY <2>0
  <2> QED BY <2>3, <2>4
<1>2. ASSUME NEW n \in Nat, n \in P PROVE n + 1 \in P
  <2> SUFFICES ASSUME NEW u \in Seq(Nat), Len(u) = n + 1 + 1
               PROVE  SumOf(u) = u[1] + SumOf(Tail(u))
    OBVIOUS
  <2> DEFINE m == n + 1
             v == SubSeq(u, 1, m)
             x == u[m + 1]
  <2>1. m \in Nat /\ Len(u) = m + 1 /\ m >= 1
    OBVIOUS
  <2> HIDE DEF m
  <2>2. v \in Seq(Nat) /\ Len(v) = m /\ x \in Nat /\ u = Append(v, x) /\ v[1] = u[1]
    BY <2>1, FrontAndLast
  <2> HIDE DEF v, x
  <2>3. Tail(u) = Append(Tail(v), x) /\ Tail(v) \in Seq(Nat) /\ v[1] \in Nat
    BY <2>1, <2>2
  <2>4. SumOf(v) = v[1] + SumOf(Tail(v))
    BY <1>2, <2>2 DEF m
  <2>5. SumOf(u) = SumOf(v) + x /\ SumOf(Tail(u)) = SumOf(Tail(v)) + x
    BY <2>2, <2>3, SumAppend
  <2>6. SumOf(Tail(v)) \in Nat
    BY <2>3, SumType
  <2> QED BY <2>2, <2>3, <2>4, <2>5, <2>6
<1>3. Nat \subseteq P
  <2> HIDE DEF P
  <2> QED BY <1>1, <1>2, Inductive
<1>4. Len(s) - 1 \in Nat /\ Len(s) - 1 + 1 = Len(s)
  OBVIOUS
<1>5. Len(s) - 1 \in P
  <2> HIDE DEF P
  <2> QED BY <1>3, <1>4
<1> QED BY <1>4, <1>5

-----------------------------------------------------------------------------
(***************************************************************************)
(* The greatest and the least of a set of places                           *)
(***************************************************************************)

(* A bounded set of numbers has a greatest one, and Max is it. *)
LEMMA GreatestOf ==
  ASSUME NEW n \in Nat, NEW T, T \subseteq 1..n, T # {}
  PROVE  Max(T) \in T /\ \A y \in T : y <= Max(T)
<1> DEFINE U == {n - x : x \in T}
<1>1. \A x \in T : x \in Nat /\ n - x \in Nat
  OBVIOUS
<1>2. U \subseteq Nat /\ U # {}
  BY <1>1
<1>3. PICK u \in U : \A y \in U : u <= y
  <2> HIDE DEF U
  <2> QED BY <1>2, LeastNumber
<1>4. PICK x \in T : u = n - x
  BY <1>3
<1>5. \A y \in T : x >= y
  <2>1. TAKE y \in T
  <2>2. n - x <= n - y
    BY <1>3, <1>4
  <2> QED BY <1>1, <2>2
<1>6. \E z \in T : \A y \in T : z >= y
  BY <1>5
<1>7. Max(T) \in T /\ \A y \in T : Max(T) >= y
  BY <1>6, Zenon DEF Max
<1> QED BY <1>1, <1>7

(* A set of numbers has a least one, and Min is it. *)
LEMMA LeastOf ==
  ASSUME NEW n \in Nat, NEW T, T \subseteq 1..n, T # {}
  PROVE  Min(T) \in T /\ \A y \in T : Min(T) <= y
<1>1. T \subseteq Nat
  OBVIOUS
<1>2. \E z \in T : \A y \in T : z =< y
  BY <1>1, LeastNumber
<1> QED BY <1>2, Zenon DEF Min

(* One sequence flattens to itself. *)
LEMMA FlattenOne ==
  ASSUME NEW s
  PROVE  FlattenSeq(<<s>>) = s
<1>1. PICK ss : ss = <<s>>
  OBVIOUS
<1>2. Len(ss) = 1 /\ ss[1] = s
  BY <1>1
<1>3. \E f : IsFlat(f, ss, Len(ss)) /\ FlattenSeq(ss) = f[Len(ss)]
  <2>1. Len(ss) \in Nat /\ Len(ss) # 0
    BY <1>2
  <2> QED BY <2>1, FlattenRule, Zenon
<1>4. PICK f : f = [i \in 1..1 |-> Longer(ss, f, i)] /\ FlattenSeq(ss) = f[1]
  BY <1>2, <1>3 DEF IsFlat
<1>5. f[1] = Longer(ss, f, 1)
  BY <1>4
<1>6. Longer(ss, f, 1) = s
  BY <1>2 DEF Longer
<1> QED BY <1>1, <1>4, <1>5, <1>6

-----------------------------------------------------------------------------
(***************************************************************************)
(* Sums over any finite set, and the greater and the less of two           *)
(***************************************************************************)

(* The sum of numbers is a number. *)
LEMMA SumIsNumber ==
  ASSUME NEW f, IsFiniteSet(DOMAIN f), \A x \in DOMAIN f : f[x] \in Nat
  PROVE  SumOf(f) \in Nat
BY SumIsCells

(* Sums that differ at one place differ by as much. *)
LEMMA SumMoved ==
  ASSUME NEW D, IsFiniteSet(D), NEW f \in [D -> Nat], NEW g \in [D -> Nat], NEW x \in D,
         \A y \in D \ {x} : g[y] = f[y]
  PROVE  SumOf(g) = SumOf(f) - f[x] + g[x]
<1>1. DOMAIN f = D /\ DOMAIN g = D
  OBVIOUS
<1>2. (\A y \in D : f[y] \in Nat) /\ (\A y \in D : g[y] \in Nat)
  OBVIOUS
<1>3. SumOf(f) = Cardinality(Cells(D, f)) /\ SumOf(g) = Cardinality(Cells(D, g))
  BY <1>1, <1>2, SumIsCells
<1>4. IsFiniteSet(Cells(D, f))
  BY <1>2, CellsFinite
<1>5. Resized(D, f, g, x)
  BY <1>2 DEF Resized
<1> QED BY <1>3, <1>4, <1>5, CellsResized

(* The sum of nothing but zeros is none. *)
LEMMA SumOfZeros ==
  ASSUME NEW f, IsFiniteSet(DOMAIN f), \A x \in DOMAIN f : f[x] = 0
  PROVE  SumOf(f) = 0
<1>1. \A x \in DOMAIN f : f[x] \in Nat
  OBVIOUS
<1>2. Cells(DOMAIN f, f) = {}
  BY DEF Cells, Row
<1> QED BY <1>1, <1>2, SumIsCells, FS_EmptySet

(* A sum is no less than one of its numbers. *)
LEMMA SumCovers ==
  ASSUME NEW f, IsFiniteSet(DOMAIN f), \A y \in DOMAIN f : f[y] \in Nat, NEW x \in DOMAIN f
  PROVE  f[x] <= SumOf(f)
<1>1. PICK D : D = DOMAIN f
  OBVIOUS
<1>2. IsFiniteSet(D \ {x})
  BY <1>1, FS_Subset
<1>3. IsFiniteSet(Cells(D \ {x}, f))
  BY <1>1, <1>2, CellsFinite
<1>4. Cardinality(Cells(D, f)) = f[x] + Cardinality(Cells(D \ {x}, f))
  BY <1>1, <1>3, CellsTaken
<1>5. SumOf(f) = Cardinality(Cells(D, f))
  BY <1>1, SumIsCells
<1>6. Cardinality(Cells(D \ {x}, f)) \in Nat /\ f[x] \in Nat
  BY <1>1, <1>3, FS_CardinalityType
<1> QED BY <1>4, <1>5, <1>6

(* The greater of two numbers. *)
LEMMA MaxOfTwo ==
  ASSUME NEW a \in Int, NEW b \in Int
  PROVE  Max({a, b}) = IF a >= b THEN a ELSE b
<1>1. \E x \in {a, b} : \A y \in {a, b} : x >= y
  OBVIOUS
<1>2. Max({a, b}) \in {a, b} /\ \A y \in {a, b} : Max({a, b}) >= y
  BY <1>1, Zenon DEF Max
<1> QED BY <1>2

(* And the less of two. *)
LEMMA MinOfTwo ==
  ASSUME NEW a \in Int, NEW b \in Int
  PROVE  Min({a, b}) = IF a <= b THEN a ELSE b
<1>1. \E x \in {a, b} : \A y \in {a, b} : x =< y
  OBVIOUS
<1>2. Min({a, b}) \in {a, b} /\ \A y \in {a, b} : Min({a, b}) =< y
  BY <1>1, Zenon DEF Min
<1> QED BY <1>2

(* The sum of some numbers and another is no more than that of all. *)
LEMMA SumOfPart ==
  ASSUME NEW D, IsFiniteSet(D), NEW f \in [D -> Nat], NEW C, C \subseteq D, NEW x \in D \ C
  PROVE  /\ SumOf([y \in C |-> f[y]]) \in Nat
         /\ SumOf([y \in C |-> f[y]]) + f[x] <= SumOf(f)
<1>1. PICK g : g = [y \in C |-> f[y]]
  OBVIOUS
<1>2. /\ DOMAIN f = D /\ DOMAIN g = C /\ IsFiniteSet(C) /\ IsFiniteSet(D \ {x})
      /\ (\A y \in D : f[y] \in Nat) /\ \A y \in C : g[y] \in Nat /\ g[y] = f[y]
  BY <1>1, FS_Subset
<1>3. SumOf(f) = Cardinality(Cells(D, f)) /\ SumOf(g) = Cardinality(Cells(C, g))
      /\ SumOf(g) \in Nat
  BY <1>2, SumIsCells
<1>4. Cells(C, g) = Cells(C, f)
  BY <1>2 DEF Cells
<1>5. IsFiniteSet(Cells(D \ {x}, f))
  BY <1>2, CellsFinite
<1>6. Cardinality(Cells(D, f)) = f[x] + Cardinality(Cells(D \ {x}, f))
  BY <1>2, <1>5, CellsTaken
<1>7. Cells(C, f) \subseteq Cells(D \ {x}, f)
  BY DEF Cells
<1>8. Cardinality(Cells(C, f)) <= Cardinality(Cells(D \ {x}, f))
      /\ Cardinality(Cells(C, f)) \in Nat /\ Cardinality(Cells(D \ {x}, f)) \in Nat
  BY <1>5, <1>7, FS_Subset, FS_CardinalityType
<1>9. f[x] \in Nat
  OBVIOUS
<1> QED BY <1>1, <1>3, <1>4, <1>6, <1>8, <1>9

(* As many, one for one. *)
LEMMA SameCount ==
  ASSUME NEW S, IsFiniteSet(S), NEW T, NEW h \in [S -> T],
         \A x, y \in S : h[x] = h[y] => x = y, \A t \in T : \E x \in S : h[x] = t
  PROVE  IsFiniteSet(T) /\ Cardinality(T) = Cardinality(S)
<1>1. h \in Bijection(S, T)
  BY DEF Bijection, Injection, Surjection, IsInjective
<1>2. ExistsBijection(S, T)
  BY <1>1 DEF ExistsBijection
<1> QED BY <1>2, FS_Bijection

(* A cell of those that hold f. *)
LEMMA CellIs ==
  ASSUME NEW K, NEW f
  PROVE  /\ \A x \in Cells(K, f) : x = <<x[1], x[2]>> /\ x[1] \in K /\ x[2] \in 1..f[x[1]]
         /\ \A c \in K : \A m \in 1..f[c] : <<c, m>> \in Cells(K, f)
BY DEF Cells, Row

(* A sum does not depend on what its terms are called. *)
LEMMA SumRenamed ==
  ASSUME NEW f, NEW g, IsFiniteSet(DOMAIN f), NEW h \in [DOMAIN f -> DOMAIN g],
         \A x, y \in DOMAIN f : h[x] = h[y] => x = y,
         \A t \in DOMAIN g : \E x \in DOMAIN f : h[x] = t,
         \A x \in DOMAIN f : f[x] \in Nat /\ g[h[x]] = f[x]
  PROVE  SumOf(g) = SumOf(f)
<1>1. PICK D, E : D = DOMAIN f /\ E = DOMAIN g
  OBVIOUS
<1>2. IsFiniteSet(E) /\ \A t \in E : g[t] \in Nat
  BY <1>1, SameCount
<1>3. IsFiniteSet(Cells(D, f))
  BY <1>1, CellsFinite
<1>4. PICK k : k = [x \in Cells(D, f) |-> <<h[x[1]], x[2]>>]
  OBVIOUS
<1>5. \A x \in Cells(D, f) : k[x][1] = h[x[1]] /\ k[x][2] = x[2]
  BY <1>4
<1>6. k \in [Cells(D, f) -> Cells(E, g)]
  <2>1. ASSUME NEW x \in Cells(D, f) PROVE <<h[x[1]], x[2]>> \in Cells(E, g)
    <3>1. x[1] \in D /\ x[2] \in 1..f[x[1]]
      BY CellIs
    <3>2. h[x[1]] \in E /\ x[2] \in 1..g[h[x[1]]]
      BY <1>1, <3>1
    <3> QED BY <3>2, CellIs
  <2> QED BY <1>4, <2>1
<1>7. \A x, y \in Cells(D, f) : k[x] = k[y] => x = y
  <2>1. SUFFICES ASSUME NEW x \in Cells(D, f), NEW y \in Cells(D, f), k[x] = k[y] PROVE x = y
    OBVIOUS
  <2>2. x[1] = y[1] /\ x[2] = y[2]
    BY <1>1, <1>5, <2>1, CellIs
  <2> QED BY <2>2, CellIs
<1>8. \A t \in Cells(E, g) : \E x \in Cells(D, f) : k[x] = t
  <2>1. SUFFICES ASSUME NEW t \in Cells(E, g) PROVE \E x \in Cells(D, f) : k[x] = t
    OBVIOUS
  <2>2. t = <<t[1], t[2]>> /\ t[1] \in E /\ t[2] \in 1..g[t[1]]
    BY CellIs
  <2>3. PICK c \in D : h[c] = t[1]
    BY <1>1, <2>2
  <2>4. PICK x : x = <<c, t[2]>>
    OBVIOUS
  <2>5. x \in Cells(D, f) /\ x[1] = c /\ x[2] = t[2]
    BY <1>1, <2>2, <2>3, <2>4, CellIs
  <2>6. k[x] = <<t[1], t[2]>>
    BY <1>4, <2>3, <2>5
  <2> QED BY <2>2, <2>5, <2>6
<1>9. Cardinality(Cells(E, g)) = Cardinality(Cells(D, f))
  BY <1>3, <1>6, <1>7, <1>8, SameCount
<1>10. SumOf(f) = Cardinality(Cells(D, f))
  BY <1>1, SumIsCells
<1>11. SumOf(g) = Cardinality(Cells(E, g))
  BY <1>1, <1>2, SumIsCells
<1> QED BY <1>9, <1>10, <1>11

(* A sum whose numbers are covered by those of two others. *)
LEMMA SumCovered ==
  ASSUME NEW s \in Seq(Nat), NEW t \in Seq(Nat), NEW u \in Seq(Nat),
         Len(t) = Len(s), Len(u) = Len(s), \A i \in 1..Len(s) : s[i] <= t[i] + u[i]
  PROVE  SumOf(s) <= SumOf(t) + SumOf(u)
<1> DEFINE Cover(a, b, c) == \A i \in 1..Len(a) : a[i] <= b[i] + c[i]
           P == {n \in Nat : \A a, b, c \in Seq(Nat) :
                   Len(a) = n /\ Len(b) = n /\ Len(c) = n /\ Cover(a, b, c) =>
                     SumOf(a) <= SumOf(b) + SumOf(c)}
<1>1. 0 \in P
  <2>1. ASSUME NEW a \in Seq(Nat), Len(a) = 0 PROVE SumOf(a) = 0
    BY <2>1, EmptySeq, SumOfNothing
  <2> QED BY <2>1
<1>2. ASSUME NEW n \in Nat, n \in P PROVE n + 1 \in P
  <2> SUFFICES ASSUME NEW a \in Seq(Nat), NEW b \in Seq(Nat), NEW c \in Seq(Nat),
                      Len(a) = n + 1, Len(b) = n + 1, Len(c) = n + 1, Cover(a, b, c)
               PROVE  SumOf(a) <= SumOf(b) + SumOf(c)
    OBVIOUS
  <2>1. PICK d, e, f : d = SubSeq(a, 1, n) /\ e = SubSeq(b, 1, n) /\ f = SubSeq(c, 1, n)
    OBVIOUS
  <2>2. d \in Seq(Nat) /\ Len(d) = n /\ a[n + 1] \in Nat /\ a = Append(d, a[n + 1])
        /\ \A i \in 1..n : d[i] = a[i]
    BY <2>1, FrontAndLast
  <2>3. e \in Seq(Nat) /\ Len(e) = n /\ b[n + 1] \in Nat /\ b = Append(e, b[n + 1])
        /\ \A i \in 1..n : e[i] = b[i]
    BY <2>1, FrontAndLast
  <2>4. f \in Seq(Nat) /\ Len(f) = n /\ c[n + 1] \in Nat /\ c = Append(f, c[n + 1])
        /\ \A i \in 1..n : f[i] = c[i]
    BY <2>1, FrontAndLast
  <2>5. Cover(d, e, f) /\ a[n + 1] <= b[n + 1] + c[n + 1]
    <3>1. n + 1 \in 1..Len(a) /\ \A i \in 1..n : i \in 1..Len(a)
      OBVIOUS
    <3> QED BY <2>2, <2>3, <2>4, <3>1
  <2>6. SumOf(d) <= SumOf(e) + SumOf(f)
    BY <1>2, <2>2, <2>3, <2>4, <2>5
  <2>7. /\ SumOf(a) = SumOf(d) + a[n + 1] /\ SumOf(b) = SumOf(e) + b[n + 1]
        /\ SumOf(c) = SumOf(f) + c[n + 1]
    <3>1. SumOf(Append(d, a[n + 1])) = SumOf(d) + a[n + 1]
      BY <2>2, SumAppend
    <3>2. SumOf(Append(e, b[n + 1])) = SumOf(e) + b[n + 1]
      BY <2>3, SumAppend
    <3>3. SumOf(Append(f, c[n + 1])) = SumOf(f) + c[n + 1]
      BY <2>4, SumAppend
    <3> QED BY ONLY <2>2, <2>3, <2>4, <3>1, <3>2, <3>3, Zenon
  <2>8. SumOf(d) \in Nat /\ SumOf(e) \in Nat /\ SumOf(f) \in Nat
    BY <2>2, <2>3, <2>4, SumType
  <2>9. PICK x, y, z : x = a[n + 1] /\ y = b[n + 1] /\ z = c[n + 1]
    OBVIOUS
  <2>10. x \in Nat /\ y \in Nat /\ z \in Nat /\ x <= y + z
    BY <2>2, <2>3, <2>4, <2>5, <2>9
  <2>11. SumOf(a) = SumOf(d) + x /\ SumOf(b) = SumOf(e) + y /\ SumOf(c) = SumOf(f) + z
    BY <2>7, <2>9
  <2> QED BY ONLY <2>6, <2>8, <2>10, <2>11
<1>3. Nat \subseteq P
  <2> HIDE DEF P
  <2> QED BY <1>1, <1>2, Inductive
<1>4. PICK n : n = Len(s) /\ n \in Nat
  OBVIOUS
<1>5. n \in P
  BY <1>3, <1>4
<1> QED BY <1>4, <1>5
=============================================================================
