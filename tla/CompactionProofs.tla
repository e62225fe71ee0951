-------------------------- MODULE CompactionProofs --------------------------
(***************************************************************************)
(* Proofs about Compaction for every set of compactors, every bound and    *)
(* every configuration the engine accepts.                                 *)
(***************************************************************************)
EXTENDS Compaction, FiniteFacts, FiniteSetTheorems, TLAPS

(***************************************************************************)
(* Tokens.                                                                 *)
(***************************************************************************)

\* The tokens of the items I of w, as units.
TokensOf(w, I) == [i \in I |-> w[i].tokens]

LEMMA TokensAtCounts ==
    ASSUME NEW w, NEW I, IsFiniteSet(I), \A i \in I : w[i].tokens \in Nat
    PROVE  TokensAt(w, I) = Cardinality(Units(TokensOf(w, I), I))
<1> DEFINE f == TokensOf(w, I)
           Law(sum) == sum = [s \in SUBSET I |->
                                IF s = {} THEN 0 ELSE w[Pick(s)].tokens + sum[s \ {Pick(s)}]]
<1>1. \A s \in SUBSET I : s # {} => Pick(s) \in I
  BY DEF Pick
<1>2. \A i \in I : f[i] = w[i].tokens /\ f[i] \in Nat
  BY DEF TokensOf
<1>3. ASSUME NEW sum PROVE Law(sum) <=> SumsOver(sum, f, I)
  <2>1. \A s \in SUBSET I : s # {} => f[Pick(s)] = w[Pick(s)].tokens
    BY <1>1, <1>2
  <2> HIDE DEF f
  <2> QED  BY <2>1 DEF SumsOver
<1>4. \E sum : Law(sum)
  <2> HIDE DEF f, Law
  <2> QED  BY <1>2, <1>3, SumsOverExists
<1>5. \E sum : Law(sum) /\ TokensAt(w, I) = sum[I]
  <2>1. TokensAt(w, I) = (CHOOSE sum : Law(sum))[I]
    BY DEF TokensAt, MapThenSumSet, MapThenFoldSet, Pick
  <2> HIDE DEF Law
  <2> QED  BY <1>4, <2>1
<1> HIDE DEF f, Law
<1> QED  BY <1>2, <1>3, <1>5, SumsOverCounts DEF f

(***************************************************************************)
(* Windows.                                                                *)
(***************************************************************************)

\* A window whose items are in order.
Sorted(w) == Ordered(w) /\ \A i \in DOMAIN w : w[i].lo <= w[i].hi

\* The spans of a window's items are numbers.
LEMMA ItemSpans ==
    ASSUME NEW w \in Seq(Item)
    PROVE  /\ Len(w) \in Nat /\ DOMAIN w = 1..Len(w)
           /\ \A i \in DOMAIN w :
                w[i] \in Item /\ w[i].lo \in Nat /\ w[i].hi \in Nat
<1>1. Len(w) \in Nat /\ DOMAIN w = 1..Len(w)
  OBVIOUS
<1>2. SUFFICES ASSUME NEW i \in DOMAIN w
               PROVE  w[i] \in Item /\ w[i].lo \in Nat /\ w[i].hi \in Nat
  BY <1>1
<1>3. w[i] \in Item
  BY <1>1
<1> QED
  BY <1>3 DEF Item

\* The highest sequence number of a sorted window is its last item's.
LEMMA LastSeqOfSorted ==
    ASSUME NEW w \in Seq(Item), Sorted(w)
    PROVE  /\ LastSeq(w) \in Nat
           /\ w = <<>> => LastSeq(w) = 0
           /\ w # <<>> => LastSeq(w) = w[Len(w)].hi
           /\ \A i \in DOMAIN w : w[i].hi <= LastSeq(w)
<1>1. CASE w = <<>>
  BY <1>1 DEF LastSeq
<1>2. CASE w # <<>>
  <2> DEFINE S == {w[i].hi : i \in DOMAIN w}
  <2>1. Len(w) \in DOMAIN w /\ DOMAIN w = 1..Len(w) /\ Len(w) \in Nat
    BY <1>2
  <2>2. \A i \in DOMAIN w : w[i].hi \in Nat /\ w[i].lo \in Nat
    BY ItemSpans
  <2>3. \A i \in DOMAIN w : w[i].hi <= w[Len(w)].hi
    BY <2>1, <2>2 DEF Sorted, Ordered
  <2>4. w[Len(w)].hi \in S /\ \A y \in S : w[Len(w)].hi >= y
    BY <2>1, <2>2, <2>3
  <2>5. Max(S) \in S /\ \A y \in S : Max(S) >= y
    BY <2>4 DEF Max
  <2>6. \A y \in S : y \in Nat
    BY <2>2
  <2>7. Max(S) = w[Len(w)].hi
    <3> HIDE DEF S
    <3> QED BY <2>4, <2>5, <2>6
  <2>8. LastSeq(w) = Max(S)
    BY <1>2 DEF LastSeq
  <2> QED
    BY <1>2, <2>1, <2>2, <2>3, <2>7, <2>8
<1> QED
  BY <1>1, <1>2

\* The items of a block lie inside the block's span.
LEMMA BlockSpan ==
    ASSUME NEW w \in Seq(Item), NEW h, Tiles(w, h),
           NEW s \in DOMAIN w, NEW e \in DOMAIN w, NEW a \in s..e
    PROVE  a \in DOMAIN w /\ w[s].lo <= w[a].lo /\ w[a].hi <= w[e].hi
<1>1. /\ Len(w) \in Nat /\ DOMAIN w = 1..Len(w)
      /\ \A i \in DOMAIN w : w[i].lo \in Nat /\ w[i].hi \in Nat /\ w[i].lo <= w[i].hi
      /\ \A i, j \in DOMAIN w : i < j => w[i].hi < w[j].lo
  BY ItemSpans DEF Tiles, InRange, Ordered
<1>2. a \in DOMAIN w
  BY <1>1
<1>3. w[s].lo <= w[a].lo
  BY <1>1, <1>2
<1>4. w[a].hi <= w[e].hi
  BY <1>1, <1>2
<1> QED
  BY <1>2, <1>3, <1>4

\* Replacing a block by one item of the same span keeps a window a tiling.
LEMMA ReplaceTiles ==
    ASSUME NEW w \in Seq(Item), NEW h \in Nat, Tiles(w, h),
           NEW s \in DOMAIN w, NEW e \in DOMAIN w, s <= e,
           NEW item \in Item, item.lo = w[s].lo, item.hi = w[e].hi
    PROVE  /\ ReplaceRange(w, s, e, item) \in Seq(Item)
           /\ Tiles(ReplaceRange(w, s, e, item), h)
<1> DEFINE v == ReplaceRange(w, s, e, item)
           n == Len(w) - (e - s)
<1>1. /\ Len(w) \in Nat /\ DOMAIN w = 1..Len(w)
      /\ s \in Nat /\ e \in Nat /\ 1 <= s /\ e <= Len(w)
      /\ \A i \in DOMAIN w : w[i] \in Item /\ w[i].lo \in Nat /\ w[i].hi \in Nat
  BY ItemSpans
<1>2. n \in Nat /\ s \in 1..n
  BY <1>1
<1>3. /\ \A i \in 1..n : i < s => v[i] = w[i] /\ i \in DOMAIN w
      /\ v[s] = item
      /\ \A i \in 1..n : i > s => v[i] = w[i + (e - s)] /\ i + (e - s) \in DOMAIN w
  BY <1>1, <1>2 DEF ReplaceRange
<1>4. v \in Seq(Item) /\ DOMAIN v = 1..n
  <2>1. v = [i \in 1..n |-> v[i]]
    BY DEF ReplaceRange
  <2>2. \A i \in 1..n : v[i] \in Item
    BY SMTT(30), <1>1, <1>2, <1>3
  <2> HIDE DEF v
  <2> QED
    BY SMTT(30), <1>2, <2>1, <2>2
<1>5. w[s].lo <= w[s].hi /\ w[s].hi <= w[e].hi /\ item.lo \in Nat /\ item.hi \in Nat
  BY <1>1 DEF Tiles, InRange, Ordered
<1>6. InRange(v, h)
  <2> HIDE DEF v
  <2>1. \A i \in DOMAIN w : 1 <= w[i].lo /\ w[i].lo <= w[i].hi /\ w[i].hi <= h
    BY DEF Tiles, InRange
  <2>2. 1 <= item.lo /\ item.lo <= item.hi /\ item.hi <= h
    BY <1>1, <1>5, <2>1
  <2>3. SUFFICES ASSUME NEW i \in 1..n
                 PROVE  1 <= v[i].lo /\ v[i].lo <= v[i].hi /\ v[i].hi <= h
    BY <1>4 DEF InRange
  <2>4. i < s \/ i = s \/ i > s
    BY <1>1
  <2> QED
    BY <1>3, <2>1, <2>2, <2>4
<1>7. Ordered(v)
  <2> HIDE DEF v
  <2> SUFFICES ASSUME NEW i \in 1..n, NEW j \in 1..n, i < j PROVE v[i].hi < v[j].lo
    BY <1>4 DEF Ordered
  <2>1. /\ \A a, b \in DOMAIN w : a < b => w[a].hi < w[b].lo
        /\ \A a \in DOMAIN w : w[a].lo <= w[a].hi
    BY DEF Tiles, Ordered, InRange
  <2>2. CASE j < s
    <3>1. v[i] = w[i] /\ v[j] = w[j] /\ i \in DOMAIN w /\ j \in DOMAIN w
      BY <1>1, <1>2, <1>3, <2>2
    <3> QED
      BY <2>1, <3>1
  <2>3. CASE j = s
    <3>1. v[i] = w[i] /\ v[j] = item /\ i \in DOMAIN w /\ i < s
      BY <1>1, <1>2, <1>3, <2>3
    <3> QED
      BY <2>1, <3>1
  <2>4. CASE i = s
    <3>1. v[i] = item /\ v[j] = w[j + (e - s)] /\ j + (e - s) \in DOMAIN w
          /\ e < j + (e - s)
      BY <1>1, <1>2, <1>3, <2>4
    <3> QED
      BY <2>1, <3>1
  <2>5. CASE i < s /\ s < j
    <3>1. v[i] = w[i] /\ v[j] = w[j + (e - s)] /\ i \in DOMAIN w
          /\ j + (e - s) \in DOMAIN w /\ i < j + (e - s)
      BY <1>1, <1>2, <1>3, <2>5
    <3> QED
      BY <2>1, <3>1
  <2>6. CASE s < i
    <3> DEFINE a == i + (e - s)
               b == j + (e - s)
    <3>1. v[i] = w[a] /\ v[j] = w[b] /\ a \in DOMAIN w /\ b \in DOMAIN w
      BY <1>1, <1>2, <1>3, <2>6
    <3>2. a < b
      BY <1>1
    <3> HIDE DEF a, b
    <3> QED
      BY <3>1, <3>2 DEF Tiles, Ordered
  <2> QED
    BY <1>2, <2>2, <2>3, <2>4, <2>5, <2>6
<1>8. Covers(v, h)
  <2> HIDE DEF v
  <2> SUFFICES ASSUME NEW m \in 1..h
               PROVE  \E i \in 1..n : v[i].lo <= m /\ m <= v[i].hi
    BY <1>4 DEF Covers
  <2>1. PICK i \in DOMAIN w : w[i].lo <= m /\ m <= w[i].hi
    BY DEF Tiles, Covers
  <2>2. CASE i < s
    <3>1. i \in 1..n /\ v[i] = w[i]
      BY <1>1, <1>2, <1>3, <2>2
    <3> QED
      BY <2>1, <3>1
  <2>3. CASE s <= i /\ i <= e
    <3>1. w[s].lo <= w[i].lo /\ w[i].hi <= w[e].hi
      BY SMTT(30), <2>3, <1>1 DEF Tiles, Ordered, InRange
    <3>2. item.lo <= m /\ m <= item.hi
      BY <1>1, <1>5, <2>1, <3>1
    <3> QED
      BY <1>2, <1>3, <3>2
  <2>4. CASE e < i
    <3>1. i - (e - s) \in 1..n /\ i - (e - s) > s
      BY <1>1, <2>4
    <3>2. v[i - (e - s)] = w[(i - (e - s)) + (e - s)] /\ (i - (e - s)) + (e - s) = i
      BY <1>1, <1>3, <3>1
    <3> QED
      BY <2>1, <3>1, <3>2
  <2> QED
    BY <1>1, <2>2, <2>3, <2>4
<1> QED
  BY <1>4, <1>6, <1>7, <1>8 DEF Tiles

\* A window that tiles 1..h ends at h.
LEMMA TilesLast ==
    ASSUME NEW w \in Seq(Item), NEW h \in Nat, Tiles(w, h)
    PROVE  LastSeq(w) = h
<1>1. Sorted(w)
  BY DEF Tiles, InRange, Sorted
<1>2. /\ LastSeq(w) \in Nat
      /\ w = <<>> => LastSeq(w) = 0
      /\ w # <<>> => LastSeq(w) = w[Len(w)].hi
      /\ \A i \in DOMAIN w : w[i].hi <= LastSeq(w)
  BY <1>1, LastSeqOfSorted
<1>3. LastSeq(w) <= h
  BY <1>2, ItemSpans DEF Tiles, InRange
<1>4. CASE h = 0
  BY <1>2, <1>3, <1>4
<1>5. CASE h # 0
  <2>1. PICK i \in DOMAIN w : w[i].lo <= h /\ h <= w[i].hi
    BY <1>5 DEF Tiles, Covers
  <2>2. w[i].hi \in Nat /\ w[i].hi <= LastSeq(w)
    BY <1>2, ItemSpans
  <2> QED
    BY <1>2, <1>3, <2>1, <2>2
<1> QED
  BY <1>4, <1>5

(***************************************************************************)
(* Windows over the rows of the store.  M stands for the messages and S    *)
(* for the summaries, so that the facts below are about values and apply   *)
(* to the state before a step and to the state after it alike.             *)
(***************************************************************************)
ItemOK(it, M, S) ==
    \/ /\ it.ref \in DOMAIN M
       /\ it = [kind |-> "message", ref |-> it.ref, role |-> M[it.ref].role,
                tokens |-> M[it.ref].tokens, lo |-> it.ref, hi |-> it.ref, depth |-> 0]
    \/ /\ it.ref \in DOMAIN S
       /\ it = [kind |-> "summary", ref |-> it.ref, role |-> "none",
                tokens |-> S[it.ref].tokens, lo |-> S[it.ref].lo, hi |-> S[it.ref].hi,
                depth |-> S[it.ref].depth]

WindowOK(w, M, S) ==
    /\ w \in Seq(Item)
    /\ \A i \in DOMAIN w : ItemOK(w[i], M, S)
    /\ Tiles(w, LastSeq(w))
    /\ LastSeq(w) \in Nat /\ LastSeq(w) <= Len(M)

\* b is a with rows added after it.
Grows(a, b) ==
    /\ Len(a) \in Nat /\ Len(b) \in Nat /\ Len(a) <= Len(b)
    /\ DOMAIN a \subseteq DOMAIN b
    /\ \A i \in DOMAIN a : b[i] = a[i]

\* Rows are immutable, so a window stays good while the tables grow.
LEMMA WindowOKGrows ==
    ASSUME NEW M, NEW M2, Grows(M, M2), NEW S, NEW S2, Grows(S, S2),
           NEW w, WindowOK(w, M, S)
    PROVE  WindowOK(w, M2, S2)
<1>1. ASSUME NEW i \in DOMAIN w PROVE ItemOK(w[i], M2, S2)
  BY <1>1 DEF WindowOK, ItemOK, Grows
<1> QED
  BY <1>1 DEF WindowOK, Grows

\* A table grows when a row is appended.
LEMMA AppendGrows ==
    ASSUME NEW T, NEW a \in Seq(T), NEW x
    PROVE  Grows(a, Append(a, x)) /\ Grows(a, a)
BY DEF Grows

NewerItems(w, M) ==
    [i \in 1..(Len(M) - LastSeq(w)) |->
        [kind |-> "message", ref |-> LastSeq(w) + i, role |-> M[LastSeq(w) + i].role,
         tokens |-> M[LastSeq(w) + i].tokens, lo |-> LastSeq(w) + i,
         hi |-> LastSeq(w) + i, depth |-> 0]]

\* Appending the messages after a window's last makes it tile the whole log.
LEMMA ExtendTiles ==
    ASSUME NEW M \in Seq(Message), NEW S, NEW w, WindowOK(w, M, S)
    PROVE  /\ WindowOK(w \o NewerItems(w, M), M, S)
           /\ Tiles(w \o NewerItems(w, M), Len(M))
<1> DEFINE h == LastSeq(w)
           x == NewerItems(w, M)
           v == w \o x
           n == Len(w)
<1>1. /\ w \in Seq(Item) /\ h \in Nat /\ h <= Len(M) /\ Len(M) \in Nat
      /\ DOMAIN M = 1..Len(M) /\ n \in Nat /\ DOMAIN w = 1..n
      /\ \A i \in DOMAIN w : w[i].lo \in Nat /\ w[i].hi \in Nat
  BY ItemSpans DEF WindowOK
<1>2. \A i \in 1..(Len(M) - h) :
        /\ x[i] = [kind |-> "message", ref |-> h + i, role |-> M[h + i].role,
                   tokens |-> M[h + i].tokens, lo |-> h + i, hi |-> h + i, depth |-> 0]
        /\ h + i \in DOMAIN M
  BY <1>1 DEF NewerItems
<1>3. \A i \in 1..(Len(M) - h) : x[i] \in Item /\ ItemOK(x[i], M, S)
  <2> SUFFICES ASSUME NEW i \in 1..(Len(M) - h) PROVE x[i] \in Item /\ ItemOK(x[i], M, S)
    OBVIOUS
  <2>1. M[h + i] \in Message
    BY <1>1, <1>2
  <2>2. M[h + i].role \in Roles /\ M[h + i].tokens \in Nat
    BY <2>1, InputAssumption DEF Message
  <2>3. /\ x[i] = [kind |-> "message", ref |-> h + i, role |-> M[h + i].role,
                   tokens |-> M[h + i].tokens, lo |-> h + i, hi |-> h + i, depth |-> 0]
        /\ h + i \in DOMAIN M /\ h + i \in Nat
    BY <1>1, <1>2
  <2> HIDE DEF x, h
  <2>4. x[i] \in Item
    <3>1. "message" \in Kinds /\ M[h + i].role \in Roles \cup {"none"} /\ 0 \in Nat
      BY <2>2 DEF Kinds
    <3> QED
      BY <2>2, <2>3, <3>1 DEF Item
  <2>5. ItemOK(x[i], M, S)
    <3>1. x[i].ref = h + i
      BY <2>3
    <3> QED
      BY <2>3, <3>1 DEF ItemOK
  <2> QED
    BY <2>4, <2>5
<1>4. x \in Seq(Item) /\ Len(x) = Len(M) - h
  <2>1. x = [i \in 1..(Len(M) - h) |-> x[i]]
    BY DEF NewerItems
  <2> HIDE DEF x
  <2> QED
    BY <1>1, <1>3, <2>1
<1>5. /\ v \in Seq(Item) /\ Len(v) = n + (Len(M) - h) /\ DOMAIN v = 1..(n + (Len(M) - h))
      /\ \A i \in 1..n : v[i] = w[i]
      /\ \A i \in DOMAIN v : i > n => v[i] = x[i - n] /\ i - n \in 1..(Len(M) - h)
  <2> HIDE DEF x, h
  <2>1. v \in Seq(Item) /\ Len(v) = n + (Len(M) - h) /\ DOMAIN v = 1..(n + (Len(M) - h))
    <3>1. v \in Seq(Item)
      BY <1>1, <1>4
    <3>2. Len(w \o x) = Len(w) + Len(x)
      <4>1. w \in Seq(Item) /\ x \in Seq(Item)
        BY <1>1, <1>4
      <4> QED
        BY <4>1
    <3>3. Len(v) = n + (Len(M) - h)
      BY <1>4, <3>2
    <3> QED
      BY <3>1, <3>3
  <2>2. \A i \in 1..n : v[i] = w[i]
    BY <1>1, <1>4
  <2>3. \A i \in DOMAIN v : i > n => v[i] = x[i - n] /\ i - n \in 1..(Len(M) - h)
    BY <1>1, <1>4, <2>1
  <2> QED
    BY <2>1, <2>2, <2>3
<1>6. \A i \in DOMAIN v : i > n => v[i].lo = h + (i - n) /\ v[i].hi = h + (i - n)
  <2> HIDE DEF v, x, h, n
  <2> SUFFICES ASSUME NEW i \in DOMAIN v, i > n
               PROVE  v[i].lo = h + (i - n) /\ v[i].hi = h + (i - n)
    OBVIOUS
  <2>1. v[i] = x[i - n] /\ i - n \in 1..(Len(M) - h)
    BY <1>5
  <2>2. \A k \in 1..(Len(M) - h) : x[k].lo = h + k /\ x[k].hi = h + k
    <3>1. ASSUME NEW k \in 1..(Len(M) - h) PROVE x[k].lo = h + k /\ x[k].hi = h + k
      <4>1. x[k] = [kind |-> "message", ref |-> h + k, role |-> M[h + k].role,
                    tokens |-> M[h + k].tokens, lo |-> h + k, hi |-> h + k, depth |-> 0]
        BY <1>2
      <4> QED
        BY <4>1
    <3> QED
      BY <3>1
  <2>3. x[i - n].lo = h + (i - n) /\ x[i - n].hi = h + (i - n)
    BY <2>1, <2>2
  <2> QED
    BY <2>1, <2>3
<1>7. \A i \in DOMAIN w : 1 <= w[i].lo /\ w[i].lo <= w[i].hi /\ w[i].hi <= h
  BY DEF WindowOK, Tiles, InRange
<1> HIDE DEF v, x, h, n
<1>8. InRange(v, Len(M))
  <2> SUFFICES ASSUME NEW i \in DOMAIN v
               PROVE  1 <= v[i].lo /\ v[i].lo <= v[i].hi /\ v[i].hi <= Len(M)
    BY DEF InRange
  <2>1. CASE i <= n
    BY <1>1, <1>5, <1>7, <2>1
  <2>2. CASE i > n
    BY <1>1, <1>5, <1>6, <2>2
  <2> QED
    BY <1>1, <1>5, <2>1, <2>2
<1>9. Ordered(v)
  <2> SUFFICES ASSUME NEW i \in DOMAIN v, NEW j \in DOMAIN v, i < j
               PROVE  v[i].hi < v[j].lo
    BY DEF Ordered
  <2>1. CASE j <= n
    <3>1. i \in DOMAIN w /\ j \in DOMAIN w /\ v[i] = w[i] /\ v[j] = w[j]
      BY <1>1, <1>5, <2>1
    <3> QED
      BY <3>1 DEF WindowOK, Tiles, Ordered
  <2>2. CASE i <= n /\ n < j
    BY SMTT(30), <2>2, <1>1, <1>5, <1>6, <1>7
  <2>3. CASE n < i
    BY <1>1, <1>5, <1>6, <2>3
  <2> QED
    BY <1>1, <1>5, <2>1, <2>2, <2>3
<1>10. Covers(v, Len(M))
  <2> SUFFICES ASSUME NEW m \in 1..Len(M)
               PROVE  \E i \in DOMAIN v : v[i].lo <= m /\ m <= v[i].hi
    BY DEF Covers
  <2>1. CASE m <= h
    <3>1. PICK i \in DOMAIN w : w[i].lo <= m /\ m <= w[i].hi
      BY <1>1, <2>1 DEF WindowOK, Tiles, Covers, h
    <3>2. i \in DOMAIN v /\ v[i] = w[i]
      BY <1>1, <1>5
    <3> QED
      BY <3>1, <3>2
  <2>2. CASE h < m
    <3>1. n + (m - h) \in DOMAIN v /\ n + (m - h) > n /\ h + ((n + (m - h)) - n) = m
      BY <1>1, <1>5, <2>2
    <3> QED
      BY <1>1, <1>6, <3>1
  <2> QED
    BY <1>1, <2>1, <2>2
<1>11. Tiles(v, Len(M)) /\ LastSeq(v) = Len(M)
  BY <1>1, <1>5, <1>8, <1>9, <1>10, TilesLast DEF Tiles
<1>12. \A i \in DOMAIN v : ItemOK(v[i], M, S)
  <2>1. \A i \in DOMAIN w : ItemOK(w[i], M, S)
    BY DEF WindowOK
  <2> SUFFICES ASSUME NEW i \in DOMAIN v PROVE ItemOK(v[i], M, S)
    OBVIOUS
  <2>2. (i \in DOMAIN w /\ v[i] = w[i]) \/ (i - n \in 1..(Len(M) - h) /\ v[i] = x[i - n])
    <3> HIDE DEF v, x
    <3> QED BY <1>1, <1>5
  <2> HIDE DEF v, x, h, n
  <2> QED
    BY <1>3, <2>1, <2>2
<1> QED
  BY <1>1, <1>5, <1>11, <1>12 DEF WindowOK, v, x

(***************************************************************************)
(* Summary rows.                                                           *)
(***************************************************************************)
SpanOK(row, M) == 1 <= row.lo /\ row.lo <= row.hi /\ row.hi <= Len(M)

RowsOK(S, M) ==
    /\ S \in Seq(Summary)
    /\ \A k \in DOMAIN S : SpanOK(S[k], M) /\ RowExact(S, k)

\* A row that may be added to S: its lineage is exact over the rows of S.
NewRowOK(row, S, M) ==
    /\ row \in Summary
    /\ SpanOK(row, M)
    /\ row.depth = 0 => LeafExact(row)
    /\ row.depth # 0 => /\ \A i \in DOMAIN row.src : row.src[i] \in DOMAIN S
                        /\ CondensedExact(row, S)

\* The row over any block of a window names what the block's items name.
LEMMA RowOverBlock ==
    ASSUME NEW M \in Seq(Message), NEW S, NEW w, WindowOK(w, M, S),
           NEW s \in DOMAIN w, NEW e \in DOMAIN w, s <= e,
           NEW d \in Nat, NEW t \in SummaryTokens
    PROVE  LET row == RowOver(w, s, e, d, t)
           IN  /\ row \in Summary
               /\ SpanOK(row, M)
               /\ row.depth = d /\ row.lo = w[s].lo /\ row.hi = w[e].hi
               /\ DOMAIN row.src = 1..(e - s + 1)
               /\ \A i \in DOMAIN row.src :
                    row.src[i] = w[s + i - 1].ref /\ s + i - 1 \in s..e
<1> DEFINE src == [i \in 1..(e - s + 1) |-> w[s + i - 1].ref]
           row == RowOver(w, s, e, d, t)
<1>1. /\ w \in Seq(Item) /\ Len(w) \in Nat /\ DOMAIN w = 1..Len(w)
      /\ \A i \in DOMAIN w : w[i] \in Item /\ w[i].lo \in Nat /\ w[i].hi \in Nat
      /\ s \in Nat /\ e \in Nat /\ 1 <= s /\ e <= Len(w) /\ e - s + 1 \in Nat
      /\ LastSeq(w) \in Nat /\ LastSeq(w) <= Len(M) /\ Len(M) \in Nat
  BY ItemSpans DEF WindowOK
<1>2. \A i \in 1..(e - s + 1) : s + i - 1 \in s..e /\ s + i - 1 \in DOMAIN w
  BY <1>1
<1>3. \A i \in 1..(e - s + 1) : w[s + i - 1].ref \in Nat
  <2> SUFFICES ASSUME NEW i \in 1..(e - s + 1) PROVE w[s + i - 1].ref \in Nat
    OBVIOUS
  <2>1. w[s + i - 1] \in Item
    BY <1>1, <1>2
  <2> QED
    BY <2>1 DEF Item
<1>4. src \in Seq(Nat) /\ DOMAIN src = 1..(e - s + 1)
  <2> DEFINE n == e - s + 1
  <2>1. src = [i \in 1..n |-> src[i]] /\ \A i \in 1..n : src[i] \in Nat
    BY <1>3
  <2>2. n \in Nat
    BY <1>1
  <2> HIDE DEF src, n
  <2>3. src \in Seq(Nat) /\ DOMAIN src = 1..n
    BY <2>1, <2>2
  <2> QED
    BY <2>3 DEF n
<1>5. row = [depth |-> d, src |-> src, lo |-> w[s].lo, hi |-> w[e].hi, tokens |-> t]
  BY DEF RowOver
<1>6. row \in Summary
  <2> HIDE DEF src, row
  <2> QED BY <1>1, <1>4, <1>5 DEF Summary
<1>7. 1 <= w[s].lo /\ w[s].lo <= w[e].hi /\ w[e].hi <= Len(M)
  <2>1. w[s].lo <= w[s].hi /\ w[s].hi <= w[e].hi /\ 1 <= w[s].lo /\ w[e].hi <= LastSeq(w)
    <3>1. e \in s..e /\ s \in s..e
      BY <1>1
    <3>2. w[s].hi <= w[e].hi
      BY <1>1, <3>1, BlockSpan DEF WindowOK
    <3> QED
      BY <3>2 DEF WindowOK, Tiles, InRange
  <2> QED
    BY <1>1, <2>1
<1>8. SpanOK(row, M)
  BY <1>5, <1>7 DEF SpanOK
<1> QED
  BY <1>2, <1>4, <1>5, <1>6, <1>8

\* A block of raw messages is summarized by a leaf with exact sources.
LEMMA LeafRowExact ==
    ASSUME NEW M \in Seq(Message), NEW S, NEW w, WindowOK(w, M, S),
           NEW s \in DOMAIN w, NEW e \in DOMAIN w, s <= e, NEW t \in SummaryTokens,
           \A i \in s..e : w[i].kind = "message"
    PROVE  LeafExact(RowOver(w, s, e, 0, t))
<1> DEFINE row == RowOver(w, s, e, 0, t)
<1>1. /\ DOMAIN row.src = 1..(e - s + 1) /\ row.lo = w[s].lo /\ row.hi = w[e].hi
      /\ \A i \in DOMAIN row.src :
            row.src[i] = w[s + i - 1].ref /\ s + i - 1 \in s..e
  BY RowOverBlock
<1>2. /\ w \in Seq(Item) /\ Len(w) \in Nat /\ DOMAIN w = 1..Len(w)
      /\ \A i \in DOMAIN w : w[i].lo \in Nat /\ w[i].hi \in Nat
      /\ s \in Nat /\ e \in Nat /\ 1 <= s /\ e <= Len(w)
  BY ItemSpans DEF WindowOK
<1>3. /\ \A i, j \in DOMAIN w : i < j => w[i].hi < w[j].lo
      /\ \A i \in DOMAIN w : w[i].lo <= w[i].hi /\ w[i].hi <= LastSeq(w) /\ 1 <= w[i].lo
      /\ \A n \in 1..LastSeq(w) : \E i \in DOMAIN w : w[i].lo <= n /\ n <= w[i].hi
      /\ LastSeq(w) \in Nat
  BY DEF WindowOK, Tiles, Ordered, InRange, Covers
<1>4. \A i \in s..e : i \in DOMAIN w /\ w[i].lo = w[i].ref /\ w[i].hi = w[i].ref
  <2> SUFFICES ASSUME NEW i \in s..e
               PROVE  i \in DOMAIN w /\ w[i].lo = w[i].ref /\ w[i].hi = w[i].ref
    OBVIOUS
  <2>1. i \in DOMAIN w
    BY <1>2
  <2>2. ItemOK(w[i], M, S) /\ w[i].kind = "message"
    BY <2>1 DEF WindowOK
  <2>3. w[i].lo = w[i].ref /\ w[i].hi = w[i].ref
    BY <2>2 DEF ItemOK
  <2> QED
    BY <2>1, <2>3
<1> HIDE DEF row
<1>5. \A i, j \in DOMAIN row.src : i < j => row.src[i] < row.src[j]
  <2> SUFFICES ASSUME NEW i \in DOMAIN row.src, NEW j \in DOMAIN row.src, i < j
               PROVE  row.src[i] < row.src[j]
    OBVIOUS
  <2> DEFINE a == s + i - 1
             b == s + j - 1
  <2>1. /\ a \in s..e /\ row.src[i] = w[a].ref
        /\ b \in s..e /\ row.src[j] = w[b].ref
    BY <1>1
  <2>2. i \in Nat /\ j \in Nat
    <3>1. DOMAIN row.src \subseteq Nat
      BY <1>1, <1>2
    <3> QED
      BY <3>1
  <2>3. a < b
    BY <1>2, <2>2
  <2> HIDE DEF a, b
  <2> QED
    BY <1>3, <1>4, <2>1, <2>3
<1>6. ASSUME NEW i \in DOMAIN row.src PROVE row.src[i] \in row.lo..row.hi
  <2> DEFINE a == s + i - 1
  <2>1. a \in s..e /\ a \in DOMAIN w /\ row.src[i] = w[a].ref
    BY <1>1, <1>4
  <2> HIDE DEF a
  <2>2. w[s].lo <= w[a].lo /\ w[a].hi <= w[e].hi
    BY <1>2, <2>1, BlockSpan DEF WindowOK
  <2>3. w[a].lo = w[a].ref /\ w[a].hi = w[a].ref /\ w[a].lo \in Nat
    BY <1>2, <1>4, <2>1
  <2> QED
    BY <1>1, <1>2, <2>1, <2>2, <2>3
<1>7. ASSUME NEW n \in row.lo..row.hi PROVE \E i \in DOMAIN row.src : row.src[i] = n
  <2>1. n \in 1..LastSeq(w)
    BY <1>1, <1>2, <1>3
  <2>2. PICK a \in DOMAIN w : w[a].lo <= n /\ n <= w[a].hi
    BY <1>3, <2>1
  <2>3. s <= a
    <3> SUFFICES ASSUME a < s PROVE FALSE
      BY <1>2
    <3> QED
      BY <1>1, <1>2, <1>3, <2>2
  <2>4. a <= e
    <3> SUFFICES ASSUME e < a PROVE FALSE
      BY <1>2
    <3> QED
      BY <1>1, <1>2, <1>3, <2>2
  <2>5. a - s + 1 \in DOMAIN row.src /\ s + (a - s + 1) - 1 = a /\ a \in s..e
    BY <1>1, <1>2, <2>3, <2>4
  <2>6. row.src[a - s + 1] = w[a].ref
    BY <1>1, <2>5
  <2>7. w[a].ref = n
    BY <1>2, <1>4, <2>2, <2>5
  <2> QED
    BY <2>5, <2>6, <2>7
<1> QED
  <2>1. {row.src[i] : i \in DOMAIN row.src} = row.lo..row.hi
    BY <1>6, <1>7
  <2> QED
    BY <1>5, <2>1 DEF LeafExact, row

\* A run of summaries of one depth is condensed into a row whose children's
\* spans partition its own.
LEMMA CondensedRowExact ==
    ASSUME NEW M \in Seq(Message), NEW S, NEW w, WindowOK(w, M, S),
           NEW s \in DOMAIN w, NEW e \in DOMAIN w, s <= e, NEW t \in SummaryTokens,
           NEW d \in Nat,
           \A i \in s..e : w[i].kind = "summary" /\ w[i].depth = d
    PROVE  LET row == RowOver(w, s, e, d + 1, t)
           IN  /\ \A i \in DOMAIN row.src : row.src[i] \in DOMAIN S
               /\ CondensedExact(row, S)
<1> DEFINE row == RowOver(w, s, e, d + 1, t)
           child(i) == S[row.src[i]]
<1>1. /\ DOMAIN row.src = 1..(e - s + 1) /\ row.lo = w[s].lo /\ row.hi = w[e].hi
      /\ row.depth = d + 1
      /\ \A i \in DOMAIN row.src :
            row.src[i] = w[s + i - 1].ref /\ s + i - 1 \in s..e
  BY RowOverBlock
<1>2. /\ w \in Seq(Item) /\ Len(w) \in Nat /\ DOMAIN w = 1..Len(w)
      /\ \A i \in DOMAIN w : w[i].lo \in Nat /\ w[i].hi \in Nat
      /\ s \in Nat /\ e \in Nat /\ 1 <= s /\ e <= Len(w)
  BY ItemSpans DEF WindowOK
<1>3. /\ \A i, j \in DOMAIN w : i < j => w[i].hi < w[j].lo
      /\ \A i \in DOMAIN w : w[i].lo <= w[i].hi /\ w[i].hi <= LastSeq(w) /\ 1 <= w[i].lo
      /\ \A n \in 1..LastSeq(w) : \E i \in DOMAIN w : w[i].lo <= n /\ n <= w[i].hi
      /\ LastSeq(w) \in Nat
  BY DEF WindowOK, Tiles, Ordered, InRange, Covers
<1>4. ASSUME NEW i \in s..e
      PROVE  /\ i \in DOMAIN w /\ w[i].ref \in DOMAIN S
             /\ S[w[i].ref].lo = w[i].lo /\ S[w[i].ref].hi = w[i].hi
             /\ S[w[i].ref].depth = d
  <2>1. i \in DOMAIN w
    BY <1>2
  <2>2. ItemOK(w[i], M, S) /\ w[i].kind = "summary" /\ w[i].depth = d
    BY <2>1 DEF WindowOK
  <2>3. /\ w[i].ref \in DOMAIN S
        /\ S[w[i].ref].lo = w[i].lo /\ S[w[i].ref].hi = w[i].hi
        /\ S[w[i].ref].depth = w[i].depth
    BY <2>2 DEF ItemOK
  <2> QED
    BY <2>1, <2>2, <2>3
<1>5. ASSUME NEW i \in DOMAIN row.src
      PROVE  /\ row.src[i] \in DOMAIN S
             /\ child(i).depth = row.depth - 1
             /\ row.lo <= child(i).lo /\ child(i).hi <= row.hi
             /\ child(i).lo = w[s + i - 1].lo /\ child(i).hi = w[s + i - 1].hi
  <2> DEFINE a == s + i - 1
  <2>1. a \in s..e /\ row.src[i] = w[a].ref
    BY <1>1
  <2>2. (d + 1) - 1 = d
    OBVIOUS
  <2> HIDE DEF a, row
  <2>3. /\ row.src[i] \in DOMAIN S /\ child(i).depth = d
        /\ child(i).lo = w[a].lo /\ child(i).hi = w[a].hi
    BY <1>4, <2>1
  <2>4. w[s].lo <= w[a].lo /\ w[a].hi <= w[e].hi
    BY <1>2, <2>1, BlockSpan DEF WindowOK
  <2> QED
    BY <1>1, <2>2, <2>3, <2>4 DEF a
<1> HIDE DEF row
<1>6. ASSUME NEW i \in DOMAIN row.src, NEW j \in DOMAIN row.src, i < j
      PROVE  child(i).hi < child(j).lo
  <2> DEFINE a == s + i - 1
             b == s + j - 1
  <2>1. a \in DOMAIN w /\ b \in DOMAIN w /\ a < b
    BY SMTT(30), <1>1, <1>2, <1>6
  <2>2. child(i).hi = w[a].hi /\ child(j).lo = w[b].lo
    BY <1>5
  <2> HIDE DEF a, b
  <2> QED
    BY <1>3, <2>1, <2>2
<1>7. ASSUME NEW n \in row.lo..row.hi
      PROVE  \E i \in DOMAIN row.src : child(i).lo <= n /\ n <= child(i).hi
  <2>1. n \in 1..LastSeq(w)
    BY <1>1, <1>2, <1>3
  <2>2. PICK a \in DOMAIN w : w[a].lo <= n /\ n <= w[a].hi
    BY <1>3, <2>1
  <2>3. s <= a
    <3> SUFFICES ASSUME a < s PROVE FALSE
      BY <1>2
    <3> QED
      BY <1>1, <1>2, <1>3, <2>2
  <2>4. a <= e
    <3> SUFFICES ASSUME e < a PROVE FALSE
      BY <1>2
    <3> QED
      BY SMTT(30), <2>2, <1>1, <1>2, <1>3
  <2>5. a - s + 1 \in DOMAIN row.src /\ s + (a - s + 1) - 1 = a
    BY SMTT(30), <1>1, <1>2, <2>3, <2>4
  <2>6. child(a - s + 1).lo = w[a].lo /\ child(a - s + 1).hi = w[a].hi
    BY <1>5, <2>5
  <2> QED
    BY <2>2, <2>5, <2>6
<1> QED
  BY <1>5, <1>6, <1>7 DEF CondensedExact, row

\* Exact lineage determines the span: two rows with the same sources have it.
LEMMA SameSourcesSameSpan ==
    ASSUME NEW M, NEW S, RowsOK(S, M), NEW k \in DOMAIN S,
           NEW row, NewRowOK(row, S, M), S[k].depth = row.depth, S[k].src = row.src
    PROVE  S[k].lo = row.lo /\ S[k].hi = row.hi
<1>1. /\ S[k] \in Summary /\ row \in Summary
      /\ S[k].lo <= S[k].hi /\ row.lo <= row.hi /\ RowExact(S, k)
  BY DEF RowsOK, NewRowOK, SpanOK
<1>2. /\ S[k].lo \in Nat /\ S[k].hi \in Nat /\ row.lo \in Nat /\ row.hi \in Nat
      /\ row.depth \in Nat
  BY <1>1 DEF Summary
<1>3. CASE row.depth = 0
  <2>1. LeafExact(S[k]) /\ LeafExact(row)
    BY <1>1, <1>3 DEF RowExact, NewRowOK
  <2>2. S[k].lo..S[k].hi = row.lo..row.hi
    BY <2>1 DEF LeafExact
  <2>3. /\ S[k].lo \in S[k].lo..S[k].hi /\ S[k].hi \in S[k].lo..S[k].hi
        /\ row.lo \in row.lo..row.hi /\ row.hi \in row.lo..row.hi
    BY <1>1, <1>2
  <2>4. /\ S[k].lo \in row.lo..row.hi /\ S[k].hi \in row.lo..row.hi
        /\ row.lo \in S[k].lo..S[k].hi /\ row.hi \in S[k].lo..S[k].hi
    BY <2>2, <2>3
  <2> QED
    BY <1>2, <2>4
<1>4. CASE row.depth # 0
  <2>1. CondensedExact(S[k], S) /\ CondensedExact(row, S)
    BY <1>1, <1>4 DEF RowExact, NewRowOK
  <2> DEFINE child(i) == S[row.src[i]]
             D == DOMAIN row.src
  <2>2. \A i \in D : child(i).lo \in Nat /\ child(i).hi \in Nat
    <3> SUFFICES ASSUME NEW i \in D PROVE child(i).lo \in Nat /\ child(i).hi \in Nat
      OBVIOUS
    <3>1. child(i) \in Summary
      BY <1>4 DEF NewRowOK, RowsOK
    <3> QED
      BY <3>1 DEF Summary
  <2>3. \A i \in D : /\ S[k].lo <= child(i).lo /\ child(i).hi <= S[k].hi
                     /\ row.lo <= child(i).lo /\ child(i).hi <= row.hi
    BY <2>1 DEF CondensedExact
  <2>4. /\ \E i \in D : child(i).lo <= S[k].lo
        /\ \E i \in D : S[k].hi <= child(i).hi
        /\ \E i \in D : child(i).lo <= row.lo
        /\ \E i \in D : row.hi <= child(i).hi
    <3>1. /\ S[k].lo \in S[k].lo..S[k].hi /\ S[k].hi \in S[k].lo..S[k].hi
          /\ row.lo \in row.lo..row.hi /\ row.hi \in row.lo..row.hi
      BY <1>1, <1>2
    <3> QED
      BY <2>1, <3>1 DEF CondensedExact
  <2> HIDE DEF D, child
  <2>5. S[k].lo <= row.lo /\ row.lo <= S[k].lo
    BY <1>2, <2>2, <2>3, <2>4
  <2>6. S[k].hi <= row.hi /\ row.hi <= S[k].hi
    BY <1>2, <2>2, <2>3, <2>4
  <2> QED
    BY <1>2, <2>5, <2>6
<1> QED
  BY <1>3, <1>4

\* Adding such a row keeps every row exact: rows only name earlier ones.
LEMMA AppendRow ==
    ASSUME NEW M, NEW S, RowsOK(S, M), NEW row, NewRowOK(row, S, M)
    PROVE  RowsOK(Append(S, row), M)
<1> DEFINE T == Append(S, row)
           n == Len(S)
<1>1. S \in Seq(Summary) /\ row \in Summary /\ n \in Nat /\ DOMAIN S = 1..n
  BY DEF RowsOK, NewRowOK
<1>2. /\ T \in Seq(Summary) /\ DOMAIN T = 1..(n + 1) /\ T[n + 1] = row
      /\ \A k \in DOMAIN S : T[k] = S[k]
  BY <1>1
<1> HIDE DEF T
<1>3. ASSUME NEW k \in DOMAIN T PROVE SpanOK(T[k], M) /\ RowExact(T, k)
  <2>1. CASE k = n + 1
    <3>1. T[k] = row /\ SpanOK(row, M)
      BY <1>2, <2>1 DEF NewRowOK
    <3>2. row.depth # 0 =>
            /\ \A i \in DOMAIN row.src : row.src[i] \in 1..(k - 1)
            /\ \A i \in DOMAIN row.src : T[row.src[i]] = S[row.src[i]]
      BY <1>1, <1>2, <2>1 DEF NewRowOK
    <3>3. row.depth # 0 => CondensedExact(row, T)
      BY <3>2 DEF NewRowOK, CondensedExact
    <3> QED
      BY <3>1, <3>2, <3>3 DEF RowExact, NewRowOK
  <2>2. CASE k \in DOMAIN S
    <3>1. T[k] = S[k] /\ SpanOK(S[k], M) /\ RowExact(S, k)
      BY <1>2, <2>2 DEF RowsOK
    <3>2. S[k].depth # 0 =>
            \A i \in DOMAIN S[k].src : T[S[k].src[i]] = S[S[k].src[i]]
      BY <1>1, <1>2, <2>2, <3>1 DEF RowExact
    <3>3. S[k].depth # 0 => CondensedExact(S[k], T)
      BY <3>1, <3>2 DEF RowExact, CondensedExact
    <3> QED
      BY <3>1, <3>3 DEF RowExact
  <2> QED
    BY <1>1, <1>2, <2>1, <2>2
<1> QED
  BY <1>2, <1>3 DEF RowsOK, T

\* Replacing a block by the item of the row that stands for it keeps a window
\* good.
LEMMA FoldedWindowOK ==
    ASSUME NEW M, Len(M) \in Nat, NEW S, RowsOK(S, M), NEW w, WindowOK(w, M, S),
           NEW s \in DOMAIN w, NEW e \in DOMAIN w, s <= e,
           NEW k \in DOMAIN S, S[k].lo = w[s].lo, S[k].hi = w[e].hi
    PROVE  WindowOK(ReplaceRange(w, s, e, SummaryItem(S[k], k)), M, S)
<1> DEFINE item == SummaryItem(S[k], k)
           v == ReplaceRange(w, s, e, item)
           h == LastSeq(w)
<1>1. S[k] \in Summary /\ k \in Nat
  BY DEF RowsOK
<1>2. /\ item = [kind |-> "summary", ref |-> k, role |-> "none", tokens |-> S[k].tokens,
                 lo |-> S[k].lo, hi |-> S[k].hi, depth |-> S[k].depth]
  BY DEF SummaryItem
<1>3. item \in Item /\ ItemOK(item, M, S)
  <2>1. /\ S[k].tokens \in Nat /\ S[k].lo \in Nat /\ S[k].hi \in Nat /\ S[k].depth \in Nat
        /\ "summary" \in Kinds /\ "none" \in Roles \cup {"none"}
    BY <1>1, InputAssumption DEF Summary, Kinds
  <2> HIDE DEF item
  <2>2. item \in Item
    BY <1>1, <1>2, <2>1 DEF Item
  <2>3. item.ref = k
    BY <1>2
  <2> QED
    BY <1>2, <2>2, <2>3 DEF ItemOK
<1>4. w \in Seq(Item) /\ h \in Nat /\ h <= Len(M) /\ Tiles(w, h)
      /\ \A i \in DOMAIN w : ItemOK(w[i], M, S)
  BY DEF WindowOK
<1>5. item.lo = w[s].lo /\ item.hi = w[e].hi
  BY <1>2
<1>6. v \in Seq(Item) /\ Tiles(v, h)
  <2> HIDE DEF item
  <2> QED BY <1>3, <1>4, <1>5, ReplaceTiles
<1>7. LastSeq(v) = h
  <2> HIDE DEF v, h
  <2> QED BY <1>4, <1>6, TilesLast
<1>8. \A i \in DOMAIN v : ItemOK(v[i], M, S)
  <2> SUFFICES ASSUME NEW i \in DOMAIN v PROVE ItemOK(v[i], M, S)
    OBVIOUS
  <2>1. Len(w) \in Nat /\ DOMAIN w = 1..Len(w) /\ DOMAIN v = 1..(Len(w) - (e - s))
    BY <1>4 DEF ReplaceRange
  <2>2. CASE i < s
    <3>1. v[i] = w[i] /\ i \in DOMAIN w
      BY <2>1, <2>2 DEF ReplaceRange
    <3> QED
      BY <1>4, <3>1
  <2>3. CASE i = s
    <3>1. v[i] = item
      BY <2>1, <2>3 DEF ReplaceRange
    <3> QED
      BY <1>3, <3>1
  <2>4. CASE i > s
    <3>1. v[i] = w[i + (e - s)] /\ i + (e - s) \in DOMAIN w
      BY <2>1, <2>4 DEF ReplaceRange
    <3> QED
      BY <1>4, <3>1
  <2> QED
    BY <2>1, <2>2, <2>3, <2>4
<1> QED
  BY <1>4, <1>6, <1>7, <1>8 DEF WindowOK

(***************************************************************************)
(* The inductive invariant: the tables are well formed, their lineage is   *)
(* exact, and the persisted window and the window of every pass - however  *)
(* old - tile a prefix of the log with items that agree with the rows.     *)
(***************************************************************************)
Counted(D, S) == D \in Seq({D[i] : i \in DOMAIN D}) /\ Len(D) = Len(S)

IInv ==
    /\ messages \in Seq(Message)
    /\ RowsOK(summaries, messages)
    /\ Counted(descendants, summaries)
    /\ contextItems \in Seq(Ref)
    /\ \A i \in DOMAIN contextItems : RefOK(contextItems[i])
    /\ WindowOK(StoredWindow, messages, summaries)
    /\ pc \in [Compactors -> PCs]
    /\ archive \in [Compactors -> BOOLEAN]
    /\ window \in [Compactors -> Seq(Item)]
    /\ \A c \in Compactors : WindowOK(window[c], messages, summaries)
    /\ folds \in [Compactors -> Nat]
    /\ failures \in Nat

\* A pass that holds nothing holds a good window.
LEMMA EmptyWindowOK ==
    ASSUME NEW M, Len(M) \in Nat, NEW S
    PROVE  WindowOK(<<>>, M, S)
BY DEF WindowOK, Tiles, InRange, Ordered, Covers, LastSeq

\* An empty conversation satisfies the invariant.
LEMMA InitIInv == Init => IInv
<1> SUFFICES ASSUME Init PROVE IInv
  OBVIOUS
<1>1. messages \in Seq(Message) /\ Len(messages) = 0 /\ Len(contextItems) = 0
  BY DEF Init
<1>2. RowsOK(summaries, messages)
  BY DEF Init, RowsOK
<1>3. Counted(descendants, summaries)
  BY DEF Init, Counted
<1>4. contextItems \in Seq(Ref) /\ \A i \in DOMAIN contextItems : RefOK(contextItems[i])
  BY DEF Init
<1>5. StoredWindow = <<>>
  BY <1>1 DEF StoredWindow
<1>6. WindowOK(StoredWindow, messages, summaries)
  BY <1>1, <1>5, EmptyWindowOK
<1>7. \A c \in Compactors : window[c] = <<>>
  BY DEF Init
<1>8. \A c \in Compactors : WindowOK(window[c], messages, summaries)
  BY <1>1, <1>7, EmptyWindowOK
<1>9. /\ pc \in [Compactors -> PCs] /\ archive \in [Compactors -> BOOLEAN]
      /\ window \in [Compactors -> Seq(Item)] /\ folds \in [Compactors -> Nat]
      /\ failures \in Nat
  BY DEF Init, PCs
<1> QED
  BY <1>1, <1>2, <1>3, <1>4, <1>6, <1>8, <1>9 DEF IInv

\* What a pass resolves from the persisted window and reads after it are the
\* operators of Compaction applied to the tables.
LEMMA ReadsMatch ==
    /\ \A w : NewerMessages(w) = NewerItems(w, messages)
    /\ LiveWindow = StoredWindow \o NewerItems(StoredWindow, messages)
BY DEF NewerMessages, NewerItems, MessageItem, LiveWindow

\* An item of a good window is what its reference resolves to.
LEMMA ResolveItem ==
    ASSUME NEW it, ItemOK(it, messages, summaries)
    PROVE  it = Resolve([kind |-> it.kind, ref |-> it.ref]) /\ RefOK(it)
BY DEF ItemOK, Resolve, MessageItem, SummaryItem, RefOK

\* References stay good while the tables grow.
LEMMA RefOKGrows ==
    ASSUME NEW r, RefOK(r), Grows(messages, messages'), Grows(summaries, summaries')
    PROVE  RefOK(r)'
BY DEF RefOK, Grows

\* The persisted window resolves to the same items while the tables grow.
LEMMA StoredWindowGrows ==
    ASSUME IInv, contextItems' = contextItems,
           Grows(messages, messages'), Grows(summaries, summaries')
    PROVE  StoredWindow' = StoredWindow
<1>1. ASSUME NEW i \in 1..Len(contextItems)
      PROVE  Resolve(contextItems[i])' = Resolve(contextItems[i])
  <2>1. i \in DOMAIN contextItems /\ RefOK(contextItems[i])
    BY DEF IInv
  <2>2. CASE contextItems[i].kind = "message"
    BY <2>1, <2>2 DEF Resolve, MessageItem, RefOK, Grows
  <2>3. CASE contextItems[i].kind # "message"
    BY <2>1, <2>3 DEF Resolve, SummaryItem, RefOK, Grows
  <2> QED
    BY <2>2, <2>3
<1> QED
  BY <1>1 DEF StoredWindow

\* A fold leaves every table and every window good.
LEMMA FoldIInv ==
    ASSUME IInv, NEW c \in Compactors, NEW s \in DOMAIN window[c], NEW e \in DOMAIN window[c],
           s <= e, NEW row, NewRowOK(row, summaries, messages),
           row.lo = window[c][s].lo, row.hi = window[c][e].hi,
           NEW count, Fold(c, s, e, row, count)
    PROVE  IInv'
<1>1. PICK k \in 1..(Len(summaries) + 1) :
        /\ \/ /\ SameSummary(row) = {}
              /\ k = Len(summaries) + 1
              /\ summaries' = Append(summaries, row)
              /\ descendants' = Append(descendants, count)
           \/ k \in SameSummary(row) /\ UNCHANGED <<summaries, descendants>>
        /\ window' = [window EXCEPT
               ![c] = ReplaceRange(@, s, e, SummaryItem(summaries'[k], k))]
  BY DEF Fold
<1>2. /\ UNCHANGED <<messages, contextItems, pc, archive, failures>>
      /\ folds' = [folds EXCEPT ![c] = @ + 1]
  BY DEF Fold
<1>3. /\ messages \in Seq(Message) /\ summaries \in Seq(Summary) /\ Len(messages) \in Nat
      /\ RowsOK(summaries, messages) /\ WindowOK(window[c], messages, summaries)
      /\ row \in Summary /\ window \in [Compactors -> Seq(Item)]
  BY DEF IInv, RowsOK, NewRowOK
<1>4. /\ RowsOK(summaries', messages)
      /\ Grows(summaries, summaries')
      /\ Counted(descendants', summaries')
      /\ k \in DOMAIN summaries'
      /\ summaries'[k].lo = row.lo /\ summaries'[k].hi = row.hi
  <2>1. CASE /\ k = Len(summaries) + 1
             /\ summaries' = Append(summaries, row)
             /\ descendants' = Append(descendants, count)
    <3>1. RowsOK(summaries', messages)
      BY <1>3, <2>1, AppendRow
    <3>2. Grows(summaries, summaries')
      BY <1>3, <2>1, AppendGrows
    <3>3. Counted(descendants', summaries')
      <4> DEFINE D == descendants
                 D2 == Append(D, count)
                 n == Len(D)
                 R == {D2[i] : i \in DOMAIN D2}
      <4>1. D \in Seq({D[i] : i \in DOMAIN D}) /\ n = Len(summaries) /\ n \in Nat
        BY DEF IInv, Counted
      <4>2. D2 = [i \in 1..(n + 1) |-> D2[i]] /\ DOMAIN D2 = 1..(n + 1)
        <5> DEFINE U == {D[i] : i \in DOMAIN D} \cup {count}
        <5>1. {D[i] : i \in DOMAIN D} \subseteq U /\ count \in U
          OBVIOUS
        <5>2. D \in Seq(U)
          <6> HIDE DEF U
          <6>1. D = [i \in 1..n |-> D[i]] /\ \A i \in 1..n : D[i] \in U
            BY <4>1, <5>1
          <6> QED
            BY <4>1, <6>1
        <5> HIDE DEF U
        <5>3. D2 \in Seq(U) /\ Len(D2) = n + 1
          BY <4>1, <5>1, <5>2
        <5> HIDE DEF D2, n
        <5> QED
          BY <5>3
      <4>3. \A i \in 1..(n + 1) : D2[i] \in R
        BY <4>2
      <4>4. D2 \in Seq(R) /\ Len(D2) = n + 1
        <5> HIDE DEF D2, R, n
        <5> QED BY <4>1, <4>2, <4>3
      <4>5. Len(Append(summaries, row)) = n + 1
        BY <1>3, <4>1
      <4> QED
        BY <2>1, <4>4, <4>5 DEF Counted
    <3>4. k \in DOMAIN summaries' /\ summaries'[k] = row
      BY <1>3, <2>1
    <3> QED
      BY <3>1, <3>2, <3>3, <3>4
  <2>2. CASE k \in SameSummary(row) /\ UNCHANGED <<summaries, descendants>>
    <3>1. k \in DOMAIN summaries /\ summaries[k].depth = row.depth /\ summaries[k].src = row.src
      BY <2>2 DEF SameSummary
    <3>2. summaries[k].lo = row.lo /\ summaries[k].hi = row.hi
      BY <1>3, <3>1, SameSourcesSameSpan
    <3>3. Grows(summaries, summaries)
      BY <1>3, AppendGrows
    <3> QED
      BY <1>3, <2>2, <3>1, <3>2, <3>3 DEF IInv
  <2> QED
    BY <1>1, <2>1, <2>2
<1>5. Grows(messages, messages') /\ messages' = messages
  BY <1>2, <1>3, AppendGrows
<1>6. \A d \in Compactors : WindowOK(window[d], messages', summaries')
  BY <1>4, <1>5, WindowOKGrows DEF IInv
<1>7. \A d \in Compactors : WindowOK(window'[d], messages', summaries')
  <2>1. WindowOK(ReplaceRange(window[c], s, e, SummaryItem(summaries'[k], k)), messages', summaries')
    BY <1>3, <1>4, <1>5, <1>6, FoldedWindowOK
  <2> QED
    BY <1>1, <1>3, <1>6, <2>1
<1>8. window' \in [Compactors -> Seq(Item)] /\ folds' \in [Compactors -> Nat]
  <2>1. ReplaceRange(window[c], s, e, SummaryItem(summaries'[k], k)) \in Seq(Item)
    <3>1. window'[c] = ReplaceRange(window[c], s, e, SummaryItem(summaries'[k], k))
      BY <1>1, <1>3
    <3> QED
      BY <1>7, <3>1 DEF WindowOK
  <2> QED
    BY <1>1, <1>2, <1>3, <2>1 DEF IInv
<1>9. StoredWindow' = StoredWindow
  BY <1>2, <1>4, <1>5, StoredWindowGrows
<1>10. WindowOK(StoredWindow', messages', summaries')
  BY <1>4, <1>5, <1>9, WindowOKGrows DEF IInv
<1>11. \A i \in DOMAIN contextItems : RefOK(contextItems[i])'
  BY <1>2, <1>4, <1>5, RefOKGrows DEF IInv
<1> QED
  BY <1>2, <1>4, <1>5, <1>7, <1>8, <1>10, <1>11 DEF IInv

\* Every step preserves the invariant, capture, reads, folds, the final write
\* and a crash alike.
LEMMA NextIInv == IInv /\ [Next]_vars => IInv'
<1> SUFFICES ASSUME IInv, [Next]_vars PROVE IInv'
  OBVIOUS
<1>1. /\ messages \in Seq(Message) /\ summaries \in Seq(Summary)
      /\ Len(messages) \in Nat
      /\ Grows(messages, messages) /\ Grows(summaries, summaries)
  <2>1. messages \in Seq(Message) /\ summaries \in Seq(Summary)
    BY DEF IInv, RowsOK
  <2> QED
    BY <2>1, AppendGrows
<1>2. ASSUME NEW m \in Message, AppendMessage(m) PROVE IInv'
  <2>1. /\ messages' = Append(messages, m)
        /\ UNCHANGED <<summaries, descendants, contextItems, pc, archive, window, folds, failures>>
    BY <1>2 DEF AppendMessage, passVars
  <2>2. messages' \in Seq(Message) /\ Grows(messages, messages') /\ Grows(summaries, summaries')
    BY <1>1, <1>2, <2>1, AppendGrows
  <2>3. RowsOK(summaries', messages')
    <3>1. \A k \in DOMAIN summaries : summaries[k].hi \in Nat
      <4> SUFFICES ASSUME NEW k \in DOMAIN summaries PROVE summaries[k].hi \in Nat
        OBVIOUS
      <4>1. summaries[k] \in Summary
        BY <1>1
      <4> QED
        BY <4>1 DEF Summary
    <3>2. \A k \in DOMAIN summaries : SpanOK(summaries[k], messages')
      BY <2>2, <3>1 DEF IInv, RowsOK, SpanOK, Grows
    <3> QED
      BY <2>1, <3>2 DEF IInv, RowsOK
  <2>4. StoredWindow' = StoredWindow
    BY <2>1, <2>2, StoredWindowGrows
  <2>5. WindowOK(StoredWindow', messages', summaries')
    BY <2>2, <2>4, WindowOKGrows DEF IInv
  <2>6. \A c \in Compactors : WindowOK(window'[c], messages', summaries')
    BY <2>1, <2>2, WindowOKGrows DEF IInv
  <2>7. \A i \in DOMAIN contextItems : RefOK(contextItems[i])'
    BY <2>1, <2>2, RefOKGrows DEF IInv
  <2> QED
    BY <2>1, <2>2, <2>3, <2>5, <2>6, <2>7 DEF IInv
<1>3. ASSUME NEW c \in Compactors, NEW all \in BOOLEAN, ReadStoredWindow(c, all) PROVE IInv'
  <2>1. /\ UNCHANGED <<messages, summaries, descendants, contextItems, folds, failures>>
        /\ pc' = [pc EXCEPT ![c] = "reading"] /\ archive' = [archive EXCEPT ![c] = all]
        /\ window' = [window EXCEPT ![c] = StoredWindow]
    BY <1>3 DEF ReadStoredWindow, storeVars
  <2>2. StoredWindow' = StoredWindow
    BY <1>1, <2>1, StoredWindowGrows
  <2>3. StoredWindow \in Seq(Item)
    BY DEF IInv, WindowOK
  <2>4. \A d \in Compactors : WindowOK(window'[d], messages', summaries')
    BY <2>1 DEF IInv
  <2>5. \A i \in DOMAIN contextItems : RefOK(contextItems[i])'
    BY <1>1, <2>1, RefOKGrows DEF IInv
  <2>6. /\ pc' \in [Compactors -> PCs] /\ archive' \in [Compactors -> BOOLEAN]
        /\ window' \in [Compactors -> Seq(Item)] /\ folds' \in [Compactors -> Nat]
    BY <2>1, <2>3 DEF IInv, PCs
  <2> QED
    BY <2>1, <2>2, <2>4, <2>5, <2>6 DEF IInv
<1>4. ASSUME NEW c \in Compactors, ReadNewerMessages(c) PROVE IInv'
  <2>1. /\ UNCHANGED <<messages, summaries, descendants, contextItems, archive, folds, failures>>
        /\ pc' = [pc EXCEPT ![c] = "folding"]
        /\ window' = [window EXCEPT ![c] = @ \o NewerMessages(@)]
    BY <1>4 DEF ReadNewerMessages, storeVars
  <2>2. StoredWindow' = StoredWindow
    BY <1>1, <2>1, StoredWindowGrows
  <2>3. WindowOK(window[c] \o NewerMessages(window[c]), messages, summaries)
    BY <1>1, ExtendTiles, ReadsMatch DEF IInv
  <2>4. /\ \A d \in Compactors : WindowOK(window'[d], messages', summaries')
        /\ window' \in [Compactors -> Seq(Item)]
    BY <2>1, <2>3 DEF IInv, WindowOK
  <2>5. \A i \in DOMAIN contextItems : RefOK(contextItems[i])'
    BY <1>1, <2>1, RefOKGrows DEF IInv
  <2>6. pc' \in [Compactors -> PCs]
    BY <2>1 DEF IInv, PCs
  <2> QED
    BY <2>1, <2>2, <2>4, <2>5, <2>6 DEF IInv
<1>5. ASSUME NEW c \in Compactors, FoldLeaf(c) PROVE IInv'
  <2>1. PICK s \in DOMAIN window[c], e \in DOMAIN window[c], t \in SummaryTokens :
          /\ IsMessageBlock(window[c], s, e)
          /\ Fold(c, s, e, RowOver(window[c], s, e, 0, t), e - s + 1)
    BY <1>5 DEF FoldLeaf
  <2> DEFINE row == RowOver(window[c], s, e, 0, t)
  <2>2. WindowOK(window[c], messages, summaries)
    BY DEF IInv
  <2>3. s <= e /\ \A i \in s..e : window[c][i].kind = "message"
    BY <2>1 DEF IsMessageBlock, Foldable
  <2>4. /\ row \in Summary /\ SpanOK(row, messages) /\ row.depth = 0
        /\ row.lo = window[c][s].lo /\ row.hi = window[c][e].hi
    BY SMTT(30), <1>1, <2>2, <2>3, RowOverBlock
  <2>5. LeafExact(row)
    BY <1>1, <2>2, <2>3, LeafRowExact
  <2> HIDE DEF row
  <2>6. NewRowOK(row, summaries, messages)
    BY <2>4, <2>5 DEF NewRowOK
  <2> QED
    BY <2>1, <2>3, <2>4, <2>6, FoldIInv DEF row
<1>6. ASSUME NEW c \in Compactors, FoldRun(c) PROVE IInv'
  <2> DEFINE w == window[c]
  <2>1. PICK s \in DOMAIN w, e \in DOMAIN w, t \in SummaryTokens :
          /\ IsCondenseRun(w, s, e)
          /\ Fold(c, s, e, RowOver(w, s, e, w[s].depth + 1, t),
                  DescendantsAt(w, s..e))
    BY <1>6 DEF FoldRun
  <2> DEFINE d == w[s].depth
             row == RowOver(w, s, e, d + 1, t)
  <2>2. WindowOK(w, messages, summaries)
    BY DEF IInv
  <2>3. /\ w \in Seq(Item) /\ s \in Nat /\ d \in Nat /\ d + 1 \in Nat /\ d + 1 # 0
    <3>1. w \in Seq(Item) /\ s \in Nat /\ w[s] \in Item
      BY <2>2, ItemSpans DEF WindowOK
    <3>2. d \in Nat
      BY <3>1 DEF Item
    <3> QED
      BY <3>1, <3>2
  <2>4. s <= e /\ \A i \in s..e : w[i].kind = "summary" /\ w[i].depth = d
    BY <2>1, <2>3, ConfigAssumption DEF IsCondenseRun, CondenseStarts
  <2> HIDE DEF d, w
  <2>5. /\ row \in Summary /\ SpanOK(row, messages) /\ row.depth = d + 1
        /\ row.lo = w[s].lo /\ row.hi = w[e].hi
    BY <1>1, <2>2, <2>3, <2>4, RowOverBlock
  <2>6. /\ \A i \in DOMAIN row.src : row.src[i] \in DOMAIN summaries
        /\ CondensedExact(row, summaries)
    BY <1>1, <2>2, <2>3, <2>4, CondensedRowExact
  <2> HIDE DEF row
  <2>7. NewRowOK(row, summaries, messages)
    BY <2>3, <2>5, <2>6 DEF NewRowOK
  <2>8. Fold(c, s, e, row, DescendantsAt(w, s..e))
    BY <2>1 DEF row, d
  <2> QED
    BY <2>4, <2>5, <2>7, <2>8, FoldIInv DEF w
<1>7. ASSUME NEW c \in Compactors, Persist(c) PROVE IInv'
  <2> DEFINE w == window[c]
  <2>1. /\ contextItems' = [i \in 1..Len(w) |-> [kind |-> w[i].kind, ref |-> w[i].ref]]
        /\ pc' = [pc EXCEPT ![c] = "idle"] /\ window' = [window EXCEPT ![c] = <<>>]
        /\ archive' = [archive EXCEPT ![c] = FALSE] /\ folds' = [folds EXCEPT ![c] = 0]
        /\ UNCHANGED <<messages, summaries, descendants, failures>>
    BY <1>7 DEF Persist, EndPass, Forget
  <2>2. WindowOK(w, messages, summaries)
    BY DEF IInv
  <2>3. w \in Seq(Item) /\ Len(w) \in Nat /\ DOMAIN w = 1..Len(w)
        /\ \A i \in DOMAIN w : w[i] \in Item /\ ItemOK(w[i], messages, summaries)
    BY <2>2, ItemSpans DEF WindowOK
  <2> HIDE DEF w
  <2>4. contextItems' \in Seq(Ref) /\ DOMAIN contextItems' = 1..Len(w)
        /\ Len(contextItems') = Len(w)
    <3>1. \A i \in 1..Len(w) : [kind |-> w[i].kind, ref |-> w[i].ref] \in Ref
      BY <2>3 DEF Item, Ref
    <3> QED
      BY <2>1, <2>3, <3>1
  <2>5. \A i \in 1..Len(w) : Resolve(contextItems[i])' = w[i] /\ RefOK(contextItems[i])'
    <3> SUFFICES ASSUME NEW i \in 1..Len(w)
                 PROVE  Resolve(contextItems[i])' = w[i] /\ RefOK(contextItems[i])'
      OBVIOUS
    <3>1. contextItems'[i] = [kind |-> w[i].kind, ref |-> w[i].ref]
      BY <2>1
    <3>2. w[i] = Resolve([kind |-> w[i].kind, ref |-> w[i].ref]) /\ RefOK(w[i])
      BY <2>3, ResolveItem
    <3>3. Resolve(contextItems[i])' = w[i]
      BY <2>1, <3>1, <3>2 DEF Resolve, MessageItem, SummaryItem
    <3>4. RefOK(contextItems[i])'
      BY <2>1, <3>1, <3>2 DEF RefOK
    <3> QED
      BY <3>3, <3>4
  <2>6. StoredWindow' = w
    <3>1. StoredWindow' = [i \in 1..Len(w) |-> w[i]]
      BY <2>4, <2>5 DEF StoredWindow
    <3> QED
      BY <2>3, <3>1
  <2>7. \A d \in Compactors : WindowOK(window'[d], messages', summaries')
    BY <1>1, <2>1, EmptyWindowOK DEF IInv
  <2>8. /\ pc' \in [Compactors -> PCs] /\ archive' \in [Compactors -> BOOLEAN]
        /\ window' \in [Compactors -> Seq(Item)] /\ folds' \in [Compactors -> Nat]
    BY <2>1 DEF IInv, PCs
  <2> QED
    BY <1>1, <2>1, <2>2, <2>4, <2>5, <2>6, <2>7, <2>8 DEF IInv
<1>8. ASSUME NEW c \in Compactors, Abandon(c) PROVE IInv'
  <2>1. /\ UNCHANGED <<messages, summaries, descendants, contextItems>>
        /\ pc' = [pc EXCEPT ![c] = "idle"] /\ window' = [window EXCEPT ![c] = <<>>]
        /\ archive' = [archive EXCEPT ![c] = FALSE] /\ folds' = [folds EXCEPT ![c] = 0]
        /\ failures' = failures + 1
    BY <1>8 DEF Abandon, Forget, storeVars
  <2>2. StoredWindow' = StoredWindow
    BY <1>1, <2>1, StoredWindowGrows
  <2>3. \A d \in Compactors : WindowOK(window'[d], messages', summaries')
    BY <1>1, <2>1, EmptyWindowOK DEF IInv
  <2>4. \A i \in DOMAIN contextItems : RefOK(contextItems[i])'
    BY <1>1, <2>1, RefOKGrows DEF IInv
  <2>5. /\ pc' \in [Compactors -> PCs] /\ archive' \in [Compactors -> BOOLEAN]
        /\ window' \in [Compactors -> Seq(Item)] /\ folds' \in [Compactors -> Nat]
        /\ failures' \in Nat
    BY <2>1 DEF IInv, PCs
  <2> QED
    BY <2>1, <2>2, <2>3, <2>4, <2>5 DEF IInv
<1>9. CASE UNCHANGED vars
  <2>1. UNCHANGED <<messages, summaries, descendants, contextItems, pc, archive, window,
                    folds, failures>>
    BY <1>9 DEF vars, storeVars, passVars
  <2>2. StoredWindow' = StoredWindow
    BY <1>1, <2>1, StoredWindowGrows
  <2>3. \A i \in DOMAIN contextItems : RefOK(contextItems[i])'
    BY <1>1, <2>1, RefOKGrows DEF IInv
  <2> QED
    BY <2>1, <2>2, <2>3 DEF IInv
<1> QED
  BY <1>2, <1>3, <1>4, <1>5, <1>6, <1>7, <1>8, <1>9 DEF Next

\* The invariant holds of every reachable state.
LEMMA IInvInvariant == Spec => []IInv
BY InitIInv, NextIInv, PTL DEF Spec

(***************************************************************************)
(* The theorems.                                                           *)
(***************************************************************************)

\* Rows, references and pass state keep their types, and no reference held by
\* the persisted window or by a running pass ever dangles: GetMessage and
\* GetSummary of engine.go find every row they look up.
THEOREM TypeCorrect == Spec => []TypeOK
<1>1. IInv => TypeOK
  <2> SUFFICES ASSUME IInv PROVE TypeOK
    OBVIOUS
  <2>1. \A c \in Compactors : \A i \in DOMAIN window[c] : RefOK(window[c][i])
    BY ResolveItem DEF IInv, WindowOK
  <2> QED
    BY <2>1 DEF IInv, TypeOK, RowsOK, Counted
<1> QED
  BY <1>1, IInvInvariant, PTL

\* Whatever passes run at once, lose races or crash, the window buildWindow
\* assembles stands for every captured message exactly once and in order.
THEOREM AssembledWindowAlwaysTiles == Spec => []AssembledWindowTiles
<1>1. IInv => AssembledWindowTiles
  BY ExtendTiles, ReadsMatch DEF IInv, AssembledWindowTiles
<1> QED
  BY <1>1, IInvInvariant, PTL

\* Every leaf names exactly the messages of its span, and the children of every
\* condensed summary partition its span.
THEOREM LineageAlwaysExact == Spec => []LineageExact
<1>1. IInv => LineageExact
  BY DEF IInv, RowsOK, LineageExact
<1> QED
  BY <1>1, IInvInvariant, PTL

\* Two passes that fold the same block share one row: the check and the insert
\* of a summary are one transaction.
THEOREM SummariesAlwaysUnique == Spec => []SummariesUnique
<1>1. Init => SummariesUnique
  BY DEF Init, SummariesUnique
<1>2. IInv /\ SummariesUnique /\ [Next]_vars => SummariesUnique'
  <2> SUFFICES ASSUME IInv, SummariesUnique, [Next]_vars PROVE SummariesUnique'
    OBVIOUS
  <2>1. ASSUME NEW c \in Compactors, NEW s, NEW e, NEW row, NEW count,
               Fold(c, s, e, row, count)
        PROVE  SummariesUnique'
    <3>1. CASE UNCHANGED summaries
      BY <3>1 DEF SummariesUnique
    <3>2. CASE SameSummary(row) = {} /\ summaries' = Append(summaries, row)
      <4>1. summaries \in Seq(Summary) /\ DOMAIN summaries = 1..Len(summaries)
        BY DEF IInv, RowsOK
      <4>2. /\ DOMAIN summaries' = 1..(Len(summaries) + 1)
            /\ summaries'[Len(summaries) + 1] = row
            /\ \A k \in DOMAIN summaries : summaries'[k] = summaries[k]
        BY <3>2, <4>1
      <4>3. \A k \in DOMAIN summaries :
              ~(summaries[k].depth = row.depth /\ summaries[k].src = row.src)
        BY <3>2 DEF SameSummary
      <4> QED
        BY <4>1, <4>2, <4>3 DEF SummariesUnique
    <3> QED
      BY <2>1, <3>1, <3>2 DEF Fold
  <2>2. CASE UNCHANGED summaries
    BY <2>2 DEF SummariesUnique
  <2>3. ASSUME NEW c \in Compactors, FoldLeaf(c) PROVE SummariesUnique'
    BY <2>1, <2>3 DEF FoldLeaf
  <2>4. ASSUME NEW c \in Compactors, FoldRun(c) PROVE SummariesUnique'
    BY <2>1, <2>4 DEF FoldRun
  <2> QED
    BY <2>2, <2>3, <2>4 DEF Next, AppendMessage, ReadStoredWindow, ReadNewerMessages,
       Persist, EndPass, Abandon, vars, storeVars
<1> QED
  BY <1>1, <1>2, IInvInvariant, PTL DEF Spec

(***************************************************************************)
(* Folds use up what a pass read: each takes a message out of the window   *)
(* or makes the window shorter.                                            *)
(***************************************************************************)

\* The sequence numbers a window still shows raw.
RawIn(w) == {w[i].lo : i \in {j \in DOMAIN w : w[j].kind = "message"}}

\* Counting two for a message and one for a summary, what is left of the window
\* and the folds made so far stay within what the pass read.
Paced ==
    \A c \in Compactors :
        /\ pc[c] # "folding" => folds[c] = 0
        /\ pc[c] = "folding" =>
              /\ folds[c] + Len(window[c]) + Cardinality(RawIn(window[c])) <= 2 * Len(messages)
              /\ folds[c] > 0 => Len(window[c]) > 0

\* A tiling has no more items, and no more of them raw, than it stands for.
LEMMA TilesLen ==
    ASSUME NEW w \in Seq(Item), NEW h \in Nat, Tiles(w, h)
    PROVE  /\ Len(w) \in Nat /\ Len(w) <= h
           /\ IsFiniteSet(RawIn(w)) /\ Cardinality(RawIn(w)) \in Nat
           /\ Cardinality(RawIn(w)) <= h
<1>1. /\ Len(w) \in Nat /\ DOMAIN w = 1..Len(w)
      /\ \A i \in DOMAIN w : w[i].lo \in Nat /\ w[i].hi \in Nat /\ w[i].lo \in 1..h
      /\ \A i, j \in DOMAIN w : i < j => w[i].hi < w[j].lo
      /\ \A i \in DOMAIN w : w[i].lo <= w[i].hi
  BY ItemSpans DEF Tiles, InRange, Ordered
<1>2. IsFiniteSet(1..h) /\ Cardinality(1..h) = h
  BY FS_Interval
<1>3. Len(w) <= h
  <2> DEFINE f == [i \in 1..Len(w) |-> w[i].lo]
  <2>1. \A i, j \in 1..Len(w) : f[i] = f[j] => i = j
    <3>1. \A i, j \in 1..Len(w) : i < j => w[i].lo < w[j].lo
      BY <1>1
    <3>2. \A i \in 1..Len(w) : w[i].lo \in Nat
      BY <1>1
    <3> SUFFICES ASSUME NEW i \in 1..Len(w), NEW j \in 1..Len(w), i # j PROVE f[i] # f[j]
      OBVIOUS
    <3> QED
      BY <1>1, <3>1, <3>2
  <2>2. f \in [1..Len(w) -> 1..h]
    BY <1>1
  <2>3. f \in Injection(1..Len(w), 1..h)
    BY <2>1, <2>2 DEF Injection, IsInjective
  <2>4. Cardinality(1..Len(w)) <= h
    <3> HIDE DEF f
    <3>1. Cardinality(1..Len(w)) <= Cardinality(1..h)
      BY <1>2, <2>3, FS_Injection
    <3> QED
      BY <1>2, <3>1
  <2>5. Cardinality(1..Len(w)) = Len(w)
    <3>1. Len(w) \in Nat
      OBVIOUS
    <3>2. \A n \in Nat : Cardinality(1..n) = n
      BY FS_Interval
    <3> QED
      BY <3>1, <3>2
  <2> QED
    BY <2>4, <2>5
<1>4. RawIn(w) \subseteq 1..h
  BY <1>1 DEF RawIn
<1> QED
  BY <1>1, <1>2, <1>3, <1>4, FS_Subset, FS_CardinalityType

\* Replacing a block by a summary leaves a shorter window with no new raw
\* message; of a block of messages, at least the first is no longer raw.
LEMMA ReplaceSpends ==
    ASSUME NEW w \in Seq(Item), NEW h \in Nat, Tiles(w, h),
           NEW s \in DOMAIN w, NEW e \in DOMAIN w, s <= e,
           NEW item, item.kind = "summary"
    PROVE  LET v == ReplaceRange(w, s, e, item)
           IN  /\ Len(v) = Len(w) - (e - s) /\ Len(v) \in Nat /\ Len(v) > 0
               /\ Cardinality(RawIn(v)) \in Nat
               /\ Cardinality(RawIn(v)) <= Cardinality(RawIn(w))
               /\ w[s].kind = "message" => Cardinality(RawIn(v)) < Cardinality(RawIn(w))
<1> DEFINE v == ReplaceRange(w, s, e, item)
           n == Len(w) - (e - s)
<1>1. /\ Len(w) \in Nat /\ DOMAIN w = 1..Len(w) /\ s \in 1..Len(w) /\ e \in 1..Len(w)
      /\ \A i \in DOMAIN w : w[i].lo \in Nat /\ w[i].hi \in Nat
      /\ \A i, j \in DOMAIN w : i < j => w[i].hi < w[j].lo
      /\ \A i \in DOMAIN w : w[i].lo <= w[i].hi
  BY ItemSpans DEF Tiles, InRange, Ordered
<1>2. n \in Nat /\ n > 0 /\ s \in 1..n
  BY <1>1
<1>3. /\ DOMAIN v = 1..n
      /\ v = [i \in 1..n |-> v[i]]
      /\ \A i \in 1..n : i < s => v[i] = w[i] /\ i \in DOMAIN w /\ i # s
      /\ v[s] = item
      /\ \A i \in 1..n : i > s => /\ v[i] = w[i + (e - s)]
                                  /\ i + (e - s) \in DOMAIN w /\ i + (e - s) # s
  BY <1>1, <1>2 DEF ReplaceRange
<1>4. Len(v) = n
  <2> HIDE DEF v
  <2> QED BY <1>2, <1>3
<1>5. \A i \in 1..n : v[i].kind = "message" => \E j \in DOMAIN w : j # s /\ v[i] = w[j]
  <2> SUFFICES ASSUME NEW i \in 1..n, v[i].kind = "message"
               PROVE  \E j \in DOMAIN w : j # s /\ v[i] = w[j]
    OBVIOUS
  <2> HIDE DEF v
  <2>1. i # s
    <3>1. v[s].kind = "summary"
      BY <1>3
    <3> QED
      BY <3>1
  <2>2. i < s \/ i > s
    BY <1>2, <2>1
  <2> HIDE DEF n
  <2> QED
    BY <1>3, <2>2
<1>6. \A j \in DOMAIN w : j # s => w[j].lo # w[s].lo
  <2> SUFFICES ASSUME NEW j \in DOMAIN w, j # s PROVE w[j].lo # w[s].lo
    OBVIOUS
  <2>1. j < s \/ s < j
    BY <1>1
  <2> QED
    BY <1>1, <2>1
<1> HIDE DEF v, n
<1>7. RawIn(v) \subseteq RawIn(w) \ {w[s].lo}
  <2> SUFFICES ASSUME NEW i \in 1..n, v[i].kind = "message"
               PROVE  v[i].lo \in RawIn(w) \ {w[s].lo}
    BY <1>3 DEF RawIn
  <2>1. PICK j \in DOMAIN w : j # s /\ v[i] = w[j]
    BY <1>5
  <2> QED
    BY <1>6, <2>1 DEF RawIn
<1>8. /\ IsFiniteSet(RawIn(w)) /\ Cardinality(RawIn(w)) \in Nat
  BY TilesLen
<1>9. /\ IsFiniteSet(RawIn(w) \ {w[s].lo})
      /\ Cardinality(RawIn(w) \ {w[s].lo}) =
           IF w[s].lo \in RawIn(w) THEN Cardinality(RawIn(w)) - 1 ELSE Cardinality(RawIn(w))
  BY <1>8, FS_RemoveElement
<1>10. /\ IsFiniteSet(RawIn(v)) /\ Cardinality(RawIn(v)) \in Nat
       /\ Cardinality(RawIn(v)) <= Cardinality(RawIn(w) \ {w[s].lo})
  BY <1>7, <1>9, FS_Subset, FS_CardinalityType
<1>11. w[s].kind = "message" => w[s].lo \in RawIn(w)
  BY DEF RawIn
<1>12. /\ Cardinality(RawIn(v)) <= Cardinality(RawIn(w))
       /\ w[s].kind = "message" => Cardinality(RawIn(v)) < Cardinality(RawIn(w))
  BY <1>8, <1>9, <1>10, <1>11
<1> QED
  BY <1>2, <1>4, <1>10, <1>12 DEF v, n

\* A fold of a pass that is paced keeps it so: the block it replaces begins with
\* a message, or has at least two summaries.
LEMMA FoldPaced ==
    ASSUME IInv, Paced, NEW c \in Compactors, pc[c] = "folding",
           NEW s \in DOMAIN window[c], NEW e \in DOMAIN window[c], s <= e,
           window[c][s].kind = "message" \/ s < e,
           NEW row, NEW count, Fold(c, s, e, row, count)
    PROVE  Paced'
<1> DEFINE w == window[c]
<1>1. /\ messages' = messages /\ pc' = pc
      /\ folds' = [folds EXCEPT ![c] = @ + 1]
      /\ folds[c] \in Nat /\ folds \in [Compactors -> Nat]
  BY DEF Fold, IInv
<1>2. PICK k : window' = [window EXCEPT
                    ![c] = ReplaceRange(@, s, e, SummaryItem(summaries'[k], k))]
  BY DEF Fold
<1>3. /\ w \in Seq(Item) /\ LastSeq(w) \in Nat /\ Tiles(w, LastSeq(w))
      /\ window \in [Compactors -> Seq(Item)]
      /\ Len(messages) \in Nat
  BY DEF IInv, WindowOK
<1> DEFINE item == SummaryItem(summaries'[k], k)
           v == ReplaceRange(w, s, e, item)
<1>4. item.kind = "summary"
  BY DEF SummaryItem
<1> HIDE DEF item
<1>5. /\ Len(v) = Len(w) - (e - s) /\ Len(v) \in Nat /\ Len(v) > 0
      /\ Cardinality(RawIn(v)) \in Nat
      /\ Cardinality(RawIn(v)) <= Cardinality(RawIn(w))
      /\ w[s].kind = "message" => Cardinality(RawIn(v)) < Cardinality(RawIn(w))
  BY <1>3, <1>4, ReplaceSpends
<1>6. /\ Len(w) \in Nat /\ Cardinality(RawIn(w)) \in Nat /\ s \in Nat /\ e \in Nat
  BY <1>3, TilesLen
<1>7. window'[c] = v /\ folds'[c] = folds[c] + 1
  BY <1>1, <1>2, <1>3 DEF item
<1> HIDE DEF v
<1>8. folds'[c] + Len(v) + Cardinality(RawIn(v)) <= 2 * Len(messages)
  <2>1. folds[c] + Len(w) + Cardinality(RawIn(w)) <= 2 * Len(messages)
    BY DEF Paced
  <2>2. (w[s].kind = "message") \/ s < e
    OBVIOUS
  <2> HIDE DEF w
  <2> QED
    BY SMTT(30), <2>1, <2>2, <1>1, <1>3, <1>5, <1>6, <1>7
<1>9. \A d \in Compactors : d # c => window'[d] = window[d] /\ folds'[d] = folds[d]
  BY <1>1, <1>2, <1>3
<1> HIDE DEF w
<1> QED
  BY <1>1, <1>5, <1>7, <1>8, <1>9 DEF Paced

\* Every step keeps every pass paced.
LEMMA NextPaced == IInv /\ Paced /\ [Next]_vars => Paced'
<1> SUFFICES ASSUME IInv, Paced, [Next]_vars PROVE Paced'
  OBVIOUS
<1>1. /\ pc \in [Compactors -> PCs] /\ folds \in [Compactors -> Nat]
      /\ window \in [Compactors -> Seq(Item)] /\ messages \in Seq(Message)
      /\ summaries \in Seq(Summary) /\ Len(messages) \in Nat
  BY DEF IInv, RowsOK
<1>2. ASSUME NEW m \in Message, AppendMessage(m) PROVE Paced'
  <2>1. messages' = Append(messages, m) /\ UNCHANGED <<pc, window, folds>>
    BY <1>2 DEF AppendMessage, passVars
  <2>2. Len(messages') = Len(messages) + 1
    BY <1>1, <2>1
  <2>3. \A c \in Compactors : pc[c] = "folding" =>
          folds[c] + Len(window[c]) + Cardinality(RawIn(window[c])) <= 2 * Len(messages')
    <3> SUFFICES ASSUME NEW c \in Compactors, pc[c] = "folding"
                 PROVE  folds[c] + Len(window[c]) + Cardinality(RawIn(window[c]))
                          <= 2 * Len(messages')
      OBVIOUS
    <3>1. folds[c] + Len(window[c]) + Cardinality(RawIn(window[c])) <= 2 * Len(messages)
      BY DEF Paced
    <3>2. window[c] \in Seq(Item) /\ LastSeq(window[c]) \in Nat
          /\ Tiles(window[c], LastSeq(window[c]))
      BY DEF IInv, WindowOK
    <3>3. Len(window[c]) \in Nat /\ Cardinality(RawIn(window[c])) \in Nat /\ folds[c] \in Nat
      BY <1>1, <3>2, TilesLen
    <3> QED
      BY <1>1, <2>2, <3>1, <3>3
  <2> QED
    BY <2>1, <2>3 DEF Paced
<1>3. ASSUME NEW c \in Compactors, NEW all \in BOOLEAN, ReadStoredWindow(c, all) PROVE Paced'
  <2>1. /\ pc[c] = "idle" /\ pc' = [pc EXCEPT ![c] = "reading"]
        /\ UNCHANGED <<messages, folds>>
        /\ \A d \in Compactors : d # c => window'[d] = window[d]
    BY <1>1, <1>3 DEF ReadStoredWindow, storeVars
  <2> QED
    BY <1>1, <2>1 DEF Paced
<1>4. ASSUME NEW c \in Compactors, ReadNewerMessages(c) PROVE Paced'
  <2>1. /\ pc[c] = "reading" /\ pc' = [pc EXCEPT ![c] = "folding"]
        /\ UNCHANGED <<messages, folds>>
        /\ window' = [window EXCEPT ![c] = @ \o NewerMessages(@)]
    BY <1>4 DEF ReadNewerMessages, storeVars
  <2> DEFINE v == window[c] \o NewerMessages(window[c])
  <2>2. WindowOK(v, messages, summaries)
    BY <1>1, ExtendTiles, ReadsMatch DEF IInv
  <2>3. folds[c] = 0
    BY <2>1 DEF Paced
  <2>4. v = window'[c] /\ \A d \in Compactors : d # c => window'[d] = window[d]
    BY <1>1, <2>1
  <2> HIDE DEF v
  <2>5. Len(v) + Cardinality(RawIn(v)) <= 2 * Len(messages)
        /\ Len(v) \in Nat /\ Cardinality(RawIn(v)) \in Nat
    BY <1>1, <2>2, TilesLen DEF WindowOK
  <2>6. folds'[c] + Len(window'[c]) + Cardinality(RawIn(window'[c])) <= 2 * Len(messages')
    BY <2>1, <2>3, <2>4, <2>5
  <2>7. pc'[c] = "folding" /\ folds'[c] = 0
        /\ \A d \in Compactors : d # c => pc'[d] = pc[d] /\ folds'[d] = folds[d]
    BY <1>1, <2>1, <2>3
  <2> SUFFICES ASSUME NEW d \in Compactors
               PROVE  /\ pc'[d] # "folding" => folds'[d] = 0
                      /\ pc'[d] = "folding" =>
                            /\ folds'[d] + Len(window'[d]) + Cardinality(RawIn(window'[d]))
                                 <= 2 * Len(messages')
                            /\ folds'[d] > 0 => Len(window'[d]) > 0
    BY DEF Paced
  <2>8. CASE d = c
    BY <2>6, <2>7, <2>8
  <2>9. CASE d # c
    BY <2>1, <2>4, <2>7, <2>9 DEF Paced
  <2> QED
    BY <2>8, <2>9
<1>5. ASSUME NEW c \in Compactors, FoldLeaf(c) PROVE Paced'
  <2>1. PICK s \in DOMAIN window[c], e \in DOMAIN window[c], t \in SummaryTokens :
          /\ IsMessageBlock(window[c], s, e)
          /\ Fold(c, s, e, RowOver(window[c], s, e, 0, t), e - s + 1)
    BY <1>5 DEF FoldLeaf
  <2>2. pc[c] = "folding"
    BY <1>5 DEF FoldLeaf, WantsFold
  <2>3. s <= e /\ window[c][s].kind = "message"
    <3>1. window[c] \in Seq(Item) /\ s \in Nat /\ e \in Nat
      BY <1>1
    <3> QED
      BY <2>1, <3>1 DEF IsMessageBlock, Foldable
  <2> QED
    BY <2>1, <2>2, <2>3, FoldPaced
<1>6. ASSUME NEW c \in Compactors, FoldRun(c) PROVE Paced'
  <2>1. PICK s \in DOMAIN window[c], e \in DOMAIN window[c], t \in SummaryTokens :
          /\ IsCondenseRun(window[c], s, e)
          /\ Fold(c, s, e, RowOver(window[c], s, e, window[c][s].depth + 1, t),
                  DescendantsAt(window[c], s..e))
    BY <1>6 DEF FoldRun
  <2>2. pc[c] = "folding"
    BY <1>6 DEF FoldRun, WantsFold
  <2>3. s < e /\ s <= e
    <3>1. window[c] \in Seq(Item) /\ s \in Nat
      BY <1>1
    <3>2. e = s + CondenseFanout - 1
      BY <2>1 DEF IsCondenseRun
    <3> QED
      BY <3>1, <3>2, ConfigAssumption
  <2> QED
    BY <2>1, <2>2, <2>3, FoldPaced
<1>7. ASSUME NEW c \in Compactors, Persist(c) \/ Abandon(c) PROVE Paced'
  <2>1. /\ pc' = [pc EXCEPT ![c] = "idle"] /\ folds' = [folds EXCEPT ![c] = 0]
        /\ window' = [window EXCEPT ![c] = <<>>] /\ messages' = messages
    BY <1>7 DEF Persist, EndPass, Abandon, Forget, storeVars
  <2> QED
    BY <1>1, <2>1 DEF Paced
<1>8. CASE UNCHANGED vars
  BY <1>8 DEF vars, storeVars, passVars, Paced
<1> QED
  BY <1>2, <1>3, <1>4, <1>5, <1>6, <1>7, <1>8 DEF Next

\* A pass makes fewer than two folds per message of its conversation, whatever
\* other passes do: compactWindow's loop ends for want of something to fold, and
\* maxIterations cuts off passes over longer conversations only.
THEOREM FoldsAlwaysLinear == Spec => []FoldsLinear
<1>1. Init => Paced
  BY DEF Init, Paced
<1>2. IInv /\ Paced => FoldsLinear
  <2> SUFFICES ASSUME IInv, Paced, NEW c \in Compactors, folds[c] > 0
               PROVE  folds[c] < 2 * Len(messages)
    BY DEF FoldsLinear
  <2>1. /\ folds[c] \in Nat /\ Len(messages) \in Nat /\ window[c] \in Seq(Item)
        /\ LastSeq(window[c]) \in Nat /\ Tiles(window[c], LastSeq(window[c]))
    BY DEF IInv, WindowOK
  <2>2. Len(window[c]) \in Nat /\ Cardinality(RawIn(window[c])) \in Nat
    BY <2>1, TilesLen
  <2>3. /\ folds[c] + Len(window[c]) + Cardinality(RawIn(window[c])) <= 2 * Len(messages)
        /\ Len(window[c]) > 0
    BY <2>1 DEF Paced
  <2> QED
    BY <2>1, <2>2, <2>3
<1> QED
  BY <1>1, <1>2, NextPaced, IInvInvariant, PTL DEF Spec

\* The spans of an extended window are its spans and one more.
LEMMA SpansOfAppend ==
    ASSUME NEW w \in Seq(Item), NEW it \in Item
    PROVE  SpansOf(Append(w, it)) = Append(SpansOf(w), SpanOf(it))
<1> DEFINE R == [raw : BOOLEAN, lo : Nat, hi : Nat]
           v == SpansOf(w)
           x == SpanOf(it)
           n == Len(w)
           u == SpansOf(Append(w, it))
           a == Append(v, x)
<1>1. n \in Nat /\ DOMAIN w = 1..n /\ \A i \in 1..n : w[i] \in Item
  OBVIOUS
<1>2. \A y \in Item : SpanOf(y) \in R
  BY DEF SpanOf, Item
<1>3. v = [i \in 1..n |-> v[i]] /\ \A i \in 1..n : v[i] = SpanOf(w[i])
  BY <1>1 DEF SpansOf
<1>4. v \in Seq(R) /\ Len(v) = n /\ x \in R
  <2>1. \A i \in 1..n : v[i] \in R
    BY <1>1, <1>2, <1>3
  <2>2. x \in R
    BY <1>2
  <2> HIDE DEF v, R, n, x
  <2> QED
    BY <1>1, <1>3, <2>1, <2>2
<1>5. /\ Len(Append(w, it)) = n + 1 /\ Append(w, it)[n + 1] = it
      /\ \A i \in 1..n : Append(w, it)[i] = w[i]
  BY <1>1
<1>6. u = [i \in 1..(n + 1) |-> u[i]] /\ u[n + 1] = x /\ \A i \in 1..n : u[i] = SpanOf(w[i])
  <2>1. u = [i \in 1..(n + 1) |-> SpanOf(Append(w, it)[i])]
    BY <1>5 DEF SpansOf
  <2>2. n + 1 \in 1..(n + 1) /\ \A i \in 1..n : i \in 1..(n + 1)
    BY <1>1
  <2> HIDE DEF u
  <2> QED
    BY <1>5, <2>1, <2>2
<1>7. /\ a = [i \in 1..(n + 1) |-> a[i]]
      /\ a[n + 1] = x
      /\ \A i \in 1..n : a[i] = v[i]
  <2> HIDE DEF v, x, R, n
  <2>1. a \in Seq(R) /\ Len(a) = n + 1
    BY <1>4
  <2>2. a[n + 1] = x /\ \A i \in 1..n : a[i] = v[i]
    BY <1>1, <1>4
  <2>3. a = [i \in 1..(n + 1) |-> a[i]]
    <3> HIDE DEF a
    <3> QED
      BY <2>1
  <2> QED
    BY <2>2, <2>3
<1> HIDE DEF u, v, x, n, a
<1>8. \A i \in 1..(n + 1) : u[i] = a[i]
  <2> SUFFICES ASSUME NEW i \in 1..(n + 1) PROVE u[i] = a[i]
    OBVIOUS
  <2>1. CASE i = n + 1
    BY <1>6, <1>7, <2>1
  <2>2. CASE i \in 1..n
    <3>1. u[i] = SpanOf(w[i])
      BY <1>6, <2>2
    <3>2. v[i] = SpanOf(w[i])
      BY <1>3, <2>2
    <3>3. a[i] = v[i]
      BY <1>7, <2>2
    <3> QED
      BY <3>1, <3>2, <3>3
  <2> QED
    BY <1>1, <2>1, <2>2
<1>9. u = a
  BY <1>6, <1>7, <1>8
<1> QED
  BY <1>9 DEF u, v, x, a

\* What assembly shows is a view of the whole log.
LEMMA LiveWindowIsView ==
    IInv => LiveWindow \in Seq(Item) /\ Lossless!IsView(View, Len(messages))
<1> SUFFICES ASSUME IInv
             PROVE  LiveWindow \in Seq(Item) /\ Lossless!IsView(View, Len(messages))
  OBVIOUS
<1> DEFINE w == LiveWindow
<1>1. WindowOK(w, messages, summaries) /\ Tiles(w, Len(messages))
  BY ExtendTiles, ReadsMatch DEF IInv
<1>2. /\ w \in Seq(Item) /\ Len(w) \in Nat /\ DOMAIN w = 1..Len(w)
      /\ \A i \in DOMAIN w : ItemOK(w[i], messages, summaries)
  BY <1>1 DEF WindowOK
<1> DEFINE v == View
<1>3. /\ Len(v) = Len(w)
      /\ \A i \in 1..Len(w) : /\ v[i].raw = (w[i].kind = "message")
                              /\ v[i].lo = w[i].lo /\ v[i].hi = w[i].hi
  BY <1>2 DEF View, SpansOf, SpanOf
<1>4. \A i \in 1..Len(w) : w[i].kind = "message" => w[i].lo = w[i].hi
  <2> SUFFICES ASSUME NEW i \in 1..Len(w), w[i].kind = "message" PROVE w[i].lo = w[i].hi
    OBVIOUS
  <2>1. ItemOK(w[i], messages, summaries)
    BY <1>2
  <2> QED
    BY <2>1 DEF ItemOK
<1> HIDE DEF v, w
<1>5. Lossless!IsView(v, Len(messages))
  BY <1>1, <1>2, <1>3, <1>4 DEF Lossless!IsView, Tiles, InRange, Ordered, Covers
<1> QED
  BY <1>2, <1>5 DEF v, w

\* Compaction implements the lossless log: capturing shows the new message at
\* the end, and everything else a pass does is at most another way of showing
\* the same log.
THEOREM CompactionIsLossless == Spec => LosslessSpec
<1>1. Init => Lossless!Init
  <2> SUFFICES ASSUME Init PROVE Lossless!Init
    OBVIOUS
  <2>1. /\ messages = <<>> /\ Len(messages) = 0 /\ Len(contextItems) = 0
    BY DEF Init
  <2>2. StoredWindow = <<>>
    BY <2>1 DEF StoredWindow
  <2>3. NewerMessages(<<>>) = <<>>
    BY <2>1 DEF NewerMessages, LastSeq
  <2>4. LiveWindow = <<>> /\ Len(LiveWindow) = 0
    BY <2>2, <2>3 DEF LiveWindow
  <2>5. View = <<>>
    BY <2>4 DEF View, SpansOf
  <2> QED
    BY <2>1, <2>5 DEF Lossless!Init
<1>2. IInv /\ [Next]_vars => [Lossless!Next]_(Lossless!vars)
  <2> SUFFICES ASSUME IInv, [Next]_vars PROVE Lossless!Next
    OBVIOUS
  <2>1. CASE UNCHANGED messages
    BY <2>1 DEF Lossless!Next, Lossless!Refold
  <2>2. ASSUME NEW m \in Message, AppendMessage(m) PROVE Lossless!Capture
    <3> DEFINE w == StoredWindow
               h == LastSeq(w)
               n == Len(messages)
               x == NewerItems(w, messages)
               it == [kind |-> "message", ref |-> n + 1, role |-> m.role,
                      tokens |-> m.tokens, lo |-> n + 1, hi |-> n + 1, depth |-> 0]
    <3>1. /\ messages \in Seq(Message) /\ n \in Nat /\ messages' = Append(messages, m)
          /\ UNCHANGED <<summaries, contextItems>>
      BY <2>2 DEF IInv, AppendMessage
    <3>2. Grows(messages, messages') /\ Grows(summaries, summaries')
      BY <3>1, AppendGrows DEF IInv, RowsOK
    <3>3. StoredWindow' = w
      BY <3>1, <3>2, StoredWindowGrows
    <3>4. w \in Seq(Item) /\ h \in Nat /\ h <= n
      BY DEF IInv, WindowOK
    <3>5. LiveWindow' = w \o NewerItems(w, messages')
      <4>1. LiveWindow' = (StoredWindow \o NewerMessages(StoredWindow))'
        BY DEF LiveWindow
      <4> QED
        BY <3>3, <4>1 DEF NewerMessages, NewerItems, MessageItem
    <3>6. NewerItems(w, messages') = Append(x, it)
      <4>1. Len(messages') = n + 1 /\ messages'[n + 1] = m
            /\ \A i \in 1..n : messages'[i] = messages[i]
        BY <3>1
      <4>2. Len(x) = n - h /\ DOMAIN x = 1..(n - h)
        BY <3>1, <3>4 DEF NewerItems
      <4>3. \A i \in 1..(n - h) : h + i \in 1..n
        BY <3>1, <3>4
      <4>4. (n + 1) - h = (n - h) + 1 /\ h + ((n - h) + 1) = n + 1 /\ n - h \in Nat
        BY <3>1, <3>4
      <4>5. Append(x, it) = [i \in 1..((n - h) + 1) |-> IF i = (n - h) + 1 THEN it ELSE x[i]]
        BY <4>2, <4>4
      <4> QED
        BY <4>1, <4>2, <4>3, <4>4, <4>5 DEF NewerItems
    <3>7. LiveWindow = w \o x /\ LiveWindow \in Seq(Item)
      BY ReadsMatch, LiveWindowIsView
    <3>8. LiveWindow' = Append(LiveWindow, it)
      BY <3>4, <3>5, <3>6, <3>7
    <3>9. View' = Append(View, Lossless!Span(TRUE, n + 1, n + 1))
      <4>1. it \in Item
        <5>1. m.role \in Roles \cup {"none"} /\ m.tokens \in Nat /\ n + 1 \in Nat
              /\ "message" \in Kinds /\ 0 \in Nat
          <6>1. m.role \in Roles /\ m.tokens \in MessageTokens
            BY DEF Message
          <6>2. "message" \in Kinds
            BY DEF Kinds
          <6>3. m.tokens \in Nat
            BY <6>1, InputAssumption
          <6>4. n + 1 \in Nat
            BY <3>1
          <6>5. m.role \in Roles \cup {"none"}
            BY <6>1
          <6> QED
            BY <6>2, <6>3, <6>4, <6>5
        <5> QED
          BY <5>1 DEF Item
      <4>2. SpanOf(it) = Lossless!Span(TRUE, n + 1, n + 1)
        BY DEF SpanOf, Lossless!Span
      <4> HIDE DEF it
      <4>3. SpansOf(LiveWindow') = Append(SpansOf(LiveWindow), SpanOf(it))
        BY <3>7, <3>8, <4>1, SpansOfAppend
      <4> QED
        BY <4>2, <4>3 DEF View, SpansOf
    <3> QED
      BY <2>2, <3>1, <3>9 DEF Lossless!Capture, View, SpansOf, SpanOf
  <2>3. (\E m \in Message : AppendMessage(m)) \/ UNCHANGED messages
    <3>1. ASSUME NEW c \in Compactors, FoldLeaf(c) \/ FoldRun(c) PROVE UNCHANGED messages
      BY <3>1 DEF FoldLeaf, FoldRun, Fold
    <3>2. ASSUME NEW c \in Compactors,
                 \/ \E all \in BOOLEAN : ReadStoredWindow(c, all)
                 \/ ReadNewerMessages(c) \/ Persist(c) \/ Abandon(c)
          PROVE  UNCHANGED messages
      BY <3>2 DEF ReadStoredWindow, ReadNewerMessages, Persist, EndPass, Abandon,
         storeVars
    <3> QED
      BY <3>1, <3>2 DEF Next, vars, storeVars
  <2> QED
    BY <2>1, <2>2, <2>3 DEF Lossless!Next
<1>3. IInv => Lossless!IsView(View, Len(messages))
  BY LiveWindowIsView
<1> QED
  BY <1>1, <1>2, <1>3, IInvInvariant, PTL DEF Spec, LosslessSpec, Lossless!Spec

(***************************************************************************)
(* Expansion: the messages a summary reaches, and how many it says it has. *)
(***************************************************************************)

\* The items of a block hold as many messages as its span is long.
LEMMA BlockCount ==
    ASSUME NEW w \in Seq(Item), NEW h \in Nat, Tiles(w, h), NEW s \in DOMAIN w, NEW e \in DOMAIN w, s <= e,
           NEW f, \A i \in s..e : f[i] = w[i].hi - w[i].lo + 1
    PROVE  Cardinality(Units(f, s..e)) = w[e].hi - w[s].lo + 1
<1> DEFINE U == Units(f, s..e)
           T == w[s].lo..w[e].hi
           g == [u \in U |-> w[u[1]].lo + u[2]]
<1>1. /\ Len(w) \in Nat /\ DOMAIN w = 1..Len(w) /\ s \in Nat /\ e \in Nat
      /\ \A i \in DOMAIN w : w[i].lo \in Nat /\ w[i].hi \in Nat /\ w[i].lo <= w[i].hi /\ w[i].hi <= h /\ 1 <= w[i].lo
      /\ \A i, j \in DOMAIN w : i < j => w[i].hi < w[j].lo
      /\ \A n \in 1..h : \E i \in DOMAIN w : w[i].lo <= n /\ n <= w[i].hi
  BY ItemSpans DEF Tiles, InRange, Ordered, Covers
<1>2. \A i \in s..e : i \in DOMAIN w /\ w[s].lo <= w[i].lo /\ w[i].hi <= w[e].hi
  BY BlockSpan
<1>3. \A i \in s..e : f[i] \in Nat
  BY SMTT(30), <1>1, <1>2
<1>4. ASSUME NEW u \in U
      PROVE  /\ u[1] \in s..e /\ u[2] \in Nat /\ u = <<u[1], u[2]>>
             /\ g[u] = w[u[1]].lo + u[2] /\ g[u] <= w[u[1]].hi
  <2>1. u[1] \in s..e /\ u[2] \in Nat /\ u[2] < f[u[1]] /\ u = <<u[1], u[2]>> /\ g[u] = w[u[1]].lo + u[2]
    BY DEF Units
  <2> HIDE DEF g
  <2>2. w[u[1]].lo \in Nat /\ w[u[1]].hi \in Nat /\ f[u[1]] = w[u[1]].hi - w[u[1]].lo + 1
    BY <1>1, <1>2, <2>1
  <2> QED  BY <2>1, <2>2
<1>5. g \in [U -> T]
  <2>1. ASSUME NEW u \in U PROVE g[u] \in T
    <3>1. w[s].lo <= w[u[1]].lo /\ w[u[1]].hi <= w[e].hi /\ w[u[1]].lo \in Nat /\ w[u[1]].hi \in Nat
          /\ w[s].lo \in Nat /\ w[e].hi \in Nat
      BY <1>1, <1>2, <1>4
    <3> HIDE DEF g
    <3> QED  BY SMTT(30), <1>4, <3>1
  <2> QED  BY <2>1
<1>6. ASSUME NEW u \in U, NEW v \in U, g[u] = g[v] PROVE u = v
  <2> HIDE DEF g
  <2>1. /\ w[u[1]].lo \in Nat /\ w[u[1]].hi \in Nat /\ w[v[1]].lo \in Nat /\ w[v[1]].hi \in Nat
        /\ u[1] \in DOMAIN w /\ v[1] \in DOMAIN w /\ u[1] \in Nat /\ v[1] \in Nat
    BY SMTT(30), <1>1, <1>2, <1>4
  <2>2. CASE u[1] = v[1]
    BY SMTT(30), <1>4, <1>6, <2>1, <2>2
  <2>3. CASE u[1] < v[1]
    BY SMTT(30), <1>1, <1>4, <1>6, <2>1, <2>3
  <2>4. CASE v[1] < u[1]
    BY SMTT(30), <1>1, <1>4, <1>6, <2>1, <2>4
  <2> QED  BY <2>1, <2>2, <2>3, <2>4
<1>7. ASSUME NEW n \in T PROVE \E u \in U : g[u] = n
  <2>1. n \in 1..h /\ n \in Nat /\ w[s].lo <= n /\ n <= w[e].hi
    BY <1>1
  <2>2. PICK a \in DOMAIN w : w[a].lo <= n /\ n <= w[a].hi
    BY <1>1, <2>1
  <2>3. a \in s..e
    <3>1. a \in Nat /\ w[a].lo \in Nat /\ w[a].hi \in Nat /\ w[s].lo \in Nat /\ w[e].hi \in Nat
          /\ w[s].hi \in Nat /\ w[e].lo \in Nat
      BY <1>1
    <3>2. ASSUME a < s PROVE FALSE
      <4>1. w[a].hi < w[s].lo
        BY <1>1, <3>2
      <4> QED  BY <2>1, <2>2, <3>1, <4>1
    <3>3. ASSUME e < a PROVE FALSE
      <4>1. w[e].hi < w[a].lo
        BY <1>1, <3>3
      <4> QED  BY <2>1, <2>2, <3>1, <4>1
    <3> QED  BY SMTT(30), <1>1, <3>1, <3>2, <3>3
  <2> DEFINE u == <<a, n - w[a].lo>>
  <2>4. n - w[a].lo \in Nat /\ n - w[a].lo < f[a] /\ w[a].lo + (n - w[a].lo) = n
    <3>1. w[a].lo \in Nat /\ w[a].hi \in Nat /\ f[a] = w[a].hi - w[a].lo + 1
      BY <1>1, <2>3
    <3> QED  BY SMTT(30), <2>1, <2>2, <3>1
  <2>5. u \in U
    BY <2>3, <2>4 DEF Units
  <2>6. g[u] = n
    BY <2>4, <2>5
  <2> QED  BY <2>5, <2>6
<1>8. g \in Bijection(U, T)
  <2> HIDE DEF g, U, T
  <2>1. g \in Injection(U, T)
    BY <1>5, <1>6 DEF Injection, IsInjective
  <2>2. g \in Surjection(U, T)
    BY <1>5, <1>7 DEF Surjection
  <2> QED  BY <2>1, <2>2 DEF Bijection
<1>9. IsFiniteSet(U)
  <2>1. IsFiniteSet(s..e)
    BY <1>1, FS_Interval
  <2> QED  BY <1>3, <2>1, UnitsFinite
<1>10. Cardinality(T) = Cardinality(U)
  <2> HIDE DEF g, U, T
  <2> QED  BY <1>8, <1>9, FS_Bijection DEF ExistsBijection
<1>11. Cardinality(T) = w[e].hi - w[s].lo + 1
  <2>1. w[s].lo <= w[e].hi /\ w[s].lo \in Nat /\ w[e].hi \in Nat
    BY SMTT(30), <1>1, <1>2
  <2>2. \A a, b \in Int : a <= b => Cardinality(a..b) = b - a + 1
    BY FS_Interval
  <2> DEFINE a == w[s].lo
             b == w[e].hi
  <2>3. a \in Nat /\ b \in Nat /\ a <= b
    BY <2>1
  <2> HIDE DEF a, b
  <2>4. Cardinality(a..b) = b - a + 1
    BY <2>2, <2>3
  <2> QED  BY <2>4 DEF a, b
<1> QED  BY <1>10, <1>11

LEMMA DescendantsAtCounts ==
    ASSUME NEW w, NEW I, IsFiniteSet(I), \A i \in I : descendants[w[i].ref] \in Nat
    PROVE  DescendantsAt(w, I) = Cardinality(Units([i \in I |-> descendants[w[i].ref]], I))
<1> DEFINE f == [i \in I |-> descendants[w[i].ref]]
           Law(sum) == sum = [s \in SUBSET I |->
                                IF s = {} THEN 0 ELSE descendants[w[Pick(s)].ref] + sum[s \ {Pick(s)}]]
<1>1. \A s \in SUBSET I : s # {} => Pick(s) \in I
  BY DEF Pick
<1>2. \A i \in I : f[i] = descendants[w[i].ref] /\ f[i] \in Nat
  OBVIOUS
<1>3. ASSUME NEW sum PROVE Law(sum) <=> SumsOver(sum, f, I)
  <2>1. \A s \in SUBSET I : s # {} => f[Pick(s)] = descendants[w[Pick(s)].ref]
    BY <1>1, <1>2
  <2> HIDE DEF f
  <2> QED  BY <2>1 DEF SumsOver
<1>4. \E sum : Law(sum)
  <2> HIDE DEF f, Law
  <2> QED  BY <1>2, <1>3, SumsOverExists
<1>5. \E sum : Law(sum) /\ DescendantsAt(w, I) = sum[I]
  <2>1. DescendantsAt(w, I) = (CHOOSE sum : Law(sum))[I]
    BY DEF DescendantsAt, MapThenSumSet, MapThenFoldSet, Pick
  <2> HIDE DEF Law
  <2> QED  BY <1>4, <2>1
<1> HIDE DEF f, Law
<1>6. PICK sum : Law(sum) /\ DescendantsAt(w, I) = sum[I]
  BY <1>5
<1>7. SumsOver(sum, f, I)
  BY <1>3, <1>6
<1>8. sum[I] = Cardinality(Units(f, I))
  BY <1>2, <1>7, SumsOverCounts
<1> QED  BY <1>6, <1>8 DEF f

\* A leaf has as many sources as its span is long.
LEMMA LeafCount ==
    ASSUME NEW n \in Nat, NEW row, DOMAIN row.src = 1..n, LeafExact(row), row.src \in Seq(Nat),
           row.lo \in Nat, row.hi \in Nat, row.lo <= row.hi
    PROVE  n = row.hi - row.lo + 1
<1> DEFINE g == [i \in 1..n |-> row.src[i]]
           T == row.lo..row.hi
<1>1. \A i, j \in 1..n : i < j => row.src[i] < row.src[j]
  BY DEF LeafExact
<1>2. ASSUME NEW i \in 1..n PROVE row.src[i] \in Nat /\ row.src[i] \in T
  <2>1. row.src[i] \in {row.src[j] : j \in DOMAIN row.src}
    OBVIOUS
  <2>2. row.src[i] \in T
    BY <2>1 DEF LeafExact
  <2> QED  BY <2>2
<1>3. \A m \in T : \E i \in 1..n : row.src[i] = m
  BY DEF LeafExact
<1>4. \A i, j \in 1..n : row.src[i] = row.src[j] => i = j
  BY <1>1, <1>2
<1>5. g \in Bijection(1..n, T)
  <2>1. g \in [1..n -> T] /\ \A i \in 1..n : g[i] = row.src[i]
    BY <1>2
  <2> HIDE DEF g, T
  <2>2. g \in Injection(1..n, T)
    BY <1>4, <2>1 DEF Injection, IsInjective
  <2>3. g \in Surjection(1..n, T)
    BY <1>3, <2>1 DEF Surjection
  <2> QED  BY <2>2, <2>3 DEF Bijection
<1>6. IsFiniteSet(1..n) /\ Cardinality(1..n) = n /\ Cardinality(T) = row.hi - row.lo + 1
  <2>1. \A a, b \in Int : IsFiniteSet(a..b) /\ Cardinality(a..b) = IF a > b THEN 0 ELSE b - a + 1
    BY FS_Interval
  <2>2. IsFiniteSet(1..n) /\ Cardinality(1..n) = n
    BY <2>1
  <2> DEFINE a == row.lo
             b == row.hi
  <2>3. a \in Nat /\ b \in Nat /\ a <= b
    OBVIOUS
  <2> HIDE DEF a, b
  <2>4. Cardinality(a..b) = b - a + 1
    BY <2>1, <2>3
  <2> QED  BY <2>2, <2>4 DEF a, b
<1>7. Cardinality(T) = Cardinality(1..n)
  <2> HIDE DEF g, T
  <2> QED  BY <1>5, <1>6, FS_Bijection DEF ExistsBijection
<1> QED  BY <1>6, <1>7

\* What the recursion of ExpandToMessages yields for a row, once it yields the
\* spans of the rows before it.
LEMMA ExpandOne ==
    ASSUME IInv, NEW k \in DOMAIN summaries, NEW r, \A j \in 1..(k - 1) : r[j] = summaries[j].lo..summaries[j].hi
    PROVE  LET src == {summaries[k].src[i] : i \in DOMAIN summaries[k].src}
           IN  (IF summaries[k].depth = 0 THEN src ELSE UNION {r[j] : j \in src})
                   = summaries[k].lo..summaries[k].hi
<1> DEFINE row == summaries[k]
           src == {row.src[i] : i \in DOMAIN row.src}
<1>1. RowExact(summaries, k) /\ summaries \in Seq(Summary)
  BY DEF IInv, RowsOK
<1>2. CASE row.depth = 0
  BY <1>1, <1>2 DEF RowExact, LeafExact
<1>3. CASE row.depth # 0
  <2>1. CondensedExact(row, summaries) /\ \A i \in DOMAIN row.src : row.src[i] \in 1..(k - 1)
    BY <1>1, <1>3 DEF RowExact
  <2>2. \A i \in DOMAIN row.src : r[row.src[i]] = summaries[row.src[i]].lo..summaries[row.src[i]].hi
    BY <2>1
  <2>3. ASSUME NEW i \in DOMAIN row.src
        PROVE  /\ summaries[row.src[i]].lo \in Nat /\ summaries[row.src[i]].hi \in Nat
               /\ row.lo <= summaries[row.src[i]].lo /\ summaries[row.src[i]].hi <= row.hi
    <3>1. row.src[i] \in DOMAIN summaries
      <4>1. row.src[i] \in 1..(k - 1) /\ k \in 1..Len(summaries) /\ Len(summaries) \in Nat
            /\ DOMAIN summaries = 1..Len(summaries)
        BY <1>1, <2>1
      <4> HIDE DEF row
      <4> QED  BY <4>1
    <3>2. summaries[row.src[i]] \in Summary
      BY <1>1, <3>1
    <3> QED  BY <2>1, <3>2 DEF CondensedExact, Summary
  <2>4. row.lo \in Nat /\ row.hi \in Nat
    <3>1. row \in Summary
      BY <1>1
    <3> QED  BY <3>1 DEF Summary
  <2>5. UNION {r[j] : j \in src} \subseteq row.lo..row.hi
    <3>1. ASSUME NEW i \in DOMAIN row.src, NEW n \in r[row.src[i]] PROVE n \in row.lo..row.hi
      <4>1. n \in summaries[row.src[i]].lo..summaries[row.src[i]].hi
        BY <2>2, <3>1
      <4> QED  BY <2>3, <2>4, <4>1
    <3> QED  BY <3>1
  <2>6. ASSUME NEW n \in row.lo..row.hi PROVE n \in UNION {r[j] : j \in src}
    <3>1. PICK i \in DOMAIN row.src : summaries[row.src[i]].lo <= n /\ n <= summaries[row.src[i]].hi
      BY <2>1 DEF CondensedExact
    <3>2. n \in r[row.src[i]]
      BY <2>2, <2>3, <2>4, <3>1
    <3> QED  BY <3>2
  <2> QED  BY <1>3, <2>5, <2>6
<1> QED  BY <1>2, <1>3

\* Expanding a row reaches exactly its span.  The lineage is well founded, so
\* the recursion has one solution.
LEMMA ExpansionIsSpan ==
    ASSUME IInv
    PROVE  \A k \in DOMAIN summaries : Expansion[k] = summaries[k].lo..summaries[k].hi
<1> DEFINE Src(k) == {summaries[k].src[i] : i \in DOMAIN summaries[k].src}
           Reached(r, k) == IF summaries[k].depth = 0 THEN Src(k) ELSE UNION {r[j] : j \in Src(k)}
           Law(r) == r = [k \in DOMAIN summaries |-> Reached(r, k)]
           g == [k \in DOMAIN summaries |-> summaries[k].lo..summaries[k].hi]
<1>1. DOMAIN summaries = 1..Len(summaries) /\ Len(summaries) \in Nat
  BY DEF IInv, RowsOK
<1>2. ASSUME NEW r, NEW k \in DOMAIN summaries, \A j \in 1..(k - 1) : r[j] = summaries[j].lo..summaries[j].hi
      PROVE  Reached(r, k) = summaries[k].lo..summaries[k].hi
  BY <1>2, ExpandOne
<1>3. Law(g)
  <2>1. ASSUME NEW k \in DOMAIN summaries PROVE g[k] = Reached(g, k)
    <3>1. \A j \in 1..(k - 1) : g[j] = summaries[j].lo..summaries[j].hi
      BY <1>1
    <3> HIDE DEF Reached
    <3> QED  BY <1>2, <3>1
  <2> HIDE DEF Reached
  <2> QED  BY <2>1
<1>4. Law(Expansion)
  <2>1. Expansion = CHOOSE r : Law(r)
    BY DEF Expansion
  <2> HIDE DEF Law
  <2> QED  BY <1>3, <2>1
<1> DEFINE Bad == {k \in DOMAIN summaries : Expansion[k] # summaries[k].lo..summaries[k].hi}
<1>5. SUFFICES ASSUME Bad # {} PROVE FALSE
  OBVIOUS
<1>6. PICK m \in Bad : \A k \in Bad : m <= k
  <2>1. Bad \subseteq Nat
    BY <1>1
  <2> HIDE DEF Bad
  <2> QED  BY <1>5, <2>1, LeastNumber
<1>7. \A j \in 1..(m - 1) : Expansion[j] = summaries[j].lo..summaries[j].hi
  <2>1. ASSUME NEW j \in 1..(m - 1) PROVE j \notin Bad /\ j \in DOMAIN summaries
    <3>1. m \in 1..Len(summaries)
      BY <1>1
    <3> HIDE DEF Bad
    <3> QED  BY <1>1, <1>6, <3>1
  <2> QED  BY <2>1
<1>8. Expansion[m] = Reached(Expansion, m)
  <2>1. m \in DOMAIN summaries
    OBVIOUS
  <2> HIDE DEF Reached, Bad
  <2> QED  BY <1>4, <2>1
<1>9. Reached(Expansion, m) = summaries[m].lo..summaries[m].hi
  <2>1. m \in DOMAIN summaries
    OBVIOUS
  <2> HIDE DEF Reached, Bad
  <2> QED  BY <1>2, <1>7, <2>1
<1> QED  BY <1>8, <1>9

CountsExact == \A k \in DOMAIN summaries : descendants[k] = summaries[k].hi - summaries[k].lo + 1

\* A fold counts the new row's messages, or finds a row that is counted.
LEMMA FoldCounts ==
    ASSUME IInv, CountsExact, NEW c, NEW s, NEW e, NEW row, NEW count,
           Fold(c, s, e, row, count), count = row.hi - row.lo + 1
    PROVE  CountsExact'
<1>1. summaries \in Seq(Summary) /\ Len(descendants) = Len(summaries) /\ descendants \in Seq({descendants[i] : i \in DOMAIN descendants})
  BY DEF IInv, RowsOK, Counted
<1>2. CASE summaries' = Append(summaries, row) /\ descendants' = Append(descendants, count)
  <2>1. /\ DOMAIN summaries' = DOMAIN summaries \cup {Len(summaries) + 1}
        /\ summaries'[Len(summaries) + 1] = row /\ \A k \in DOMAIN summaries : summaries'[k] = summaries[k]
    BY <1>1, <1>2
  <2>2. /\ descendants'[Len(summaries) + 1] = count /\ \A k \in DOMAIN summaries : descendants'[k] = descendants[k]
    BY <1>1, <1>2
  <2> QED  BY <2>1, <2>2 DEF CountsExact
<1>3. CASE UNCHANGED <<summaries, descendants>>
  BY <1>3 DEF CountsExact
<1> QED  BY <1>2, <1>3 DEF Fold

LEMMA NextCounts == IInv /\ CountsExact /\ [Next]_vars => CountsExact'
<1> SUFFICES ASSUME IInv, CountsExact, [Next]_vars PROVE CountsExact'
  OBVIOUS
<1>1. ASSUME NEW c \in Compactors, FoldLeaf(c) PROVE CountsExact'
  <2> DEFINE w == window[c]
  <2>1. PICK s \in DOMAIN w, e \in DOMAIN w, t \in SummaryTokens :
          /\ IsMessageBlock(w, s, e)
          /\ Fold(c, s, e, RowOver(w, s, e, 0, t), e - s + 1)
    BY <1>1 DEF FoldLeaf
  <2>2. WindowOK(w, messages, summaries) /\ messages \in Seq(Message)
    BY DEF IInv
  <2> HIDE DEF w
  <2>3. w \in Seq(Item) /\ s \in Nat /\ e \in Nat /\ s <= e /\ \A i \in s..e : w[i].kind = "message"
    <3>1. s..e \subseteq Foldable(w) /\ s <= e
      BY <2>1 DEF IsMessageBlock
    <3>2. \A i \in s..e : w[i].kind = "message"
      BY <3>1 DEF Foldable
    <3> QED  BY <2>2, <3>1, <3>2 DEF WindowOK
  <2>4. PICK row : row = RowOver(w, s, e, 0, t)
    OBVIOUS
  <2>5. /\ row \in Summary /\ SpanOK(row, messages) /\ DOMAIN row.src = 1..(e - s + 1)
    BY <2>2, <2>3, <2>4, RowOverBlock
  <2>6. LeafExact(row)
    BY <2>2, <2>3, <2>4, LeafRowExact
  <2>7. row.src \in Seq(Nat) /\ row.lo \in Nat /\ row.hi \in Nat /\ row.lo <= row.hi /\ e - s + 1 \in Nat
    BY SMTT(30), <2>3, <2>5 DEF Summary, SpanOK
  <2>8. e - s + 1 = row.hi - row.lo + 1
    BY <2>5, <2>6, <2>7, LeafCount
  <2>9. Fold(c, s, e, row, e - s + 1)
    BY <2>1, <2>4
  <2> QED  BY <2>8, <2>9, FoldCounts
<1>2. ASSUME NEW c \in Compactors, FoldRun(c) PROVE CountsExact'
  <2> DEFINE w == window[c]
  <2>1. PICK s \in DOMAIN w, e \in DOMAIN w, t \in SummaryTokens :
          /\ IsCondenseRun(w, s, e)
          /\ Fold(c, s, e, RowOver(w, s, e, w[s].depth + 1, t), DescendantsAt(w, s..e))
    BY <1>2 DEF FoldRun
  <2>2. WindowOK(w, messages, summaries)
    BY DEF IInv
  <2> HIDE DEF w
  <2>3. w \in Seq(Item) /\ s \in Nat /\ e \in Nat /\ s <= e /\ DOMAIN w = 1..Len(w) /\ Len(w) \in Nat
        /\ Tiles(w, LastSeq(w)) /\ LastSeq(w) \in Nat
    <3>1. w \in Seq(Item) /\ e = s + CondenseFanout - 1 /\ CondenseFanout \in Nat \ {0}
      BY <2>1, <2>2, ConfigAssumption DEF WindowOK, IsCondenseRun
    <3>2. s \in Nat /\ e \in Nat
      BY <3>1
    <3> QED  BY <2>2, <3>1, <3>2 DEF WindowOK
  <2>4. ASSUME NEW i \in s..e
        PROVE  descendants[w[i].ref] = w[i].hi - w[i].lo + 1 /\ descendants[w[i].ref] \in Nat
    <3>1. i \in DOMAIN w
      BY <2>3
    <3>2. w[i].kind = "summary"
      BY <2>1 DEF IsCondenseRun, CondenseStarts
    <3>3. w[i].ref \in DOMAIN summaries /\ w[i].lo = summaries[w[i].ref].lo /\ w[i].hi = summaries[w[i].ref].hi
      <4>1. ItemOK(w[i], messages, summaries)
        BY <2>2, <3>1 DEF WindowOK
      <4> QED  BY <3>2, <4>1 DEF ItemOK
    <3>4. w[i].lo \in Nat /\ w[i].hi \in Nat /\ w[i].lo <= w[i].hi
      BY <2>3, <3>1, ItemSpans DEF Tiles, InRange
    <3>5. descendants[w[i].ref] = w[i].hi - w[i].lo + 1
      BY <3>3 DEF CountsExact
    <3> QED  BY <3>4, <3>5
  <2> DEFINE f == [i \in s..e |-> descendants[w[i].ref]]
  <2>5. DescendantsAt(w, s..e) = Cardinality(Units(f, s..e))
    <3>1. IsFiniteSet(s..e)
      BY <2>3, FS_Interval
    <3> QED  BY <2>4, <3>1, DescendantsAtCounts
  <2>6. \A i \in s..e : f[i] = w[i].hi - w[i].lo + 1
    BY <2>4
  <2> HIDE DEF f
  <2>7. DescendantsAt(w, s..e) = w[e].hi - w[s].lo + 1
    BY <2>1, <2>3, <2>5, <2>6, BlockCount
  <2>8. PICK row : row = RowOver(w, s, e, w[s].depth + 1, t)
    OBVIOUS
  <2>9. row.lo = w[s].lo /\ row.hi = w[e].hi
    BY <2>8 DEF RowOver
  <2>10. Fold(c, s, e, row, DescendantsAt(w, s..e))
    BY <2>1, <2>8
  <2> QED  BY <2>7, <2>9, <2>10, FoldCounts
<1>3. CASE UNCHANGED <<summaries, descendants>>
  BY <1>3 DEF CountsExact
<1> QED
  BY <1>1, <1>2, <1>3
  DEF Next, AppendMessage, ReadStoredWindow, ReadNewerMessages, Persist, EndPass, Abandon, vars, storeVars

\* ExpandToMessages of any row, condensed over any number of levels, returns
\* exactly the messages of the span the row reports, as many as it advertises.
THEOREM ExpansionAlwaysExact == Spec => []ExpansionExact
<1>1. Init => CountsExact
  BY DEF Init, CountsExact
<1>2. IInv /\ CountsExact => ExpansionExact
  BY ExpansionIsSpan DEF CountsExact, ExpansionExact
<1> QED
  BY <1>1, <1>2, NextCounts, IInvInvariant, PTL DEF Spec

-----------------------------------------------------------------------------
(* The fresh tail *)

\* The conversational items of w after i.
Newer(w, i) == {j \in DOMAIN w : j > i /\ IsConversational(w[j])}

\* The whole log as a window of raw messages.
Log(M) ==
    [n \in 1..Len(M) |->
        [kind |-> "message", ref |-> n, role |-> M[n].role,
         tokens |-> M[n].tokens, lo |-> n, hi |-> n, depth |-> 0]]

\* No row, in use or orphaned, stands for a message of the tail.
TailClear == \A k \in DOMAIN summaries : \A n \in summaries[k].lo..summaries[k].hi :
                n \notin ProtectedSet(Log(messages))

LEMMA ProtectedWhen ==
    ASSUME NEW w, NEW i \in DOMAIN w
    PROVE  i \in ProtectedSet(w) <=>
             /\ IsConversational(w[i])
             /\ \/ Cardinality(Newer(w, i)) < FreshTailMessages
                \/ TokensAt(w, Newer(w, i)) < FreshTailTokens
BY DEF ProtectedSet, Newer

\* The items I of w go one to one, by h, to items J of v of the same sizes.
FitIn(h, w, I, v, J) ==
    /\ IsFiniteSet(J) /\ \A j \in J : v[j].tokens \in Nat
    /\ h \in Injection(I, J) /\ \A i \in I : w[i].tokens = v[h[i]].tokens

\* Such items are no more and no larger.
LEMMA NoMoreTokens ==
    ASSUME NEW w, NEW I, NEW v, NEW J, NEW h, FitIn(h, w, I, v, J)
    PROVE  /\ Cardinality(I) <= Cardinality(J) /\ TokensAt(w, I) <= TokensAt(v, J)
           /\ Cardinality(I) \in Nat /\ Cardinality(J) \in Nat
           /\ TokensAt(w, I) \in Nat /\ TokensAt(v, J) \in Nat
<1>1. /\ IsFiniteSet(J) /\ \A j \in J : v[j].tokens \in Nat
      /\ h \in Injection(I, J) /\ \A i \in I : w[i].tokens = v[h[i]].tokens
  BY DEF FitIn
<1>2. IsFiniteSet(I) /\ Cardinality(I) <= Cardinality(J)
  BY <1>1, FS_Injection
<1>3. h \in [I -> J] /\ \A i, j \in I : h[i] = h[j] => i = j
  BY <1>1 DEF Injection, IsInjective
<1>4. \A i \in I : w[i].tokens \in Nat
  BY <1>1, <1>3
<1> DEFINE f == TokensOf(w, I)
           g == TokensOf(v, J)
           U == Units(f, I)
           V == Units(g, J)
           p == [u \in U |-> <<h[u[1]], u[2]>>]
<1>5. TokensAt(w, I) = Cardinality(U) /\ TokensAt(v, J) = Cardinality(V)
  BY <1>1, <1>2, <1>4, TokensAtCounts
<1>6. (\A i \in I : f[i] = w[i].tokens) /\ (\A j \in J : g[j] = v[j].tokens)
  BY DEF TokensOf
<1>7. IsFiniteSet(U) /\ IsFiniteSet(V) /\ Cardinality(U) \in Nat /\ Cardinality(V) \in Nat
  <2>1. (\A i \in I : f[i] \in Nat) /\ (\A j \in J : g[j] \in Nat)
    BY <1>1, <1>4, <1>6
  <2> HIDE DEF f, g
  <2> QED  BY <1>1, <1>2, <2>1, UnitsFinite
<1> HIDE DEF f, g
<1>8. \A u \in U : u = <<u[1], u[2]>> /\ u[1] \in I /\ u[2] \in Nat /\ u[2] < f[u[1]]
  BY DEF Units
<1>9. ASSUME NEW u \in U PROVE p[u] \in V /\ p[u] = <<h[u[1]], u[2]>>
  <2>1. h[u[1]] \in J /\ g[h[u[1]]] = f[u[1]]
    BY <1>1, <1>3, <1>6, <1>8
  <2>2. <<h[u[1]], u[2]>> \in V
    BY <1>8, <2>1 DEF Units
  <2> HIDE DEF U, V
  <2> QED  BY <2>2
<1>10. ASSUME NEW a \in U, NEW b \in U, p[a] = p[b] PROVE a = b
  <2>1. h[a[1]] = h[b[1]] /\ a[2] = b[2]
    BY <1>9, <1>10
  <2> HIDE DEF U, V, p
  <2>2. a[1] = b[1]
    BY <1>3, <1>8, <2>1
  <2> QED  BY <1>8, <2>1, <2>2
<1>11. p \in Injection(U, V)
  <2>1. p \in [U -> V]
    <3>1. p = [u \in U |-> p[u]]
      OBVIOUS
    <3> HIDE DEF p, U, V
    <3> QED  BY <1>9, <3>1
  <2> HIDE DEF p, U, V
  <2> QED  BY <1>10, <2>1 DEF Injection, IsInjective
<1>12. Cardinality(U) <= Cardinality(V)
  <2> HIDE DEF p, U, V
  <2> QED  BY <1>7, <1>11, FS_Injection
<1> QED  BY <1>1, <1>2, <1>5, <1>7, <1>12, FS_CardinalityType

\* What is no longer protected in w is not protected in v either, when v has
\* every newer item of w.
LEMMA StaysUnprotected ==
    ASSUME NEW w, NEW i \in DOMAIN w, i \notin ProtectedSet(w), NEW v, NEW n \in DOMAIN v,
           IsConversational(v[n]) => IsConversational(w[i]),
           NEW h, FitIn(h, w, Newer(w, i), v, Newer(v, n))
    PROVE  n \notin ProtectedSet(v)
<1> DEFINE I == Newer(w, i)
           J == Newer(v, n)
<1>1. FitIn(h, w, I, v, J)
  OBVIOUS
<1>2. FreshTailMessages \in Nat /\ FreshTailTokens \in Nat
  BY ConfigAssumption
<1>3. ~ IsConversational(w[i]) \/ ~ (Cardinality(I) < FreshTailMessages \/ TokensAt(w, I) < FreshTailTokens)
  BY ProtectedWhen
<1>4. n \in ProtectedSet(v) <=>
        IsConversational(v[n]) /\ (Cardinality(J) < FreshTailMessages \/ TokensAt(v, J) < FreshTailTokens)
  BY ProtectedWhen
<1> HIDE DEF I, J
<1>5. /\ Cardinality(I) <= Cardinality(J) /\ TokensAt(w, I) <= TokensAt(v, J)
      /\ Cardinality(I) \in Nat /\ Cardinality(J) \in Nat
      /\ TokensAt(w, I) \in Nat /\ TokensAt(v, J) \in Nat
  BY <1>1, NoMoreTokens
<1>6. ~ (Cardinality(I) < FreshTailMessages \/ TokensAt(w, I) < FreshTailTokens)
        => ~ (Cardinality(J) < FreshTailMessages \/ TokensAt(v, J) < FreshTailTokens)
  BY <1>2, <1>5
<1> QED  BY <1>3, <1>4, <1>6

\* The log is a finite window of messages.
LEMMA LogItems ==
    ASSUME NEW M \in Seq(Message)
    PROVE  /\ DOMAIN Log(M) = 1..Len(M) /\ Len(M) \in Nat /\ IsFiniteSet(DOMAIN Log(M))
           /\ \A n \in 1..Len(M) : /\ Log(M)[n].tokens = M[n].tokens /\ M[n].tokens \in Nat
                                   /\ Log(M)[n].kind = "message" /\ Log(M)[n].role = M[n].role
<1>1. DOMAIN Log(M) = 1..Len(M) /\ Len(M) \in Nat
  BY DEF Log
<1>2. IsFiniteSet(1..Len(M))
  BY <1>1, FS_Interval
<1>3. ASSUME NEW n \in 1..Len(M)
      PROVE  /\ Log(M)[n].tokens = M[n].tokens /\ M[n].tokens \in Nat
             /\ Log(M)[n].kind = "message" /\ Log(M)[n].role = M[n].role
  <2>1. M[n] \in Message
    BY <1>1
  <2>2. M[n].tokens \in Nat
    BY <2>1, InputAssumption DEF Message
  <2> QED  BY <2>2 DEF Log
<1> QED  BY <1>1, <1>2, <1>3

\* The newer turns of a message are finitely many, and so are their tokens.
LEMMA NewerCounts ==
    ASSUME NEW M \in Seq(Message), NEW n \in DOMAIN Log(M)
    PROVE  Cardinality(Newer(Log(M), n)) \in Nat /\ TokensAt(Log(M), Newer(Log(M), n)) \in Nat
<1> DEFINE w == Log(M)
           I == Newer(w, n)
           h == [i \in I |-> i]
<1>1. I \subseteq DOMAIN w
  BY DEF Newer
<1>2. IsFiniteSet(I) /\ \A i \in I : w[i].tokens \in Nat
  <2> HIDE DEF w, I
  <2>1. IsFiniteSet(DOMAIN w) /\ \A i \in DOMAIN w : w[i].tokens \in Nat
    BY LogItems DEF w
  <2> QED  BY <1>1, <2>1, FS_Subset
<1>3. h \in Injection(I, I) /\ \A i \in I : h[i] = i
  BY DEF Injection, IsInjective
<1> HIDE DEF w, I, h
<1>4. FitIn(h, w, I, w, I)
  BY <1>2, <1>3 DEF FitIn
<1> QED  BY <1>4, NoMoreTokens DEF w, I

\* A message that has left the tail does not come back to it.
LEMMA TailMovesOn ==
    ASSUME NEW M \in Seq(Message), NEW m \in Message, NEW n \in 1..Len(M),
           n \notin ProtectedSet(Log(M))
    PROVE  n \notin ProtectedSet(Log(Append(M, m)))
<1> DEFINE w == Log(M)
           M2 == Append(M, m)
           v == Log(M2)
<1>1. /\ DOMAIN w = 1..Len(M) /\ Len(M) \in Nat
      /\ \A j \in 1..Len(M) : /\ w[j].tokens = M[j].tokens /\ M[j].tokens \in Nat
                              /\ w[j].kind = "message" /\ w[j].role = M[j].role
  BY LogItems
<1>2. M2 \in Seq(Message) /\ Len(M2) = Len(M) + 1 /\ \A j \in 1..Len(M) : M2[j] = M[j]
  BY <1>1
<1>3. /\ DOMAIN v = 1..Len(M2) /\ Len(M2) \in Nat /\ IsFiniteSet(DOMAIN v)
      /\ \A j \in 1..Len(M2) : /\ v[j].tokens = M2[j].tokens /\ M2[j].tokens \in Nat
                               /\ v[j].kind = "message" /\ v[j].role = M2[j].role
  BY <1>2, LogItems
<1> DEFINE h == [j \in Newer(w, n) |-> j]
<1> HIDE DEF w, v, M2
<1>4. \A j \in 1..Len(M) : /\ j \in 1..Len(M2) /\ v[j].tokens = w[j].tokens
                           /\ IsConversational(v[j]) = IsConversational(w[j])
  BY <1>1, <1>2, <1>3 DEF IsConversational
<1>5. Newer(w, n) \subseteq Newer(v, n)
  BY <1>1, <1>3, <1>4 DEF Newer
<1>6. h \in Injection(Newer(w, n), Newer(v, n))
  BY <1>5 DEF Injection, IsInjective
<1>7. \A j \in Newer(w, n) : j \in 1..Len(M) /\ h[j] = j
  BY <1>1 DEF Newer
<1>8. \A j \in Newer(w, n) : w[j].tokens = v[h[j]].tokens
  BY <1>4, <1>7
<1>9. FitIn(h, w, Newer(w, n), v, Newer(v, n))
  <2>1. IsFiniteSet(Newer(v, n)) /\ \A j \in Newer(v, n) : v[j].tokens \in Nat
    <3>1. Newer(v, n) \in SUBSET DOMAIN v
      BY DEF Newer
    <3> QED  BY <1>3, <3>1, FS_Subset
  <2> HIDE DEF h
  <2> QED  BY <1>6, <1>8, <2>1 DEF FitIn
<1>10. n \in DOMAIN w /\ n \in DOMAIN v /\ n \notin ProtectedSet(w)
       /\ (IsConversational(v[n]) => IsConversational(w[n]))
  BY <1>1, <1>3, <1>4 DEF w
<1> HIDE DEF h
<1>11. n \notin ProtectedSet(v)
  BY <1>9, <1>10, StaysUnprotected
<1> QED  BY <1>11 DEF v, M2

\* A message a pass finds foldable in its window has left the tail of the log,
\* however old the window is.
LEMMA FoldableLeftTail ==
    ASSUME NEW M \in Seq(Message), NEW S, NEW w, WindowOK(w, M, S),
           NEW i \in DOMAIN w, w[i].kind = "message", i \notin ProtectedSet(w)
    PROVE  w[i].lo = w[i].ref /\ w[i].hi = w[i].ref /\ w[i].ref \notin ProtectedSet(Log(M))
<1> DEFINE v == Log(M)
           n == w[i].ref
           h == [j \in Newer(w, i) |-> w[j].ref]
<1>1. /\ DOMAIN v = 1..Len(M) /\ Len(M) \in Nat /\ IsFiniteSet(DOMAIN v)
      /\ \A j \in 1..Len(M) : /\ v[j].tokens = M[j].tokens /\ M[j].tokens \in Nat
                              /\ v[j].kind = "message" /\ v[j].role = M[j].role
  BY LogItems
<1>2. DOMAIN M = 1..Len(M)
  OBVIOUS
<1>3. ASSUME NEW j \in DOMAIN w, w[j].kind = "message"
      PROVE  /\ w[j].ref \in 1..Len(M) /\ w[j].lo = w[j].ref /\ w[j].hi = w[j].ref
             /\ w[j].role = M[w[j].ref].role /\ w[j].tokens = M[w[j].ref].tokens
  <2>1. ItemOK(w[j], M, S)
    BY DEF WindowOK
  <2> QED  BY <1>2, <1>3, <2>1 DEF ItemOK
<1>4. n \in 1..Len(M) /\ w[i].lo = n /\ w[i].hi = n /\ w[i].role = M[n].role
  BY <1>3
<1>5. \A j \in Newer(w, i) : j \in DOMAIN w /\ j > i /\ w[j].kind = "message" /\ w[j].role # "tool"
  BY DEF Newer, IsConversational
<1>6. \A j, k \in DOMAIN w : j < k => w[j].hi < w[k].lo
  BY DEF WindowOK, Tiles, Ordered
<1>7. \A j \in DOMAIN w : j \in Nat
  BY DEF WindowOK
<1> HIDE DEF v, n
<1>8. ASSUME NEW j \in Newer(w, i)
      PROVE  w[j].ref \in Newer(v, n) /\ w[j].tokens = v[w[j].ref].tokens /\ h[j] = w[j].ref
  <2>1. j \in DOMAIN w /\ j > i /\ w[j].kind = "message" /\ w[j].role # "tool"
    BY <1>5
  <2>2. /\ w[j].ref \in 1..Len(M) /\ w[j].lo = w[j].ref
        /\ w[j].role = M[w[j].ref].role /\ w[j].tokens = M[w[j].ref].tokens
    BY <1>3, <2>1
  <2>3. w[j].ref > n
    BY <1>1, <1>4, <1>6, <1>7, <2>1, <2>2
  <2> QED  BY <1>1, <2>1, <2>2, <2>3 DEF Newer, IsConversational
<1>9. ASSUME NEW j \in Newer(w, i), NEW k \in Newer(w, i), h[j] = h[k] PROVE j = k
  <2>1. /\ j \in DOMAIN w /\ k \in DOMAIN w /\ w[j].ref = w[k].ref
        /\ w[j].ref \in 1..Len(M) /\ w[j].lo = w[j].ref /\ w[k].lo = w[k].ref
        /\ w[j].hi = w[j].ref /\ w[k].hi = w[k].ref
    BY <1>3, <1>5, <1>8, <1>9
  <2>2. ~ (j < k) /\ ~ (k < j)
    BY <1>1, <1>6, <2>1
  <2> QED  BY <1>7, <2>1, <2>2
<1>10. FitIn(h, w, Newer(w, i), v, Newer(v, n))
  <2>1. h \in Injection(Newer(w, i), Newer(v, n))
    <3>1. h \in [Newer(w, i) -> Newer(v, n)]
      BY <1>8
    <3> HIDE DEF h
    <3> QED  BY <1>9, <3>1 DEF Injection, IsInjective
  <2>2. IsFiniteSet(Newer(v, n)) /\ \A j \in Newer(v, n) : v[j].tokens \in Nat
    <3>1. Newer(v, n) \in SUBSET DOMAIN v
      BY DEF Newer
    <3> QED  BY <1>1, <3>1, FS_Subset
  <2> HIDE DEF h
  <2> QED  BY <1>8, <2>1, <2>2 DEF FitIn
<1>11. n \in DOMAIN v /\ (IsConversational(v[n]) => IsConversational(w[i]))
  BY <1>1, <1>4 DEF IsConversational
<1> HIDE DEF h
<1>12. n \notin ProtectedSet(v)
  BY <1>10, <1>11, StaysUnprotected
<1> QED  BY <1>4, <1>12 DEF v, n

\* The message n inside a block of a good window is inside an item of it.
LEMMA InsideBlock ==
    ASSUME NEW M, NEW S, NEW w, WindowOK(w, M, S), NEW s \in DOMAIN w, NEW e \in DOMAIN w,
           NEW n \in w[s].lo..w[e].hi
    PROVE  \E i \in s..e : i \in DOMAIN w /\ w[i].lo <= n /\ n <= w[i].hi
<1>1. /\ \A i \in DOMAIN w : i \in Nat /\ w[i].lo \in Nat /\ w[i].hi \in Nat
                             /\ 1 <= w[i].lo /\ w[i].lo <= w[i].hi /\ w[i].hi <= LastSeq(w)
      /\ \A i, j \in DOMAIN w : i < j => w[i].hi < w[j].lo
      /\ \A k \in 1..LastSeq(w) : \E i \in DOMAIN w : w[i].lo <= k /\ k <= w[i].hi
      /\ LastSeq(w) \in Nat
  BY ItemSpans DEF WindowOK, Tiles, InRange, Ordered, Covers
<1>2. n \in 1..LastSeq(w) /\ n \in Nat
  BY <1>1
<1>3. PICK i \in DOMAIN w : w[i].lo <= n /\ n <= w[i].hi
  BY <1>1, <1>2
<1>4. ~ (i < s)
  BY <1>1, <1>2, <1>3
<1>5. ~ (e < i)
  BY <1>1, <1>2, <1>3
<1> QED  BY <1>1, <1>3, <1>4, <1>5

\* A fold of items outside the tail leaves the tail to no row.
LEMMA FoldTail ==
    ASSUME IInv, TailClear, NEW c, NEW s, NEW e, NEW row, NEW count, Fold(c, s, e, row, count),
           \A n \in row.lo..row.hi : n \notin ProtectedSet(Log(messages))
    PROVE  TailClear'
<1>1. summaries \in Seq(Summary) /\ messages' = messages
  BY DEF IInv, RowsOK, Fold
<1>2. CASE summaries' = Append(summaries, row)
  <2>1. /\ DOMAIN summaries' = DOMAIN summaries \cup {Len(summaries) + 1}
        /\ summaries'[Len(summaries) + 1] = row /\ \A k \in DOMAIN summaries : summaries'[k] = summaries[k]
    BY <1>1, <1>2
  <2> QED  BY <1>1, <2>1 DEF TailClear
<1>3. CASE UNCHANGED summaries
  BY <1>1, <1>3 DEF TailClear
<1> QED  BY <1>2, <1>3 DEF Fold

LEMMA NextTail == IInv /\ TailClear /\ [Next]_vars => TailClear'
<1> SUFFICES ASSUME IInv, TailClear, [Next]_vars PROVE TailClear'
  OBVIOUS
<1>1. ASSUME NEW m \in Message, AppendMessage(m) PROVE TailClear'
  <2>1. messages \in Seq(Message) /\ messages' = Append(messages, m) /\ summaries' = summaries
    BY <1>1 DEF IInv, AppendMessage
  <2>2. ASSUME NEW k \in DOMAIN summaries, NEW n \in summaries[k].lo..summaries[k].hi
        PROVE  n \notin ProtectedSet(Log(messages'))
    <3>1. SpanOK(summaries[k], messages) /\ summaries[k] \in Summary
      BY DEF IInv, RowsOK
    <3>2. n \in 1..Len(messages)
      BY <2>1, <3>1 DEF SpanOK, Summary
    <3>3. n \notin ProtectedSet(Log(messages))
      BY DEF TailClear
    <3>4. n \notin ProtectedSet(Log(Append(messages, m)))
      BY <2>1, <3>2, <3>3, TailMovesOn
    <3> QED  BY <2>1, <3>4
  <2> QED  BY <2>1, <2>2 DEF TailClear
<1>2. ASSUME NEW c \in Compactors, FoldLeaf(c) PROVE TailClear'
  <2> DEFINE w == window[c]
  <2>1. PICK s \in DOMAIN w, e \in DOMAIN w, t \in SummaryTokens :
          /\ IsMessageBlock(w, s, e)
          /\ Fold(c, s, e, RowOver(w, s, e, 0, t), e - s + 1)
    BY <1>2 DEF FoldLeaf
  <2>2. WindowOK(w, messages, summaries) /\ messages \in Seq(Message)
    BY DEF IInv
  <2> HIDE DEF w
  <2>3. s..e \subseteq Foldable(w)
    BY <2>1 DEF IsMessageBlock
  <2>4. ASSUME NEW n \in w[s].lo..w[e].hi PROVE n \notin ProtectedSet(Log(messages))
    <3>1. PICK i \in s..e : i \in DOMAIN w /\ w[i].lo <= n /\ n <= w[i].hi
      BY <2>2, InsideBlock
    <3>2. w[i].kind = "message" /\ i \notin ProtectedSet(w)
      BY <2>3, <3>1 DEF Foldable
    <3>3. w[i].lo = w[i].ref /\ w[i].hi = w[i].ref /\ w[i].ref \notin ProtectedSet(Log(messages))
      BY <2>2, <3>1, <3>2, FoldableLeftTail
    <3>4. w[i].lo \in Nat /\ w[s].lo \in Nat /\ w[e].hi \in Nat
      BY <2>2, <3>1, ItemSpans DEF WindowOK
    <3>5. n = w[i].ref
      BY <3>1, <3>3, <3>4
    <3> QED  BY <3>3, <3>5
  <2>5. PICK row : row = RowOver(w, s, e, 0, t)
    OBVIOUS
  <2>6. row.lo = w[s].lo /\ row.hi = w[e].hi
    BY <2>5 DEF RowOver
  <2>7. Fold(c, s, e, row, e - s + 1)
    BY <2>1, <2>5
  <2> QED  BY <2>4, <2>6, <2>7, FoldTail
<1>3. ASSUME NEW c \in Compactors, FoldRun(c) PROVE TailClear'
  <2> DEFINE w == window[c]
  <2>1. PICK s \in DOMAIN w, e \in DOMAIN w, t \in SummaryTokens :
          /\ IsCondenseRun(w, s, e)
          /\ Fold(c, s, e, RowOver(w, s, e, w[s].depth + 1, t), DescendantsAt(w, s..e))
    BY <1>3 DEF FoldRun
  <2>2. WindowOK(w, messages, summaries)
    BY DEF IInv
  <2> HIDE DEF w
  <2>3. ASSUME NEW n \in w[s].lo..w[e].hi PROVE n \notin ProtectedSet(Log(messages))
    <3>1. PICK i \in s..e : i \in DOMAIN w /\ w[i].lo <= n /\ n <= w[i].hi
      BY <2>2, InsideBlock
    <3>2. w[i].kind = "summary"
      BY <2>1 DEF IsCondenseRun, CondenseStarts
    <3>3. w[i].ref \in DOMAIN summaries /\ w[i].lo = summaries[w[i].ref].lo /\ w[i].hi = summaries[w[i].ref].hi
      <4>1. ItemOK(w[i], messages, summaries)
        BY <2>2, <3>1 DEF WindowOK
      <4> QED  BY <3>2, <4>1 DEF ItemOK
    <3>4. n \in Int /\ w[i].lo \in Nat /\ w[i].hi \in Nat
      BY <2>2, <3>1, ItemSpans DEF WindowOK
    <3>5. n \in summaries[w[i].ref].lo..summaries[w[i].ref].hi
      BY <3>1, <3>3, <3>4
    <3> QED  BY <3>3, <3>5 DEF TailClear
  <2>4. PICK row : row = RowOver(w, s, e, w[s].depth + 1, t)
    OBVIOUS
  <2>5. row.lo = w[s].lo /\ row.hi = w[e].hi
    BY <2>4 DEF RowOver
  <2>6. Fold(c, s, e, row, DescendantsAt(w, s..e))
    BY <2>1, <2>4
  <2> QED  BY <2>3, <2>5, <2>6, FoldTail
<1>4. CASE UNCHANGED <<messages, summaries>>
  BY <1>4 DEF TailClear
<1> QED
  BY <1>1, <1>2, <1>3, <1>4
  DEF Next, ReadStoredWindow, ReadNewerMessages, Persist, EndPass, Abandon, vars, storeVars

\* When no row reaches into the tail, assembly shows it message by message.
LEMMA TailShown == IInv /\ TailClear => FreshTailRaw
<1> SUFFICES ASSUME IInv, TailClear PROVE FreshTailRaw
  OBVIOUS
<1> DEFINE w == LiveWindow
           log == [n \in 1..Len(messages) |-> MessageItem(n)]
<1>1. WindowOK(w, messages, summaries) /\ Tiles(w, Len(messages))
  BY ExtendTiles, ReadsMatch DEF IInv
<1>2. log = Log(messages)
  BY DEF Log, MessageItem
<1>3. DOMAIN log = 1..Len(messages) /\ messages \in Seq(Message)
  BY DEF IInv
<1> HIDE DEF w, log
<1>4. ASSUME NEW n \in ProtectedSet(log) PROVE \E i \in DOMAIN w : w[i] = MessageItem(n)
  <2>1. n \in 1..Len(messages) /\ n \in Nat
    BY <1>3 DEF ProtectedSet
  <2>2. PICK i \in DOMAIN w : w[i].lo <= n /\ n <= w[i].hi
    BY <1>1, <2>1 DEF Tiles, Covers
  <2>3. ItemOK(w[i], messages, summaries) /\ w[i].lo \in Nat /\ w[i].hi \in Nat
    BY <1>1, ItemSpans DEF WindowOK
  <2>4. CASE w[i].kind = "summary"
    <3>1. w[i].ref \in DOMAIN summaries /\ w[i].lo = summaries[w[i].ref].lo /\ w[i].hi = summaries[w[i].ref].hi
      BY <2>3, <2>4 DEF ItemOK
    <3>2. n \in summaries[w[i].ref].lo..summaries[w[i].ref].hi
      BY <2>1, <2>2, <2>3, <3>1
    <3> QED  BY <1>2, <3>1, <3>2 DEF TailClear
  <2>5. CASE w[i].kind # "summary"
    <3>1. w[i] = MessageItem(w[i].ref) /\ w[i].lo = w[i].ref /\ w[i].hi = w[i].ref
      BY <2>3, <2>5 DEF ItemOK, MessageItem
    <3>2. w[i].ref = n
      BY <2>1, <2>2, <2>3, <3>1
    <3> QED  BY <3>1, <3>2
  <2> QED  BY <2>4, <2>5
<1>5. /\ messages \in Seq(Message)
      /\ \A n \in DOMAIN log : log[n].kind = "message" /\ log[n].role = messages[n].role
  BY <1>2, <1>3, LogItems
<1>6. \A n \in DOMAIN log : Newer(log, n) = {k \in DOMAIN log : k > n /\ messages[k].role # "tool"}
  BY <1>5 DEF Newer, IsConversational
<1>7. ASSUME NEW n \in DOMAIN log
      PROVE  \/ messages[n].role = "tool"
             \/ \E i \in DOMAIN w : w[i] = MessageItem(n)
             \/ /\ Cardinality(Newer(log, n)) >= FreshTailMessages
                /\ TokensAt(log, Newer(log, n)) >= FreshTailTokens
  <2>1. CASE n \in ProtectedSet(log)
    BY <1>4, <2>1
  <2>2. CASE messages[n].role # "tool" /\ n \notin ProtectedSet(log)
    <3>1. IsConversational(log[n])
      BY <1>5, <2>2 DEF IsConversational
    <3>2. /\ ~ (Cardinality(Newer(log, n)) < FreshTailMessages)
          /\ ~ (TokensAt(log, Newer(log, n)) < FreshTailTokens)
      BY <2>2, <3>1, ProtectedWhen
    <3>3. Cardinality(Newer(log, n)) \in Nat /\ TokensAt(log, Newer(log, n)) \in Nat
      BY <1>2, <1>3, NewerCounts
    <3> QED  BY <3>2, <3>3, ConfigAssumption
  <2> QED  BY <2>1, <2>2
<1>8. \A n \in DOMAIN log : log[n] = MessageItem(n)
  BY DEF log
<1>9. \A n \in DOMAIN log :
        \/ messages[n].role = "tool"
        \/ \E i \in DOMAIN w : w[i] = log[n]
        \/ LET after == {k \in DOMAIN log : k > n /\ messages[k].role # "tool"}
           IN  Cardinality(after) >= FreshTailMessages /\ TokensAt(log, after) >= FreshTailTokens
  BY <1>6, <1>7, <1>8
<1> QED  BY <1>9 DEF FreshTailRaw, w, log

\* Whatever passes run, race or die over a conversation, assembly shows its
\* newest conversational messages raw, up to both fresh-tail floors.
THEOREM FreshTailAlwaysRaw == Spec => []FreshTailRaw
<1>1. Init => TailClear
  BY DEF Init, TailClear
<1> QED
  BY <1>1, NextTail, TailShown, IInvInvariant, PTL DEF Spec
=============================================================================
