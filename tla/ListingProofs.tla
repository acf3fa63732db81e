---------------------------- MODULE ListingProofs ---------------------------
(***************************************************************************)
(* Proofs that paging passes over a version only when the rows in front of *)
(* it became fewer, for any versions, page sizes and numbers of rows.      *)
(***************************************************************************)
EXTENDS Listing, FiniteSetTheorems, SequenceTheorems, TLAPS

\* In sequence r the rows of version v, if there are any, are those behind place
\* a and up to place b, and the rows of newer versions come before them.
Spans(r, v, a, b) ==
  /\ a \in 0 .. Len(r) /\ b \in 0 .. Len(r) /\ a <= b
  /\ \A i \in 1 .. Len(r) : (i <= a <=> r[i] > v) /\ (b < i <=> r[i] < v)

\* Rows of a version in the listing.
RowsOf(v) == IF v \in current THEN chunks[v] ELSE 0

\* Every version has its rows in its place.
Tallied == \A v \in Version : \E a, b \in Nat : Spans(rows, v, a, b) /\ b = a + RowsOf(v)

\* The rows of a version the client has not been shown may have come in front of
\* the offset, but no further than the listing has slipped.
Near ==
  \A v \in expected :
    \/ v \in seen
    \/ chunks[v] <= slipped
    \/ \A i \in 1 .. Len(rows) : rows[i] = v => i + slipped > offset

\* There are no such versions when the client is told that there is no more.
AllWhenDone ==
  paging = "done" => \A v \in expected : v \in seen \/ chunks[v] <= slipped

Typed ==
  /\ prev_id \in [Version -> Version \cup {0}] /\ \A v \in Version : prev_id[v] < v
  /\ current \subseteq Version
  /\ chunks \in [Version -> Nat]
  /\ rows \in Seq(Version)
  /\ limit \in Nat /\ offset \in Nat /\ slipped \in Nat
  /\ expected \subseteq current

ListingInv == Typed /\ Tallied /\ Near /\ AllWhenDone

-----------------------------------------------------------------------------
(* Sequences.                                                              *)

\* q is the concatenation of s and t.
IsJoined(q, s, t) == s \in Seq(Version) /\ t \in Seq(Version) /\ q = s \o t

\* Where the items of two sequences are in their concatenation.
LEMMA Joined ==
  ASSUME NEW q, NEW s, NEW t, IsJoined(q, s, t)
  PROVE  /\ q \in Seq(Version) /\ Len(q) = Len(s) + Len(t)
         /\ Len(s) \in Nat /\ Len(t) \in Nat
         /\ \A j \in 1 .. Len(s) : q[j] = s[j]
         /\ \A j \in 1 .. Len(t) : q[Len(s) + j] = t[j]
<1>1. Len(s) \in Nat /\ Len(t) \in Nat
  BY DEF IsJoined
<1>2. \A j \in 1 .. Len(t) : (s \o t)[Len(s) + j] = t[j]
  BY <1>1 DEF IsJoined
<1> QED
  BY <1>1, <1>2 DEF IsJoined

AreParts(q, a, b, c) ==
  /\ q \in Seq(Version) /\ Len(q) = Len(a) + Len(b) + Len(c)
  /\ \A j \in 1 .. Len(a) : q[j] = a[j]
  /\ \A j \in 1 .. Len(b) : q[Len(a) + j] = b[j]
  /\ \A j \in 1 .. Len(c) : q[Len(a) + Len(b) + j] = c[j]

\* The same of three.
LEMMA ThreeParts ==
  ASSUME NEW a, NEW b, NEW c, NEW ab, NEW q, IsJoined(ab, a, b), IsJoined(q, ab, c)
  PROVE  AreParts(q, a, b, c)
<1>1. /\ Len(ab) = Len(a) + Len(b)
      /\ Len(a) \in Nat /\ Len(b) \in Nat
      /\ \A j \in 1 .. Len(a) : ab[j] = a[j]
      /\ \A j \in 1 .. Len(b) : ab[Len(a) + j] = b[j]
  BY Joined
<1>2. /\ q \in Seq(Version) /\ Len(q) = Len(ab) + Len(c) /\ Len(c) \in Nat
      /\ \A j \in 1 .. Len(ab) : q[j] = ab[j]
      /\ \A j \in 1 .. Len(c) : q[Len(ab) + j] = c[j]
  BY Joined
<1> QED
  BY <1>1, <1>2 DEF AreParts

\* A part of a sequence.
LEMMA Part ==
  ASSUME NEW S, NEW r \in Seq(S), NEW m \in Int, NEW n \in Int, 1 <= m, m <= n + 1, n <= Len(r)
  PROVE  /\ SubSeq(r, m, n) \in Seq(S) /\ Len(SubSeq(r, m, n)) = n - m + 1
         /\ \A j \in 1 .. n - m + 1 : SubSeq(r, m, n)[j] = r[m + j - 1]
<1>1. Len(r) \in Nat
  OBVIOUS
<1>2. \A j \in m .. n : r[j] \in S
  BY <1>1, ElementOfSeq
<1> QED
  BY <1>1, <1>2, SubSeqProperties


-----------------------------------------------------------------------------
(* Rows that make way, and rows that are gone.                             *)

\* How q comes from r when k rows of v are put behind place j, and those behind
\* place a and up to place b are taken out.
Moved(r, q, v, k, j, a, b) ==
  /\ k \in Nat
  /\ j \in 0 .. Len(r) /\ a \in 0 .. Len(r) /\ b \in 0 .. Len(r) /\ j <= a /\ a <= b
  /\ Len(q) = Len(r) + k - (b - a)
  /\ \A i \in 1 .. j : q[i] = r[i]
  /\ \A i \in 1 .. k : q[j + i] = v
  /\ \A i \in j + 1 .. a : q[i + k] = r[i]
  /\ \A i \in b + 1 .. Len(r) : q[i + k - (b - a)] = r[i]

\* That is what Relist does.
LEMMA Replaced ==
  ASSUME NEW r \in Seq(Version), NEW v \in Version, NEW k \in Nat,
         NEW j \in 0 .. Len(r), NEW a \in j .. Len(r), NEW b \in a .. Len(r)
  PROVE  LET q == SubSeq(r, 1, j) \o [i \in 1 .. k |-> v]
                    \o SubSeq(r, j + 1, a) \o SubSeq(r, b + 1, Len(r))
         IN  q \in Seq(Version) /\ Moved(r, q, v, k, j, a, b)
<1>1. /\ Len(r) \in Nat /\ j \in Nat /\ a \in Nat /\ b \in Nat
      /\ j <= a /\ a <= b /\ b <= Len(r)
  OBVIOUS
<1>2. PICK s \in Seq(Version) : /\ s = SubSeq(r, 1, j) /\ Len(s) = j
                               /\ \A i \in 1 .. j : s[i] = r[i]
  <2>1. PICK s : s = SubSeq(r, 1, j)
    OBVIOUS
  <2>2. s \in Seq(Version) /\ Len(s) = j - 1 + 1 /\ \A i \in 1 .. j - 1 + 1 : s[i] = r[1 + i - 1]
    BY <1>1, <2>1, Part
  <2>3. Len(s) = j /\ \A i \in 1 .. j : s[i] = r[i]
    BY <1>1, <2>2
  <2> QED
    BY <2>1, <2>2, <2>3
<1>3. PICK t \in Seq(Version) : /\ t = [i \in 1 .. k |-> v] /\ Len(t) = k
                               /\ \A i \in 1 .. k : t[i] = v
  <2>1. PICK t : t = [i \in 1 .. k |-> v]
    OBVIOUS
  <2>2. t \in Seq(Version)
    BY <2>1, IsASeq
  <2>3. DOMAIN t = 1 .. k
    BY <2>1
  <2>4. Len(t) = k
    BY <2>2, <2>3, LenProperties
  <2> QED
    BY <2>1, <2>2, <2>4
<1>4. PICK c \in Seq(Version) : /\ c = SubSeq(r, j + 1, a) /\ Len(c) = a - j
                               /\ \A i \in 1 .. a - j : c[i] = r[j + i]
  <2>1. PICK c : c = SubSeq(r, j + 1, a)
    OBVIOUS
  <2>2. /\ c \in Seq(Version) /\ Len(c) = a - (j + 1) + 1
        /\ \A i \in 1 .. a - (j + 1) + 1 : c[i] = r[(j + 1) + i - 1]
    BY <1>1, <2>1, Part
  <2>3. Len(c) = a - j /\ a - (j + 1) + 1 = a - j
    BY <1>1, <2>2
  <2>4. ASSUME NEW i \in 1 .. a - j PROVE c[i] = r[j + i]
    <3>1. (j + 1) + i - 1 = j + i
      BY <1>1
    <3> QED
      BY <2>2, <2>3, <3>1
  <2> QED
    BY <2>1, <2>2, <2>3, <2>4
<1>5. PICK e \in Seq(Version) : /\ e = SubSeq(r, b + 1, Len(r)) /\ Len(e) = Len(r) - b
                               /\ \A i \in 1 .. Len(r) - b : e[i] = r[b + i]
  <2>1. PICK e : e = SubSeq(r, b + 1, Len(r))
    OBVIOUS
  <2>2. /\ e \in Seq(Version) /\ Len(e) = Len(r) - (b + 1) + 1
        /\ \A i \in 1 .. Len(r) - (b + 1) + 1 : e[i] = r[(b + 1) + i - 1]
    BY <1>1, <2>1, Part
  <2>3. Len(e) = Len(r) - b /\ Len(r) - (b + 1) + 1 = Len(r) - b
    BY <1>1, <2>2
  <2>4. ASSUME NEW i \in 1 .. Len(r) - b PROVE e[i] = r[b + i]
    <3>1. (b + 1) + i - 1 = b + i
      BY <1>1
    <3> QED
      BY <2>2, <2>3, <3>1
  <2> QED
    BY <2>1, <2>2, <2>3, <2>4
<1>6. PICK st, stc, q : st = s \o t /\ stc = st \o c /\ q = stc \o e
  OBVIOUS
<1>7. AreParts(stc, s, t, c)
  <2>1. IsJoined(st, s, t)
    BY <1>6, Zenon DEF IsJoined
  <2>2. IsJoined(stc, st, c)
    <3>1. st \in Seq(Version)
      BY <2>1, Joined
    <3> QED
      BY <1>6, <3>1, Zenon DEF IsJoined
  <2> QED
    BY <2>1, <2>2, ThreeParts
<1>8. /\ q \in Seq(Version) /\ Len(q) = Len(stc) + Len(e)
      /\ \A i \in 1 .. Len(stc) : q[i] = stc[i]
      /\ \A i \in 1 .. Len(e) : q[Len(stc) + i] = e[i]
  <2>1. IsJoined(q, stc, e)
    BY <1>6, <1>7, Zenon DEF IsJoined, AreParts
  <2> QED
    BY <2>1, Joined
<1>9. Len(stc) = a + k /\ Len(q) = Len(r) + k - (b - a)
  BY <1>1, <1>2, <1>3, <1>4, <1>5, <1>7, <1>8 DEF AreParts
<1>10. ASSUME NEW i \in 1 .. j PROVE q[i] = r[i]
  <2>1. i \in 1 .. Len(stc) /\ i \in 1 .. Len(s)
    BY <1>1, <1>2, <1>9
  <2> QED
    BY <1>2, <1>7, <1>8, <2>1 DEF AreParts
<1>11. ASSUME NEW i \in 1 .. k PROVE q[j + i] = v
  <2>1. j + i \in 1 .. Len(stc) /\ i \in 1 .. Len(t) /\ j = Len(s)
    BY <1>1, <1>2, <1>3, <1>9
  <2> QED
    BY <1>3, <1>7, <1>8, <2>1 DEF AreParts
<1>12. ASSUME NEW i \in j + 1 .. a PROVE q[i + k] = r[i]
  <2>1. PICK h : h = i - j
    OBVIOUS
  <2>2. h \in 1 .. a - j /\ i + k \in 1 .. Len(stc) /\ j + k + h = i + k /\ j + h = i
    BY <1>1, <1>9, <2>1
  <2>3. stc[j + k + h] = c[h]
    BY <1>2, <1>3, <1>4, <1>7, <2>2 DEF AreParts
  <2> QED
    BY <1>4, <1>8, <2>2, <2>3
<1>13. ASSUME NEW i \in b + 1 .. Len(r) PROVE q[i + k - (b - a)] = r[i]
  <2>1. PICK h : h = i - b
    OBVIOUS
  <2>2. h \in 1 .. Len(r) - b /\ (a + k) + h = i + k - (b - a) /\ b + h = i
    BY <1>1, <2>1
  <2> QED
    BY <1>5, <1>8, <1>9, <2>2
<1>14. Moved(r, q, v, k, j, a, b)
  BY <1>1, <1>9, <1>10, <1>11, <1>12, <1>13 DEF Moved
<1> QED
  BY <1>2, <1>3, <1>4, <1>5, <1>6, <1>8, <1>14

\* Where a row of q comes from.
LEMMA CameFrom ==
  ASSUME NEW r \in Seq(Version), NEW q \in Seq(Version), NEW v, NEW k, NEW j, NEW a, NEW b,
         Moved(r, q, v, k, j, a, b), NEW i \in 1 .. Len(q)
  PROVE  \/ i <= j /\ q[i] = r[i] /\ i \in 1 .. Len(r)
         \/ j < i /\ i <= j + k /\ q[i] = v
         \/ \E h \in 1 .. Len(r) : j < h /\ h <= a /\ i = h + k /\ q[i] = r[h]
         \/ \E h \in 1 .. Len(r) : b < h /\ i = h + k - (b - a) /\ q[i] = r[h]
<1>1. /\ Len(r) \in Nat /\ Len(q) \in Nat /\ k \in Nat /\ j \in Nat /\ a \in Nat /\ b \in Nat
      /\ j <= a /\ a <= b /\ b <= Len(r) /\ Len(q) = Len(r) + k - (b - a)
  BY DEF Moved
<1>2. CASE i <= j
  <2>1. i \in 1 .. j /\ i \in 1 .. Len(r)
    BY <1>1, <1>2
  <2> QED
    BY <1>2, <2>1 DEF Moved
<1>3. CASE j < i /\ i <= j + k
  <2>1. PICK h : h = i - j
    OBVIOUS
  <2>2. h \in 1 .. k /\ j + h = i
    BY <1>1, <1>3, <2>1
  <2>3. q[j + h] = v
    BY <2>2 DEF Moved
  <2> QED
    BY <1>3, <2>2, <2>3
<1>4. CASE j + k < i /\ i <= a + k
  <2>1. PICK h : h = i - k
    OBVIOUS
  <2>2. h \in 1 .. Len(r) /\ h \in j + 1 .. a /\ j < h /\ h <= a /\ i = h + k
    BY <1>1, <1>4, <2>1
  <2>3. q[h + k] = r[h]
    BY <2>2 DEF Moved
  <2> QED
    BY <2>2, <2>3
<1>5. CASE a + k < i
  <2>1. PICK h : h = i - k + (b - a)
    OBVIOUS
  <2>2. h \in 1 .. Len(r) /\ h \in b + 1 .. Len(r) /\ b < h /\ i = h + k - (b - a)
    BY <1>1, <1>5, <2>1
  <2>3. q[h + k - (b - a)] = r[h]
    BY <2>2 DEF Moved
  <2> QED
    BY <2>2, <2>3
<1> QED
  BY <1>1, <1>2, <1>3, <1>4, <1>5

\* To find the rows of version u in q it is enough to look at its four parts.
LEMMA SpansOfParts ==
  ASSUME NEW r \in Seq(Version), NEW q \in Seq(Version), NEW v, NEW k, NEW j, NEW a, NEW b,
         Moved(r, q, v, k, j, a, b),
         NEW u, NEW x \in 0 .. Len(q), NEW y \in 0 .. Len(q), x <= y,
         \A i \in 1 .. Len(r) : i <= j => (i <= x <=> r[i] > u) /\ (y < i <=> r[i] < u),
         \A i \in 1 .. Len(q) : j < i /\ i <= j + k => (i <= x <=> v > u) /\ (y < i <=> v < u),
         \A h \in 1 .. Len(r) : j < h /\ h <= a
            => (h + k <= x <=> r[h] > u) /\ (y < h + k <=> r[h] < u),
         \A h \in 1 .. Len(r) : b < h
            => (h + k - (b - a) <= x <=> r[h] > u) /\ (y < h + k - (b - a) <=> r[h] < u)
  PROVE  Spans(q, u, x, y)
<1> SUFFICES ASSUME NEW i \in 1 .. Len(q) PROVE (i <= x <=> q[i] > u) /\ (y < i <=> q[i] < u)
  BY DEF Spans
<1>1. CASE i <= j /\ q[i] = r[i] /\ i \in 1 .. Len(r)
  BY <1>1
<1>2. CASE j < i /\ i <= j + k /\ q[i] = v
  BY <1>2
<1>3. CASE \E h \in 1 .. Len(r) : j < h /\ h <= a /\ i = h + k /\ q[i] = r[h]
  <2>1. PICK h \in 1 .. Len(r) : j < h /\ h <= a /\ i = h + k /\ q[i] = r[h]
    BY <1>3
  <2> QED
    BY <2>1
<1>4. CASE \E h \in 1 .. Len(r) : b < h /\ i = h + k - (b - a) /\ q[i] = r[h]
  <2>1. PICK h \in 1 .. Len(r) : b < h /\ i = h + k - (b - a) /\ q[i] = r[h]
    BY <1>4
  <2> QED
    BY <2>1
<1> QED
  BY <1>1, <1>2, <1>3, <1>4, CameFrom

\* The rows of a newer version come first.
LEMMA SpansInOrder ==
  ASSUME NEW r \in Seq(Version), NEW u \in Nat, NEW v \in Nat, u < v,
         NEW a, NEW b, NEW c, NEW d, Spans(r, v, a, b), Spans(r, u, c, d)
  PROVE  b <= c
<1>1. Len(r) \in Nat /\ Version \subseteq Nat
  BY ListingAssumption
<1>2. b \in Nat /\ b <= Len(r) /\ c \in Nat
  BY <1>1 DEF Spans
<1>3. CASE b = 0
  BY <1>2, <1>3
<1>4. CASE b # 0
  <2>1. b \in 1 .. Len(r)
    BY <1>1, <1>2, <1>4
  <2>2. r[b] \in Nat
    BY <1>1, <2>1, ElementOfSeq, Zenon
  <2>3. ~(r[b] < v)
    BY <1>2, <2>1 DEF Spans
  <2>4. r[b] > u
    BY <2>2, <2>3
  <2> QED
    BY <2>1, <2>4 DEF Spans
<1> QED
  BY <1>3, <1>4

\* Relist, with the places of the rows it deals with.
Relisted(r, q, v, k, p, c, j, a, b) ==
  /\ v \in Version /\ p \in Nat /\ p < v
  /\ Spans(r, v, c, j) /\ Spans(r, p, a, b)
  /\ Moved(r, q, v, k, j, a, b)

\* The rows of v are more, those of p are gone, and those of the others are as
\* many as before, all in their places.
LEMMA SpansMoved ==
  ASSUME NEW r \in Seq(Version), NEW q \in Seq(Version), NEW v, NEW k, NEW p,
         NEW c, NEW j, NEW a, NEW b, Relisted(r, q, v, k, p, c, j, a, b)
  PROVE  /\ Spans(q, v, c, j + k)
         /\ Spans(q, p, a + k, a + k)
         /\ \A u \in Version \ {v, p} : \A d, e \in Nat :
              Spans(r, u, d, e) => \E x, y \in Nat : Spans(q, u, x, y) /\ y - x = e - d
<1>1. /\ Len(r) \in Nat /\ Len(q) \in Nat /\ k \in Nat /\ j \in Nat /\ a \in Nat /\ b \in Nat
      /\ c \in Nat /\ c <= j
      /\ j <= a /\ a <= b /\ b <= Len(r) /\ Len(q) = Len(r) + k - (b - a)
  BY DEF Relisted, Moved, Spans
<1>2. Version \subseteq Nat /\ v \in Nat /\ p \in Nat /\ p < v
  BY ListingAssumption DEF Relisted
<1>4. \A i \in 1 .. Len(r) : /\ i <= c <=> r[i] > v
                             /\ j < i <=> r[i] < v
                             /\ i <= a <=> r[i] > p
                             /\ b < i <=> r[i] < p
  BY DEF Relisted, Spans
<1>5. Moved(r, q, v, k, j, a, b)
  BY DEF Relisted
<1>6. Spans(q, v, c, j + k)
  <2>1. c \in 0 .. Len(q) /\ j + k \in 0 .. Len(q) /\ c <= j + k
    BY <1>1
  <2>2. ASSUME NEW i \in 1 .. Len(r), i <= j PROVE (i <= c <=> r[i] > v) /\ (j + k < i <=> r[i] < v)
    BY <1>1, <1>4, <2>2
  <2>3. ASSUME NEW i \in 1 .. Len(q), j < i, i <= j + k
        PROVE  (i <= c <=> v > v) /\ (j + k < i <=> v < v)
    BY <1>1, <1>2, <2>3
  <2>4. ASSUME NEW h \in 1 .. Len(r), j < h, h <= a
        PROVE  (h + k <= c <=> r[h] > v) /\ (j + k < h + k <=> r[h] < v)
    BY <1>1, <1>4, <2>4
  <2>5. ASSUME NEW h \in 1 .. Len(r), b < h
        PROVE  (h + k - (b - a) <= c <=> r[h] > v) /\ (j + k < h + k - (b - a) <=> r[h] < v)
    BY <1>1, <1>4, <2>5
  <2> QED
    BY <1>5, <2>1, <2>2, <2>3, <2>4, <2>5, SpansOfParts, Zenon
<1>7. Spans(q, p, a + k, a + k)
  <2>1. a + k \in 0 .. Len(q) /\ a + k <= a + k
    BY <1>1
  <2>2. ASSUME NEW i \in 1 .. Len(r), i <= j
        PROVE  (i <= a + k <=> r[i] > p) /\ (a + k < i <=> r[i] < p)
    BY <1>1, <1>4, <2>2
  <2>3. ASSUME NEW i \in 1 .. Len(q), j < i, i <= j + k
        PROVE  (i <= a + k <=> v > p) /\ (a + k < i <=> v < p)
    BY <1>1, <1>2, <2>3
  <2>4. ASSUME NEW h \in 1 .. Len(r), j < h, h <= a
        PROVE  (h + k <= a + k <=> r[h] > p) /\ (a + k < h + k <=> r[h] < p)
    BY <1>1, <1>4, <2>4
  <2>5. ASSUME NEW h \in 1 .. Len(r), b < h
        PROVE  (h + k - (b - a) <= a + k <=> r[h] > p) /\ (a + k < h + k - (b - a) <=> r[h] < p)
    BY <1>1, <1>4, <2>5
  <2> QED
    BY <1>5, <2>1, <2>2, <2>3, <2>4, <2>5, SpansOfParts, Zenon
<1>8. ASSUME NEW u \in Version \ {v, p}, NEW d \in Nat, NEW e \in Nat, Spans(r, u, d, e)
      PROVE  \E x, y \in Nat : Spans(q, u, x, y) /\ y - x = e - d
  <2>1. u \in Nat /\ u # v /\ u # p /\ d <= e /\ e <= Len(r)
    BY <1>2, <1>8 DEF Spans
  <2>2. \A i \in 1 .. Len(r) : (i <= d <=> r[i] > u) /\ (e < i <=> r[i] < u)
    BY <1>8 DEF Spans
  <2>3. CASE u > v
    <3>1. e <= c
      BY <1>2, <1>8, <2>1, <2>3, SpansInOrder DEF Relisted
    <3>2. d \in 0 .. Len(q) /\ e \in 0 .. Len(q)
      BY <1>1, <2>1, <3>1
    <3>3. ASSUME NEW i \in 1 .. Len(q), j < i, i <= j + k
          PROVE  (i <= d <=> v > u) /\ (e < i <=> v < u)
      BY <1>1, <1>2, <2>1, <2>3, <3>1, <3>3
    <3>4. ASSUME NEW h \in 1 .. Len(r), j < h, h <= a
          PROVE  (h + k <= d <=> r[h] > u) /\ (e < h + k <=> r[h] < u)
      BY <1>1, <2>1, <2>2, <3>1, <3>4
    <3>5. ASSUME NEW h \in 1 .. Len(r), b < h
          PROVE  (h + k - (b - a) <= d <=> r[h] > u) /\ (e < h + k - (b - a) <=> r[h] < u)
      BY <1>1, <2>1, <2>2, <3>1, <3>5
    <3>6. \A i \in 1 .. Len(r) : i <= j => (i <= d <=> r[i] > u) /\ (e < i <=> r[i] < u)
      BY <2>2, Zenon
    <3>7. Spans(q, u, d, e)
      BY <1>5, <2>1, <3>2, <3>3, <3>4, <3>5, <3>6, SpansOfParts, Zenon
    <3> QED
      BY <3>7
  <2>4. CASE p < u /\ u < v
    <3>1. j <= d /\ e <= a
      BY <1>2, <1>8, <2>1, <2>4, SpansInOrder DEF Relisted
    <3>2. PICK x, y : x = d + k /\ y = e + k
      OBVIOUS
    <3>3. x \in Nat /\ y \in Nat /\ x \in 0 .. Len(q) /\ y \in 0 .. Len(q) /\ x <= y /\ y - x = e - d
      BY <1>1, <2>1, <3>1, <3>2
    <3>4. ASSUME NEW i \in 1 .. Len(r), i <= j
          PROVE  (i <= x <=> r[i] > u) /\ (y < i <=> r[i] < u)
      BY <1>1, <2>1, <2>2, <3>1, <3>2, <3>4
    <3>5. ASSUME NEW i \in 1 .. Len(q), j < i, i <= j + k
          PROVE  (i <= x <=> v > u) /\ (y < i <=> v < u)
      BY <1>1, <1>2, <2>1, <2>4, <3>1, <3>2, <3>5
    <3>6. ASSUME NEW h \in 1 .. Len(r), j < h, h <= a
          PROVE  (h + k <= x <=> r[h] > u) /\ (y < h + k <=> r[h] < u)
      BY <1>1, <2>1, <2>2, <3>2
    <3>7. ASSUME NEW h \in 1 .. Len(r), b < h
          PROVE  (h + k - (b - a) <= x <=> r[h] > u) /\ (y < h + k - (b - a) <=> r[h] < u)
      <4>1. ~(h <= d) /\ e < h
        BY <1>1, <2>1, <3>1, <3>7
      <4> QED
        BY <1>1, <1>4, <2>1, <2>2, <3>1, <3>2, <3>7, <4>1
    <3>8. Spans(q, u, x, y)
      BY <1>5, <3>3, <3>4, <3>5, <3>6, <3>7, SpansOfParts, Zenon
    <3> QED
      BY <3>3, <3>8, Zenon
  <2>5. CASE u < p
    <3>1. b <= d
      BY <1>2, <1>8, <2>1, <2>5, SpansInOrder DEF Relisted
    <3>2. PICK x, y : x = d + k - (b - a) /\ y = e + k - (b - a)
      OBVIOUS
    <3>3. x \in Nat /\ y \in Nat /\ x \in 0 .. Len(q) /\ y \in 0 .. Len(q) /\ x <= y /\ y - x = e - d
      BY <1>1, <2>1, <3>1, <3>2
    <3>4. ASSUME NEW i \in 1 .. Len(r), i <= j
          PROVE  (i <= x <=> r[i] > u) /\ (y < i <=> r[i] < u)
      BY <1>1, <2>1, <2>2, <3>1, <3>2, <3>4
    <3>5. ASSUME NEW i \in 1 .. Len(q), j < i, i <= j + k
          PROVE  (i <= x <=> v > u) /\ (y < i <=> v < u)
      BY <1>1, <1>2, <2>1, <2>5, <3>1, <3>2, <3>5
    <3>6. ASSUME NEW h \in 1 .. Len(r), j < h, h <= a
          PROVE  (h + k <= x <=> r[h] > u) /\ (y < h + k <=> r[h] < u)
      BY <1>1, <2>1, <2>2, <3>1, <3>2, <3>6
    <3>7. ASSUME NEW h \in 1 .. Len(r), b < h
          PROVE  (h + k - (b - a) <= x <=> r[h] > u) /\ (y < h + k - (b - a) <=> r[h] < u)
      BY <1>1, <2>1, <2>2, <3>2
    <3>8. Spans(q, u, x, y)
      BY <1>5, <3>3, <3>4, <3>5, <3>6, <3>7, SpansOfParts, Zenon
    <3> QED
      BY <3>3, <3>8, Zenon
  <2> QED
    BY <1>2, <2>1, <2>3, <2>4, <2>5
<1> QED
  BY <1>6, <1>7, <1>8

-----------------------------------------------------------------------------
(* The places Newer and UpTo compute.                                      *)

\* They are the places between which the rows of a version are.
LEMMA Counted ==
  ASSUME rows \in Seq(Version), NEW v \in Nat, NEW a, NEW b, Spans(rows, v, a, b)
  PROVE  Newer(v) = a /\ UpTo(v) = b
<1>1. Len(rows) \in Nat /\ Version \subseteq Nat /\ \A i \in 1 .. Len(rows) : rows[i] \in Nat
  <2>1. Version \subseteq Nat
    BY ListingAssumption
  <2>2. \A i \in 1 .. Len(rows) : rows[i] \in Version
    BY ElementOfSeq, Zenon
  <2>3. Len(rows) \in Nat
    OBVIOUS
  <2> QED
    BY <2>1, <2>2, <2>3, Zenon
<1>2. a \in Nat /\ b \in Nat /\ a <= Len(rows) /\ b <= Len(rows)
  BY <1>1 DEF Spans
<1>3. {i \in 1 .. Len(rows) : rows[i] > v} = 1 .. a
  BY <1>1, <1>2 DEF Spans
<1>4. {i \in 1 .. Len(rows) : rows[i] >= v} = 1 .. b
  BY <1>1, <1>2 DEF Spans
<1>5. Cardinality(1 .. a) = a /\ Cardinality(1 .. b) = b
  BY <1>2, FS_Interval
<1> QED
  BY <1>3, <1>4, <1>5, Zenon DEF Newer, UpTo

\* All rows come before those of version 0, which there is not.
LEMMA SpansNone == ASSUME rows \in Seq(Version) PROVE Spans(rows, 0, Len(rows), Len(rows))
<1>1. Len(rows) \in Nat
  OBVIOUS
<1>2. ASSUME NEW i \in 1 .. Len(rows) PROVE rows[i] \in Nat \ {0}
  <2>1. rows[i] \in Version
    BY ElementOfSeq, Zenon
  <2> QED
    BY <2>1, ListingAssumption, Zenon
<1> QED
  BY <1>1, <1>2 DEF Spans

\* The rows of version p, which may be 0.
LEMMA SpansOf ==
  ASSUME Typed, Tallied, NEW p \in Version \cup {0}
  PROVE  \E a, b \in Nat : Spans(rows, p, a, b)
<1>1. CASE p \in Version
  BY <1>1 DEF Tallied
<1>2. CASE p = 0
  <2>1. rows \in Seq(Version) /\ Len(rows) \in Nat
    BY DEF Typed
  <2> QED
    BY <1>2, <2>1, SpansNone
<1> QED
  BY <1>1, <1>2

\* Relist moves rows as Relisted says.
LEMMA RelistMoves ==
  ASSUME Typed, Tallied, NEW v \in Version, NEW k \in Nat, NEW p \in Version \cup {0}, p < v,
         Relist(v, k, p)
  PROVE  /\ rows' \in Seq(Version)
         /\ \E c, j, a, b \in Nat :
              /\ Relisted(rows, rows', v, k, p, c, j, a, b)
              /\ Newer(p) = a /\ UpTo(p) = b /\ j = c + RowsOf(v)
<1>1. rows \in Seq(Version) /\ Len(rows) \in Nat /\ v \in Nat /\ p \in Nat
  BY ListingAssumption DEF Typed
<1>2. PICK c, j \in Nat : Spans(rows, v, c, j) /\ j = c + RowsOf(v)
  BY DEF Tallied
<1>3. PICK a, b \in Nat : Spans(rows, p, a, b)
  BY SpansOf
<1>4. UpTo(v) = j /\ Newer(p) = a /\ UpTo(p) = b
  BY <1>1, <1>2, <1>3, Counted
<1>5. j <= a
  BY <1>1, <1>2, <1>3, SpansInOrder
<1>6. j \in 0 .. Len(rows) /\ a \in j .. Len(rows) /\ b \in a .. Len(rows)
  BY <1>1, <1>2, <1>3, <1>5 DEF Spans
<1>7. rows' \in Seq(Version) /\ Moved(rows, rows', v, k, j, a, b)
  BY <1>1, <1>4, <1>6, Replaced DEF Relist
<1>8. Relisted(rows, rows', v, k, p, c, j, a, b)
  BY <1>1, <1>2, <1>3, <1>7 DEF Relisted
<1> QED
  BY <1>2, <1>4, <1>7, <1>8

\* Every version keeps its rows: v has k more, p none, and the others as many.
LEMMA RelistTallies ==
  ASSUME Typed, Tallied, NEW v \in Version, NEW k \in Nat, NEW p \in Version \cup {0}, p < v,
         Relist(v, k, p), RowsOf(v)' = RowsOf(v) + k, p # 0 => RowsOf(p)' = 0,
         \A u \in Version \ {v, p} : RowsOf(u)' = RowsOf(u)
  PROVE  Tallied'
<1>1. rows \in Seq(Version) /\ rows' \in Seq(Version)
  BY RelistMoves DEF Typed
<1>2. PICK c, j, a, b \in Nat : Relisted(rows, rows', v, k, p, c, j, a, b) /\ j = c + RowsOf(v)
  BY RelistMoves
<1>3. /\ Spans(rows', v, c, j + k)
      /\ Spans(rows', p, a + k, a + k)
      /\ \A u \in Version \ {v, p} : \A d, e \in Nat :
           Spans(rows, u, d, e) => \E x, y \in Nat : Spans(rows', u, x, y) /\ y - x = e - d
  BY <1>1, <1>2, SpansMoved
<1>4. ASSUME NEW u \in Version PROVE RowsOf(u) \in Nat
  BY DEF RowsOf, Typed
<1> SUFFICES ASSUME NEW u \in Version
             PROVE  \E x, y \in Nat : Spans(rows', u, x, y) /\ y = x + RowsOf(u)'
  BY DEF Tallied, Spans
<1>5. CASE u = v
  <2>1. j + k \in Nat /\ j + k = c + RowsOf(v)'
    BY <1>2, <1>4
  <2> QED
    BY <1>3, <1>5, <2>1
<1>6. CASE u = p
  <2>1. p # 0
    BY <1>6, ListingAssumption
  <2>2. a + k \in Nat /\ a + k = (a + k) + RowsOf(p)'
    BY <2>1
  <2> QED
    BY <1>3, <1>6, <2>2
<1>7. CASE u # v /\ u # p
  <2>1. PICK d, e \in Nat : Spans(rows, u, d, e) /\ e = d + RowsOf(u)
    BY DEF Tallied
  <2>2. PICK x, y \in Nat : Spans(rows', u, x, y) /\ y - x = e - d
    BY <1>3, <1>7, <2>1
  <2>3. y = x + RowsOf(u)'
    BY <1>4, <1>7, <2>1, <2>2
  <2> QED
    BY <2>2, <2>3
<1> QED
  BY <1>5, <1>6, <1>7

\* No row of another version comes further forward than Lost allows for.
LEMMA RelistNear ==
  ASSUME Typed, Tallied, NEW v \in Version, NEW k \in Nat, NEW p \in Version \cup {0}, p < v,
         Relist(v, k, p), NEW u, u # v \/ k = 0,
         \A i \in 1 .. Len(rows) : rows[i] = u => i + slipped > offset,
         NEW i \in 1 .. Len(rows'), rows'[i] = u
  PROVE  i + (slipped + Lost(k, p)) > offset
<1>1. rows \in Seq(Version) /\ rows' \in Seq(Version) /\ offset \in Nat /\ slipped \in Nat
  BY RelistMoves DEF Typed
<1>2. PICK c, j, a, b \in Nat : /\ Relisted(rows, rows', v, k, p, c, j, a, b)
                               /\ Newer(p) = a /\ UpTo(p) = b
  BY RelistMoves
<1>3. Moved(rows, rows', v, k, j, a, b) /\ a <= b
  BY <1>2 DEF Relisted, Moved
<1>4. PICK l : l = Lost(k, p)
  OBVIOUS
<1>5. /\ l \in Nat
      /\ b < offset => l >= b - a - k
      /\ ~(b < offset) => l >= offset - a - k
  BY <1>1, <1>2, <1>3, <1>4 DEF Lost
<1>6. CASE i <= j /\ rows'[i] = rows[i] /\ i \in 1 .. Len(rows)
  BY <1>1, <1>4, <1>5, <1>6
<1>7. CASE j < i /\ i <= j + k /\ rows'[i] = v
  BY <1>2, <1>7
<1>8. CASE \E h \in 1 .. Len(rows) : j < h /\ h <= a /\ i = h + k /\ rows'[i] = rows[h]
  <2>1. PICK h \in 1 .. Len(rows) : i = h + k /\ rows'[i] = rows[h]
    BY <1>8
  <2>2. h + slipped > offset
    BY <2>1
  <2> QED
    BY <1>1, <1>4, <1>5, <2>1, <2>2
<1>9. CASE \E h \in 1 .. Len(rows) : b < h /\ i = h + k - (b - a) /\ rows'[i] = rows[h]
  <2>1. PICK h \in 1 .. Len(rows) : b < h /\ i = h + k - (b - a) /\ rows'[i] = rows[h]
    BY <1>9
  <2>2. h + slipped > offset /\ h \in Nat
    BY <2>1
  <2>3. CASE b < offset
    <3>1. i + l >= h
      BY <1>2, <1>5, <2>1, <2>2, <2>3
    <3>2. i \in Int
      BY <1>2, <2>1, <2>2
    <3>3. i + (slipped + l) > offset
      BY <1>1, <1>5, <2>2, <3>1, <3>2
    <3> QED
      BY <1>4, <3>3
  <2>4. CASE ~(b < offset)
    <3>1. i >= 1 + a + k /\ l + a + k >= offset
      BY <1>1, <1>2, <1>5, <2>1, <2>2, <2>4
    <3>2. i \in Int /\ a + k \in Nat
      BY <1>2, <2>1, <2>2
    <3>3. i + (slipped + l) > offset
      BY <1>1, <1>2, <1>5, <3>1, <3>2
    <3> QED
      BY <1>4, <3>3
  <2> QED
    BY <2>3, <2>4
<1>10. \/ i <= j /\ rows'[i] = rows[i] /\ i \in 1 .. Len(rows)
       \/ j < i /\ i <= j + k /\ rows'[i] = v
       \/ \E h \in 1 .. Len(rows) : j < h /\ h <= a /\ i = h + k /\ rows'[i] = rows[h]
       \/ \E h \in 1 .. Len(rows) : b < h /\ i = h + k - (b - a) /\ rows'[i] = rows[h]
  <2>1. PICK r, q : r = rows /\ q = rows'
    OBVIOUS
  <2>2. /\ r \in Seq(Version) /\ q \in Seq(Version) /\ Moved(r, q, v, k, j, a, b)
        /\ i \in 1 .. Len(q)
    BY <1>1, <1>3, <2>1
  <2> QED
    BY <2>1, <2>2, CameFrom
<1> QED
  BY <1>6, <1>7, <1>8, <1>9, <1>10, Zenon

-----------------------------------------------------------------------------
(* The steps.                                                              *)

\* Whatever is listed is current.
LEMMA ListedIsCurrent == ASSUME Typed, Tallied PROVE Range(rows) \subseteq current
<1> SUFFICES ASSUME NEW i \in DOMAIN rows PROVE rows[i] \in current
  BY DEF Range
<1>1. rows \in Seq(Version) /\ Len(rows) \in Nat /\ i \in 1 .. Len(rows) /\ Version \subseteq Nat
  BY ListingAssumption DEF Typed
<1>2. rows[i] \in Version
  BY <1>1, ElementOfSeq, Zenon
<1>3. PICK a, b \in Nat : Spans(rows, rows[i], a, b) /\ b = a + RowsOf(rows[i])
  BY <1>2 DEF Tallied
<1>4. ~(i <= a) /\ ~(b < i)
  BY <1>1, <1>2, <1>3 DEF Spans
<1>5. RowsOf(rows[i]) # 0
  BY <1>1, <1>3, <1>4
<1> QED
  BY <1>5 DEF RowsOf

\* A version that has more rows than the listing has slipped, and of which the
\* client was shown none, is ahead of it, or at least its last row is; and so is
\* every row of it, if the next one is of another version.
LEMMA StillAhead ==
  ASSUME Typed, Tallied, NEW v \in expected, chunks[v] > slipped,
         \A i \in 1 .. Len(rows) : rows[i] = v => i + slipped > offset
  PROVE  /\ \E i \in 1 .. Len(rows) : i > offset /\ rows[i] = v
         /\ \A i \in 1 .. Len(rows) : rows[i] = v /\ i <= offset =>
              offset + 1 \in 1 .. Len(rows) /\ rows[offset + 1] = v
<1>1. /\ rows \in Seq(Version) /\ Len(rows) \in Nat /\ offset \in Nat /\ slipped \in Nat
      /\ v \in Version /\ v \in Nat /\ chunks[v] \in Nat /\ RowsOf(v) = chunks[v]
  BY ListingAssumption DEF Typed, RowsOf
<1>2. PICK a, b \in Nat : Spans(rows, v, a, b) /\ b = a + chunks[v]
  BY <1>1 DEF Tallied
<1>3. b <= Len(rows)
  BY <1>1, <1>2 DEF Spans
<1>4. ASSUME NEW i \in 1 .. Len(rows), a < i, i <= b PROVE rows[i] = v
  <2>1. rows[i] \in Nat
    <3>1. rows[i] \in Version
      BY <1>1, ElementOfSeq, Zenon
    <3> QED
      BY <3>1, ListingAssumption, Zenon
  <2>2. ~(rows[i] > v) /\ ~(rows[i] < v)
    BY <1>1, <1>2, <1>4 DEF Spans
  <2> QED
    BY <1>1, <2>1, <2>2
<1>5. ASSUME NEW i \in 1 .. Len(rows), rows[i] = v PROVE a < i
  BY <1>1, <1>2, <1>5 DEF Spans
<1>6. a + 1 \in 1 .. Len(rows) /\ a < a + 1 /\ a + 1 <= b
  BY <1>1, <1>2, <1>3
<1>7. a + 1 + slipped > offset
  BY <1>4, <1>6
<1>8. b > offset /\ b \in 1 .. Len(rows) /\ a < b /\ b <= b
  BY <1>1, <1>2, <1>3, <1>7
<1>9. \E i \in 1 .. Len(rows) : i > offset /\ rows[i] = v
  BY <1>4, <1>8
<1>10. ASSUME NEW i \in 1 .. Len(rows), rows[i] = v, i <= offset
       PROVE  offset + 1 \in 1 .. Len(rows) /\ rows[offset + 1] = v
  <2>1. offset + 1 \in 1 .. Len(rows) /\ a < offset + 1 /\ offset + 1 <= b
    BY <1>1, <1>2, <1>3, <1>5, <1>8, <1>10
  <2> QED
    BY <1>4, <2>1
<1> QED
  BY <1>9, <1>10

\* A page has some number of rows.
LEMMA FetchedType ==
  ASSUME rows \in Seq(Version), offset \in Nat, NEW n \in Nat
  PROVE  Len(Fetched(n)) \in Nat
<1>1. PICK m \in Nat : m <= Len(rows) /\ Fetched(n) = SubSeq(rows, offset + 1, m)
  BY DEF Fetched
<1>2. CASE m < offset + 1
  BY <1>1, <1>2, SubSeqEmpty, EmptySeq
<1>3. CASE offset + 1 <= m
  BY <1>1, <1>3, Part
<1> QED
  BY <1>2, <1>3

\* A page that has all the rows it should is the next n, and there is no row
\* after it when there is not one more.
LEMMA Page ==
  ASSUME Typed, NEW n \in Nat, n > 0, Len(Fetched(n)) >= n
  PROVE  /\ offset + n <= Len(rows)
         /\ \A j \in offset + 1 .. offset + n : rows[j] \in Range(SubSeq(Fetched(n), 1, n))
         /\ Len(Fetched(n)) <= n => Len(rows) = offset + n
<1>1. PICK r, o : r = rows /\ o = offset
  OBVIOUS
<1>2. r \in Seq(Version) /\ o \in Nat /\ Len(r) \in Nat
  BY <1>1 DEF Typed
<1>3. PICK m : m = IF o + n + 1 < Len(r) THEN o + n + 1 ELSE Len(r)
  OBVIOUS
<1>4. m \in Nat /\ m <= Len(r) /\ m <= o + n + 1 /\ (m < o + n + 1 => m = Len(r))
  BY <1>2, <1>3
<1>5. Fetched(n) = SubSeq(r, o + 1, m)
  BY <1>1, <1>3 DEF Fetched
<1>6. o + 1 <= m
  <2> SUFFICES ASSUME m < o + 1 PROVE FALSE
    BY <1>2, <1>4
  <2>1. Len(SubSeq(r, o + 1, m)) = 0
    BY <1>2, <1>4, EmptySeq, SubSeqEmpty
  <2>2. ~(0 >= n)
    OBVIOUS
  <2> QED
    BY <1>5, <2>1, <2>2, Zenon
<1>7. PICK p : p = Fetched(n)
  OBVIOUS
<1>8. /\ p \in Seq(Version) /\ Len(p) = m - (o + 1) + 1
      /\ \A j \in 1 .. m - (o + 1) + 1 : p[j] = r[(o + 1) + j - 1]
  BY <1>2, <1>4, <1>5, <1>6, <1>7, Part
<1>9. Len(p) = m - o /\ o + n <= m
  BY <1>2, <1>4, <1>7, <1>8
<1>10. ASSUME NEW j \in o + 1 .. o + n PROVE r[j] \in Range(SubSeq(p, 1, n))
  <2>1. PICK x : x = j - o
    OBVIOUS
  <2>2. /\ x \in 1 .. n /\ x \in 1 .. n - 1 + 1 /\ x \in 1 .. m - (o + 1) + 1
        /\ (o + 1) + x - 1 = j /\ 1 + x - 1 = x /\ n - 1 + 1 = n
    BY <1>2, <1>4, <1>9, <2>1
  <2>3. /\ SubSeq(p, 1, n) \in Seq(Version) /\ Len(SubSeq(p, 1, n)) = n
        /\ SubSeq(p, 1, n)[x] = p[x]
    BY <1>2, <1>4, <1>8, <1>9, <2>2, Part
  <2>4. x \in DOMAIN SubSeq(p, 1, n)
    BY <2>2, <2>3
  <2>5. SubSeq(p, 1, n)[x] = r[j]
    BY <1>8, <2>2, <2>3
  <2> QED
    BY <2>4, <2>5 DEF Range
<1> QED
  BY <1>1, <1>2, <1>4, <1>7, <1>9, <1>10

\* Rows are added to a version.
LEMMA AddRowsStep ==
  ASSUME ListingInv, NEW v \in Version, NEW k \in 1 .. MaxRows, AddRows(v, k)
  PROVE  ListingInv'
<1>1. /\ Typed /\ Tallied /\ k \in Nat /\ v \in Nat /\ v > 0 /\ chunks[v] \in Nat
  BY ListingAssumption DEF ListingInv, Typed
<1>2. /\ chunks' = [chunks EXCEPT ![v] = @ + k] /\ expected' = expected \ {v}
      /\ UNCHANGED <<prev_id, current, paging, limit, offset, seen, slipped>>
  BY DEF AddRows, clientVars
<1>3. /\ chunks'[v] = chunks[v] + k
      /\ \A u \in Version \ {v} : chunks'[u] = chunks[u]
      /\ chunks' \in [Version -> Nat]
  BY <1>1, <1>2 DEF Typed
<1>4. v \in current => Relist(v, k, 0)
  BY DEF AddRows
<1>5. v \notin current => rows' = rows
  BY DEF AddRows
<1>6. Typed'
  <2>1. rows' \in Seq(Version)
    BY <1>1, <1>4, <1>5, RelistMoves DEF Typed
  <2> QED
    BY <1>1, <1>2, <1>3, <2>1 DEF Typed
<1>7. Tallied'
  <2>1. CASE v \in current
    <3>1. RowsOf(v)' = RowsOf(v) + k
      BY <1>2, <1>3, <2>1 DEF RowsOf
    <3>2. \A u \in Version \ {v, 0} : RowsOf(u)' = RowsOf(u)
      BY <1>2, <1>3 DEF RowsOf
    <3> QED
      BY <1>1, <1>4, <2>1, <3>1, <3>2, RelistTallies
  <2>2. CASE v \notin current
    <3>1. \A u \in Version : RowsOf(u)' = RowsOf(u)
      BY <1>2, <1>3, <2>2 DEF RowsOf
    <3> QED
      BY <1>1, <1>5, <2>2, <3>1 DEF Tallied, Spans
  <2> QED
    BY <2>1, <2>2
<1>8. Near'
  <2> SUFFICES ASSUME NEW u \in expected', u \notin seen, ~(chunks'[u] <= slipped),
                      NEW i \in 1 .. Len(rows'), rows'[i] = u
               PROVE  i + slipped > offset
    BY <1>2 DEF Near
  <2>1. u \in expected /\ u # v /\ u \in Version /\ chunks'[u] = chunks[u]
    BY <1>1, <1>2, <1>3 DEF Typed
  <2>2. \A h \in 1 .. Len(rows) : rows[h] = u => h + slipped > offset
    BY <2>1 DEF ListingInv, Near
  <2>3. CASE v \in current
    <3>1. i + (slipped + Lost(k, 0)) > offset
      BY <1>1, <1>4, <2>1, <2>2, <2>3, RelistNear
    <3>2. Lost(k, 0) = 0
      <4>1. Newer(0) = Len(rows) /\ UpTo(0) = Len(rows) /\ Len(rows) \in Nat /\ offset \in Nat
        BY <1>1, SpansNone, Counted DEF Typed
      <4> QED
        BY <1>1, <4>1 DEF Lost
    <3>3. slipped \in Nat
      BY <1>1 DEF Typed
    <3> QED
      BY <3>1, <3>2, <3>3
  <2>4. CASE v \notin current
    BY <1>5, <2>2, <2>4
  <2> QED
    BY <2>3, <2>4
<1>9. AllWhenDone'
  BY <1>1, <1>2, <1>3 DEF ListingInv, AllWhenDone, Typed
<1> QED
  BY <1>6, <1>7, <1>8, <1>9 DEF ListingInv

\* A version becomes current, and its predecessor is retired.
LEMMA UpdateStep == ASSUME ListingInv, NEW v \in Version, Update(v) PROVE ListingInv'
<1>1. PICK p, k : p = prev_id[v] /\ k = IF v \in current THEN 0 ELSE chunks[v]
  OBVIOUS
<1>2. /\ Typed /\ Tallied /\ k \in Nat /\ p \in Version \cup {0} /\ p < v /\ slipped \in Nat
      /\ p \in Nat /\ v \in Nat /\ v # p
  BY <1>1, ListingAssumption DEF ListingInv, Typed
<1>3. PICK l : l = Lost(k, p)
  OBVIOUS
<1>4. /\ current' = (current \cup {v}) \ {p} /\ expected' = expected \ {p}
      /\ Relist(v, k, p)
      /\ slipped' = slipped + l
      /\ UNCHANGED <<prev_id, chunks, paging, limit, offset, seen>>
  BY <1>1, <1>3 DEF Update, clientVars
<1>5. l \in Nat
  <2>1. PICK a, b \in Nat : Spans(rows, p, a, b)
    BY <1>2, SpansOf
  <2>2. Newer(p) = a /\ UpTo(p) = b
    BY <1>2, <2>1, Counted DEF Typed
  <2>3. offset \in Nat
    BY <1>2 DEF Typed
  <2> QED
    BY <1>2, <1>3, <2>2, <2>3 DEF Lost
<1>6. Typed'
  <2>1. rows' \in Seq(Version)
    BY <1>2, <1>4, RelistMoves
  <2>2. slipped' \in Nat
    BY <1>2, <1>4, <1>5
  <2> QED
    BY <1>2, <1>4, <2>1, <2>2 DEF Typed
<1>7. Tallied'
  <2>1. RowsOf(v)' = RowsOf(v) + k
    BY <1>1, <1>2, <1>4 DEF RowsOf, Typed
  <2>2. RowsOf(p)' = 0
    BY <1>4 DEF RowsOf
  <2>3. \A u \in Version \ {v, p} : RowsOf(u)' = RowsOf(u)
    BY <1>4 DEF RowsOf
  <2> QED
    BY <1>2, <1>4, <2>1, <2>2, <2>3, RelistTallies
<1>8. Near'
  <2> SUFFICES ASSUME NEW u \in expected', u \notin seen, ~(chunks[u] <= slipped'),
                      NEW i \in 1 .. Len(rows'), rows'[i] = u
               PROVE  i + slipped' > offset
    BY <1>4 DEF Near
  <2>1. u \in expected /\ chunks[u] \in Nat
    BY <1>2, <1>4 DEF Typed
  <2>2. ~(chunks[u] <= slipped)
    BY <1>2, <1>4, <1>5, <2>1
  <2>3. \A h \in 1 .. Len(rows) : rows[h] = u => h + slipped > offset
    BY <2>1, <2>2 DEF ListingInv, Near
  <2>4. u # v \/ k = 0
    BY <1>1, <1>2, <2>1 DEF Typed
  <2>5. i + (slipped + Lost(k, p)) > offset
    BY <1>2, <1>4, <2>3, <2>4, RelistNear, Zenon
  <2> QED
    BY <1>3, <1>4, <2>5
<1>9. AllWhenDone'
  <2> SUFFICES ASSUME paging = "done", NEW u \in expected', u \notin seen
               PROVE  chunks[u] <= slipped'
    BY <1>4 DEF AllWhenDone
  <2>1. u \in expected /\ chunks[u] \in Nat
    BY <1>2, <1>4 DEF Typed
  <2>2. chunks[u] <= slipped
    BY <2>1 DEF ListingInv, AllWhenDone
  <2> QED
    BY <1>2, <1>4, <1>5, <2>1, <2>2
<1> QED
  BY <1>6, <1>7, <1>8, <1>9 DEF ListingInv

\* The client asks for the first page: it has passed nothing.
LEMMA BeginStep == ASSUME ListingInv, NEW n \in Limits, Begin(n) PROVE ListingInv'
<1>1. /\ offset' = 0 /\ expected' = Range(rows) /\ limit' = n /\ paging' = "paging"
      /\ slipped' = 0 /\ UNCHANGED <<prev_id, current, chunks, rows>>
  BY DEF Begin, fileVars
<1>2. n \in Nat
  BY ListingAssumption
<1>3. Typed'
  BY <1>1, <1>2, ListedIsCurrent DEF ListingInv, Typed
<1>4. Tallied'
  BY <1>1 DEF ListingInv, Tallied, Spans, RowsOf
<1>5. Near'
  <2>1. Len(rows) \in Nat
    BY DEF ListingInv, Typed
  <2> QED
    BY <1>1, <2>1 DEF Near
<1> QED
  BY <1>1, <1>3, <1>4, <1>5 DEF ListingInv, AllWhenDone

\* A page gives the client rows of every version it passes, but for those that
\* slipped past it before.
LEMMA PageStep == ASSUME ListingInv, ListByUserID PROVE ListingInv'
<1>1. PICK n : n = IF limit = 0 THEN DefaultLimit ELSE limit
  OBVIOUS
<1>2. /\ Typed /\ Tallied /\ n \in Nat /\ n > 0 /\ offset \in Nat /\ slipped \in Nat
      /\ rows \in Seq(Version) /\ Len(rows) \in Nat
  BY <1>1 DEF ListingInv, Typed, DefaultLimit
<1>3. UNCHANGED <<prev_id, current, chunks, rows, limit, expected, slipped>>
  BY DEF ListByUserID, fileVars
<1>4. Tallied'
  BY <1>2, <1>3 DEF Tallied, Spans, RowsOf
<1>5. CASE paging' = "error" /\ UNCHANGED <<offset, seen>>
  BY <1>2, <1>3, <1>4, <1>5 DEF ListingInv, Typed, Near, AllWhenDone
<1>6. CASE /\ Len(Fetched(n)) >= n
           /\ seen' = seen \cup Range(SubSeq(Fetched(n), 1, n))
           /\ paging' = IF Len(Fetched(n)) > n THEN "paging" ELSE "done"
           /\ offset' = offset + n
  <2>1. /\ offset + n <= Len(rows)
        /\ \A i \in offset + 1 .. offset + n : rows[i] \in seen'
        /\ Len(Fetched(n)) <= n => Len(rows) = offset + n
    BY <1>2, <1>6, Page
  <2>2. Typed'
    BY <1>2, <1>3, <1>6 DEF Typed
  <2>3. ASSUME NEW v \in expected, v \notin seen', chunks[v] > slipped,
               NEW i \in 1 .. Len(rows), rows[i] = v
        PROVE  i > offset + n
    <3>1. \A h \in 1 .. Len(rows) : rows[h] = v => h + slipped > offset
      <4>1. chunks[v] \in Nat
        BY <1>2 DEF Typed
      <4>2. ~(chunks[v] <= slipped)
        BY <1>2, <2>3, <4>1
      <4>3. v \notin seen
        BY <1>6, <2>3
      <4> QED
        BY <4>2, <4>3 DEF ListingInv, Near
    <3>2. i <= offset => offset + 1 \in 1 .. Len(rows) /\ rows[offset + 1] = v
      BY <1>2, <2>3, <3>1, StillAhead
    <3>3. offset + 1 \in offset + 1 .. offset + n
      BY <1>2
    <3>4. i > offset
      BY <1>2, <2>1, <2>3, <3>2, <3>3
    <3> QED
      BY <1>2, <2>1, <2>3, <3>4
  <2>4. Near'
    <3> SUFFICES ASSUME NEW v \in expected, v \notin seen', ~(chunks[v] <= slipped),
                        NEW i \in 1 .. Len(rows), rows[i] = v
                 PROVE  i + slipped > offset'
      BY <1>3 DEF Near
    <3>1. chunks[v] > slipped
      BY <1>2 DEF Typed
    <3>2. i > offset + n
      BY <2>3, <3>1
    <3> QED
      BY <1>2, <1>6, <3>2
  <2>5. AllWhenDone'
    <3> SUFFICES ASSUME paging' = "done", NEW v \in expected, v \notin seen', ~(chunks[v] <= slipped)
                 PROVE  FALSE
      BY <1>3 DEF AllWhenDone
    <3>1. chunks[v] > slipped
      BY <1>2 DEF Typed
    <3>2. Len(rows) = offset'
      <4>1. Len(Fetched(n)) \in Nat
        BY <1>2, FetchedType
      <4> QED
        BY <1>2, <1>6, <2>1, <4>1
    <3>3. \A i \in 1 .. Len(rows) : rows[i] = v => i + slipped > offset
      BY <1>2, <2>3, <3>1
    <3>4. PICK i \in 1 .. Len(rows) : rows[i] = v
      BY <1>2, <3>1, <3>3, StillAhead
    <3>5. i > offset + n
      BY <2>3, <3>1, <3>4
    <3> QED
      BY <1>2, <1>6, <3>2, <3>5
  <2> QED
    BY <1>4, <2>2, <2>4, <2>5 DEF ListingInv
<1> QED
  BY <1>1, <1>5, <1>6 DEF ListByUserID

\* Every step keeps the invariant.
LEMMA ListingStep == ASSUME ListingInv, [Next]_vars PROVE ListingInv'
<1>1. CASE UNCHANGED vars
  BY <1>1 DEF vars, fileVars, clientVars, ListingInv, Typed, Tallied, Spans, RowsOf, Near,
              AllWhenDone
<1> QED
  BY <1>1, AddRowsStep, UpdateStep, BeginStep, PageStep DEF Next

\* There are no rows at first.
LEMMA ListingInit == ASSUME Init PROVE ListingInv
<1>1. rows = <<>> /\ rows \in Seq(Version) /\ Len(rows) = 0
  BY EmptySeq DEF Init
<1>2. Typed
  BY <1>1 DEF Init, Typed
<1>3. ASSUME NEW v \in Version PROVE Spans(rows, v, 0, 0) /\ 0 = 0 + RowsOf(v)
  BY <1>1 DEF Init, Spans, RowsOf
<1> QED
  BY <1>1, <1>2, <1>3 DEF Init, ListingInv, Tallied, Near, AllWhenDone

\* The invariant of paging.
LEMMA ListingInvariance == ListingSpec => []ListingInv
BY ListingInit, ListingStep, PTL DEF ListingSpec

\* Whatever becomes current and whatever is uploaded between two pages, the
\* client is shown every version that was listed all the time, or has it ahead,
\* as long as the rows in front of the client did not become fewer by as many as
\* the version has.  ListByUserID pages by offset over rows that workers move;
\* this is how far that can be relied on.
THEOREM PagingSkipsOnlyIfShrunk == ListingSpec => []SkippedOnlyIfShrunk
<1>1. ASSUME ListingInv PROVE SkippedOnlyIfShrunk
  <2> SUFFICES ASSUME NEW v \in expected, v \notin seen, ~(chunks[v] <= slipped)
               PROVE  paging # "done" /\ \E i \in 1 .. Len(rows) : i > offset /\ rows[i] = v
    BY DEF SkippedOnlyIfShrunk
  <2>1. chunks[v] > slipped
    BY <1>1 DEF ListingInv, Typed
  <2>2. \A i \in 1 .. Len(rows) : rows[i] = v => i + slipped > offset
    BY <1>1 DEF ListingInv, Near
  <2>3. \E i \in 1 .. Len(rows) : i > offset /\ rows[i] = v
    BY <1>1, <2>1, <2>2, StillAhead DEF ListingInv
  <2> QED
    BY <1>1, <2>3 DEF ListingInv, AllWhenDone
<1> QED
  BY <1>1, ListingInvariance, PTL
=============================================================================
