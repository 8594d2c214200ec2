----------------------------- MODULE QueryProofs ------------------------------
(***************************************************************************)
(* The query operators of queries.hpp - and_query, or_query, their ranked  *)
(* forms, wand_query and maxscore_query - return what a search of all the  *)
(* lists would, for every collection, every query and every k.  The state  *)
(* of the four is one, and so is the invariant: what they have in common,  *)
(* what holds before the first turn, and the loop invariant of each.       *)
(***************************************************************************)
EXTENDS Queries, CommonProofs, SequenceTheorems

-----------------------------------------------------------------------------
(* The queue of the best scores.                                             *)

Ascending(queue) ==
  /\ queue \in Seq(Nat)
  /\ \A j, l \in 1 .. Len(queue) : j <= l => queue[j] <= queue[l]

(* InsertSorted finds the place of a score: what is before it is smaller,    *)
(* what is after it is not.                                                  *)
Place(queue, s, n) ==
  /\ n \in 0 .. Len(queue)
  /\ \A j \in 1 .. n : queue[j] < s
  /\ \A j \in n + 1 .. Len(queue) : queue[j] >= s

PlacedAt(queue, s, n) ==
  [j \in 1 .. Len(queue) + 1 |->
     IF j <= n THEN queue[j] ELSE IF j = n + 1 THEN s ELSE queue[j - 1]]

LEMMA InsertSortedFacts ==
  ASSUME NEW queue, Ascending(queue), NEW s \in Nat
  PROVE  \E n \in 0 .. Len(queue) :
           /\ Place(queue, s, n)
           /\ InsertSorted(queue, s) = PlacedAt(queue, s, n)
<1> DEFINE below == {j \in 1 .. Len(queue) : queue[j] < s}
           n == Cardinality(below)
<1>1. Len(queue) \in Nat /\ queue \in Seq(Nat)
  BY DEF Ascending
<1>2. PICK m \in 0 .. Len(queue) : below = 1 .. m
  <2>1. CASE below = {}
    BY <1>1, <2>1
  <2>2. CASE below # {}
    <3>1. Bounded(below, Len(queue))
      BY <1>1 DEF Bounded
    <3>2. PICK m \in below : \A j \in below : j <= m
      <4> HIDE DEF below
      <4> QED  BY <2>2, <3>1, GreatestInteger
    <3>3. \A j \in 1 .. m : j \in below
      BY <1>1, <3>2 DEF Ascending
    <3> QED  BY <1>1, <3>2, <3>3
  <2> QED  BY <2>1, <2>2
<1>3. n = m
  <2> HIDE DEF below
  <2>1. Cardinality(1 .. m) = m
    BY <1>1, FS_Interval
  <2> QED  BY <1>2, <2>1
<1>4. Place(queue, s, m)
  <2>1. ASSUME NEW j \in m + 1 .. Len(queue)  PROVE queue[j] >= s
    BY <1>1, <1>2
  <2>2. ASSUME NEW j \in 1 .. m  PROVE queue[j] < s
    BY <1>1, <1>2
  <2> QED  BY <2>1, <2>2 DEF Place
<1>5. InsertSorted(queue, s) =
        SubSeq(queue, 1, m) \o <<s>> \o SubSeq(queue, m + 1, Len(queue))
  BY <1>3, Zenon DEF InsertSorted
<1>6. SubSeq(queue, 1, m) \o <<s>> \o SubSeq(queue, m + 1, Len(queue))
        = PlacedAt(queue, s, m)
  <2> DEFINE front == SubSeq(queue, 1, m)
             back == SubSeq(queue, m + 1, Len(queue))
  <2>1. /\ front \in Seq(Nat) /\ Len(front) = m
        /\ \A j \in 1 .. m : front[j] = queue[j]
    BY <1>1
  <2>2. /\ back \in Seq(Nat) /\ Len(back) = Len(queue) - m
        /\ \A j \in 1 .. Len(queue) - m : back[j] = queue[m + j]
    BY <1>1
  <2> HIDE DEF front, back
  <2> DEFINE head == front \o <<s>>
             both == head \o back
  <2>7. /\ head \in Seq(Nat) /\ Len(head) = m + 1
        /\ \A j \in 1 .. m : head[j] = front[j]
        /\ head[m + 1] = s
    BY <1>1, <2>1
  <2> HIDE DEF head
  <2>3. /\ both \in Seq(Nat) /\ Len(both) = Len(queue) + 1
        /\ \A j \in 1 .. m + 1 : both[j] = head[j]
        /\ \A j \in m + 2 .. Len(queue) + 1 : both[j] = back[j - m - 1]
    <3>1. /\ both \in Seq(Nat) /\ Len(both) = Len(head) + Len(back)
          /\ \A j \in 1 .. Len(head) + Len(back) :
               both[j] = IF j <= Len(head) THEN head[j] ELSE back[j - Len(head)]
      BY <2>2, <2>7, ConcatProperties
    <3> HIDE DEF both
    <3>2. Len(head) + Len(back) = Len(queue) + 1
      BY <1>1, <2>2, <2>7
    <3>3. ASSUME NEW j \in 1 .. Len(queue) + 1
          PROVE  both[j] = IF j <= m + 1 THEN head[j] ELSE back[j - m - 1]
      <4>1. both[j] = IF j <= Len(head) THEN head[j] ELSE back[j - Len(head)]
        BY <3>1, <3>2
      <4>2. j - (m + 1) = j - m - 1
        BY <1>1
      <4> QED  BY <2>7, <4>1, <4>2
    <3>4. \A j \in 1 .. m + 1 : both[j] = head[j]
      BY <1>1, <3>3
    <3>5. \A j \in m + 2 .. Len(queue) + 1 : both[j] = back[j - m - 1]
      BY <1>1, <3>3
    <3> QED  BY <3>1, <3>2, <3>4, <3>5
  <2> HIDE DEF both
  <2>4. both = [j \in 1 .. Len(queue) + 1 |-> both[j]]
    BY <1>1, <2>3
  <2>5. \A j \in 1 .. Len(queue) + 1 :
          both[j] = IF j <= m THEN queue[j] ELSE IF j = m + 1 THEN s ELSE queue[j - 1]
    <3> SUFFICES ASSUME NEW j \in 1 .. Len(queue) + 1
                 PROVE  both[j] = IF j <= m THEN queue[j]
                                  ELSE IF j = m + 1 THEN s ELSE queue[j - 1]
      OBVIOUS
    <3>1. CASE j <= m
      BY <1>1, <2>1, <2>3, <2>7, <3>1, SMTT(30)
    <3>2. CASE j = m + 1
      BY <1>1, <2>3, <2>7, <3>2
    <3>3. CASE j > m + 1
      <4>1. j \in m + 2 .. Len(queue) + 1 /\ j - m - 1 \in 1 .. Len(queue) - m
        BY <1>1, <3>3
      <4>2. both[j] = back[j - m - 1]
        BY <2>3, <4>1
      <4>3. back[j - m - 1] = queue[m + (j - m - 1)]
        BY <2>2, <4>1
      <4> QED  BY <1>1, <3>3, <4>2, <4>3
    <3> QED  BY <1>1, <3>1, <3>2, <3>3
  <2>6. both = PlacedAt(queue, s, m)
    BY <2>4, <2>5 DEF PlacedAt
  <2> QED  BY <2>6 DEF both, head, front, back
<1> QED  BY <1>4, <1>5, <1>6

LEMMA PlacedAtFacts ==
  ASSUME NEW queue, Ascending(queue), NEW s \in Nat, NEW n, Place(queue, s, n)
  PROVE  /\ Ascending(PlacedAt(queue, s, n))
         /\ Len(PlacedAt(queue, s, n)) = Len(queue) + 1
         /\ \A j \in 1 .. Len(queue) + 1 :
              PlacedAt(queue, s, n)[j] =
                IF j <= n THEN queue[j] ELSE IF j = n + 1 THEN s ELSE queue[j - 1]
<1> DEFINE q == PlacedAt(queue, s, n)
<1>1. /\ Len(queue) \in Nat /\ n \in 0 .. Len(queue)
      /\ \A j \in 1 .. Len(queue) : queue[j] \in Nat
  BY DEF Ascending, Place
<1>2. \A j \in 1 .. Len(queue) + 1 :
        q[j] = IF j <= n THEN queue[j] ELSE IF j = n + 1 THEN s ELSE queue[j - 1]
  BY DEF PlacedAt
<1>3. \A j \in 1 .. Len(queue) + 1 : q[j] \in Nat
  BY <1>1, <1>2
<1>4. q \in Seq(Nat) /\ Len(q) = Len(queue) + 1
  <2>1. q \in [1 .. Len(queue) + 1 -> Nat]
    BY <1>3 DEF PlacedAt
  <2> HIDE DEF q
  <2> QED  BY <1>1, <2>1
<1>5. ASSUME NEW j \in 1 .. Len(q), NEW l \in 1 .. Len(q), j <= l
      PROVE  q[j] <= q[l]
  <2> DEFINE N == Len(queue)
  <2>0. /\ N \in Nat /\ n \in 0 .. N /\ j \in 1 .. N + 1 /\ l \in 1 .. N + 1
        /\ \A x, y \in 1 .. N : x <= y => queue[x] <= queue[y]
        /\ \A x \in 1 .. n : queue[x] < s
        /\ \A x \in n + 1 .. N : queue[x] >= s
        /\ \A x \in 1 .. N : queue[x] \in Nat
        /\ q[j] = IF j <= n THEN queue[j] ELSE IF j = n + 1 THEN s ELSE queue[j - 1]
        /\ q[l] = IF l <= n THEN queue[l] ELSE IF l = n + 1 THEN s ELSE queue[l - 1]
    BY <1>1, <1>2, <1>4 DEF Ascending, Place
  <2> HIDE DEF q, N
  <2>1. CASE l <= n
    BY <1>5, <2>0, <2>1
  <2>2. CASE l = n + 1 /\ j <= n
    BY <2>0, <2>2
  <2>3. CASE l = n + 1 /\ j = n + 1
    BY <2>0, <2>3
  <2>4. CASE l > n + 1
    <3>1. q[l] = queue[l - 1] /\ l - 1 \in n + 1 .. N /\ l - 1 \in 1 .. N
      BY <2>0, <2>4
    <3>2. CASE j <= n
      BY <2>0, <2>4, <3>1, <3>2
    <3>3. CASE j = n + 1
      BY <2>0, <2>4, <3>1, <3>3
    <3>4. CASE j > n + 1
      <4>1. q[j] = queue[j - 1] /\ j - 1 \in 1 .. N /\ j - 1 <= l - 1
        BY <1>5, <2>0, <3>4
      <4> QED  BY <2>0, <3>1, <4>1
    <3> QED  BY <2>0, <3>2, <3>3, <3>4
  <2> QED  BY <1>5, <2>0, <2>1, <2>2, <2>3, <2>4
<1> HIDE DEF q
<1>6. Ascending(q)
  BY <1>4, <1>5 DEF Ascending
<1> QED  BY <1>2, <1>4, <1>6 DEF q

(* A score has one place.                                                    *)
LEMMA InsertHere ==
  ASSUME NEW queue, Ascending(queue), NEW s \in Nat, NEW n, Place(queue, s, n)
  PROVE  InsertSorted(queue, s) = PlacedAt(queue, s, n)
<1>1. PICK m \in 0 .. Len(queue) : /\ Place(queue, s, m)
                                   /\ InsertSorted(queue, s) = PlacedAt(queue, s, m)
  BY InsertSortedFacts
<1>2. /\ Len(queue) \in Nat /\ \A j \in 1 .. Len(queue) : queue[j] \in Nat
      /\ n \in 0 .. Len(queue)
  BY DEF Ascending, Place
<1>3. ~(m < n)
  <2> SUFFICES ASSUME m < n PROVE FALSE
    OBVIOUS
  <2>1. m + 1 \in 1 .. n /\ m + 1 \in m + 1 .. Len(queue)
    BY <1>2
  <2>2. queue[m + 1] < s /\ queue[m + 1] >= s
    BY <1>1, <2>1 DEF Place
  <2> QED  BY <1>2, <2>1, <2>2
<1>4. ~(n < m)
  <2> SUFFICES ASSUME n < m PROVE FALSE
    OBVIOUS
  <2>1. n + 1 \in 1 .. m /\ n + 1 \in n + 1 .. Len(queue)
    BY <1>2
  <2>2. queue[n + 1] < s /\ queue[n + 1] >= s
    BY <1>1, <2>1 DEF Place
  <2> QED  BY <1>2, <2>1, <2>2
<1>5. m = n
  BY <1>2, <1>3, <1>4
<1> QED  BY <1>1, <1>5

LEMMA InsertKeepsAscending ==
  ASSUME NEW queue, Ascending(queue), NEW s \in Nat
  PROVE  /\ Ascending(InsertSorted(queue, s))
         /\ Len(InsertSorted(queue, s)) = Len(queue) + 1
<1>1. PICK n : Place(queue, s, n) /\ InsertSorted(queue, s) = PlacedAt(queue, s, n)
  BY InsertSortedFacts
<1> QED  BY <1>1, PlacedAtFacts

(* Two scores may be inserted in either order.                               *)
LEMMA InsertsCommuteInOrder ==
  ASSUME NEW queue, Ascending(queue), NEW a \in Nat, NEW b \in Nat, a < b
  PROVE  InsertSorted(InsertSorted(queue, a), b) = InsertSorted(InsertSorted(queue, b), a)
<1>1. PICK n : Place(queue, a, n) /\ InsertSorted(queue, a) = PlacedAt(queue, a, n)
  BY InsertSortedFacts
<1>2. PICK m : Place(queue, b, m) /\ InsertSorted(queue, b) = PlacedAt(queue, b, m)
  BY InsertSortedFacts
<1> DEFINE qa == PlacedAt(queue, a, n)
           qb == PlacedAt(queue, b, m)
           N == Len(queue)
<1>3. /\ N \in Nat /\ n \in 0 .. N /\ m \in 0 .. N
      /\ \A j \in 1 .. N : queue[j] \in Nat
  BY <1>1, <1>2 DEF Ascending, Place
<1>4. n <= m
  <2> SUFFICES ASSUME m < n PROVE FALSE
    BY <1>3
  <2>1. m + 1 \in 1 .. n /\ m + 1 \in m + 1 .. N /\ m + 1 \in 1 .. N
    BY <1>3
  <2>2. queue[m + 1] < a /\ queue[m + 1] >= b /\ queue[m + 1] \in Nat
    BY <1>1, <1>2, <1>3, <2>1 DEF Place
  <2> QED  BY <2>2
<1>5. /\ Ascending(qa) /\ Len(qa) = N + 1
      /\ \A j \in 1 .. N + 1 :
           qa[j] = IF j <= n THEN queue[j] ELSE IF j = n + 1 THEN a ELSE queue[j - 1]
  BY <1>1, PlacedAtFacts
<1>6. /\ Ascending(qb) /\ Len(qb) = N + 1
      /\ \A j \in 1 .. N + 1 :
           qb[j] = IF j <= m THEN queue[j] ELSE IF j = m + 1 THEN b ELSE queue[j - 1]
  BY <1>2, PlacedAtFacts
<1>7. /\ \A j \in 1 .. n : queue[j] < a
      /\ \A j \in n + 1 .. N : queue[j] >= a
      /\ \A j \in 1 .. m : queue[j] < b
      /\ \A j \in m + 1 .. N : queue[j] >= b
  BY <1>1, <1>2 DEF Place
<1> HIDE DEF qa, qb, N
<1>8. Place(qa, b, m + 1)
  <2>1. ASSUME NEW j \in 1 .. m + 1  PROVE qa[j] < b
    BY <1>3, <1>4, <1>5, <1>7, SMTT(30)
  <2>2. ASSUME NEW j \in m + 2 .. N + 1  PROVE qa[j] >= b
    <3>1. qa[j] = queue[j - 1] /\ j - 1 \in m + 1 .. N
      BY <1>3, <1>4, <1>5
    <3> QED  BY <1>7, <3>1
  <2>3. m + 1 \in 0 .. N + 1 /\ (m + 1) + 1 = m + 2
    BY <1>3
  <2> QED  BY <1>5, <2>1, <2>2, <2>3 DEF Place
<1>9. Place(qb, a, n)
  <2>1. ASSUME NEW j \in 1 .. n  PROVE qb[j] < a
    BY <1>3, <1>4, <1>6, <1>7
  <2>2. ASSUME NEW j \in n + 1 .. N + 1  PROVE qb[j] >= a
    <3>1. CASE j <= m
      BY <1>3, <1>4, <1>6, <1>7, <3>1
    <3>2. CASE j = m + 1
      BY <1>3, <1>4, <1>6, <1>7, <3>2
    <3>3. CASE j > m + 1
      <4>1. qb[j] = queue[j - 1] /\ j - 1 \in n + 1 .. N
        BY <1>3, <1>4, <1>6, <3>3
      <4> QED  BY <1>7, <4>1
    <3> QED  BY <1>3, <3>1, <3>2, <3>3
  <2>3. n \in 0 .. N + 1
    BY <1>3
  <2> QED  BY <1>6, <2>1, <2>2, <2>3 DEF Place
<1>10. PlacedAt(qa, b, m + 1) = PlacedAt(qb, a, n)
  <2>1. ASSUME NEW j \in 1 .. N + 2
        PROVE  (IF j <= m + 1 THEN qa[j] ELSE IF j = (m + 1) + 1 THEN b ELSE qa[j - 1]) =
               (IF j <= n THEN qb[j] ELSE IF j = n + 1 THEN a ELSE qb[j - 1])
    <3>1. CASE j <= n
      BY <1>3, <1>4, <1>5, <1>6, <3>1
    <3>2. CASE j = n + 1
      BY <1>3, <1>4, <1>5, <1>6, <3>2
    <3>3. CASE n + 1 < j /\ j <= m + 1
      <4>1. qa[j] = queue[j - 1] /\ j - 1 \in 1 .. N + 1 /\ j - 1 <= m
        BY <1>3, <1>4, <1>5, <3>3
      <4>2. qb[j - 1] = queue[j - 1]
        BY <1>6, <4>1
      <4> QED  BY <1>3, <3>3, <4>1, <4>2
    <3>4. CASE j = m + 2
      BY <1>3, <1>4, <1>5, <1>6, <3>4
    <3>5. CASE m + 2 < j
      <4>1. j - 1 \in 1 .. N + 1 /\ j - 1 > m + 1 /\ j - 1 > n + 1
        BY <1>3, <1>4, <3>5
      <4>2. qa[j - 1] = queue[(j - 1) - 1] /\ qb[j - 1] = queue[(j - 1) - 1]
        BY <1>3, <1>5, <1>6, <4>1
      <4> QED  BY <1>3, <1>4, <3>5, <4>2
    <3> QED  BY <1>3, <3>1, <3>2, <3>3, <3>4, <3>5
  <2>2. Len(qa) + 1 = N + 2 /\ Len(qb) + 1 = N + 2
    BY <1>3, <1>5, <1>6
  <2> QED  BY <2>1, <2>2 DEF PlacedAt
<1> QED  BY <1>1, <1>2, <1>5, <1>6, <1>8, <1>9, <1>10, InsertHere DEF qa, qb

LEMMA InsertsCommute ==
  ASSUME NEW queue, Ascending(queue), NEW a \in Nat, NEW b \in Nat
  PROVE  InsertSorted(InsertSorted(queue, a), b) = InsertSorted(InsertSorted(queue, b), a)
<1>1. CASE a = b
  BY <1>1
<1>2. CASE a < b
  BY <1>2, InsertsCommuteInOrder
<1>3. CASE b < a
  BY <1>3, InsertsCommuteInOrder
<1> QED  BY <1>1, <1>2, <1>3

(* The lowest score goes, or the one just inserted if it is the lowest.      *)
LEMMA TailOfInsert ==
  ASSUME NEW queue, Ascending(queue), Len(queue) > 0, NEW s \in Nat
  PROVE  /\ Head(queue) \in Nat
         /\ Ascending(Tail(queue)) /\ Len(Tail(queue)) = Len(queue) - 1
         /\ Len(queue) > 1 => Head(queue) <= Head(Tail(queue))
         /\ s <= Head(queue) => Tail(InsertSorted(queue, s)) = queue
         /\ s > Head(queue) => Tail(InsertSorted(queue, s)) = InsertSorted(Tail(queue), s)
<1> DEFINE N == Len(queue)
           tail == Tail(queue)
<1>1. /\ queue \in Seq(Nat) /\ N \in Nat \ {0} /\ Head(queue) = queue[1]
      /\ \A j \in 1 .. N : queue[j] \in Nat
      /\ \A j, l \in 1 .. N : j <= l => queue[j] <= queue[l]
  BY DEF Ascending
<1>2. tail \in Seq(Nat) /\ Len(tail) = N - 1 /\ \A j \in 1 .. N - 1 : tail[j] = queue[j + 1]
  BY <1>1
<1> HIDE DEF N, tail
<1>3. Ascending(tail)
  <2>1. ASSUME NEW j \in 1 .. N - 1, NEW l \in 1 .. N - 1, j <= l  PROVE tail[j] <= tail[l]
    <3>1. j + 1 \in 1 .. N /\ l + 1 \in 1 .. N /\ j + 1 <= l + 1
      BY <1>1, <2>1
    <3> QED  BY <1>1, <1>2, <3>1
  <2> QED  BY <1>2, <2>1 DEF Ascending
<1>4. N > 1 => Head(queue) <= Head(tail)
  BY <1>1, <1>2
<1>5. PICK n : Place(queue, s, n) /\ InsertSorted(queue, s) = PlacedAt(queue, s, n)
  BY InsertSortedFacts
<1>6. /\ Len(queue) = N /\ n \in 0 .. N
      /\ \A j \in 1 .. n : queue[j] < s
      /\ \A j \in n + 1 .. N : queue[j] >= s
  BY <1>5 DEF Place, N
<1> DEFINE q == PlacedAt(queue, s, n)
<1>7. /\ q \in Seq(Nat) /\ Len(q) = N + 1
      /\ \A j \in 1 .. N + 1 :
           q[j] = IF j <= n THEN queue[j] ELSE IF j = n + 1 THEN s ELSE queue[j - 1]
  <2>1. /\ Ascending(q) /\ Len(q) = Len(queue) + 1
        /\ \A j \in 1 .. Len(queue) + 1 :
             q[j] = IF j <= n THEN queue[j] ELSE IF j = n + 1 THEN s ELSE queue[j - 1]
    BY <1>5, PlacedAtFacts
  <2> HIDE DEF q
  <2> QED  BY <1>6, <2>1 DEF Ascending
<1> HIDE DEF q
<1>8. Tail(q) = [j \in 1 .. N |-> q[j + 1]]
  <2> DEFINE rest == Tail(q)
  <2>1. rest \in Seq(Nat) /\ Len(rest) = N /\ \A j \in 1 .. N : rest[j] = q[j + 1]
    BY <1>1, <1>7
  <2> HIDE DEF rest
  <2>2. rest = [j \in 1 .. N |-> rest[j]]
    BY <2>1
  <2>3. rest = [j \in 1 .. N |-> q[j + 1]]
    BY <2>1, <2>2
  <2> QED  BY <2>3 DEF rest
<1>9. CASE s <= Head(queue)
  <2>1. n = 0
    BY <1>1, <1>6, <1>9
  <2>2. \A j \in 1 .. N : q[j + 1] = queue[j]
    BY <1>1, <1>7, <2>1, SMTT(30)
  <2>3. queue = [j \in 1 .. N |-> queue[j]]
    BY <1>1, <1>6
  <2>4. Tail(q) = queue
    BY <1>8, <2>2, <2>3
  <2> QED  BY <1>1, <1>2, <1>3, <1>4, <1>5, <1>6, <1>9, <2>4 DEF q, tail
<1>10. CASE s > Head(queue)
  <2>1. n > 0
    <3> SUFFICES ASSUME n = 0 PROVE FALSE
      BY <1>1, <1>6
    <3>1. 1 \in n + 1 .. N
      BY <1>1
    <3> QED  BY <1>1, <1>6, <1>10, <3>1
  <2>2. Place(tail, s, n - 1)
    <3>1. ASSUME NEW j \in 1 .. n - 1  PROVE tail[j] < s
      BY <1>1, <1>2, <1>6, SMTT(30)
    <3>2. ASSUME NEW j \in n .. N - 1  PROVE tail[j] >= s
      BY <1>1, <1>2, <1>6, <2>1, SMTT(30)
    <3>3. n - 1 \in 0 .. N - 1 /\ (n - 1) + 1 = n
      BY <1>1, <1>6, <2>1
    <3> QED  BY <1>2, <3>1, <3>2, <3>3 DEF Place
  <2>3. InsertSorted(tail, s) = PlacedAt(tail, s, n - 1)
    BY <1>3, <2>2, InsertHere
  <2>4. ASSUME NEW j \in 1 .. N
        PROVE  q[j + 1] = IF j <= n - 1 THEN tail[j]
                          ELSE IF j = (n - 1) + 1 THEN s ELSE tail[j - 1]
    <3>1. CASE j <= n - 1
      BY <1>1, <1>2, <1>6, <1>7, <3>1
    <3>2. CASE j = n
      BY <1>1, <1>6, <1>7, <3>2
    <3>3. CASE j > n
      <4>1. j + 1 > n + 1 /\ j - 1 \in 1 .. N - 1 /\ j + 1 \in 1 .. N + 1
        BY <1>1, <1>6, <2>1, <3>3
      <4>2. q[j + 1] = queue[(j + 1) - 1]
        <5>1. ~(j + 1 <= n) /\ j + 1 # n + 1
          BY <1>6, <3>3
        <5> QED  BY <1>7, <4>1, <5>1
      <4>3. tail[j - 1] = queue[(j - 1) + 1]
        BY <1>2, <4>1
      <4>4. (j + 1) - 1 = j /\ (j - 1) + 1 = j /\ ~(j <= n - 1) /\ j # (n - 1) + 1
        BY <1>6, <3>3
      <4> QED  BY <4>2, <4>3, <4>4
    <3> QED  BY <1>1, <1>6, <3>1, <3>2, <3>3
  <2>5. (N - 1) + 1 = N
    BY <1>1
  <2>6. Tail(q) = PlacedAt(tail, s, n - 1)
    BY <1>2, <1>8, <2>4, <2>5 DEF PlacedAt
  <2> QED  BY <1>1, <1>2, <1>3, <1>4, <1>5, <1>6, <1>10, <2>3, <2>6 DEF q, tail
<1> QED  BY <1>1, <1>9, <1>10

(* What is left of a queue and a score when at most size are kept.           *)
Kept(queue, size, s) ==
  LET all == InsertSorted(queue, s) IN IF Len(all) > size THEN Tail(all) ELSE all

LEMMA KeptFacts ==
  ASSUME NEW size \in Nat \ {0}, NEW queue, Ascending(queue), Len(queue) <= size,
         NEW s \in Nat
  PROVE  /\ Ascending(Kept(queue, size, s)) /\ Len(Kept(queue, size, s)) <= size
         /\ Kept(queue, size, s) = Insert(queue, size, s)
         /\ ~WouldEnter(queue, size, s) => Kept(queue, size, s) = queue
<1> DEFINE all == InsertSorted(queue, s)
<1>1. Ascending(all) /\ Len(all) = Len(queue) + 1
  BY InsertKeepsAscending
<1>2. Len(queue) \in Nat /\ queue \in Seq(Nat)
  BY DEF Ascending
<1>3. CASE Len(queue) < size
  <2>1. Kept(queue, size, s) = all
    BY <1>1, <1>2, <1>3 DEF Kept
  <2>2. Insert(queue, size, s) = all
    BY <1>3 DEF Insert
  <2>3. WouldEnter(queue, size, s)
    BY <1>3 DEF WouldEnter
  <2> HIDE DEF all
  <2> QED  BY <1>1, <1>2, <1>3, <2>1, <2>2, <2>3
<1>4. CASE Len(queue) = size
  <2>1. Kept(queue, size, s) = Tail(all)
    BY <1>1, <1>2, <1>4 DEF Kept
  <2>2. /\ Head(queue) \in Nat
        /\ s <= Head(queue) => Tail(all) = queue
        /\ s > Head(queue) => Tail(all) = InsertSorted(Tail(queue), s)
    BY <1>2, <1>4, TailOfInsert
  <2>3. Len(all) > 0 /\ Len(all) - 1 = size
    BY <1>1, <1>2, <1>4
  <2> HIDE DEF all
  <2>4. Ascending(Tail(all)) /\ Len(Tail(all)) = size
    BY <1>1, <2>3, TailOfInsert
  <2>5. CASE s <= Head(queue)
    <3>1. ~(s > Head(queue))
      BY <2>2, <2>5
    <3> QED  BY <1>4, <2>1, <2>2, <2>4, <2>5, <3>1 DEF Insert
  <2>6. CASE s > Head(queue)
    <3>1. ~(Len(queue) < size)
      BY <1>4
    <3> QED  BY <2>1, <2>2, <2>4, <2>6, <3>1 DEF Insert, WouldEnter
  <2> QED  BY <2>2, <2>5, <2>6
<1> QED  BY <1>2, <1>3, <1>4

(* Keeping two scores drops as many of the lowest as there are too many,     *)
(* whichever of the two comes first.                                         *)
Shortened(all, length, size, rest) ==
  /\ length + 2 <= size => rest = all
  /\ length + 1 = size => rest = Tail(all)
  /\ length = size => rest = Tail(Tail(all))

LEMMA KeptTwice ==
  ASSUME NEW size \in Nat \ {0}, NEW queue, Ascending(queue), Len(queue) <= size,
         NEW a \in Nat, NEW b \in Nat
  PROVE  Shortened(InsertSorted(InsertSorted(queue, a), b), Len(queue), size,
                   Kept(Kept(queue, size, a), size, b))
<1> DEFINE p == InsertSorted(queue, a)
           all == InsertSorted(p, b)
           rest == Kept(Kept(queue, size, a), size, b)
<1>1. Ascending(p) /\ Len(p) = Len(queue) + 1 /\ Len(queue) \in Nat
  BY InsertKeepsAscending DEF Ascending
<1>2. Ascending(all) /\ Len(all) = Len(p) + 1
  BY <1>1, InsertKeepsAscending
<1>3. Kept(queue, size, a) = IF Len(p) > size THEN Tail(p) ELSE p
  BY DEF Kept
<1>4. Kept(p, size, b) = IF Len(all) > size THEN Tail(all) ELSE all
  BY <1>2 DEF Kept
<1>5. all = InsertSorted(p, b) /\ rest = Kept(Kept(queue, size, a), size, b)
  OBVIOUS
<1> HIDE DEF p, all, rest
<1>6. ASSUME Len(queue) + 2 <= size  PROVE rest = all
  <2>1. ~(Len(p) > size) /\ ~(Len(all) > size)
    BY <1>1, <1>2, <1>6
  <2> QED  BY <1>3, <1>4, <1>5, <2>1
<1>7. ASSUME Len(queue) + 1 = size  PROVE rest = Tail(all)
  <2>1. ~(Len(p) > size) /\ Len(all) > size
    BY <1>1, <1>2, <1>7
  <2> QED  BY <1>3, <1>4, <1>5, <2>1
<1>8. ASSUME Len(queue) = size  PROVE rest = Tail(Tail(all))
  <2>1. /\ Len(p) > size /\ Len(p) > 1 /\ Len(p) > 0 /\ Len(p) - 1 = size
        /\ size > 0 /\ size + 1 > size
    BY <1>1, <1>8
  <2>2. /\ Head(p) \in Nat /\ Ascending(Tail(p)) /\ Len(Tail(p)) = size
        /\ Head(p) <= Head(Tail(p))
        /\ b <= Head(p) => Tail(all) = p
        /\ b > Head(p) => Tail(all) = InsertSorted(Tail(p), b)
    <3>1. /\ Head(p) \in Nat /\ Ascending(Tail(p)) /\ Len(Tail(p)) = Len(p) - 1
          /\ Len(p) > 1 => Head(p) <= Head(Tail(p))
          /\ b <= Head(p) => Tail(InsertSorted(p, b)) = p
          /\ b > Head(p) => Tail(InsertSorted(p, b)) = InsertSorted(Tail(p), b)
      BY <1>1, <2>1, TailOfInsert
    <3> QED  BY <1>5, <2>1, <3>1
  <2> DEFINE tail == Tail(p)
             longer == InsertSorted(tail, b)
  <2>3. /\ Head(tail) \in Nat
        /\ b <= Head(tail) => Tail(longer) = tail
        /\ Len(longer) = size + 1
    <3>1. Ascending(tail) /\ Len(tail) > 0 /\ Len(tail) = size
      BY <2>1, <2>2
    <3> HIDE DEF tail
    <3>2. /\ Head(tail) \in Nat
          /\ b <= Head(tail) => Tail(longer) = tail
      BY <3>1, TailOfInsert
    <3>3. Len(longer) = size + 1
      BY <3>1, InsertKeepsAscending
    <3> QED  BY <3>2, <3>3
  <2>4. Kept(tail, size, b) = Tail(longer)
    <3>1. Kept(tail, size, b) = IF Len(longer) > size THEN Tail(longer) ELSE longer
      BY DEF Kept
    <3> HIDE DEF tail, longer
    <3> QED  BY <2>1, <2>3, <3>1
  <2>5. Kept(queue, size, a) = tail
    BY <1>3, <2>1
  <2>6. b > Head(p) => Tail(all) = longer
    BY <2>2
  <2>7. Head(p) <= Head(tail)
    BY <2>2
  <2>8. CASE b <= Head(p)
    <3>1. b <= Head(tail)
      <4> HIDE DEF tail
      <4> QED  BY <2>2, <2>3, <2>7, <2>8
    <3>2. Tail(Tail(all)) = tail
      BY <2>2, <2>8
    <3> HIDE DEF tail, longer
    <3> QED  BY <1>5, <2>3, <2>4, <2>5, <3>1, <3>2
  <2>9. CASE b > Head(p)
    <3> HIDE DEF tail, longer
    <3> QED  BY <1>5, <2>4, <2>5, <2>6, <2>9
  <2> QED  BY <2>2, <2>8, <2>9, SMTT(30)
<1>9. Shortened(all, Len(queue), size, rest)
  BY <1>6, <1>7, <1>8 DEF Shortened
<1> QED  BY <1>9 DEF p, all, rest

LEMMA KeptCommutes ==
  ASSUME NEW size \in Nat \ {0}, NEW queue, Ascending(queue), Len(queue) <= size,
         NEW a \in Nat, NEW b \in Nat
  PROVE  Kept(Kept(queue, size, a), size, b) = Kept(Kept(queue, size, b), size, a)
<1> DEFINE all == InsertSorted(InsertSorted(queue, a), b)
           any == InsertSorted(InsertSorted(queue, b), a)
<1>1. all = any
  BY InsertsCommute
<1>2. Shortened(all, Len(queue), size, Kept(Kept(queue, size, a), size, b))
  BY KeptTwice
<1>3. Shortened(any, Len(queue), size, Kept(Kept(queue, size, b), size, a))
  BY KeptTwice
<1>4. Len(queue) + 2 <= size \/ Len(queue) + 1 = size \/ Len(queue) = size
  BY DEF Ascending
<1> HIDE DEF all, any
<1> QED  BY <1>1, <1>2, <1>3, <1>4 DEF Shortened

(* What cannot enter a queue cannot enter it later.                          *)
LEMMA EnteringLater ==
  ASSUME NEW size \in Nat \ {0}, NEW queue, Ascending(queue), Len(queue) <= size,
         NEW a \in Nat, NEW s \in Nat, ~WouldEnter(queue, size, s)
  PROVE  ~WouldEnter(Kept(queue, size, a), size, s)
<1>1. Len(queue) = size /\ ~(s > Head(queue)) /\ Len(queue) > 0
  BY DEF WouldEnter, Ascending
<1>2. CASE ~WouldEnter(queue, size, a)
  BY <1>2, KeptFacts
<1>3. CASE WouldEnter(queue, size, a)
  <2> DEFINE all == InsertSorted(queue, a)
             rest == InsertSorted(Tail(queue), a)
  <2>1. /\ Head(queue) \in Nat /\ Ascending(Tail(queue)) /\ Len(Tail(queue)) = size - 1
        /\ a > Head(queue) /\ Tail(all) = rest
        /\ Len(queue) > 1 => Head(queue) <= Head(Tail(queue))
    BY <1>1, <1>3, TailOfInsert DEF WouldEnter
  <2>2. PICK n : Place(Tail(queue), a, n) /\ rest = PlacedAt(Tail(queue), a, n)
    BY <2>1, InsertSortedFacts
  <2>3. /\ Ascending(rest) /\ Len(rest) = size
        /\ \A j \in 1 .. size : rest[j] = IF j <= n THEN Tail(queue)[j]
                                         ELSE IF j = n + 1 THEN a ELSE Tail(queue)[j - 1]
    <3>1. PICK tail : tail = Tail(queue)
      OBVIOUS
    <3> DEFINE grown == PlacedAt(tail, a, n)
    <3>2. Ascending(tail) /\ Place(tail, a, n) /\ Len(tail) + 1 = size
      BY <2>1, <2>2, <3>1
    <3>3. /\ Ascending(grown) /\ Len(grown) = size
          /\ \A j \in 1 .. size :
               grown[j] = IF j <= n THEN tail[j] ELSE IF j = n + 1 THEN a ELSE tail[j - 1]
      <4>1. /\ Ascending(grown) /\ Len(grown) = Len(tail) + 1
            /\ \A j \in 1 .. Len(tail) + 1 :
                 grown[j] = IF j <= n THEN tail[j] ELSE IF j = n + 1 THEN a ELSE tail[j - 1]
        BY <3>2, PlacedAtFacts
      <4> HIDE DEF grown
      <4> QED  BY <3>2, <4>1
    <3>4. rest = grown
      BY <2>2, <3>1
    <3> HIDE DEF rest, grown
    <3> QED  BY <3>1, <3>3, <3>4
  <2>4. Kept(queue, size, a) = rest
    <3>1. Len(all) = size + 1 /\ size + 1 > size
      BY <1>1, InsertKeepsAscending
    <3> HIDE DEF rest
    <3> QED  BY <2>1, <3>1 DEF Kept
  <2> HIDE DEF rest
  <2>5. Head(rest) = rest[1] /\ rest[1] \in Nat
    BY <2>3 DEF Ascending
  <2>6. CASE n = 0
    BY <1>1, <2>1, <2>3, <2>4, <2>5, <2>6 DEF WouldEnter
  <2>7. CASE n # 0
    <3>1. n \in 1 .. size - 1
      BY <2>1, <2>2, <2>7 DEF Place
    <3>2. rest[1] = Tail(queue)[1] /\ size > 1 /\ Tail(queue)[1] = Head(Tail(queue))
      BY <2>1, <2>3, <3>1 DEF Ascending
    <3> QED  BY <1>1, <2>1, <2>3, <2>4, <2>5, <3>2 DEF WouldEnter
  <2> QED  BY <2>6, <2>7
<1> QED  BY <1>2, <1>3

-----------------------------------------------------------------------------
(* The k best scores of a set of documents.                                  *)

Queues(size) == {queue \in Seq(Nat) : Ascending(queue) /\ Len(queue) <= size}

Scored(S) == k \in Nat \ {0} /\ IsFiniteSet(S) /\ \A d \in S : Score(d) \in Nat

BestBody(T, g) ==
  [s \in SUBSET T |->
     IF s = {} THEN <<>> ELSE Kept(g[s \ {Pick(s)}], k, Score(Pick(s)))]

BestTo(F, S) == F \in [SUBSET S -> Queues(k)] /\ F = BestBody(S, F)

LEMMA BestIsChosen ==
  ASSUME NEW docs
  PROVE  Best(docs) = (CHOOSE g : g = BestBody(docs, g))[docs]
BY Zenon DEF Best, FoldSet, MapThenFoldSet, BestBody, Pick, Kept

LEMMA BestValue ==
  ASSUME NEW S, Scored(S), NEW F, BestTo(F, S), NEW T \in SUBSET S
  PROVE  Best(T) = F[T]
<1> USE DEF BestTo
<1> DEFINE R == [s \in SUBSET T |-> F[s]]
           Iter == CHOOSE g : g = BestBody(T, g)
           Good == {s \in SUBSET T : Iter[s] = F[s]}
<1>1. ASSUME NEW s \in SUBSET S, s # {}
      PROVE  Pick(s) \in s /\ F[s] = Kept(F[s \ {Pick(s)}], k, Score(Pick(s)))
  BY <1>1 DEF BestBody, Pick
<1>2. F[{}] = <<>>
  BY DEF BestBody
<1>3. R = BestBody(T, R)
  BY <1>1, <1>2 DEF BestBody
<1>4. Iter = BestBody(T, Iter)
  <2> HIDE DEF R
  <2> QED  BY <1>3, Zenon
<1> HIDE DEF Iter
<1>5. ASSUME NEW s \in SUBSET T, \A x \in s : s \ {x} \in Good  PROVE s \in Good
  <2>1. CASE s = {}
    BY <1>2, <1>4, <2>1 DEF BestBody
  <2>2. CASE s # {}
    <3>1. Pick(s) \in s /\ F[s] = Kept(F[s \ {Pick(s)}], k, Score(Pick(s)))
      BY <1>1, <2>2
    <3>2. Iter[s] = Kept(Iter[s \ {Pick(s)}], k, Score(Pick(s)))
      BY <1>4, <2>2 DEF BestBody
    <3> QED  BY <1>5, <3>1, <3>2
  <2> QED  BY <2>1, <2>2
<1>6. T \in Good
  <2>1. IsFiniteSet(T)
    BY FS_Subset DEF Scored
  <2>2. Inductive(Good, T)
    BY <1>5 DEF Inductive
  <2> HIDE DEF Good
  <2>3. SUBSET T \subseteq Good
    BY <2>1, <2>2, SubsetInduction
  <2> QED  BY <2>3
<1>7. Best(T) = Iter[T]
  BY BestIsChosen DEF Iter
<1> QED  BY <1>6, <1>7

(* The best of no documents are none, and any document may be taken off.     *)
LEMMA BestFacts ==
  ASSUME NEW S, Scored(S)
  PROVE  /\ Best({}) = <<>>
         /\ \A s \in SUBSET S : Best(s) \in Queues(k)
         /\ \A s \in SUBSET S : \A x \in s : Best(s) = Kept(Best(s \ {x}), k, Score(x))
<1> USE DEF Scored
<1>0. \A v \in Queues(k) : \A x \in S : Kept(v, k, Score(x)) \in Queues(k)
  <2> SUFFICES ASSUME NEW v \in Queues(k), NEW x \in S
               PROVE  Kept(v, k, Score(x)) \in Queues(k)
    OBVIOUS
  <2>1. Ascending(Kept(v, k, Score(x))) /\ Len(Kept(v, k, Score(x))) <= k
    BY KeptFacts DEF Queues
  <2> QED  BY <2>1 DEF Queues, Ascending
<1>1. PICK step : /\ step \in [S \X Queues(k) -> Queues(k)]
                  /\ \A x \in S : \A v \in Queues(k) : step[<<x, v>>] = Kept(v, k, Score(x))
  <2> DEFINE add == [p \in S \X Queues(k) |-> Kept(p[2], k, Score(p[1]))]
  <2>1. add \in [S \X Queues(k) -> Queues(k)]
    BY <1>0
  <2>2. \A x \in S : \A v \in Queues(k) : add[<<x, v>>] = Kept(v, k, Score(x))
    OBVIOUS
  <2> HIDE DEF add
  <2> QED  BY <2>1, <2>2
<1>2. <<>> \in Queues(k)
  BY DEF Queues, Ascending
<1>3. Commutes(step, S, Queues(k))
  <2> SUFFICES ASSUME NEW x \in S, NEW y \in S, NEW v \in Queues(k)
               PROVE  step[<<x, step[<<y, v>>]>>] = step[<<y, step[<<x, v>>]>>]
    BY <1>1 DEF Commutes
  <2>1. Kept(Kept(v, k, Score(y)), k, Score(x)) = Kept(Kept(v, k, Score(x)), k, Score(y))
    BY KeptCommutes DEF Queues
  <2>2. step[<<x, v>>] = Kept(v, k, Score(x)) /\ step[<<y, v>>] = Kept(v, k, Score(y))
    BY <1>1
  <2>3. Kept(v, k, Score(x)) \in Queues(k) /\ Kept(v, k, Score(y)) \in Queues(k)
    BY <1>0
  <2> QED  BY <1>1, <2>1, <2>2, <2>3
<1>4. PICK F : FoldsTo(F, S, Queues(k), <<>>, step)
  BY <1>1, <1>2, FoldExists
<1>5. \A s \in SUBSET S : \A x \in s : F[s] = step[<<x, F[s \ {x}]>>]
  <2>1. TakesAny(F, S, step)
    BY <1>2, <1>3, <1>4, FoldCommutes
  <2> QED  BY <2>1 DEF TakesAny
<1>6. /\ \A s \in SUBSET S : F[s] \in Queues(k)
      /\ F[{}] = <<>>
      /\ F = [s \in SUBSET S |-> F[s]]
  BY <1>4 DEF FoldsTo
<1>7. \A s \in SUBSET S : \A x \in s : F[s] = Kept(F[s \ {x}], k, Score(x))
  BY <1>1, <1>5, <1>6
<1>8. BestTo(F, S)
  <2>1. \A s \in SUBSET S : s # {} => Pick(s) \in s
    BY DEF Pick
  <2>2. \A s \in SUBSET S :
          F[s] = IF s = {} THEN <<>> ELSE Kept(F[s \ {Pick(s)}], k, Score(Pick(s)))
    BY <1>6, <1>7, <2>1
  <2>3. F \in [SUBSET S -> Queues(k)]
    BY <1>4 DEF FoldsTo
  <2> QED  BY <1>6, <2>2, <2>3 DEF BestBody, BestTo
<1>9. \A s \in SUBSET S : Best(s) = F[s]
  BY <1>8, BestValue
<1>10. Best({}) = <<>>
  BY <1>6, <1>9
<1>11. \A s \in SUBSET S : Best(s) \in Queues(k)
  BY <1>6, <1>9
<1>12. ASSUME NEW s \in SUBSET S, NEW x \in s
       PROVE  Best(s) = Kept(Best(s \ {x}), k, Score(x))
  BY <1>7, <1>9
<1> QED  BY <1>10, <1>11, <1>12

(* One more document is found: its score is inserted.                        *)
LEMMA BestWithOneMore ==
  ASSUME NEW S, Scored(S), NEW A \in SUBSET S, NEW d \in S \ A
  PROVE  /\ Best(A) \in Queues(k)
         /\ Best(A \cup {d}) = Insert(Best(A), k, Score(d))
<1> DEFINE B == A \cup {d}
<1>1. B \in SUBSET S /\ d \in B /\ B \ {d} = A
  OBVIOUS
<1> HIDE DEF B
<1>2. Best(B) = Kept(Best(A), k, Score(d)) /\ Best(A) \in Queues(k)
  BY <1>1, BestFacts
<1>3. Kept(Best(A), k, Score(d)) = Insert(Best(A), k, Score(d))
  BY <1>2, KeptFacts DEF Queues, Scored
<1> QED  BY <1>2, <1>3 DEF B

(* Documents that cannot enter need not be looked at.                        *)
LEMMA BestWithoutTheRest ==
  ASSUME NEW S, Scored(S), NEW A \in SUBSET S, NEW B \in SUBSET S,
         \A d \in B : ~WouldEnter(Best(A), k, Score(d))
  PROVE  Best(A \cup B) = Best(A)
<1> DEFINE Good == {b \in SUBSET B : Best(A \cup b) = Best(A)}
<1>1. ASSUME NEW b \in SUBSET B, \A x \in b : b \ {x} \in Good  PROVE b \in Good
  <2>1. CASE \A x \in b : x \in A
    <3>1. A \cup b = A
      BY <2>1
    <3> QED  BY <3>1
  <2>2. CASE \E x \in b : x \notin A
    <3>1. PICK x \in b : x \notin A
      BY <2>2
    <3> DEFINE C == A \cup (b \ {x})
    <3>2. /\ C \in SUBSET S /\ x \in S \ C /\ A \cup b = C \cup {x}
      BY <3>1
    <3>3. Best(C) = Best(A)
      BY <1>1
    <3> HIDE DEF C
    <3>4. Best(C) \in Queues(k) /\ Best(C \cup {x}) = Insert(Best(C), k, Score(x))
      BY <3>2, BestWithOneMore
    <3>5. /\ ~WouldEnter(Best(C), k, Score(x))
          /\ Score(x) \in Nat /\ k \in Nat \ {0}
      BY <3>3 DEF Scored
    <3>6. Insert(Best(C), k, Score(x)) = Best(C)
      BY <3>4, <3>5, KeptFacts DEF Queues
    <3> QED  BY <3>2, <3>3, <3>4, <3>6
  <2> QED  BY <2>1, <2>2
<1>2. SUBSET B \subseteq Good
  <2>1. IsFiniteSet(B)
    BY FS_Subset DEF Scored
  <2>2. Inductive(Good, B)
    BY <1>1 DEF Inductive
  <2> HIDE DEF Good
  <2> QED  BY <2>1, <2>2, SubsetInduction
<1> QED  BY <1>2

-----------------------------------------------------------------------------
(* A step that leaves the query alone leaves what depends on it alone.       *)

LEMMA SameQuery ==
  ASSUME weight' = weight, k' = k
  PROVE  /\ QueryTerms' = QueryTerms
         /\ \A t : DocsOf(t)' = DocsOf(t)
         /\ \A t, d : WeightOf(t, d)' = WeightOf(t, d)
         /\ \A t, d : Geq(t, d)' = Geq(t, d)
         /\ \A t : First(t)' = First(t)
         /\ \A t : MaxWeight(t)' = MaxWeight(t)
         /\ AnyTerm' = AnyTerm /\ AllTerms' = AllTerms
<1>1. QueryTerms' = QueryTerms
  BY DEF QueryTerms
<1>2. \A t : DocsOf(t)' = DocsOf(t)
  BY DEF DocsOf
<1>3. \A t, d : WeightOf(t, d)' = WeightOf(t, d)
  BY <1>2 DEF WeightOf
<1>4. \A t, d : Geq(t, d)' = Geq(t, d)
  BY <1>2 DEF Geq
<1>5. \A t : First(t)' = First(t)
  BY <1>2 DEF First
<1>6. \A t : MaxWeight(t)' = MaxWeight(t)
  BY Zenon DEF MaxWeight
<1>7. AnyTerm' = AnyTerm /\ AllTerms' = AllTerms
  BY <1>1, <1>2 DEF AnyTerm, AllTerms
<1> QED  BY <1>1, <1>2, <1>3, <1>4, <1>5, <1>6, <1>7

LEMMA SameScore ==
  ASSUME weight' = weight, k' = k
  PROVE  \A d : Score(d)' = Score(d)
BY Zenon DEF Score, QueryTerms, WeightOf, DocsOf

(* Best as an operator of what it depends on.                                *)
ScoreIn(lists, d) ==
  SumFunction([t \in DOMAIN lists |-> IF d \in DOMAIN lists[t] THEN lists[t][d] ELSE 0])

BestIn(lists, size, docs) ==
  (CHOOSE g : g = [s \in SUBSET docs |->
     IF s = {} THEN <<>> ELSE Kept(g[s \ {Pick(s)}], size, ScoreIn(lists, Pick(s)))])[docs]

LEMMA BestInNow ==
  ASSUME NEW docs
  PROVE  Best(docs) = BestIn(weight, k, docs)
BY Zenon DEF Best, FoldSet, MapThenFoldSet, BestIn, ScoreIn, Score, QueryTerms, WeightOf,
             DocsOf, Pick, Kept

LEMMA BestInNext ==
  ASSUME NEW docs
  PROVE  Best(docs)' = BestIn(weight', k', docs)
BY Zenon DEF Best, FoldSet, MapThenFoldSet, BestIn, ScoreIn, Score, QueryTerms, WeightOf,
             DocsOf, Pick, Kept

LEMMA SameBest ==
  ASSUME weight' = weight, k' = k
  PROVE  \A docs : Best(docs)' = Best(docs)
<1> SUFFICES ASSUME NEW docs PROVE Best(docs)' = Best(docs)
  OBVIOUS
<1> QED  BY BestInNow, BestInNext

-----------------------------------------------------------------------------
(* The lists of a query.                                                     *)

Query ==
  /\ QueryTerms \in SUBSET Terms
  /\ \A t \in QueryTerms : weight[t] \in Lists
  /\ k \in Ks

LEMMA ListFacts ==
  ASSUME Query
  PROVE  /\ IsFiniteSet(QueryTerms) /\ Cardinality(QueryTerms) \in Nat
         /\ NumDocs \in Nat \ {0} /\ k \in Nat \ {0}
         /\ \A t \in QueryTerms : DocsOf(t) \in SUBSET (0 .. NumDocs - 1) /\ DocsOf(t) # {}
         /\ \A t \in QueryTerms : \A d : WeightOf(t, d) \in Nat
         /\ \A t \in QueryTerms : \A d : d \notin DocsOf(t) => WeightOf(t, d) = 0
         /\ AnyTerm \in SUBSET (0 .. NumDocs - 1) /\ IsFiniteSet(AnyTerm)
         /\ AllTerms \in SUBSET AnyTerm
<1>1. IsFiniteSet(QueryTerms) /\ Cardinality(QueryTerms) \in Nat
  BY FS_Subset, FS_CardinalityType, QueryAssumption DEF Query
<1>2. NumDocs \in Nat \ {0} /\ k \in Nat \ {0}
  BY QueryAssumption DEF Query
<1>3. ASSUME NEW t \in QueryTerms
      PROVE  /\ DocsOf(t) \in SUBSET (0 .. NumDocs - 1) /\ DocsOf(t) # {}
             /\ \A d \in DocsOf(t) : weight[t][d] \in Nat
  BY QueryAssumption DEF Query, DocsOf
<1>4. \A t \in QueryTerms : \A d : WeightOf(t, d) \in Nat
  BY <1>3 DEF WeightOf
<1>5. \A t \in QueryTerms : \A d : d \notin DocsOf(t) => WeightOf(t, d) = 0
  BY DEF WeightOf
<1>6. AnyTerm \in SUBSET (0 .. NumDocs - 1)
  BY <1>3 DEF AnyTerm
<1>7. IsFiniteSet(AnyTerm)
  <2>1. 0 \in Int /\ NumDocs - 1 \in Int
    BY <1>2
  <2>2. IsFiniteSet(0 .. NumDocs - 1)
    BY <2>1, FS_Interval
  <2> QED  BY <1>6, <2>2, FS_Subset
<1>8. AllTerms \in SUBSET AnyTerm
  BY DEF AllTerms
<1> QED  BY <1>1, <1>2, <1>3, <1>4, <1>5, <1>6, <1>7, <1>8

LEMMA GeqFacts ==
  ASSUME Query, NEW t \in QueryTerms, NEW lower_bound \in Int
  PROVE  /\ IsFirstGeq(Geq(t, lower_bound), DocsOf(t), NumDocs, lower_bound)
         /\ \A d : IsFirstGeq(d, DocsOf(t), NumDocs, lower_bound)
                     => d = Geq(t, lower_bound)
<1>1. DocsOf(t) \in SUBSET (0 .. NumDocs - 1) /\ NumDocs \in Nat
  BY ListFacts
<1> QED  BY <1>1, FirstGeqFacts DEF Geq

(* The score of a document is a sum of naturals.                             *)
LEMMA ScoreFacts ==
  ASSUME Query
  PROVE  /\ \A d : Score(d) = SumFunctionOnSet([t \in QueryTerms |-> WeightOf(t, d)], QueryTerms)
         /\ \A d : Score(d) \in Nat
         /\ Scored(AnyTerm)
<1>1. ASSUME NEW d
      PROVE  /\ Score(d) = SumFunctionOnSet([t \in QueryTerms |-> WeightOf(t, d)], QueryTerms)
             /\ Score(d) \in Nat
  <2> DEFINE f == [t \in QueryTerms |-> WeightOf(t, d)]
  <2>1. \A t \in QueryTerms : f[t] \in Nat
    BY ListFacts
  <2>2. Score(d) = SumFunctionOnSet(f, QueryTerms)
    <3>1. DOMAIN f = QueryTerms
      OBVIOUS
    <3>2. Score(d) = SumFunctionOnSet(f, DOMAIN f)
      BY Zenon DEF Score, SumFunction
    <3> HIDE DEF f
    <3> QED  BY <3>1, <3>2
  <2> HIDE DEF f
  <2>3. IsFiniteSet(QueryTerms)
    BY ListFacts
  <2>4. SumFunctionOnSet(f, QueryTerms) \in Nat
    BY <2>1, <2>3, SumFacts
  <2> QED  BY <2>2, <2>4 DEF f
<1>2. Scored(AnyTerm)
  BY <1>1, ListFacts DEF Scored
<1> QED  BY <1>1, <1>2

(* The maximum of a list is that of one of its postings.                     *)
LEMMA MaxWeightFacts ==
  ASSUME Query, NEW t \in QueryTerms
  PROVE  MaxWeight(t) \in Nat /\ \A d : WeightOf(t, d) <= MaxWeight(t)
<1> DEFINE R == Range(weight[t])
<1>1. /\ DocsOf(t) # {} /\ IsFiniteSet(DocsOf(t))
      /\ \A d \in DocsOf(t) : weight[t][d] \in Nat
      /\ R = {weight[t][d] : d \in DocsOf(t)}
  <2>1. DocsOf(t) \in SUBSET (0 .. NumDocs - 1) /\ DocsOf(t) # {} /\ NumDocs \in Nat
    BY ListFacts
  <2>2. IsFiniteSet(0 .. NumDocs - 1)
    <3>1. 0 \in Int /\ NumDocs - 1 \in Int
      BY <2>1
    <3> QED  BY <3>1, FS_Interval
  <2>3. IsFiniteSet(DocsOf(t))
    BY <2>1, <2>2, FS_Subset
  <2>4. \A d \in DocsOf(t) : WeightOf(t, d) \in Nat /\ WeightOf(t, d) = weight[t][d]
    BY ListFacts DEF WeightOf
  <2> QED  BY <2>1, <2>3, <2>4 DEF Range, DocsOf
<1>2. R \in SUBSET Nat /\ R # {}
  BY <1>1
<1> DEFINE Has(D) == D = {} \/ \E d \in D : \A e \in D : weight[t][d] >= weight[t][e]
           Good == {D \in SUBSET DocsOf(t) : Has(D)}
<1>3. ASSUME NEW D \in SUBSET DocsOf(t), \A x \in D : D \ {x} \in Good  PROVE D \in Good
  <2>1. CASE D = {}
    BY <2>1
  <2>2. CASE D # {}
    <3>0. PICK x \in D : D \ {x} \in Good
      BY <1>3, <2>2
    <3>1. Has(D \ {x})
      BY <3>0
    <3>2. CASE D \ {x} = {}
      <4>1. \A e \in D : e = x
        BY <3>2
      <4>2. \A e \in D : weight[t][x] >= weight[t][e]
        BY <1>1, <4>1
      <4> QED  BY <4>2
    <3>3. CASE D \ {x} # {}
      <4>1. PICK d \in D \ {x} : \A e \in D \ {x} : weight[t][d] >= weight[t][e]
        BY <3>1, <3>3
      <4>2. CASE weight[t][d] >= weight[t][x]
        BY <4>1, <4>2
      <4>3. CASE ~(weight[t][d] >= weight[t][x])
        <5>1. \A e \in D : weight[t][x] >= weight[t][e]
          <6> SUFFICES ASSUME NEW e \in D PROVE weight[t][x] >= weight[t][e]
            OBVIOUS
          <6>1. weight[t][x] \in Nat /\ weight[t][d] \in Nat /\ weight[t][e] \in Nat
            BY <1>1
          <6>2. e = x \/ weight[t][d] >= weight[t][e]
            BY <4>1
          <6> QED  BY <4>3, <6>1, <6>2
        <5> QED  BY <5>1
      <4> QED  BY <4>2, <4>3
    <3> QED  BY <3>2, <3>3
  <2> QED  BY <2>1, <2>2
<1>4. Has(DocsOf(t))
  <2>1. Inductive(Good, DocsOf(t))
    BY <1>3 DEF Inductive
  <2> HIDE DEF Good
  <2>2. DocsOf(t) \in Good
    BY <1>1, <2>1, SubsetInduction
  <2> QED  BY <2>2 DEF Good
<1>5. \E w \in R : \A v \in R : w >= v
  BY <1>1, <1>4
<1> HIDE DEF R
<1>6. MaxWeight(t) \in R /\ \A v \in R : MaxWeight(t) >= v
  BY <1>5, Zenon DEF MaxWeight, R
<1>7. MaxWeight(t) \in Nat
  BY <1>2, <1>6
<1>8. ASSUME NEW d  PROVE WeightOf(t, d) <= MaxWeight(t)
  <2>1. CASE d \in DocsOf(t)
    <3>1. WeightOf(t, d) \in R /\ WeightOf(t, d) \in Nat
      BY <1>1, <2>1 DEF WeightOf
    <3> QED  BY <1>6, <1>7, <3>1
  <2>2. CASE d \notin DocsOf(t)
    <3>1. WeightOf(t, d) = 0
      BY <2>2 DEF WeightOf
    <3> QED  BY <1>7, <3>1
  <2> QED  BY <2>1, <2>2
<1> QED  BY <1>7, <1>8

-----------------------------------------------------------------------------
(* The order of the enumerators.                                             *)

(* Each of them is at one place.                                             *)
Permutes(s, S) ==
  /\ s \in Seq(S) /\ Len(s) = Cardinality(S)
  /\ \A j, l \in 1 .. Len(s) : s[j] = s[l] => j = l
  /\ \A x \in S : \E j \in 1 .. Len(s) : s[j] = x

LEMMA InjectionsPermute ==
  ASSUME NEW S, IsFiniteSet(S), NEW s \in [1 .. Cardinality(S) -> S],
         \A j, l \in 1 .. Cardinality(S) : j # l => s[j] # s[l]
  PROVE  Permutes(s, S)
<1> DEFINE n == Cardinality(S)
<1>1. n \in Nat
  BY FS_CardinalityType
<1>2. s \in Injection(1 .. n, S)
  BY DEF Injection, IsInjective
<1>3. IsFiniteSet(1 .. n) /\ Cardinality(1 .. n) = n
  BY <1>1, FS_Interval
<1>4. s \in Surjection(1 .. n, S)
  <2>1. Cardinality(1 .. n) = Cardinality(S)
    BY <1>3
  <2> HIDE DEF n
  <2> QED  BY <1>2, <2>1, FS_Injection
<1>5. \A x \in S : \E j \in 1 .. n : s[j] = x
  BY <1>4 DEF Surjection
<1>6. s \in Seq(S) /\ Len(s) = n
  <2> HIDE DEF n
  <2> QED  BY <1>1 DEF n
<1> QED  BY <1>5, <1>6 DEF Permutes

LEMMA SortingsPermute ==
  ASSUME IsFiniteSet(QueryTerms), NEW key, NEW s \in Sortings(key)
  PROVE  Permutes(s, QueryTerms)
BY InjectionsPermute DEF Sortings, SetToSeqs

LEMMA SetToSeqPermutes ==
  ASSUME NEW S, IsFiniteSet(S)
  PROVE  Permutes(SetToSeq(S), S)
<1>1. \E f \in [1 .. Cardinality(S) -> S] : IsInjective(f)
  <2>1. ExistsBijection(1 .. Cardinality(S), S)
    BY FS_CardinalityType
  <2> QED  BY <2>1 DEF ExistsBijection, Bijection, Injection
<1>2. SetToSeq(S) \in [1 .. Cardinality(S) -> S] /\ IsInjective(SetToSeq(S))
  BY <1>1, Zenon DEF SetToSeq
<1>3. \A j, l \in 1 .. Cardinality(S) : j # l => SetToSeq(S)[j] # SetToSeq(S)[l]
  BY <1>2 DEF IsInjective
<1> QED  BY <1>2, <1>3, InjectionsPermute

(* What no neighbours break, no two elements break.                          *)
LEMMA NeighboursSorted ==
  ASSUME NEW n \in Nat, NEW v \in [1 .. n -> Int],
         \A j \in 1 .. n - 1 : v[j] <= v[j + 1]
  PROVE  \A j, l \in 1 .. n : j <= l => v[j] <= v[l]
<1> DEFINE Good == {m \in Nat : \A j, l \in 1 .. n : j <= l /\ l <= j + m => v[j] <= v[l]}
<1>1. 0 \in Good
  <2>1. \A j, l \in 1 .. n : j <= l /\ l <= j + 0 => j = l
    OBVIOUS
  <2> QED  BY <2>1
<1>2. ASSUME NEW m \in Nat, m \in Good  PROVE m + 1 \in Good
  <2> SUFFICES ASSUME NEW j \in 1 .. n, NEW l \in 1 .. n, j <= l, l <= j + (m + 1)
               PROVE  v[j] <= v[l]
    OBVIOUS
  <2>1. CASE l <= j + m
    BY <1>2, <2>1
  <2>2. CASE l = j + (m + 1)
    <3>1. l - 1 \in 1 .. n /\ l - 1 \in 1 .. n - 1 /\ j <= l - 1 /\ l - 1 <= j + m
          /\ (l - 1) + 1 = l
      BY <2>2
    <3>2. v[j] <= v[l - 1]
      BY <1>2, <3>1
    <3>3. v[l - 1] <= v[l]
      BY <3>1
    <3>4. v[j] \in Int /\ v[l] \in Int /\ v[l - 1] \in Int
      BY <3>1
    <3> QED  BY <3>2, <3>3, <3>4
  <2> QED  BY <2>1, <2>2
<1>3. n \in Good
  <2> HIDE DEF Good
  <2> QED  BY <1>1, <1>2, NaturalInduction
<1> QED  BY <1>3

-----------------------------------------------------------------------------
(* Scores enumerator by enumerator.                                          *)

(* What the enumerators at some places add to the score of a document.       *)
PlacesScore(d, places) ==
  SumFunctionOnSet([j \in 1 .. Len(order) |-> WeightOf(order[j], d)], places)

Ordered == Permutes(order, QueryTerms)

LEMMA OrderFacts ==
  ASSUME Query, Ordered
  PROVE  /\ Len(order) \in Nat /\ Len(order) = Cardinality(QueryTerms)
         /\ IsFiniteSet(1 .. Len(order))
         /\ \A j \in 1 .. Len(order) : order[j] \in QueryTerms
<1>1. Len(order) \in Nat /\ Len(order) = Cardinality(QueryTerms)
  BY ListFacts DEF Ordered, Permutes
<1>2. IsFiniteSet(1 .. Len(order))
  BY <1>1, FS_Interval
<1>3. \A j \in 1 .. Len(order) : order[j] \in QueryTerms
  BY DEF Ordered, Permutes
<1> QED  BY <1>1, <1>2, <1>3

LEMMA PlacesScoreFacts ==
  ASSUME Query, Ordered, NEW d
  PROVE  /\ PlacesScore(d, {}) = 0
         /\ \A J \in SUBSET (1 .. Len(order)) : PlacesScore(d, J) \in Nat
         /\ \A J \in SUBSET (1 .. Len(order)) : \A j \in J :
              PlacesScore(d, J) = WeightOf(order[j], d) + PlacesScore(d, J \ {j})
         /\ \A J, K \in SUBSET (1 .. Len(order)) : J \cap K = {} =>
              PlacesScore(d, J \cup K) = PlacesScore(d, J) + PlacesScore(d, K)
<1> DEFINE f == [j \in 1 .. Len(order) |-> WeightOf(order[j], d)]
           P == 1 .. Len(order)
<1>1. IsFiniteSet(P) /\ \A j \in P : f[j] \in Nat /\ f[j] = WeightOf(order[j], d)
  BY OrderFacts, ListFacts
<1>2. \A J : PlacesScore(d, J) = SumFunctionOnSet(f, J)
  BY Zenon DEF PlacesScore
<1> HIDE DEF f, P
<1>3. /\ SumFunctionOnSet(f, {}) = 0
      /\ \A J \in SUBSET P : SumFunctionOnSet(f, J) \in Nat
      /\ \A J \in SUBSET P : \A j \in J :
           SumFunctionOnSet(f, J) = f[j] + SumFunctionOnSet(f, J \ {j})
  BY <1>1, SumFacts
<1>4. ASSUME NEW J \in SUBSET P, NEW K \in SUBSET P, J \cap K = {}
      PROVE  SumFunctionOnSet(f, J \cup K) = SumFunctionOnSet(f, J) + SumFunctionOnSet(f, K)
  BY <1>1, <1>4, SumOfUnion
<1>5. \A J \in SUBSET P : \A j \in J :
        PlacesScore(d, J) = WeightOf(order[j], d) + PlacesScore(d, J \ {j})
  BY <1>1, <1>2, <1>3
<1>6. PlacesScore(d, {}) = 0 /\ \A J \in SUBSET P : PlacesScore(d, J) \in Nat
  BY <1>2, <1>3
<1>7. \A J, K \in SUBSET P : J \cap K = {} =>
        PlacesScore(d, J \cup K) = PlacesScore(d, J) + PlacesScore(d, K)
  BY <1>2, <1>4
<1> QED  BY <1>5, <1>6, <1>7 DEF P

(* All the places together make the score.                                   *)
LEMMA ScoreByPlace ==
  ASSUME Query, Ordered, NEW d
  PROVE  Score(d) = PlacesScore(d, 1 .. Len(order))
<1> DEFINE f == [t \in QueryTerms |-> WeightOf(t, d)]
           g == [j \in 1 .. Len(order) |-> WeightOf(order[j], d)]
           at == [j \in 1 .. Len(order) |-> order[j]]
           place == [t \in QueryTerms |-> CHOOSE j \in 1 .. Len(order) : order[j] = t]
           P == 1 .. Len(order)
           Q == QueryTerms
<1>1. /\ IsFiniteSet(P) /\ IsFiniteSet(Q)
      /\ \A j \in P : order[j] \in Q
      /\ \A j, l \in P : order[j] = order[l] => j = l
      /\ \A t \in Q : \E j \in P : order[j] = t
  BY OrderFacts, ListFacts DEF Ordered, Permutes
<1>2. \A t \in Q : f[t] \in Nat
  BY ListFacts
<1>3. \A j \in P : g[j] \in Nat /\ g[j] = f[order[j]] /\ at[j] = order[j]
  BY <1>1, <1>2
<1>4. \A t \in Q : place[t] \in P /\ order[place[t]] = t
  BY <1>1
<1>5. Score(d) = SumFunctionOnSet(f, Q)
  BY ScoreFacts
<1>6. PlacesScore(d, P) = SumFunctionOnSet(g, P)
  BY Zenon DEF PlacesScore
<1> HIDE DEF f, g, at, place, P, Q
<1>7. Matched(f, Q, g, P, place)
  <2>1. \A t \in Q : place[t] \in P /\ f[t] <= g[place[t]]
    <3> SUFFICES ASSUME NEW t \in Q PROVE place[t] \in P /\ f[t] <= g[place[t]]
      OBVIOUS
    <3>1. place[t] \in P /\ g[place[t]] = f[t] /\ f[t] \in Nat
      BY <1>2, <1>3, <1>4
    <3> QED  BY <3>1
  <2>2. \A t, u \in Q : place[t] = place[u] => t = u
    BY <1>4
  <2> QED  BY <2>1, <2>2 DEF Matched
<1>8. Matched(g, P, f, Q, at)
  <2>1. \A j \in P : at[j] \in Q /\ g[j] <= f[at[j]]
    <3> SUFFICES ASSUME NEW j \in P PROVE at[j] \in Q /\ g[j] <= f[at[j]]
      OBVIOUS
    <3>1. at[j] \in Q /\ g[j] = f[at[j]] /\ g[j] \in Nat
      BY <1>1, <1>3
    <3> QED  BY <3>1
  <2>2. \A j, l \in P : at[j] = at[l] => j = l
    BY <1>1, <1>3
  <2> QED  BY <2>1, <2>2 DEF Matched
<1>9. SumFunctionOnSet(f, Q) <= SumFunctionOnSet(g, P)
  BY <1>1, <1>2, <1>3, <1>7, SumBound
<1>10. SumFunctionOnSet(g, P) <= SumFunctionOnSet(f, Q)
  BY <1>1, <1>2, <1>3, <1>8, SumBound
<1>11. SumFunctionOnSet(g, P) \in Nat /\ SumFunctionOnSet(f, Q) \in Nat
  <2>1. P \in SUBSET P /\ Q \in SUBSET Q
    OBVIOUS
  <2> QED  BY <1>1, <1>2, <1>3, <2>1, SumFacts
<1>12. Score(d) = PlacesScore(d, P)
  BY <1>5, <1>6, <1>9, <1>10, <1>11
<1> QED  BY <1>12 DEF P

(* The maxima of the first enumerators bound what these add.                 *)
LEMMA UpperBoundFacts ==
  ASSUME Query, Ordered, NEW n \in 0 .. Len(order)
  PROVE  /\ UpperBound(n) \in Nat
         /\ \A d : PlacesScore(d, 1 .. n) <= UpperBound(n)
<1> DEFINE g == [j \in 1 .. n |-> MaxWeight(order[j])]
           P == 1 .. n
           L == 1 .. Len(order)
<1>1. /\ IsFiniteSet(L) /\ P \in SUBSET L /\ IsFiniteSet(P)
      /\ \A j \in L : order[j] \in QueryTerms
  BY OrderFacts, FS_Subset
<1>2. \A j \in P : g[j] \in Nat /\ \A d : WeightOf(order[j], d) <= g[j]
  BY <1>1, MaxWeightFacts
<1>3. UpperBound(n) = SumFunctionOnSet(g, P)
  <2>1. DOMAIN g = P
    OBVIOUS
  <2>2. UpperBound(n) = SumFunctionOnSet(g, DOMAIN g)
    BY Zenon DEF UpperBound, SumFunction
  <2> HIDE DEF g, P
  <2> QED  BY <2>1, <2>2
<1> HIDE DEF g, P
<1>4. UpperBound(n) \in Nat
  <2>1. P \in SUBSET P /\ \A j \in P : g[j] \in Nat
    BY <1>2
  <2>2. SumFunctionOnSet(g, P) \in Nat
    BY <1>1, <2>1, SumFacts
  <2> QED  BY <1>3, <2>2
<1>5. ASSUME NEW d  PROVE PlacesScore(d, P) <= UpperBound(n)
  <2> DEFINE f == [j \in L |-> WeightOf(order[j], d)]
             same == [j \in P |-> j]
  <2>1. /\ \A j \in P : f[j] \in Nat /\ f[j] <= g[j] /\ same[j] = j
        /\ PlacesScore(d, P) = SumFunctionOnSet(f, P)
    <3>1. \A j \in P : f[j] = WeightOf(order[j], d) /\ f[j] \in Nat
      BY <1>1, ListFacts
    <3>2. PlacesScore(d, P) = SumFunctionOnSet(f, P)
      BY Zenon DEF PlacesScore
    <3> QED  BY <1>2, <3>1, <3>2
  <2> HIDE DEF f, same
  <2>2. Matched(f, P, g, P, same)
    BY <2>1 DEF Matched
  <2> QED  BY <1>1, <1>2, <1>3, <2>1, <2>2, SumBound
<1> QED  BY <1>4, <1>5 DEF P

(* Places that do not have the document add nothing.                         *)
LEMMA PlacesWithout ==
  ASSUME Query, Ordered, NEW d, NEW J \in SUBSET (1 .. Len(order)),
         \A j \in J : d \notin DocsOf(order[j])
  PROVE  PlacesScore(d, J) = 0
<1> DEFINE Good == {s \in SUBSET J : PlacesScore(d, s) = 0}
<1>1. ASSUME NEW s \in SUBSET J, \A x \in s : s \ {x} \in Good  PROVE s \in Good
  <2>1. CASE s = {}
    BY <2>1, PlacesScoreFacts
  <2>2. CASE s # {}
    <3>1. PICK x \in s : TRUE
      BY <2>2
    <3>2. PlacesScore(d, s) = WeightOf(order[x], d) + PlacesScore(d, s \ {x})
      <4>1. s \in SUBSET (1 .. Len(order))
        OBVIOUS
      <4> QED  BY <3>1, <4>1, PlacesScoreFacts, ZenonT(60)
    <3>3. WeightOf(order[x], d) = 0
      BY <3>1, OrderFacts, ListFacts
    <3>4. PlacesScore(d, s \ {x}) = 0
      BY <1>1, <3>1
    <3> QED  BY <3>2, <3>3, <3>4
  <2> QED  BY <2>1, <2>2
<1>2. IsFiniteSet(J)
  BY OrderFacts, FS_Subset
<1>3. Inductive(Good, J)
  BY <1>1 DEF Inductive
<1> HIDE DEF Good
<1>4. J \in Good
  BY <1>2, <1>3, SubsetInduction
<1> QED  BY <1>4 DEF Good

(* A document that only the first lists have scores at most their bound.     *)
LEMMA ScoreBound ==
  ASSUME Query, Ordered, NEW n \in 0 .. Len(order), NEW d,
         \A j \in n + 1 .. Len(order) : d \notin DocsOf(order[j])
  PROVE  Score(d) <= UpperBound(n)
<1> DEFINE J == 1 .. n
           K == n + 1 .. Len(order)
<1>1. Len(order) \in Nat /\ J \cup K = 1 .. Len(order) /\ J \cap K = {}
  BY OrderFacts
<1>2. J \in SUBSET (1 .. Len(order)) /\ K \in SUBSET (1 .. Len(order))
  BY <1>1
<1>3. Score(d) = PlacesScore(d, J \cup K)
  BY <1>1, ScoreByPlace
<1>4. \A j \in K : d \notin DocsOf(order[j])
  OBVIOUS
<1>5. PlacesScore(d, J) <= UpperBound(n) /\ UpperBound(n) \in Nat
  BY UpperBoundFacts
<1> HIDE DEF J, K
<1>6. PlacesScore(d, J \cup K) = PlacesScore(d, J) + PlacesScore(d, K)
  BY <1>1, <1>2, PlacesScoreFacts
<1>7. PlacesScore(d, K) = 0
  BY <1>2, <1>4, PlacesWithout
<1>8. PlacesScore(d, J) \in Nat
  BY <1>2, PlacesScoreFacts
<1> QED  BY <1>3, <1>5, <1>6, <1>7, <1>8

-----------------------------------------------------------------------------
(* What the invariants of the queries use most.                              *)

LEMMA GeqIs ==
  ASSUME Query, NEW t \in QueryTerms, NEW b \in Int
  PROVE  /\ Geq(t, b) \in DocsOf(t) \cup {NumDocs} /\ Geq(t, b) \in 0 .. NumDocs
         /\ Geq(t, b) >= b \/ Geq(t, b) = NumDocs
         /\ \A e \in DocsOf(t) : e >= b => Geq(t, b) <= e
         /\ b \in DocsOf(t) => Geq(t, b) = b
<1>1. /\ Geq(t, b) \in DocsOf(t) \cup {NumDocs}
      /\ Geq(t, b) >= b \/ Geq(t, b) = NumDocs
      /\ \A e \in DocsOf(t) : e >= b => Geq(t, b) <= e
  BY GeqFacts DEF IsFirstGeq
<1>2. DocsOf(t) \in SUBSET (0 .. NumDocs - 1) /\ NumDocs \in Nat
  BY ListFacts
<1> QED  BY <1>1, <1>2

(* Moving the bound up to where the enumerator is, or less, changes nothing. *)
LEMMA GeqStays ==
  ASSUME Query, NEW t \in QueryTerms, NEW b \in Int, NEW c \in Int,
         b <= c, c <= Geq(t, b)
  PROVE  Geq(t, c) = Geq(t, b)
<1>1. IsFirstGeq(Geq(t, b), DocsOf(t), NumDocs, b)
  BY GeqFacts
<1>2. DocsOf(t) \in SUBSET (0 .. NumDocs - 1) /\ NumDocs \in Nat
  BY ListFacts
<1>3. IsFirstGeq(Geq(t, b), DocsOf(t), NumDocs, c)
  BY <1>1, <1>2 DEF IsFirstGeq
<1> QED  BY <1>3, GeqFacts

LEMMA FirstIs ==
  ASSUME Query, NEW t \in QueryTerms
  PROVE  First(t) = Geq(t, 0) /\ First(t) \in DocsOf(t) /\ First(t) < NumDocs
<1>1. First(t) = Geq(t, 0)
  BY DEF First, Geq
<1>2. PICK e \in DocsOf(t) : e \in 0 .. NumDocs - 1
  BY ListFacts
<1>3. /\ Geq(t, 0) \in DocsOf(t) \cup {NumDocs}
      /\ e >= 0 => Geq(t, 0) <= e
  BY GeqIs
<1>4. NumDocs \in Nat /\ DocsOf(t) \in SUBSET (0 .. NumDocs - 1)
  BY ListFacts
<1> QED  BY <1>1, <1>2, <1>3, <1>4

(* A lower score enters no more than a higher one.                           *)
LEMMA EnteringLess ==
  ASSUME NEW size \in Nat \ {0}, NEW queue \in Queues(size), NEW s \in Nat, NEW r \in Nat,
         r <= s, ~WouldEnter(queue, size, s)
  PROVE  ~WouldEnter(queue, size, r)
<1>1. Len(queue) > 0 /\ Len(queue) = size /\ Ascending(queue)
  BY DEF WouldEnter, Queues
<1>2. Head(queue) \in Nat
  BY <1>1 DEF Ascending
<1> QED  BY <1>1, <1>2 DEF WouldEnter

(* Inserting a score.                                                        *)
LEMMA InsertFacts ==
  ASSUME NEW size \in Nat \ {0}, NEW queue \in Queues(size), NEW s \in Nat
  PROVE  /\ Insert(queue, size, s) \in Queues(size)
         /\ ~WouldEnter(queue, size, s) => Insert(queue, size, s) = queue
         /\ \A r \in Nat : ~WouldEnter(queue, size, r)
                             => ~WouldEnter(Insert(queue, size, s), size, r)
<1>1. Ascending(queue) /\ Len(queue) <= size
  BY DEF Queues
<1>2. /\ Ascending(Kept(queue, size, s)) /\ Len(Kept(queue, size, s)) <= size
      /\ Kept(queue, size, s) = Insert(queue, size, s)
      /\ ~WouldEnter(queue, size, s) => Kept(queue, size, s) = queue
  BY <1>1, KeptFacts
<1>3. \A r \in Nat : ~WouldEnter(queue, size, r) => ~WouldEnter(Kept(queue, size, s), size, r)
  BY <1>1, EnteringLater
<1> QED  BY <1>2, <1>3 DEF Queues, Ascending

LEMMA EmptyQueue ==
  ASSUME NEW size \in Nat
  PROVE  <<>> \in Queues(size)
BY DEF Queues, Ascending

-----------------------------------------------------------------------------
(* The invariant.                                                            *)

(* What the four operators have in common: the lists do not change, every    *)
(* enumerator is at one of its postings or at its end, and once the loop has *)
(* started each has one place in the order.                                  *)
Common ==
  /\ kind \in {"and", "or", "wand", "maxscore"}
  /\ Query
  /\ topk \in Queues(k)
  /\ docid \in [QueryTerms -> Nat]
  /\ \A t \in QueryTerms : docid[t] \in DocsOf(t) \cup {NumDocs}
  /\ pc # "start" /\ QueryTerms # {} => Ordered
  /\ QueryTerms = {} => order = <<>> /\ pc \in {"start", "done"}

(* Before the loop.                                                          *)
Fresh ==
  pc = "start" =>
    /\ order = <<>>
    /\ \A t \in QueryTerms : docid[t] = First(t)
    /\ i = 1 /\ results = 0 /\ candidate = NumDocs
    /\ cur_doc = NumDocs /\ next_doc = NumDocs /\ score = 0
    /\ non_essential = 0

AllBefore(doc) == {d \in AllTerms : d < doc}

AnyBefore(doc) == {d \in AnyTerm : d < doc}

(* and_query: what lies before the candidate is found, the enumerators moved *)
(* for it are at it, and none is past it unless it never moved.              *)
AndInv ==
  kind = "and" =>
    /\ pc \in {"start", "loop", "done"}
    /\ candidate \in 0 .. NumDocs
    /\ i \in 1 .. Cardinality(QueryTerms) + 1
    /\ pc # "start" =>
         results = Cardinality(AllBefore(candidate)) /\ topk = Best(AllBefore(candidate))
    /\ pc = "start" => results = 0
    /\ pc = "done" => candidate = NumDocs
    /\ pc = "loop" =>
         /\ i > 1 => docid[order[1]] = candidate
         /\ \A j \in 2 .. i - 1 : docid[order[j]] = candidate
         /\ \A t \in QueryTerms : docid[t] <= candidate \/ docid[t] = First(t)

(* or_query: the enumerators before i have passed cur_doc, the others are at *)
(* their first posting from it on, and next_doc is the least of what the     *)
(* first ones are at.                                                        *)
OrMoved(doc, n) ==
  /\ \A j \in 1 .. n - 1 : docid[order[j]] = Geq(order[j], doc + 1)
  /\ \A j \in n .. Len(order) : docid[order[j]] = Geq(order[j], doc)
  /\ \A j \in 1 .. n - 1 : next_doc <= docid[order[j]]
  /\ next_doc = NumDocs \/ \E j \in 1 .. n - 1 : next_doc = docid[order[j]]
  /\ score = PlacesScore(doc, 1 .. n - 1)

OrInv ==
  kind = "or" =>
    /\ pc \in {"start", "loop", "done"}
    /\ cur_doc \in AnyTerm \cup {NumDocs}
    /\ next_doc \in 0 .. NumDocs
    /\ i \in 1 .. Cardinality(QueryTerms) + 1
    /\ score \in Nat
    /\ pc # "start" =>
         results = Cardinality(AnyBefore(cur_doc)) /\ topk = Best(AnyBefore(cur_doc))
    /\ pc = "start" => results = 0
    /\ pc = "done" => cur_doc = NumDocs
    /\ pc = "loop" => OrMoved(cur_doc, i)

(* wand_query: the enumerators are sorted, what lies before the first is     *)
(* found, and what was jumped over cannot enter.                             *)
InOrder(s, key) == \A j, l \in 1 .. Len(s) : j <= l => key[s[j]] <= key[s[l]]

WandLoop(first) ==
  /\ topk = Best(AnyBefore(first))
  /\ \A d \in AnyTerm :
       d >= first /\ JumpedOver(d) => ~WouldEnter(topk, k, Score(d))

WandInv ==
  kind = "wand" =>
    /\ pc \in {"start", "loop", "done"}
    /\ pc = "loop" => InOrder(order, docid) /\ WandLoop(docid[order[1]])
    /\ pc = "done" => topk = Best(AnyTerm)

(* maxscore_query: the essential lists move as or_query's do; a non          *)
(* essential one has no posting between cur_doc and where it is, and all     *)
(* their maxima together cannot enter.                                       *)
EssentialMoved(doc, ne, n) ==
  /\ \A j \in ne + 1 .. n - 1 : docid[order[j]] = Geq(order[j], doc + 1)
  /\ \A j \in n .. Len(order) : docid[order[j]] = Geq(order[j], doc)
  /\ \A j \in ne + 1 .. n - 1 : next_doc <= docid[order[j]]
  /\ next_doc = NumDocs \/ \E j \in ne + 1 .. n - 1 : next_doc = docid[order[j]]

NonEssential(doc, ne) ==
  /\ ne > 0 => ~WouldEnter(topk, k, UpperBound(ne))
  /\ \A j \in 1 .. ne : docid[order[j]] > doc => docid[order[j]] = Geq(order[j], doc)

Completed(doc, n, ne) == \A j \in n + 1 .. ne : docid[order[j]] = Geq(order[j], doc)

MaxscoreInv ==
  kind = "maxscore" =>
    /\ pc \in {"start", "essential", "complete", "done"}
    /\ non_essential \in 0 .. Cardinality(QueryTerms)
    /\ cur_doc \in AnyTerm \cup {NumDocs}
    /\ next_doc \in 0 .. NumDocs
    /\ score \in Nat
    /\ i \in 0 .. Cardinality(QueryTerms) + 1
    /\ pc = "done" => topk = Best(AnyTerm)
    /\ pc \in {"essential", "complete"} =>
         topk = Best(AnyBefore(cur_doc)) /\ NonEssential(cur_doc, non_essential)
    /\ pc = "essential" =>
         /\ i > non_essential
         /\ EssentialMoved(cur_doc, non_essential, i)
         /\ score = PlacesScore(cur_doc, non_essential + 1 .. i - 1)
    /\ pc = "complete" =>
         /\ cur_doc \in AnyTerm
         /\ i <= non_essential
         /\ EssentialMoved(cur_doc, non_essential, Len(order) + 1)
         /\ Completed(cur_doc, i, non_essential)
         /\ score = PlacesScore(cur_doc, i + 1 .. Len(order))

QInv == Common /\ Fresh /\ AndInv /\ OrInv /\ WandInv /\ MaxscoreInv

-----------------------------------------------------------------------------
(* Steps.                                                                    *)

(* The query and the operator that answers it stay.                          *)
LEMMA QueryStays ==
  ASSUME [Next]_vars
  PROVE  weight' = weight /\ k' = k /\ kind' = kind
<1> USE DEF vars, queryVars
<1>1. CASE AndStep
  BY <1>1 DEF AndStep, AndNext, AndEmpty, EmptyQuery, AndStart, Probe, Match, AndFinish, Finalize
<1>2. CASE OrStep
  BY <1>2 DEF OrStep, OrNext, OrEmpty, EmptyQuery, OrStart, Visit, OrEndDoc, OrFinish, Finalize
<1>3. CASE WandStep
  BY <1>3 DEF WandStep, WandNext, EmptyQuery, WandStart, WandTurn, ScorePivot, AdvanceList,
              WandFinish, Finalize
<1>4. CASE MaxscoreStep
  BY <1>4 DEF MaxscoreStep, MaxscoreNext, MaxscoreEmpty, EmptyQuery, MaxscoreStart,
              VisitEssential, TurnBack, CompleteScore, MaxscoreEndDoc, MaxscoreFinish, Finalize
<1>5. CASE UNCHANGED vars
  BY <1>5
<1> QED  BY <1>1, <1>2, <1>3, <1>4, <1>5 DEF Next, Step, Returned

LEMMA CommonStays ==
  ASSUME Common, weight' = weight, k' = k, kind' = kind,
         topk' \in Queues(k),
         docid' \in [QueryTerms -> Nat],
         \A t \in QueryTerms : docid'[t] \in DocsOf(t) \cup {NumDocs},
         QueryTerms # {} => Permutes(order', QueryTerms),
         QueryTerms = {} => order' = <<>> /\ pc' = "done",
         pc' # "start"
  PROVE  Common' /\ Fresh'
<1>1. /\ QueryTerms' = QueryTerms /\ \A t : DocsOf(t)' = DocsOf(t)
  BY SameQuery
<1>2. Query'
  BY <1>1 DEF Common, Query
<1>3. Ordered' <=> Permutes(order', QueryTerms)
  BY <1>1 DEF Ordered
<1>4. Fresh'
  BY DEF Fresh
<1> QED  BY <1>1, <1>2, <1>3, <1>4 DEF Common

(* A document is found when it is next among those looked for.               *)
LEMMA OneMoreFound ==
  ASSUME Query, NEW docs \in SUBSET AnyTerm, NEW d \in docs, NEW e \in Nat, d < e,
         \A x \in docs : x > d => x >= e
  PROVE  LET before == {x \in docs : x < d}
             found == {x \in docs : x < e}
         IN  /\ Cardinality(before) \in Nat
             /\ Cardinality(found) = Cardinality(before) + 1
             /\ Best(before) \in Queues(k)
             /\ Best(found) = Insert(Best(before), k, Score(d))
<1> DEFINE before == {x \in docs : x < d}
           found == {x \in docs : x < e}
<1>1. AnyTerm \in SUBSET (0 .. NumDocs - 1) /\ IsFiniteSet(AnyTerm) /\ NumDocs \in Nat
  BY ListFacts
<1>2. found = before \cup {d}
  <2>1. \A x \in docs : x \in Nat
    BY <1>1
  <2> QED  BY <2>1
<1>3. d \in AnyTerm \ before /\ before \in SUBSET AnyTerm /\ d \notin before
  <2>1. d \in AnyTerm /\ d \in Nat /\ ~(d < d)
    BY <1>1
  <2> QED  BY <2>1
<1> HIDE DEF before, found
<1>4. IsFiniteSet(before) /\ Cardinality(before) \in Nat
  BY <1>1, <1>3, FS_Subset, FS_CardinalityType
<1>5. Cardinality(found) = Cardinality(before) + 1
  BY <1>2, <1>3, <1>4, FS_AddElement
<1>6. Scored(AnyTerm)
  BY ScoreFacts
<1>7. Best(before) \in Queues(k) /\ Best(found) = Insert(Best(before), k, Score(d))
  BY <1>2, <1>3, <1>6, BestWithOneMore
<1> QED  BY <1>4, <1>5, <1>7 DEF before, found

LEMMA NothingFound ==
  ASSUME Query
  PROVE  /\ Cardinality({}) = 0 /\ Best({}) = <<>> /\ <<>> \in Queues(k)
         /\ AllBefore(NumDocs) = AllTerms /\ AnyBefore(NumDocs) = AnyTerm
         /\ QueryTerms = {} => AnyTerm = {} /\ AllTerms = {}
<1>1. Scored(AnyTerm)
  BY ScoreFacts
<1>2. Best({}) = <<>>
  BY <1>1, BestFacts
<1>3. AllBefore(NumDocs) = AllTerms /\ AnyBefore(NumDocs) = AnyTerm
  <2>1. AnyTerm \in SUBSET (0 .. NumDocs - 1) /\ AllTerms \in SUBSET AnyTerm /\ NumDocs \in Nat
    BY ListFacts
  <2>2. \A d \in AnyTerm : d < NumDocs
    BY <2>1
  <2>3. \A d \in AllTerms : d < NumDocs
    BY <2>1, <2>2
  <2> QED  BY <2>2, <2>3 DEF AllBefore, AnyBefore
<1>4. QueryTerms = {} => AnyTerm = {} /\ AllTerms = {}
  BY DEF AnyTerm, AllTerms
<1>5. k \in Nat
  BY ListFacts
<1> QED  BY <1>2, <1>3, <1>4, <1>5, FS_EmptySet, EmptyQueue

-----------------------------------------------------------------------------
(* and_query.                                                                *)

(* What the rest of the invariant says of the state after a step.            *)
LEMMA AndNextState ==
  ASSUME QInv, AndStep,
         pc' \in {"loop", "done"},
         NEW c \in 0 .. NumDocs, candidate' = c,
         i' \in 1 .. Cardinality(QueryTerms) + 1,
         results' = Cardinality(AllBefore(c)), topk' = Best(AllBefore(c)),
         pc' = "done" => c = NumDocs,
         pc' = "loop" =>
           /\ i' > 1 => docid'[order'[1]] = c
           /\ \A j \in 2 .. i' - 1 : docid'[order'[j]] = c
           /\ \A t \in QueryTerms : docid'[t] <= c \/ docid'[t] = First(t)
  PROVE  AndInv' /\ OrInv' /\ WandInv' /\ MaxscoreInv'
<1>1. weight' = weight /\ k' = k /\ kind' = kind /\ kind = "and"
  <2>1. [Next]_vars
    BY DEF Next, Step
  <2> QED  BY <2>1, QueryStays DEF AndStep
<1>2. /\ QueryTerms' = QueryTerms /\ AllTerms' = AllTerms
      /\ \A t : First(t)' = First(t)
  BY <1>1, SameQuery
<1>3. AllBefore(candidate)' = AllBefore(c)
  BY <1>2 DEF AllBefore
<1>4. Best(AllBefore(candidate))' = Best(AllBefore(c))
  BY <1>1, <1>3, SameBest
<1>5. AndInv'
  BY <1>1, <1>2, <1>3, <1>4 DEF AndInv
<1>6. OrInv' /\ WandInv' /\ MaxscoreInv'
  BY <1>1 DEF OrInv, WandInv, MaxscoreInv
<1> QED  BY <1>5, <1>6

LEMMA AndEmptyKeeps ==
  ASSUME QInv, AndStep, AndEmpty  PROVE QInv'
<1> USE DEF AndEmpty, EmptyQuery
<1>1. weight' = weight /\ k' = k /\ kind' = kind /\ topk' = <<>> /\ kind = "and"
  BY DEF AndStep, Cleared
<1>2. Query /\ Common /\ docid \in [QueryTerms -> Nat]
      /\ \A t \in QueryTerms : docid[t] \in DocsOf(t) \cup {NumDocs}
  BY DEF QInv, Common
<1>3. /\ Cardinality({}) = 0 /\ Best({}) = <<>> /\ <<>> \in Queues(k)
      /\ AllBefore(NumDocs) = {}
  BY <1>2, NothingFound
<1>4. Common' /\ Fresh'
  BY <1>1, <1>2, <1>3, CommonStays DEF Common
<1>5. candidate' = NumDocs /\ results' = 0 /\ NumDocs \in 0 .. NumDocs
      /\ i' \in 1 .. Cardinality(QueryTerms) + 1
  BY <1>1, <1>2, ListFacts DEF QInv, Fresh, AndInv
<1>6. AndInv' /\ OrInv' /\ WandInv' /\ MaxscoreInv'
  BY <1>1, <1>3, <1>5, AndNextState
<1> QED  BY <1>4, <1>6 DEF QInv

LEMMA AndStartKeeps ==
  ASSUME QInv, AndStep, AndStart  PROVE QInv'
<1> USE DEF AndStart, NotEmpty
<1>1. weight' = weight /\ k' = k /\ kind' = kind /\ topk' = <<>> /\ kind = "and"
  BY DEF AndStep, Cleared
<1>2. /\ Query /\ Common /\ docid \in [QueryTerms -> Nat]
      /\ \A t \in QueryTerms : docid[t] \in DocsOf(t) \cup {NumDocs}
      /\ \A t \in QueryTerms : docid[t] = First(t)
      /\ IsFiniteSet(QueryTerms) /\ Cardinality(QueryTerms) \in Nat /\ NumDocs \in Nat
  BY ListFacts DEF QInv, Common, Fresh
<1>3. /\ Cardinality({}) = 0 /\ Best({}) = <<>> /\ <<>> \in Queues(k)
  BY <1>2, NothingFound
<1>4. Permutes(order', QueryTerms) /\ Cardinality(QueryTerms) # 0
  BY <1>2, SortingsPermute, FS_EmptySet
<1>5. Common' /\ Fresh'
  BY <1>1, <1>2, <1>3, <1>4, CommonStays
<1> DEFINE t1 == order'[1]
           c == docid[t1]
<1>6. t1 \in QueryTerms /\ c = First(t1)
  BY <1>2, <1>4 DEF Permutes
<1>7. AllBefore(c) = {}
  <2> SUFFICES ASSUME NEW d \in AllTerms, d < c PROVE FALSE
    BY DEF AllBefore
  <2>1. d \in DocsOf(t1)
    BY <1>6 DEF AllTerms
  <2>2. c = Geq(t1, 0) /\ DocsOf(t1) \in SUBSET (0 .. NumDocs - 1)
    BY <1>2, <1>6, FirstIs, ListFacts
  <2>3. d \in 0 .. NumDocs - 1 /\ d >= 0
    BY <1>2, <2>1, <2>2
  <2>4. Geq(t1, 0) <= d /\ Geq(t1, 0) \in 0 .. NumDocs
    BY <1>2, <1>6, <2>1, <2>3, GeqIs
  <2> HIDE DEF t1
  <2> QED  BY <2>2, <2>3, <2>4
<1>8. c \in 0 .. NumDocs
  BY <1>2, <1>6, FirstIs, GeqIs
<1>9. candidate' = c /\ results' = 0 /\ docid' = docid /\ i' = 2 /\ pc' = "loop"
  BY DEF AndStep, QInv, Fresh
<1>10. 2 \in 1 .. Cardinality(QueryTerms) + 1
  BY <1>2, <1>4
<1>11. \A t \in QueryTerms : docid'[t] = First(t)
  BY <1>2, <1>9
<1> HIDE DEF c
<1>12. AndInv' /\ OrInv' /\ WandInv' /\ MaxscoreInv'
  <2>1. docid'[order'[1]] = c
    BY <1>9 DEF c
  <2>2. \A j \in 2 .. i' - 1 : docid'[order'[j]] = c
    BY <1>9
  <2>3. results' = Cardinality(AllBefore(c)) /\ topk' = Best(AllBefore(c))
    BY <1>1, <1>3, <1>7, <1>9
  <2> QED  BY <1>8, <1>9, <1>10, <1>11, <2>1, <2>2, <2>3, AndNextState
<1> QED  BY <1>5, <1>12 DEF QInv

(* What holds at every turn of the loop, whatever the operator.              *)
LEMMA InLoop ==
  ASSUME Common, pc \notin {"start", "done"}
  PROVE  /\ Query /\ Ordered /\ QueryTerms # {}
         /\ topk \in Queues(k) /\ docid \in [QueryTerms -> Nat]
         /\ \A t \in QueryTerms : docid[t] \in DocsOf(t) \cup {NumDocs}
         /\ \A t \in QueryTerms : docid[t] \in 0 .. NumDocs
         /\ \A t \in QueryTerms : DocsOf(t) \in SUBSET (0 .. NumDocs - 1)
         /\ Len(order) \in Nat \ {0} /\ Len(order) = Cardinality(QueryTerms)
         /\ \A j \in 1 .. Len(order) : order[j] \in QueryTerms
         /\ \A j, l \in 1 .. Len(order) : order[j] = order[l] => j = l
         /\ \A t \in QueryTerms : \E j \in 1 .. Len(order) : order[j] = t
         /\ NumDocs \in Nat \ {0} /\ k \in Nat \ {0}
<1>1. /\ Query /\ Ordered /\ QueryTerms # {}
      /\ topk \in Queues(k) /\ docid \in [QueryTerms -> Nat]
      /\ \A t \in QueryTerms : docid[t] \in DocsOf(t) \cup {NumDocs}
  BY DEF Common
<1>2. /\ IsFiniteSet(QueryTerms) /\ NumDocs \in Nat \ {0} /\ k \in Nat \ {0}
      /\ \A t \in QueryTerms : DocsOf(t) \in SUBSET (0 .. NumDocs - 1)
  BY <1>1, ListFacts
<1>3. Cardinality(QueryTerms) # 0
  BY <1>1, <1>2, FS_EmptySet
<1>4. /\ Len(order) \in Nat /\ Len(order) = Cardinality(QueryTerms)
      /\ \A j \in 1 .. Len(order) : order[j] \in QueryTerms
  BY <1>1, OrderFacts
<1>5. \A t \in QueryTerms : docid[t] \in 0 .. NumDocs
  BY <1>1, <1>2
<1> QED  BY <1>1, <1>2, <1>3, <1>4, <1>5 DEF Ordered, Permutes

LEMMA ProbeKeeps ==
  ASSUME QInv, AndStep, Probe  PROVE QInv'
<1>1. weight' = weight /\ k' = k /\ kind' = kind /\ topk' = topk /\ order' = order
      /\ results' = results /\ pc' = "loop" /\ pc = "loop" /\ kind = "and"
      /\ candidate < NumDocs /\ i <= Len(order)
  BY DEF AndStep, Probe, AndSearching
<1>2. /\ Query /\ Ordered /\ QueryTerms # {}
      /\ topk \in Queues(k) /\ docid \in [QueryTerms -> Nat]
      /\ \A t \in QueryTerms : docid[t] \in DocsOf(t) \cup {NumDocs}
      /\ \A t \in QueryTerms : DocsOf(t) \in SUBSET (0 .. NumDocs - 1)
      /\ Len(order) \in Nat \ {0} /\ Len(order) = Cardinality(QueryTerms)
      /\ \A j \in 1 .. Len(order) : order[j] \in QueryTerms
      /\ \A j, l \in 1 .. Len(order) : order[j] = order[l] => j = l
      /\ NumDocs \in Nat \ {0}
  BY <1>1, InLoop DEF QInv
<1>3. /\ candidate \in 0 .. NumDocs /\ i \in 1 .. Len(order)
      /\ results = Cardinality(AllBefore(candidate)) /\ topk = Best(AllBefore(candidate))
      /\ i > 1 => docid[order[1]] = candidate
      /\ \A j \in 2 .. i - 1 : docid[order[j]] = candidate
      /\ \A t \in QueryTerms : docid[t] <= candidate \/ docid[t] = First(t)
  BY <1>1, <1>2 DEF QInv, AndInv
<1> DEFINE t1 == order[i]
           g == Geq(t1, candidate)
<1>4. t1 \in QueryTerms /\ candidate \in Int
  BY <1>2, <1>3
<1>5. /\ g \in DocsOf(t1) \cup {NumDocs} /\ g \in 0 .. NumDocs
      /\ g >= candidate
      /\ \A e \in DocsOf(t1) : e >= candidate => g <= e
  <2>1. /\ g \in DocsOf(t1) \cup {NumDocs} /\ g \in 0 .. NumDocs
        /\ g >= candidate \/ g = NumDocs
        /\ \A e \in DocsOf(t1) : e >= candidate => g <= e
    BY <1>2, <1>4, GeqIs
  <2> HIDE DEF g, t1
  <2> QED  BY <1>1, <1>2, <1>3, <2>1
<1>6. /\ docid' \in [QueryTerms -> Nat]
      /\ docid'[t1] = g
      /\ \A t \in QueryTerms \ {t1} : docid'[t] = docid[t]
  <2>1. docid' = [docid EXCEPT ![t1] = g]
    BY DEF Probe
  <2> HIDE DEF g, t1
  <2> QED  BY <1>2, <1>4, <1>5, <2>1
<1>7. /\ g # candidate => candidate' = g /\ i' = 1
      /\ g = candidate => candidate' = g /\ i' = i + 1
  <2>1. docid'[t1] # candidate => candidate' = docid'[t1] /\ i' = 1
    BY Zenon DEF Probe, Restart
  <2>2. docid'[t1] = candidate => candidate' = candidate /\ i' = i + 1
    BY Zenon DEF Probe, AndNextEnumerator
  <2> HIDE DEF g, t1
  <2> QED  BY <1>6, <2>1, <2>2
<1>8. Common' /\ Fresh'
  <2>1. docid' \in [QueryTerms -> Nat]
    BY <1>6
  <2>2. \A t \in QueryTerms : docid'[t] \in DocsOf(t) \cup {NumDocs}
    <3> HIDE DEF g, t1
    <3> QED  BY <1>2, <1>5, <1>6
  <2>3. Permutes(order', QueryTerms)
    BY <1>1, <1>2 DEF Ordered
  <2> QED  BY <1>1, <1>2, <2>1, <2>2, <2>3, CommonStays DEF QInv
<1>9. AllBefore(g) = AllBefore(candidate)
  <2> SUFFICES ASSUME NEW d \in AllTerms  PROVE d < g <=> d < candidate
    BY DEF AllBefore
  <2>1. d \in DocsOf(t1) /\ DocsOf(t1) \in SUBSET (0 .. NumDocs - 1)
    BY <1>2, <1>4 DEF AllTerms
  <2>2. d \in Int /\ (d >= candidate => g <= d)
    BY <1>2, <1>5, <2>1
  <2> HIDE DEF g, t1
  <2> QED  BY <1>3, <1>5, <2>2
<1> HIDE DEF g
<1>10. candidate' = g /\ i' \in {1, i + 1}
  BY <1>7
<1>11. i' > 1 => docid'[order'[1]] = g
  <2> SUFFICES ASSUME i' > 1 PROVE docid'[order[1]] = g
    BY <1>1
  <2>1. g = candidate /\ 1 \in 1 .. Len(order)
    BY <1>2, <1>7
  <2>2. CASE i = 1
    BY <1>6, <2>2
  <2>3. CASE i > 1
    <3>1. order[1] \in QueryTerms \ {t1}
      BY <1>2, <1>3, <2>1, <2>3
    <3> QED  BY <1>3, <1>6, <2>1, <2>3, <3>1
  <2> QED  BY <1>3, <2>2, <2>3
<1>12. \A j \in 2 .. i' - 1 : docid'[order'[j]] = g
  <2> SUFFICES ASSUME NEW j \in 2 .. i' - 1 PROVE docid'[order[j]] = g
    BY <1>1
  <2>1. i' = i + 1 /\ g = candidate /\ j \in 2 .. i
    <3>1. i' # 1
      <4> SUFFICES ASSUME i' = 1 PROVE FALSE
        OBVIOUS
      <4>1. j \in 2 .. 1 - 1
        OBVIOUS
      <4> QED  BY <4>1
    <3>2. i' = i + 1 /\ g = candidate
      BY <1>7, <3>1
    <3>3. j \in 2 .. (i + 1) - 1 /\ i \in Int
      BY <1>2, <1>3, <3>2
    <3> QED  BY <3>2, <3>3
  <2>2. CASE j = i
    BY <1>6, <2>2
  <2>3. CASE j < i
    <3>1. j \in 2 .. i - 1 /\ j \in 1 .. Len(order) /\ j # i
      BY <1>2, <1>3, <2>1, <2>3
    <3>2. order[j] \in QueryTerms \ {t1}
      BY <1>2, <1>3, <3>1
    <3> QED  BY <1>3, <1>6, <2>1, <3>1, <3>2
  <2> QED  BY <1>3, <2>1, <2>2, <2>3
<1>13. \A t \in QueryTerms : docid'[t] <= g \/ docid'[t] = First(t)
  <2> SUFFICES ASSUME NEW t \in QueryTerms PROVE docid'[t] <= g \/ docid'[t] = First(t)
    OBVIOUS
  <2>1. CASE t = t1
    <3> HIDE DEF t1
    <3> QED  BY <1>5, <1>6, <2>1
  <2>2. CASE t # t1
    <3>1. docid'[t] = docid[t] /\ docid[t] \in Nat
      BY <1>2, <1>6, <2>2
    <3> QED  BY <1>3, <1>5, <3>1
  <2> QED  BY <2>1, <2>2
<1>14. i' \in 1 .. Cardinality(QueryTerms) + 1
  BY <1>2, <1>3, <1>10
<1>15. results' = Cardinality(AllBefore(g)) /\ topk' = Best(AllBefore(g))
  BY <1>1, <1>3, <1>9
<1>16. AndInv' /\ OrInv' /\ WandInv' /\ MaxscoreInv'
  BY <1>1, <1>5, <1>10, <1>11, <1>12, <1>13, <1>14, <1>15, AndNextState
<1> QED  BY <1>8, <1>16 DEF QInv

LEMMA MatchKeeps ==
  ASSUME QInv, AndStep, Match  PROVE QInv'
<1>1. weight' = weight /\ k' = k /\ kind' = kind /\ order' = order
      /\ pc' = "loop" /\ pc = "loop" /\ kind = "and"
      /\ candidate < NumDocs /\ i > Len(order)
      /\ results' = results + 1 /\ topk' = Insert(topk, k, ScoreOfMatch)
      /\ i' = 2
  BY DEF AndStep, Match, AndSearching
<1>2. /\ Query /\ Ordered /\ QueryTerms # {}
      /\ topk \in Queues(k) /\ docid \in [QueryTerms -> Nat]
      /\ \A t \in QueryTerms : docid[t] \in DocsOf(t) \cup {NumDocs}
      /\ \A t \in QueryTerms : DocsOf(t) \in SUBSET (0 .. NumDocs - 1)
      /\ Len(order) \in Nat \ {0} /\ Len(order) = Cardinality(QueryTerms)
      /\ \A j \in 1 .. Len(order) : order[j] \in QueryTerms
      /\ \A t \in QueryTerms : \E j \in 1 .. Len(order) : order[j] = t
      /\ NumDocs \in Nat \ {0} /\ k \in Nat \ {0}
  BY <1>1, InLoop DEF QInv
<1>3. /\ candidate \in 0 .. NumDocs /\ i = Len(order) + 1
      /\ results = Cardinality(AllBefore(candidate)) /\ topk = Best(AllBefore(candidate))
      /\ i > 1 => docid[order[1]] = candidate
      /\ \A j \in 2 .. i - 1 : docid[order[j]] = candidate
      /\ \A t \in QueryTerms : docid[t] <= candidate \/ docid[t] = First(t)
  BY <1>1, <1>2 DEF QInv, AndInv
<1> DEFINE t1 == order[1]
           g == Geq(t1, candidate + 1)
<1>4. t1 \in QueryTerms /\ candidate \in Nat /\ candidate + 1 \in Int
  BY <1>2, <1>3
<1>5. ASSUME NEW t \in QueryTerms  PROVE docid[t] = candidate /\ candidate \in DocsOf(t)
  <2>1. PICK j \in 1 .. Len(order) : order[j] = t
    BY <1>2
  <2>2. CASE j = 1
    BY <1>1, <1>2, <1>3, <2>1, <2>2
  <2>3. CASE j # 1
    <3>1. j \in 2 .. i - 1
      BY <1>2, <1>3, <2>1, <2>3
    <3> QED  BY <1>1, <1>2, <1>3, <2>1, <3>1
  <2> QED  BY <2>2, <2>3
<1>6. candidate \in AllTerms
  BY <1>4, <1>5 DEF AllTerms, AnyTerm
<1>7. ScoreOfMatch = Score(candidate)
  <2>1. [t \in QueryTerms |-> WeightOf(t, docid[t])]
          = [t \in QueryTerms |-> WeightOf(t, candidate)]
    BY <1>5
  <2> QED  BY <2>1, Zenon DEF ScoreOfMatch, Score
<1>8. /\ g \in DocsOf(t1) \cup {NumDocs} /\ g \in 0 .. NumDocs /\ g > candidate
      /\ \A e \in DocsOf(t1) : e >= candidate + 1 => g <= e
  <2>1. /\ g \in DocsOf(t1) \cup {NumDocs} /\ g \in 0 .. NumDocs
        /\ g >= candidate + 1 \/ g = NumDocs
        /\ \A e \in DocsOf(t1) : e >= candidate + 1 => g <= e
    BY <1>2, <1>4, GeqIs
  <2> HIDE DEF g, t1
  <2> QED  BY <1>1, <1>2, <1>4, <2>1
<1>9. /\ docid' \in [QueryTerms -> Nat]
      /\ docid'[t1] = g /\ candidate' = g
      /\ \A t \in QueryTerms \ {t1} : docid'[t] = docid[t]
  <2>1. docid' = [docid EXCEPT ![t1] = g] /\ candidate' = docid'[t1]
    <3>1. docid[t1] = candidate
      BY <1>4, <1>5
    <3> QED  BY <3>1 DEF Match, AfterMatch, After, Geq
  <2> HIDE DEF g, t1
  <2> QED  BY <1>2, <1>4, <1>8, <2>1
<1> DEFINE found == {x \in AllTerms : x < g}
<1>10. /\ Cardinality(AllBefore(candidate)) \in Nat
       /\ Cardinality(found) = Cardinality(AllBefore(candidate)) + 1
       /\ Best(found) = Insert(Best(AllBefore(candidate)), k, Score(candidate))
  <2>1. AllTerms \in SUBSET AnyTerm
    BY <1>2, ListFacts
  <2>2. \A x \in AllTerms : x > candidate => x >= g
    <3> SUFFICES ASSUME NEW x \in AllTerms, x > candidate PROVE x >= g
      OBVIOUS
    <3>1. x \in DocsOf(t1) /\ x \in Int
      BY <1>2, <1>4 DEF AllTerms
    <3>2. x >= candidate + 1
      BY <1>4, <3>1
    <3>3. g <= x
      BY <1>8, <3>1, <3>2
    <3> HIDE DEF g, t1
    <3> QED  BY <1>8, <3>1, <3>3
  <2>3. g \in Nat /\ candidate < g
    <3> HIDE DEF g, t1
    <3> QED  BY <1>2, <1>4, <1>8
  <2> HIDE DEF g
  <2> QED  BY <1>2, <1>6, <2>1, <2>2, <2>3, OneMoreFound, ZenonT(60) DEF AllBefore
<1>11. found = AllBefore(g)
  BY DEF AllBefore
<1> HIDE DEF found
<1>12. results' = Cardinality(AllBefore(g)) /\ topk' = Best(AllBefore(g))
  BY <1>1, <1>3, <1>7, <1>10, <1>11
<1>13. \A t \in QueryTerms : docid'[t] \in DocsOf(t) \cup {NumDocs}
  <2> HIDE DEF g, t1
  <2> QED  BY <1>2, <1>8, <1>9
<1>14. topk' \in Queues(k)
  <2>1. Score(candidate) \in Nat
    BY <1>2, ScoreFacts
  <2> QED  BY <1>1, <1>2, <1>7, <2>1, InsertFacts
<1>15. Common' /\ Fresh'
  <2>1. Permutes(order', QueryTerms)
    BY <1>1, <1>2 DEF Ordered
  <2>2. docid' \in [QueryTerms -> Nat]
    BY <1>9
  <2> QED  BY <1>1, <1>2, <1>13, <1>14, <2>1, <2>2, CommonStays DEF QInv
<1>16. \A t \in QueryTerms : docid'[t] <= g \/ docid'[t] = First(t)
  <2> SUFFICES ASSUME NEW t \in QueryTerms PROVE docid'[t] <= g
    OBVIOUS
  <2>1. docid'[t] = g \/ docid'[t] = candidate
    BY <1>5, <1>9
  <2> HIDE DEF g
  <2> QED  BY <1>4, <1>8, <2>1
<1>17. 2 \in 1 .. Cardinality(QueryTerms) + 1
  BY <1>2
<1>18. \A j \in 2 .. i' - 1 : docid'[order'[j]] = g
  BY <1>1
<1>19. docid'[order'[1]] = g
  BY <1>1, <1>9
<1> HIDE DEF g, t1
<1>20. AndInv' /\ OrInv' /\ WandInv' /\ MaxscoreInv'
  BY <1>1, <1>8, <1>9, <1>12, <1>16, <1>17, <1>18, <1>19, AndNextState
<1> QED  BY <1>15, <1>20 DEF QInv

LEMMA AndFinishKeeps ==
  ASSUME QInv, AndStep, AndFinish  PROVE QInv'
<1>1. weight' = weight /\ k' = k /\ kind' = kind /\ order' = order /\ docid' = docid
      /\ pc' = "done" /\ pc = "loop" /\ kind = "and" /\ candidate = NumDocs
      /\ topk' = topk /\ candidate' = candidate /\ i' = i /\ results' = results
  BY DEF AndStep, AndFinish, Finalize
<1>2. /\ Query /\ Ordered /\ QueryTerms # {} /\ NumDocs \in Nat
      /\ topk \in Queues(k) /\ docid \in [QueryTerms -> Nat]
      /\ \A t \in QueryTerms : docid[t] \in DocsOf(t) \cup {NumDocs}
  BY <1>1, InLoop DEF QInv
<1>3. /\ i \in 1 .. Cardinality(QueryTerms) + 1
      /\ results = Cardinality(AllBefore(candidate)) /\ topk = Best(AllBefore(candidate))
  BY <1>1 DEF QInv, AndInv
<1>4. Common' /\ Fresh'
  BY <1>1, <1>2, CommonStays DEF QInv, Ordered
<1>5. AndInv' /\ OrInv' /\ WandInv' /\ MaxscoreInv'
  BY <1>1, <1>2, <1>3, AndNextState
<1> QED  BY <1>4, <1>5 DEF QInv

LEMMA AndKeeps ==
  ASSUME QInv, AndStep  PROVE QInv'
<1>1. AndEmpty \/ AndStart \/ Probe \/ Match \/ AndFinish
  BY DEF AndStep, AndNext
<1> QED  BY <1>1, AndEmptyKeeps, AndStartKeeps, ProbeKeeps, MatchKeeps, AndFinishKeeps

-----------------------------------------------------------------------------
(* or_query.                                                                 *)

LEMMA OrNextState ==
  ASSUME QInv, OrStep,
         pc' \in {"loop", "done"},
         NEW c \in AnyTerm \cup {NumDocs}, cur_doc' = c,
         next_doc' \in 0 .. NumDocs, score' \in Nat,
         NEW n \in 1 .. Cardinality(QueryTerms) + 1, i' = n,
         results' = Cardinality(AnyBefore(c)), topk' = Best(AnyBefore(c)),
         pc' = "done" => c = NumDocs,
         pc' = "loop" => OrMoved(c, n)',
         kind = "or"
  PROVE  AndInv' /\ OrInv' /\ WandInv' /\ MaxscoreInv'
<1>1. weight' = weight /\ k' = k /\ kind' = kind
  <2>1. [Next]_vars
    BY DEF Next, Step
  <2> QED  BY <2>1, QueryStays
<1>2. /\ QueryTerms' = QueryTerms /\ AnyTerm' = AnyTerm
      /\ \A t, d : Geq(t, d)' = Geq(t, d)
  BY <1>1, SameQuery
<1>3. AnyBefore(cur_doc)' = AnyBefore(c)
  BY <1>2 DEF AnyBefore
<1>4. Best(AnyBefore(cur_doc))' = Best(AnyBefore(c))
  BY <1>1, <1>3, SameBest
<1>5. /\ pc' \in {"start", "loop", "done"}
      /\ cur_doc' \in AnyTerm' \cup {NumDocs}
      /\ next_doc' \in 0 .. NumDocs
      /\ i' \in 1 .. Cardinality(QueryTerms') + 1
      /\ score' \in Nat /\ pc' # "start"
      /\ results' = Cardinality(AnyBefore(cur_doc)') /\ topk' = Best(AnyBefore(cur_doc))'
      /\ pc' = "done" => cur_doc' = NumDocs
  BY <1>2, <1>3, <1>4
<1>6. pc' = "loop" => OrMoved(cur_doc, i)'
  BY DEF OrMoved, PlacesScore
<1>8. OrInv'
  BY <1>5, <1>6 DEF OrInv
<1>9. AndInv' /\ WandInv' /\ MaxscoreInv'
  BY <1>1 DEF AndInv, WandInv, MaxscoreInv
<1> QED  BY <1>8, <1>9

LEMMA SamePlaces ==
  ASSUME weight' = weight, order' = order
  PROVE  \A d, J : PlacesScore(d, J)' = PlacesScore(d, J)
BY Zenon DEF PlacesScore, WeightOf, DocsOf

BoundIn(lists, enums, n) ==
  SumFunction([j \in 1 .. n |->
    CHOOSE w \in Range(lists[enums[j]]) : \A v \in Range(lists[enums[j]]) : w >= v])

LEMMA SameBound ==
  ASSUME weight' = weight, order' = order
  PROVE  \A n : UpperBound(n)' = UpperBound(n)
<1>1. ASSUME NEW n  PROVE UpperBound(n)' = UpperBound(n)
  <2>1. UpperBound(n) = BoundIn(weight, order, n)
    BY Zenon DEF UpperBound, MaxWeight, BoundIn
  <2>2. UpperBound(n)' = BoundIn(weight', order', n)
    BY Zenon DEF UpperBound, MaxWeight, BoundIn
  <2> QED  BY <2>1, <2>2
<1> QED  BY <1>1

LEMMA OrEmptyKeeps ==
  ASSUME QInv, OrStep, OrEmpty  PROVE QInv'
<1>1. weight' = weight /\ k' = k /\ kind' = kind /\ topk' = <<>> /\ kind = "or"
      /\ pc = "start" /\ pc' = "done" /\ QueryTerms = {} /\ order' = order /\ docid' = docid
      /\ cur_doc' = cur_doc /\ next_doc' = next_doc /\ i' = i /\ score' = score
      /\ results' = results
  BY DEF OrStep, OrEmpty, EmptyQuery, orVars, Cleared
<1>2. Query /\ Common /\ docid \in [QueryTerms -> Nat] /\ NumDocs \in Nat
      /\ \A t \in QueryTerms : docid[t] \in DocsOf(t) \cup {NumDocs}
  BY ListFacts DEF QInv, Common
<1>3. /\ Cardinality({}) = 0 /\ Best({}) = <<>> /\ <<>> \in Queues(k)
      /\ AnyBefore(NumDocs) = {}
  BY <1>1, <1>2, NothingFound
<1>4. Common' /\ Fresh'
  BY <1>1, <1>2, <1>3, CommonStays DEF Common
<1>5. cur_doc' = NumDocs /\ results' = 0 /\ next_doc' \in 0 .. NumDocs /\ score' \in Nat
      /\ i' \in 1 .. Cardinality(QueryTerms) + 1
  BY <1>1, <1>2 DEF QInv, Fresh, OrInv
<1>6. AndInv' /\ OrInv' /\ WandInv' /\ MaxscoreInv'
  BY <1>1, <1>3, <1>5, OrNextState
<1> QED  BY <1>4, <1>6 DEF QInv

(* The first document of any list.                                           *)
LEMMA MinDocidFacts ==
  ASSUME Query, QueryTerms # {}, docid \in [QueryTerms -> Nat],
         \A t \in QueryTerms : docid[t] = First(t)
  PROVE  /\ MinDocid \in AnyTerm /\ AnyBefore(MinDocid) = {}
         /\ \A t \in QueryTerms : docid[t] = Geq(t, MinDocid)
<1>1. \E d \in Range(docid) : \A t \in QueryTerms : d <= docid[t]
  <2>1. Range(docid) \in SUBSET Nat /\ Range(docid) # {}
        /\ \A t \in QueryTerms : docid[t] \in Range(docid)
    BY DEF Range
  <2>2. PICK d \in Range(docid) : \A e \in Range(docid) : d <= e
    BY <2>1, LeastNatural
  <2> QED  BY <2>1, <2>2
<1>2. MinDocid \in Range(docid) /\ \A t \in QueryTerms : MinDocid <= docid[t]
  BY <1>1, Zenon DEF MinDocid
<1>3. PICK u \in QueryTerms : MinDocid = docid[u]
  BY <1>2 DEF Range
<1>4. \A t \in QueryTerms : /\ docid[t] = Geq(t, 0)
                            /\ DocsOf(t) \in SUBSET (0 .. NumDocs - 1)
  BY FirstIs, ListFacts
<1>5. MinDocid \in AnyTerm
  BY <1>3, FirstIs DEF AnyTerm
<1>6. MinDocid \in Nat
  BY <1>3
<1>7. AnyBefore(MinDocid) = {}
  <2> SUFFICES ASSUME NEW d \in AnyTerm, d < MinDocid PROVE FALSE
    BY DEF AnyBefore
  <2>1. PICK t \in QueryTerms : d \in DocsOf(t)
    BY DEF AnyTerm
  <2>2. d \in Nat /\ NumDocs \in Nat
    BY <1>4, <2>1, ListFacts
  <2>3. Geq(t, 0) <= d /\ Geq(t, 0) \in Nat
    BY <2>1, <2>2, GeqIs
  <2>4. MinDocid <= Geq(t, 0)
    BY <1>2, <1>4
  <2> QED  BY <1>6, <2>2, <2>3, <2>4
<1>8. ASSUME NEW t \in QueryTerms  PROVE docid[t] = Geq(t, MinDocid)
  <2>1. MinDocid <= Geq(t, 0) /\ 0 <= MinDocid
    BY <1>2, <1>4, <1>6
  <2> QED  BY <1>4, <1>6, <2>1, GeqStays
<1> QED  BY <1>5, <1>7, <1>8

LEMMA OrStartKeeps ==
  ASSUME QInv, OrStep, OrStart  PROVE QInv'
<1>1. weight' = weight /\ k' = k /\ kind' = kind /\ topk' = <<>> /\ kind = "or"
      /\ pc = "start" /\ pc' = "loop" /\ QueryTerms # {} /\ docid' = docid
      /\ order' = SetToSeq(QueryTerms)
      /\ cur_doc' = MinDocid /\ next_doc' = NumDocs /\ i' = i /\ score' = score
      /\ results' = results
  BY DEF OrStep, OrStart, NotEmpty, Cleared
<1>2. /\ Query /\ Common /\ docid \in [QueryTerms -> Nat] /\ NumDocs \in Nat
      /\ \A t \in QueryTerms : docid[t] \in DocsOf(t) \cup {NumDocs}
      /\ \A t \in QueryTerms : docid[t] = First(t)
      /\ IsFiniteSet(QueryTerms) /\ Cardinality(QueryTerms) \in Nat
      /\ i = 1 /\ results = 0 /\ score = 0
  BY <1>1, ListFacts DEF QInv, Common, Fresh
<1>3. Permutes(order', QueryTerms)
  BY <1>1, <1>2, SetToSeqPermutes
<1>4. /\ Cardinality({}) = 0 /\ Best({}) = <<>> /\ <<>> \in Queues(k)
  BY <1>2, NothingFound
<1>5. Common' /\ Fresh'
  BY <1>1, <1>2, <1>3, <1>4, CommonStays
<1>6. /\ MinDocid \in AnyTerm /\ AnyBefore(MinDocid) = {}
      /\ \A t \in QueryTerms : docid[t] = Geq(t, MinDocid)
  BY <1>1, <1>2, MinDocidFacts
<1>7. PICK c : c = MinDocid
  OBVIOUS
<1>8. /\ c \in AnyTerm \cup {NumDocs} /\ cur_doc' = c
      /\ next_doc' \in 0 .. NumDocs /\ next_doc' = NumDocs
      /\ 1 \in 1 .. Cardinality(QueryTerms) + 1 /\ i' = 1 /\ score' = 0 /\ score' \in Nat
      /\ results' = Cardinality(AnyBefore(c)) /\ topk' = Best(AnyBefore(c))
  <2>1. c \in AnyTerm /\ AnyBefore(c) = {}
    BY <1>6, <1>7
  <2>2. i' = 1 /\ score' = 0 /\ results' = 0
    BY <1>1, <1>2
  <2>3. 1 \in 1 .. Cardinality(QueryTerms) + 1 /\ NumDocs \in 0 .. NumDocs
    BY <1>2
  <2>4. cur_doc' = c /\ next_doc' = NumDocs /\ topk' = <<>>
    BY <1>1, <1>7
  <2> QED  BY <1>4, <2>1, <2>2, <2>3, <2>4
<1>9. \A j \in 1 .. Len(order') : docid'[order'[j]] = Geq(order'[j], c)
  BY <1>1, <1>3, <1>6, <1>7 DEF Permutes
<1>10. score' = PlacesScore(c, 1 .. 1 - 1)'
  <2> DEFINE f == [j \in 1 .. Len(order) |-> WeightOf(order[j], c)]
  <2>1. IsFiniteSet({}) /\ {} \in SUBSET {} /\ \A x \in {} : f'[x] \in Nat
    BY FS_EmptySet
  <2>2. SumFunctionOnSet(f', {}) = 0
    <3> HIDE DEF f
    <3> QED  BY <2>1, SumFacts
  <2>3. 1 .. 1 - 1 = {}
    OBVIOUS
  <2>4. PlacesScore(c, {})' = 0
    BY <2>2, Zenon DEF PlacesScore
  <2> QED  BY <1>8, <2>3, <2>4
<1>11. OrMoved(c, 1)'
  <2>1. /\ \A t, d : Geq(t, d)' = Geq(t, d)
        /\ next_doc' = NumDocs
    BY <1>1, SameQuery
  <2>2. \A j \in 1 .. Len(order') : docid'[order'[j]] = Geq(order[j], c)'
    BY <1>9, <2>1
  <2>3. \A j \in 1 .. 1 - 1 : FALSE
    OBVIOUS
  <2> QED  BY <1>10, <2>1, <2>2, <2>3 DEF OrMoved
<1>12. AndInv' /\ OrInv' /\ WandInv' /\ MaxscoreInv'
  BY <1>1, <1>8, <1>11, OrNextState
<1> QED  BY <1>5, <1>12 DEF QInv

(* A list that does not have the document is at the same place for the next. *)
LEMMA GeqAfter ==
  ASSUME Query, NEW t \in QueryTerms, NEW d \in Nat, Geq(t, d) # d
  PROVE  Geq(t, d + 1) = Geq(t, d) /\ WeightOf(t, d) = 0
<1>1. d \notin DocsOf(t)
  BY GeqIs
<1>2. /\ Geq(t, d) \in 0 .. NumDocs /\ NumDocs \in Nat
      /\ Geq(t, d) >= d \/ Geq(t, d) = NumDocs
  BY GeqIs, ListFacts
<1>3. CASE Geq(t, d) >= d
  <2>1. d <= d + 1 /\ d + 1 <= Geq(t, d)
    BY <1>2, <1>3
  <2> QED  BY <1>1, <2>1, GeqStays, ListFacts
<1>4. CASE Geq(t, d) < d /\ Geq(t, d) = NumDocs
  <2>1. \A e \in DocsOf(t) : e \in Nat /\ e < NumDocs
    BY <1>2, ListFacts
  <2>2. IsFirstGeq(NumDocs, DocsOf(t), NumDocs, d + 1)
    BY <1>2, <1>4, <2>1 DEF IsFirstGeq
  <2>3. NumDocs = Geq(t, d + 1)
    BY <2>2, GeqFacts
  <2> QED  BY <1>1, <1>4, <2>3, ListFacts
<1> QED  BY <1>2, <1>3, <1>4

(* One enumerator more has been looked at.                                   *)
LEMMA NextPlace ==
  ASSUME Query, Ordered, NEW d, NEW m \in 1 .. Len(order), NEW n \in 1 .. m
  PROVE  /\ PlacesScore(d, n .. m) = WeightOf(order[m], d) + PlacesScore(d, n .. m - 1)
         /\ PlacesScore(d, n .. m - 1) \in Nat
         /\ PlacesScore(d, n .. m) = WeightOf(order[n], d) + PlacesScore(d, n + 1 .. m)
         /\ PlacesScore(d, n + 1 .. m) \in Nat
<1>1. Len(order) \in Nat
  BY OrderFacts
<1>2. /\ n .. m \in SUBSET (1 .. Len(order)) /\ n .. m - 1 \in SUBSET (1 .. Len(order))
      /\ n + 1 .. m \in SUBSET (1 .. Len(order))
  BY <1>1
<1>3. m \in n .. m /\ n \in n .. m
  BY <1>1
<1>4. (n .. m) \ {m} = n .. m - 1 /\ (n .. m) \ {n} = n + 1 .. m
  BY <1>1
<1>5. PlacesScore(d, n .. m) = WeightOf(order[m], d) + PlacesScore(d, (n .. m) \ {m})
  BY <1>2, <1>3, PlacesScoreFacts, ZenonT(60)
<1>6. PlacesScore(d, n .. m) = WeightOf(order[n], d) + PlacesScore(d, (n .. m) \ {n})
  BY <1>2, <1>3, PlacesScoreFacts, ZenonT(60)
<1>7. PlacesScore(d, n .. m - 1) \in Nat /\ PlacesScore(d, n + 1 .. m) \in Nat
  BY <1>2, PlacesScoreFacts
<1> QED  BY <1>4, <1>5, <1>6, <1>7

LEMMA VisitKeeps ==
  ASSUME QInv, OrStep, Visit  PROVE QInv'
<1>1. weight' = weight /\ k' = k /\ kind' = kind /\ topk' = topk /\ kind = "or"
      /\ pc = "loop" /\ pc' = "loop" /\ order' = order /\ cur_doc < NumDocs
      /\ i <= Len(order) /\ i' = i + 1
      /\ cur_doc' = cur_doc /\ results' = results
  BY DEF OrStep, Visit, OrSearching, OrNextEnumerator
<1>2. /\ Query /\ Ordered /\ QueryTerms # {}
      /\ topk \in Queues(k) /\ docid \in [QueryTerms -> Nat]
      /\ \A t \in QueryTerms : docid[t] \in DocsOf(t) \cup {NumDocs}
      /\ \A t \in QueryTerms : docid[t] \in 0 .. NumDocs
      /\ Len(order) \in Nat \ {0} /\ Len(order) = Cardinality(QueryTerms)
      /\ \A j \in 1 .. Len(order) : order[j] \in QueryTerms
      /\ \A j, l \in 1 .. Len(order) : order[j] = order[l] => j = l
      /\ NumDocs \in Nat \ {0}
  BY <1>1, InLoop DEF QInv
<1>3. PICK c : c = cur_doc
  OBVIOUS
<1>4. PICK n : n = i
  OBVIOUS
<1>5. /\ c \in AnyTerm \cup {NumDocs} /\ n \in 1 .. Len(order)
      /\ next_doc \in 0 .. NumDocs /\ score \in Nat
      /\ results = Cardinality(AnyBefore(c)) /\ topk = Best(AnyBefore(c))
      /\ OrMoved(c, n)
  BY <1>1, <1>2, <1>3, <1>4 DEF QInv, OrInv
<1>6. /\ \A j \in 1 .. n - 1 : docid[order[j]] = Geq(order[j], c + 1)
      /\ \A j \in n .. Len(order) : docid[order[j]] = Geq(order[j], c)
      /\ \A j \in 1 .. n - 1 : next_doc <= docid[order[j]]
      /\ next_doc = NumDocs \/ \E j \in 1 .. n - 1 : next_doc = docid[order[j]]
      /\ score = PlacesScore(c, 1 .. n - 1)
  BY <1>5 DEF OrMoved
<1>7. c \in Nat /\ c < NumDocs /\ n \in Nat
  BY <1>1, <1>2, <1>3, <1>5, ListFacts
<1> DEFINE t1 == order[n]
           g == Geq(t1, c + 1)
<1>8. t1 \in QueryTerms /\ docid[t1] = Geq(t1, c)
  <2>1. n \in n .. Len(order)
    BY <1>2, <1>5
  <2> QED  BY <1>2, <1>5, <1>6, <2>1
<1>9. g \in DocsOf(t1) \cup {NumDocs} /\ g \in 0 .. NumDocs
  <2>1. c + 1 \in Int
    BY <1>7
  <2> HIDE DEF t1
  <2> QED  BY <1>2, <1>8, <2>1, GeqIs
<1>10. /\ docid' \in [QueryTerms -> Nat]
       /\ docid'[t1] = g
       /\ \A t \in QueryTerms \ {t1} : docid'[t] = docid[t]
       /\ score' = score + WeightOf(t1, c)
  <2>1. CASE docid[t1] = c
    <3>1. docid' = [docid EXCEPT ![t1] = g] /\ score' = score + WeightOf(t1, c)
      <4>1. OrAfterDoc(t1) = g
        BY <2>1 DEF OrAfterDoc, After, Geq
      <4> QED  BY <1>3, <1>4, <2>1, <4>1, Zenon DEF Visit
    <3> HIDE DEF t1, g
    <3> QED  BY <1>2, <1>8, <1>9, <3>1
  <2>2. CASE docid[t1] # c
    <3>1. docid' = docid /\ score' = score
      BY <1>3, <1>4, <2>2, Zenon DEF Visit
    <3>2. g = docid[t1] /\ WeightOf(t1, c) = 0
      BY <1>2, <1>7, <1>8, <2>2, GeqAfter
    <3> HIDE DEF t1, g
    <3> QED  BY <1>2, <1>5, <3>1, <3>2
  <2> QED  BY <2>1, <2>2
<1>11. next_doc' = IF g < next_doc THEN g ELSE next_doc
  <2>1. next_doc' = IF docid'[t1] < next_doc THEN docid'[t1] ELSE next_doc
    BY <1>4, Zenon DEF Visit, LookedAt
  <2> QED  BY <1>10, <2>1
<1>12. Common' /\ Fresh'
  <2>1. docid' \in [QueryTerms -> Nat] /\ topk' \in Queues(k) /\ pc' # "start"
    BY <1>1, <1>2, <1>10
  <2>2. \A t \in QueryTerms : docid'[t] \in DocsOf(t) \cup {NumDocs}
    <3> HIDE DEF g, t1
    <3> QED  BY <1>2, <1>9, <1>10
  <2>3. Permutes(order', QueryTerms)
    BY <1>1, <1>2 DEF Ordered
  <2> QED  BY <1>1, <1>2, <2>1, <2>2, <2>3, CommonStays DEF QInv
<1>13. ASSUME NEW j \in 1 .. Len(order), j # n  PROVE docid'[order[j]] = docid[order[j]]
  <2>1. order[j] \in QueryTerms \ {t1}
    BY <1>2, <1>5, <1>13
  <2> QED  BY <1>10, <2>1
<1>14. docid'[order[n]] = g
  BY <1>10
<1>15. \A j \in 1 .. n : docid'[order[j]] = Geq(order[j], c + 1) /\ next_doc' <= docid'[order[j]]
  <2> SUFFICES ASSUME NEW j \in 1 .. n
               PROVE  docid'[order[j]] = Geq(order[j], c + 1) /\ next_doc' <= docid'[order[j]]
    OBVIOUS
  <2>1. CASE j = n
    <3> HIDE DEF g
    <3>1. docid'[order[j]] = g /\ next_doc' <= g
      BY <1>5, <1>9, <1>11, <1>14, <2>1
    <3> QED  BY <2>1, <3>1 DEF g
  <2>2. CASE j # n
    <3>1. j \in 1 .. n - 1 /\ j \in 1 .. Len(order)
      BY <1>2, <1>5, <2>2
    <3>2. docid'[order[j]] = docid[order[j]]
      BY <1>13, <2>2, <3>1
    <3>3. docid[order[j]] = Geq(order[j], c + 1) /\ next_doc <= docid[order[j]]
          /\ docid[order[j]] \in Nat
      BY <1>2, <1>6, <3>1
    <3> HIDE DEF g
    <3>4. next_doc' <= next_doc /\ next_doc' \in Nat
      BY <1>5, <1>9, <1>11
    <3>5. next_doc' <= docid[order[j]]
      BY <1>5, <3>3, <3>4
    <3> QED  BY <3>2, <3>3, <3>5
  <2> QED  BY <2>1, <2>2
<1>16. \A j \in n + 1 .. Len(order) : docid'[order[j]] = Geq(order[j], c)
  <2> SUFFICES ASSUME NEW j \in n + 1 .. Len(order) PROVE docid'[order[j]] = Geq(order[j], c)
    OBVIOUS
  <2>1. j \in 1 .. Len(order) /\ j # n /\ j \in n .. Len(order)
    BY <1>2, <1>5
  <2> QED  BY <1>6, <1>13, <2>1
<1>17. next_doc' = NumDocs \/ \E j \in 1 .. n : next_doc' = docid'[order[j]]
  <2>1. CASE g < next_doc
    <3>1. n \in 1 .. n /\ next_doc' = docid'[order[n]]
      BY <1>7, <1>5, <1>11, <1>14, <2>1
    <3> QED  BY <3>1
  <2>2. CASE ~(g < next_doc) /\ next_doc # NumDocs
    <3>1. PICK j \in 1 .. n - 1 : next_doc = docid[order[j]]
      BY <1>6, <2>2
    <3>2. j \in 1 .. Len(order) /\ j # n /\ j \in 1 .. n
      BY <1>2, <1>5
    <3>3. next_doc' = docid'[order[j]]
      BY <1>11, <1>13, <2>2, <3>1, <3>2
    <3> QED  BY <3>2, <3>3
  <2>3. CASE ~(g < next_doc) /\ next_doc = NumDocs
    BY <1>11, <2>3
  <2> QED  BY <2>1, <2>2, <2>3
<1>18. score' = PlacesScore(c, 1 .. n)
  <2>1. 1 \in 1 .. n
    BY <1>5, <1>7
  <2>2. PlacesScore(c, 1 .. n) = WeightOf(t1, c) + PlacesScore(c, 1 .. n - 1)
    BY <1>2, <1>5, <2>1, NextPlace
  <2>3. WeightOf(t1, c) \in Nat
    BY <1>2, <1>8, ListFacts
  <2> QED  BY <1>5, <1>6, <1>10, <2>2, <2>3
<1>19. (n + 1) - 1 = n /\ n + 1 \in 1 .. Cardinality(QueryTerms) + 1
  BY <1>2, <1>5
<1>20. OrMoved(c, n + 1)'
  <2>1. \A t, d : Geq(t, d)' = Geq(t, d)
    BY <1>1, SameQuery
  <2>2. PlacesScore(c, 1 .. n)' = PlacesScore(c, 1 .. n)
    BY <1>1, SamePlaces
  <2> HIDE DEF g
  <2> QED  BY <1>1, <1>15, <1>16, <1>17, <1>18, <1>19, <2>1, <2>2 DEF OrMoved
<1>21. next_doc' \in 0 .. NumDocs /\ score' \in Nat
  <2>1. WeightOf(t1, c) \in Nat
    BY <1>2, <1>8, ListFacts
  <2> HIDE DEF g
  <2> QED  BY <1>5, <1>9, <1>10, <1>11, <2>1
<1>22. i' = n + 1 /\ cur_doc' = c
  BY <1>1, <1>3, <1>4
<1>23. AndInv' /\ OrInv' /\ WandInv' /\ MaxscoreInv'
  BY <1>1, <1>5, <1>19, <1>20, <1>21, <1>22, OrNextState
<1> QED  BY <1>12, <1>23 DEF QInv

LEMMA OrEndDocKeeps ==
  ASSUME QInv, OrStep, OrEndDoc  PROVE QInv'
<1>1. weight' = weight /\ k' = k /\ kind' = kind /\ kind = "or"
      /\ pc = "loop" /\ pc' = "loop" /\ order' = order /\ docid' = docid
      /\ cur_doc < NumDocs /\ i > Len(order) /\ i' = 1
      /\ cur_doc' = next_doc /\ results' = results + 1 /\ topk' = Insert(topk, k, score)
      /\ next_doc' = NumDocs /\ score' = 0
  BY DEF OrStep, OrEndDoc, OrSearching, ScoreForNext
<1>2. /\ Query /\ Ordered /\ QueryTerms # {}
      /\ topk \in Queues(k) /\ docid \in [QueryTerms -> Nat]
      /\ \A t \in QueryTerms : docid[t] \in DocsOf(t) \cup {NumDocs}
      /\ \A t \in QueryTerms : DocsOf(t) \in SUBSET (0 .. NumDocs - 1)
      /\ Len(order) \in Nat \ {0} /\ Len(order) = Cardinality(QueryTerms)
      /\ \A j \in 1 .. Len(order) : order[j] \in QueryTerms
      /\ \A t \in QueryTerms : \E j \in 1 .. Len(order) : order[j] = t
      /\ NumDocs \in Nat \ {0} /\ k \in Nat \ {0}
  BY <1>1, InLoop DEF QInv
<1>3. PICK c : c = cur_doc
  OBVIOUS
<1>4. PICK e : e = next_doc
  OBVIOUS
<1> DEFINE N == Len(order)
<1>5. /\ c \in AnyTerm \cup {NumDocs} /\ i = N + 1
      /\ e \in 0 .. NumDocs /\ score \in Nat
      /\ results = Cardinality(AnyBefore(c)) /\ topk = Best(AnyBefore(c))
      /\ OrMoved(c, N + 1)
  <2>1. i \in 1 .. N + 1 /\ i > N
    BY <1>1, <1>2 DEF QInv, OrInv
  <2>2. i = N + 1
    BY <1>2, <2>1, SMTT(30)
  <2> QED  BY <1>1, <1>3, <1>4, <2>2 DEF QInv, OrInv
<1>6. (N + 1) - 1 = N
  BY <1>2
<1>7. /\ \A j \in 1 .. N : docid[order[j]] = Geq(order[j], c + 1) /\ e <= docid[order[j]]
      /\ e = NumDocs \/ \E j \in 1 .. N : e = docid[order[j]]
      /\ score = PlacesScore(c, 1 .. N)
  BY <1>4, <1>5, <1>6 DEF OrMoved
<1>8. c \in Nat /\ c < NumDocs /\ c \in AnyTerm /\ c + 1 \in Int
  BY <1>1, <1>2, <1>3, <1>5, ListFacts
<1>9. \A t \in QueryTerms : docid[t] = Geq(t, c + 1) /\ e <= docid[t]
  BY <1>2, <1>7
<1>10. e \in AnyTerm \cup {NumDocs} /\ c < e /\ e \in Nat
  <2>1. CASE e = NumDocs
    BY <1>2, <1>8, <2>1
  <2>2. CASE e # NumDocs
    <3>1. PICK j \in 1 .. N : e = docid[order[j]]
      BY <1>7, <2>2
    <3>2. order[j] \in QueryTerms /\ e \in DocsOf(order[j])
      BY <1>2, <2>2, <3>1
    <3>3. e = Geq(order[j], c + 1)
      BY <1>7, <3>1
    <3>4. e >= c + 1
      BY <1>2, <1>8, <2>2, <3>2, <3>3, GeqIs
    <3> QED  BY <1>5, <1>8, <3>2, <3>4 DEF AnyTerm
  <2> QED  BY <2>1, <2>2
<1>11. \A x \in AnyTerm : x > c => x >= e
  <2> SUFFICES ASSUME NEW x \in AnyTerm, x > c PROVE x >= e
    OBVIOUS
  <2>1. PICK t \in QueryTerms : x \in DocsOf(t)
    BY DEF AnyTerm
  <2>2. x \in Int /\ x >= c + 1
    BY <1>2, <1>8, <2>1
  <2>3. Geq(t, c + 1) <= x /\ Geq(t, c + 1) \in 0 .. NumDocs
    BY <1>2, <1>8, <2>1, <2>2, GeqIs
  <2>4. e <= Geq(t, c + 1)
    BY <1>9
  <2> QED  BY <1>2, <1>10, <2>2, <2>3, <2>4
<1>12. score = Score(c)
  BY <1>2, <1>7, ScoreByPlace
<1>13. /\ Cardinality(AnyBefore(c)) \in Nat
       /\ Cardinality(AnyBefore(e)) = Cardinality(AnyBefore(c)) + 1
       /\ Best(AnyBefore(e)) = Insert(Best(AnyBefore(c)), k, Score(c))
  <2>1. AnyTerm \in SUBSET AnyTerm
    OBVIOUS
  <2>2. Query /\ c \in AnyTerm /\ e \in Nat /\ c < e
    BY <1>2, <1>8, <1>10
  <2> QED  BY <1>11, <2>1, <2>2, OneMoreFound DEF AnyBefore
<1>14. results' = Cardinality(AnyBefore(e)) /\ topk' = Best(AnyBefore(e))
  BY <1>1, <1>5, <1>12, <1>13
<1>15. Common' /\ Fresh'
  <2>1. topk' \in Queues(k)
    BY <1>1, <1>2, <1>5, InsertFacts
  <2>2. Permutes(order', QueryTerms)
    BY <1>1, <1>2 DEF Ordered
  <2> QED  BY <1>1, <1>2, <2>1, <2>2, CommonStays DEF QInv
<1>16. OrMoved(e, 1)'
  <2>1. ASSUME NEW j \in 1 .. N  PROVE docid[order[j]] = Geq(order[j], e)
    <3>1. order[j] \in QueryTerms
      BY <1>2
    <3>2. docid[order[j]] = Geq(order[j], c + 1) /\ e <= docid[order[j]]
      BY <1>7
    <3>3. c + 1 <= e /\ e <= Geq(order[j], c + 1) /\ e \in Int
      BY <1>8, <1>10, <3>2
    <3> QED  BY <1>2, <1>8, <3>1, <3>2, <3>3, GeqStays
  <2>2. \A t, d : Geq(t, d)' = Geq(t, d)
    BY <1>1, SameQuery
  <2>3. PlacesScore(e, 1 .. 1 - 1)' = 0
    <3>1. PlacesScore(e, {}) = 0 /\ 1 .. 1 - 1 = {}
      BY <1>2, PlacesScoreFacts
    <3>2. PlacesScore(e, {})' = PlacesScore(e, {})
      BY <1>1, SamePlaces
    <3> QED  BY <3>1, <3>2
  <2>4. \A j \in 1 .. 1 - 1 : FALSE
    OBVIOUS
  <2> QED  BY <1>1, <2>1, <2>2, <2>3, <2>4 DEF OrMoved
<1>17. 1 \in 1 .. Cardinality(QueryTerms) + 1 /\ next_doc' \in 0 .. NumDocs /\ score' \in Nat
  BY <1>1, <1>2
<1>18. cur_doc' = e
  BY <1>1, <1>4
<1>19. AndInv' /\ OrInv' /\ WandInv' /\ MaxscoreInv'
  BY <1>1, <1>10, <1>14, <1>16, <1>17, <1>18, OrNextState
<1> QED  BY <1>15, <1>19 DEF QInv

LEMMA OrFinishKeeps ==
  ASSUME QInv, OrStep, OrFinish  PROVE QInv'
<1>1. weight' = weight /\ k' = k /\ kind' = kind /\ kind = "or"
      /\ pc = "loop" /\ pc' = "done" /\ order' = order /\ docid' = docid
      /\ cur_doc = NumDocs /\ cur_doc' = cur_doc /\ next_doc' = next_doc /\ i' = i
      /\ score' = score /\ results' = results /\ topk' = topk
  BY DEF OrStep, OrFinish, Finalize, orVars
<1>2. /\ Query /\ Ordered /\ QueryTerms # {} /\ NumDocs \in Nat
      /\ topk \in Queues(k) /\ docid \in [QueryTerms -> Nat]
      /\ \A t \in QueryTerms : docid[t] \in DocsOf(t) \cup {NumDocs}
  BY <1>1, InLoop DEF QInv
<1>3. /\ i \in 1 .. Cardinality(QueryTerms) + 1
      /\ next_doc \in 0 .. NumDocs /\ score \in Nat
      /\ results = Cardinality(AnyBefore(NumDocs)) /\ topk = Best(AnyBefore(NumDocs))
  BY <1>1 DEF QInv, OrInv
<1>4. Common' /\ Fresh'
  BY <1>1, <1>2, CommonStays DEF QInv, Ordered
<1>5. PICK n : n = i
  OBVIOUS
<1>6. AndInv' /\ OrInv' /\ WandInv' /\ MaxscoreInv'
  <2>1. NumDocs \in AnyTerm \cup {NumDocs} /\ cur_doc' = NumDocs /\ i' = n
        /\ n \in 1 .. Cardinality(QueryTerms) + 1 /\ next_doc' \in 0 .. NumDocs
        /\ score' \in Nat /\ results' = Cardinality(AnyBefore(NumDocs))
        /\ topk' = Best(AnyBefore(NumDocs)) /\ pc' \in {"loop", "done"} /\ pc' # "loop"
    BY <1>1, <1>3, <1>5
  <2> QED  BY <1>1, <2>1, OrNextState
<1> QED  BY <1>4, <1>6 DEF QInv

LEMMA OrKeeps ==
  ASSUME QInv, OrStep  PROVE QInv'
<1>1. OrEmpty \/ OrStart \/ Visit \/ OrEndDoc \/ OrFinish
  BY DEF OrStep, OrNext
<1> QED  BY <1>1, OrEmptyKeeps, OrStartKeeps, VisitKeeps, OrEndDocKeeps, OrFinishKeeps

-----------------------------------------------------------------------------
(* wand_query: bubbling one enumerator down.                                 *)

(* s with its element at n moved to the place last, after those that were    *)
(* between.                                                                  *)
MovedBack(s, n, last) ==
  [j \in 1 .. Len(s) |-> IF j < n \/ j > last THEN s[j] ELSE IF j = last THEN s[n] ELSE s[j + 1]]

(* Cutting the element out and putting it after last is moving it there.     *)
LEMMA CutAndMoved ==
  ASSUME NEW S, NEW s \in Seq(S), NEW n \in 1 .. Len(s), NEW last \in n .. Len(s)
  PROVE  SubSeq(s, 1, n - 1) \o SubSeq(s, n + 1, last) \o <<s[n]>>
           \o SubSeq(s, last + 1, Len(s)) = MovedBack(s, n, last)
<1> DEFINE a == SubSeq(s, 1, n - 1)
           b == SubSeq(s, n + 1, last)
           c == <<s[n]>>
           d == SubSeq(s, last + 1, Len(s))
           N == Len(s)
<1>1. N \in Nat /\ n \in Nat /\ last \in Nat /\ s[n] \in S
  OBVIOUS
<1>2. a \in Seq(S) /\ Len(a) = n - 1 /\ \A j \in 1 .. n - 1 : a[j] = s[j]
  BY <1>1
<1>3. b \in Seq(S) /\ Len(b) = last - n /\ \A j \in 1 .. last - n : b[j] = s[n + j]
  BY <1>1
<1>4. c \in Seq(S) /\ Len(c) = 1 /\ c[1] = s[n]
  BY <1>1
<1>5. d \in Seq(S) /\ Len(d) = N - last /\ \A j \in 1 .. N - last : d[j] = s[last + j]
  BY <1>1
<1> HIDE DEF a, b, c, d
<1> DEFINE ab == a \o b
           abc == ab \o c
           all == abc \o d
<1>6. /\ ab \in Seq(S) /\ Len(ab) = last - 1
      /\ \A j \in 1 .. last - 1 : ab[j] = IF j < n THEN s[j] ELSE s[j + 1]
  <2>1. /\ ab \in Seq(S) /\ Len(ab) = Len(a) + Len(b)
        /\ \A j \in 1 .. Len(a) + Len(b) : ab[j] = IF j <= Len(a) THEN a[j] ELSE b[j - Len(a)]
    BY <1>2, <1>3, ConcatProperties
  <2> HIDE DEF ab, N
  <2>2. Len(a) + Len(b) = last - 1
    BY <1>1, <1>2, <1>3
  <2>3. ASSUME NEW j \in 1 .. last - 1  PROVE ab[j] = IF j < n THEN s[j] ELSE s[j + 1]
    <3>1. CASE j < n
      <4>1. j \in 1 .. n - 1 /\ j <= Len(a) /\ j \in 1 .. Len(a) + Len(b)
        BY <1>1, <1>2, <2>2, <3>1
      <4> QED  BY <1>2, <2>1, <3>1, <4>1
    <3>2. CASE ~(j < n)
      <4>1. /\ ~(j <= Len(a)) /\ j \in 1 .. Len(a) + Len(b)
            /\ j - Len(a) \in 1 .. last - n /\ n + (j - Len(a)) = j + 1
        BY <1>1, <1>2, <2>2, <3>2
      <4>2. ab[j] = b[j - Len(a)]
        BY <2>1, <4>1
      <4> QED  BY <1>3, <3>2, <4>1, <4>2
    <3> QED  BY <3>1, <3>2
  <2> QED  BY <2>1, <2>2, <2>3
<1> HIDE DEF ab
<1>7. /\ abc \in Seq(S) /\ Len(abc) = last /\ abc[last] = s[n]
      /\ \A j \in 1 .. last - 1 : abc[j] = ab[j]
  <2>1. /\ abc \in Seq(S) /\ Len(abc) = Len(ab) + Len(c)
        /\ \A j \in 1 .. Len(ab) + Len(c) : abc[j] = IF j <= Len(ab) THEN ab[j] ELSE c[j - Len(ab)]
    BY <1>4, <1>6, ConcatProperties
  <2> HIDE DEF abc, N
  <2>2. Len(ab) + Len(c) = last /\ last - Len(ab) = 1 /\ last \in 1 .. last
        /\ ~(last <= Len(ab))
    BY <1>1, <1>4, <1>6
  <2>3. abc[last] = s[n]
    BY <1>4, <2>1, <2>2
  <2>4. ASSUME NEW j \in 1 .. last - 1  PROVE abc[j] = ab[j]
    <3>1. j \in 1 .. Len(ab) + Len(c) /\ j <= Len(ab)
      BY <1>1, <1>6, <2>2
    <3> QED  BY <2>1, <3>1
  <2> QED  BY <2>1, <2>2, <2>3, <2>4
<1> HIDE DEF abc
<1>8. /\ all \in Seq(S) /\ Len(all) = N
      /\ \A j \in 1 .. last : all[j] = abc[j]
      /\ \A j \in last + 1 .. N : all[j] = s[j]
  <2>1. /\ all \in Seq(S) /\ Len(all) = Len(abc) + Len(d)
        /\ \A j \in 1 .. Len(abc) + Len(d) : all[j] = IF j <= Len(abc) THEN abc[j] ELSE d[j - Len(abc)]
    <3>1. abc \in Seq(S) /\ d \in Seq(S)
      BY <1>5, <1>7
    <3> HIDE DEF d
    <3> QED  BY <3>1, ConcatProperties, ZenonT(60)
  <2>2. Len(abc) + Len(d) = N /\ last <= N
    BY <1>1, <1>5, <1>7
  <2> HIDE DEF all, N
  <2>3. \A j \in 1 .. last : all[j] = abc[j]
    BY <1>1, <1>7, <2>1, <2>2
  <2>4. ASSUME NEW j \in last + 1 .. N  PROVE all[j] = s[j]
    <3>1. j \in 1 .. Len(abc) + Len(d) /\ ~(j <= Len(abc)) /\ j - Len(abc) \in 1 .. N - last
          /\ last + (j - Len(abc)) = j
      BY <1>1, <1>7, <2>2
    <3> QED  BY <1>5, <2>1, <3>1
  <2> QED  BY <2>1, <2>2, <2>3, <2>4
<1> HIDE DEF all
<1>9. ASSUME NEW j \in 1 .. N  PROVE all[j] = MovedBack(s, n, last)[j]
  <2>1. MovedBack(s, n, last)[j] =
          IF j < n \/ j > last THEN s[j] ELSE IF j = last THEN s[n] ELSE s[j + 1]
    BY DEF MovedBack
  <2>2. CASE j > last
    BY <1>1, <1>8, <2>1, <2>2
  <2>3. CASE j = last
    BY <1>1, <1>7, <1>8, <2>1, <2>3
  <2>4. CASE j < last
    <3>1. j \in 1 .. last - 1 /\ j \in 1 .. last
      BY <1>1, <2>4
    <3> QED  BY <1>1, <1>6, <1>7, <1>8, <2>1, <2>4, <3>1
  <2> QED  BY <1>1, <2>2, <2>3, <2>4
<1>10. all = [j \in 1 .. N |-> all[j]]
  BY <1>8
<1>11. MovedBack(s, n, last) = [j \in 1 .. N |-> MovedBack(s, n, last)[j]]
  BY DEF MovedBack
<1>12. all = MovedBack(s, n, last)
  <2> HIDE DEF N
  <2> QED  BY <1>9, <1>10, <1>11
<1> QED  BY <1>12 DEF all, abc, ab, a, b, c, d

(* Moved, every element still has one place.                                 *)
LEMMA MovedPermutes ==
  ASSUME NEW S, NEW s, Permutes(s, S), NEW n \in 1 .. Len(s), NEW last \in n .. Len(s)
  PROVE  Permutes(MovedBack(s, n, last), S)
<1> DEFINE w == MovedBack(s, n, last)
           N == Len(s)
<1>1. /\ s \in Seq(S) /\ N \in Nat /\ N = Cardinality(S) /\ n \in Nat /\ last \in Nat
      /\ \A j, l \in 1 .. N : s[j] = s[l] => j = l
      /\ \A x \in S : \E j \in 1 .. N : s[j] = x
  BY DEF Permutes
<1> DEFINE from(j) == IF j < n \/ j > last THEN j ELSE IF j = last THEN n ELSE j + 1
<1>2. \A j \in 1 .. N : from(j) \in 1 .. N /\ w[j] = s[from(j)]
  <2> SUFFICES ASSUME NEW j \in 1 .. N PROVE from(j) \in 1 .. N /\ w[j] = s[from(j)]
    OBVIOUS
  <2>1. w[j] = IF j < n \/ j > last THEN s[j] ELSE IF j = last THEN s[n] ELSE s[j + 1]
    BY DEF MovedBack
  <2> HIDE DEF w
  <2> QED  BY <1>1, <2>1
<1>3. w = [j \in 1 .. N |-> w[j]]
  BY DEF MovedBack
<1>4. ASSUME NEW j \in 1 .. N  PROVE w[j] \in S
  <2>1. from(j) \in 1 .. N /\ w[j] = s[from(j)]
    BY <1>2
  <2> HIDE DEF w, from
  <2>2. s[from(j)] \in S
    BY <1>1, <2>1
  <2> QED  BY <2>1, <2>2
<1>5. w \in Seq(S) /\ Len(w) = N
  <2> HIDE DEF w
  <2>1. w \in [1 .. N -> S]
    BY <1>3, <1>4
  <2> QED  BY <1>1, <2>1
<1>6. ASSUME NEW j \in 1 .. N, NEW l \in 1 .. N, w[j] = w[l]  PROVE j = l
  <2>1. from(j) = from(l)
    <3> HIDE DEF w, from
    <3> QED  BY <1>1, <1>2, <1>6
  <2> QED  BY <1>1, <2>1
<1>7. ASSUME NEW x \in S  PROVE \E j \in 1 .. N : w[j] = x
  <2>1. PICK m \in 1 .. N : s[m] = x
    BY <1>1
  <2> DEFINE to == IF m < n \/ m > last THEN m ELSE IF m = n THEN last ELSE m - 1
  <2>2. to \in 1 .. N /\ from(to) = m
    BY <1>1
  <2> HIDE DEF w, from, to
  <2> QED  BY <1>2, <2>1, <2>2
<1> HIDE DEF w
<1>8. Permutes(w, S)
  BY <1>1, <1>5, <1>6, <1>7 DEF Permutes
<1> QED  BY <1>8 DEF w

(* The element moves over those that are before it, and stops.               *)
LEMMA BubbleStops ==
  ASSUME NEW S, NEW s \in Seq(S), NEW n \in 1 .. Len(s), docid' \in [S -> Nat]
  PROVE  \E last \in n .. Len(s) :
           /\ \A j \in n + 1 .. last : docid'[s[j]] < docid'[s[n]]
           /\ last < Len(s) => docid'[s[last + 1]] >= docid'[s[n]]
           /\ BubbleDown(s, n) = MovedBack(s, n, last)
<1> DEFINE N == Len(s)
           before == {m \in n + 1 .. N : \A j \in n + 1 .. m : docid'[s[j]] < docid'[s[n]]}
<1>1. N \in Nat /\ n \in Nat /\ \A j \in 1 .. N : s[j] \in S /\ docid'[s[j]] \in Nat
  OBVIOUS
<1>2. PICK last \in n .. N : before = n + 1 .. last
  <2>1. CASE before = {}
    <3>1. n + 1 .. n = {} /\ n \in n .. N
      BY <1>1
    <3> QED  BY <2>1, <3>1
  <2>2. CASE before # {}
    <3>1. Bounded(before, N)
      BY <1>1 DEF Bounded
    <3>2. PICK g \in before : \A j \in before : j <= g
      <4> HIDE DEF before
      <4> QED  BY <2>2, <3>1, GreatestInteger
    <3>3. g \in n + 1 .. N /\ \A j \in n + 1 .. g : docid'[s[j]] < docid'[s[n]]
      BY <3>2
    <3>4. ASSUME NEW j \in n + 1 .. g  PROVE j \in before
      <4>1. j \in n + 1 .. N
        BY <1>1, <3>3
      <4>2. \A l \in n + 1 .. j : l \in n + 1 .. g
        BY <1>1, <3>3, <4>1
      <4> QED  BY <3>3, <4>1, <4>2
    <3>5. ASSUME NEW j \in before  PROVE j \in n + 1 .. g
      <4>1. j \in n + 1 .. N /\ j <= g
        BY <3>2
      <4> QED  BY <1>1, <3>3, <4>1
    <3>6. g \in n .. N /\ before = n + 1 .. g
      BY <1>1, <3>3, <3>4, <3>5
    <3> QED  BY <3>6
  <2> QED  BY <2>1, <2>2
<1>3. n + Cardinality(before) = last
  <2> HIDE DEF before
  <2>1. Cardinality(n + 1 .. last) = last - n
    BY <1>1, FS_Interval
  <2> QED  BY <1>1, <1>2, <2>1
<1>4. \A j \in n + 1 .. last : docid'[s[j]] < docid'[s[n]]
  <2> SUFFICES ASSUME NEW j \in n + 1 .. last PROVE docid'[s[j]] < docid'[s[n]]
    OBVIOUS
  <2>1. j \in before /\ j \in n + 1 .. j
    BY <1>1, <1>2, SMTT(30)
  <2> QED  BY <2>1
<1>5. last < N => docid'[s[last + 1]] >= docid'[s[n]]
  <2> SUFFICES ASSUME last < N, docid'[s[last + 1]] < docid'[s[n]]  PROVE FALSE
    BY <1>1, <1>2
  <2>1. last + 1 \in n + 1 .. N
    BY <1>1, <1>2
  <2>2. ASSUME NEW j \in n + 1 .. last + 1  PROVE docid'[s[j]] < docid'[s[n]]
    <3>1. j = last + 1 \/ j \in n + 1 .. last
      BY <1>1, <1>2
    <3> QED  BY <1>4, <3>1
  <2>3. last + 1 \in before
    BY <2>1, <2>2
  <2>4. last + 1 \in n + 1 .. last
    BY <1>2, <2>3
  <2> QED  BY <1>1, <1>2, <2>4
<1>6. BubbleDown(s, n) = SubSeq(s, 1, n - 1) \o SubSeq(s, n + 1, last) \o <<s[n]>>
                           \o SubSeq(s, last + 1, Len(s))
  BY <1>3, Zenon DEF BubbleDown
<1>7. BubbleDown(s, n) = MovedBack(s, n, last)
  BY <1>6, CutAndMoved
<1> QED  BY <1>4, <1>5, <1>7

(* Moving one of the sorted enumerators forward and bubbling it down leaves  *)
(* them sorted.                                                              *)
LEMMA BubbleSorts ==
  ASSUME NEW S, NEW s, Permutes(s, S), NEW n \in 1 .. Len(s), InOrder(s, docid),
         docid \in [S -> Nat], docid' \in [S -> Nat],
         \A t \in S \ {s[n]} : docid'[t] = docid[t],
         docid'[s[n]] >= docid[s[n]]
  PROVE  Permutes(BubbleDown(s, n), S) /\ InOrder(BubbleDown(s, n), docid')
<1> DEFINE N == Len(s)
<1>1. /\ s \in Seq(S) /\ N \in Nat /\ n \in Nat
      /\ \A j \in 1 .. N : s[j] \in S /\ docid'[s[j]] \in Nat /\ docid[s[j]] \in Nat
      /\ \A j, l \in 1 .. N : s[j] = s[l] => j = l
  BY DEF Permutes
<1>2. PICK last \in n .. N :
           /\ \A j \in n + 1 .. last : docid'[s[j]] < docid'[s[n]]
           /\ last < N => docid'[s[last + 1]] >= docid'[s[n]]
           /\ BubbleDown(s, n) = MovedBack(s, n, last)
  BY <1>1, BubbleStops
<1> DEFINE w == MovedBack(s, n, last)
           v == [j \in 1 .. N |-> docid'[w[j]]]
<1>3. Permutes(w, S) /\ Len(w) = N
  <2>1. Permutes(w, S)
    BY MovedPermutes
  <2> QED  BY <2>1 DEF Permutes
<1>4. \A j \in 1 .. N : w[j] = IF j < n \/ j > last THEN s[j] ELSE IF j = last THEN s[n] ELSE s[j + 1]
  BY DEF MovedBack
<1> HIDE DEF w
<1>5. v \in [1 .. N -> Int]
  <2>1. \A j \in 1 .. N : w[j] \in S
    BY <1>1, <1>3 DEF Permutes
  <2> QED  BY <2>1
<1>6. ASSUME NEW j \in 1 .. N, j # n  PROVE docid'[s[j]] = docid[s[j]]
  BY <1>1, <1>6
<1>7. ASSUME NEW j \in 1 .. N - 1  PROVE v[j] <= v[j + 1]
  <2>1. j \in 1 .. N /\ j + 1 \in 1 .. N /\ j <= j + 1 /\ last \in Nat
    BY <1>1
  <2>2. v[j] = docid'[w[j]] /\ v[j + 1] = docid'[w[j + 1]]
    BY <2>1
  <2> HIDE DEF v, N
  <2>3. docid[s[j]] <= docid[s[j + 1]]
    BY <2>1 DEF InOrder, N
  <2>4. CASE j + 1 < n
    <3>1. w[j] = s[j] /\ w[j + 1] = s[j + 1] /\ j # n /\ j + 1 # n
      BY <1>1, <1>4, <2>1, <2>4
    <3> QED  BY <1>6, <2>1, <2>2, <2>3, <3>1
  <2>5. CASE j + 1 = n /\ n = last
    <3>1. w[j] = s[j] /\ w[j + 1] = s[n] /\ j # n
      BY <1>1, <1>4, <2>1, <2>5
    <3>2. docid'[s[j]] = docid[s[j]] /\ docid[s[j]] <= docid[s[n]] /\ docid'[s[n]] >= docid[s[n]]
      BY <1>6, <2>1, <2>3, <2>5, <3>1
    <3> QED  BY <1>1, <2>1, <2>2, <3>1, <3>2
  <2>6. CASE j + 1 = n /\ n < last
    <3>1. w[j] = s[j] /\ w[j + 1] = s[n + 1] /\ j # n
      BY <1>1, <1>4, <2>1, <2>6
    <3>2. n + 1 \in 1 .. N /\ n + 1 # n /\ j <= n + 1
      BY <1>1, <1>2, <2>6
    <3>3. docid[s[j]] <= docid[s[n + 1]]
      BY <2>1, <3>2 DEF InOrder, N
    <3> QED  BY <1>6, <2>1, <2>2, <3>1, <3>2, <3>3
  <2>7. CASE n <= j /\ j + 1 < last
    <3>1. w[j] = s[j + 1] /\ w[j + 1] = s[j + 1 + 1]
      BY <1>1, <1>4, <2>1, <2>7
    <3>2. j + 1 + 1 \in 1 .. N /\ j + 1 + 1 # n /\ j + 1 # n /\ j + 1 <= j + 1 + 1
      BY <1>1, <1>2, <2>7, <2>1
    <3>3. docid[s[j + 1]] <= docid[s[j + 1 + 1]]
      BY <2>1, <3>2 DEF InOrder, N
    <3> QED  BY <1>6, <2>1, <2>2, <3>1, <3>2, <3>3
  <2>8. CASE n <= j /\ j + 1 = last
    <3>1. w[j] = s[j + 1] /\ w[j + 1] = s[n]
      BY <1>1, <1>4, <2>1, <2>8, SMTT(30)
    <3>2. j + 1 \in n + 1 .. last
      BY <1>1, <1>2, <2>8
    <3>3. docid'[s[j + 1]] < docid'[s[n]]
      BY <1>2, <3>2
    <3>4. docid'[s[j + 1]] \in Nat /\ docid'[s[n]] \in Nat
      BY <1>1, <2>1 DEF N
    <3> QED  BY <2>2, <3>1, <3>3, <3>4
  <2>9. CASE j = last
    <3>1. w[j] = s[n] /\ w[j + 1] = s[last + 1] /\ last < N
      BY <1>1, <1>4, <2>1, <2>9
    <3>2. docid'[s[last + 1]] >= docid'[s[n]]
      BY <1>2, <3>1
    <3>3. docid'[s[last + 1]] \in Nat /\ docid'[s[n]] \in Nat
      BY <1>1, <2>1, <2>9 DEF N
    <3> QED  BY <2>2, <3>1, <3>2, <3>3
  <2>10. CASE j > last
    <3>1. w[j] = s[j] /\ w[j + 1] = s[j + 1] /\ j # n /\ j + 1 # n
      BY <1>1, <1>4, <2>1, <2>10
    <3> QED  BY <1>6, <2>1, <2>2, <2>3, <3>1
  <2>11. last >= n
    BY <1>1
  <2> QED  BY <1>1, <2>1, <2>4, <2>5, <2>6, <2>7, <2>8, <2>9, <2>10, <2>11
<1>8. \A j, l \in 1 .. N : j <= l => v[j] <= v[l]
  <2> HIDE DEF v
  <2> QED  BY <1>1, <1>5, <1>7, NeighboursSorted
<1>9. InOrder(w, docid')
  BY <1>3, <1>8 DEF InOrder
<1> QED  BY <1>2, <1>3, <1>9 DEF w

-----------------------------------------------------------------------------
(* wand_query.                                                               *)

(* What the rest of the invariant says after a turn of the loop.             *)
LEMMA WandLoopState ==
  ASSUME QInv, WandStep, Common', Fresh', pc' = "loop", InOrder(order', docid'),
         NEW q, q = docid'[order'[1]], topk' = Best(AnyBefore(q)),
         \A d \in AnyTerm : \A t \in QueryTerms :
           d >= q /\ d \in DocsOf(t) /\ d < docid'[t] => ~WouldEnter(topk', k, Score(d))
  PROVE  QInv'
<1>1. weight' = weight /\ k' = k /\ kind' = kind /\ kind = "wand"
  <2>1. [Next]_vars
    BY DEF Next, Step
  <2> QED  BY <2>1, QueryStays DEF WandStep
<1>2. /\ QueryTerms' = QueryTerms /\ AnyTerm' = AnyTerm
      /\ \A t : DocsOf(t)' = DocsOf(t)
  BY <1>1, SameQuery
<1>3. \A d : Score(d)' = Score(d)
  BY <1>1, SameScore
<1>4. AnyBefore(q)' = AnyBefore(q)
  BY <1>2 DEF AnyBefore
<1>5. Best(AnyBefore(q))' = Best(AnyBefore(q))
  BY <1>1, <1>4, SameBest
<1>6. ASSUME NEW d \in AnyTerm', d >= q, JumpedOver(d)'
      PROVE  ~WouldEnter(topk', k', Score(d)')
  <2>1. PICK t \in QueryTerms : d \in DocsOf(t) /\ d < docid'[t]
    BY <1>2, <1>6 DEF JumpedOver
  <2> QED  BY <1>1, <1>2, <1>3, <1>6, <2>1
<1>7. WandLoop(q)'
  BY <1>2, <1>5, <1>6, Zenon DEF WandLoop, WouldEnter
<1>8. WandLoop(docid[order[1]])'
  BY <1>7 DEF WandLoop, AnyBefore
<1>9. InOrder(order, docid)'
  BY DEF InOrder
<1>10. WandInv'
  BY <1>8, <1>9 DEF WandInv
<1>11. AndInv' /\ OrInv' /\ MaxscoreInv'
  BY <1>1 DEF AndInv, OrInv, MaxscoreInv
<1> QED  BY <1>10, <1>11 DEF QInv

(* And after the last one.                                                   *)
LEMMA WandDoneState ==
  ASSUME QInv, WandStep, Common', Fresh', pc' = "done", topk' = Best(AnyTerm)
  PROVE  QInv'
<1>1. weight' = weight /\ k' = k /\ kind' = kind /\ kind = "wand"
  <2>1. [Next]_vars
    BY DEF Next, Step
  <2> QED  BY <2>1, QueryStays DEF WandStep
<1>2. AnyTerm' = AnyTerm
  BY <1>1, SameQuery
<1>3. Best(AnyTerm)' = Best(AnyTerm)
  BY <1>1, <1>2, SameBest
<1>4. WandInv' /\ AndInv' /\ OrInv' /\ MaxscoreInv'
  BY <1>1, <1>3 DEF WandInv, AndInv, OrInv, MaxscoreInv
<1> QED  BY <1>4 DEF QInv

LEMMA WandEmptyKeeps ==
  ASSUME QInv, WandStep, EmptyQuery  PROVE QInv'
<1>1. weight' = weight /\ k' = k /\ kind' = kind /\ topk' = <<>> /\ kind = "wand"
      /\ pc = "start" /\ pc' = "done" /\ QueryTerms = {} /\ order' = order /\ docid' = docid
  BY DEF WandStep, EmptyQuery, Cleared
<1>2. Query /\ Common /\ docid \in [QueryTerms -> Nat]
      /\ \A t \in QueryTerms : docid[t] \in DocsOf(t) \cup {NumDocs}
  BY DEF QInv, Common
<1>3. AnyTerm = {} /\ Best({}) = <<>> /\ <<>> \in Queues(k)
  BY <1>1, <1>2, NothingFound
<1>4. Common' /\ Fresh'
  BY <1>1, <1>2, <1>3, CommonStays DEF Common
<1> QED  BY <1>1, <1>3, <1>4, WandDoneState

LEMMA SortedByDocid ==
  ASSUME NEW s, Permutes(s, QueryTerms), NEW key \in [QueryTerms -> Nat],
         \A j \in 1 .. Len(s) - 1 : key[s[j]] <= key[s[j + 1]]
  PROVE  InOrder(s, key)
<1> DEFINE v == [j \in 1 .. Len(s) |-> key[s[j]]]
<1>1. Len(s) \in Nat /\ \A j \in 1 .. Len(s) : s[j] \in QueryTerms
  BY DEF Permutes
<1>2. v \in [1 .. Len(s) -> Int]
  BY <1>1
<1>3. \A j \in 1 .. Len(s) - 1 : v[j] <= v[j + 1]
  <2> SUFFICES ASSUME NEW j \in 1 .. Len(s) - 1 PROVE v[j] <= v[j + 1]
    OBVIOUS
  <2>1. j \in 1 .. Len(s) /\ j + 1 \in 1 .. Len(s)
    BY <1>1
  <2> QED  BY <2>1
<1>4. \A j, l \in 1 .. Len(s) : j <= l => v[j] <= v[l]
  <2> HIDE DEF v
  <2> QED  BY <1>1, <1>2, <1>3, NeighboursSorted
<1> QED  BY <1>4 DEF InOrder

LEMMA WandStartKeeps ==
  ASSUME QInv, WandStep, WandStart  PROVE QInv'
<1>1. weight' = weight /\ k' = k /\ kind' = kind /\ topk' = <<>> /\ kind = "wand"
      /\ pc = "start" /\ pc' = "loop" /\ QueryTerms # {} /\ docid' = docid
      /\ order' \in Sortings(docid)
  BY DEF WandStep, WandStart, NotEmpty, Cleared
<1>2. /\ Query /\ Common /\ docid \in [QueryTerms -> Nat] /\ NumDocs \in Nat
      /\ \A t \in QueryTerms : docid[t] \in DocsOf(t) \cup {NumDocs}
      /\ \A t \in QueryTerms : docid[t] = First(t)
      /\ \A t \in QueryTerms : DocsOf(t) \in SUBSET (0 .. NumDocs - 1)
      /\ IsFiniteSet(QueryTerms) /\ Cardinality(QueryTerms) \in Nat
      /\ AnyTerm \in SUBSET (0 .. NumDocs - 1)
  BY <1>1, ListFacts DEF QInv, Common, Fresh
<1>3. Permutes(order', QueryTerms) /\ Cardinality(QueryTerms) # 0
  BY <1>1, <1>2, SortingsPermute, FS_EmptySet
<1>4. InOrder(order', docid')
  <2>1. \A j \in 1 .. Len(order') - 1 : docid[order'[j]] <= docid[order'[j + 1]]
    BY <1>1 DEF Sortings
  <2>2. InOrder(order', docid)
    BY <1>2, <1>3, <2>1, SortedByDocid
  <2> QED  BY <1>1, <2>2
<1>5. Best({}) = <<>> /\ <<>> \in Queues(k)
  BY <1>2, NothingFound
<1>6. Common' /\ Fresh'
  BY <1>1, <1>2, <1>3, <1>5, CommonStays
<1>7. PICK q : q = docid'[order'[1]]
  OBVIOUS
<1>8. ASSUME NEW t \in QueryTerms  PROVE q <= docid[t] /\ q \in Nat
  <2>1. PICK j \in 1 .. Len(order') : order'[j] = t
    BY <1>3 DEF Permutes
  <2>2. 1 \in 1 .. Len(order') /\ 1 <= j /\ order'[1] \in QueryTerms
    BY <1>2, <1>3 DEF Permutes
  <2>3. docid'[order'[1]] <= docid'[order'[j]]
    BY <1>4, <2>2 DEF InOrder
  <2> QED  BY <1>1, <1>2, <1>7, <2>1, <2>2, <2>3
<1>9. ASSUME NEW t \in QueryTerms, NEW d \in DocsOf(t)  PROVE docid[t] <= d /\ d \in Nat
  <2>1. docid[t] = Geq(t, 0)
    BY <1>2, FirstIs
  <2>2. d \in Nat
    BY <1>2
  <2>3. Geq(t, 0) <= d
    BY <1>2, <1>9, <2>2, GeqIs
  <2> QED  BY <2>1, <2>2, <2>3
<1>10. AnyBefore(q) = {}
  <2> SUFFICES ASSUME NEW d \in AnyTerm, d < q PROVE FALSE
    BY DEF AnyBefore
  <2>1. PICK t \in QueryTerms : d \in DocsOf(t)
    BY DEF AnyTerm
  <2>2. q <= docid[t] /\ docid[t] <= d /\ d \in Nat /\ q \in Nat /\ docid[t] \in Nat
    BY <1>2, <1>8, <1>9, <2>1
  <2> QED  BY <2>2
<1>11. ASSUME NEW d \in AnyTerm, NEW t \in QueryTerms, d \in DocsOf(t), d < docid'[t]  PROVE FALSE
  <2>1. docid[t] <= d /\ d \in Nat /\ docid[t] \in Nat /\ d < docid[t]
    BY <1>1, <1>2, <1>9, <1>11
  <2> QED  BY <2>1
<1>12. topk' = Best(AnyBefore(q))
  BY <1>1, <1>5, <1>10
<1> QED  BY <1>1, <1>4, <1>6, <1>7, <1>11, <1>12, WandLoopState

(* What the loop finds at every turn: the first document an enumerator is    *)
(* at, and what a document from it on can still be.                          *)
LEMMA WandTurnFacts ==
  ASSUME QInv, kind = "wand", pc = "loop", NEW p, p = docid[order[1]]
  PROVE  /\ Query /\ Ordered /\ InOrder(order, docid)
         /\ 1 \in 1 .. Len(order) /\ order[1] \in QueryTerms /\ p \in 0 .. NumDocs
         /\ \A t \in QueryTerms : p <= docid[t]
         /\ topk = Best(AnyBefore(p))
         /\ \A d \in AnyTerm : d >= p /\ JumpedOver(d) => ~WouldEnter(topk, k, Score(d))
<1>1. /\ Query /\ Ordered /\ QueryTerms # {} /\ docid \in [QueryTerms -> Nat]
      /\ \A t \in QueryTerms : docid[t] \in 0 .. NumDocs
      /\ Len(order) \in Nat \ {0}
      /\ \A j \in 1 .. Len(order) : order[j] \in QueryTerms
      /\ \A t \in QueryTerms : \E j \in 1 .. Len(order) : order[j] = t
  BY InLoop DEF QInv
<1>2. InOrder(order, docid) /\ WandLoop(p)
  BY DEF QInv, WandInv
<1>3. 1 \in 1 .. Len(order)
  BY <1>1
<1>4. ASSUME NEW t \in QueryTerms  PROVE p <= docid[t]
  <2>1. PICK j \in 1 .. Len(order) : order[j] = t
    BY <1>1
  <2> QED  BY <1>2, <1>3, <2>1 DEF InOrder
<1> QED  BY <1>1, <1>2, <1>3, <1>4 DEF WandLoop

(* A document that only the first n lists can still have does not enter when *)
(* their maxima together do not.                                             *)
LEMMA WandCannotEnter ==
  ASSUME QInv, kind = "wand", pc = "loop", NEW d \in AnyTerm, d >= docid[order[1]],
         NEW n \in 0 .. Len(order), \A j \in n + 1 .. Len(order) : d < docid[order[j]],
         n > 0 => ~WouldEnter(topk, k, UpperBound(n))
  PROVE  ~WouldEnter(topk, k, Score(d))
<1>1. /\ Query /\ Ordered
      /\ \A e \in AnyTerm : e >= docid[order[1]] /\ JumpedOver(e) => ~WouldEnter(topk, k, Score(e))
  BY WandTurnFacts
<1>2. /\ topk \in Queues(k) /\ k \in Nat \ {0} /\ Len(order) \in Nat
      /\ \A j \in 1 .. Len(order) : order[j] \in QueryTerms
      /\ \A t \in QueryTerms : \E j \in 1 .. Len(order) : order[j] = t
  BY InLoop DEF QInv
<1>3. CASE JumpedOver(d)
  BY <1>1, <1>3
<1>4. CASE ~JumpedOver(d)
  <2>1. ASSUME NEW j \in n + 1 .. Len(order)  PROVE d \notin DocsOf(order[j])
    <3>1. order[j] \in QueryTerms /\ d < docid[order[j]]
      BY <1>2
    <3> QED  BY <1>4, <3>1 DEF JumpedOver
  <2>2. n > 0
    <3>1. PICK t \in QueryTerms : d \in DocsOf(t)
      BY DEF AnyTerm
    <3>2. PICK j \in 1 .. Len(order) : order[j] = t
      BY <1>2
    <3>3. j \notin n + 1 .. Len(order)
      BY <2>1, <3>1, <3>2
    <3> QED  BY <1>2, <3>3
  <2>3. Score(d) <= UpperBound(n) /\ UpperBound(n) \in Nat /\ Score(d) \in Nat
    BY <1>1, <2>1, ScoreBound, UpperBoundFacts, ScoreFacts
  <2> QED  BY <1>2, <2>2, <2>3, EnteringLess
<1> QED  BY <1>3, <1>4

(* What lies between what is found and the next document of an enumerator    *)
(* changes nothing when none of it can enter.                                *)
LEMMA FoundAfterAll ==
  ASSUME Query, NEW A \in SUBSET AnyTerm, NEW q \in Nat,
         \A d \in A : d < q,
         \A d \in AnyTerm \ A : d < q => ~WouldEnter(Best(A), k, Score(d))
  PROVE  Best(AnyBefore(q)) = Best(A)
<1>1. Scored(AnyTerm)
  BY ScoreFacts
<1> DEFINE B == {d \in AnyTerm \ A : d < q}
<1>2. A \cup B = AnyBefore(q)
  BY DEF AnyBefore
<1>3. \A d \in B : ~WouldEnter(Best(A), k, Score(d))
  OBVIOUS
<1>4. B \in SUBSET AnyTerm
  OBVIOUS
<1> HIDE DEF B
<1> QED  BY <1>1, <1>2, <1>3, <1>4, BestWithoutTheRest

(* No pivot, so nothing that is left can enter.                              *)
LEMMA WandFinishKeeps ==
  ASSUME QInv, WandStep, WandFinish  PROVE QInv'
<1>1. weight' = weight /\ k' = k /\ kind' = kind /\ kind = "wand" /\ topk' = topk
      /\ pc = "loop" /\ pc' = "done" /\ order' = order /\ docid' = docid
      /\ Pivots = {}
  BY DEF WandStep, WandFinish, Finalize
<1>2. /\ Query /\ Ordered /\ QueryTerms # {} /\ NumDocs \in Nat /\ k \in Nat \ {0}
      /\ topk \in Queues(k) /\ docid \in [QueryTerms -> Nat]
      /\ \A t \in QueryTerms : docid[t] \in DocsOf(t) \cup {NumDocs}
      /\ Len(order) \in Nat \ {0}
      /\ \A j \in 1 .. Len(order) : order[j] \in QueryTerms
      /\ \A t \in QueryTerms : \E j \in 1 .. Len(order) : order[j] = t
  BY <1>1, InLoop DEF QInv
<1>3. PICK p : p = docid[order[1]]
  OBVIOUS
<1>4. /\ InOrder(order, docid) /\ p \in 0 .. NumDocs /\ topk = Best(AnyBefore(p))
      /\ AnyTerm \in SUBSET (0 .. NumDocs - 1)
  BY <1>1, <1>2, <1>3, WandTurnFacts, ListFacts
<1>5. Common' /\ Fresh'
  BY <1>1, <1>2, CommonStays DEF QInv, Ordered
<1>6. ASSUME NEW n \in 1 .. Len(order), \A m \in 1 .. n : docid[order[m]] # NumDocs
      PROVE  ~WouldEnter(topk, k, UpperBound(n))
  <2> SUFFICES ASSUME WouldEnter(topk, k, UpperBound(n)) PROVE FALSE
    OBVIOUS
  <2> DEFINE high == {m \in 1 .. n : WouldEnter(topk, k, UpperBound(m))}
  <2>1. n \in high /\ high \in SUBSET Nat
    BY <1>2
  <2>2. PICK m \in high : \A l \in high : m <= l
    <3> HIDE DEF high
    <3> QED  BY <2>1, LeastNatural
  <2>3. m \in 1 .. n /\ m \in 1 .. Len(order) /\ WouldEnter(topk, k, UpperBound(m))
    BY <1>2, <2>2
  <2>4. \A l \in 1 .. m - 1 : ~WouldEnter(topk, k, UpperBound(l))
    <3> SUFFICES ASSUME NEW l \in 1 .. m - 1, WouldEnter(topk, k, UpperBound(l)) PROVE FALSE
      OBVIOUS
    <3>1. l \in high
      BY <1>2, <2>3
    <3> HIDE DEF high
    <3>2. m <= l
      BY <2>2, <3>1
    <3> QED  BY <2>3, <3>2
  <2>5. \A l \in 1 .. m : docid[order[l]] # NumDocs
    BY <1>2, <1>6, <2>3
  <2>6. IsPivot(m)
    BY <2>3, <2>4, <2>5 DEF IsPivot
  <2> QED  BY <1>1, <2>3, <2>6 DEF Pivots
<1>7. ASSUME NEW d \in AnyTerm, d >= p  PROVE ~WouldEnter(topk, k, Score(d))
  <2>1. d \in Nat /\ d < NumDocs
    BY <1>2, <1>4
  <2> DEFINE reached == {j \in 1 .. Len(order) : docid[order[j]] <= d}
  <2>2. 1 \in reached /\ Bounded(reached, Len(order))
    BY <1>2, <1>3, <1>4, <1>7, <2>1 DEF Bounded
  <2>3. PICK n \in reached : \A j \in reached : j <= n
    <3> HIDE DEF reached
    <3> QED  BY <2>2, GreatestInteger
  <2>4. n \in 1 .. Len(order) /\ docid[order[n]] <= d
    BY <2>3
  <2>5. ASSUME NEW j \in n + 1 .. Len(order)  PROVE d < docid[order[j]]
    <3>1. j \in 1 .. Len(order) /\ ~(j <= n)
      BY <1>2, <2>4
    <3>2. j \notin reached
      <4> HIDE DEF reached
      <4> QED  BY <2>3, <3>1
    <3>3. docid[order[j]] \in Nat
      BY <1>2, <3>1
    <3> QED  BY <2>1, <3>1, <3>2, <3>3
  <2>6. ASSUME NEW m \in 1 .. n  PROVE docid[order[m]] # NumDocs
    <3>1. m \in 1 .. Len(order) /\ m <= n
      BY <1>2, <2>4
    <3>2. docid[order[m]] <= docid[order[n]]
      BY <1>4, <2>4, <3>1 DEF InOrder
    <3>3. docid[order[m]] \in Nat /\ docid[order[n]] \in Nat
      BY <1>2, <2>4, <3>1
    <3> QED  BY <1>2, <2>1, <2>4, <3>2, <3>3
  <2>7. ~WouldEnter(topk, k, UpperBound(n))
    BY <1>6, <2>4, <2>6
  <2>8. n \in 0 .. Len(order)
    BY <1>2, <2>4
  <2> QED  BY <1>1, <1>3, <1>7, <2>5, <2>7, <2>8, WandCannotEnter
<1>8. Best(AnyBefore(NumDocs)) = Best(AnyBefore(p))
  <2>1. AnyBefore(p) \in SUBSET AnyTerm /\ \A d \in AnyBefore(p) : d < NumDocs
    BY <1>2, <1>4 DEF AnyBefore
  <2>2. \A d \in AnyTerm \ AnyBefore(p) : d \in AnyTerm /\ d >= p
    BY <1>2, <1>4 DEF AnyBefore
  <2>3. \A d \in AnyTerm \ AnyBefore(p) : ~WouldEnter(Best(AnyBefore(p)), k, Score(d))
    BY <1>4, <1>7, <2>2
  <2> QED  BY <1>2, <2>1, <2>3, FoundAfterAll
<1>9. topk' = Best(AnyTerm)
  BY <1>1, <1>2, <1>4, <1>8, NothingFound
<1> QED  BY <1>1, <1>5, <1>9, WandDoneState

(* The pivot's document is one of the lists'.                                *)
LEMMA PivotFacts ==
  ASSUME QInv, kind = "wand", pc = "loop", NEW pivot \in Pivots, NEW P, P = PivotDoc(pivot)
  PROVE  /\ pivot \in 1 .. Len(order) /\ P = docid[order[pivot]] /\ P \in Nat /\ P < NumDocs
         /\ P \in DocsOf(order[pivot]) /\ P \in AnyTerm
         /\ \A m \in 1 .. pivot - 1 : ~WouldEnter(topk, k, UpperBound(m))
<1>1. /\ docid \in [QueryTerms -> Nat] /\ NumDocs \in Nat
      /\ \A t \in QueryTerms : docid[t] \in DocsOf(t) \cup {NumDocs}
      /\ \A t \in QueryTerms : DocsOf(t) \in SUBSET (0 .. NumDocs - 1)
      /\ \A j \in 1 .. Len(order) : order[j] \in QueryTerms
      /\ Len(order) \in Nat
  BY InLoop DEF QInv
<1>2. pivot \in 1 .. Len(order) /\ IsPivot(pivot)
  BY DEF Pivots
<1>3. order[pivot] \in QueryTerms /\ docid[order[pivot]] # NumDocs
  <2>1. pivot \in 1 .. pivot
    BY <1>1, <1>2
  <2> QED  BY <1>1, <1>2, <2>1 DEF IsPivot
<1>4. P \in DocsOf(order[pivot]) /\ P = docid[order[pivot]]
  BY <1>1, <1>3 DEF PivotDoc
<1>5. P \in 0 .. NumDocs - 1
  BY <1>1, <1>3, <1>4
<1>6. P \in AnyTerm
  BY <1>3, <1>4 DEF AnyTerm
<1>7. \A m \in 1 .. pivot - 1 : ~WouldEnter(topk, k, UpperBound(m))
  BY <1>2 DEF IsPivot
<1> QED  BY <1>1, <1>2, <1>4, <1>5, <1>6, <1>7

(* The last list before the pivot's document.                                *)
LEMMA NextListFacts ==
  ASSUME Ordered, NEW pivot \in 1 .. Len(order), docid[order[1]] # PivotDoc(pivot)
  PROVE  /\ NextList(pivot) \in 1 .. pivot
         /\ docid[order[NextList(pivot)]] # PivotDoc(pivot)
         /\ \A m \in NextList(pivot) + 1 .. pivot : docid[order[m]] = PivotDoc(pivot)
<1> DEFINE apart == {n \in 1 .. pivot : docid[order[n]] # PivotDoc(pivot)}
<1>1. Len(order) \in Nat
  BY DEF Ordered, Permutes
<1>2. 1 \in apart /\ Bounded(apart, pivot)
  BY <1>1 DEF Bounded
<1>3. PICK n \in apart : \A m \in apart : m <= n
  <2> HIDE DEF apart
  <2> QED  BY <1>2, GreatestInteger
<1>4. n \in 1 .. pivot /\ docid[order[n]] # PivotDoc(pivot)
  BY <1>3
<1>5. ASSUME NEW m \in n + 1 .. pivot  PROVE docid[order[m]] = PivotDoc(pivot)
  <2>1. m \in 1 .. pivot /\ ~(m <= n)
    BY <1>1, <1>4
  <2>2. m \notin apart
    <3> HIDE DEF apart
    <3> QED  BY <1>3, <2>1
  <2> QED  BY <2>1, <2>2
<1>6. \E l \in 1 .. pivot :
        /\ docid[order[l]] # PivotDoc(pivot)
        /\ \A m \in l + 1 .. pivot : docid[order[m]] = PivotDoc(pivot)
  BY <1>4, <1>5
<1> QED  BY <1>6, Zenon DEF NextList

(* What the enumerators before the pivot's document are at cannot enter.     *)
LEMMA BeforePivot ==
  ASSUME QInv, kind = "wand", pc = "loop", NEW pivot \in Pivots,
         NEW d \in AnyTerm, d >= docid[order[1]], d < PivotDoc(pivot)
  PROVE  ~WouldEnter(topk, k, Score(d))
<1>1. /\ docid \in [QueryTerms -> Nat] /\ NumDocs \in Nat /\ Len(order) \in Nat \ {0}
      /\ \A j \in 1 .. Len(order) : order[j] \in QueryTerms
  BY InLoop DEF QInv
<1>2. /\ pivot \in 1 .. Len(order) /\ PivotDoc(pivot) = docid[order[pivot]]
      /\ PivotDoc(pivot) \in Nat
      /\ \A m \in 1 .. pivot - 1 : ~WouldEnter(topk, k, UpperBound(m))
  BY PivotFacts
<1>3. InOrder(order, docid) /\ AnyTerm \in SUBSET (0 .. NumDocs - 1)
  BY WandTurnFacts, ListFacts
<1>4. ASSUME NEW j \in (pivot - 1) + 1 .. Len(order)  PROVE d < docid[order[j]]
  <2>1. j \in 1 .. Len(order) /\ pivot <= j
    BY <1>1, <1>2
  <2>2. docid[order[pivot]] <= docid[order[j]] /\ docid[order[j]] \in Nat
    BY <1>1, <1>2, <1>3, <2>1 DEF InOrder
  <2>3. d \in Nat
    BY <1>1, <1>3
  <2> QED  BY <1>2, <2>2, <2>3
<1>5. pivot - 1 \in 0 .. Len(order) /\ (pivot - 1 > 0 => pivot - 1 \in 1 .. pivot - 1)
  BY <1>1, <1>2
<1> QED  BY <1>2, <1>4, <1>5, WandCannotEnter

LEMMA AdvanceListKeeps ==
  ASSUME QInv, WandStep, pc = "loop", NEW pivot \in Pivots, AdvanceList(pivot)  PROVE QInv'
<1>1. PICK P : P = PivotDoc(pivot)
  OBVIOUS
<1>2. PICK p : p = docid[order[1]]
  OBVIOUS
<1>3. PICK n : n = NextList(pivot)
  OBVIOUS
<1>4. weight' = weight /\ k' = k /\ kind' = kind /\ kind = "wand" /\ topk' = topk
      /\ pc' = "loop" /\ P # p /\ order' = BubbleDown(order, n)
  BY <1>1, <1>2, <1>3 DEF WandStep, AdvanceList
<1>5. /\ Query /\ Ordered /\ QueryTerms # {} /\ NumDocs \in Nat /\ k \in Nat \ {0}
      /\ topk \in Queues(k) /\ docid \in [QueryTerms -> Nat]
      /\ \A t \in QueryTerms : docid[t] \in DocsOf(t) \cup {NumDocs}
      /\ \A t \in QueryTerms : DocsOf(t) \in SUBSET (0 .. NumDocs - 1)
      /\ Len(order) \in Nat \ {0}
      /\ \A j \in 1 .. Len(order) : order[j] \in QueryTerms
      /\ \A j, l \in 1 .. Len(order) : order[j] = order[l] => j = l
      /\ \A t \in QueryTerms : \E j \in 1 .. Len(order) : order[j] = t
  BY InLoop DEF QInv
<1>6. /\ InOrder(order, docid) /\ p \in 0 .. NumDocs /\ topk = Best(AnyBefore(p))
      /\ \A t \in QueryTerms : p <= docid[t]
      /\ \A d \in AnyTerm : d >= p /\ JumpedOver(d) => ~WouldEnter(topk, k, Score(d))
      /\ AnyTerm \in SUBSET (0 .. NumDocs - 1)
  BY <1>2, <1>4, <1>5, WandTurnFacts, ListFacts
<1>7. /\ pivot \in 1 .. Len(order) /\ P = docid[order[pivot]] /\ P \in Nat /\ P < NumDocs
  BY <1>1, <1>4, PivotFacts
<1>8. n \in 1 .. pivot /\ docid[order[n]] # P
  BY <1>1, <1>2, <1>3, <1>4, <1>5, <1>7, NextListFacts
<1> DEFINE t1 == order[n]
           g == Geq(t1, P)
<1>9. /\ n \in 1 .. Len(order) /\ t1 \in QueryTerms /\ order[pivot] \in QueryTerms
      /\ order[pivot] # t1 /\ docid[t1] <= P /\ docid[t1] \in Nat /\ n <= pivot
  <2>1. n \in 1 .. Len(order) /\ n <= pivot /\ n # pivot
    BY <1>5, <1>7, <1>8
  <2>2. docid[order[n]] <= docid[order[pivot]]
    BY <1>6, <1>7, <2>1 DEF InOrder
  <2> QED  BY <1>5, <1>7, <2>1, <2>2
<1>10. /\ g \in DocsOf(t1) \cup {NumDocs} /\ g \in 0 .. NumDocs /\ g >= P
       /\ \A e \in DocsOf(t1) : e >= P => g <= e
  <2>1. P \in Int
    BY <1>7
  <2>2. /\ g \in DocsOf(t1) \cup {NumDocs} /\ g \in 0 .. NumDocs
        /\ g >= P \/ g = NumDocs
        /\ \A e \in DocsOf(t1) : e >= P => g <= e
    BY <1>5, <1>9, <2>1, GeqIs
  <2> HIDE DEF g, t1
  <2> QED  BY <1>5, <1>7, <2>2
<1>11. /\ docid' \in [QueryTerms -> Nat] /\ docid'[t1] = g
       /\ \A t \in QueryTerms \ {t1} : docid'[t] = docid[t]
  <2>1. docid' = [docid EXCEPT ![t1] = g]
    BY <1>1, <1>3 DEF AdvanceList, WandJumpTo
  <2> HIDE DEF g, t1
  <2> QED  BY <1>5, <1>9, <1>10, <2>1
<1>12. docid'[t1] >= docid[t1]
  <2> HIDE DEF g, t1
  <2> QED  BY <1>7, <1>9, <1>10, <1>11
<1>13. Permutes(order', QueryTerms) /\ InOrder(order', docid')
  BY <1>4, <1>5, <1>6, <1>9, <1>11, <1>12, BubbleSorts DEF Ordered
<1>14. Common' /\ Fresh'
  <2>1. \A t \in QueryTerms : docid'[t] \in DocsOf(t) \cup {NumDocs}
    <3> HIDE DEF g, t1
    <3> QED  BY <1>5, <1>10, <1>11
  <2> QED  BY <1>4, <1>5, <1>11, <1>13, <2>1, CommonStays DEF QInv
<1>15. PICK q : q = docid'[order'[1]]
  OBVIOUS
<1>16. /\ q \in Nat /\ \A t \in QueryTerms : q <= docid'[t]
       /\ \E t \in QueryTerms : q = docid'[t]
  <2>1. Len(order') \in Nat /\ Len(order') = Len(order) /\ 1 \in 1 .. Len(order')
    BY <1>5, <1>13 DEF Permutes, Ordered
  <2>2. order'[1] \in QueryTerms
    BY <1>13, <2>1 DEF Permutes
  <2>3. ASSUME NEW t \in QueryTerms  PROVE q <= docid'[t]
    <3>1. PICK j \in 1 .. Len(order') : order'[j] = t
      BY <1>13 DEF Permutes
    <3> QED  BY <1>13, <1>15, <2>1, <3>1 DEF InOrder
  <2> QED  BY <1>11, <1>15, <2>2, <2>3
<1>17. p <= q /\ q <= P
  <2>1. docid'[order[pivot]] = P
    BY <1>7, <1>9, <1>11
  <2>2. q <= P
    BY <1>9, <1>16, <2>1
  <2>3. PICK t \in QueryTerms : q = docid'[t]
    BY <1>16
  <2>4. docid[t] <= docid'[t] /\ docid[t] \in Nat /\ p <= docid[t]
    BY <1>5, <1>6, <1>11, <1>12, <2>3
  <2> QED  BY <1>6, <1>16, <2>2, <2>3, <2>4
<1>18. ASSUME NEW d \in AnyTerm, d >= p, d < P  PROVE ~WouldEnter(topk, k, Score(d))
  BY <1>1, <1>2, <1>4, <1>18, BeforePivot
<1>19. ASSUME NEW d \in AnyTerm, NEW t \in QueryTerms, d >= q, d \in DocsOf(t), d < docid'[t]
       PROVE  ~WouldEnter(topk', k, Score(d))
  <2>1. d \in Nat /\ d >= p
    BY <1>5, <1>6, <1>16, <1>17, <1>19
  <2>2. CASE d < docid[t]
    <3>1. JumpedOver(d)
      BY <1>19, <2>2 DEF JumpedOver
    <3> QED  BY <1>4, <1>6, <2>1, <3>1
  <2>3. CASE ~(d < docid[t])
    <3>1. t = t1
      BY <1>11, <1>19, <2>3
    <3>2. d \in DocsOf(t1) /\ d < g
      BY <1>11, <1>19, <3>1
    <3>3. d < P
      <4> HIDE DEF g, t1
      <4> QED  BY <1>7, <1>10, <2>1, <3>2
    <3> QED  BY <1>4, <1>18, <2>1, <3>3
  <2> QED  BY <2>2, <2>3
<1>20. topk' = Best(AnyBefore(q))
  <2>1. AnyBefore(p) \in SUBSET AnyTerm /\ \A d \in AnyBefore(p) : d < q
    <3>1. \A d \in AnyTerm : d \in Nat
      BY <1>5, <1>6
    <3> QED  BY <1>6, <1>16, <1>17, <3>1 DEF AnyBefore
  <2>2. ASSUME NEW d \in AnyTerm \ AnyBefore(p), d < q
        PROVE  ~WouldEnter(Best(AnyBefore(p)), k, Score(d))
    <3>1. d \in Nat /\ d >= p /\ d < P
      BY <1>5, <1>6, <1>7, <1>16, <1>17, <2>2, SMTT(30) DEF AnyBefore
    <3> QED  BY <1>6, <1>18, <3>1
  <2>3. Best(AnyBefore(q)) = Best(AnyBefore(p))
    BY <1>5, <1>16, <2>1, <2>2, FoundAfterAll
  <2> QED  BY <1>4, <1>6, <2>3
<1> QED  BY <1>4, <1>13, <1>14, <1>15, <1>19, <1>20, WandLoopState

(* The sums over two sets of terms are equal when all that is not zero in    *)
(* the larger one is in the smaller.                                         *)
LEMMA ScoreOfSome ==
  ASSUME Query, NEW d, NEW some \in SUBSET QueryTerms,
         NEW f, f = [t \in some |-> WeightOf(t, d)]
  PROVE  /\ SumFunction(f) \in Nat
         /\ SumFunction(f) <= Score(d)
         /\ (\A t \in QueryTerms \ some : d \notin DocsOf(t)) => SumFunction(f) = Score(d)
<1> DEFINE all == [t \in QueryTerms |-> WeightOf(t, d)]
           same == [t \in QueryTerms |-> t]
<1>1. /\ IsFiniteSet(QueryTerms) /\ IsFiniteSet(some)
      /\ \A t \in QueryTerms : \A e : WeightOf(t, e) \in Nat
      /\ \A t \in QueryTerms : \A e : e \notin DocsOf(t) => WeightOf(t, e) = 0
  BY ListFacts, FS_Subset
<1>2. SumFunction(f) = SumFunctionOnSet(f, some)
  BY DEF SumFunction
<1>3. Score(d) = SumFunctionOnSet(all, QueryTerms)
  BY ScoreFacts
<1>4. /\ \A t \in some : f[t] \in Nat /\ f[t] = all[t]
      /\ \A t \in QueryTerms : all[t] \in Nat /\ same[t] = t
      /\ \A t \in some : same[t] = t
      /\ \A t \in QueryTerms : d \notin DocsOf(t) => all[t] = 0
  BY <1>1
<1> HIDE DEF all, same
<1>5. Matched(f, some, all, QueryTerms, same)
  <2>1. \A t \in some : f[t] # 0 => same[t] \in QueryTerms /\ f[t] <= all[same[t]]
    BY <1>4
  <2> QED  BY <1>4, <2>1 DEF Matched
<1>6. SumFunctionOnSet(f, some) \in Nat /\ SumFunctionOnSet(all, QueryTerms) \in Nat
  <2>1. some \in SUBSET some /\ QueryTerms \in SUBSET QueryTerms
    OBVIOUS
  <2>2. SumFunctionOnSet(f, some) \in Nat
    BY <1>1, <1>4, <2>1, SumFacts
  <2>3. SumFunctionOnSet(all, QueryTerms) \in Nat
    BY <1>1, <1>4, <2>1, SumFacts
  <2> QED  BY <2>2, <2>3
<1>7. SumFunctionOnSet(f, some) <= SumFunctionOnSet(all, QueryTerms)
  BY <1>1, <1>4, <1>5, SumBound
<1>8. ASSUME \A t \in QueryTerms \ some : d \notin DocsOf(t)
      PROVE  SumFunctionOnSet(all, QueryTerms) <= SumFunctionOnSet(f, some)
  <2>1. \A t \in QueryTerms : all[t] # 0 => same[t] \in some /\ all[t] <= f[same[t]]
    BY <1>4, <1>8
  <2>2. Matched(all, QueryTerms, f, some, same)
    BY <1>4, <2>1 DEF Matched
  <2> QED  BY <1>1, <1>4, <2>2, SumBound
<1> QED  BY <1>2, <1>3, <1>6, <1>7, <1>8

(* The enumerators at the head of the order that are at the pivot's document *)
(* are all that are at it.                                                   *)
LEMMA AllAtPivot ==
  ASSUME QInv, kind = "wand", pc = "loop", NEW pivot \in Pivots,
         PivotDoc(pivot) = docid[order[1]]
  PROVE  {order[n] : n \in AtPivot(pivot)} = {t \in QueryTerms : docid[t] = PivotDoc(pivot)}
<1> DEFINE P == PivotDoc(pivot)
<1>1. /\ docid \in [QueryTerms -> Nat] /\ Len(order) \in Nat \ {0}
      /\ \A j \in 1 .. Len(order) : order[j] \in QueryTerms
      /\ \A t \in QueryTerms : \E j \in 1 .. Len(order) : order[j] = t
  BY InLoop DEF QInv
<1>2. InOrder(order, docid) /\ \A t \in QueryTerms : docid[order[1]] <= docid[t]
  BY WandTurnFacts
<1>3. ASSUME NEW t \in QueryTerms, docid[t] = P  PROVE \E n \in AtPivot(pivot) : order[n] = t
  <2>1. PICK n \in 1 .. Len(order) : order[n] = t
    BY <1>1
  <2>2. ASSUME NEW m \in 1 .. n  PROVE docid[order[m]] = P
    <3>1. m \in 1 .. Len(order) /\ m <= n
      BY <1>1
    <3>2. docid[order[m]] <= docid[order[n]] /\ docid[order[1]] <= docid[order[m]]
      BY <1>1, <1>2, <3>1 DEF InOrder
    <3>3. docid[order[m]] \in Nat /\ docid[order[n]] = P /\ P \in Nat /\ docid[order[1]] = P
      BY <1>1, <1>3, <2>1, <3>1
    <3> HIDE DEF P
    <3> QED  BY <3>2, <3>3
  <2>3. n \in AtPivot(pivot)
    BY <2>2 DEF AtPivot
  <2> QED  BY <2>1, <2>3
<1>4. ASSUME NEW n \in AtPivot(pivot)  PROVE order[n] \in QueryTerms /\ docid[order[n]] = P
  <2>1. n \in 1 .. Len(order) /\ \A m \in 1 .. n : docid[order[m]] = P
    BY DEF AtPivot
  <2>2. n \in 1 .. n
    BY <1>1, <2>1
  <2> QED  BY <1>1, <2>1, <2>2
<1> QED  BY <1>3, <1>4

LEMMA ScorePivotKeeps ==
  ASSUME QInv, WandStep, pc = "loop", NEW pivot \in Pivots, ScorePivot(pivot)  PROVE QInv'
<1>1. PICK p : p = docid[order[1]]
  OBVIOUS
<1> DEFINE matching == {t \in QueryTerms : docid[t] = p}
           f == [t \in matching |-> WeightOf(t, p)]
<1>2. weight' = weight /\ k' = k /\ kind' = kind /\ kind = "wand" /\ pc' = "loop"
      /\ PivotDoc(pivot) = p /\ order' \in Sortings(docid')
  BY <1>1 DEF WandStep, ScorePivot
<1>3. /\ Query /\ Ordered /\ QueryTerms # {} /\ NumDocs \in Nat /\ k \in Nat \ {0}
      /\ topk \in Queues(k) /\ docid \in [QueryTerms -> Nat]
      /\ \A t \in QueryTerms : docid[t] \in DocsOf(t) \cup {NumDocs}
      /\ \A t \in QueryTerms : DocsOf(t) \in SUBSET (0 .. NumDocs - 1)
      /\ IsFiniteSet(QueryTerms)
  BY <1>2, InLoop, ListFacts DEF QInv
<1>4. /\ p \in 0 .. NumDocs /\ topk = Best(AnyBefore(p))
      /\ \A t \in QueryTerms : p <= docid[t]
      /\ \A d \in AnyTerm : d >= p /\ JumpedOver(d) => ~WouldEnter(topk, k, Score(d))
      /\ AnyTerm \in SUBSET (0 .. NumDocs - 1)
  BY <1>1, <1>2, <1>3, WandTurnFacts, ListFacts
<1>5. p \in AnyTerm /\ p < NumDocs /\ p \in Nat
  BY <1>2, PivotFacts
<1>6. {order[n] : n \in AtPivot(pivot)} = matching
  BY <1>1, <1>2, AllAtPivot
<1>7. /\ topk' = Insert(topk, k, SumFunction(f))
      /\ docid' = [t \in QueryTerms |-> IF t \in matching THEN Geq(t, p + 1) ELSE docid[t]]
  <2>1. /\ topk' = Insert(topk, k, SumFunction([t \in matching |-> WeightOf(t, docid[t])]))
        /\ docid' = [t \in QueryTerms |-> IF t \in matching THEN AfterPivot(t) ELSE docid[t]]
    <3> HIDE DEF matching, f
    <3> QED  BY <1>6, Zenon DEF ScorePivot
  <2>2. [t \in matching |-> WeightOf(t, docid[t])] = f
    OBVIOUS
  <2>3. \A t \in matching : AfterPivot(t) = Geq(t, p + 1)
    BY DEF AfterPivot, After, Geq
  <2> HIDE DEF matching, f
  <2>4. docid' = [t \in QueryTerms |-> IF t \in matching THEN Geq(t, p + 1) ELSE docid[t]]
    BY <2>1, <2>3
  <2> QED  BY <2>1, <2>2, <2>4
<1>8. ASSUME NEW t \in QueryTerms
      PROVE  /\ docid[t] = p => /\ docid'[t] = Geq(t, p + 1)
                                /\ docid'[t] \in DocsOf(t) \cup {NumDocs}
                                /\ docid'[t] \in Nat /\ docid'[t] > p
                                /\ \A e \in DocsOf(t) : e > p => docid'[t] <= e
             /\ docid[t] # p => docid'[t] = docid[t] /\ docid'[t] > p
  <2>1. docid[t] = p => docid'[t] = Geq(t, p + 1)
    BY <1>7
  <2>2. docid[t] # p => docid'[t] = docid[t]
    BY <1>7
  <2>3. p + 1 \in Int /\ p + 1 > p
    BY <1>5
  <2>4. PICK g : g = Geq(t, p + 1)
    OBVIOUS
  <2>5. /\ g \in DocsOf(t) \cup {NumDocs} /\ g \in 0 .. NumDocs
        /\ g >= p + 1 \/ g = NumDocs
        /\ \A e \in DocsOf(t) : e >= p + 1 => g <= e
    BY <1>3, <2>3, <2>4, GeqIs
  <2>6. g > p /\ g \in Nat
    BY <1>3, <1>5, <2>5
  <2>7. \A e \in DocsOf(t) : e > p => g <= e
    <3>1. \A e \in DocsOf(t) : e \in Nat
      BY <1>3
    <3> QED  BY <1>5, <2>5, <3>1
  <2>8. docid[t] # p => docid[t] > p
    BY <1>3, <1>4, <1>5
  <2> QED  BY <2>1, <2>2, <2>4, <2>5, <2>6, <2>7, <2>8
<1>9. docid' \in [QueryTerms -> Nat]
  <2>1. DOMAIN docid' = QueryTerms /\ docid' = [t \in QueryTerms |-> docid'[t]]
    BY <1>7
  <2>2. \A t \in QueryTerms : docid'[t] \in Nat
    BY <1>3, <1>8
  <2> QED  BY <2>1, <2>2
<1>10. Permutes(order', QueryTerms) /\ InOrder(order', docid')
  <2>1. Permutes(order', QueryTerms)
    BY <1>2, <1>3, SortingsPermute
  <2>2. \A j \in 1 .. Len(order') - 1 : docid'[order'[j]] <= docid'[order'[j + 1]]
    BY <1>2 DEF Sortings
  <2> QED  BY <1>9, <2>1, <2>2, SortedByDocid
<1> HIDE DEF f
<1>11. SumFunction(f) \in Nat /\ SumFunction(f) <= Score(p) /\ Score(p) \in Nat
       /\ ((\A t \in QueryTerms \ matching : p \notin DocsOf(t)) => SumFunction(f) = Score(p))
  <2>1. matching \in SUBSET QueryTerms
    OBVIOUS
  <2> HIDE DEF matching
  <2> QED  BY <1>3, <2>1, ScoreOfSome, ScoreFacts DEF f
<1>12. topk' = Insert(topk, k, Score(p)) /\ topk' \in Queues(k)
  <2>1. CASE \A t \in QueryTerms \ matching : p \notin DocsOf(t)
    BY <1>3, <1>7, <1>11, <2>1, InsertFacts
  <2>2. CASE \E t \in QueryTerms \ matching : p \in DocsOf(t)
    <3>1. PICK t \in QueryTerms : docid[t] # p /\ p \in DocsOf(t)
      BY <2>2
    <3>2. p < docid[t]
      BY <1>8, <3>1
    <3>3. JumpedOver(p) /\ p >= p
      BY <1>5, <3>1, <3>2 DEF JumpedOver
    <3>4. ~WouldEnter(topk, k, Score(p))
      BY <1>4, <1>5, <3>3
    <3>5. ~WouldEnter(topk, k, SumFunction(f))
      BY <1>3, <1>11, <3>4, EnteringLess
    <3> QED  BY <1>3, <1>7, <1>11, <3>4, <3>5, InsertFacts
  <2> QED  BY <2>1, <2>2
<1>13. Common' /\ Fresh'
  <2>1. \A t \in QueryTerms : docid'[t] \in DocsOf(t) \cup {NumDocs}
    BY <1>3, <1>8
  <2> QED  BY <1>2, <1>3, <1>9, <1>10, <1>12, <2>1, CommonStays DEF QInv
<1> DEFINE A == AnyBefore(p) \cup {p}
<1>14. Best(A) = topk' /\ A \in SUBSET AnyTerm
  <2>1. Scored(AnyTerm) /\ AnyBefore(p) \in SUBSET AnyTerm /\ p \in AnyTerm \ AnyBefore(p)
    BY <1>3, <1>5, ScoreFacts DEF AnyBefore
  <2> QED  BY <1>4, <1>12, <2>1, BestWithOneMore
<1>15. PICK q : q = docid'[order'[1]]
  OBVIOUS
<1>16. /\ q \in Nat /\ \A t \in QueryTerms : q <= docid'[t]
       /\ q > p
  <2>1. Len(order') \in Nat \ {0} /\ 1 \in 1 .. Len(order')
    <3>1. Cardinality(QueryTerms) # 0 /\ Cardinality(QueryTerms) \in Nat
      BY <1>3, FS_EmptySet, FS_CardinalityType
    <3> QED  BY <1>10, <3>1 DEF Permutes
  <2>2. order'[1] \in QueryTerms
    BY <1>10, <2>1 DEF Permutes
  <2>3. ASSUME NEW t \in QueryTerms  PROVE q <= docid'[t]
    <3>1. PICK j \in 1 .. Len(order') : order'[j] = t
      BY <1>10 DEF Permutes
    <3> QED  BY <1>10, <1>15, <2>1, <3>1 DEF InOrder
  <2> QED  BY <1>8, <1>9, <1>15, <2>2, <2>3
<1>17. ASSUME NEW d \in AnyTerm, NEW t \in QueryTerms, d > p, d \in DocsOf(t), d < docid'[t]
       PROVE  ~WouldEnter(topk', k, Score(d))
  <2>1. d \in Nat /\ d >= p
    BY <1>4, <1>5, <1>17
  <2>2. docid[t] # p
    <3> SUFFICES ASSUME docid[t] = p PROVE FALSE
      OBVIOUS
    <3>1. docid'[t] <= d /\ docid'[t] \in Nat
      BY <1>8, <1>17
    <3> QED  BY <1>17, <2>1, <3>1
  <2>3. JumpedOver(d)
    BY <1>8, <1>17, <2>2 DEF JumpedOver
  <2>4. ~WouldEnter(topk, k, Score(d)) /\ Score(d) \in Nat
    BY <1>3, <1>4, <2>1, <2>3, ScoreFacts
  <2> QED  BY <1>3, <1>11, <1>12, <2>4, InsertFacts
<1>18. topk' = Best(AnyBefore(q))
  <2>1. \A d \in A : d < q
    <3>1. \A d \in AnyTerm : d \in Nat
      BY <1>3, <1>4
    <3> QED  BY <1>5, <1>16, <3>1 DEF AnyBefore
  <2>2. ASSUME NEW d \in AnyTerm \ A, d < q  PROVE ~WouldEnter(Best(A), k, Score(d))
    <3>1. d \in Nat /\ d # p /\ ~(d < p)
      BY <1>3, <1>4, <2>2 DEF AnyBefore
    <3>2. d > p
      BY <1>5, <3>1
    <3>3. PICK t \in QueryTerms : d \in DocsOf(t)
      BY DEF AnyTerm
    <3>4. d < docid'[t]
      BY <1>9, <1>16, <2>2, <3>1, <3>3
    <3> QED  BY <1>14, <1>17, <3>2, <3>3, <3>4
  <2> HIDE DEF A
  <2>3. Best(AnyBefore(q)) = Best(A)
    BY <1>3, <1>14, <1>16, <2>1, <2>2, FoundAfterAll
  <2> QED  BY <1>14, <2>3
<1>19. ASSUME NEW d \in AnyTerm, NEW t \in QueryTerms, d >= q, d \in DocsOf(t), d < docid'[t]
       PROVE  ~WouldEnter(topk', k, Score(d))
  <2>1. d \in Nat
    BY <1>3, <1>4
  <2>2. d > p
    BY <1>5, <1>16, <1>19, <2>1
  <2> QED  BY <1>17, <1>19, <2>2
<1> QED  BY <1>2, <1>10, <1>13, <1>15, <1>18, <1>19, WandLoopState

LEMMA WandKeeps ==
  ASSUME QInv, WandStep  PROVE QInv'
<1>1. EmptyQuery \/ WandStart \/ WandTurn \/ WandFinish
  BY DEF WandStep, WandNext
<1>2. ASSUME WandTurn  PROVE QInv'
  <2>1. PICK pivot \in Pivots : ScorePivot(pivot) \/ AdvanceList(pivot)
    BY <1>2 DEF WandTurn
  <2>2. pc = "loop"
    BY <1>2 DEF WandTurn
  <2> QED  BY <2>1, <2>2, ScorePivotKeeps, AdvanceListKeeps
<1> QED  BY <1>1, <1>2, WandEmptyKeeps, WandStartKeeps, WandFinishKeeps

-----------------------------------------------------------------------------
(* maxscore_query.                                                           *)

(* What the rest of the invariant says after a step of the loop.             *)
LEMMA MaxscoreLoopState ==
  ASSUME QInv, MaxscoreStep, Common', Fresh', pc' \in {"essential", "complete"},
         NEW c \in AnyTerm \cup {NumDocs}, cur_doc' = c,
         NEW m \in 0 .. Cardinality(QueryTerms), non_essential' = m,
         NEW n \in 0 .. Cardinality(QueryTerms) + 1, i' = n,
         next_doc' \in 0 .. NumDocs, score' \in Nat,
         topk' = Best(AnyBefore(c)), NonEssential(c, m)',
         pc' = "essential" =>
           n > m /\ EssentialMoved(c, m, n)' /\ score' = PlacesScore(c, m + 1 .. n - 1)',
         pc' = "complete" =>
           /\ c \in AnyTerm /\ n <= m
           /\ EssentialMoved(c, m, Len(order) + 1)' /\ Completed(c, n, m)'
           /\ score' = PlacesScore(c, n + 1 .. Len(order))'
  PROVE  QInv'
<1>1. weight' = weight /\ k' = k /\ kind' = kind /\ kind = "maxscore"
  <2>1. [Next]_vars
    BY DEF Next, Step
  <2> QED  BY <2>1, QueryStays DEF MaxscoreStep
<1>2. QueryTerms' = QueryTerms /\ AnyTerm' = AnyTerm
  BY <1>1, SameQuery
<1>3. AnyBefore(cur_doc)' = AnyBefore(c)
  BY <1>2 DEF AnyBefore
<1>4. Best(AnyBefore(cur_doc))' = Best(AnyBefore(c))
  BY <1>1, <1>3, SameBest
<1>5. /\ pc' \in {"start", "essential", "complete", "done"} /\ pc' # "done"
      /\ non_essential' \in 0 .. Cardinality(QueryTerms')
      /\ cur_doc' \in AnyTerm' \cup {NumDocs}
      /\ i' \in 0 .. Cardinality(QueryTerms') + 1
      /\ topk' = Best(AnyBefore(cur_doc))'
  BY <1>2, <1>4
<1>6. NonEssential(cur_doc, non_essential)'
  BY DEF NonEssential
<1>7. pc' = "essential" =>
        /\ i' > non_essential'
        /\ EssentialMoved(cur_doc, non_essential, i)'
        /\ score' = PlacesScore(cur_doc, non_essential + 1 .. i - 1)'
  BY DEF EssentialMoved, PlacesScore
<1>8. pc' = "complete" =>
        /\ cur_doc' \in AnyTerm' /\ i' <= non_essential'
        /\ EssentialMoved(cur_doc, non_essential, Len(order) + 1)'
        /\ Completed(cur_doc, i, non_essential)'
        /\ score' = PlacesScore(cur_doc, i + 1 .. Len(order))'
  BY <1>2 DEF EssentialMoved, PlacesScore, Completed
<1>9. MaxscoreInv'
  BY <1>5, <1>6, <1>7, <1>8 DEF MaxscoreInv
<1>10. AndInv' /\ OrInv' /\ WandInv'
  BY <1>1 DEF AndInv, OrInv, WandInv
<1> QED  BY <1>9, <1>10 DEF QInv

(* And when the query returns.                                               *)
LEMMA MaxscoreDoneState ==
  ASSUME QInv, MaxscoreStep, Common', Fresh', pc' = "done", topk' = Best(AnyTerm),
         UNCHANGED maxscoreVars
  PROVE  QInv'
<1>1. weight' = weight /\ k' = k /\ kind' = kind /\ kind = "maxscore"
  <2>1. [Next]_vars
    BY DEF Next, Step
  <2> QED  BY <2>1, QueryStays DEF MaxscoreStep
<1>2. QueryTerms' = QueryTerms /\ AnyTerm' = AnyTerm
  BY <1>1, SameQuery
<1>3. Best(AnyTerm)' = Best(AnyTerm)
  BY <1>1, <1>2, SameBest
<1>4. /\ non_essential \in 0 .. Cardinality(QueryTerms)
      /\ cur_doc \in AnyTerm \cup {NumDocs} /\ next_doc \in 0 .. NumDocs
      /\ score \in Nat /\ i \in 0 .. Cardinality(QueryTerms) + 1
  BY <1>1 DEF QInv, MaxscoreInv
<1>5. MaxscoreInv'
  BY <1>1, <1>2, <1>3, <1>4 DEF MaxscoreInv, maxscoreVars
<1>6. WandInv' /\ AndInv' /\ OrInv'
  BY <1>1 DEF WandInv, AndInv, OrInv
<1> QED  BY <1>5, <1>6 DEF QInv

LEMMA MaxscoreEmptyKeeps ==
  ASSUME QInv, MaxscoreStep, MaxscoreEmpty  PROVE QInv'
<1>1. weight' = weight /\ k' = k /\ kind' = kind /\ topk' = <<>>
      /\ pc = "start" /\ pc' = "done" /\ QueryTerms = {} /\ order' = order /\ docid' = docid
      /\ UNCHANGED maxscoreVars
  BY DEF MaxscoreStep, MaxscoreEmpty, EmptyQuery, Cleared
<1>2. Query /\ Common /\ docid \in [QueryTerms -> Nat]
      /\ \A t \in QueryTerms : docid[t] \in DocsOf(t) \cup {NumDocs}
  BY DEF QInv, Common
<1>3. AnyTerm = {} /\ Best({}) = <<>> /\ <<>> \in Queues(k)
  BY <1>1, <1>2, NothingFound
<1>4. Common' /\ Fresh'
  BY <1>1, <1>2, <1>3, CommonStays DEF Common
<1> QED  BY <1>1, <1>3, <1>4, MaxscoreDoneState

LEMMA MaxscoreStartKeeps ==
  ASSUME QInv, MaxscoreStep, MaxscoreStart  PROVE QInv'
<1>1. weight' = weight /\ k' = k /\ kind' = kind /\ topk' = <<>> /\ kind = "maxscore"
      /\ pc = "start" /\ pc' = "essential" /\ QueryTerms # {} /\ docid' = docid
      /\ order' \in Sortings([t \in QueryTerms |-> MaxWeight(t)])
      /\ cur_doc' = MinDocid /\ next_doc' = next_doc /\ i' = i /\ score' = score
      /\ non_essential' = non_essential
  BY DEF MaxscoreStep, MaxscoreStart, NotEmpty, Cleared
<1>2. /\ Query /\ Common /\ docid \in [QueryTerms -> Nat] /\ NumDocs \in Nat
      /\ \A t \in QueryTerms : docid[t] \in DocsOf(t) \cup {NumDocs}
      /\ \A t \in QueryTerms : docid[t] = First(t)
      /\ IsFiniteSet(QueryTerms) /\ Cardinality(QueryTerms) \in Nat
      /\ i = 1 /\ score = 0 /\ next_doc = NumDocs /\ non_essential = 0
  BY <1>1, ListFacts DEF QInv, Common, Fresh
<1>3. Permutes(order', QueryTerms)
  BY <1>1, <1>2, SortingsPermute
<1>4. Best({}) = <<>> /\ <<>> \in Queues(k)
  BY <1>2, NothingFound
<1>5. Common' /\ Fresh'
  BY <1>1, <1>2, <1>3, <1>4, CommonStays
<1>6. /\ MinDocid \in AnyTerm /\ AnyBefore(MinDocid) = {}
      /\ \A t \in QueryTerms : docid[t] = Geq(t, MinDocid)
  BY <1>1, <1>2, MinDocidFacts
<1>7. PICK c : c = MinDocid
  OBVIOUS
<1>8. c \in AnyTerm /\ cur_doc' = c /\ topk' = Best(AnyBefore(c))
  BY <1>1, <1>4, <1>6, <1>7
<1>9. \A j \in 1 .. Len(order') : docid'[order'[j]] = Geq(order'[j], c)
  BY <1>1, <1>3, <1>6, <1>7 DEF Permutes
<1>10. \A j \in 0 + 1 .. 1 - 1 : FALSE
  OBVIOUS
<1>11. PlacesScore(c, 0 + 1 .. 1 - 1)' = 0
  <2> DEFINE f == [j \in 1 .. Len(order) |-> WeightOf(order[j], c)]
  <2>1. IsFiniteSet({}) /\ {} \in SUBSET {} /\ \A x \in {} : f'[x] \in Nat
    BY FS_EmptySet
  <2>2. SumFunctionOnSet(f', {}) = 0
    <3> HIDE DEF f
    <3> QED  BY <2>1, SumFacts
  <2>3. 0 + 1 .. 1 - 1 = {}
    OBVIOUS
  <2>4. PlacesScore(c, {})' = 0
    BY <2>2, Zenon DEF PlacesScore
  <2> QED  BY <2>3, <2>4
<1>12. EssentialMoved(c, 0, 1)'
  <2>1. \A t, d : Geq(t, d)' = Geq(t, d)
    BY <1>1, SameQuery
  <2>2. \A j \in 1 .. Len(order') : docid'[order'[j]] = Geq(order[j], c)'
    BY <1>9, <2>1
  <2>3. next_doc' = NumDocs
    BY <1>1, <1>2
  <2> QED  BY <1>10, <2>2, <2>3 DEF EssentialMoved
<1>13. NonEssential(c, 0)'
  <2>1. (\A j \in 1 .. 0 : FALSE) /\ ~(0 > 0)
    OBVIOUS
  <2> QED  BY <2>1 DEF NonEssential
<1>14. /\ 0 \in 0 .. Cardinality(QueryTerms) /\ 1 \in 0 .. Cardinality(QueryTerms) + 1
       /\ 1 > 0 /\ next_doc' \in 0 .. NumDocs /\ score' \in Nat /\ score' = 0
       /\ i' = 1 /\ non_essential' = 0 /\ pc' \in {"essential", "complete"}
       /\ pc' # "complete" /\ c \in AnyTerm \cup {NumDocs}
  BY <1>1, <1>2, <1>8
<1> QED  BY <1>5, <1>8, <1>11, <1>12, <1>13, <1>14, MaxscoreLoopState

(* What holds at every turn of the loop.                                     *)
LEMMA MaxscoreTurnFacts ==
  ASSUME QInv, kind = "maxscore", pc \in {"essential", "complete"},
         NEW c, c = cur_doc, NEW m, m = non_essential, NEW n, n = i
  PROVE  /\ c \in AnyTerm \cup {NumDocs} /\ c \in 0 .. NumDocs /\ c + 1 \in Int
         /\ m \in 0 .. Len(order) /\ n \in 0 .. Len(order) + 1
         /\ next_doc \in 0 .. NumDocs /\ score \in Nat
         /\ topk = Best(AnyBefore(c)) /\ NonEssential(c, m)
         /\ pc = "essential" =>
              n > m /\ EssentialMoved(c, m, n) /\ score = PlacesScore(c, m + 1 .. n - 1)
         /\ pc = "complete" =>
              /\ c \in AnyTerm /\ n <= m
              /\ EssentialMoved(c, m, Len(order) + 1) /\ Completed(c, n, m)
              /\ score = PlacesScore(c, n + 1 .. Len(order))
<1>1. Len(order) = Cardinality(QueryTerms) /\ Query /\ NumDocs \in Nat
  BY InLoop DEF QInv
<1>2. AnyTerm \in SUBSET (0 .. NumDocs - 1)
  BY <1>1, ListFacts
<1>3. c \in AnyTerm \cup {NumDocs}
  BY DEF QInv, MaxscoreInv
<1>4. c \in 0 .. NumDocs /\ c + 1 \in Int
  BY <1>1, <1>2, <1>3
<1> QED  BY <1>1, <1>3, <1>4 DEF QInv, MaxscoreInv

LEMMA VisitEssentialKeeps ==
  ASSUME QInv, MaxscoreStep, VisitEssential  PROVE QInv'
<1>1. PICK c : c = cur_doc
  OBVIOUS
<1>2. PICK m : m = non_essential
  OBVIOUS
<1>3. PICK n : n = i
  OBVIOUS
<1>4. weight' = weight /\ k' = k /\ kind' = kind /\ topk' = topk /\ kind = "maxscore"
      /\ pc = "essential" /\ pc' = "essential" /\ order' = order /\ c < NumDocs
      /\ m < Len(order) /\ n <= Len(order) /\ i' = n + 1
      /\ cur_doc' = c /\ non_essential' = m
  BY <1>1, <1>2, <1>3 DEF MaxscoreStep, VisitEssential, MaxscoreSearching
<1>5. /\ Query /\ Ordered /\ QueryTerms # {}
      /\ topk \in Queues(k) /\ docid \in [QueryTerms -> Nat]
      /\ \A t \in QueryTerms : docid[t] \in DocsOf(t) \cup {NumDocs}
      /\ Len(order) \in Nat \ {0} /\ Len(order) = Cardinality(QueryTerms)
      /\ \A j \in 1 .. Len(order) : order[j] \in QueryTerms
      /\ \A j, l \in 1 .. Len(order) : order[j] = order[l] => j = l
      /\ NumDocs \in Nat \ {0}
  BY <1>4, InLoop DEF QInv
<1>6. /\ c \in AnyTerm \cup {NumDocs} /\ c \in 0 .. NumDocs /\ c + 1 \in Int
      /\ m \in 0 .. Len(order) /\ n \in 0 .. Len(order) + 1 /\ n > m
      /\ next_doc \in 0 .. NumDocs /\ score \in Nat
      /\ topk = Best(AnyBefore(c)) /\ NonEssential(c, m)
      /\ EssentialMoved(c, m, n) /\ score = PlacesScore(c, m + 1 .. n - 1)
  BY <1>1, <1>2, <1>3, <1>4, MaxscoreTurnFacts
<1>7. /\ \A j \in m + 1 .. n - 1 : docid[order[j]] = Geq(order[j], c + 1)
      /\ \A j \in n .. Len(order) : docid[order[j]] = Geq(order[j], c)
      /\ \A j \in m + 1 .. n - 1 : next_doc <= docid[order[j]]
      /\ next_doc = NumDocs \/ \E j \in m + 1 .. n - 1 : next_doc = docid[order[j]]
  BY <1>6 DEF EssentialMoved
<1>8. c \in Nat /\ n \in 1 .. Len(order) /\ m + 1 \in 1 .. n /\ n \in Nat /\ m \in Nat
  BY <1>4, <1>5, <1>6
<1> DEFINE t1 == order[n]
           g == Geq(t1, c + 1)
<1>9. t1 \in QueryTerms /\ docid[t1] = Geq(t1, c)
  <2>1. n \in n .. Len(order)
    BY <1>5, <1>8
  <2> QED  BY <1>5, <1>7, <1>8, <2>1
<1>10. g \in DocsOf(t1) \cup {NumDocs} /\ g \in 0 .. NumDocs
  <2> HIDE DEF t1
  <2> QED  BY <1>5, <1>6, <1>9, GeqIs
<1>11. /\ docid' \in [QueryTerms -> Nat]
       /\ docid'[t1] = g
       /\ \A t \in QueryTerms \ {t1} : docid'[t] = docid[t]
       /\ score' = score + WeightOf(t1, c)
  <2>1. CASE docid[t1] = c
    <3>1. docid' = [docid EXCEPT ![t1] = g] /\ score' = score + WeightOf(t1, c)
      <4>1. MaxscoreAfterDoc(t1) = g
        BY <2>1 DEF MaxscoreAfterDoc, After, Geq
      <4> QED  BY <1>1, <1>3, <2>1, <4>1, Zenon DEF VisitEssential
    <3> HIDE DEF t1, g
    <3> QED  BY <1>5, <1>9, <1>10, <3>1
  <2>2. CASE docid[t1] # c
    <3>1. docid' = docid /\ score' = score
      BY <1>1, <1>3, <2>2, Zenon DEF VisitEssential
    <3>2. g = docid[t1] /\ WeightOf(t1, c) = 0
      BY <1>5, <1>8, <1>9, <2>2, GeqAfter
    <3> HIDE DEF t1, g
    <3> QED  BY <1>5, <1>6, <3>1, <3>2
  <2> QED  BY <2>1, <2>2
<1>12. next_doc' = IF g < next_doc THEN g ELSE next_doc
  <2>1. next_doc' = IF docid'[t1] < next_doc THEN docid'[t1] ELSE next_doc
    BY <1>3, Zenon DEF VisitEssential
  <2> QED  BY <1>11, <2>1
<1>13. Common' /\ Fresh'
  <2>1. \A t \in QueryTerms : docid'[t] \in DocsOf(t) \cup {NumDocs}
    <3> HIDE DEF g, t1
    <3> QED  BY <1>5, <1>10, <1>11
  <2>2. Permutes(order', QueryTerms) /\ pc' # "start" /\ topk' \in Queues(k)
    BY <1>4, <1>5 DEF Ordered
  <2> QED  BY <1>4, <1>5, <1>11, <2>1, <2>2, CommonStays DEF QInv
<1>14. ASSUME NEW j \in 1 .. Len(order), j # n  PROVE docid'[order[j]] = docid[order[j]]
  <2>1. order[j] \in QueryTerms \ {t1}
    BY <1>5, <1>8, <1>14
  <2> QED  BY <1>11, <2>1
<1>15. docid'[order[n]] = g
  BY <1>11
<1>16. ASSUME NEW j \in m + 1 .. n
       PROVE  docid'[order[j]] = Geq(order[j], c + 1) /\ next_doc' <= docid'[order[j]]
  <2>1. CASE j = n
    <3> HIDE DEF g
    <3>1. docid'[order[j]] = g /\ next_doc' <= g
      BY <1>6, <1>10, <1>12, <1>15, <2>1
    <3> QED  BY <2>1, <3>1 DEF g
  <2>2. CASE j # n
    <3>1. j \in m + 1 .. n - 1 /\ j \in 1 .. Len(order)
      BY <1>5, <1>8, <2>2
    <3>2. docid'[order[j]] = docid[order[j]]
      BY <1>14, <2>2, <3>1
    <3>3. docid[order[j]] = Geq(order[j], c + 1) /\ next_doc <= docid[order[j]]
          /\ docid[order[j]] \in Nat
      BY <1>5, <1>7, <3>1
    <3> HIDE DEF g
    <3>4. next_doc' <= next_doc /\ next_doc' \in Nat
      BY <1>6, <1>10, <1>12
    <3>5. next_doc' <= docid[order[j]]
      BY <1>6, <3>3, <3>4
    <3> QED  BY <3>2, <3>3, <3>5
  <2> QED  BY <2>1, <2>2
<1>17. ASSUME NEW j \in n + 1 .. Len(order)  PROVE docid'[order[j]] = Geq(order[j], c)
  <2>1. j \in 1 .. Len(order) /\ j # n /\ j \in n .. Len(order)
    BY <1>5, <1>8
  <2> QED  BY <1>7, <1>14, <2>1
<1>18. next_doc' = NumDocs \/ \E j \in m + 1 .. n : next_doc' = docid'[order[j]]
  <2>1. CASE g < next_doc
    <3>1. n \in m + 1 .. n /\ next_doc' = docid'[order[n]]
      BY <1>8, <1>12, <1>15, <2>1
    <3> QED  BY <3>1
  <2>2. CASE ~(g < next_doc) /\ next_doc # NumDocs
    <3>1. PICK j \in m + 1 .. n - 1 : next_doc = docid[order[j]]
      BY <1>7, <2>2
    <3>2. j \in 1 .. Len(order) /\ j # n /\ j \in m + 1 .. n
      BY <1>5, <1>8
    <3>3. next_doc' = docid'[order[j]]
      BY <1>12, <1>14, <2>2, <3>1, <3>2
    <3> QED  BY <3>2, <3>3
  <2>3. CASE ~(g < next_doc) /\ next_doc = NumDocs
    BY <1>12, <2>3
  <2> QED  BY <2>1, <2>2, <2>3
<1>19. (n + 1) - 1 = n /\ n + 1 \in 0 .. Cardinality(QueryTerms) + 1 /\ n + 1 > m
       /\ m \in 0 .. Cardinality(QueryTerms)
  BY <1>5, <1>6, <1>8
<1>20. \A t, d : Geq(t, d)' = Geq(t, d)
  BY <1>4, SameQuery
<1>21. EssentialMoved(c, m, n + 1)'
  <2> HIDE DEF g
  <2> QED  BY <1>4, <1>16, <1>17, <1>18, <1>19, <1>20 DEF EssentialMoved
<1>22. score' = PlacesScore(c, m + 1 .. n)' /\ score' \in Nat
  <2>1. PlacesScore(c, m + 1 .. n) = WeightOf(t1, c) + PlacesScore(c, m + 1 .. n - 1)
    BY <1>5, <1>8, NextPlace
  <2>2. WeightOf(t1, c) \in Nat
    BY <1>5, <1>9, ListFacts
  <2>3. PlacesScore(c, m + 1 .. n)' = PlacesScore(c, m + 1 .. n)
    BY <1>4, SamePlaces
  <2> QED  BY <1>6, <1>11, <2>1, <2>2, <2>3, SMTT(30)
<1>23. NonEssential(c, m)'
  <2>1. UpperBound(m)' = UpperBound(m)
    BY <1>4, SameBound
  <2>2. ASSUME NEW j \in 1 .. m  PROVE docid'[order[j]] = docid[order[j]]
    <3>1. j \in 1 .. Len(order) /\ j # n
      BY <1>5, <1>8
    <3> QED  BY <1>14, <3>1
  <2>3. ~WouldEnter(topk, k, UpperBound(m)) => ~WouldEnter(topk', k', UpperBound(m)')
    BY <1>4, <2>1
  <2>4. m > 0 => ~WouldEnter(topk', k', UpperBound(m)')
    BY <1>6, <2>3 DEF NonEssential
  <2>5. \A j \in 1 .. m : docid'[order'[j]] > c => docid'[order'[j]] = Geq(order[j], c)'
    BY <1>4, <1>6, <1>20, <2>2 DEF NonEssential
  <2> QED  BY <2>4, <2>5 DEF NonEssential, WouldEnter
<1>24. next_doc' \in 0 .. NumDocs
  <2> HIDE DEF g
  <2> QED  BY <1>6, <1>10, <1>12
<1>25. /\ pc' \in {"essential", "complete"} /\ pc' # "complete"
       /\ topk' = Best(AnyBefore(c)) /\ score' = PlacesScore(c, m + 1 .. (n + 1) - 1)'
  BY <1>4, <1>6, <1>19, <1>22
<1> QED  BY <1>4, <1>6, <1>13, <1>19, <1>21, <1>22, <1>23, <1>24, <1>25, MaxscoreLoopState

(* The essential lists are looked at, the others are next.                   *)
LEMMA TurnBackKeeps ==
  ASSUME QInv, MaxscoreStep, TurnBack  PROVE QInv'
<1>1. PICK c : c = cur_doc
  OBVIOUS
<1>2. PICK m : m = non_essential
  OBVIOUS
<1>3. PICK n : n = i
  OBVIOUS
<1>4. weight' = weight /\ k' = k /\ kind' = kind /\ topk' = topk /\ kind = "maxscore"
      /\ pc = "essential" /\ pc' = "complete" /\ order' = order /\ docid' = docid
      /\ c < NumDocs /\ n > Len(order) /\ i' = m
      /\ cur_doc' = c /\ non_essential' = m /\ next_doc' = next_doc /\ score' = score
  BY <1>1, <1>2, <1>3 DEF MaxscoreStep, TurnBack, MaxscoreSearching
<1>5. /\ Query /\ Ordered /\ QueryTerms # {}
      /\ topk \in Queues(k) /\ docid \in [QueryTerms -> Nat]
      /\ \A t \in QueryTerms : docid[t] \in DocsOf(t) \cup {NumDocs}
      /\ Len(order) \in Nat \ {0} /\ Len(order) = Cardinality(QueryTerms)
      /\ NumDocs \in Nat
  BY <1>4, InLoop DEF QInv
<1>6. /\ c \in AnyTerm \cup {NumDocs} /\ c \in 0 .. NumDocs
      /\ m \in 0 .. Len(order) /\ n \in 0 .. Len(order) + 1
      /\ next_doc \in 0 .. NumDocs /\ score \in Nat
      /\ topk = Best(AnyBefore(c)) /\ NonEssential(c, m)
      /\ EssentialMoved(c, m, n) /\ score = PlacesScore(c, m + 1 .. n - 1)
  BY <1>1, <1>2, <1>3, <1>4, MaxscoreTurnFacts
<1>7. n = Len(order) + 1 /\ n - 1 = Len(order) /\ c \in AnyTerm
  BY <1>4, <1>5, <1>6
<1>8. Common' /\ Fresh'
  <2>1. Permutes(order', QueryTerms) /\ pc' # "start"
    BY <1>4, <1>5 DEF Ordered
  <2> QED  BY <1>4, <1>5, <2>1, CommonStays DEF QInv
<1>9. \A t, d : Geq(t, d)' = Geq(t, d)
  BY <1>4, SameQuery
<1>10. EssentialMoved(c, m, Len(order) + 1)'
  BY <1>4, <1>6, <1>7, <1>9 DEF EssentialMoved
<1>11. NonEssential(c, m)'
  <2>1. UpperBound(m)' = UpperBound(m)
    BY <1>4, SameBound
  <2> QED  BY <1>4, <1>6, <1>9, <2>1 DEF NonEssential, WouldEnter
<1>12. Completed(c, m, m)'
  <2>1. \A j \in m + 1 .. m : FALSE
    BY <1>5, <1>6
  <2> QED  BY <2>1 DEF Completed
<1>13. score' = PlacesScore(c, m + 1 .. Len(order))'
  <2>1. PlacesScore(c, m + 1 .. Len(order))' = PlacesScore(c, m + 1 .. Len(order))
    BY <1>4, SamePlaces
  <2> QED  BY <1>4, <1>6, <1>7, <2>1
<1>14. /\ pc' \in {"essential", "complete"} /\ pc' # "essential" /\ m <= m
       /\ m \in 0 .. Cardinality(QueryTerms) /\ m \in 0 .. Cardinality(QueryTerms) + 1
       /\ next_doc' \in 0 .. NumDocs /\ score' \in Nat /\ topk' = Best(AnyBefore(c))
  BY <1>4, <1>5, <1>6
<1> QED  BY <1>4, <1>6, <1>7, <1>8, <1>10, <1>11, <1>12, <1>13, <1>14, MaxscoreLoopState

(* One more list is moved to the candidate, forward or not.                  *)
LEMMA CompleteScoreKeeps ==
  ASSUME QInv, MaxscoreStep, CompleteScore  PROVE QInv'
<1>1. PICK c : c = cur_doc
  OBVIOUS
<1>2. PICK m : m = non_essential
  OBVIOUS
<1>3. PICK n : n = i
  OBVIOUS
<1>4. weight' = weight /\ k' = k /\ kind' = kind /\ topk' = topk /\ kind = "maxscore"
      /\ pc = "complete" /\ pc' = "complete" /\ order' = order
      /\ n > 0 /\ i' = n - 1
      /\ cur_doc' = c /\ non_essential' = m /\ next_doc' = next_doc
  BY <1>1, <1>2, <1>3 DEF MaxscoreStep, CompleteScore, MayStillEnter
<1>5. /\ Query /\ Ordered /\ QueryTerms # {}
      /\ topk \in Queues(k) /\ docid \in [QueryTerms -> Nat]
      /\ \A t \in QueryTerms : docid[t] \in DocsOf(t) \cup {NumDocs}
      /\ Len(order) \in Nat \ {0} /\ Len(order) = Cardinality(QueryTerms)
      /\ \A j \in 1 .. Len(order) : order[j] \in QueryTerms
      /\ \A j, l \in 1 .. Len(order) : order[j] = order[l] => j = l
      /\ NumDocs \in Nat
  BY <1>4, InLoop DEF QInv
<1>6. /\ c \in AnyTerm /\ c \in 0 .. NumDocs
      /\ m \in 0 .. Len(order) /\ n \in 0 .. Len(order) + 1 /\ n <= m
      /\ next_doc \in 0 .. NumDocs /\ score \in Nat
      /\ topk = Best(AnyBefore(c)) /\ NonEssential(c, m)
      /\ EssentialMoved(c, m, Len(order) + 1) /\ Completed(c, n, m)
      /\ score = PlacesScore(c, n + 1 .. Len(order))
  BY <1>1, <1>2, <1>3, <1>4, MaxscoreTurnFacts
<1>7. n \in 1 .. Len(order) /\ n \in Nat /\ m \in Nat /\ c \in Int
  BY <1>4, <1>5, <1>6
<1> DEFINE t1 == order[n]
           g == Geq(t1, c)
<1>8. t1 \in QueryTerms
  BY <1>5, <1>7
<1>9. g \in DocsOf(t1) \cup {NumDocs} /\ g \in 0 .. NumDocs
      /\ (g # c => WeightOf(t1, c) = 0) /\ WeightOf(t1, c) \in Nat
  <2>1. g \in DocsOf(t1) \cup {NumDocs} /\ g \in 0 .. NumDocs
    BY <1>5, <1>7, <1>8, GeqIs
  <2>2. c \in Nat
    BY <1>6
  <2>3. g # c => WeightOf(t1, c) = 0
    BY <1>5, <1>8, <2>2, GeqAfter
  <2> QED  BY <1>5, <1>8, <2>1, <2>3, ListFacts
<1>10. /\ docid' \in [QueryTerms -> Nat]
       /\ docid'[t1] = g
       /\ \A t \in QueryTerms \ {t1} : docid'[t] = docid[t]
  <2>1. docid' = [docid EXCEPT ![t1] = g]
    BY <1>1, <1>3 DEF CompleteScore, MaxscoreJumpTo
  <2> HIDE DEF g, t1
  <2> QED  BY <1>5, <1>8, <1>9, <2>1
<1>11. score' = score + WeightOf(t1, c)
  <2>1. score' = IF docid'[t1] = c THEN score + WeightOf(t1, c) ELSE score
    BY <1>1, <1>3, Zenon DEF CompleteScore
  <2> HIDE DEF g, t1
  <2> QED  BY <1>6, <1>9, <1>10, <2>1
<1>12. Common' /\ Fresh'
  <2>1. \A t \in QueryTerms : docid'[t] \in DocsOf(t) \cup {NumDocs}
    <3> HIDE DEF g, t1
    <3> QED  BY <1>5, <1>9, <1>10
  <2>2. Permutes(order', QueryTerms) /\ pc' # "start" /\ topk' \in Queues(k)
    BY <1>4, <1>5 DEF Ordered
  <2> QED  BY <1>4, <1>5, <1>10, <2>1, <2>2, CommonStays DEF QInv
<1>13. ASSUME NEW j \in 1 .. Len(order), j # n  PROVE docid'[order[j]] = docid[order[j]]
  <2>1. order[j] \in QueryTerms \ {t1}
    BY <1>5, <1>7, <1>13
  <2> QED  BY <1>10, <2>1
<1>14. docid'[order[n]] = Geq(order[n], c)
  BY <1>10
<1>15. \A t, d : Geq(t, d)' = Geq(t, d)
  BY <1>4, SameQuery
<1>16. EssentialMoved(c, m, Len(order) + 1)'
  <2>1. ASSUME NEW j \in m + 1 .. (Len(order) + 1) - 1
        PROVE  docid'[order[j]] = docid[order[j]] /\ order[j] \in QueryTerms
    <3>1. j \in 1 .. Len(order) /\ j # n
      BY <1>5, <1>6, <1>7
    <3> QED  BY <1>5, <1>13, <3>1
  <2>2. \A j \in Len(order) + 1 .. Len(order) : FALSE
    BY <1>5
  <2> HIDE DEF g
  <2>3. /\ \A j \in m + 1 .. (Len(order) + 1) - 1 : docid'[order[j]] = Geq(order[j], c + 1)
        /\ \A j \in m + 1 .. (Len(order) + 1) - 1 : next_doc <= docid'[order[j]]
        /\ next_doc = NumDocs
             \/ \E j \in m + 1 .. (Len(order) + 1) - 1 : next_doc = docid'[order[j]]
    BY <1>6, <2>1 DEF EssentialMoved
  <2> QED  BY <1>4, <1>15, <2>2, <2>3 DEF EssentialMoved
<1>17. ASSUME NEW j \in 1 .. m, docid'[order[j]] > c  PROVE docid'[order[j]] = Geq(order[j], c)
  <2>1. CASE j = n
    BY <1>14, <2>1
  <2>2. CASE j # n
    <3>1. j \in 1 .. Len(order)
      BY <1>5, <1>6
    <3>2. docid'[order[j]] = docid[order[j]]
      BY <1>13, <2>2, <3>1
    <3> HIDE DEF g
    <3> QED  BY <1>6, <1>17, <3>2 DEF NonEssential
  <2> QED  BY <2>1, <2>2
<1>18. NonEssential(c, m)'
  <2>1. UpperBound(m)' = UpperBound(m)
    BY <1>4, SameBound
  <2>2. m > 0 => ~WouldEnter(topk, k, UpperBound(m))
    BY <1>6 DEF NonEssential
  <2>3. m > 0 => ~WouldEnter(topk', k', UpperBound(m)')
    BY <1>4, <2>1, <2>2
  <2>4. \A j \in 1 .. m : docid'[order'[j]] > c => docid'[order'[j]] = Geq(order[j], c)'
    BY <1>4, <1>15, <1>17
  <2> QED  BY <2>3, <2>4 DEF NonEssential, WouldEnter
<1>19. Completed(c, n - 1, m)'
  <2>1. ASSUME NEW j \in (n - 1) + 1 .. m  PROVE docid'[order[j]] = Geq(order[j], c)
    <3>1. CASE j = n
      BY <1>14, <3>1
    <3>2. CASE j # n
      <4>1. j \in 1 .. Len(order) /\ j \in n + 1 .. m
        BY <1>5, <1>6, <1>7, <3>2
      <4>2. docid'[order[j]] = docid[order[j]]
        BY <1>13, <3>2, <4>1
      <4> QED  BY <1>6, <4>1, <4>2 DEF Completed
    <3> QED  BY <3>1, <3>2
  <2> QED  BY <1>4, <1>15, <2>1 DEF Completed
<1>20. score' = PlacesScore(c, (n - 1) + 1 .. Len(order))' /\ score' \in Nat
  <2>1. Len(order) \in 1 .. Len(order) /\ n \in 1 .. Len(order)
    BY <1>5, <1>7
  <2>2. PlacesScore(c, n .. Len(order)) = WeightOf(t1, c) + PlacesScore(c, n + 1 .. Len(order))
    BY <1>5, <2>1, NextPlace, ZenonT(60)
  <2>3. PlacesScore(c, n .. Len(order))' = PlacesScore(c, n .. Len(order))
    BY <1>4, SamePlaces
  <2>4. (n - 1) + 1 = n
    BY <1>7
  <2>5. score + WeightOf(t1, c) = WeightOf(t1, c) + score /\ score + WeightOf(t1, c) \in Nat
    BY <1>6, <1>9
  <2> QED  BY <1>6, <1>11, <2>2, <2>3, <2>4, <2>5
<1>21. /\ pc' \in {"essential", "complete"} /\ pc' # "essential" /\ n - 1 <= m
       /\ m \in 0 .. Cardinality(QueryTerms) /\ n - 1 \in 0 .. Cardinality(QueryTerms) + 1
       /\ next_doc' \in 0 .. NumDocs /\ topk' = Best(AnyBefore(c))
       /\ c \in AnyTerm \cup {NumDocs}
  BY <1>4, <1>5, <1>6, <1>7
<1> QED  BY <1>4, <1>6, <1>12, <1>16, <1>18, <1>19, <1>20, <1>21, MaxscoreLoopState

(* How many lists are non essential next.                                    *)
LEMMA NonEssentialListsFacts ==
  ASSUME non_essential \in Nat, Len(order) \in Nat, non_essential <= Len(order)
  PROVE  /\ NonEssentialLists \in non_essential .. Len(order)
         /\ \A l \in non_essential .. NonEssentialLists - 1 :
              ~WouldEnter(topk', k, UpperBound(l + 1))
<1> DEFINE N == Len(order)
           m == non_essential
           stop == {n \in m .. N : n = N \/ WouldEnter(topk', k, UpperBound(n + 1))}
<1>1. N \in stop /\ stop \in SUBSET Nat
  OBVIOUS
<1>2. PICK n \in stop : \A l \in stop : n <= l
  <2> HIDE DEF stop
  <2> QED  BY <1>1, LeastNatural
<1>3. n \in m .. N /\ (n = N \/ WouldEnter(topk', k, UpperBound(n + 1)))
  BY <1>2
<1>4. ASSUME NEW l \in m .. n - 1  PROVE ~WouldEnter(topk', k, UpperBound(l + 1))
  <2>1. l \in m .. N /\ ~(n <= l)
    BY <1>3
  <2>2. l \notin stop
    <3> HIDE DEF stop
    <3> QED  BY <1>2, <2>1
  <2> QED  BY <2>1, <2>2
<1>5. \E l \in non_essential .. Len(order) :
        /\ l = Len(order) \/ WouldEnter(topk', k, UpperBound(l + 1))
        /\ \A j \in non_essential .. l - 1 : ~WouldEnter(topk', k, UpperBound(j + 1))
  BY <1>3, <1>4
<1> QED  BY <1>5, Zenon DEF NonEssentialLists

(* The document is done: its score is complete or cannot enter, and what is  *)
(* between it and the next one is in non essential lists only.               *)
LEMMA MaxscoreEndDocKeeps ==
  ASSUME QInv, MaxscoreStep, MaxscoreEndDoc  PROVE QInv'
<1>1. PICK c : c = cur_doc
  OBVIOUS
<1>2. PICK m : m = non_essential
  OBVIOUS
<1>3. PICK n : n = i
  OBVIOUS
<1>4. PICK e : e = next_doc
  OBVIOUS
<1> DEFINE N == Len(order)
<1>5. weight' = weight /\ k' = k /\ kind' = kind /\ kind = "maxscore"
      /\ pc = "complete" /\ pc' = "essential" /\ order' = order /\ docid' = docid
      /\ topk' = Insert(topk, k, score) /\ cur_doc' = e /\ next_doc' = NumDocs
      /\ score' = 0 /\ ~MayStillEnter
  BY <1>4 DEF MaxscoreStep, MaxscoreEndDoc
<1>6. /\ Query /\ Ordered /\ QueryTerms # {}
      /\ topk \in Queues(k) /\ k \in Nat \ {0} /\ docid \in [QueryTerms -> Nat]
      /\ \A t \in QueryTerms : docid[t] \in DocsOf(t) \cup {NumDocs}
      /\ \A t \in QueryTerms : DocsOf(t) \in SUBSET (0 .. NumDocs - 1)
      /\ N \in Nat \ {0} /\ N = Cardinality(QueryTerms)
      /\ \A j \in 1 .. N : order[j] \in QueryTerms
      /\ \A t \in QueryTerms : \E j \in 1 .. N : order[j] = t
      /\ NumDocs \in Nat \ {0}
  BY <1>5, InLoop DEF QInv
<1>7. /\ c \in AnyTerm /\ c \in 0 .. NumDocs /\ c + 1 \in Int
      /\ m \in 0 .. N /\ n \in 0 .. N + 1 /\ n <= m
      /\ e \in 0 .. NumDocs /\ score \in Nat
      /\ topk = Best(AnyBefore(c)) /\ NonEssential(c, m)
      /\ EssentialMoved(c, m, N + 1) /\ Completed(c, n, m)
      /\ score = PlacesScore(c, n + 1 .. N)
  BY <1>1, <1>2, <1>3, <1>4, <1>5, MaxscoreTurnFacts
<1>8. AnyTerm \in SUBSET (0 .. NumDocs - 1) /\ c \in Nat /\ c < NumDocs /\ (N + 1) - 1 = N
      /\ n \in 0 .. N /\ n \in Nat /\ m \in Nat /\ e \in Nat
  <2>1. AnyTerm \in SUBSET (0 .. NumDocs - 1)
    BY <1>6, ListFacts
  <2> QED  BY <1>6, <1>7, <2>1
<1>9. /\ \A j \in m + 1 .. N : docid[order[j]] = Geq(order[j], c + 1) /\ e <= docid[order[j]]
      /\ e = NumDocs \/ \E j \in m + 1 .. N : e = docid[order[j]]
  BY <1>4, <1>7, <1>8 DEF EssentialMoved
<1>10. e \in AnyTerm \cup {NumDocs} /\ c < e
  <2>1. CASE e = NumDocs
    BY <1>6, <1>8, <2>1
  <2>2. CASE e # NumDocs
    <3>1. PICK j \in m + 1 .. N : e = docid[order[j]]
      BY <1>9, <2>2
    <3>2. j \in 1 .. N /\ order[j] \in QueryTerms /\ e \in DocsOf(order[j])
      BY <1>6, <1>8, <2>2, <3>1
    <3>3. e = Geq(order[j], c + 1)
      BY <1>9, <3>1
    <3>4. e >= c + 1
      BY <1>6, <1>7, <2>2, <3>2, <3>3, GeqIs
    <3> QED  BY <1>8, <3>2, <3>4 DEF AnyTerm
  <2> QED  BY <2>1, <2>2
<1>11. topk' = Insert(topk, k, Score(c)) /\ topk' \in Queues(k) /\ Score(c) \in Nat
  <2>1. Score(c) \in Nat
    BY <1>6, ScoreFacts
  <2>2. CASE n = 0
    <3>1. score = Score(c)
      BY <1>6, <1>7, <2>2, ScoreByPlace
    <3> QED  BY <1>5, <1>6, <2>1, <3>1, InsertFacts
  <2>3. CASE n > 0
    <3>1. ~WouldEnter(topk, k, score + UpperBound(n))
      BY <1>3, <1>5, <2>3 DEF MayStillEnter, BoundOfLists
    <3>2. UpperBound(n) \in Nat /\ PlacesScore(c, 1 .. n) <= UpperBound(n)
      BY <1>6, <1>8, UpperBoundFacts
    <3>3. Score(c) = PlacesScore(c, 1 .. n) + PlacesScore(c, n + 1 .. N)
      <4>1. /\ 1 .. n \in SUBSET (1 .. N) /\ n + 1 .. N \in SUBSET (1 .. N)
            /\ (1 .. n) \cap (n + 1 .. N) = {} /\ (1 .. n) \cup (n + 1 .. N) = 1 .. N
        BY <1>6, <1>8
      <4>2. PlacesScore(c, (1 .. n) \cup (n + 1 .. N))
              = PlacesScore(c, 1 .. n) + PlacesScore(c, n + 1 .. N)
        <5>1. \A J, K \in SUBSET (1 .. N) : J \cap K = {} =>
                PlacesScore(c, J \cup K) = PlacesScore(c, J) + PlacesScore(c, K)
          BY <1>6, PlacesScoreFacts
        <5> HIDE DEF N
        <5> QED  BY <4>1, <5>1
      <4>3. PlacesScore(c, 1 .. N) = PlacesScore(c, 1 .. n) + PlacesScore(c, n + 1 .. N)
        BY <4>1, <4>2
      <4> QED  BY <1>6, <4>3, ScoreByPlace
    <3>4. PlacesScore(c, 1 .. n) \in Nat
      <4>1. 1 .. n \in SUBSET (1 .. N)
        BY <1>6, <1>8
      <4> QED  BY <1>6, <4>1, PlacesScoreFacts
    <3> DEFINE most == score + UpperBound(n)
    <3>5. most \in Nat /\ Score(c) <= most /\ score <= most
      BY <1>7, <3>2, <3>3, <3>4, SMTT(30)
    <3>6. ~WouldEnter(topk, k, most)
      BY <3>1
    <3> HIDE DEF most
    <3>7. ~WouldEnter(topk, k, Score(c)) /\ ~WouldEnter(topk, k, score)
      BY <1>6, <1>7, <2>1, <3>5, <3>6, EnteringLess
    <3>8. Insert(topk, k, score) = topk /\ Insert(topk, k, Score(c)) = topk
      BY <1>6, <1>7, <2>1, <3>7, InsertFacts
    <3> QED  BY <1>5, <1>6, <2>1, <3>8
  <2> QED  BY <1>8, <2>2, <2>3
<1>12. \A r \in Nat : ~WouldEnter(topk, k, r) => ~WouldEnter(topk', k, r)
  BY <1>6, <1>11, InsertFacts
<1> DEFINE A == AnyBefore(c) \cup {c}
<1>13. Best(A) = topk' /\ A \in SUBSET AnyTerm
  <2>1. Scored(AnyTerm) /\ AnyBefore(c) \in SUBSET AnyTerm /\ c \in AnyTerm \ AnyBefore(c)
    BY <1>6, <1>7, <1>8, ScoreFacts DEF AnyBefore
  <2> QED  BY <1>7, <1>11, <2>1, BestWithOneMore
<1>14. ASSUME NEW d \in AnyTerm, d > c, d < e  PROVE ~WouldEnter(topk', k, Score(d))
  <2>1. d \in Nat /\ d >= c + 1
    BY <1>6, <1>8, <1>14
  <2>2. ASSUME NEW j \in m + 1 .. N  PROVE d \notin DocsOf(order[j])
    <3> SUFFICES ASSUME d \in DocsOf(order[j]) PROVE FALSE
      OBVIOUS
    <3>1. order[j] \in QueryTerms
      BY <1>6, <1>8
    <3>2. Geq(order[j], c + 1) <= d /\ Geq(order[j], c + 1) \in Nat
      <4>1. Geq(order[j], c + 1) <= d
        BY <1>6, <1>7, <2>1, <3>1, GeqIs
      <4>2. Geq(order[j], c + 1) \in 0 .. NumDocs
        BY <1>6, <1>7, <3>1, GeqIs
      <4> QED  BY <1>6, <4>1, <4>2
    <3>3. e <= Geq(order[j], c + 1)
      BY <1>9
    <3> QED  BY <1>8, <1>14, <2>1, <3>2, <3>3
  <2>3. m > 0
    <3>1. PICK t \in QueryTerms : d \in DocsOf(t)
      BY DEF AnyTerm
    <3>2. PICK j \in 1 .. N : order[j] = t
      BY <1>6
    <3>3. j \notin m + 1 .. N
      BY <2>2, <3>1, <3>2
    <3> QED  BY <1>6, <1>8, <3>3
  <2>4. ~WouldEnter(topk, k, UpperBound(m))
    BY <1>7, <2>3 DEF NonEssential
  <2>5. Score(d) <= UpperBound(m) /\ UpperBound(m) \in Nat /\ Score(d) \in Nat
    BY <1>6, <1>7, <2>2, ScoreBound, UpperBoundFacts, ScoreFacts
  <2>6. ~WouldEnter(topk, k, Score(d))
    BY <1>6, <2>4, <2>5, EnteringLess
  <2> QED  BY <1>12, <2>5, <2>6
<1>15. topk' = Best(AnyBefore(e))
  <2>1. \A d \in A : d < e
    <3>1. \A d \in AnyTerm : d \in Nat
      BY <1>6, <1>8
    <3> QED  BY <1>8, <1>10, <3>1 DEF AnyBefore
  <2>2. ASSUME NEW d \in AnyTerm \ A, d < e  PROVE ~WouldEnter(Best(A), k, Score(d))
    <3>1. d \in Nat /\ d # c /\ ~(d < c)
      BY <1>6, <1>8, <2>2 DEF AnyBefore
    <3>2. d > c
      BY <1>8, <3>1
    <3> QED  BY <1>13, <1>14, <2>2, <3>2
  <2> HIDE DEF A
  <2>3. Best(AnyBefore(e)) = Best(A)
    BY <1>6, <1>8, <1>13, <2>1, <2>2, FoundAfterAll
  <2> QED  BY <1>13, <2>3
<1>16. PICK ne : ne = non_essential'
  OBVIOUS
<1>17. ne \in m .. N /\ (ne > 0 => ~WouldEnter(topk', k, UpperBound(ne))) /\ i' = ne + 1
  <2>1. i' = ne + 1
    BY <1>16 DEF MaxscoreEndDoc
  <2>2. m > 0 => ~WouldEnter(topk', k, UpperBound(m))
    <3>1. UpperBound(m) \in Nat
      BY <1>6, <1>7, UpperBoundFacts
    <3> QED  BY <1>7, <1>12, <3>1 DEF NonEssential
  <2>3. CASE WouldEnter(topk, k, score)
    <3>1. ne = NonEssentialLists
      BY <1>16, <2>3, Zenon DEF MaxscoreEndDoc
    <3>2. ne \in m .. N /\ \A l \in m .. ne - 1 : ~WouldEnter(topk', k, UpperBound(l + 1))
      BY <1>2, <1>6, <1>7, <1>8, <3>1, NonEssentialListsFacts
    <3>3. CASE ne = m
      BY <2>1, <2>2, <3>2, <3>3
    <3>4. CASE ne # m
      <4>1. ne - 1 \in m .. ne - 1 /\ (ne - 1) + 1 = ne
        BY <1>8, <3>2, <3>4
      <4>2. ~WouldEnter(topk', k, UpperBound((ne - 1) + 1))
        BY <3>2, <4>1
      <4> QED  BY <2>1, <3>2, <4>1, <4>2
    <3> QED  BY <3>3, <3>4
  <2>4. CASE ~WouldEnter(topk, k, score)
    <3>1. ne = m
      BY <1>2, <1>16, <2>4, Zenon DEF MaxscoreEndDoc
    <3>2. m \in m .. N
      BY <1>6, <1>7
    <3> QED  BY <2>1, <2>2, <3>1, <3>2
  <2> QED  BY <2>3, <2>4
<1>18. ne \in Nat /\ ne \in 0 .. N /\ ne + 1 \in 0 .. N + 1 /\ ne + 1 > ne /\ m <= ne
  BY <1>6, <1>8, <1>17
<1>19. Common' /\ Fresh'
  <2>1. Permutes(order', QueryTerms) /\ pc' # "start"
    BY <1>5, <1>6 DEF Ordered
  <2> QED  BY <1>5, <1>6, <1>11, <2>1, CommonStays DEF QInv
<1>20. ASSUME NEW j \in m + 1 .. N  PROVE docid[order[j]] = Geq(order[j], e)
  <2>1. order[j] \in QueryTerms
    BY <1>6, <1>8
  <2>2. docid[order[j]] = Geq(order[j], c + 1) /\ e <= docid[order[j]]
    BY <1>9
  <2>3. c + 1 <= e /\ e <= Geq(order[j], c + 1) /\ e \in Int
    BY <1>8, <1>10, <2>2
  <2> QED  BY <1>6, <1>7, <2>1, <2>2, <2>3, GeqStays
<1>21. ASSUME NEW j \in 1 .. m, docid[order[j]] > e  PROVE docid[order[j]] = Geq(order[j], e)
  <2>1. order[j] \in QueryTerms /\ docid[order[j]] \in Nat
    BY <1>6, <1>7
  <2>2. docid[order[j]] > c
    BY <1>8, <1>10, <1>21, <2>1
  <2>3. docid[order[j]] = Geq(order[j], c)
    BY <1>7, <2>2 DEF NonEssential
  <2>4. c <= e /\ e <= Geq(order[j], c) /\ e \in Int /\ c \in Int
    BY <1>8, <1>10, <1>21, <2>1, <2>3
  <2> QED  BY <1>6, <2>1, <2>3, <2>4, GeqStays
<1>22. \A t, d : Geq(t, d)' = Geq(t, d)
  BY <1>5, SameQuery
<1>23. NonEssential(e, ne)'
  <2>1. UpperBound(ne)' = UpperBound(ne)
    BY <1>5, SameBound
  <2>2. ne > 0 => ~WouldEnter(topk', k', UpperBound(ne)')
    BY <1>5, <1>17, <2>1
  <2>3. ASSUME NEW j \in 1 .. ne, docid[order[j]] > e  PROVE docid[order[j]] = Geq(order[j], e)
    <3>1. j \in 1 .. m \/ j \in m + 1 .. N
      BY <1>6, <1>8, <1>17
    <3> QED  BY <1>20, <1>21, <2>3, <3>1
  <2>4. \A j \in 1 .. ne : docid'[order'[j]] > e => docid'[order'[j]] = Geq(order[j], e)'
    BY <1>5, <1>22, <2>3
  <2> QED  BY <2>2, <2>4 DEF NonEssential, WouldEnter
<1>24. \A j \in ne + 1 .. (ne + 1) - 1 : FALSE
  BY <1>18
<1>25. EssentialMoved(e, ne, ne + 1)'
  <2>1. ASSUME NEW j \in ne + 1 .. N  PROVE docid'[order'[j]] = Geq(order[j], e)'
    <3>1. j \in m + 1 .. N
      BY <1>6, <1>8, <1>18
    <3> QED  BY <1>5, <1>20, <1>22, <3>1
  <2> QED  BY <1>5, <1>24, <2>1 DEF EssentialMoved
<1>26. score' = PlacesScore(e, ne + 1 .. (ne + 1) - 1)'
  <2>1. ne + 1 .. (ne + 1) - 1 = {}
    BY <1>24
  <2>2. PlacesScore(e, {}) = 0
    BY <1>6, PlacesScoreFacts
  <2>3. PlacesScore(e, {})' = PlacesScore(e, {})
    BY <1>5, SamePlaces
  <2>4. PlacesScore(e, ne + 1 .. (ne + 1) - 1)' = PlacesScore(e, {})'
    BY <2>1
  <2> QED  BY <1>5, <2>2, <2>3, <2>4
<1>27. /\ pc' \in {"essential", "complete"} /\ pc' # "complete"
       /\ next_doc' \in 0 .. NumDocs /\ score' \in Nat /\ non_essential' = ne
       /\ ne \in 0 .. Cardinality(QueryTerms) /\ ne + 1 \in 0 .. Cardinality(QueryTerms) + 1
  <2>1. next_doc' \in 0 .. NumDocs /\ score' \in Nat
    BY <1>5, <1>6
  <2>2. ne \in 0 .. Cardinality(QueryTerms) /\ ne + 1 \in 0 .. Cardinality(QueryTerms) + 1
    BY <1>6, <1>18
  <2> QED  BY <1>5, <1>16, <2>1, <2>2
<1> QED  BY <1>5, <1>10, <1>15, <1>17, <1>18, <1>19, <1>23, <1>25, <1>26, <1>27, MaxscoreLoopState

(* No list is essential or no document is left.                              *)
LEMMA MaxscoreFinishKeeps ==
  ASSUME QInv, MaxscoreStep, MaxscoreFinish  PROVE QInv'
<1>1. PICK c : c = cur_doc
  OBVIOUS
<1>2. PICK m : m = non_essential
  OBVIOUS
<1>3. weight' = weight /\ k' = k /\ kind' = kind /\ kind = "maxscore" /\ topk' = topk
      /\ pc = "essential" /\ pc' = "done" /\ order' = order /\ docid' = docid
      /\ (m = Len(order) \/ c = NumDocs) /\ UNCHANGED maxscoreVars
  BY <1>1, <1>2 DEF MaxscoreStep, MaxscoreFinish, Finalize
<1>4. /\ Query /\ Ordered /\ QueryTerms # {}
      /\ topk \in Queues(k) /\ k \in Nat \ {0} /\ docid \in [QueryTerms -> Nat]
      /\ \A t \in QueryTerms : docid[t] \in DocsOf(t) \cup {NumDocs}
      /\ Len(order) \in Nat \ {0} /\ NumDocs \in Nat \ {0}
  BY <1>3, InLoop DEF QInv
<1>5. /\ c \in 0 .. NumDocs /\ m \in 0 .. Len(order)
      /\ topk = Best(AnyBefore(c)) /\ NonEssential(c, m)
  BY <1>1, <1>2, <1>3, MaxscoreTurnFacts
<1>6. AnyTerm \in SUBSET (0 .. NumDocs - 1) /\ AnyBefore(NumDocs) = AnyTerm
  BY <1>4, ListFacts, NothingFound
<1>7. CASE c = NumDocs
  BY <1>3, <1>4, <1>5, <1>6, <1>7, CommonStays, MaxscoreDoneState DEF QInv, Ordered
<1>8. CASE m = Len(order)
  <2>1. ~WouldEnter(topk, k, UpperBound(m))
    BY <1>4, <1>5, <1>8 DEF NonEssential
  <2>2. ASSUME NEW d \in AnyTerm  PROVE ~WouldEnter(topk, k, Score(d))
    <3>1. \A j \in m + 1 .. Len(order) : FALSE
      BY <1>4, <1>8
    <3>2. Score(d) <= UpperBound(m) /\ UpperBound(m) \in Nat /\ Score(d) \in Nat
      BY <1>4, <1>5, <3>1, ScoreBound, UpperBoundFacts, ScoreFacts
    <3> QED  BY <1>4, <2>1, <3>2, EnteringLess
  <2>3. AnyBefore(c) \in SUBSET AnyTerm /\ \A d \in AnyBefore(c) : d < NumDocs
    BY <1>4, <1>6 DEF AnyBefore
  <2>4. Best(AnyBefore(NumDocs)) = Best(AnyBefore(c))
    BY <1>4, <1>5, <2>2, <2>3, FoundAfterAll
  <2>5. topk' = Best(AnyTerm)
    BY <1>3, <1>5, <1>6, <2>4
  <2> QED  BY <1>3, <1>4, <2>5, CommonStays, MaxscoreDoneState DEF QInv, Ordered
<1> QED  BY <1>3, <1>7, <1>8

LEMMA MaxscoreKeeps ==
  ASSUME QInv, MaxscoreStep  PROVE QInv'
<1>1. MaxscoreEmpty \/ MaxscoreStart \/ VisitEssential \/ TurnBack \/ CompleteScore
        \/ MaxscoreEndDoc \/ MaxscoreFinish
  BY DEF MaxscoreStep, MaxscoreNext
<1> QED  BY <1>1, MaxscoreEmptyKeeps, MaxscoreStartKeeps, VisitEssentialKeeps, TurnBackKeeps,
            CompleteScoreKeeps, MaxscoreEndDocKeeps, MaxscoreFinishKeeps

-----------------------------------------------------------------------------
(* The whole.                                                                *)

(* The queue of a query object that was used before is one of k scores.      *)
LEMMA QueryStarts ==
  ASSUME Init  PROVE QInv
<1> USE DEF Init, QueryInit, AndInit, MaxscoreInit
<1>1. Query
  <2>1. PICK terms \in SUBSET Terms : weight \in [terms -> Lists]
    OBVIOUS
  <2> QED  BY <2>1 DEF Query, QueryTerms
<1>2. NumDocs \in Nat /\ k \in Nat \ {0} /\ Cardinality(QueryTerms) \in Nat
  BY <1>1, ListFacts
<1>3. topk \in Queues(k)
  <2>1. CASE topk = <<>>
    BY <1>2, <2>1, EmptyQueue
  <2>2. CASE topk = [j \in 1 .. k |-> 100]
    <3>1. topk \in Seq(Nat) /\ Len(topk) = k /\ \A j \in 1 .. Len(topk) : topk[j] = 100
      BY <1>2, <2>2
    <3> QED  BY <1>2, <3>1 DEF Queues, Ascending
  <2> QED  BY <2>1, <2>2
<1>4. ASSUME NEW t \in QueryTerms
      PROVE  docid[t] = First(t) /\ docid[t] \in Nat /\ docid[t] \in DocsOf(t) \cup {NumDocs}
  <2>1. docid[t] = First(t)
    OBVIOUS
  <2>2. First(t) \in DocsOf(t) /\ DocsOf(t) \in SUBSET (0 .. NumDocs - 1)
    BY <1>1, FirstIs, ListFacts
  <2> QED  BY <1>2, <2>1, <2>2
<1>5. docid \in [QueryTerms -> Nat]
  <2>1. docid = [t \in QueryTerms |-> docid[t]]
    OBVIOUS
  <2> QED  BY <1>4, <2>1
<1>6. Common
  BY <1>1, <1>3, <1>4, <1>5 DEF Common
<1>7. Fresh
  BY <1>4 DEF Fresh
<1>8. AndInv /\ OrInv /\ WandInv /\ MaxscoreInv
  BY <1>2 DEF AndInv, OrInv, WandInv, MaxscoreInv
<1> QED  BY <1>6, <1>7, <1>8 DEF QInv

(* Nothing changes, nothing breaks.                                          *)
LEMMA StutterKeeps ==
  ASSUME QInv, UNCHANGED vars  PROVE QInv'
<1> USE DEF vars, queryVars
<1>1. weight' = weight /\ k' = k /\ order' = order
  OBVIOUS
<1>2. /\ QueryTerms' = QueryTerms /\ \A t : DocsOf(t)' = DocsOf(t)
      /\ \A t, d : WeightOf(t, d)' = WeightOf(t, d)
      /\ \A t, d : Geq(t, d)' = Geq(t, d)
      /\ \A t : First(t)' = First(t)
      /\ AnyTerm' = AnyTerm /\ AllTerms' = AllTerms
  BY <1>1, SameQuery
<1>3. /\ \A d : Score(d)' = Score(d) /\ \A docs : Best(docs)' = Best(docs)
      /\ \A n : UpperBound(n)' = UpperBound(n)
      /\ \A d, J : PlacesScore(d, J)' = PlacesScore(d, J)
  BY <1>1, SameScore, SameBest, SameBound, SamePlaces
<1>4. /\ AllBefore(candidate)' = AllBefore(candidate)
      /\ AnyBefore(cur_doc)' = AnyBefore(cur_doc)
      /\ AnyBefore(docid[order[1]])' = AnyBefore(docid[order[1]])
  BY <1>2 DEF AllBefore, AnyBefore
<1>5. /\ Best(AllBefore(candidate))' = Best(AllBefore(candidate))
      /\ Best(AnyBefore(cur_doc))' = Best(AnyBefore(cur_doc))
      /\ Best(AnyBefore(docid[order[1]]))' = Best(AnyBefore(docid[order[1]]))
      /\ Best(AnyTerm)' = Best(AnyTerm)
  BY <1>1, <1>2, <1>4, SameBest
<1>6. Common'
  BY <1>2 DEF QInv, Common, Query, Ordered
<1>7. Fresh'
  BY <1>2 DEF QInv, Fresh
<1>8. AndInv'
  BY <1>2, <1>4, <1>5 DEF QInv, AndInv
<1>9. OrInv'
  <2>1. OrMoved(cur_doc, i) => OrMoved(cur_doc, i)'
    BY <1>2, <1>3 DEF OrMoved
  <2> QED  BY <1>2, <1>4, <1>5, <2>1 DEF QInv, OrInv
<1>10. WandInv'
  <2>1. \A d : JumpedOver(d)' <=> JumpedOver(d)
    BY <1>2 DEF JumpedOver
  <2>2. WandLoop(docid[order[1]]) => WandLoop(docid[order[1]])'
    BY <1>2, <1>3, <1>5, <2>1, Zenon DEF WandLoop, WouldEnter
  <2>3. InOrder(order, docid) => InOrder(order, docid)'
    BY DEF InOrder
  <2> QED  BY <1>5, <2>2, <2>3 DEF QInv, WandInv
<1>11. MaxscoreInv'
  <2>1. EssentialMoved(cur_doc, non_essential, i)
          => EssentialMoved(cur_doc, non_essential, i)'
    BY <1>2 DEF EssentialMoved
  <2>2. EssentialMoved(cur_doc, non_essential, Len(order) + 1)
          => EssentialMoved(cur_doc, non_essential, Len(order) + 1)'
    BY <1>2 DEF EssentialMoved
  <2>3. NonEssential(cur_doc, non_essential) => NonEssential(cur_doc, non_essential)'
    <3>1. UpperBound(non_essential)' = UpperBound(non_essential)
      BY <1>3
    <3> QED  BY <1>2, <3>1 DEF NonEssential, WouldEnter
  <2>4. Completed(cur_doc, i, non_essential) => Completed(cur_doc, i, non_essential)'
    BY <1>2 DEF Completed
  <2>5. /\ PlacesScore(cur_doc, non_essential + 1 .. i - 1)'
             = PlacesScore(cur_doc, non_essential + 1 .. i - 1)
        /\ PlacesScore(cur_doc, i + 1 .. Len(order))' = PlacesScore(cur_doc, i + 1 .. Len(order))
    BY <1>3
  <2> QED  BY <1>2, <1>5, <2>1, <2>2, <2>3, <2>4, <2>5 DEF QInv, MaxscoreInv
<1> QED  BY <1>6, <1>7, <1>8, <1>9, <1>10, <1>11 DEF QInv

(* What every state of a query is like: the invariant of all four operators. *)
THEOREM QueryInvariant == Spec => []QInv
<1>1. Init => QInv
  BY QueryStarts
<1>2. QInv /\ [Next]_vars => QInv'
  BY AndKeeps, OrKeeps, WandKeeps, MaxscoreKeeps, StutterKeeps DEF Next, Step, Returned
<1> QED  BY <1>1, <1>2, PTL DEF Spec

(* The queue keeps at most k scores, the enumerators stay at their postings, *)
(* and the locals stay in range, whichever operator answers.                 *)
THEOREM QueryTypeCorrect == Spec => []TypeOK
<1>1. QInv => TypeOK
  <2> SUFFICES ASSUME QInv PROVE TypeOK
    OBVIOUS
  <2>1. /\ Query /\ topk \in Queues(k) /\ docid \in [QueryTerms -> Nat]
        /\ \A t \in QueryTerms : docid[t] \in DocsOf(t) \cup {NumDocs}
    BY DEF QInv, Common
  <2>2. /\ NumDocs \in Nat /\ Cardinality(QueryTerms) \in Nat
        /\ AnyTerm \in SUBSET (0 .. NumDocs - 1) /\ AllTerms \in SUBSET AnyTerm
    BY <2>1, ListFacts
  <2>3. order = <<>> \/ (Len(order) = Cardinality(QueryTerms) /\ ToSet(order) = QueryTerms)
    <3>1. CASE pc = "start" \/ QueryTerms = {}
      BY <3>1 DEF QInv, Common, Fresh
    <3>2. CASE Ordered
      <4>1. /\ order \in Seq(QueryTerms) /\ Len(order) = Cardinality(QueryTerms)
            /\ \A t \in QueryTerms : \E j \in 1 .. Len(order) : order[j] = t
        BY <3>2 DEF Ordered, Permutes
      <4>2. DOMAIN order = 1 .. Len(order) /\ \A j \in 1 .. Len(order) : order[j] \in QueryTerms
        BY <4>1
      <4> QED  BY <4>1, <4>2 DEF ToSet
    <3> QED  BY <3>1, <3>2 DEF QInv, Common
  <2>4. QueryTypeOK
    BY <2>1, <2>3 DEF QueryTypeOK, Queues
  <2>5. ASSUME NEW found \in SUBSET AnyTerm  PROVE Cardinality(found) \in 0 .. NumDocs
    <3>1. found \in SUBSET (0 .. NumDocs - 1)
      BY <2>2
    <3>2. IsFiniteSet(0 .. NumDocs - 1) /\ Cardinality(0 .. NumDocs - 1) = NumDocs
      <4>1. 0 \in Int /\ NumDocs - 1 \in Int
        BY <2>2
      <4>2. /\ IsFiniteSet(0 .. NumDocs - 1)
            /\ Cardinality(0 .. NumDocs - 1)
                 = IF 0 > NumDocs - 1 THEN 0 ELSE (NumDocs - 1) - 0 + 1
        BY <4>1, FS_Interval
      <4> QED  BY <2>2, <4>2
    <3>3. Cardinality(found) <= NumDocs /\ Cardinality(found) \in Nat
      BY <3>1, <3>2, FS_Subset, FS_CardinalityType, ZenonT(60)
    <3> QED  BY <2>2, <3>3
  <2>6. ASSUME NEW d \in AnyTerm \cup {NumDocs}  PROVE d \in 0 .. NumDocs
    BY <2>2
  <2>7. kind = "and" => AndTypeOK
    <3>1. AllBefore(candidate) \in SUBSET AnyTerm
      BY <2>2, Zenon DEF AllBefore
    <3>2. kind = "and" => results \in 0 .. NumDocs
      BY <2>2, <2>5, <3>1 DEF QInv, AndInv
    <3> QED  BY <2>4, <3>2 DEF QInv, AndInv, AndTypeOK
  <2>8. kind = "or" => OrTypeOK
    <3>1. AnyBefore(cur_doc) \in SUBSET AnyTerm
      BY Zenon DEF AnyBefore
    <3>2. kind = "or" => results \in 0 .. NumDocs
      BY <2>2, <2>5, <3>1 DEF QInv, OrInv
    <3>3. kind = "or" => cur_doc \in 0 .. NumDocs
      BY <2>6 DEF QInv, OrInv
    <3> QED  BY <2>4, <3>2, <3>3 DEF QInv, OrInv, OrTypeOK
  <2>9. kind = "maxscore" => MaxscoreTypeOK
    <3>1. kind = "maxscore" => cur_doc \in 0 .. NumDocs
      BY <2>6 DEF QInv, MaxscoreInv
    <3> QED  BY <2>4, <3>1 DEF QInv, MaxscoreInv, MaxscoreTypeOK
  <2> QED  BY <2>4, <2>7, <2>8, <2>9 DEF TypeOK, WandTypeOK
<1> QED  BY <1>1, QueryInvariant, PTL

(* The least document an enumerator is at, when all are at their first       *)
(* posting from a document that is one of theirs.                            *)
LEMMA FrontierIsLeast ==
  ASSUME Query, QueryTerms # {}, NEW c \in AnyTerm \cup {NumDocs},
         docid \in [QueryTerms -> Nat], \A t \in QueryTerms : docid[t] = Geq(t, c)
  PROVE  c = MinDocid
<1>1. /\ NumDocs \in Nat /\ AnyTerm \in SUBSET (0 .. NumDocs - 1)
      /\ \A t \in QueryTerms : DocsOf(t) \in SUBSET (0 .. NumDocs - 1)
  BY ListFacts
<1>2. c \in Nat /\ c <= NumDocs
  BY <1>1
<1>3. ASSUME NEW t \in QueryTerms  PROVE c <= docid[t]
  <2>1. Geq(t, c) >= c \/ Geq(t, c) = NumDocs
    BY <1>2, GeqIs
  <2> QED  BY <1>1, <1>2, <2>1
<1>4. c \in Range(docid)
  <2>1. CASE c \in AnyTerm
    <3>1. PICK t \in QueryTerms : c \in DocsOf(t)
      BY <2>1 DEF AnyTerm
    <3>2. docid[t] = c
      BY <1>2, <3>1, GeqIs
    <3> QED  BY <3>2 DEF Range
  <2>2. CASE c = NumDocs
    <3>1. PICK t \in QueryTerms : TRUE
      OBVIOUS
    <3>2. docid[t] \in 0 .. NumDocs
      BY <1>2, GeqIs
    <3>3. docid[t] = c
      BY <1>1, <1>3, <2>2, <3>2
    <3> QED  BY <3>3 DEF Range
  <2> QED  BY <2>1, <2>2
<1>5. MinDocid \in Range(docid) /\ \A t \in QueryTerms : MinDocid <= docid[t]
  BY <1>3, <1>4, Zenon DEF MinDocid
<1>6. PICK u \in QueryTerms : MinDocid = docid[u]
  BY <1>5 DEF Range
<1>7. PICK w \in QueryTerms : c = docid[w]
  BY <1>4 DEF Range
<1>8. c <= MinDocid /\ MinDocid <= c /\ MinDocid \in Nat
  BY <1>3, <1>5, <1>6, <1>7
<1> QED  BY <1>2, <1>8

(* At every turn of their loops and_query and or_query have found exactly    *)
(* what lies before the candidate, and the enumerators are where the next    *)
(* turn needs them.                                                          *)
THEOREM NothingIsSkipped == Spec => []NothingSkipped
<1>1. QInv => NothingSkipped
  <2> SUFFICES ASSUME QInv PROVE NothingSkipped
    OBVIOUS
  <2>1. ASSUME kind = "and"  PROVE AndNothingSkipped
    BY <2>1 DEF QInv, AndInv, AndNothingSkipped, AllBefore
  <2>2. ASSUME kind = "or", pc = "loop", i = 1
        PROVE  /\ \A t \in QueryTerms : docid[t] = Geq(t, cur_doc)
               /\ cur_doc = MinDocid
               /\ results = Cardinality({d \in AnyTerm : d < cur_doc})
    <3>1. /\ Query /\ Ordered /\ QueryTerms # {} /\ docid \in [QueryTerms -> Nat]
          /\ \A t \in QueryTerms : \E j \in 1 .. Len(order) : order[j] = t
      BY <2>2, InLoop DEF QInv
    <3>2. OrMoved(cur_doc, 1) /\ cur_doc \in AnyTerm \cup {NumDocs}
          /\ results = Cardinality(AnyBefore(cur_doc))
      BY <2>2 DEF QInv, OrInv
    <3>3. \A t \in QueryTerms : docid[t] = Geq(t, cur_doc)
      BY <3>1, <3>2 DEF OrMoved
    <3>4. cur_doc = MinDocid
      BY <3>1, <3>2, <3>3, FrontierIsLeast
    <3> QED  BY <3>2, <3>3, <3>4 DEF AnyBefore
  <2> QED  BY <2>1, <2>2 DEF NothingSkipped, Frontier
<1> QED  BY <1>1, QueryInvariant, PTL

(* At every turn of their loops what wand_query and maxscore_query have      *)
(* jumped over is in the queue or cannot enter it any more.                  *)
THEOREM WhatIsSkippedCannotEnter == Spec => []SkippedCannotEnter
<1>1. QInv => SkippedCannotEnter
  <2> SUFFICES ASSUME QInv PROVE SkippedCannotEnter
    OBVIOUS
  <2>1. ASSUME kind = "wand"  PROVE WandSkippedCannotEnter
    BY <2>1 DEF QInv, WandInv, WandLoop, WandSkippedCannotEnter, AnyBefore
  <2>2. ASSUME kind = "maxscore", AtHead
        PROVE  /\ topk = Best({d \in AnyTerm : d < cur_doc})
               /\ \A n \in non_essential + 1 .. Len(order) :
                    docid[order[n]] = Geq(order[n], cur_doc)
    BY <2>2 DEF QInv, MaxscoreInv, AtHead, EssentialMoved, AnyBefore
  <2> QED  BY <2>1, <2>2 DEF SkippedCannotEnter, MaxscoreSkippedCannotEnter
<1> QED  BY <1>1, QueryInvariant, PTL

(* wand_query finds its enumerators by increasing docid at every turn,       *)
(* although only one of them was moved and bubbled down.                     *)
THEOREM EnumeratorsStaySorted == Spec => []StaysSorted
<1>1. QInv => StaysSorted
  <2> SUFFICES ASSUME QInv, kind = "wand", pc = "loop", NEW n \in 1 .. Len(order) - 1
               PROVE  docid[order[n]] <= docid[order[n + 1]]
    BY DEF StaysSorted, WandStaysSorted
  <2>1. Len(order) \in Nat
    BY InLoop DEF QInv
  <2>2. n \in 1 .. Len(order) /\ n + 1 \in 1 .. Len(order) /\ n <= n + 1
    BY <2>1
  <2> QED  BY <2>2 DEF QInv, WandInv, InOrder
<1> QED  BY <1>1, QueryInvariant, PTL

(* and_query and wand_query only ask enumerators that are not past their end *)
(* to move forward, which next_geq assumes.                                  *)
THEOREM EnumeratorsMoveForward == Spec => []CallsForward
<1>1. QInv => CallsForward
  <2> SUFFICES ASSUME QInv PROVE CallsForward
    OBVIOUS
  <2>1. ASSUME kind = "and", AndSearching, i <= Len(order)
        PROVE  docid[order[i]] < NumDocs /\ ForwardFor(order[i], candidate)
    <3>1. /\ Query /\ docid \in [QueryTerms -> Nat] /\ Len(order) \in Nat
          /\ \A j \in 1 .. Len(order) : order[j] \in QueryTerms /\ NumDocs \in Nat
          /\ Len(order) = Cardinality(QueryTerms)
      BY <2>1, InLoop DEF QInv, AndSearching
    <3>2. /\ candidate \in 0 .. NumDocs /\ candidate < NumDocs
          /\ i \in 1 .. Cardinality(QueryTerms) + 1
          /\ \A t \in QueryTerms : docid[t] <= candidate \/ docid[t] = First(t)
      BY <2>1 DEF QInv, AndInv, AndSearching
    <3> DEFINE t1 == order[i]
    <3>3. t1 \in QueryTerms
      BY <2>1, <3>1, <3>2
    <3>4. docid[t1] \in Nat /\ (docid[t1] <= candidate \/ docid[t1] = First(t1))
          /\ First(t1) < NumDocs /\ NumDocs \in Nat
      BY <3>1, <3>2, <3>3, FirstIs, ListFacts
    <3> HIDE DEF t1
    <3>5. docid[t1] < NumDocs /\ ForwardFor(t1, candidate)
      BY <3>2, <3>4 DEF ForwardFor
    <3> QED  BY <3>5 DEF t1
  <2>2. ASSUME kind = "wand", pc = "loop", NEW p \in Pivots, PivotDoc(p) # docid[order[1]]
        PROVE  LET t == order[NextList(p)] IN docid[t] < NumDocs /\ ForwardFor(t, PivotDoc(p))
    <3>1. /\ Ordered /\ docid \in [QueryTerms -> Nat] /\ Len(order) \in Nat
          /\ \A j \in 1 .. Len(order) : order[j] \in QueryTerms
          /\ NumDocs \in Nat
      BY <2>2, InLoop DEF QInv
    <3>2. /\ p \in 1 .. Len(order) /\ PivotDoc(p) = docid[order[p]]
          /\ PivotDoc(p) \in Nat /\ PivotDoc(p) < NumDocs
      BY <2>2, PivotFacts
    <3>3. NextList(p) \in 1 .. p
      BY <2>2, <3>1, <3>2, NextListFacts
    <3> DEFINE t1 == order[NextList(p)]
    <3>4. docid[t1] <= PivotDoc(p) /\ docid[t1] \in Nat
      <4>1. NextList(p) \in 1 .. Len(order) /\ NextList(p) <= p
        BY <3>1, <3>2, <3>3
      <4>2. InOrder(order, docid)
        BY <2>2 DEF QInv, WandInv
      <4> QED  BY <3>1, <3>2, <4>1, <4>2 DEF InOrder
    <3> HIDE DEF t1
    <3>5. docid[t1] < NumDocs /\ ForwardFor(t1, PivotDoc(p))
      BY <3>1, <3>2, <3>4 DEF ForwardFor
    <3> QED  BY <3>5 DEF t1
  <2> QED  BY <2>1, <2>2 DEF CallsForward, AndCallsForward, WandCallsForward
<1> QED  BY <1>1, QueryInvariant, PTL

(* maxscore_query does ask lists for a document they are past; it is one     *)
(* they do not have, so that going back and staying find the same posting.   *)
THEOREM GoingBackIsHarmless == Spec => []BackwardCallsAreHarmless
<1>1. QInv => BackwardCallsAreHarmless
  <2> SUFFICES ASSUME QInv, kind = "maxscore", pc = "complete", i > 0,
                      docid[order[i]] > cur_doc
               PROVE  Geq(order[i], cur_doc) = docid[order[i]]
    BY DEF BackwardCallsAreHarmless, MaxscoreBackwardCallsAreHarmless, MayStillEnter
  <2>1. /\ NonEssential(cur_doc, non_essential) /\ i <= non_essential
        /\ non_essential \in 0 .. Cardinality(QueryTerms)
        /\ i \in 0 .. Cardinality(QueryTerms) + 1
    BY DEF QInv, MaxscoreInv
  <2>2. Cardinality(QueryTerms) \in Nat
    BY ListFacts DEF QInv, Common
  <2>3. i \in 1 .. non_essential
    BY <2>1, <2>2
  <2> QED  BY <2>1, <2>3 DEF NonEssential
<1> QED  BY <1>1, QueryInvariant, PTL

(* No query operator calls next_geq where what it finds would depend on      *)
(* whether the list goes back or stays where it is.                          *)
THEOREM NextGeqIsCalledSafely == Spec => []CallsAreSafe
<1>1. CallsForward /\ BackwardCallsAreHarmless => CallsAreSafe
  BY DEF CallsAreSafe
<1> QED  BY <1>1, EnumeratorsMoveForward, GoingBackIsHarmless, PTL

(* What a query returns is what a search of all the lists would return:      *)
(* exactly the intersection or the union, and the k best scores of it,       *)
(* however many documents wand and maxscore never look at and whatever the   *)
(* query object was used for before.                                         *)
THEOREM QueriesFindTheAnswer == Spec => []FindsTheAnswer
<1>1. QInv => FindsTheAnswer
  <2> SUFFICES ASSUME QInv PROVE FindsTheAnswer
    OBVIOUS
  <2>1. AllBefore(NumDocs) = AllTerms /\ AnyBefore(NumDocs) = AnyTerm
    BY NothingFound DEF QInv, Common
  <2>2. kind = "and" => FindsTheIntersection
    BY <2>1 DEF QInv, AndInv, FindsTheIntersection
  <2>3. kind = "or" => FindsTheUnion
    BY <2>1 DEF QInv, OrInv, FindsTheUnion
  <2>4. kind = "wand" => WandFindsTheBest
    BY DEF QInv, WandInv, WandFindsTheBest
  <2>5. kind = "maxscore" => MaxscoreFindsTheBest
    BY DEF QInv, MaxscoreInv, MaxscoreFindsTheBest
  <2> QED  BY <2>2, <2>3, <2>4, <2>5 DEF FindsTheAnswer
<1> QED  BY <1>1, QueryInvariant, PTL
=============================================================================
