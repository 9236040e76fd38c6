---------------------------- MODULE SimQueueProofs ----------------------------
(***************************************************************************)
(* The queue simulator, proved for every size of the sorted queue, slack,  *)
(* set of lengths and length of the simulation.                            *)
(*                                                                         *)
(* Arrivals and departures change what is pending; the four parts of       *)
(* PIFO_Naive::step only move it between the places.  That nothing is      *)
(* lost there rests on the indices being right, and that the flags are     *)
(* right on where the scan and the first unsorted entry stand in the order *)
(* of the entries flagged as sorted.                                       *)
(***************************************************************************)
EXTENDS SimQueue, FiniteSetTheorems, SequenceTheorems, TLAPS

Messages == [id : Nat, remaining : Nat \ {0}]
Cells == [entry : Messages, sorted : BOOLEAN]
Sorters == [hwqueue : SUBSET Messages, backing : Seq(Cells),
            insert : Messages \cup {NoEntry}, scan : Int, firstunsort : Int]

Sorter == [hwqueue |-> hwqueue, backing |-> backing, insert |-> insert,
           scan |-> scan, firstunsort |-> firstunsort]

\* Every identifier is given once.
Distinct(all) == \A e, f \in all : e.id = f.id => e = f

\* The pending entries are in hwqueue, in backing or being inserted, each once.
Placed(q, all) ==
  /\ q.hwqueue \subseteq all
  /\ \A i \in 1..Len(q.backing) : q.backing[i].entry \in all \ q.hwqueue
  /\ q.scan # -1 => q.insert \in all \ q.hwqueue
  /\ \A i, j \in 1..Len(q.backing) : q.backing[i].entry = q.backing[j].entry => i = j
  /\ q.scan # -1 => \A i \in 1..Len(q.backing) : q.backing[i].entry # q.insert
  /\ \A e \in all : \/ e \in q.hwqueue
                    \/ q.scan # -1 /\ e = q.insert
                    \/ \E i \in 1..Len(q.backing) : q.backing[i].entry = e

\* scan and firstunsort are indices into backing.
Indexed(q) ==
  /\ q.scan \in -1..Len(q.backing)
  /\ q.firstunsort \in -1..(Len(q.backing) - 1)
  /\ q.firstunsort # -1 => ~q.backing[q.firstunsort + 1].sorted

\* What is flagged sorted is in order, before the entry being inserted as far
\* as that was compared, and before the entry to re-insert next.
Ordered(q) ==
  /\ \A i, j \in 1..Len(q.backing) :
       i < j /\ q.backing[i].sorted /\ q.backing[j].sorted =>
         Before(q.backing[i].entry, q.backing[j].entry)
  /\ q.scan # -1 =>
       \A i \in 1..q.scan : q.backing[i].sorted => Before(q.backing[i].entry, q.insert)
  /\ q.firstunsort # -1 =>
       \A i \in 1..q.firstunsort :
         q.backing[i].sorted => Before(q.backing[i].entry, q.backing[q.firstunsort + 1].entry)

GoodSorter(q, all) == q \in Sorters /\ Placed(q, all) /\ Indexed(q) /\ Ordered(q)

Pending ==
  /\ id \in Nat /\ IsFiniteSet(gqueue) /\ gqueue \subseteq Messages
  /\ Distinct(gqueue) /\ \A e \in gqueue : e.id < id
  /\ Pifo => active = Cardinality(gqueue)
  /\ ~Pifo => backing = <<>> /\ scan = -1

\* A departure finds an entry in the sorted queue if there is any.
Supplied ==
  phase = "departure" /\ (qtype = "ideal" \/ priorities > 0) /\ hwqueue = {} => gqueue = {}

SimInv == /\ priorities \in Nat /\ pktinacc \in BOOLEAN /\ underflow \in BOOLEAN
          /\ Pending /\ GoodSorter(Sorter, gqueue) /\ Supplied /\ LinkServed

-----------------------------------------------------------------------------
\* Compare is a strict order, total on entries with different identifiers.
LEMMA BeforeOrder ==
  ASSUME NEW e \in Messages, NEW f \in Messages, NEW g \in Messages
  PROVE  /\ ~Before(e, e)
         /\ Before(e, f) /\ Before(f, g) => Before(e, g)
         /\ Before(e, f) => ~Before(f, e)
         /\ e.id # f.id /\ ~Before(e, f) => Before(f, e)
BY DEF Before, Messages

\* backing.insert(begin + i - 1, e)
LEMMA InsertedAt ==
  ASSUME NEW b \in Seq(Cells), NEW k \in 1..(Len(b) + 1), NEW x \in Cells
  PROVE  /\ InsertAt(b, k, x) \in Seq(Cells) /\ Len(InsertAt(b, k, x)) = Len(b) + 1
         /\ \A j \in 1..(Len(b) + 1) :
              InsertAt(b, k, x)[j] = IF j < k THEN b[j] ELSE IF j = k THEN x ELSE b[j - 1]
<1> DEFINE l == SubSeq(b, 1, k - 1)
           r == SubSeq(b, k, Len(b))
<1>1. Len(b) \in Nat
  OBVIOUS
<1>2. l \in Seq(Cells) /\ Len(l) = k - 1 /\ \A j \in 1..(k - 1) : l[j] = b[j]
  BY <1>1
<1>3. r \in Seq(Cells) /\ Len(r) = Len(b) - k + 1 /\ \A j \in 1..(Len(b) - k + 1) : r[j] = b[(k + j) - 1]
  BY <1>1
<1> HIDE DEF l, r
<1> DEFINE lx == l \o <<x>>
<1>4. /\ lx \in Seq(Cells) /\ Len(lx) = k /\ lx[k] = x
      /\ \A j \in 1..(k - 1) : lx[j] = b[j]
  BY <1>2, SMTT(60)
<1> HIDE DEF lx
<1>5. lx \o r \in Seq(Cells) /\ Len(lx \o r) = Len(b) + 1
  <2>1. lx \o r \in Seq(Cells) /\ Len(lx \o r) = Len(lx) + Len(r)
    BY <1>3, <1>4
  <2>2. QED
    BY <1>1, <1>3, <1>4, <2>1
<1>6. ASSUME NEW j \in 1..(Len(b) + 1)
      PROVE  (lx \o r)[j] = IF j < k THEN b[j] ELSE IF j = k THEN x ELSE b[j - 1]
  <2>1. (lx \o r)[j] = IF j <= k THEN lx[j] ELSE r[j - k]
    BY <1>1, <1>3, <1>4, ConcatProperties
  <2>2. CASE j <= k
    BY <1>4, <2>1, <2>2
  <2>3. CASE j > k
    <3>1. j - k \in 1..(Len(b) - k + 1) /\ (k + (j - k)) - 1 = j - 1
      BY <1>1, <2>3
    <3>2. r[j - k] = b[j - 1]
      BY <1>3, <3>1
    <3>3. QED
      BY <2>1, <2>3, <3>2
  <2>4. j <= k \/ j > k
    BY <1>1
  <2>5. QED
    BY <2>2, <2>3, <2>4, Zenon
<1>7. InsertAt(b, k, x) = lx \o r
  BY DEF InsertAt, lx, l, r
<1>8. QED
  BY <1>5, <1>6, <1>7

\* backing.erase(begin + i - 1)
LEMMA RemovedAt ==
  ASSUME NEW b \in Seq(Cells), NEW k \in 1..Len(b)
  PROVE  /\ RemoveAt(b, k) \in Seq(Cells) /\ Len(RemoveAt(b, k)) = Len(b) - 1
         /\ \A j \in 1..(Len(b) - 1) : RemoveAt(b, k)[j] = IF j < k THEN b[j] ELSE b[j + 1]
<1> DEFINE l == SubSeq(b, 1, k - 1)
           r == SubSeq(b, k + 1, Len(b))
<1>1. Len(b) \in Nat
  OBVIOUS
<1>2. l \in Seq(Cells) /\ Len(l) = k - 1 /\ \A j \in 1..(k - 1) : l[j] = b[j]
  BY <1>1
<1>3. r \in Seq(Cells) /\ Len(r) = Len(b) - k /\ \A j \in 1..(Len(b) - k) : r[j] = b[((k + 1) + j) - 1]
  BY <1>1
<1> HIDE DEF l, r
<1>4. l \o r \in Seq(Cells) /\ Len(l \o r) = Len(b) - 1
  BY <1>1, <1>2, <1>3
<1>5. ASSUME NEW j \in 1..(Len(b) - 1)
      PROVE  (l \o r)[j] = IF j < k THEN b[j] ELSE b[j + 1]
  <2>1. (l \o r)[j] = IF j <= k - 1 THEN l[j] ELSE r[j - (k - 1)]
    BY <1>1, <1>2, <1>3, ConcatProperties
  <2>2. CASE j < k
    BY <1>2, <2>1, <2>2
  <2>3. CASE j >= k
    <3>1. j - (k - 1) \in 1..(Len(b) - k) /\ ((k + 1) + (j - (k - 1))) - 1 = j + 1
      BY <1>1, <2>3
    <3>2. r[j - (k - 1)] = b[j + 1]
      BY <1>3, <3>1
    <3>3. QED
      BY <2>1, <2>3, <3>2
  <2>4. j < k \/ j >= k
    BY <1>1
  <2>5. QED
    BY <2>2, <2>3, <2>4, Zenon
<1>6. RemoveAt(b, k) = l \o r
  BY DEF RemoveAt, l, r
<1>7. QED
  BY <1>4, <1>5, <1>6

\* The entry being inserted is put where the scan is: flagged sorted if it was
\* compared with all of backing or belongs before a sorted entry, and otherwise
\* left behind as unsorted.
Put(q, ok, r) ==
  /\ ok => \/ q.scan = Len(q.backing)
           \/ /\ q.scan < Len(q.backing) /\ q.backing[q.scan + 1].sorted
              /\ Before(q.insert, q.backing[q.scan + 1].entry)
  /\ r.hwqueue = q.hwqueue /\ r.scan = -1 /\ r.insert \in Messages \cup {NoEntry}
  /\ r.backing = InsertAt(q.backing, q.scan + 1, [entry |-> q.insert, sorted |-> ok])
  /\ r.firstunsort =
       IF ok THEN (IF q.scan <= q.firstunsort THEN q.firstunsort + 1 ELSE q.firstunsort)
       ELSE (IF q.scan < q.firstunsort \/ q.firstunsort = -1 THEN q.scan ELSE q.firstunsort)
  /\ r = [hwqueue |-> r.hwqueue, backing |-> r.backing, insert |-> r.insert,
          scan |-> r.scan, firstunsort |-> r.firstunsort]

\* That keeps the places and the flags right.
LEMMA PlacedInOrder ==
  ASSUME NEW all \in SUBSET Messages, Distinct(all), NEW q, GoodSorter(q, all), q.scan # -1,
         NEW ok \in BOOLEAN, NEW r, Put(q, ok, r)
  PROVE  GoodSorter(r, all)
<1>0. /\ ok => \/ q.scan = Len(q.backing)
               \/ /\ q.scan < Len(q.backing) /\ q.backing[q.scan + 1].sorted
                  /\ Before(q.insert, q.backing[q.scan + 1].entry)
      /\ r.hwqueue = q.hwqueue /\ r.scan = -1 /\ r.insert \in Messages \cup {NoEntry}
      /\ r.backing = InsertAt(q.backing, q.scan + 1, [entry |-> q.insert, sorted |-> ok])
      /\ r.firstunsort =
           IF ok THEN (IF q.scan <= q.firstunsort THEN q.firstunsort + 1 ELSE q.firstunsort)
           ELSE (IF q.scan < q.firstunsort \/ q.firstunsort = -1 THEN q.scan ELSE q.firstunsort)
  BY DEF Put
<1> DEFINE b == q.backing
           n == Len(b)
           k == q.scan + 1
           x == [entry |-> q.insert, sorted |-> ok]
           t == r.backing
           f == q.firstunsort
<1>1. /\ b \in Seq(Cells) /\ n \in Nat /\ q.insert \in all \ q.hwqueue
      /\ k \in 1..(n + 1) /\ f \in -1..(n - 1) /\ q.scan = k - 1
      /\ (f # -1 => ~b[f + 1].sorted)
  BY DEF GoodSorter, Sorters, Placed, Indexed
<1>2. x \in Cells /\ x.entry = q.insert /\ x.sorted = ok
  <2>1. q.insert \in Messages
    BY <1>1
  <2>2. x \in Cells
    BY <2>1 DEF Cells
  <2>3. x.entry = q.insert /\ x.sorted = ok
    BY Zenon
  <2>4. QED
    BY <2>2, <2>3
<1>3. \A i \in 1..n : b[i] \in Cells /\ b[i].entry \in Messages /\ b[i].sorted \in BOOLEAN
  <2>1. \A i \in 1..n : b[i] \in Cells
    BY <1>1
  <2>2. QED
    BY <2>1 DEF Cells
<1> HIDE DEF x
<1>4. /\ t \in Seq(Cells) /\ Len(t) = n + 1
      /\ \A j \in 1..(n + 1) : t[j] = IF j < k THEN b[j] ELSE IF j = k THEN x ELSE b[j - 1]
  <2>1. t = InsertAt(b, k, x)
    BY <1>0 DEF x
  <2>2. b \in Seq(Cells) /\ k \in 1..(Len(b) + 1) /\ x \in Cells
    BY <1>1, <1>2
  <2> HIDE DEF b, k, t
  <2>3. /\ InsertAt(b, k, x) \in Seq(Cells) /\ Len(InsertAt(b, k, x)) = Len(b) + 1
        /\ \A j \in 1..(Len(b) + 1) :
             InsertAt(b, k, x)[j] = IF j < k THEN b[j] ELSE IF j = k THEN x ELSE b[j - 1]
    BY <2>2, InsertedAt, ZenonT(120)
  <2>4. QED
    BY <2>1, <2>3
<1>5. /\ q.hwqueue \subseteq all
      /\ \A i \in 1..n : b[i].entry \in all \ q.hwqueue /\ b[i].entry # q.insert
      /\ \A i, j \in 1..n : b[i].entry = b[j].entry => i = j
      /\ \A e \in all : e \in q.hwqueue \/ e = q.insert \/ \E i \in 1..n : b[i].entry = e
  BY DEF GoodSorter, Placed
<1>6. /\ \A i, j \in 1..n : i < j /\ b[i].sorted /\ b[j].sorted => Before(b[i].entry, b[j].entry)
      /\ \A i \in 1..(k - 1) : b[i].sorted => Before(b[i].entry, q.insert)
      /\ f # -1 => \A i \in 1..f : b[i].sorted => Before(b[i].entry, b[f + 1].entry)
  BY <1>1 DEF GoodSorter, Ordered
<1>7. ok => k = n + 1 \/ (k \in 1..n /\ b[k].sorted /\ Before(q.insert, b[k].entry))
  BY <1>0, <1>1
<1>8. r.firstunsort = IF ok THEN (IF k - 1 <= f THEN f + 1 ELSE f)
                      ELSE (IF k - 1 < f \/ f = -1 THEN k - 1 ELSE f)
  BY <1>0, <1>1
<1>9. r.hwqueue = q.hwqueue /\ r.scan = -1
  BY <1>0
<1>10. q.insert \in Messages
  BY <1>1
<1> HIDE DEF b, n, k, t, f
<1>at. \A j \in 1..(n + 1) : \/ j < k /\ j \in 1..n /\ j \in 1..(k - 1) /\ t[j] = b[j]
                             \/ j = k /\ t[j] = x
                             \/ j > k /\ j - 1 \in 1..n /\ t[j] = b[j - 1]
  BY <1>1, <1>4
<1>11. Placed(r, all)
  <2>1. ASSUME NEW j \in 1..(n + 1) PROVE t[j].entry \in all \ q.hwqueue
    BY <1>1, <1>2, <1>at, <1>5
  <2>2. ASSUME NEW i \in 1..(n + 1), NEW j \in 1..(n + 1), i < j, t[i].entry = t[j].entry
        PROVE  FALSE
    <3>1. CASE i = k
      <4>1. t[i] = x /\ j - 1 \in 1..n /\ t[j] = b[j - 1]
        BY <1>1, <1>at, <2>2, <3>1
      <4>2. QED
        BY <1>2, <1>5, <2>2, <4>1
    <3>2. CASE j = k
      <4>1. t[j] = x /\ i \in 1..n /\ t[i] = b[i]
        BY <1>1, <1>at, <2>2, <3>2
      <4>2. QED
        BY <1>2, <1>5, <2>2, <4>1
    <3>3. CASE i # k /\ j # k
      <4>1. PICK a \in 1..n : t[i] = b[a] /\ a = IF i < k THEN i ELSE i - 1
        BY <1>1, <1>at, <3>3
      <4>2. PICK c \in 1..n : t[j] = b[c] /\ c = IF j < k THEN j ELSE j - 1
        BY <1>1, <1>at, <3>3
      <4>3. a = c
        BY <1>5, <2>2, <4>1, <4>2
      <4>4. QED
        BY <1>1, <2>2, <3>3, <4>1, <4>2, <4>3
    <3>4. QED
      BY <3>1, <3>2, <3>3
  <2>3. ASSUME NEW e \in all, e \notin q.hwqueue PROVE \E j \in 1..(n + 1) : t[j].entry = e
    <3>1. CASE e = q.insert
      <4>1. k \in 1..(n + 1) /\ t[k] = x
        BY <1>1, <1>at
      <4>2. QED
        BY <1>2, <3>1, <4>1
    <3>2. CASE \E i \in 1..n : b[i].entry = e
      <4>1. PICK i \in 1..n : b[i].entry = e
        BY <3>2
      <4>2. CASE i < k
        <5>1. i \in 1..(n + 1) /\ t[i] = b[i]
          BY <1>1, <1>4, <4>2
        <5>2. QED
          BY <4>1, <5>1
      <4>3. CASE i >= k
        <5>1. i + 1 \in 1..(n + 1) /\ t[i + 1] = b[i]
          BY <1>1, <1>4, <4>3
        <5>2. QED
          BY <4>1, <5>1
      <4>4. QED
        BY <1>1, <4>2, <4>3
    <3>3. QED
      BY <1>5, <2>3, <3>1, <3>2
  <2>4. \A i, j \in 1..(n + 1) : t[i].entry = t[j].entry => i = j
    BY <1>1, <2>2
  <2>5. QED
    BY <1>4, <1>5, <1>9, <2>1, <2>3, <2>4 DEF Placed, t
<1>12. Indexed(r)
  <2>1. CASE ok /\ k - 1 <= f
    <3>1. f # -1 /\ k # f + 1 /\ t[f + 2] = b[f + 1] /\ f + 2 \in 1..(n + 1)
      BY <1>1, <1>4, <1>7, <2>1, SMTT(60)
    <3>2. r.firstunsort = f + 1 /\ (f + 1) + 1 = f + 2
      BY <1>1, <1>8, <2>1
    <3>3. f + 1 \in -1..((n + 1) - 1) /\ -1 \in -1..(n + 1)
      BY <1>1, <3>1
    <3>4. QED
      BY <1>1, <1>4, <1>9, <3>1, <3>2, <3>3 DEF Indexed, t
  <2>2. CASE ok /\ ~(k - 1 <= f)
    <3>1. f # -1 => t[f + 1] = b[f + 1]
      BY <1>1, <1>4, <2>2
    <3>2. QED
      BY <1>1, <1>4, <1>8, <1>9, <2>2, <3>1 DEF Indexed, t
  <2>3. CASE ~ok
    <3> DEFINE g == r.firstunsort
    <3>1. g \in -1..((n + 1) - 1) /\ -1 \in -1..(n + 1)
      BY <1>1, <1>8, <2>3
    <3>2. g # -1 => ~t[g + 1].sorted
      <4>1. CASE k - 1 < f \/ f = -1
        <5>1. g + 1 = k /\ t[k] = x
          BY <1>1, <1>at, <1>8, <2>3, <4>1
        <5>2. QED
          BY <1>2, <2>3, <5>1
      <4>2. CASE ~(k - 1 < f \/ f = -1)
        <5>1. g = f /\ f + 1 \in 1..(n + 1) /\ f + 1 <= k
          BY <1>1, <1>8, <2>3, <4>2
        <5>2. t[f + 1] = b[f + 1] \/ t[f + 1] = x
          BY <1>1, <1>at, <5>1
        <5>3. QED
          BY <1>1, <1>2, <2>3, <4>2, <5>1, <5>2
      <4>3. QED
        BY <4>1, <4>2
    <3>3. QED
      BY <1>4, <1>9, <3>1, <3>2 DEF Indexed, t
  <2>4. QED
    BY <2>1, <2>2, <2>3
<1>13. Ordered(r)
  <2>1. ASSUME NEW i \in 1..(n + 1), NEW j \in 1..(n + 1), i < j, t[i].sorted, t[j].sorted
        PROVE  Before(t[i].entry, t[j].entry)
    <3>1. CASE j < k
      BY <1>1, <1>4, <1>6, <2>1, <3>1
    <3>2. CASE j = k
      BY <1>1, <1>2, <1>4, <1>6, <2>1, <3>2
    <3>3. CASE j > k /\ i < k
      <4>1. t[i] = b[i] /\ i \in 1..n
        BY <1>1, <1>at, <3>3
      <4>2. t[j] = b[j - 1] /\ j - 1 \in 1..n
        BY <1>1, <1>at, <3>3
      <4>3. i < j - 1
        BY <1>1, <3>3
      <4>4. QED
        BY <1>6, <2>1, <4>1, <4>2, <4>3
    <3>4. CASE j > k /\ i = k
      <4>1. t[i] = x /\ ok /\ t[j] = b[j - 1] /\ j - 1 \in 1..n /\ k \in 1..n /\ k <= j - 1
        BY <1>1, <1>2, <1>4, <2>1, <3>4
      <4>2. Before(q.insert, b[k].entry) /\ (k = j - 1 \/ Before(b[k].entry, b[j - 1].entry))
        <5>1. b[k].sorted /\ Before(q.insert, b[k].entry)
          BY <1>1, <1>7, <4>1
        <5>2. b[j - 1].sorted /\ (k = j - 1 \/ k < j - 1)
          BY <1>1, <2>1, <4>1
        <5>3. QED
          BY <1>6, <4>1, <5>1, <5>2
      <4>3. b[k].entry \in Messages /\ b[j - 1].entry \in Messages
        BY <1>3, <4>1
      <4>4. QED
        BY <1>2, <1>10, <4>1, <4>2, <4>3, BeforeOrder
    <3>5. CASE j > k /\ i > k
      <4>1. /\ t[i] = b[i - 1] /\ i - 1 \in 1..n /\ t[j] = b[j - 1] /\ j - 1 \in 1..n
            /\ i - 1 < j - 1
        BY <1>1, <1>at, <2>1, <3>5
      <4>2. QED
        BY <1>6, <2>1, <4>1
    <3>6. QED
      BY <1>1, <2>1, <3>1, <3>2, <3>3, <3>4, <3>5
  <2> DEFINE g == r.firstunsort
  <2>2. ASSUME NEW i \in 1..g, g # -1, t[i].sorted
        PROVE  Before(t[i].entry, t[g + 1].entry)
    <3>1. CASE ok /\ k - 1 <= f
      <4>1. /\ g = f + 1 /\ f # -1 /\ k # f + 1 /\ t[g + 1] = b[f + 1]
            /\ f + 1 \in 1..n /\ i \in 1..(f + 1) /\ k \in 1..f
        BY <1>1, <1>4, <1>7, <1>8, <3>1
      <4>2. CASE i < k
        <5>1. t[i] = b[i] /\ i \in 1..f
          BY <1>1, <1>at, <4>1, <4>2
        <5>2. QED
          BY <1>6, <2>2, <4>1, <5>1
      <4>3. CASE i = k
        <5>1. t[i] = x /\ Before(q.insert, b[k].entry) /\ b[k].sorted
          BY <1>1, <1>4, <1>7, <3>1, <4>1, <4>3
        <5>2. Before(b[k].entry, b[f + 1].entry)
          BY <1>6, <4>1, <5>1
        <5>3. b[k].entry \in Messages /\ b[f + 1].entry \in Messages
          BY <1>1, <1>3, <4>1
        <5>4. QED
          BY <1>2, <1>10, <4>1, <5>1, <5>2, <5>3, BeforeOrder
      <4>4. CASE i > k
        <5>1. t[i] = b[i - 1] /\ i - 1 \in 1..f
          BY <1>1, <1>at, <4>1, <4>4
        <5>2. QED
          BY <1>6, <2>2, <4>1, <5>1
      <4>5. QED
        BY <1>1, <4>1, <4>2, <4>3, <4>4
    <3>2. CASE ok /\ ~(k - 1 <= f)
      BY <1>1, <1>4, <1>6, <1>8, <2>2, <3>2
    <3>3. CASE ~ok /\ (k - 1 < f \/ f = -1)
      <4>1. g = k - 1 /\ g + 1 = k
        BY <1>1, <1>8, <3>3
      <4>2. i \in 1..(k - 1) /\ i \in 1..(n + 1) /\ i < k /\ k \in 1..(n + 1)
        BY <1>1, <4>1
      <4>3. t[i] = b[i] /\ t[k] = x
        BY <1>1, <1>at, <4>2
      <4>4. QED
        BY <1>2, <1>6, <2>2, <4>1, <4>2, <4>3
    <3>4. CASE ~ok /\ ~(k - 1 < f \/ f = -1)
      <4>1. g = f /\ f # -1 /\ f + 1 <= k /\ f + 1 \in 1..n /\ i < k
        BY <1>1, <1>8, <3>4
      <4>2. t[i] = b[i] /\ i \in 1..f /\ i \in 1..(k - 1)
        BY <1>1, <1>at, <4>1
      <4>3. t[f + 1] = b[f + 1] \/ t[f + 1] = x
        BY <1>1, <1>at, <4>1
      <4>4. QED
        BY <1>2, <1>6, <2>2, <4>1, <4>2, <4>3
    <3>5. QED
      BY <3>1, <3>2, <3>3, <3>4
  <2>3. QED
    BY <1>4, <1>9, <2>1, <2>2 DEF Ordered, t
<1>14. r \in Sorters
  <2>1. q.hwqueue \in SUBSET Messages
    BY DEF GoodSorter, Sorters
  <2>2. r.firstunsort \in Int /\ r.scan \in Int /\ r.backing \in Seq(Cells)
    BY <1>1, <1>4, <1>8, <1>9 DEF t
  <2>3. r = [hwqueue |-> r.hwqueue, backing |-> r.backing, insert |-> r.insert,
             scan |-> r.scan, firstunsort |-> r.firstunsort]
    BY DEF Put
  <2>4. QED
    BY <1>0, <2>1, <2>2, <2>3 DEF Sorters
<1>15. QED
  BY <1>11, <1>12, <1>13, <1>14 DEF GoodSorter

\* The first unsorted entry is taken out to be inserted again.
LEMMA JumpGood ==
  ASSUME NEW all \in SUBSET Messages, NEW q, GoodSorter(q, all)
  PROVE  GoodSorter(Jump(q), all)
<1> DEFINE b == q.backing
           n == Len(b)
           k == q.firstunsort + 1
           t == RemoveAt(b, k)
           r == [hwqueue |-> q.hwqueue, backing |-> t, insert |-> b[k].entry,
                 scan |-> q.firstunsort, firstunsort |-> -1]
<1>1. CASE q.scan # -1 \/ q.firstunsort = -1
  BY <1>1 DEF Jump
<1>2. CASE ~(q.scan # -1 \/ q.firstunsort = -1)
  <2>1. Jump(q) = r
    BY <1>2 DEF Jump, GoodSorter, Sorters
  <2>2. /\ b \in Seq(Cells) /\ n \in Nat /\ k \in 1..n /\ q.firstunsort = k - 1
        /\ q.hwqueue \in SUBSET Messages
    BY <1>2 DEF GoodSorter, Sorters, Indexed
  <2>3. /\ q.hwqueue \subseteq all
        /\ \A i \in 1..n : b[i].entry \in all \ q.hwqueue
        /\ \A i, j \in 1..n : b[i].entry = b[j].entry => i = j
        /\ \A e \in all : e \in q.hwqueue \/ \E i \in 1..n : b[i].entry = e
    BY <1>2 DEF GoodSorter, Placed
  <2>4. /\ \A i, j \in 1..n : i < j /\ b[i].sorted /\ b[j].sorted => Before(b[i].entry, b[j].entry)
        /\ \A i \in 1..(k - 1) : b[i].sorted => Before(b[i].entry, b[k].entry)
    BY <1>2, <2>2 DEF GoodSorter, Ordered
  <2>5. b[k] \in Cells /\ b[k].entry \in Messages
    <3>1. b[k] \in Cells
      BY <2>2
    <3>2. QED
      BY <3>1 DEF Cells
  <2> HIDE DEF b, k
  <2>6. /\ t \in Seq(Cells) /\ Len(t) = n - 1
        /\ \A j \in 1..(n - 1) : t[j] = IF j < k THEN b[j] ELSE b[j + 1]
    BY <2>2, RemovedAt
  <2>7. \A j \in 1..(n - 1) : \/ j < k /\ j \in 1..n /\ j \in 1..(k - 1) /\ t[j] = b[j]
                              \/ j >= k /\ j + 1 \in 1..n /\ t[j] = b[j + 1]
    BY <2>2, <2>6
  <2>8. /\ r \in Sorters /\ r.hwqueue = q.hwqueue /\ r.backing = t /\ r.insert = b[k].entry
        /\ r.scan = k - 1 /\ r.firstunsort = -1
    <3> HIDE DEF t
    <3>1. q.firstunsort \in Int /\ -1 \in Int
      BY <2>2
    <3>2. r \in Sorters
      BY <2>2, <2>5, <2>6, <3>1 DEF Sorters
    <3>3. QED
      BY <2>2, <3>2
  <2> HIDE DEF n, t, r
  <2>9. Placed(r, all)
    <3>1. \A j \in 1..(n - 1) : t[j].entry \in all \ q.hwqueue /\ t[j].entry # b[k].entry
      <4>1. ASSUME NEW j \in 1..(n - 1) PROVE \E i \in 1..n : i # k /\ t[j] = b[i]
        BY <2>2, <2>7
      <4>2. QED
        BY <2>2, <2>3, <4>1
    <3>2. ASSUME NEW i \in 1..(n - 1), NEW j \in 1..(n - 1), i < j, t[i].entry = t[j].entry
          PROVE  FALSE
      <4>1. PICK a \in 1..n : t[i] = b[a] /\ a = IF i < k THEN i ELSE i + 1
        BY <2>2, <2>7
      <4>2. PICK c \in 1..n : t[j] = b[c] /\ c = IF j < k THEN j ELSE j + 1
        BY <2>2, <2>7
      <4>3. a = c
        BY <2>3, <3>2, <4>1, <4>2
      <4>4. QED
        BY <2>2, <3>2, <4>1, <4>2, <4>3
    <3>3. \A i, j \in 1..(n - 1) : t[i].entry = t[j].entry => i = j
      BY <2>2, <3>2
    <3>4. ASSUME NEW e \in all, e \notin q.hwqueue, e # b[k].entry
          PROVE  \E j \in 1..(n - 1) : t[j].entry = e
      <4>1. PICK i \in 1..n : b[i].entry = e
        BY <2>3, <3>4
      <4>2. CASE i < k
        <5>1. i \in 1..(n - 1) /\ t[i] = b[i]
          BY <2>2, <2>6, <4>2
        <5>2. QED
          BY <4>1, <5>1
      <4>3. CASE i > k
        <5>1. i - 1 \in 1..(n - 1) /\ t[i - 1] = b[i]
          BY <2>2, <2>6, <4>3
        <5>2. QED
          BY <4>1, <5>1
      <4>4. QED
        BY <2>2, <3>4, <4>1, <4>2, <4>3
    <3>5. b[k].entry \in all \ q.hwqueue /\ k - 1 # -1
      BY <2>2, <2>3
    <3>6. QED
      BY <2>3, <2>6, <2>8, <3>1, <3>3, <3>4, <3>5 DEF Placed
  <2>10. Indexed(r)
    BY <2>2, <2>6, <2>8 DEF Indexed
  <2>11. Ordered(r)
    <3>1. ASSUME NEW i \in 1..(n - 1), NEW j \in 1..(n - 1), i < j, t[i].sorted, t[j].sorted
          PROVE  Before(t[i].entry, t[j].entry)
      <4>1. PICK a \in 1..n : t[i] = b[a] /\ a = IF i < k THEN i ELSE i + 1
        BY <2>2, <2>7
      <4>2. PICK c \in 1..n : t[j] = b[c] /\ c = IF j < k THEN j ELSE j + 1
        BY <2>2, <2>7
      <4>3. a < c
        BY <2>2, <3>1, <4>1, <4>2
      <4>4. QED
        BY <2>4, <3>1, <4>1, <4>2, <4>3
    <3>2. \A i \in 1..(k - 1) : t[i] = b[i]
      BY <2>2, <2>6
    <3>3. QED
      BY <2>4, <2>6, <2>8, <3>1, <3>2 DEF Ordered
  <2>12. QED
    BY <2>1, <2>8, <2>9, <2>10, <2>11 DEF GoodSorter
<1>3. QED
  BY <1>1, <1>2

\* One comparison: the entry goes on, finds its place, or takes that of another
\* unsorted one, which is then carried on.  An entry that is in hand does not
\* stay in hand when backing is empty.
LEMMA CompareGood ==
  ASSUME NEW all \in SUBSET Messages, Distinct(all), NEW q, GoodSorter(q, all)
  PROVE  /\ GoodSorter(Compare(q), all)
         /\ Compare(q).backing = <<>> => Compare(q).scan = -1
<1> DEFINE b == q.backing
           n == Len(b)
           k == q.scan + 1
           f == q.firstunsort
           ins == q.insert
           place(ok) == [entry |-> ins, sorted |-> ok]
<1>1. /\ b \in Seq(Cells) /\ n \in Nat /\ q.scan \in -1..n /\ f \in -1..(n - 1)
      /\ ins \in Messages \cup {NoEntry} /\ q.hwqueue \in SUBSET Messages
      /\ q.scan \in Int /\ f \in Int
      /\ q = [hwqueue |-> q.hwqueue, backing |-> b, insert |-> ins,
              scan |-> q.scan, firstunsort |-> f]
  BY DEF GoodSorter, Sorters, Indexed
<1>2. CASE q.scan = -1
  <2>1. Compare(q) = q
    BY <1>2 DEF Compare
  <2>2. QED
    BY <1>2, <2>1
<1>3. CASE q.scan # -1 /\ q.scan >= n
  <2> DEFINE r == [hwqueue |-> q.hwqueue, backing |-> InsertAt(b, k, place(TRUE)),
                   insert |-> ins, scan |-> -1, firstunsort |-> f]
  <2>2. q.scan = n /\ ~(q.scan <= f) /\ q.scan \notin 0..(n - 1)
    BY <1>1, <1>3
  <2>1. Compare(q) = r
    <3>1. Compare(q) = [q EXCEPT !.backing = InsertAt(@, k, place(TRUE)), !.scan = -1]
      BY <1>3, <2>2 DEF Compare
    <3>2. QED
      BY <1>1, <3>1
  <2>3. Put(q, TRUE, r)
    BY <1>1, <2>2 DEF Put
  <2>4. r.scan = -1
    OBVIOUS
  <2> HIDE DEF r
  <2>5. QED
    BY <1>3, <2>1, <2>3, <2>4, PlacedInOrder
<1>4. CASE q.scan # -1 /\ ~(q.scan >= n)
  <2> DEFINE met == b[k]
  <2>1. q.scan \in 0..(n - 1) /\ k \in 1..n /\ k - 1 = q.scan
    BY <1>1, <1>4
  <2>2. met \in Cells /\ met.entry \in Messages /\ met.sorted \in BOOLEAN
    <3>1. met \in Cells
      BY <1>1, <2>1
    <3>2. QED
      BY <3>1 DEF Cells
  <2>3. /\ ins \in all \ q.hwqueue /\ ins \in Messages
        /\ \A i \in 1..n : b[i].entry \in all \ q.hwqueue /\ b[i].entry # ins
    BY <1>4 DEF GoodSorter, Placed
  <2>4. /\ \A i, j \in 1..n : b[i].entry = b[j].entry => i = j
        /\ \A e \in all : e \in q.hwqueue \/ e = ins \/ \E i \in 1..n : b[i].entry = e
    BY <1>4 DEF GoodSorter, Placed
  <2>5. /\ \A i, j \in 1..n : i < j /\ b[i].sorted /\ b[j].sorted => Before(b[i].entry, b[j].entry)
        /\ \A i \in 1..(k - 1) : b[i].sorted => Before(b[i].entry, ins)
        /\ f # -1 => \A i \in 1..f : b[i].sorted => Before(b[i].entry, b[f + 1].entry)
        /\ f # -1 => ~b[f + 1].sorted
    BY <1>4, <2>1 DEF GoodSorter, Ordered, Indexed
  <2>6. CASE ~Before(ins, met.entry)
    <3> DEFINE r == [hwqueue |-> q.hwqueue, backing |-> b, insert |-> ins,
                     scan |-> q.scan + 1, firstunsort |-> f]
    <3>1. Compare(q) = r
      BY <1>1, <1>4, <2>1, <2>6 DEF Compare
    <3>2. /\ r.hwqueue = q.hwqueue /\ r.backing = b /\ r.insert = ins
          /\ r.scan = k /\ r.firstunsort = f
      OBVIOUS
    <3>3. r \in Sorters
      BY <1>1 DEF Sorters
    <3>4. Before(met.entry, ins)
      <4>1. met.entry.id # ins.id
        BY <2>1, <2>3 DEF Distinct
      <4>2. QED
        BY <2>2, <2>3, <2>6, <4>1, BeforeOrder
    <3> HIDE DEF r
    <3>5. k # -1 /\ k \in -1..n /\ b # <<>>
      BY <1>1, <2>1
    <3>6. Placed(r, all)
      BY <1>4, <3>2, <3>5 DEF GoodSorter, Placed
    <3>7. Indexed(r)
      BY <1>1, <2>5, <3>2, <3>5 DEF Indexed
    <3>8. \A i \in 1..k : b[i].sorted => Before(b[i].entry, ins)
      <4>1. \A i \in 1..k : i \in 1..(k - 1) \/ i = k
        BY <2>1
      <4>2. QED
        BY <2>5, <3>4, <4>1
    <3>9. Ordered(r)
      BY <2>5, <3>2, <3>8 DEF Ordered
    <3>10. QED
      BY <3>1, <3>2, <3>3, <3>5, <3>6, <3>7, <3>9 DEF GoodSorter
  <2>7. CASE Before(ins, met.entry) /\ met.sorted
    <3> DEFINE r == [hwqueue |-> q.hwqueue, backing |-> InsertAt(b, k, place(TRUE)),
                     insert |-> ins, scan |-> -1,
                     firstunsort |-> IF q.scan <= f THEN f + 1 ELSE f]
    <3>1. Compare(q) = r
      BY <1>1, <1>4, <2>1, <2>7 DEF Compare
    <3>2. Put(q, TRUE, r)
      BY <1>1, <2>1, <2>7 DEF Put
    <3>3. r.scan = -1
      OBVIOUS
    <3> HIDE DEF r
    <3>4. QED
      BY <1>4, <3>1, <3>2, <3>3, PlacedInOrder
  <2>8. CASE Before(ins, met.entry) /\ ~met.sorted
    <3> DEFINE t == [b EXCEPT ![k] = place(FALSE)]
               g == IF q.scan < f \/ f = -1 THEN q.scan ELSE f
               r == [hwqueue |-> q.hwqueue, backing |-> t, insert |-> met.entry,
                     scan |-> q.scan + 1, firstunsort |-> g]
    <3>1. Compare(q) = r
      BY <1>1, <1>4, <2>1, <2>8 DEF Compare
    <3>2. place(FALSE) \in Cells /\ place(FALSE).entry = ins /\ ~place(FALSE).sorted
      BY <2>3 DEF Cells
    <3>3. /\ t \in Seq(Cells) /\ Len(t) = n /\ t[k] = place(FALSE)
          /\ \A i \in 1..n : i # k => t[i] = b[i]
      <4>1. ASSUME NEW c \in Cells
            PROVE  /\ [b EXCEPT ![k] = c] \in Seq(Cells) /\ Len([b EXCEPT ![k] = c]) = n
                   /\ [b EXCEPT ![k] = c][k] = c
                   /\ \A i \in 1..n : i # k => [b EXCEPT ![k] = c][i] = b[i]
        <5>1. b \in Seq(Cells) /\ k \in 1..Len(b) /\ n = Len(b)
          BY <1>1, <2>1
        <5> HIDE DEF b, k, n
        <5>2. QED
          BY <5>1, ExceptSeq
      <4> HIDE DEF place
      <4>2. QED
        BY <3>2, <4>1
    <3>4. /\ r.hwqueue = q.hwqueue /\ r.backing = t /\ r.insert = met.entry
          /\ r.scan = k /\ r.firstunsort = g
      OBVIOUS
    <3>5. g \in 0..(n - 1) /\ (g = k - 1 \/ (g = f /\ f + 1 \in 1..(k - 1)))
      BY <1>1, <2>1
    <3>6. r \in Sorters
      <4> HIDE DEF t, g
      <4>1. g \in Int /\ q.scan + 1 \in Int
        BY <1>1, <3>5
      <4>2. QED
        BY <1>1, <2>2, <3>3, <4>1 DEF Sorters
    <3>7. \A i \in 1..n : t[i].sorted => b[i].sorted /\ i # k /\ t[i] = b[i]
      BY <3>2, <3>3
    <3>8. t[k].entry = ins /\ ~t[k].sorted
      BY <3>2, <3>3
    <3> HIDE DEF r, t, g, place
    <3>9. Placed(r, all)
      <4>0. \A i \in 1..n : (i = k /\ t[i].entry = ins) \/ (i # k /\ t[i].entry = b[i].entry)
        BY <3>3, <3>8
      <4>1. ASSUME NEW i \in 1..n
            PROVE  t[i].entry \in all \ q.hwqueue /\ t[i].entry # met.entry
        <5>1. CASE i = k
          BY <2>1, <2>3, <3>8, <5>1
        <5>2. CASE i # k
          BY <2>1, <2>3, <2>4, <3>3, <5>2
        <5>3. QED
          BY <5>1, <5>2
      <4>2. ASSUME NEW i \in 1..n, NEW j \in 1..n, t[i].entry = t[j].entry PROVE i = j
        BY <2>3, <2>4, <4>0, <4>2
      <4>3. ASSUME NEW e \in all, e \notin q.hwqueue, e # met.entry
            PROVE  \E i \in 1..n : t[i].entry = e
        <5>1. CASE e = ins
          BY <2>1, <3>8, <5>1
        <5>2. CASE e # ins
          <6>1. PICK i \in 1..n : b[i].entry = e
            BY <2>4, <4>3, <5>2
          <6>2. i # k
            BY <4>3, <6>1
          <6>3. QED
            BY <4>0, <6>1, <6>2
        <5>3. QED
          BY <5>1, <5>2
      <4>4. met.entry \in all \ q.hwqueue /\ q.hwqueue \subseteq all
        BY <2>1, <2>3 DEF GoodSorter, Placed
      <4>5. k # -1
        BY <2>1
      <4>6. QED
        BY <3>3, <3>4, <4>1, <4>2, <4>3, <4>4, <4>5 DEF Placed
    <3>10. Indexed(r)
      <4>1. ~t[g + 1].sorted
        <5>1. CASE g = k - 1
          <6>1. g + 1 = k
            BY <2>1, <5>1
          <6>2. QED
            BY <3>8, <6>1
        <5>2. CASE g = f /\ f + 1 \in 1..(k - 1)
          <6>1. f # -1 /\ f + 1 \in 1..n
            BY <1>1, <2>1, <5>2
          <6>2. QED
            BY <2>5, <3>7, <5>2, <6>1
        <5>3. QED
          BY <3>5, <5>1, <5>2
      <4>2. g \in -1..(n - 1) /\ k \in -1..n
        BY <1>1, <2>1, <3>5
      <4>3. QED
        BY <3>3, <3>4, <4>1, <4>2 DEF Indexed
    <3>11. Ordered(r)
      <4>1. \A i, j \in 1..n : i < j /\ t[i].sorted /\ t[j].sorted => Before(t[i].entry, t[j].entry)
        BY <2>5, <3>7
      <4>2. ASSUME NEW i \in 1..k, t[i].sorted PROVE Before(t[i].entry, met.entry)
        <5>1. i \in 1..n
          BY <1>1, <2>1
        <5>2. b[i].sorted /\ i # k /\ t[i] = b[i]
          BY <3>7, <4>2, <5>1
        <5>3. i \in 1..(k - 1)
          BY <2>1, <5>2
        <5>4. Before(b[i].entry, ins)
          BY <2>5, <5>2, <5>3
        <5>5. b[i].entry \in Messages
          BY <2>3, <5>1
        <5>6. QED
          BY <2>2, <2>3, <2>8, <5>2, <5>4, <5>5, BeforeOrder
      <4>3. ASSUME NEW i \in 1..g, t[i].sorted PROVE Before(t[i].entry, t[g + 1].entry)
        <5>1. i \in 1..n
          BY <1>1, <3>5
        <5>2. b[i].sorted /\ t[i] = b[i]
          BY <3>7, <4>3, <5>1
        <5>3. CASE g = k - 1
          <6>1. g + 1 = k /\ i \in 1..(k - 1)
            BY <2>1, <5>3
          <6>2. QED
            BY <2>5, <3>8, <5>2, <6>1
        <5>4. CASE g = f /\ f + 1 \in 1..(k - 1)
          <6>1. f # -1 /\ f + 1 \in 1..n /\ f + 1 # k /\ i \in 1..f
            BY <1>1, <2>1, <5>4
          <6>2. t[g + 1] = b[f + 1]
            BY <3>3, <5>4, <6>1
          <6>3. QED
            BY <2>5, <5>2, <6>1, <6>2
        <5>5. QED
          BY <3>5, <5>3, <5>4
      <4>4. QED
        BY <3>3, <3>4, <4>1, <4>2, <4>3 DEF Ordered
    <3>12. t # <<>>
      BY <2>1, <3>3
    <3>13. QED
      BY <3>1, <3>4, <3>6, <3>9, <3>10, <3>11, <3>12 DEF GoodSorter
  <2>9. QED
    BY <2>2, <2>6, <2>7, <2>8
<1>5. QED
  BY <1>2, <1>3, <1>4

\* The head of backing moves into the sorted queue.  An empty sorted queue is
\* always refilled, if backing is not empty too.
LEMMA RefillGood ==
  ASSUME NEW all \in SUBSET Messages, NEW q, GoodSorter(q, all), priorities \in Nat
  PROVE  /\ GoodSorter(Refill(q), all)
         /\ Refill(q).hwqueue = {} => q.hwqueue = {} /\ q.backing = <<>> /\ Refill(q) = q
<1> DEFINE b == q.backing
           n == Len(b)
           f == q.firstunsort
           t == Tail(b)
           r == [hwqueue |-> q.hwqueue \cup {b[1].entry}, backing |-> t, insert |-> q.insert,
                 scan |-> IF q.scan <= 0 THEN q.scan ELSE q.scan - 1,
                 firstunsort |-> IF f < 0 THEN f ELSE f - 1]
<1>1. /\ b \in Seq(Cells) /\ n \in Nat /\ q.scan \in -1..n /\ f \in -1..(n - 1)
      /\ q.insert \in Messages \cup {NoEntry} /\ q.hwqueue \in SUBSET Messages
      /\ q = [hwqueue |-> q.hwqueue, backing |-> b, insert |-> q.insert,
              scan |-> q.scan, firstunsort |-> f]
  BY DEF GoodSorter, Sorters, Indexed
<1>2. RunsLow({})
  <2>1. Cardinality({}) = 0 /\ Slack \in Nat
    BY FS_EmptySet, SimAssumption
  <2>2. QED
    BY <2>1 DEF RunsLow
<1>3. CASE Refill(q) = q /\ (b = <<>> \/ ~RunsLow(q.hwqueue))
  BY <1>2, <1>3
<1>4. CASE Refill(q) = r /\ b # <<>>
  <2>1. n >= 1 /\ t \in Seq(Cells) /\ Len(t) = n - 1 /\ \A i \in 1..(n - 1) : t[i] = b[i + 1]
    BY <1>1, <1>4, HeadTailProperties
  <2>2. b[1] \in Cells /\ b[1].entry \in Messages
    <3>1. b[1] \in Cells
      BY <1>1, <2>1
    <3>2. QED
      BY <3>1 DEF Cells
  <2> DEFINE h == b[1].entry
             s == IF q.scan <= 0 THEN q.scan ELSE q.scan - 1
             g == IF f < 0 THEN f ELSE f - 1
  <2>3. /\ r.hwqueue = q.hwqueue \cup {h} /\ r.backing = t /\ r.insert = q.insert
        /\ r.scan = s /\ r.firstunsort = g
    OBVIOUS
  <2>4. /\ s \in -1..(n - 1) /\ g \in -1..((n - 1) - 1) /\ (s = -1 <=> q.scan = -1)
        /\ (g # -1 => f = g + 1 /\ f # -1) /\ (s > 0 => q.scan = s + 1)
    BY <1>1, <2>1
  <2>5. r \in Sorters
    <3> HIDE DEF t, h, s, g
    <3>1. s \in Int /\ g \in Int /\ q.hwqueue \cup {h} \in SUBSET Messages
      BY <1>1, <2>1, <2>2, <2>4 DEF h
    <3>2. r = [hwqueue |-> q.hwqueue \cup {h}, backing |-> t, insert |-> q.insert,
               scan |-> s, firstunsort |-> g]
      BY DEF h, s, g
    <3> HIDE DEF r
    <3>3. QED
      BY <1>1, <2>1, <3>1, <3>2 DEF Sorters
  <2>6. /\ q.hwqueue \subseteq all
        /\ \A i \in 1..n : b[i].entry \in all \ q.hwqueue
        /\ \A i, j \in 1..n : b[i].entry = b[j].entry => i = j
        /\ q.scan # -1 => /\ q.insert \in all \ q.hwqueue
                          /\ \A i \in 1..n : b[i].entry # q.insert
        /\ \A e \in all : \/ e \in q.hwqueue \/ (q.scan # -1 /\ e = q.insert)
                          \/ \E i \in 1..n : b[i].entry = e
    BY DEF GoodSorter, Placed
  <2>7. /\ \A i, j \in 1..n : i < j /\ b[i].sorted /\ b[j].sorted => Before(b[i].entry, b[j].entry)
        /\ q.scan # -1 => \A i \in 1..q.scan : b[i].sorted => Before(b[i].entry, q.insert)
        /\ f # -1 => \A i \in 1..f : b[i].sorted => Before(b[i].entry, b[f + 1].entry)
        /\ f # -1 => ~b[f + 1].sorted
    BY DEF GoodSorter, Ordered, Indexed
  <2>8. \A i \in 1..(n - 1) : i + 1 \in 1..n /\ i + 1 # 1
    BY <1>1
  <2>9. 1 \in 1..n
    BY <2>1
  <2> HIDE DEF r, t, s, g, b, n, f
  <2>10. Placed(r, all)
    <3>1. \A i \in 1..(n - 1) : t[i].entry \in all \ (q.hwqueue \cup {h})
      BY <2>1, <2>6, <2>8, <2>9
    <3>2. ASSUME NEW i \in 1..(n - 1), NEW j \in 1..(n - 1), t[i].entry = t[j].entry PROVE i = j
      <4>1. i + 1 \in 1..n /\ j + 1 \in 1..n /\ t[i] = b[i + 1] /\ t[j] = b[j + 1]
        BY <2>1, <2>8
      <4>2. i + 1 = j + 1
        BY <2>6, <3>2, <4>1
      <4>3. QED
        BY <1>1, <4>2
    <3>3. ASSUME NEW e \in all, e \notin q.hwqueue, e # h, ~(q.scan # -1 /\ e = q.insert)
          PROVE  \E i \in 1..(n - 1) : t[i].entry = e
      <4>1. PICK i \in 1..n : b[i].entry = e
        BY <2>6, <3>3
      <4>2. i - 1 \in 1..(n - 1) /\ (i - 1) + 1 = i
        BY <1>1, <3>3, <4>1
      <4>3. t[i - 1] = b[i]
        BY <2>1, <4>2
      <4>4. QED
        BY <4>1, <4>2, <4>3
    <3>4. q.hwqueue \cup {h} \subseteq all
      BY <2>6, <2>9
    <3>5. q.scan # -1 => /\ q.insert \in all \ (q.hwqueue \cup {h})
                         /\ \A i \in 1..(n - 1) : t[i].entry # q.insert
      BY <2>1, <2>6, <2>8, <2>9, SMTT(60)
    <3> HIDE DEF h
    <3>6. QED
      BY <2>1, <2>3, <2>4, <3>1, <3>2, <3>3, <3>4, <3>5 DEF Placed
  <2>11. Indexed(r)
    <3>1. g # -1 => ~t[g + 1].sorted
      <4>1. ASSUME g # -1 PROVE ~t[g + 1].sorted
        <5>1. g + 1 \in 1..(n - 1) /\ (g + 1) + 1 = f + 1 /\ f # -1
          BY <1>1, <2>1, <2>4, <4>1
        <5>2. t[g + 1] = b[f + 1]
          BY <2>1, <5>1
        <5>3. QED
          BY <2>7, <5>1, <5>2
      <4>2. QED
        BY <4>1
    <3>2. QED
      BY <2>1, <2>3, <2>4, <3>1 DEF Indexed
  <2>12. Ordered(r)
    <3>1. ASSUME NEW i \in 1..(n - 1), NEW j \in 1..(n - 1), i < j, t[i].sorted, t[j].sorted
          PROVE  Before(t[i].entry, t[j].entry)
      <4>1. /\ i + 1 \in 1..n /\ j + 1 \in 1..n /\ t[i] = b[i + 1] /\ t[j] = b[j + 1]
            /\ i + 1 < j + 1
        BY <1>1, <2>1, <2>8, <3>1
      <4>2. QED
        BY <2>7, <3>1, <4>1
    <3>2. ASSUME NEW i \in 1..s, s # -1, t[i].sorted PROVE Before(t[i].entry, q.insert)
      <4>1. q.scan # -1 /\ i + 1 \in 1..q.scan /\ i \in 1..(n - 1)
        BY <1>1, <2>1, <2>4, <3>2, SMTT(60)
      <4>2. t[i] = b[i + 1]
        BY <2>1, <4>1
      <4>3. QED
        BY <2>7, <3>2, <4>1, <4>2
    <3>3. ASSUME NEW i \in 1..g, g # -1, t[i].sorted PROVE Before(t[i].entry, t[g + 1].entry)
      <4>1. /\ f # -1 /\ i + 1 \in 1..f /\ i \in 1..(n - 1) /\ g + 1 \in 1..(n - 1)
            /\ (g + 1) + 1 = f + 1
        BY <1>1, <2>1, <2>4, <3>3, SMTT(60)
      <4>2. t[i] = b[i + 1] /\ t[g + 1] = b[f + 1]
        BY <2>1, <4>1
      <4>3. QED
        BY <2>7, <3>3, <4>1, <4>2
    <3>4. QED
      BY <2>1, <2>3, <3>1, <3>2, <3>3 DEF Ordered
  <2>13. r.hwqueue # {}
    BY <2>3
  <2>14. QED
    BY <1>4, <2>5, <2>10, <2>11, <2>12, <2>13 DEF GoodSorter
<1>5. QED
  BY <1>1, <1>3, <1>4 DEF Refill

-----------------------------------------------------------------------------
\* A strict order has a minimal element in a finite set that is not empty.
LEMMA MinimalExists ==
  ASSUME NEW T, IsFiniteSet(T), T # {}, NEW R,
         \A x \in T : <<x, x>> \notin R,
         \A x, y, z \in T : <<x, y>> \in R /\ <<y, z>> \in R => <<x, z>> \in R
  PROVE  \E x \in T : \A y \in T : <<y, x>> \notin R
<1> DEFINE Down(x) == {y \in T : <<y, x>> \in R}
           Downs == {Down(x) : x \in T}
<1>1. Downs \subseteq FiniteSubsetsOf(T) /\ Downs # {}
  <2>1. ASSUME NEW x \in T PROVE Down(x) \in FiniteSubsetsOf(T)
    <3>1. Down(x) \in SUBSET T
      OBVIOUS
    <3>2. IsFiniteSet(Down(x))
      BY <3>1, FS_Subset
    <3>3. QED
      BY <3>1, <3>2 DEF FiniteSubsetsOf
  <2> HIDE DEF Down
  <2>2. Downs \subseteq FiniteSubsetsOf(T)
    BY <2>1
  <2>3. PICK x \in T : Down(x) \in Downs
    OBVIOUS
  <2>4. QED
    BY <2>2, <2>3
<1>2. IsWellFoundedOn(StrictSubsetOrdering(T), FiniteSubsetsOf(T))
  BY FS_StrictSubsetOrderingWellFounded
<1> HIDE DEF Downs
<1>3. PICK d \in Downs : \A e \in Downs : <<e, d>> \notin StrictSubsetOrdering(T)
  BY <1>1, <1>2, WFMin
<1>4. PICK x \in T : d = Down(x)
  BY DEF Downs
<1>5. ASSUME NEW y \in T, <<y, x>> \in R PROVE FALSE
  <2>1. Down(y) \in SUBSET T /\ Down(x) \in SUBSET T /\ Down(y) \in Downs
    BY DEF Downs
  <2>2. Down(y) \subseteq Down(x)
    BY <1>5
  <2>3. y \in Down(x) /\ y \notin Down(y)
    BY <1>5
  <2>4. Down(y) # Down(x)
    BY <2>3
  <2> HIDE DEF Down
  <2>5. <<Down(y), d>> \in StrictSubsetOrdering(T)
    BY <1>4, <2>1, <2>2, <2>4 DEF StrictSubsetOrdering
  <2>6. QED
    BY <1>3, <2>1, <2>5
<1>6. QED
  BY <1>5

\* *hwqueue.begin(): a queue that is not empty has an entry with none before it.
LEMMA BestExists ==
  ASSUME NEW Q \in SUBSET Messages, Distinct(Q), IsFiniteSet(Q), Q # {}
  PROVE  Best(Q) \in Q
<1> DEFINE R == {pair \in Q \X Q : Before(pair[1], pair[2])}
<1>1. \A x, y \in Q : <<x, y>> \in R <=> Before(x, y)
  OBVIOUS
<1> HIDE DEF R
<1>2. \A x, y, z \in Q : ~Before(x, x) /\ (Before(x, y) /\ Before(y, z) => Before(x, z))
  BY BeforeOrder
<1>3. PICK x \in Q : \A y \in Q : <<y, x>> \notin R
  BY <1>1, <1>2, MinimalExists
<1>4. {o \in Q : Before(o, x)} = {}
  BY <1>1, <1>3
<1>5. Cardinality({o \in Q : Before(o, x)}) = 0
  BY <1>4, FS_EmptySet
<1>6. QED
  BY <1>5 DEF Best, Nth

\* *hwqueue.rbegin(): it has an entry with all others before it.
LEMMA WorstExists ==
  ASSUME NEW Q \in SUBSET Messages, Distinct(Q), IsFiniteSet(Q), Q # {}
  PROVE  Worst(Q) \in Q
<1> DEFINE R == {pair \in Q \X Q : Before(pair[2], pair[1])}
<1>1. \A x, y \in Q : <<x, y>> \in R <=> Before(y, x)
  OBVIOUS
<1> HIDE DEF R
<1>2. \A x, y, z \in Q : ~Before(x, x) /\ (Before(x, y) /\ Before(y, z) => Before(x, z))
  BY BeforeOrder
<1>3. PICK x \in Q : \A y \in Q : <<y, x>> \notin R
  BY <1>1, <1>2, MinimalExists
<1>4. \A y \in Q : y # x => Before(y, x)
  BY <1>1, <1>3, BeforeOrder DEF Distinct
<1>5. {o \in Q : Before(o, x)} = Q \ {x}
  BY <1>2, <1>4
<1>6. Cardinality(Q \ {x}) = Cardinality(Q) - 1
  BY FS_RemoveElement
<1>7. QED
  BY <1>5, <1>6 DEF Worst, Nth

\* A full sorted queue gives up its last entry, and is not empty then.
LEMMA SpillGood ==
  ASSUME NEW all \in SUBSET Messages, Distinct(all), IsFiniteSet(all), NEW q,
         GoodSorter(q, all), priorities \in Nat
  PROVE  /\ GoodSorter(Spill(q), all)
         /\ priorities > 0 /\ Spill(q).hwqueue = {} => Spill(q) = q
<1> DEFINE hw == q.hwqueue
           w == Worst(hw)
           f == q.firstunsort
           n == Len(q.backing)
           atEnd == q.scan = n
           p == IF q.scan = -1 THEN q
                ELSE [hwqueue |-> hw, insert |-> q.insert, scan |-> -1,
                      backing |-> InsertAt(q.backing, q.scan + 1,
                                           [entry |-> q.insert, sorted |-> atEnd]),
                      firstunsort |-> IF ~atEnd /\ (q.scan < f \/ f = -1) THEN q.scan ELSE f]
           r == [hwqueue |-> hw \ {w}, backing |-> p.backing, insert |-> w,
                 scan |-> 0, firstunsort |-> p.firstunsort]
<1>1. /\ q \in Sorters /\ n \in Nat /\ q.scan \in -1..n /\ f \in -1..(n - 1)
      /\ q.insert \in Messages \cup {NoEntry} /\ hw \in SUBSET Messages
      /\ q = [hwqueue |-> hw, backing |-> q.backing, insert |-> q.insert,
              scan |-> q.scan, firstunsort |-> f]
  BY DEF GoodSorter, Sorters, Indexed
<1>2. IsFiniteSet(hw) /\ Distinct(hw) /\ Cardinality(hw) \in Nat /\ hw \subseteq all
  <2>1. hw \subseteq all
    BY DEF GoodSorter, Placed
  <2>2. IsFiniteSet(hw)
    BY <2>1, FS_Subset
  <2>3. Distinct(hw)
    BY <2>1 DEF Distinct
  <2>4. QED
    BY <2>1, <2>2, <2>3, FS_CardinalityType
<1>3. CASE Cardinality(hw) < priorities + 1
  <2>1. Spill(q) = q
    BY <1>3 DEF Spill
  <2>2. QED
    BY <2>1
<1>4. CASE ~(Cardinality(hw) < priorities + 1)
  <2>1. Spill(q) = r
    <3>1. CASE q.scan = -1
      <4>1. Spill(q) = [q EXCEPT !.insert = w, !.hwqueue = @ \ {w}, !.scan = 0]
        BY <1>4, <3>1 DEF Spill
      <4>2. p = q
        BY <3>1
      <4> HIDE DEF p, w
      <4>3. QED
        BY <1>1, <4>1, <4>2
    <3>2. CASE q.scan # -1
      <4> DEFINE a == InsertAt(q.backing, q.scan + 1, [entry |-> q.insert, sorted |-> atEnd])
                 g == IF ~atEnd /\ (q.scan < f \/ f = -1) THEN q.scan ELSE f
      <4>1. Spill(q) = [[q EXCEPT !.backing = a, !.firstunsort = g]
                          EXCEPT !.insert = w, !.hwqueue = @ \ {w}, !.scan = 0]
        BY <1>4, <3>2 DEF Spill
      <4>2. p.backing = a /\ p.firstunsort = g
        BY <3>2
      <4> HIDE DEF p, w, a, g
      <4>3. QED
        BY <1>1, <4>1, <4>2
    <3>3. QED
      BY <3>1, <3>2
  <2>2. GoodSorter(p, all) /\ p.scan = -1 /\ p.hwqueue = hw
    <3>1. CASE q.scan = -1
      BY <3>1
    <3>2. CASE q.scan # -1
      <4>1. Put(q, atEnd, p) /\ p.scan = -1 /\ p.hwqueue = hw
        BY <1>1, <3>2 DEF Put
      <4>2. atEnd \in BOOLEAN
        OBVIOUS
      <4> HIDE DEF p, atEnd
      <4>3. QED
        BY <3>2, <4>1, <4>2, PlacedInOrder
    <3>3. QED
      BY <3>1, <3>2
  <2>3. hw # {}
    BY <1>2, <1>4, FS_EmptySet
  <2>4. w \in hw
    BY <1>1, <1>2, <2>3, WorstExists
  <2> HIDE DEF p, w
  <2>5. /\ r.hwqueue = hw \ {w} /\ r.backing = p.backing /\ r.insert = w /\ r.scan = 0
        /\ r.firstunsort = p.firstunsort
    OBVIOUS
  <2>6. p.backing \in Seq(Cells) /\ p.firstunsort \in Int
    BY <2>2 DEF GoodSorter, Sorters
  <2>7. r \in Sorters
    BY <1>1, <2>4, <2>6 DEF Sorters
  <2> HIDE DEF r
  <2>8. Placed(r, all)
    <3>1. Placed(p, all)
      BY <2>2 DEF GoodSorter
    <3>2. \A i \in 1..Len(p.backing) : p.backing[i].entry \in all \ (hw \ {w})
                                       /\ p.backing[i].entry # w
      BY <2>2, <2>4, <3>1 DEF Placed
    <3>3. QED
      BY <1>2, <2>2, <2>4, <2>5, <3>1, <3>2 DEF Placed
  <2>9. Indexed(r) /\ Ordered(r)
    <3>1. Len(p.backing) \in Nat
      BY <2>6
    <3>2. QED
      BY <2>2, <2>5, <3>1 DEF GoodSorter, Indexed, Ordered
  <2>10. priorities > 0 => r.hwqueue # {}
    <3>1. Cardinality(hw \ {w}) = Cardinality(hw) - 1
      BY <1>2, <2>4, FS_RemoveElement
    <3>2. Cardinality({}) = 0
      BY FS_EmptySet
    <3>3. ASSUME priorities > 0 PROVE Cardinality(hw \ {w}) # 0
      BY <1>2, <1>4, <3>1, <3>3
    <3>4. QED
      BY <2>5, <3>2, <3>3
  <2>11. QED
    BY <2>1, <2>7, <2>8, <2>9, <2>10 DEF GoodSorter
<1>5. QED
  BY <1>3, <1>4

-----------------------------------------------------------------------------
\* PIFO_Naive::step only moves entries between the places.
LEMMA StepGood ==
  ASSUME SimInv, Step
  PROVE  /\ GoodSorter(Sorter', gqueue)
         /\ ~Pifo => UNCHANGED sorter
         /\ Pifo /\ priorities > 0 /\ hwqueue' = {} => gqueue = {}
<1>1. /\ gqueue \in SUBSET Messages /\ Distinct(gqueue) /\ IsFiniteSet(gqueue)
      /\ GoodSorter(Sorter, gqueue) /\ priorities \in Nat
  BY DEF SimInv, Pending
<1>2. CASE ~Pifo
  <2>1. UNCHANGED sorter
    BY <1>2 DEF Step
  <2>2. Sorter' = Sorter
    BY <2>1 DEF Sorter, sorter
  <2>3. QED
    BY <1>1, <1>2, <2>1, <2>2
<1>3. CASE Pifo
  <2> DEFINE a == Jump(Sorter)
             b == Compare(a)
             c == Refill(b)
             d == Spill(c)
  <2>1. /\ hwqueue' = d.hwqueue /\ backing' = d.backing /\ insert' = d.insert
        /\ scan' = d.scan /\ firstunsort' = d.firstunsort
    BY <1>3, Zenon DEF Step, Sorter
  <2>2. GoodSorter(a, gqueue)
    BY <1>1, JumpGood
  <2> HIDE DEF a
  <2>3. GoodSorter(b, gqueue) /\ (b.backing = <<>> => b.scan = -1)
    BY <1>1, <2>2, CompareGood
  <2> HIDE DEF b
  <2>4. /\ GoodSorter(c, gqueue)
        /\ c.hwqueue = {} => b.hwqueue = {} /\ b.backing = <<>> /\ c = b
    BY <1>1, <2>3, RefillGood
  <2> HIDE DEF c
  <2>5. GoodSorter(d, gqueue) /\ (priorities > 0 /\ d.hwqueue = {} => d = c)
    BY <1>1, <2>4, SpillGood
  <2> HIDE DEF d
  <2>6. Sorter' = d
    <3>1. Sorter' = [hwqueue |-> d.hwqueue, backing |-> d.backing, insert |-> d.insert,
                     scan |-> d.scan, firstunsort |-> d.firstunsort]
      BY <2>1 DEF Sorter
    <3>2. QED
      BY <2>5, <3>1 DEF GoodSorter, Sorters
  <2>7. ASSUME priorities > 0, hwqueue' = {} PROVE gqueue = {}
    <3>1. d = c /\ c.hwqueue = {} /\ b.backing = <<>> /\ c = b
      BY <2>1, <2>4, <2>5, <2>7
    <3>2. b.scan = -1 /\ b.hwqueue = {} /\ Len(b.backing) = 0
      BY <2>3, <2>4, <3>1
    <3>3. Placed(b, gqueue)
      BY <2>3 DEF GoodSorter
    <3>4. QED
      BY <3>2, <3>3 DEF Placed
  <2>8. QED
    BY <1>3, <2>5, <2>6, <2>7
<1>4. QED
  BY <1>2, <1>3

\* The head of the sorted queue leaves, or comes back with fewer bytes left.
LEMMA DequeueGood ==
  ASSUME SimInv, hwqueue # {}, Dequeue, UNCHANGED <<backing, insert, scan, firstunsort, id, qtype>>
  PROVE  Pending' /\ GoodSorter(Sorter', gqueue') /\ (qtype = "ideal" => pktinacc' = pktinacc)
<1> DEFINE h == Best(hwqueue)
           rest == [h EXCEPT !.remaining = @ - Frame]
           kept == IF rest.remaining > 0 THEN {rest} ELSE {}
<1>1. /\ id \in Nat /\ gqueue \in SUBSET Messages /\ Distinct(gqueue) /\ IsFiniteSet(gqueue)
      /\ \A e \in gqueue : e.id < id
      /\ (Pifo => active = Cardinality(gqueue)) /\ (~Pifo => backing = <<>> /\ scan = -1)
  BY DEF SimInv, Pending
<1>2. /\ Sorter \in Sorters /\ Placed(Sorter, gqueue) /\ Indexed(Sorter) /\ Ordered(Sorter)
  BY DEF SimInv, GoodSorter
<1>3. /\ Sorter.hwqueue = hwqueue /\ Sorter.backing = backing /\ Sorter.insert = insert
      /\ Sorter.scan = scan /\ Sorter.firstunsort = firstunsort
  BY DEF Sorter
<1>4. hwqueue \subseteq gqueue /\ hwqueue \in SUBSET Messages /\ Distinct(hwqueue)
  BY <1>1, <1>2, <1>3 DEF Placed, Distinct
<1>5. h \in hwqueue /\ h \in gqueue /\ h \in Messages
  <2>1. IsFiniteSet(hwqueue)
    BY <1>1, <1>4, FS_Subset
  <2>2. h \in hwqueue
    BY <1>4, <2>1, BestExists
  <2>3. QED
    BY <1>4, <2>2
<1>6. /\ hwqueue' = (hwqueue \ {h}) \cup kept /\ gqueue' = (gqueue \ {h}) \cup kept
      /\ active' = IF Pifo /\ kept = {} THEN active - 1 ELSE active
      /\ pktinacc' = (pktinacc \/ h.remaining > Best(gqueue).remaining)
  BY DEF Dequeue
<1> HIDE DEF h
<1>7. rest.id = h.id /\ kept \subseteq {rest} /\ (kept # {} => rest \in Messages) /\ rest # h
  <2>1. rest.id = h.id /\ rest.remaining = h.remaining - Frame /\ Frame \in Nat \ {0}
    BY <1>5, SimAssumption DEF Messages
  <2>2. h.remaining \in Nat /\ rest.remaining # h.remaining
    BY <1>5, <2>1 DEF Messages
  <2>3. kept # {} => rest \in Messages
    BY <1>5, <2>1, <2>2 DEF Messages
  <2>4. QED
    BY <2>1, <2>2, <2>3
<1> HIDE DEF rest, kept
<1>8. \A e \in gqueue : e # h => e.id # h.id
  BY <1>1, <1>5 DEF Distinct
<1>9. rest \notin gqueue
  BY <1>7, <1>8
<1>10. gqueue' \in SUBSET Messages /\ Distinct(gqueue') /\ \A e \in gqueue' : e.id < id
  BY <1>1, <1>5, <1>6, <1>7, <1>8 DEF Distinct
<1>11. IsFiniteSet(gqueue') /\ (Pifo => active' = Cardinality(gqueue'))
  <2>1. /\ IsFiniteSet(gqueue \ {h}) /\ Cardinality(gqueue \ {h}) = Cardinality(gqueue) - 1
        /\ Cardinality(gqueue) \in Nat
    BY <1>1, <1>5, FS_RemoveElement, FS_CardinalityType
  <2>2. CASE kept = {}
    <3>1. gqueue' = gqueue \ {h}
      BY <1>6, <2>2
    <3>2. QED
      BY <1>1, <1>6, <2>1, <2>2, <3>1
  <2>3. CASE kept = {rest}
    <3>1. gqueue' = (gqueue \ {h}) \cup {rest} /\ rest \notin gqueue \ {h}
      BY <1>6, <1>9, <2>3
    <3>2. /\ IsFiniteSet((gqueue \ {h}) \cup {rest})
          /\ Cardinality((gqueue \ {h}) \cup {rest}) = Cardinality(gqueue \ {h}) + 1
      BY <2>1, <3>1, FS_AddElement
    <3>3. kept # {}
      BY <2>3
    <3>4. IsFiniteSet(gqueue') /\ Cardinality(gqueue') = Cardinality(gqueue)
      BY <2>1, <3>1, <3>2
    <3>5. Pifo => active' = active
      BY <1>6, <3>3
    <3>6. QED
      BY <1>1, <3>4, <3>5
  <2>4. QED
    BY <1>7, <2>2, <2>3
<1>12. Pending'
  BY <1>1, <1>10, <1>11 DEF Pending, Pifo
<1>13. GoodSorter(Sorter', gqueue')
  <2>1. /\ Sorter'.hwqueue = hwqueue' /\ Sorter'.backing = backing /\ Sorter'.insert = insert
        /\ Sorter'.scan = scan /\ Sorter'.firstunsort = firstunsort
        /\ Sorter' = [hwqueue |-> hwqueue', backing |-> backing, insert |-> insert,
                      scan |-> scan, firstunsort |-> firstunsort]
    BY DEF Sorter
  <2>2. hwqueue' \in SUBSET Messages
    BY <1>4, <1>6, <1>7
  <2>3. Sorter' \in Sorters
    BY <1>2, <1>3, <2>1, <2>2 DEF Sorters
  <2>4. Indexed(Sorter') /\ Ordered(Sorter')
    BY <1>2, <1>3, <2>1 DEF Indexed, Ordered
  <2>5. Placed(Sorter', gqueue')
    <3>1. \A i \in 1..Len(backing) : backing[i].entry \in gqueue' \ hwqueue'
      BY <1>2, <1>3, <1>5, <1>6, <1>7, <1>9 DEF Placed
    <3>2. scan # -1 => insert \in gqueue' \ hwqueue'
      BY <1>2, <1>3, <1>5, <1>6, <1>7, <1>9 DEF Placed
    <3>3. hwqueue' \subseteq gqueue'
      BY <1>4, <1>6
    <3>4. ASSUME NEW e \in gqueue', e \notin hwqueue'
          PROVE  (scan # -1 /\ e = insert) \/ \E i \in 1..Len(backing) : backing[i].entry = e
      <4>1. e \in gqueue /\ e \notin hwqueue
        BY <1>6, <3>4
      <4>2. QED
        BY <1>2, <1>3, <4>1 DEF Placed
    <3>5. QED
      BY <1>2, <1>3, <2>1, <3>1, <3>2, <3>3, <3>4 DEF Placed
  <2>6. QED
    BY <2>3, <2>4, <2>5 DEF GoodSorter
<1>14. qtype = "ideal" => pktinacc' = pktinacc
  <2>1. ASSUME qtype = "ideal" PROVE pktinacc' = pktinacc
    <3>1. backing = <<>> /\ scan = -1
      BY <1>1, <2>1 DEF Pifo
    <3>2. hwqueue = gqueue
      <4>1. Len(backing) = 0 /\ 1..0 = {}
        BY <3>1
      <4>2. \A e \in gqueue : e \in hwqueue
        BY <1>2, <1>3, <3>1, <4>1 DEF Placed
      <4>3. QED
        BY <1>4, <4>2
    <3>3. Best(gqueue) = h
      BY <3>2 DEF h
    <3>4. ~(h.remaining > Best(gqueue).remaining)
      BY <1>5, <3>3 DEF Messages
    <3>5. pktinacc \in BOOLEAN
      BY DEF SimInv
    <3>6. QED
      BY <1>6, <3>4, <3>5
  <2>2. QED
    BY <2>1
<1>15. QED
  BY <1>12, <1>13, <1>14

\* A new entry is in the sorted queue first.
LEMMA ArrivalGood ==
  ASSUME SimInv, NEW length \in Lengths, Arrival(length)
  PROVE  Pending' /\ GoodSorter(Sorter', gqueue')
<1> DEFINE x == [id |-> id, remaining |-> length]
<1>1. /\ id \in Nat /\ gqueue \in SUBSET Messages /\ Distinct(gqueue) /\ IsFiniteSet(gqueue)
      /\ \A e \in gqueue : e.id < id
      /\ (Pifo => active = Cardinality(gqueue)) /\ (~Pifo => backing = <<>> /\ scan = -1)
  BY DEF SimInv, Pending
<1>2. /\ Sorter \in Sorters /\ Placed(Sorter, gqueue) /\ Indexed(Sorter) /\ Ordered(Sorter)
  BY DEF SimInv, GoodSorter
<1>3. /\ Sorter.hwqueue = hwqueue /\ Sorter.backing = backing /\ Sorter.insert = insert
      /\ Sorter.scan = scan /\ Sorter.firstunsort = firstunsort
  BY DEF Sorter
<1>4. /\ id' = id + 1 /\ gqueue' = gqueue \cup {x} /\ hwqueue' = hwqueue \cup {x}
      /\ active' = IF Pifo THEN active + 1 ELSE active
      /\ UNCHANGED <<qtype, backing, insert, scan, firstunsort>>
  BY DEF Arrival, options
<1>5. x \in Messages /\ x.id = id
  BY <1>1, SimAssumption DEF Messages
<1> HIDE DEF x
<1>6. x \notin gqueue /\ \A e \in gqueue : e.id # x.id
  BY <1>1, <1>5 DEF Messages
<1>7. gqueue' \in SUBSET Messages /\ Distinct(gqueue') /\ \A e \in gqueue' : e.id < id + 1
  <2>1. \A e \in gqueue : e.id \in Nat
    BY <1>1 DEF Messages
  <2>2. QED
    BY <1>1, <1>4, <1>5, <1>6, <2>1 DEF Distinct
<1>8. IsFiniteSet(gqueue') /\ Cardinality(gqueue') = Cardinality(gqueue) + 1
  BY <1>1, <1>4, <1>6, FS_AddElement
<1>9. Pending'
  BY <1>1, <1>4, <1>7, <1>8 DEF Pending, Pifo
<1>10. /\ Sorter'.hwqueue = hwqueue' /\ Sorter'.backing = backing /\ Sorter'.insert = insert
       /\ Sorter'.scan = scan /\ Sorter'.firstunsort = firstunsort
       /\ Sorter' = [hwqueue |-> hwqueue', backing |-> backing, insert |-> insert,
                     scan |-> scan, firstunsort |-> firstunsort]
  BY <1>4 DEF Sorter
<1>11. Sorter' \in Sorters
  BY <1>2, <1>3, <1>4, <1>5, <1>10 DEF Sorters
<1>12. Indexed(Sorter') /\ Ordered(Sorter')
  BY <1>2, <1>3, <1>10 DEF Indexed, Ordered
<1>13. Placed(Sorter', gqueue')
  <2>1. hwqueue' \subseteq gqueue'
    BY <1>2, <1>3, <1>4 DEF Placed
  <2>2. \A i \in 1..Len(backing) : backing[i].entry \in gqueue' \ hwqueue'
    BY <1>2, <1>3, <1>4, <1>6 DEF Placed
  <2>3. scan # -1 => insert \in gqueue' \ hwqueue'
    BY <1>2, <1>3, <1>4, <1>6 DEF Placed
  <2>4. ASSUME NEW e \in gqueue', e \notin hwqueue'
        PROVE  (scan # -1 /\ e = insert) \/ \E i \in 1..Len(backing) : backing[i].entry = e
    <3>1. e \in gqueue /\ e \notin hwqueue
      BY <1>4, <2>4
    <3>2. QED
      BY <1>2, <1>3, <3>1 DEF Placed
  <2>5. QED
    BY <1>2, <1>3, <1>10, <2>1, <2>2, <2>3, <2>4 DEF Placed
<1>14. QED
  BY <1>9, <1>11, <1>12, <1>13 DEF GoodSorter

\* Where nothing is pending or moved, the places stay as they are.
LEMMA NothingMoves ==
  ASSUME SimInv, UNCHANGED <<qtype, id, gqueue, sorter, active>>
  PROVE  Pending' /\ GoodSorter(Sorter', gqueue')
<1>1. Sorter' = Sorter
  BY DEF Sorter, sorter
<1>2. Pending'
  BY DEF SimInv, Pending, Distinct, Pifo, sorter
<1>3. GoodSorter(Sorter, gqueue)
  BY DEF SimInv
<1>4. QED
  BY <1>1, <1>2, <1>3

\* The invariant survives every step of the loop.
LEMMA SimStep ==
  ASSUME SimInv, [Next]_vars
  PROVE  SimInv'
<1>0. /\ priorities \in Nat /\ pktinacc \in BOOLEAN /\ underflow \in BOOLEAN
      /\ Pending /\ GoodSorter(Sorter, gqueue) /\ Supplied /\ LinkServed
  BY DEF SimInv
<1>c. ASSUME Pending', GoodSorter(Sorter', gqueue'), UNCHANGED options, UNCHANGED stats,
             phase' # "departure"
      PROVE  SimInv'
  <2>1. GoodSorter(Sorter, gqueue)'
    BY <1>c DEF GoodSorter, Placed, Indexed, Ordered
  <2>2. Supplied' /\ LinkServed'
    BY <1>0, <1>c DEF Supplied, LinkServed, options, stats
  <2>3. QED
    BY <1>0, <1>c, <2>1, <2>2 DEF SimInv, options, stats
<1>1. CASE Departure
  <2>1. UNCHANGED options /\ phase' = "control" /\ UNCHANGED <<id, qtype, backing, insert, scan, firstunsort>>
    BY <1>1 DEF Departure, options
  <2>2. CASE UNCHANGED <<gqueue, hwqueue, active, stats>>
    <3>1. Pending' /\ GoodSorter(Sorter', gqueue')
      BY <2>1, <2>2, NothingMoves DEF sorter
    <3>2. QED
      BY <1>c, <2>1, <2>2, <3>1
  <2>3. CASE ~Empty /\ hwqueue = {} /\ underflow' = TRUE /\ UNCHANGED <<gqueue, hwqueue, active, pktinacc>>
    <3>1. Pending' /\ GoodSorter(Sorter', gqueue')
      BY <2>1, <2>3, NothingMoves DEF sorter
    <3>2. ~(qtype = "ideal" \/ priorities > 0)
      <4>1. ASSUME qtype = "ideal" \/ priorities > 0 PROVE FALSE
        <5>1. gqueue = {}
          BY <1>0, <1>1, <2>3, <4>1 DEF Departure, Supplied
        <5>2. Cardinality({}) = 0
          BY FS_EmptySet
        <5>3. QED
          BY <1>0, <2>3, <5>1, <5>2 DEF Empty, Pending
      <4>2. QED
        BY <4>1
    <3>3. GoodSorter(Sorter, gqueue)'
      BY <3>1 DEF GoodSorter, Placed, Indexed, Ordered
    <3>4. Supplied' /\ LinkServed'
      BY <1>0, <2>1, <2>3, <3>2 DEF Supplied, LinkServed, options
    <3>5. QED
      BY <1>0, <2>1, <2>3, <3>1, <3>3, <3>4 DEF SimInv, options
  <2>4. CASE hwqueue # {} /\ Dequeue /\ UNCHANGED underflow
    <3>1. Pending' /\ GoodSorter(Sorter', gqueue') /\ (qtype = "ideal" => pktinacc' = pktinacc)
      BY <2>1, <2>4, DequeueGood
    <3>2. pktinacc' \in BOOLEAN
      BY <2>4 DEF Dequeue
    <3>3. GoodSorter(Sorter, gqueue)'
      BY <3>1 DEF GoodSorter, Placed, Indexed, Ordered
    <3>4. Supplied' /\ LinkServed'
      BY <1>0, <2>1, <2>4, <3>1 DEF Supplied, LinkServed, options
    <3>5. QED
      BY <1>0, <2>1, <2>4, <3>1, <3>2, <3>3, <3>4 DEF SimInv, options
  <2>5. QED
    BY <1>1, <2>2, <2>3, <2>4 DEF Departure
<1>2. CASE Control \/ NoArrival \/ Finish
  <2>1. /\ UNCHANGED <<options, id, gqueue, sorter, active, stats>>
        /\ phase' # "departure"
    BY <1>2 DEF Control, NoArrival, Finish
  <2>2. Pending' /\ GoodSorter(Sorter', gqueue')
    BY <2>1, NothingMoves DEF options
  <2>3. QED
    BY <1>c, <2>1, <2>2
<1>3. ASSUME NEW length \in Lengths, Arrival(length) PROVE SimInv'
  <2>1. Pending' /\ GoodSorter(Sorter', gqueue')
    BY <1>3, ArrivalGood
  <2>2. UNCHANGED <<options, stats>> /\ phase' # "departure"
    BY <1>3 DEF Arrival
  <2>3. QED
    BY <1>c, <2>1, <2>2
<1>4. CASE Step
  <2>1. /\ GoodSorter(Sorter', gqueue) /\ (~Pifo => UNCHANGED sorter)
        /\ Pifo /\ priorities > 0 /\ hwqueue' = {} => gqueue = {}
    BY <1>4, StepGood
  <2>2. UNCHANGED <<options, id, gqueue, active, stats>> /\ phase = "step" /\ phase' = "departure"
    BY <1>4 DEF Step
  <2>3. Pending'
    BY <1>0, <2>1, <2>2 DEF Pending, Distinct, Pifo, options, sorter
  <2>4. GoodSorter(Sorter', gqueue')
    BY <2>1, <2>2
  <2>5. GoodSorter(Sorter, gqueue)'
    BY <2>4 DEF GoodSorter, Placed, Indexed, Ordered
  <2>6. Supplied'
    <3>1. ASSUME qtype = "ideal", hwqueue' = {} PROVE gqueue = {}
      <4>1. scan' = -1 /\ backing' = <<>> /\ Len(backing') = 0 /\ 1..0 = {}
        BY <2>2, <2>3, <3>1 DEF Pending, Pifo, options
      <4>2. /\ Sorter'.hwqueue = hwqueue' /\ Sorter'.backing = backing' /\ Sorter'.scan = scan'
        BY DEF Sorter
      <4>3. Placed(Sorter', gqueue)
        BY <2>1 DEF GoodSorter
      <4>4. QED
        BY <3>1, <4>1, <4>2, <4>3 DEF Placed
    <3>2. QED
      BY <2>1, <2>2, <3>1 DEF Supplied, Pifo, options
  <2>7. LinkServed'
    BY <1>0, <2>2 DEF LinkServed, options, stats
  <2>8. QED
    BY <1>0, <2>2, <2>3, <2>5, <2>6, <2>7 DEF SimInv, options, stats
<1>5. CASE UNCHANGED vars
  <2>1. Pending' /\ GoodSorter(Sorter', gqueue')
    BY <1>5, NothingMoves DEF vars, options
  <2>2. GoodSorter(Sorter, gqueue)'
    BY <2>1 DEF GoodSorter, Placed, Indexed, Ordered
  <2>3. Supplied' /\ LinkServed'
    BY <1>0, <1>5 DEF vars, options, stats, sorter, Supplied, LinkServed
  <2>4. QED
    BY <1>0, <1>5, <2>1, <2>2, <2>3 DEF SimInv, vars, options, stats
<1>6. QED
  BY <1>1, <1>2, <1>3, <1>4, <1>5 DEF Next, Finished

\* The simulation starts with nothing pending.
LEMMA SimInitial ==
  ASSUME Init
  PROVE  SimInv
<1>1. priorities \in Nat
  BY SimAssumption DEF Init
<1>2. IsFiniteSet({}) /\ Cardinality({}) = 0
  BY FS_EmptySet
<1>3. Pending
  BY <1>2 DEF Init, Pending, Distinct
<1>4. /\ Sorter.hwqueue = {} /\ Sorter.backing = <<>> /\ Sorter.scan = -1
      /\ Sorter.firstunsort = -1 /\ Sorter.insert = NoEntry /\ Len(<<>>) = 0
  BY DEF Init, Sorter
<1>5. Sorter \in Sorters
  BY DEF Init, Sorter, Sorters
<1>6. Placed(Sorter, gqueue)
  BY <1>4 DEF Init, Placed
<1>7. Indexed(Sorter) /\ Ordered(Sorter)
  BY <1>4 DEF Indexed, Ordered
<1>8. QED
  BY <1>1, <1>3, <1>5, <1>6, <1>7 DEF Init, SimInv, GoodSorter, Supplied, LinkServed

\* The inductive invariant of the simulator.
THEOREM SimInvariant == Spec => []SimInv
<1>1. Init => SimInv
  BY SimInitial
<1>2. SimInv /\ [Next]_vars => SimInv'
  BY SimStep
<1>3. Spec => Init /\ [][Next]_vars
  BY DEF Spec
<1>4. QED
  BY <1>1, <1>2, <1>3, PTL

\* Disjoint finite sets.
LEMMA DisjointUnion ==
  ASSUME NEW S, NEW T, IsFiniteSet(S), IsFiniteSet(T), S \cap T = {}
  PROVE  IsFiniteSet(S \cup T) /\ Cardinality(S \cup T) = Cardinality(S) + Cardinality(T)
<1>1. Cardinality(S \cap T) = 0
  BY FS_EmptySet
<1>2. Cardinality(S) \in Nat /\ Cardinality(T) \in Nat
  BY FS_CardinalityType
<1>3. /\ IsFiniteSet(S \cup T)
      /\ Cardinality(S \cup T) = Cardinality(S) + Cardinality(T) - Cardinality(S \cap T)
  BY FS_Union
<1>4. QED
  BY <1>1, <1>2, <1>3

\* Departure's assert(val == 1), for any size of the two queues: an entry is in
\* the sorted queue, in backing or being inserted, exactly once, and PIFO_Naive
\* counts them right.
THEOREM EntriesConserved == Spec => []Conserved
<1>1. SimInv => Conserved
  <2> SUFFICES ASSUME SimInv PROVE Conserved
    OBVIOUS
  <2> DEFINE n == Len(backing)
             E == {backing[i].entry : i \in 1..n}
             map == [i \in 1..n |-> backing[i].entry]
  <2>1. /\ IsFiniteSet(gqueue) /\ (Pifo => active = Cardinality(gqueue))
        /\ backing \in Seq(Cells) /\ Placed(Sorter, gqueue)
    BY DEF SimInv, Pending, GoodSorter, Sorters, Sorter
  <2>2. /\ hwqueue \subseteq gqueue
        /\ \A i \in 1..n : backing[i].entry \in gqueue \ hwqueue
        /\ scan # -1 => insert \in gqueue \ hwqueue
        /\ \A i, j \in 1..n : backing[i].entry = backing[j].entry => i = j
        /\ scan # -1 => \A i \in 1..n : backing[i].entry # insert
        /\ \A e \in gqueue : \/ e \in hwqueue
                             \/ scan # -1 /\ e = insert
                             \/ \E i \in 1..n : backing[i].entry = e
    BY <2>1 DEF Placed, Sorter
  <2>3. DOMAIN backing = 1..n /\ n \in Nat
    BY <2>1
  <2>4. gqueue = (hwqueue \cup E) \cup Held
    BY <2>2 DEF Held
  <2>5. hwqueue \cap E = {} /\ (hwqueue \cup E) \cap Held = {}
    BY <2>2 DEF Held
  <2>6. IsFiniteSet(E) /\ Cardinality(E) = n
    <3>1. \A m \in Nat : IsFiniteSet(1..m) /\ Cardinality(1..m) = m
      <4> SUFFICES ASSUME NEW m \in Nat PROVE IsFiniteSet(1..m) /\ Cardinality(1..m) = m
        OBVIOUS
      <4>1. 1 \in Int /\ m \in Int
        OBVIOUS
      <4>2. IsFiniteSet(1..m) /\ Cardinality(1..m) = IF 1 > m THEN 0 ELSE m - 1 + 1
        BY <4>1, FS_Interval, Zenon
      <4>3. QED
        BY <4>2
    <3>2. /\ map \in [1..n -> E]
          /\ \A e \in E : \E i \in 1..n : map[i] = e
          /\ \A i, j \in 1..n : map[i] = map[j] => i = j
      BY <2>2
    <3>3. map \in Surjection(1..n, E) /\ map \in Injection(1..n, E)
      <4> HIDE DEF map, E, n
      <4>1. DOMAIN map = 1..n
        BY <3>2
      <4>2. QED
        BY <3>2, <4>1 DEF Surjection, Injection, IsInjective
    <3>4. IsFiniteSet(1..n) /\ Cardinality(1..n) = n
      BY <2>3, <3>1
    <3> HIDE DEF map, E, n
    <3>5. QED
      BY <3>3, <3>4, FS_Surjection
  <2>7. IsFiniteSet(hwqueue)
    BY <2>1, <2>2, FS_Subset
  <2>8. IsFiniteSet(Held)
    BY FS_EmptySet, FS_Singleton DEF Held
  <2> HIDE DEF E
  <2>9. /\ IsFiniteSet(hwqueue \cup E)
        /\ Cardinality(hwqueue \cup E) = Cardinality(hwqueue) + n
    BY <2>5, <2>6, <2>7, DisjointUnion
  <2>10. Cardinality((hwqueue \cup E) \cup Held) = Cardinality(hwqueue \cup E) + Cardinality(Held)
    BY <2>5, <2>8, <2>9, DisjointUnion
  <2>11. Cardinality(gqueue) = Cardinality(hwqueue) + n + Cardinality(Held)
    BY <2>4, <2>9, <2>10
  <2>12. gqueue = hwqueue \cup {backing[i].entry : i \in DOMAIN backing} \cup Held
    BY <2>3, <2>4 DEF E
  <2>13. QED
    BY <2>1, <2>11, <2>12 DEF Conserved
<1>2. QED
  BY <1>1, SimInvariant, PTL

\* assert(missort.second == false) of PIFO_Naive::step, and that what is flagged as
\* sorted is in order, through any sequence of spills, refills and insertions that
\* are given up or carried on.
THEOREM FlagsStayRight == Spec => []FlagsRight
<1>1. SimInv => FlagsRight
  <2> SUFFICES ASSUME SimInv PROVE FlagsRight
    OBVIOUS
  <2>1. backing \in Seq(Cells) /\ Indexed(Sorter) /\ Ordered(Sorter)
    BY DEF SimInv, GoodSorter, Sorters, Sorter
  <2>2. DOMAIN backing = 1..Len(backing) /\ Len(backing) \in Nat
    BY <2>1
  <2>3. /\ Sorter.backing = backing /\ Sorter.scan = scan /\ Sorter.firstunsort = firstunsort
    BY DEF Sorter
  <2>4. /\ scan \in -1..Len(backing)
        /\ firstunsort # -1 =>
             firstunsort \in 0..(Len(backing) - 1) /\ ~backing[firstunsort + 1].sorted
    BY <2>1, <2>2, <2>3 DEF Indexed
  <2>5. \A i, j \in 1..Len(backing) :
          i < j /\ backing[i].sorted /\ backing[j].sorted =>
            Before(backing[i].entry, backing[j].entry)
    BY <2>1, <2>3 DEF Ordered
  <2>6. QED
    BY <2>2, <2>4, <2>5 DEF FlagsRight
<1>2. QED
  BY <1>1, SimInvariant, PTL

\* With at least one priority no cycle of the link is wasted while a message is
\* pending, and Ideal never sends a packet while a shorter message waits.
THEOREM LinkAlwaysServed == Spec => []LinkServed
<1>1. SimInv => LinkServed
  BY DEF SimInv
<1>2. QED
  BY <1>1, SimInvariant, PTL
=============================================================================
