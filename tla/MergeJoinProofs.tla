--------------------------- MODULE MergeJoinProofs --------------------------
(***************************************************************************)
(* The sort-merge join sorts the rows by key and, merging them, returns    *)
(* each row of the join of its keys exactly once, if the values have an    *)
(* order and the rows without a key stand where the sort and the merge can *)
(* do with them.  With the hash join of KeyedJoinsProofs, both joins on a  *)
(* key implement JoinCursor: for the join of their keys, and, where the    *)
(* keys are the ones that are meant, for the join the condition asks for.  *)
(***************************************************************************)
EXTENDS KeyedJoinsProofs

-----------------------------------------------------------------------------
(* Natural numbers                                                           *)

LEMMA Least ==
  ASSUME NEW S \in SUBSET Nat, S # {}
  PROVE  \E n \in S : \A m \in S : n <= m
<1> DEFINE R == OpToRel(<, Nat)
<1>1. IsWellFoundedOn(R, Nat)
  BY NatLessThanWellFounded
<1>2. \A x, y \in Nat : y < x => <<y, x>> \in R
  BY DEF OpToRel
<1> HIDE DEF R
<1>3. PICK x \in S : \A y \in S : ~ (<<y, x>> \in R)
  BY <1>1, WFMin
<1>4. \A y \in S : ~ (y < x)
  BY <1>2, <1>3
<1>5. x \in Nat /\ S \subseteq Nat
  OBVIOUS
<1> QED
  BY <1>4, <1>5

\* Induction, over a set.
LEMMA AllNaturals ==
  ASSUME NEW S \in SUBSET Nat, 0 \in S, \A n \in S : n + 1 \in S
  PROVE  S = Nat
<1> SUFFICES ASSUME Nat \ S # {} PROVE FALSE
  OBVIOUS
<1>1. PICK n \in Nat \ S : \A m \in Nat \ S : n <= m
  BY Least
<1>2. n # 0 /\ n - 1 \in Nat
  BY <1>1
<1>3. n - 1 \in S
  BY <1>1, <1>2
<1> QED
  BY <1>1, <1>3

LEMMA Greatest ==
  ASSUME NEW b \in Nat, NEW S \in SUBSET (0 .. b), S # {}
  PROVE  M!Max(S) \in S /\ \A n \in S : n <= M!Max(S)
<1> DEFINE Bounds == {n \in Nat : \A m \in S : m <= n}
<1>1. b \in Bounds
  OBVIOUS
<1>2. PICK top \in Bounds : \A n \in Bounds : top <= n
  BY <1>1, Least
<1>3. top \in S
  <2> SUFFICES ASSUME top \notin S PROVE FALSE
    OBVIOUS
  <2>1. top \in Nat /\ S \subseteq Nat /\ \A m \in S : m <= top /\ m # top
    BY <1>2
  <2>2. PICK m \in S : TRUE
    OBVIOUS
  <2>3. top # 0 /\ \A k \in S : k <= top - 1
    BY <2>1, <2>2
  <2>4. top - 1 \in Bounds
    BY <2>1, <2>3
  <2> QED
    BY <1>2, <2>1, <2>4
<1>4. \A n \in S : top >= n
  BY <1>2
<1> HIDE DEF Bounds
<1>5. M!Max(S) \in S /\ \A n \in S : M!Max(S) >= n
  BY <1>3, <1>4 DEF M!Max
<1> QED
  BY <1>5

-----------------------------------------------------------------------------
(* The order of the keys                                                     *)

LEMMA KeyOrder ==
  ASSUME ValuesOrdered
  PROVE  /\ Null \notin Keys
         /\ \A v \in Keys \union {Null} : ~M!Less(Null, v) /\ ~M!Less(v, Null)
         /\ \A v, w \in Keys :
              /\ Equal(v, w) <=> ~M!Less(v, w) /\ ~M!Less(w, v)
              /\ M!Less(v, w) => ~M!Less(w, v) /\ \A u \in Keys : M!Less(v, u) \/ M!Less(u, w)
<1>1. /\ Holds["<"] \subseteq Value \X Value /\ Holds["="] \subseteq Value \X Value
      /\ Null \notin {"true", "false", "cross"} /\ Null \notin Value
      /\ "true" \notin Value /\ "false" \notin Value /\ "cross" \notin Value
  BY HoldsAssumption, TextsApart
<1>2. CASE join.condition = NoCondition
  <2>1. Keys = {"cross"}
    BY <1>2 DEF Keys
  <2>2. \A v, w \in {"cross", Null} : ~M!Less(v, w)
    BY <1>1 DEF M!Less
  <2> QED
    BY <1>1, <2>1, <2>2 DEF Equal
<1>3. CASE join.condition # NoCondition /\ join.condition.op = "="
  <2>1. Keys = Value
    BY <1>3 DEF Keys
  <2>2. \A v, w \in Value \union {Null} : M!Less(v, w) <=> <<v, w>> \in Holds["<"]
    BY <1>1 DEF M!Less
  <2>3. \A v, w \in Value : Equal(v, w) <=> <<v, w>> \in Holds["="]
    BY <2>1 DEF Equal, ValuesOrdered
  <2>4. \A v, w \in Value :
          /\ Equal(v, w) <=> ~M!Less(v, w) /\ ~M!Less(w, v)
          /\ M!Less(v, w) => ~M!Less(w, v) /\ \A u \in Value : M!Less(v, u) \/ M!Less(u, w)
    BY <2>2, <2>3 DEF ValuesOrdered
  <2>5. \A v \in Value \union {Null} : ~M!Less(Null, v) /\ ~M!Less(v, Null)
    <3>1. \A x : <<Null, x>> \notin Holds["<"] /\ <<x, Null>> \notin Holds["<"]
      BY <1>1
    <3> QED
      BY <2>2, <3>1
  <2> QED
    BY <1>1, <2>1, <2>4, <2>5
<1>4. CASE join.condition # NoCondition /\ join.condition.op # "="
  <2>1. Keys = {"true", "false"}
    BY <1>4 DEF Keys
  <2>2. \A v, w \in {"true", "false", Null} : M!Less(v, w) <=> v = "false" /\ w = "true"
    BY <1>1 DEF M!Less
  <2>3. \A v, w \in {"true", "false"} : Equal(v, w) <=> v = w
    BY <1>1, <2>1 DEF Equal
  <2> QED
    BY <1>1, <2>1, <2>2, <2>3
<1> QED
  BY <1>2, <1>3, <1>4

\* What follows from the order, as it is used: no row between two is out of order.
LEMMA NotLessTransitive ==
  ASSUME ValuesOrdered, NEW u \in Keys, NEW v \in Keys, NEW w \in Keys,
         ~M!Less(v, u), ~M!Less(w, v)
  PROVE  ~M!Less(w, u)
BY KeyOrder

-----------------------------------------------------------------------------
(* sort.SliceStable                                                          *)

\* s has the positions 1 .. n in the order of their keys, the rows without a key
\* where they were.
Sorts(n, s, key) ==
  /\ s \in Seq(1 .. n) /\ Len(s) = n
  /\ Distinct(s) /\ Elements(s) = 1 .. n
  /\ \A a \in 1 .. n : key[s[a]] = Null <=> key[a] = Null
  /\ \A a, b \in 1 .. n : a < b => ~M!Less(key[s[b]], key[s[a]])

\* t is s with x inserted after place r, where the insertion stops.
InsertedAt(n, x, s, key, r, t) ==
  /\ r \in 0 .. n
  /\ r # 0 => ~M!Less(key[x], key[s[r]])
  /\ \A a \in 1 .. n : a > r => M!Less(key[x], key[s[a]])
  /\ t \in Seq(1 .. x) /\ Len(t) = x
  /\ \A a \in 1 .. x : t[a] = IF a <= r THEN s[a] ELSE IF a = r + 1 THEN x ELSE s[a - 1]

LEMMA InsertPlaces ==
  ASSUME NEW n \in Nat, NEW s \in Seq(1 .. n), Len(s) = n, NEW key, NEW x \in Nat,
         x = n + 1
  PROVE  InsertedAt(n, x, s, key, M!RestsAfter(x, s, key), M!Insert(x, s, key))
<1> DEFINE r == M!RestsAfter(x, s, key)
           t == M!Insert(x, s, key)
           Stops == {0} \union {a \in DOMAIN s : ~M!Less(key[x], key[s[a]])}
<1>1. DOMAIN s = 1 .. n /\ \A a \in 1 .. n : s[a] \in 1 .. x
  BY ElementOfSeq, LenProperties
<1>2. Stops \in SUBSET (0 .. n) /\ Stops # {}
  BY <1>1
<1>3. r = M!Max(Stops)
  BY DEF M!RestsAfter
<1> HIDE DEF Stops
<1>4. r \in Stops /\ \A a \in Stops : a <= r
  BY <1>2, <1>3, Greatest
<1> HIDE DEF r
<1>5. r \in 0 .. n
  BY <1>2, <1>4
<1>6. r # 0 => ~M!Less(key[x], key[s[r]])
  BY <1>4 DEF Stops
<1>7. \A a \in 1 .. n : a > r => M!Less(key[x], key[s[a]])
  BY <1>1, <1>4, <1>5 DEF Stops
<1> DEFINE front == SubSeq(s, 1, r)
           back == SubSeq(s, r + 1, n)
<1> DEFINE upTo == front \o <<x>>
<1>8. t = upTo \o back
  BY DEF M!Insert, r
<1>9. /\ front \in Seq(1 .. x) /\ Len(front) = r
      /\ \A a \in 1 .. r : front[a] = s[a]
  <2>1. \A a \in 1 .. r : s[a] \in 1 .. x
    BY <1>1, <1>5
  <2> QED
    BY <1>5, <2>1, SubSeqProperties
<1>10. /\ back \in Seq(1 .. x) /\ Len(back) = n - r
       /\ \A a \in 1 .. n - r : back[a] = s[r + a]
  <2>1. \A a \in r + 1 .. n : s[a] \in 1 .. x
    BY <1>1, <1>5
  <2>2. /\ back \in Seq(1 .. x) /\ Len(back) = IF r + 1 <= n THEN n - (r + 1) + 1 ELSE 0
        /\ \A a \in 1 .. n - (r + 1) + 1 : back[a] = s[r + 1 + a - 1]
    BY <1>5, <2>1, SubSeqProperties
  <2> QED
    BY <1>5, <2>2
<1>11. <<x>> \in Seq(1 .. x) /\ Len(<<x>>) = 1 /\ <<x>>[1] = x
  OBVIOUS
<1> HIDE DEF front, back, t
<1>12. /\ upTo \in Seq(1 .. x) /\ Len(upTo) = r + 1
       /\ \A a \in 1 .. r : upTo[a] = s[a]
       /\ upTo[r + 1] = x
  BY <1>5, <1>9, <1>11, ConcatProperties
<1> HIDE DEF upTo
<1>13. /\ t \in Seq(1 .. x) /\ Len(t) = (r + 1) + (n - r)
       /\ \A a \in 1 .. (r + 1) + (n - r) :
            t[a] = IF a <= r + 1 THEN upTo[a] ELSE back[a - (r + 1)]
  <2>1. /\ t \in Seq(1 .. x) /\ Len(t) = Len(upTo) + Len(back)
        /\ \A a \in 1 .. Len(upTo) + Len(back) :
             t[a] = IF a <= Len(upTo) THEN upTo[a] ELSE back[a - Len(upTo)]
    BY <1>8, <1>10, <1>12, ConcatProperties
  <2> QED
    BY <1>10, <1>12, <2>1
<1>14. Len(t) = x
  BY <1>5, <1>13
<1>15. ASSUME NEW a \in 1 .. x
       PROVE  t[a] = IF a <= r THEN s[a] ELSE IF a = r + 1 THEN x ELSE s[a - 1]
  <2>1. t[a] = IF a <= r + 1 THEN upTo[a] ELSE back[a - (r + 1)]
    BY <1>5, <1>13
  <2>2. CASE a <= r + 1
    BY <1>5, <1>12, <2>1, <2>2
  <2>3. CASE a > r + 1
    <3>1. a - (r + 1) \in 1 .. n - r /\ r + (a - (r + 1)) = a - 1
      BY <1>5, <2>3
    <3>2. back[a - (r + 1)] = s[a - 1]
      BY <1>10, <3>1
    <3> QED
      BY <1>5, <2>1, <2>3, <3>2
  <2> QED
    BY <1>5, <2>2, <2>3
<1> QED
  BY <1>5, <1>6, <1>7, <1>13, <1>14, <1>15 DEF InsertedAt, r, t

Together(key) ==
  \A i, k, m \in 1 .. Len(key) :
    i < k /\ k < m /\ key[k] = Null => key[i] = Null \/ key[m] = Null

LEMMA InsertSorts ==
  ASSUME ValuesOrdered, NEW key \in Seq(Keys \union {Null}), Together(key),
         NEW n \in Nat, NEW x \in 1 .. Len(key), x = n + 1,
         NEW s, Sorts(n, s, key)
  PROVE  Sorts(x, M!Insert(x, s, key), key)
<1> DEFINE r == M!RestsAfter(x, s, key)
           t == M!Insert(x, s, key)
           K == Keys \union {Null}
<1>1. /\ s \in Seq(1 .. n) /\ Len(s) = n /\ x \in Nat /\ DOMAIN s = 1 .. n
      /\ \A a \in 1 .. n : s[a] \in 1 .. n
  BY ElementOfSeq, LenProperties DEF Sorts
<1>1a. InsertedAt(n, x, s, key, r, t)
  BY <1>1, InsertPlaces
<1> HIDE DEF r, t
<1>2. /\ r \in 0 .. n
      /\ r # 0 => ~M!Less(key[x], key[s[r]])
      /\ \A a \in 1 .. n : a > r => M!Less(key[x], key[s[a]])
      /\ t \in Seq(1 .. x) /\ Len(t) = x
      /\ \A a \in 1 .. x : t[a] = IF a <= r THEN s[a] ELSE IF a = r + 1 THEN x ELSE s[a - 1]
  BY <1>1a DEF InsertedAt
<1>3. DOMAIN t = 1 .. x
  BY <1>2, LenProperties
<1>4. key[x] \in K /\ \A a \in 1 .. x : key[a] \in K
  <2>1. \A a \in 1 .. x : a \in 1 .. Len(key)
    BY LenProperties
  <2> QED
    BY <2>1, ElementOfSeq
<1> DEFINE old(a) == IF a <= r THEN a ELSE a - 1
<1>5. r + 1 \in 1 .. x /\ t[r + 1] = x
  BY <1>1, <1>2
<1>6. \A a \in 1 .. x : a # r + 1 => old(a) \in 1 .. n /\ t[a] = s[old(a)]
  <2> SUFFICES ASSUME NEW a \in 1 .. x, a # r + 1 PROVE old(a) \in 1 .. n /\ t[a] = s[old(a)]
    OBVIOUS
  <2>1. r \in Nat /\ r <= n
    BY <1>2
  <2>2. t[a] = IF a <= r THEN s[a] ELSE IF a = r + 1 THEN x ELSE s[a - 1]
    BY <1>2
  <2>3. CASE a <= r
    BY <2>1, <2>2, <2>3
  <2>4. CASE a > r
    BY <2>1, <2>2, <2>4
  <2> QED
    BY <2>1, <2>3, <2>4
<1>7. \A a, b \in 1 .. n : s[a] = s[b] => a = b
  BY <1>1 DEF Sorts, Distinct
<1>8. Distinct(t)
  <2> SUFFICES ASSUME NEW a \in 1 .. x, NEW b \in 1 .. x, t[a] = t[b] PROVE a = b
    BY <1>3 DEF Distinct
  <2>1. \A c \in 1 .. n : s[c] # x
    BY <1>1
  <2>2. CASE a = r + 1 \/ b = r + 1
    BY <1>5, <1>6, <2>1, <2>2
  <2>3. CASE a # r + 1 /\ b # r + 1
    <3>1. old(a) = old(b)
      BY <1>6, <1>7, <2>3
    <3>2. r \in Int
      BY <1>2
    <3> QED
      BY <2>3, <3>1, <3>2
  <2> QED
    BY <2>2, <2>3
<1>9. Elements(t) = 1 .. x
  <2>1. \A a \in 1 .. x : t[a] \in 1 .. x
    BY <1>2, ElementOfSeq
  <2>2. ASSUME NEW y \in 1 .. x PROVE \E a \in 1 .. x : t[a] = y
    <3>1. CASE y = x
      BY <1>5, <3>1
    <3>2. CASE y # x
      <4>1. y \in Elements(s)
        BY <1>1, <3>2 DEF Sorts
      <4>2. PICK c \in 1 .. n : s[c] = y
        BY <1>1, <4>1 DEF Elements
      <4> DEFINE a == IF c <= r THEN c ELSE c + 1
      <4>3. a \in 1 .. x /\ a # r + 1 /\ old(a) = c
        <5>1. r \in Nat /\ r <= n
          BY <1>2
        <5> QED
          BY <5>1
      <4> HIDE DEF a
      <4> QED
        BY <1>6, <4>2, <4>3
    <3> QED
      BY <3>1, <3>2
  <2> QED
    BY <1>3, <2>1, <2>2 DEF Elements
<1>10. \A a \in 1 .. n : key[s[a]] = Null <=> key[a] = Null
  BY DEF Sorts
<1>11. \A a \in 1 .. n : key[a] \in K /\ key[s[a]] \in K
  BY <1>1, <1>4
<1>12. ASSUME NEW a \in 1 .. x PROVE key[t[a]] = Null <=> key[a] = Null
  <2>1. CASE a <= r
    <3>1. a \in 1 .. n /\ a # r + 1 /\ old(a) = a
      BY <1>2, <2>1
    <3> QED
      BY <1>6, <1>10, <3>1
  <2>2. CASE a > r
    <3>1. \A b \in 1 .. n : b > r => key[s[b]] # Null /\ key[b] # Null /\ key[x] # Null
      <4> SUFFICES ASSUME NEW b \in 1 .. n, b > r
                   PROVE  key[s[b]] # Null /\ key[b] # Null /\ key[x] # Null
        OBVIOUS
      <4>1. M!Less(key[x], key[s[b]])
        BY <1>2
      <4>2. key[x] # Null /\ key[s[b]] # Null
        BY <1>4, <1>11, <4>1, KeyOrder
      <4> QED
        BY <1>10, <4>2
    <3>2. CASE r = n
      <4>1. a = x /\ a = r + 1
        BY <2>2, <3>2
      <4> QED
        BY <1>5, <4>1
    <3>3. CASE r # n
      <4>1. n \in 1 .. n /\ n > r
        BY <1>2, <3>3
      <4>2. key[x] # Null
        BY <3>1, <4>1
      <4>3. a = x \/ (a \in 1 .. n /\ a > r)
        BY <2>2
      <4>4. key[a] # Null
        BY <3>1, <4>2, <4>3
      <4>5. CASE a = r + 1
        BY <1>5, <4>2, <4>4, <4>5
      <4>6. CASE a # r + 1
        <5>1. old(a) \in 1 .. n /\ old(a) > r /\ t[a] = s[old(a)]
          <6>1. r \in Nat
            BY <1>2
          <6>2. old(a) > r
            BY <2>2, <4>6, <6>1
          <6> QED
            BY <1>6, <4>6, <6>2
        <5> QED
          BY <3>1, <4>4, <5>1
      <4> QED
        BY <4>5, <4>6
    <3> QED
      BY <3>2, <3>3
  <2>3. r \in Nat
    BY <1>2
  <2> QED
    BY <2>1, <2>2, <2>3
<1>13. ASSUME NEW a \in 1 .. x, NEW b \in 1 .. x, a < b
       PROVE  ~M!Less(key[t[b]], key[t[a]])
  <2>1. \A c, d \in 1 .. n : c < d => ~M!Less(key[s[d]], key[s[c]])
    BY DEF Sorts
  <2>2. r \in Nat /\ r <= n
    BY <1>2
  <2>3. CASE a # r + 1 /\ b # r + 1
    <3>1. old(a) < old(b)
      BY <1>13, <2>2, <2>3
    <3> QED
      BY <1>6, <2>1, <2>3, <3>1
  <2>4. CASE a = r + 1
    <3>1. b # r + 1 /\ old(b) > r
      BY <1>13, <2>2, <2>4
    <3>2. old(b) \in 1 .. n /\ t[b] = s[old(b)] /\ t[a] = x
      BY <1>5, <1>6, <2>4, <3>1
    <3>3. M!Less(key[x], key[s[old(b)]])
      BY <1>2, <3>1, <3>2
    <3>4. key[x] \in K /\ key[s[old(b)]] \in K
      BY <1>4, <1>11, <3>2
    <3>5. key[x] \in Keys /\ key[s[old(b)]] \in Keys
      BY <3>3, <3>4, KeyOrder
    <3> QED
      BY <3>2, <3>3, <3>5, KeyOrder
  <2>5. CASE b = r + 1
    <3>1. a \in 1 .. n /\ a <= r /\ a # r + 1 /\ old(a) = a /\ r \in 1 .. n /\ r # 0
      BY <1>13, <2>2, <2>5
    <3>2. t[a] = s[a] /\ t[b] = x /\ ~M!Less(key[x], key[s[r]])
      BY <1>2, <1>5, <1>6, <2>5, <3>1
    <3>3. key[x] \in K /\ key[s[a]] \in K /\ key[s[r]] \in K
      BY <1>4, <1>11, <3>1
    <3>4. CASE key[x] = Null \/ key[s[a]] = Null
      BY <3>2, <3>3, <3>4, KeyOrder
    <3>5. CASE a = r
      BY <3>2, <3>5
    <3>6. CASE key[x] # Null /\ key[s[a]] # Null /\ a < r
      <4>1. key[a] # Null
        BY <1>10, <3>1, <3>6
      <4>2. a \in 1 .. Len(key) /\ r \in 1 .. Len(key) /\ r < x
        BY <2>2, <3>1, LenProperties
      <4>3. key[r] # Null
        BY <3>6, <4>1, <4>2 DEF Together
      <4>4. key[s[r]] # Null
        BY <1>10, <3>1, <4>3
      <4>5. ~M!Less(key[s[r]], key[s[a]])
        BY <2>1, <3>1, <3>6
      <4>6. key[s[r]] \in Keys /\ key[s[a]] \in Keys /\ key[x] \in Keys
        BY <3>3, <3>6, <4>4
      <4> QED
        BY <3>2, <4>5, <4>6, NotLessTransitive
    <3>7. a = r \/ a < r
      BY <2>2, <3>1
    <3> QED
      BY <3>4, <3>5, <3>6, <3>7
  <2> QED
    BY <2>3, <2>4, <2>5
<1> QED
  BY <1>2, <1>8, <1>9, <1>12, <1>13 DEF Sorts, t

\* The recursion of SliceStable: there is one function that it defines.
Insertions(f, key) ==
  f = [n \in 0 .. Len(key) |-> IF n = 0 THEN <<>> ELSE M!Insert(n, f[n - 1], key)]

LEMMA InsertionsExist ==
  ASSUME NEW key, Len(key) \in Nat
  PROVE  \E f : Insertions(f, key)
<1> DEFINE Upto(m, f) == f = [n \in 0 .. m |-> IF n = 0 THEN <<>> ELSE M!Insert(n, f[n - 1], key)]
           Built == {m \in Nat : \E f : Upto(m, f)}
<1>1. 0 \in Built
  <2>1. Upto(0, [n \in 0 .. 0 |-> <<>>])
    BY Z3
  <2> QED
    BY <2>1
<1>2. ASSUME NEW m \in Built PROVE m + 1 \in Built
  <2>1. PICK f : Upto(m, f)
    OBVIOUS
  <2> DEFINE g == [n \in 0 .. m + 1 |-> IF n <= m THEN f[n] ELSE M!Insert(m + 1, f[m], key)]
             h == [n \in 0 .. m + 1 |-> IF n = 0 THEN <<>> ELSE M!Insert(n, g[n - 1], key)]
  <2>2. \A n \in 0 .. m + 1 : g[n] = h[n]
    <3> TAKE n \in 0 .. m + 1
    <3>1. CASE n = 0
      BY <2>1, <3>1
    <3>2. CASE n \in 1 .. m
      <4>1. f[n] = M!Insert(n, f[n - 1], key)
        BY <2>1, <3>2
      <4>2. n - 1 \in 0 .. m + 1 /\ n - 1 <= m
        BY <3>2
      <4>3. g[n - 1] = f[n - 1] /\ g[n] = f[n]
        BY <3>2, <4>2
      <4> QED
        BY <3>2, <4>1, <4>3
    <3>3. CASE n = m + 1
      <4>1. g[m] = f[m] /\ g[m + 1] = M!Insert(m + 1, f[m], key)
        OBVIOUS
      <4>2. h[m + 1] = M!Insert(m + 1, g[m], key)
        OBVIOUS
      <4> QED
        BY <3>3, <4>1, <4>2
    <3> QED
      BY <3>1, <3>2, <3>3
  <2>3. g = h
    BY <2>2
  <2>4. Upto(m + 1, g)
    BY <2>3
  <2> HIDE DEF Upto, g
  <2> QED
    BY <2>4
<1> HIDE DEF Upto
<1>3. Built = Nat
  BY <1>1, <1>2, AllNaturals
<1> QED
  BY <1>3 DEF Insertions, Upto

\* The sort returns the positions of the rows in the order of their keys.
LEMMA SliceStableSorts ==
  ASSUME ValuesOrdered, NEW key \in Seq(Keys \union {Null}), Together(key)
  PROVE  Sorts(Len(key), M!SliceStable(key), key)
<1>1. Len(key) \in Nat
  BY LenProperties
<1> DEFINE sorted == CHOOSE f : Insertions(f, key)
<1>2. Insertions(sorted, key)
  BY <1>1, InsertionsExist
<1>3. M!SliceStable(key) = sorted[Len(key)]
  BY DEF M!SliceStable, Insertions
<1> HIDE DEF sorted
<1>4. /\ sorted[0] = <<>>
      /\ \A n \in 1 .. Len(key) : sorted[n] = M!Insert(n, sorted[n - 1], key)
  BY <1>1, <1>2 DEF Insertions
<1> DEFINE Good == {n \in Nat : n <= Len(key) => Sorts(n, sorted[n], key)}
<1>5. 0 \in Good
  <2>1. Sorts(0, <<>>, key)
    BY EmptySeq DEF Sorts, Distinct, Elements
  <2> QED
    BY <1>4, <2>1
<1>6. ASSUME NEW n \in Good PROVE n + 1 \in Good
  <2> SUFFICES ASSUME n + 1 <= Len(key) PROVE Sorts(n + 1, sorted[n + 1], key)
    OBVIOUS
  <2>1. n + 1 \in 1 .. Len(key) /\ Sorts(n, sorted[n], key) /\ (n + 1) - 1 = n
    BY <1>1
  <2>2. sorted[n + 1] = M!Insert(n + 1, sorted[n], key)
    BY <1>4, <2>1
  <2> QED
    BY <2>1, <2>2, InsertSorts
<1>7. Good = Nat
  BY <1>5, <1>6, AllNaturals
<1> QED
  BY <1>1, <1>3, <1>7

-----------------------------------------------------------------------------
(* The invariant of the merge                                                *)

NLeft == Len(join.left)
NRight == Len(join.right)

\* The keys of the sorted rows, and the places whose rows join.
LeftKeys == [n \in DOMAIN leftRows |-> M!LeftKey(leftRows[n])]
RightKeys == [m \in DOMAIN rightRows |-> M!RightKey(rightRows[m])]
Meet(n, m) == Equal(LeftKeys[n], RightKeys[m])

\* The keys of n rows are in order, and the rows without a key are not between
\* those that have one.
InOrder(keys, n) ==
  /\ keys \in [1 .. n -> Keys \union {Null}]
  /\ \A a, b \in 1 .. n : a < b => ~M!Less(keys[b], keys[a])
  /\ \A a, b, c \in 1 .. n : a < b /\ b < c /\ keys[b] = Null => keys[a] = Null \/ keys[c] = Null

SidesSorted ==
  /\ leftRows \in Seq(LeftSide) /\ Len(leftRows) = NLeft
  /\ Distinct(leftRows) /\ Elements(leftRows) = LeftSide
  /\ rightRows \in Seq(RightSide) /\ Len(rightRows) = NRight
  /\ Distinct(rightRows) /\ Elements(rightRows) = RightSide
  /\ InOrder(LeftKeys, NLeft) /\ InOrder(RightKeys, NRight)

\* No row behind on one side joins a row ahead on the other.
Apart(leftBehind, rightBehind) ==
  \A n \in 1 .. NLeft, m \in 1 .. NRight : Meet(n, m) => (n <= leftBehind <=> m <= rightBehind)

\* The group is all of the rows with one key.
GroupHolds ==
  /\ group \in [leftPos : Nat, rightPos : Nat, leftEnd : Nat, rightStart : Nat, rightEnd : Nat]
  /\ leftIdx <= group.leftPos /\ group.leftPos < group.leftEnd /\ group.leftEnd <= NLeft
  /\ group.rightStart = rightIdx
  /\ rightIdx <= group.rightPos /\ group.rightPos < group.rightEnd /\ group.rightEnd <= NRight
  /\ \A n \in leftIdx + 1 .. group.leftEnd, m \in rightIdx + 1 .. group.rightEnd : Meet(n, m)
  /\ Apart(group.leftEnd, group.rightEnd)

PairDone(n, m) ==
  IF M!InGroup
  THEN n <= group.leftPos \/ (n = group.leftPos + 1 /\ m <= group.rightPos)
  ELSE n <= leftIdx

\* What has been returned: the pairs of the rows behind and those of the group up
\* to where it is, and the rows behind that stay alone.
MergeReturned ==
  /\ delivered \subseteq Answered
  /\ \A n \in 1 .. NLeft, m \in 1 .. NRight :
       Meet(n, m) => (<<leftRows[n], rightRows[m]>> \in delivered <=> PairDone(n, m))
  /\ join.type = "left" =>
       \A n \in 1 .. NLeft : AloneLeft(leftRows[n]) =>
                               (<<leftRows[n], 0>> \in delivered <=> n <= leftIdx)
  /\ join.type = "right" =>
       \A m \in 1 .. NRight : AloneRight(rightRows[m]) =>
                                (<<0, rightRows[m]>> \in delivered <=> m <= rightIdx)

MergeHolds ==
  /\ SidesSorted
  /\ leftIdx \in 0 .. NLeft /\ rightIdx \in 0 .. NRight
  /\ Apart(leftIdx, rightIdx)
  /\ M!InGroup => GroupHolds
  /\ MergeReturned

MergeInv ==
  /\ pc \in {"new", "build", "load"} =>
       leftIdx = 0 /\ rightIdx = 0 /\ group = M!NoGroup /\ delivered = {}
  /\ pc \in {"ready", "loop"} => MergeHolds

-----------------------------------------------------------------------------
(* The rows are sorted                                                       *)

LEMMA MergeKeys ==
  ASSUME join \in Joins
  PROVE  /\ \A i \in LeftSide : M!LeftKey(i) \in Keys \union {Null}
         /\ \A k \in RightSide : M!RightKey(k) \in Keys \union {Null}
<1>1. ASSUME NEW row, NEW side, SideValue(row, side) \in Keys \union {Null, "unfound"}
      PROVE  M!TypedKey(row, side) \in Keys \union {Null}
  <2>1. M!SideValue(row, side) = SideValue(row, side)
    BY DEF M!SideValue, M!ByEquality, M!EqualityValue, M!WholeValue, M!Tries, M!Has, M!Compared,
           M!Unfound, SideValue, ByEquality, EqualityValue, WholeValue, Tries, Has, Compared, Unfound
  <2> QED
    BY <1>1, <2>1 DEF M!TypedKey, M!Unfound
<1> QED
  BY <1>1, SideValues DEF M!LeftKey, M!RightKey, LeftValue, RightValue

\* The rows without a key are where the sort of sort_merge_join.go can do with them,
\* and a LEFT JOIN has none of them on its left.
KeysSorted ==
  /\ Sortable({i \in LeftSide : M!LeftKey(i) = Null}, NLeft)
  /\ Sortable({k \in RightSide : M!RightKey(k) = Null}, NRight)
  /\ join.type = "left" => \A i \in LeftSide : M!LeftKey(i) # Null

LEMMA KeysTogether ==
  ASSUME KeysSorted
  PROVE  /\ \A i, k, m \in LeftSide :
              i < k /\ k < m /\ M!LeftKey(k) = Null => M!LeftKey(i) = Null \/ M!LeftKey(m) = Null
         /\ \A i, k, m \in RightSide :
              i < k /\ k < m /\ M!RightKey(k) = Null => M!RightKey(i) = Null \/ M!RightKey(m) = Null
         /\ join.type = "left" => \A i \in LeftSide : M!LeftKey(i) # Null
BY DEF KeysSorted, Sortable, LeftSide, RightSide, NLeft, NRight

\* Sorted positions list the keys in order.
LEMMA SortedInOrder ==
  ASSUME NEW key \in Seq(Keys \union {Null}), Together(key), NEW s, Sorts(Len(key), s, key)
  PROVE  InOrder([n \in DOMAIN s |-> key[s[n]]], Len(key))
<1> DEFINE N == Len(key)
           keys == [n \in DOMAIN s |-> key[s[n]]]
<1>1. /\ N \in Nat /\ DOMAIN s = 1 .. N
      /\ \A n \in 1 .. N : s[n] \in 1 .. N /\ key[s[n]] \in Keys \union {Null}
  <2>1. N \in Nat /\ DOMAIN s = 1 .. N /\ \A n \in 1 .. N : s[n] \in 1 .. N
    BY LenProperties, ElementOfSeq DEF Sorts
  <2> QED
    BY <2>1, ElementOfSeq
<1>2. keys \in [1 .. N -> Keys \union {Null}]
  BY <1>1
<1>3. \A a, b \in 1 .. N : a < b => ~M!Less(keys[b], keys[a])
  BY <1>1 DEF Sorts
<1>4. \A a \in 1 .. N : keys[a] = Null <=> key[a] = Null
  BY <1>1 DEF Sorts
<1> HIDE DEF keys
<1>5. \A a, b, c \in 1 .. N : a < b /\ b < c /\ keys[b] = Null => keys[a] = Null \/ keys[c] = Null
  BY <1>4 DEF Together
<1> HIDE DEF N
<1>6. InOrder(keys, N)
  BY <1>2, <1>3, <1>5 DEF InOrder
<1> QED
  BY <1>6 DEF keys, N

\* What LoadRight leaves.
LEMMA LoadSorts ==
  ASSUME join \in Joins, algorithm = "merge", ValuesOrdered, KeysSorted,
         leftRows = M!SliceStable([i \in DOMAIN join.left |-> M!LeftKey(i)]),
         rightRows = M!SliceStable([k \in DOMAIN join.right |-> M!RightKey(k)])
  PROVE  SidesSorted
<1> DEFINE K == Keys \union {Null}
           lefts == [i \in DOMAIN join.left |-> M!LeftKey(i)]
           rights == [k \in DOMAIN join.right |-> M!RightKey(k)]
<1>1. /\ DOMAIN join.left = LeftSide /\ DOMAIN join.right = RightSide
      /\ NLeft \in Nat /\ NRight \in Nat /\ LeftSide = 1 .. NLeft /\ RightSide = 1 .. NRight
  BY JoinFacts, LenProperties DEF LeftSide, RightSide, NLeft, NRight
<1>2. /\ \A i \in LeftSide : M!LeftKey(i) \in K
      /\ \A k \in RightSide : M!RightKey(k) \in K
  BY MergeKeys
<1>3. lefts \in Seq(K) /\ Len(lefts) = NLeft /\ \A i \in LeftSide : lefts[i] = M!LeftKey(i)
  <2>1. lefts \in [1 .. NLeft -> K]
    BY <1>1, <1>2
  <2> QED
    BY <1>1, <2>1, IsASeq, LenProperties
<1>4. rights \in Seq(K) /\ Len(rights) = NRight /\ \A k \in RightSide : rights[k] = M!RightKey(k)
  <2>1. rights \in [1 .. NRight -> K]
    BY <1>1, <1>2
  <2> QED
    BY <1>1, <2>1, IsASeq, LenProperties
<1>5. leftRows = M!SliceStable(lefts) /\ rightRows = M!SliceStable(rights)
  OBVIOUS
<1> HIDE DEF lefts, rights
<1>6. Together(lefts) /\ Together(rights)
  <2>1. /\ \A i, k, m \in LeftSide :
            i < k /\ k < m /\ lefts[k] = Null => lefts[i] = Null \/ lefts[m] = Null
        /\ \A i, k, m \in RightSide :
            i < k /\ k < m /\ rights[k] = Null => rights[i] = Null \/ rights[m] = Null
    BY <1>3, <1>4, KeysTogether
  <2> QED
    BY <1>1, <1>3, <1>4, <2>1 DEF Together
<1>7. Sorts(NLeft, leftRows, lefts) /\ Sorts(NRight, rightRows, rights)
  BY <1>3, <1>4, <1>5, <1>6, SliceStableSorts
<1>8. /\ leftRows \in Seq(LeftSide) /\ Len(leftRows) = NLeft
      /\ Distinct(leftRows) /\ Elements(leftRows) = LeftSide
      /\ rightRows \in Seq(RightSide) /\ Len(rightRows) = NRight
      /\ Distinct(rightRows) /\ Elements(rightRows) = RightSide
  BY <1>1, <1>7 DEF Sorts
<1>9. LeftKeys = [n \in DOMAIN leftRows |-> lefts[leftRows[n]]]
  <2>1. \A n \in DOMAIN leftRows : leftRows[n] \in LeftSide
    BY <1>8, LenProperties, ElementOfSeq
  <2> QED
    BY <1>3, <2>1 DEF LeftKeys
<1>10. RightKeys = [m \in DOMAIN rightRows |-> rights[rightRows[m]]]
  <2>1. \A m \in DOMAIN rightRows : rightRows[m] \in RightSide
    BY <1>8, LenProperties, ElementOfSeq
  <2> QED
    BY <1>4, <2>1 DEF RightKeys
<1>11. InOrder(LeftKeys, NLeft) /\ InOrder(RightKeys, NRight)
  BY <1>3, <1>4, <1>6, <1>7, <1>9, <1>10, SortedInOrder
<1> QED
  BY <1>8, <1>11 DEF SidesSorted

-----------------------------------------------------------------------------
(* What the order of the keys says                                           *)

LEMMA EqualIsEquivalence ==
  ASSUME ValuesOrdered, NEW u \in Keys, NEW v \in Keys, NEW w \in Keys
  PROVE  /\ Equal(u, u)
         /\ Equal(u, v) => Equal(v, u)
         /\ Equal(u, v) /\ Equal(v, w) => Equal(u, w)
BY KeyOrder

LEMMA KeysEqualIsEqual ==
  ASSUME NEW v \in Keys \union {Null}, NEW w \in Keys \union {Null}
  PROVE  M!KeysEqual(v, w) <=> Equal(v, w)
<1>1. Null \notin Keys /\ \A x : <<x, Null>> \notin Holds["="]
  BY HoldsAssumption, TextsApart DEF Keys
<1> QED
  BY <1>1 DEF M!KeysEqual, Equal

\* A key that is less than one in a sorted list is equal to none from there on.
LEMMA LessMeetsNone ==
  ASSUME ValuesOrdered, NEW n \in Nat, NEW keys, InOrder(keys, n), NEW p \in 1 .. n, keys[p] \in Keys,
         NEW v \in Keys, M!Less(v, keys[p])
  PROVE  \A m \in p .. n : ~Equal(v, keys[m])
<1> SUFFICES ASSUME NEW m \in p .. n, Equal(v, keys[m]) PROVE FALSE
  OBVIOUS
<1>1. keys[m] \in Keys
  BY DEF Equal
<1>2. m # p
  BY <1>1, KeyOrder
<1>3. m \in 1 .. n /\ p < m
  BY <1>2
<1>4. ~M!Less(keys[m], keys[p])
  BY <1>3 DEF InOrder
<1>5. M!Less(v, keys[m]) \/ M!Less(keys[m], keys[p])
  BY <1>1, KeyOrder
<1> QED
  BY <1>1, <1>4, <1>5, KeyOrder

\* The run of a key is all there is of it from its first row on.
LEMMA RunIsAll ==
  ASSUME ValuesOrdered, NEW n \in Nat, NEW keys, InOrder(keys, n), NEW idx \in Nat, idx + 1 <= n,
         keys[idx + 1] \in Keys
  PROVE  /\ M!RunEnd(keys, idx) \in idx + 1 .. n
         /\ \A m \in idx + 1 .. n :
              Equal(keys[m], keys[idx + 1]) <=> m <= M!RunEnd(keys, idx)
<1> DEFINE first == idx + 1
           end == M!RunEnd(keys, idx)
           Ends == {e \in first .. n : \A m \in first + 1 .. e : M!KeysEqual(keys[m], keys[first])}
<1>1. /\ keys \in Seq(Keys \union {Null}) /\ Len(keys) = n
      /\ \A m \in 1 .. n : keys[m] \in Keys \union {Null}
  <2>1. keys \in [1 .. n -> Keys \union {Null}]
    BY DEF InOrder
  <2> QED
    BY <2>1, IsASeq, LenProperties
<1>2. end = M!Max(Ends)
  <2>1. first + 1 = idx + 2
    OBVIOUS
  <2> QED
    BY <1>1, <2>1 DEF M!RunEnd
<1>3. first \in Ends /\ Ends \in SUBSET (0 .. n)
  OBVIOUS
<1> HIDE DEF Ends, end
<1>4. end \in Ends /\ \A e \in Ends : e <= end
  BY <1>2, <1>3, Greatest
<1>5. \A m \in 1 .. n : M!KeysEqual(keys[m], keys[first]) <=> Equal(keys[m], keys[first])
  BY <1>1, KeysEqualIsEqual
<1>6. end \in first .. n /\ \A m \in first + 1 .. end : Equal(keys[m], keys[first])
  BY <1>4, <1>5 DEF Ends
<1>7. ASSUME NEW m \in first .. n, m <= end PROVE Equal(keys[m], keys[first])
  <2>1. m = first \/ m \in first + 1 .. end
    BY <1>6, <1>7
  <2> QED
    BY <1>6, <2>1, EqualIsEquivalence
<1>8. ASSUME NEW m \in first .. n, m > end, Equal(keys[m], keys[first]) PROVE FALSE
  <2> DEFINE next == end + 1
  <2>1. next \in 1 .. n /\ next \in first + 1 .. n /\ first < next /\ next <= m /\ first \in 1 .. n
    BY <1>6, <1>8
  <2>2. ~Equal(keys[next], keys[first])
    <3> SUFFICES ASSUME Equal(keys[next], keys[first]) PROVE FALSE
      OBVIOUS
    <3>1. \A e \in first + 1 .. next : e = next \/ e \in first + 1 .. end
      BY <1>6
    <3>2. \A e \in first + 1 .. next : M!KeysEqual(keys[e], keys[first])
      BY <1>5, <1>6, <2>1, <3>1
    <3>3. next \in Ends
      BY <2>1, <3>2 DEF Ends
    <3> QED
      BY <1>4, <1>6, <3>3
  <2>3. keys[m] \in Keys
    BY <1>8 DEF Equal
  <2>4. m # next /\ next < m /\ m \in 1 .. n
    BY <1>8, <2>1, <2>2
  <2> HIDE DEF next
  <2>5. keys[next] \in Keys
    <3>1. keys[next] # Null
      BY <2>1, <2>3, <2>4, KeyOrder DEF InOrder
    <3> QED
      BY <1>1, <2>1, <3>1
  <2>6. ~M!Less(keys[next], keys[first]) /\ ~M!Less(keys[m], keys[next])
    BY <2>1, <2>4 DEF InOrder
  <2>7. M!Less(keys[first], keys[next])
    BY <2>2, <2>5, <2>6, KeyOrder
  <2>8. M!Less(keys[first], keys[m])
    BY <2>3, <2>5, <2>6, <2>7, KeyOrder
  <2> QED
    BY <1>8, <2>3, <2>8, KeyOrder
<1> QED
  BY <1>6, <1>7, <1>8 DEF end

-----------------------------------------------------------------------------
(* The sides, by the places of their rows                                    *)

LEMMA PlaceFacts ==
  ASSUME join \in Joins, SidesSorted
  PROVE  /\ NLeft \in Nat /\ NRight \in Nat
         /\ LeftSide = 1 .. NLeft /\ RightSide = 1 .. NRight
         /\ DOMAIN leftRows = 1 .. NLeft /\ DOMAIN rightRows = 1 .. NRight
         /\ \A n \in 1 .. NLeft : /\ leftRows[n] \in LeftSide /\ leftRows[n] \in Nat \ {0}
                                  /\ LeftKeys[n] = M!LeftKey(leftRows[n])
                                  /\ LeftKeys[n] \in Keys \union {Null}
         /\ \A m \in 1 .. NRight : /\ rightRows[m] \in RightSide /\ rightRows[m] \in Nat \ {0}
                                   /\ RightKeys[m] = M!RightKey(rightRows[m])
                                   /\ RightKeys[m] \in Keys \union {Null}
         /\ \A a, b \in 1 .. NLeft : leftRows[a] = leftRows[b] => a = b
         /\ \A a, b \in 1 .. NRight : rightRows[a] = rightRows[b] => a = b
         /\ \A i \in LeftSide : \E n \in 1 .. NLeft : i = leftRows[n]
         /\ \A k \in RightSide : \E m \in 1 .. NRight : k = rightRows[m]
<1>1. /\ NLeft \in Nat /\ NRight \in Nat
      /\ LeftSide = 1 .. NLeft /\ RightSide = 1 .. NRight
      /\ DOMAIN leftRows = 1 .. NLeft /\ DOMAIN rightRows = 1 .. NRight
  BY JoinFacts, LenProperties DEF NLeft, NRight, LeftSide, RightSide, SidesSorted
<1>2. /\ \A n \in 1 .. NLeft : leftRows[n] \in LeftSide
      /\ \A m \in 1 .. NRight : rightRows[m] \in RightSide
  BY <1>1, ElementOfSeq DEF SidesSorted
<1>3. ASSUME NEW n \in 1 .. NLeft
      PROVE  /\ leftRows[n] \in LeftSide /\ leftRows[n] \in Nat \ {0}
             /\ LeftKeys[n] = M!LeftKey(leftRows[n]) /\ LeftKeys[n] \in Keys \union {Null}
  <2>1. leftRows[n] \in LeftSide /\ leftRows[n] \in Nat \ {0}
    BY <1>2, SidesAreNat
  <2>2. LeftKeys[n] = M!LeftKey(leftRows[n])
    BY <1>1 DEF LeftKeys
  <2> QED
    BY <2>1, <2>2, MergeKeys
<1>4. ASSUME NEW m \in 1 .. NRight
      PROVE  /\ rightRows[m] \in RightSide /\ rightRows[m] \in Nat \ {0}
             /\ RightKeys[m] = M!RightKey(rightRows[m]) /\ RightKeys[m] \in Keys \union {Null}
  <2>1. rightRows[m] \in RightSide /\ rightRows[m] \in Nat \ {0}
    BY <1>2, SidesAreNat
  <2>2. RightKeys[m] = M!RightKey(rightRows[m])
    BY <1>1 DEF RightKeys
  <2> QED
    BY <2>1, <2>2, MergeKeys
<1>5. /\ \A a, b \in 1 .. NLeft : leftRows[a] = leftRows[b] => a = b
      /\ \A a, b \in 1 .. NRight : rightRows[a] = rightRows[b] => a = b
  BY <1>1 DEF SidesSorted, Distinct
<1>6. /\ \A i \in LeftSide : \E n \in 1 .. NLeft : i = leftRows[n]
      /\ \A k \in RightSide : \E m \in 1 .. NRight : k = rightRows[m]
  BY <1>1 DEF SidesSorted, Elements
<1> QED
  BY <1>1, <1>3, <1>4, <1>5, <1>6

LEMMA MeetFacts ==
  ASSUME join \in Joins, algorithm = "merge", SidesSorted
  PROVE  /\ \A n \in 1 .. NLeft, m \in 1 .. NRight :
              /\ Meet(n, m) <=> Joined(leftRows[n], rightRows[m])
              /\ Meet(n, m) => LeftKeys[n] \in Keys /\ RightKeys[m] \in Keys
         /\ \A n \in 1 .. NLeft : AloneLeft(leftRows[n]) <=> \A m \in 1 .. NRight : ~Meet(n, m)
         /\ \A m \in 1 .. NRight : AloneRight(rightRows[m]) <=> \A n \in 1 .. NLeft : ~Meet(n, m)
<1>1. ASSUME NEW n \in 1 .. NLeft, NEW m \in 1 .. NRight
      PROVE  /\ Meet(n, m) <=> Joined(leftRows[n], rightRows[m])
             /\ Meet(n, m) => LeftKeys[n] \in Keys /\ RightKeys[m] \in Keys
  <2>1. Joined(leftRows[n], rightRows[m]) <=> M!KeysEqual(LeftKeys[n], RightKeys[m])
    BY PlaceFacts DEF Joined
  <2>2. LeftKeys[n] \in Keys \union {Null} /\ RightKeys[m] \in Keys \union {Null}
    BY PlaceFacts
  <2> QED
    BY <2>1, <2>2, KeysEqualIsEqual DEF Meet, Equal
<1>2. ASSUME NEW n \in 1 .. NLeft
      PROVE  AloneLeft(leftRows[n]) <=> \A m \in 1 .. NRight : ~Meet(n, m)
  BY <1>1, PlaceFacts DEF AloneLeft
<1>3. ASSUME NEW m \in 1 .. NRight
      PROVE  AloneRight(rightRows[m]) <=> \A n \in 1 .. NLeft : ~Meet(n, m)
  BY <1>1, PlaceFacts DEF AloneRight
<1> QED
  BY <1>1, <1>2, <1>3

-----------------------------------------------------------------------------
(* The steps of the merge                                                    *)

places == <<algorithm, join, leftRows, rightRows>>

LEMMA SamePlaces ==
  UNCHANGED places =>
    /\ NLeft' = NLeft /\ NRight' = NRight
    /\ \A n, m : Meet(n, m)' <=> Meet(n, m)
    /\ \A i : AloneLeft(i)' <=> AloneLeft(i)
    /\ \A k : AloneRight(k)' <=> AloneRight(k)
    /\ SidesSorted' <=> SidesSorted
<1> SUFFICES ASSUME UNCHANGED places
             PROVE  /\ NLeft' = NLeft /\ NRight' = NRight
                    /\ \A n, m : Meet(n, m)' <=> Meet(n, m)
                    /\ \A i : AloneLeft(i)' <=> AloneLeft(i)
                    /\ \A k : AloneRight(k)' <=> AloneRight(k)
                    /\ SidesSorted' <=> SidesSorted
  OBVIOUS
<1>1. algorithm' = algorithm /\ join' = join /\ leftRows' = leftRows /\ rightRows' = rightRows
  BY DEF places
<1>2. NLeft' = NLeft /\ NRight' = NRight
  BY <1>1 DEF NLeft, NRight
<1>3. /\ \A i : M!LeftKey(i)' = M!LeftKey(i)
      /\ \A k : M!RightKey(k)' = M!RightKey(k)
  BY <1>1, SameKeys
<1>4. LeftKeys' = LeftKeys /\ RightKeys' = RightKeys
  BY <1>1, <1>3 DEF LeftKeys, RightKeys
<1>5. Keys' = Keys
  BY <1>1 DEF Keys
<1>6. \A n, m : Meet(n, m)' <=> Meet(n, m)
  BY <1>4, <1>5 DEF Meet, Equal
<1>7. /\ \A i : AloneLeft(i)' <=> AloneLeft(i)
      /\ \A k : AloneRight(k)' <=> AloneRight(k)
  BY <1>1, SameSides DEF AloneLeft, AloneRight
<1>8. SidesSorted' <=> SidesSorted
  BY <1>1, <1>2, <1>4, <1>5, SameSides DEF SidesSorted, InOrder
<1> QED
  BY <1>2, <1>6, <1>7, <1>8

LEMMA SameMerge ==
  UNCHANGED places /\ UNCHANGED <<leftIdx, rightIdx, group, delivered>> => (MergeHolds' <=> MergeHolds)
<1> SUFFICES ASSUME UNCHANGED places, UNCHANGED <<leftIdx, rightIdx, group, delivered>>
             PROVE  MergeHolds' <=> MergeHolds
  OBVIOUS
<1>1. /\ algorithm' = algorithm /\ join' = join /\ leftRows' = leftRows /\ rightRows' = rightRows
      /\ leftIdx' = leftIdx /\ rightIdx' = rightIdx /\ group' = group /\ delivered' = delivered
  BY DEF places
<1>2. MergeReturned' <=> MergeReturned
  BY <1>1, SamePlaces, SameSides DEF MergeReturned, PairDone, M!InGroup, M!NoGroup
<1>3. GroupHolds' <=> GroupHolds
  BY <1>1, SamePlaces DEF GroupHolds, Apart
<1> QED
  BY <1>1, <1>2, <1>3, SamePlaces DEF MergeHolds, Apart, M!InGroup, M!NoGroup

\* A left row that joins none is passed.
LEMMA PassLeftStep ==
  ASSUME join \in Joins, algorithm = "merge", ValuesOrdered, MergeHolds, ~M!InGroup, leftIdx < NLeft,
         NEW padded \in BOOLEAN, padded <=> join.type = "left",
         \A m \in 1 .. NRight : ~Meet(leftIdx + 1, m),
         M!PassLeft(padded), UNCHANGED places
  PROVE  MergeHolds' /\ Progress /\ pc' \in {"loop", "ready"}
<1> DEFINE top == leftIdx + 1
           row == <<leftRows[top], 0>>
<1>1. /\ leftIdx' = top /\ rightIdx' = rightIdx /\ group' = group /\ join' = join
      /\ algorithm' = algorithm
      /\ leftRows' = leftRows /\ rightRows' = rightRows
  BY DEF M!PassLeft, places
<1>2. /\ SidesSorted /\ leftIdx \in 0 .. NLeft /\ NLeft \in Nat /\ rightIdx \in 0 .. NRight
      /\ top \in 1 .. NLeft /\ top \in 0 .. NLeft
  BY PlaceFacts DEF MergeHolds
<1>3. \A n \in 1 .. NLeft : n <= top <=> n <= leftIdx \/ n = top
  BY <1>2
<1>4. ~(top <= leftIdx)
  BY <1>2
<1> HIDE DEF top
<1>5. \A m \in 1 .. NRight : ~Meet(top, m)
  BY DEF top
<1>6. AloneLeft(leftRows[top])
  BY <1>2, <1>5, MeetFacts
<1>7. Apart(top, rightIdx)
  BY <1>3, <1>5 DEF MergeHolds, Apart
<1>8. ~M!InGroup'
  BY <1>1 DEF M!InGroup, M!NoGroup
<1>9. CASE padded
  <2>1. delivered' = delivered \union {row} /\ returned' = returned + 1 /\ pc' = "ready"
    BY <1>9 DEF M!PassLeft, M!Return, top
  <2>2. row \in Answered
    BY <1>2, <1>6, <1>9, PlaceFacts, AnsweredRows DEF IsRow
  <2>3. row \notin delivered
    BY <1>2, <1>4, <1>6, <1>9 DEF MergeHolds, MergeReturned
  <2>4. Fresh(row)
    BY <2>1, <2>2, <2>3 DEF Fresh
  <2>5. \A n \in 1 .. NLeft, m \in 1 .. NRight :
          /\ <<leftRows[n], rightRows[m]>> # row
          /\ row = <<leftRows[n], 0>> <=> n = top
    BY <1>2, PlaceFacts
  <2>6. \A n \in 1 .. NLeft : row = <<leftRows[n], 0>> <=> n = top
    BY <1>2, PlaceFacts
  <2> HIDE DEF row
  <2>7. \A n \in 1 .. NLeft, m \in 1 .. NRight :
          Meet(n, m) => (<<leftRows[n], rightRows[m]>> \in delivered' <=> n <= top)
    BY <1>3, <1>5, <2>1, <2>5 DEF MergeHolds, MergeReturned, PairDone
  <2>8. \A n \in 1 .. NLeft : AloneLeft(leftRows[n]) => (<<leftRows[n], 0>> \in delivered' <=> n <= top)
    BY <1>3, <1>9, <2>1, <2>6 DEF MergeHolds, MergeReturned
  <2>9. MergeReturned'
    BY <1>1, <1>8, <1>9, <2>1, <2>2, <2>7, <2>8, SamePlaces, SameSides DEF MergeHolds, MergeReturned, PairDone
  <2>10. MergeHolds'
    BY <1>1, <1>2, <1>7, <1>8, <2>9, SamePlaces DEF MergeHolds, Apart
  <2> QED
    BY <2>1, <2>4, <2>10 DEF Progress
<1>10. CASE ~padded
  <2>1. delivered' = delivered /\ answers' = answers /\ pc' = "loop"
    BY <1>10 DEF M!PassLeft, M!Leave, M!answers, answers
  <2>2. \A n \in 1 .. NLeft, m \in 1 .. NRight :
          Meet(n, m) => (<<leftRows[n], rightRows[m]>> \in delivered' <=> n <= top)
    BY <1>3, <1>5, <2>1 DEF MergeHolds, MergeReturned, PairDone
  <2>3. MergeReturned'
    BY <1>1, <1>8, <1>10, <2>1, <2>2, SamePlaces, SameSides DEF MergeHolds, MergeReturned, PairDone
  <2>4. MergeHolds'
    BY <1>1, <1>2, <1>7, <1>8, <2>3, SamePlaces DEF MergeHolds, Apart
  <2> QED
    BY <2>1, <2>4 DEF Progress
<1> QED
  BY <1>9, <1>10

\* A right row that joins none is passed.
LEMMA PassRightStep ==
  ASSUME join \in Joins, algorithm = "merge", ValuesOrdered, MergeHolds, ~M!InGroup, rightIdx < NRight,
         NEW padded \in BOOLEAN, padded <=> join.type = "right",
         \A n \in 1 .. NLeft : ~Meet(n, rightIdx + 1),
         M!PassRight(padded), UNCHANGED places
  PROVE  MergeHolds' /\ Progress /\ pc' \in {"loop", "ready"}
<1> DEFINE top == rightIdx + 1
           row == <<0, rightRows[top]>>
<1>1. /\ rightIdx' = top /\ leftIdx' = leftIdx /\ group' = group /\ join' = join
      /\ algorithm' = algorithm
      /\ leftRows' = leftRows /\ rightRows' = rightRows
  BY DEF M!PassRight, places
<1>2. /\ SidesSorted /\ leftIdx \in 0 .. NLeft /\ NRight \in Nat /\ rightIdx \in 0 .. NRight
      /\ top \in 1 .. NRight /\ top \in 0 .. NRight
  BY PlaceFacts DEF MergeHolds
<1>3. \A m \in 1 .. NRight : m <= top <=> m <= rightIdx \/ m = top
  BY <1>2
<1>4. ~(top <= rightIdx)
  BY <1>2
<1> HIDE DEF top
<1>5. \A n \in 1 .. NLeft : ~Meet(n, top)
  BY DEF top
<1>6. AloneRight(rightRows[top])
  BY <1>2, <1>5, MeetFacts
<1>7. Apart(leftIdx, top)
  BY <1>3, <1>5 DEF MergeHolds, Apart
<1>8. ~M!InGroup'
  BY <1>1 DEF M!InGroup, M!NoGroup
<1>9. CASE padded
  <2>1. delivered' = delivered \union {row} /\ returned' = returned + 1 /\ pc' = "ready"
    BY <1>9 DEF M!PassRight, M!Return, top
  <2>2. row \in Answered
    BY <1>2, <1>6, <1>9, PlaceFacts, AnsweredRows DEF IsRow
  <2>3. row \notin delivered
    BY <1>2, <1>4, <1>6, <1>9 DEF MergeHolds, MergeReturned
  <2>4. Fresh(row)
    BY <2>1, <2>2, <2>3 DEF Fresh
  <2>5. \A n \in 1 .. NLeft, m \in 1 .. NRight : <<leftRows[n], rightRows[m]>> # row
    BY <1>2, PlaceFacts
  <2>6. \A m \in 1 .. NRight : row = <<0, rightRows[m]>> <=> m = top
    BY <1>2, PlaceFacts
  <2> HIDE DEF row
  <2>7. \A n \in 1 .. NLeft, m \in 1 .. NRight :
          Meet(n, m) => (<<leftRows[n], rightRows[m]>> \in delivered' <=> n <= leftIdx)
    BY <2>1, <2>5 DEF MergeHolds, MergeReturned, PairDone
  <2>8. \A m \in 1 .. NRight : AloneRight(rightRows[m]) => (<<0, rightRows[m]>> \in delivered' <=> m <= top)
    BY <1>3, <1>9, <2>1, <2>6 DEF MergeHolds, MergeReturned
  <2>9. MergeReturned'
    BY <1>1, <1>8, <1>9, <2>1, <2>2, <2>7, <2>8, SamePlaces, SameSides DEF MergeHolds, MergeReturned, PairDone
  <2>10. MergeHolds'
    BY <1>1, <1>2, <1>7, <1>8, <2>9, SamePlaces DEF MergeHolds, Apart
  <2> QED
    BY <2>1, <2>4, <2>10 DEF Progress
<1>10. CASE ~padded
  <2>1. delivered' = delivered /\ answers' = answers /\ pc' = "loop"
    BY <1>10 DEF M!PassRight, M!Leave, M!answers, answers
  <2>2. MergeReturned'
    BY <1>1, <1>8, <1>10, <2>1, SamePlaces, SameSides DEF MergeHolds, MergeReturned, PairDone
  <2>3. MergeHolds'
    BY <1>1, <1>2, <1>7, <1>8, <2>2, SamePlaces DEF MergeHolds, Apart
  <2> QED
    BY <2>1, <2>3 DEF Progress
<1> QED
  BY <1>9, <1>10

LEMMA TopFacts ==
  ASSUME join \in Joins, algorithm = "merge", ValuesOrdered, MergeHolds
  PROVE  /\ M!LeftLeft <=> leftIdx < NLeft
         /\ M!RightLeft <=> rightIdx < NRight
         /\ leftIdx \in Nat /\ rightIdx \in Nat /\ NLeft \in Nat /\ NRight \in Nat
         /\ leftIdx < NLeft =>
              /\ leftIdx + 1 \in 1 .. NLeft /\ M!TopLeft = LeftKeys[leftIdx + 1]
              /\ LeftKeys[leftIdx + 1] \in Keys \union {Null}
         /\ rightIdx < NRight =>
              /\ rightIdx + 1 \in 1 .. NRight /\ M!TopRight = RightKeys[rightIdx + 1]
              /\ RightKeys[rightIdx + 1] \in Keys \union {Null}
<1>1. /\ SidesSorted /\ leftIdx \in 0 .. NLeft /\ rightIdx \in 0 .. NRight
      /\ NLeft \in Nat /\ NRight \in Nat
      /\ DOMAIN leftRows = 1 .. NLeft /\ DOMAIN rightRows = 1 .. NRight
  BY PlaceFacts DEF MergeHolds
<1>2. /\ M!LeftLeft <=> leftIdx < NLeft
      /\ M!RightLeft <=> rightIdx < NRight
  BY <1>1 DEF M!LeftLeft, M!RightLeft, SidesSorted
<1>3. leftIdx < NLeft => /\ leftIdx + 1 \in 1 .. NLeft /\ M!TopLeft = LeftKeys[leftIdx + 1]
                         /\ LeftKeys[leftIdx + 1] \in Keys \union {Null}
  <2> SUFFICES ASSUME leftIdx < NLeft
               PROVE  /\ leftIdx + 1 \in 1 .. NLeft /\ M!TopLeft = LeftKeys[leftIdx + 1]
                      /\ LeftKeys[leftIdx + 1] \in Keys \union {Null}
    OBVIOUS
  <2>1. leftIdx + 1 \in 1 .. NLeft
    BY <1>1
  <2> QED
    BY <1>1, <2>1, PlaceFacts DEF M!TopLeft, LeftKeys
<1>4. rightIdx < NRight => /\ rightIdx + 1 \in 1 .. NRight /\ M!TopRight = RightKeys[rightIdx + 1]
                           /\ RightKeys[rightIdx + 1] \in Keys \union {Null}
  <2> SUFFICES ASSUME rightIdx < NRight
               PROVE  /\ rightIdx + 1 \in 1 .. NRight /\ M!TopRight = RightKeys[rightIdx + 1]
                      /\ RightKeys[rightIdx + 1] \in Keys \union {Null}
    OBVIOUS
  <2>1. rightIdx + 1 \in 1 .. NRight
    BY <1>1
  <2> QED
    BY <1>1, <2>1, PlaceFacts DEF M!TopRight, RightKeys
<1> QED
  BY <1>1, <1>2, <1>3, <1>4

\* Neither of the next two keys is less: all rows with that key are the group.
LEMMA EnterGroupStep ==
  ASSUME join \in Joins, algorithm = "merge", ValuesOrdered, MergeHolds, ~M!InGroup, leftIdx < NLeft, rightIdx < NRight,
         M!EnterGroup, UNCHANGED places
  PROVE  MergeHolds' /\ Progress /\ pc' = "loop"
<1> DEFINE v == LeftKeys[leftIdx + 1]
           w == RightKeys[rightIdx + 1]
           leftEnd == M!RunEnd(LeftKeys, leftIdx)
           rightEnd == M!RunEnd(RightKeys, rightIdx)
<1>1. /\ leftIdx \in Nat /\ rightIdx \in Nat /\ NLeft \in Nat /\ NRight \in Nat
      /\ leftIdx + 1 \in 1 .. NLeft /\ rightIdx + 1 \in 1 .. NRight
      /\ leftIdx + 1 <= NLeft /\ rightIdx + 1 <= NRight
      /\ v \in Keys \union {Null} /\ w \in Keys \union {Null}
      /\ M!TopLeft = v /\ M!TopRight = w
  BY TopFacts
<1>2. /\ Null \notin {v, w} /\ ~M!Less(v, w) /\ ~M!Less(w, v)
      /\ group' = [leftPos |-> leftIdx, rightPos |-> rightIdx, leftEnd |-> leftEnd,
                   rightStart |-> rightIdx, rightEnd |-> rightEnd]
      /\ pc' = "loop" /\ answers' = answers /\ leftIdx' = leftIdx /\ rightIdx' = rightIdx
  BY <1>1 DEF M!EnterGroup, M!Leave, M!answers, answers, LeftKeys, RightKeys
<1>3. v \in Keys /\ w \in Keys /\ Equal(v, w)
  BY <1>1, <1>2, KeyOrder
<1>4. InOrder(LeftKeys, NLeft) /\ InOrder(RightKeys, NRight) /\ SidesSorted
  BY DEF MergeHolds, SidesSorted
<1>5. /\ leftEnd \in leftIdx + 1 .. NLeft
      /\ \A n \in leftIdx + 1 .. NLeft : Equal(LeftKeys[n], v) <=> n <= leftEnd
  BY <1>1, <1>3, <1>4, RunIsAll
<1>6. /\ rightEnd \in rightIdx + 1 .. NRight
      /\ \A m \in rightIdx + 1 .. NRight : Equal(RightKeys[m], w) <=> m <= rightEnd
  BY <1>1, <1>3, <1>4, RunIsAll
<1> HIDE DEF leftEnd, rightEnd
<1>7. ASSUME NEW n \in leftIdx + 1 .. NLeft, NEW m \in rightIdx + 1 .. NRight
      PROVE  /\ n <= leftEnd /\ m <= rightEnd => Meet(n, m)
             /\ Meet(n, m) => (n <= leftEnd <=> m <= rightEnd)
  <2>1. n \in 1 .. NLeft /\ m \in 1 .. NRight
    BY <1>1
  <2>2. /\ LeftKeys[n] \in Keys \union {Null} /\ RightKeys[m] \in Keys \union {Null}
    BY <1>4, <2>1, PlaceFacts
  <2>3. Equal(LeftKeys[n], v) <=> n <= leftEnd
    BY <1>5
  <2>4. Equal(RightKeys[m], w) <=> m <= rightEnd
    BY <1>6
  <2>5. \A a, b : Equal(a, b) => a \in Keys /\ b \in Keys
    BY DEF Equal
  <2> HIDE DEF v, w
  <2>6. ASSUME n <= leftEnd, m <= rightEnd PROVE Meet(n, m)
    <3>1. Equal(LeftKeys[n], v) /\ Equal(RightKeys[m], w)
      BY <2>3, <2>4, <2>6
    <3>2. Equal(LeftKeys[n], w) /\ Equal(w, RightKeys[m])
      BY <1>3, <2>5, <3>1, EqualIsEquivalence
    <3> QED
      BY <1>3, <2>5, <3>1, <3>2, EqualIsEquivalence DEF Meet
  <2>7. ASSUME Meet(n, m) PROVE Equal(LeftKeys[n], v) <=> Equal(RightKeys[m], w)
    <3>1. LeftKeys[n] \in Keys /\ RightKeys[m] \in Keys /\ Equal(LeftKeys[n], RightKeys[m])
      BY <2>5, <2>7 DEF Meet
    <3> QED
      BY <1>3, <3>1, EqualIsEquivalence
  <2> QED
    BY <2>3, <2>4, <2>6, <2>7
<1>8. /\ group' \in [leftPos : Nat, rightPos : Nat, leftEnd : Nat, rightStart : Nat, rightEnd : Nat]
      /\ group'.leftPos = leftIdx /\ group'.rightPos = rightIdx /\ group'.rightStart = rightIdx
      /\ group'.leftEnd = leftEnd /\ group'.rightEnd = rightEnd
      /\ leftIdx < leftEnd /\ leftEnd <= NLeft /\ rightIdx < rightEnd /\ rightEnd <= NRight
      /\ leftEnd \in Nat /\ rightEnd \in Nat
  BY <1>1, <1>2, <1>5, <1>6
<1>9. ASSUME NEW n \in 1 .. NLeft, NEW m \in 1 .. NRight, Meet(n, m)
      PROVE  n <= leftEnd <=> m <= rightEnd
  <2>1. n <= leftIdx <=> m <= rightIdx
    BY <1>9 DEF MergeHolds, Apart
  <2>2. CASE n <= leftIdx
    BY <1>1, <1>8, <2>1, <2>2
  <2>3. CASE n > leftIdx
    <3>1. n \in leftIdx + 1 .. NLeft /\ m \in rightIdx + 1 .. NRight
      BY <1>1, <2>1, <2>3
    <3> QED
      BY <1>7, <1>9, <3>1
  <2> QED
    BY <1>1, <2>2, <2>3
<1>10. \A n \in leftIdx + 1 .. leftEnd, m \in rightIdx + 1 .. rightEnd : Meet(n, m)
  <2> SUFFICES ASSUME NEW n \in leftIdx + 1 .. leftEnd, NEW m \in rightIdx + 1 .. rightEnd
               PROVE  Meet(n, m)
    OBVIOUS
  <2>1. n \in leftIdx + 1 .. NLeft /\ m \in rightIdx + 1 .. NRight /\ n <= leftEnd /\ m <= rightEnd
    BY <1>1, <1>8
  <2> QED
    BY <1>7, <2>1
<1>11. algorithm' = algorithm /\ join' = join /\ leftRows' = leftRows /\ rightRows' = rightRows /\ delivered' = delivered
  BY <1>2 DEF places, answers
<1>12. GroupHolds'
  BY <1>2, <1>8, <1>9, <1>10, SamePlaces DEF GroupHolds, Apart
<1>13. M!InGroup'
  BY <1>1, <1>8 DEF M!InGroup, M!NoGroup
<1>14. ASSUME NEW n \in 1 .. NLeft, NEW m \in 1 .. NRight, Meet(n, m)
       PROVE  PairDone(n, m)' <=> PairDone(n, m)
  <2>1. PairDone(n, m)' <=> n <= leftIdx \/ (n = leftIdx + 1 /\ m <= rightIdx)
    BY <1>8, <1>13 DEF PairDone
  <2>2. n <= leftIdx <=> m <= rightIdx
    BY <1>14 DEF MergeHolds, Apart
  <2>3. PairDone(n, m) <=> n <= leftIdx
    BY DEF PairDone
  <2> QED
    BY <1>1, <2>1, <2>2, <2>3
<1>15. MergeReturned'
  BY <1>2, <1>11, <1>14, SamePlaces, SameSides DEF MergeHolds, MergeReturned
<1>16. MergeHolds'
  BY <1>2, <1>4, <1>12, <1>15, SamePlaces DEF MergeHolds, Apart
<1> QED
  BY <1>2, <1>16 DEF Progress

\* The next pair of the group.
LEMMA EmitPairStep ==
  ASSUME join \in Joins, algorithm = "merge", ValuesOrdered, MergeHolds, M!EmitPair, UNCHANGED places
  PROVE  MergeHolds' /\ Progress /\ pc' = "ready"
<1> DEFINE n0 == group.leftPos + 1
           m0 == group.rightPos + 1
           row == <<leftRows[n0], rightRows[m0]>>
           lastRight == m0 = group.rightEnd
           lastPair == lastRight /\ n0 = group.leftEnd
<1>1. /\ M!InGroup /\ delivered' = delivered \union {row} /\ returned' = returned + 1 /\ pc' = "ready"
      /\ lastPair => leftIdx' = group.leftEnd /\ rightIdx' = group.rightEnd /\ group' = M!NoGroup
      /\ ~lastPair => /\ leftIdx' = leftIdx /\ rightIdx' = rightIdx
                      /\ group' = IF lastRight
                                  THEN [group EXCEPT !.leftPos = @ + 1, !.rightPos = group.rightStart]
                                  ELSE [group EXCEPT !.rightPos = @ + 1]
      /\ algorithm' = algorithm /\ join' = join /\ leftRows' = leftRows /\ rightRows' = rightRows
  BY DEF M!EmitPair, M!Return, places
<1>2. /\ GroupHolds /\ SidesSorted /\ Apart(leftIdx, rightIdx)
      /\ leftIdx \in 0 .. NLeft /\ rightIdx \in 0 .. NRight /\ NLeft \in Nat /\ NRight \in Nat
  BY <1>1, PlaceFacts DEF MergeHolds
<1>3. /\ group \in [leftPos : Nat, rightPos : Nat, leftEnd : Nat, rightStart : Nat, rightEnd : Nat]
      /\ leftIdx <= group.leftPos /\ n0 <= group.leftEnd /\ group.leftEnd <= NLeft
      /\ rightIdx <= group.rightPos /\ m0 <= group.rightEnd /\ group.rightEnd <= NRight
      /\ group.rightStart = rightIdx
      /\ group.leftPos \in Nat /\ group.rightPos \in Nat /\ group.leftEnd \in Nat /\ group.rightEnd \in Nat
  BY <1>2 DEF GroupHolds
<1>4. /\ n0 \in leftIdx + 1 .. group.leftEnd /\ m0 \in rightIdx + 1 .. group.rightEnd
      /\ n0 \in 1 .. NLeft /\ m0 \in 1 .. NRight
  BY <1>2, <1>3
<1>5. Meet(n0, m0) /\ ~PairDone(n0, m0)
  BY <1>1, <1>2, <1>3, <1>4 DEF GroupHolds, PairDone
<1>6. row \in Answered
  <2>1. Joined(leftRows[n0], rightRows[m0])
    BY <1>2, <1>4, <1>5, MeetFacts
  <2>2. leftRows[n0] \in LeftSide /\ rightRows[m0] \in RightSide
    BY <1>2, <1>4, PlaceFacts
  <2> QED
    BY <2>1, <2>2, SidesAreNat, AnsweredRows DEF IsRow
<1>7. row \notin delivered
  BY <1>4, <1>5 DEF MergeHolds, MergeReturned
<1>8. Fresh(row)
  BY <1>1, <1>6, <1>7 DEF Fresh
<1>9. /\ \A n \in 1 .. NLeft, m \in 1 .. NRight : row = <<leftRows[n], rightRows[m]>> <=> n = n0 /\ m = m0
      /\ \A n \in 1 .. NLeft : row # <<leftRows[n], 0>>
      /\ \A m \in 1 .. NRight : row # <<0, rightRows[m]>>
  BY <1>2, <1>4, PlaceFacts
<1> HIDE DEF row
<1>10. \A n \in 1 .. NLeft, m \in 1 .. NRight :
         Meet(n, m) => (<<leftRows[n], rightRows[m]>> \in delivered'
                          <=> PairDone(n, m) \/ (n = n0 /\ m = m0))
  BY <1>1, <1>9 DEF MergeHolds, MergeReturned
<1>11. ASSUME NEW n \in 1 .. NLeft, NEW m \in 1 .. NRight, Meet(n, m)
       PROVE  /\ n <= group.leftEnd <=> m <= group.rightEnd
              /\ n <= leftIdx <=> m <= rightIdx
              /\ PairDone(n, m) <=> n <= group.leftPos \/ (n = n0 /\ m <= group.rightPos)
  BY <1>1, <1>2, <1>11 DEF GroupHolds, Apart, PairDone
<1>12. CASE lastPair
  <2>1. ~M!InGroup' /\ leftIdx' = group.leftEnd /\ rightIdx' = group.rightEnd
    BY <1>1, <1>12 DEF M!InGroup, M!NoGroup
  <2>2. ASSUME NEW n \in 1 .. NLeft, NEW m \in 1 .. NRight, Meet(n, m)
        PROVE  PairDone(n, m)' <=> PairDone(n, m) \/ (n = n0 /\ m = m0)
    <3>1. PairDone(n, m)' <=> n <= group.leftEnd
      BY <2>1 DEF PairDone
    <3>2. n <= group.leftEnd <=> n <= group.leftPos \/ n = n0
      BY <1>3, <1>12
    <3>3. n = n0 => m <= group.rightEnd
      BY <1>3, <1>11, <2>2
    <3>4. m <= group.rightEnd => m <= group.rightPos \/ m = m0
      BY <1>3, <1>12
    <3> QED
      BY <1>11, <2>2, <3>1, <3>2, <3>3, <3>4
  <2>3. /\ \A n \in 1 .. NLeft : AloneLeft(leftRows[n]) => (n <= group.leftEnd <=> n <= leftIdx)
        /\ \A m \in 1 .. NRight : AloneRight(rightRows[m]) => (m <= group.rightEnd <=> m <= rightIdx)
    <3>1. ASSUME NEW n \in 1 .. NLeft, AloneLeft(leftRows[n])
          PROVE  n <= group.leftEnd <=> n <= leftIdx
      <4>1. n \notin leftIdx + 1 .. group.leftEnd
        BY <1>2, <1>4, <3>1, MeetFacts DEF GroupHolds
      <4> QED
        BY <1>2, <1>3, <4>1
    <3>2. ASSUME NEW m \in 1 .. NRight, AloneRight(rightRows[m])
          PROVE  m <= group.rightEnd <=> m <= rightIdx
      <4>1. m \notin rightIdx + 1 .. group.rightEnd
        BY <1>2, <1>4, <3>2, MeetFacts DEF GroupHolds
      <4> QED
        BY <1>2, <1>3, <4>1
    <3> QED
      BY <3>1, <3>2
  <2>4. MergeReturned'
    BY <1>1, <1>6, <1>9, <1>10, <2>1, <2>2, <2>3, SamePlaces, SameSides DEF MergeHolds, MergeReturned
  <2>5. MergeHolds'
    <3>1. leftIdx' \in 0 .. NLeft' /\ rightIdx' \in 0 .. NRight'
      BY <1>2, <1>3, <2>1, SamePlaces
    <3>2. Apart(leftIdx, rightIdx)'
      BY <1>2, <2>1, SamePlaces DEF GroupHolds, Apart
    <3> QED
      BY <1>2, <2>1, <2>4, <3>1, <3>2, SamePlaces DEF MergeHolds
  <2> QED
    BY <1>1, <1>8, <2>5 DEF Progress
<1>13. CASE ~lastPair
  <2>1. leftIdx' = leftIdx /\ rightIdx' = rightIdx
    BY <1>1, <1>13
  <2>2. /\ group' \in [leftPos : Nat, rightPos : Nat, leftEnd : Nat, rightStart : Nat, rightEnd : Nat]
        /\ group'.leftEnd = group.leftEnd /\ group'.rightEnd = group.rightEnd
        /\ group'.rightStart = rightIdx
        /\ lastRight => group'.leftPos = n0 /\ group'.rightPos = rightIdx
        /\ ~lastRight => group'.leftPos = group.leftPos /\ group'.rightPos = m0
    <3>1. n0 \in Nat /\ m0 \in Nat /\ rightIdx \in Nat
      BY <1>2, <1>3
    <3>2. CASE lastRight
      <4>1. group' = [group EXCEPT !.leftPos = n0, !.rightPos = rightIdx]
        BY <1>1, <1>3, <1>13, <3>2
      <4> QED
        BY <1>3, <3>1, <3>2, <4>1
    <3>3. CASE ~lastRight
      <4>1. group' = [group EXCEPT !.rightPos = m0]
        BY <1>1, <1>3, <1>13, <3>3
      <4> QED
        BY <1>3, <3>1, <3>3, <4>1
    <3> QED
      BY <3>2, <3>3
  <2>3. /\ leftIdx <= group'.leftPos /\ group'.leftPos < group.leftEnd
        /\ rightIdx <= group'.rightPos /\ group'.rightPos < group.rightEnd
    BY <1>2, <1>3, <1>4, <1>13, <2>2
  <2>4. GroupHolds'
    BY <1>1, <1>2, <2>1, <2>2, <2>3, SamePlaces DEF GroupHolds, Apart
  <2>5. M!InGroup'
    BY <1>2, <1>3, <2>2, <2>3 DEF M!InGroup, M!NoGroup
  <2>6. ASSUME NEW n \in 1 .. NLeft, NEW m \in 1 .. NRight, Meet(n, m)
        PROVE  PairDone(n, m)' <=> PairDone(n, m) \/ (n = n0 /\ m = m0)
    <3>1. PairDone(n, m)' <=> n <= group'.leftPos \/ (n = group'.leftPos + 1 /\ m <= group'.rightPos)
      BY <2>5 DEF PairDone
    <3>2. CASE lastRight
      <4>1. PairDone(n, m)' <=> n <= n0 \/ (n = n0 + 1 /\ m <= rightIdx)
        BY <2>2, <3>1, <3>2
      <4>2. m <= rightIdx => n <= n0
        BY <1>2, <1>3, <1>11, <2>6
      <4>3. n <= n0 <=> n <= group.leftPos \/ n = n0
        BY <1>3
      <4>4. n = n0 => m <= group.rightPos \/ m = m0
        BY <1>3, <1>11, <2>6, <3>2
      <4> QED
        BY <1>11, <2>6, <4>1, <4>2, <4>3, <4>4
    <3>3. CASE ~lastRight
      <4>1. PairDone(n, m)' <=> n <= group.leftPos \/ (n = n0 /\ m <= m0)
        BY <2>2, <3>1, <3>3
      <4>2. m <= m0 <=> m <= group.rightPos \/ m = m0
        BY <1>3
      <4> QED
        BY <1>11, <2>6, <4>1, <4>2
    <3> QED
      BY <3>2, <3>3
  <2>7. MergeReturned'
    BY <1>1, <1>6, <1>9, <1>10, <2>1, <2>6, SamePlaces, SameSides DEF MergeHolds, MergeReturned
  <2>8. MergeHolds'
    BY <1>2, <2>1, <2>4, <2>7, SamePlaces DEF MergeHolds, Apart
  <2> QED
    BY <1>1, <1>8, <2>8 DEF Progress
<1> QED
  BY <1>12, <1>13

\* Once the side that the join keeps is behind, or for an inner join either side,
\* all has been returned.
LEMMA AllReturned ==
  ASSUME join \in Joins, algorithm = "merge", ValuesOrdered, MergeHolds, ~M!InGroup,
         leftIdx = NLeft \/ rightIdx = NRight,
         join.type = "left" => leftIdx = NLeft, join.type = "right" => rightIdx = NRight
  PROVE  delivered = Answered
<1>1. SidesSorted /\ Apart(leftIdx, rightIdx) /\ NLeft \in Nat /\ NRight \in Nat
  BY PlaceFacts DEF MergeHolds
<1>2. ASSUME NEW n \in 1 .. NLeft, NEW m \in 1 .. NRight, Meet(n, m) PROVE n <= leftIdx
  <2>1. n <= leftIdx <=> m <= rightIdx
    BY <1>1, <1>2 DEF Apart
  <2> QED
    BY <1>1, <2>1
<1>3. ASSUME NEW i \in Nat, NEW k \in Nat, <<i, k>> \in Answered PROVE <<i, k>> \in delivered
  <2>1. IsRow(i, k)
    BY <1>3, AnsweredRows
  <2>2. CASE i \in LeftSide /\ k \in RightSide /\ Joined(i, k)
    <3>1. PICK n \in 1 .. NLeft, m \in 1 .. NRight : i = leftRows[n] /\ k = rightRows[m]
      BY <1>1, <2>2, PlaceFacts
    <3>2. Meet(n, m)
      BY <1>1, <2>2, <3>1, MeetFacts
    <3> QED
      BY <1>2, <3>1, <3>2 DEF MergeHolds, MergeReturned, PairDone
  <2>3. CASE join.type = "left" /\ k = 0 /\ AloneLeft(i)
    <3>1. PICK n \in 1 .. NLeft : i = leftRows[n]
      BY <1>1, <2>3, PlaceFacts DEF AloneLeft
    <3>2. n <= leftIdx
      BY <1>1, <2>3
    <3> QED
      BY <2>3, <3>1, <3>2 DEF MergeHolds, MergeReturned
  <2>4. CASE join.type = "right" /\ i = 0 /\ AloneRight(k)
    <3>1. PICK m \in 1 .. NRight : k = rightRows[m]
      BY <1>1, <2>4, PlaceFacts DEF AloneRight
    <3>2. m <= rightIdx
      BY <1>1, <2>4
    <3> QED
      BY <2>4, <3>1, <3>2 DEF MergeHolds, MergeReturned
  <2> QED
    BY <2>1, <2>2, <2>3, <2>4 DEF IsRow
<1>4. Answered \subseteq delivered
  BY <1>3, AnsweredRows
<1> QED
  BY <1>4 DEF MergeHolds, MergeReturned

\* What a turn of the merge comes to.
TurnDone == Progress /\ (pc' = "eof" \/ (pc' \in {"loop", "ready"} /\ MergeHolds'))

LEMMA SideEndsStep ==
  ASSUME join \in Joins, algorithm = "merge", ValuesOrdered, MergeHolds, ~M!InGroup, M!SideEnds, UNCHANGED places
  PROVE  TurnDone
<1>1. /\ M!LeftLeft <=> leftIdx < NLeft
      /\ M!RightLeft <=> rightIdx < NRight
      /\ ~(leftIdx < NLeft) => leftIdx = NLeft
      /\ ~(rightIdx < NRight) => rightIdx = NRight
      /\ Apart(leftIdx, rightIdx)
      /\ leftIdx \in Nat /\ rightIdx \in Nat /\ NLeft \in Nat /\ NRight \in Nat
  <2>1. leftIdx \in 0 .. NLeft /\ rightIdx \in 0 .. NRight
    BY DEF MergeHolds
  <2> QED
    BY <2>1, TopFacts DEF MergeHolds
<1>2. join.type \in {"inner", "left", "right"}
  BY JoinFacts
<1>3. CASE M!Leave("eof")
  <2>1. pc' = "eof" /\ answers' = answers
    BY <1>3 DEF M!Leave, M!answers, answers
  <2>2. /\ leftIdx = NLeft \/ rightIdx = NRight
        /\ join.type = "left" => leftIdx = NLeft
        /\ join.type = "right" => rightIdx = NRight
    BY <1>1, <1>2, <2>1 DEF M!SideEnds, M!PassLeft, M!PassRight, M!Return
  <2> QED
    BY <2>1, <2>2, AllReturned DEF TurnDone, Progress
<1>4. CASE join.type = "right" /\ rightIdx < NRight /\ leftIdx = NLeft /\ M!PassRight(TRUE)
  <2>1. \A n \in 1 .. NLeft : ~Meet(n, rightIdx + 1)
    <3>1. rightIdx + 1 \in 1 .. NRight /\ ~(rightIdx + 1 <= rightIdx)
      BY <1>1, <1>4
    <3> QED
      BY <1>1, <1>4, <3>1 DEF Apart
  <2> QED
    BY <1>4, <2>1, PassRightStep DEF TurnDone
<1>5. CASE join.type = "left" /\ leftIdx < NLeft /\ rightIdx = NRight /\ M!PassLeft(TRUE)
  <2>1. \A m \in 1 .. NRight : ~Meet(leftIdx + 1, m)
    <3>1. leftIdx + 1 \in 1 .. NLeft /\ ~(leftIdx + 1 <= leftIdx)
      BY <1>1, <1>5
    <3> QED
      BY <1>1, <1>5, <3>1 DEF Apart
  <2> QED
    BY <1>5, <2>1, PassLeftStep DEF TurnDone
<1> QED
  BY <1>1, <1>3, <1>4, <1>5 DEF M!SideEnds

\* A row without a key, or with one that is less than the other side's next.
LEMMA LowerRowStep ==
  ASSUME join \in Joins, algorithm = "merge", ValuesOrdered, KeysSorted, MergeHolds, ~M!InGroup,
         leftIdx < NLeft, rightIdx < NRight,
         M!SkipNull \/ M!Advance, UNCHANGED places
  PROVE  TurnDone
<1> DEFINE v == LeftKeys[leftIdx + 1]
           w == RightKeys[rightIdx + 1]
<1>1. /\ leftIdx \in Nat /\ rightIdx \in Nat /\ NLeft \in Nat /\ NRight \in Nat
      /\ leftIdx + 1 \in 1 .. NLeft /\ rightIdx + 1 \in 1 .. NRight
      /\ v \in Keys \union {Null} /\ w \in Keys \union {Null}
      /\ M!TopLeft = v /\ M!TopRight = w
  BY TopFacts
<1>2. /\ SidesSorted /\ Apart(leftIdx, rightIdx)
      /\ InOrder(LeftKeys, NLeft) /\ InOrder(RightKeys, NRight)
  BY DEF MergeHolds, SidesSorted
<1>3. /\ ~(leftIdx + 1 <= leftIdx) /\ ~(rightIdx + 1 <= rightIdx)
  BY <1>1
<1>4. ASSUME v = Null \/ M!Less(v, w), v # Null => w # Null
      PROVE  \A m \in 1 .. NRight : ~Meet(leftIdx + 1, m)
  <2> SUFFICES ASSUME NEW m \in 1 .. NRight, Meet(leftIdx + 1, m) PROVE FALSE
    OBVIOUS
  <2>1. v \in Keys /\ Equal(v, RightKeys[m])
    BY DEF Meet, Equal
  <2>2. w \in Keys /\ M!Less(v, w)
    BY <1>1, <1>4, <2>1, KeyOrder
  <2>3. m \in rightIdx + 1 .. NRight
    BY <1>1, <1>2, <1>3 DEF Apart
  <2> HIDE DEF v, w
  <2> QED
    BY <1>1, <1>2, <2>1, <2>2, <2>3, LessMeetsNone DEF w
<1>5. ASSUME w = Null \/ M!Less(w, v), w # Null => v # Null
      PROVE  \A n \in 1 .. NLeft : ~Meet(n, rightIdx + 1)
  <2> SUFFICES ASSUME NEW n \in 1 .. NLeft, Meet(n, rightIdx + 1) PROVE FALSE
    OBVIOUS
  <2>1. w \in Keys /\ LeftKeys[n] \in Keys /\ Equal(LeftKeys[n], w)
    BY DEF Meet, Equal
  <2>2. v \in Keys /\ M!Less(w, v)
    BY <1>1, <1>5, <2>1, KeyOrder
  <2>3. n \in leftIdx + 1 .. NLeft
    BY <1>1, <1>2, <1>3 DEF Apart
  <2>4. Equal(w, LeftKeys[n])
    BY <2>1, EqualIsEquivalence
  <2> HIDE DEF v, w
  <2> QED
    BY <1>1, <1>2, <2>1, <2>2, <2>3, <2>4, LessMeetsNone DEF v
<1>6. CASE v = Null /\ M!PassLeft(FALSE)
  <2>1. join.type # "left"
    <3>1. leftRows[leftIdx + 1] \in LeftSide /\ M!LeftKey(leftRows[leftIdx + 1]) = Null
      BY <1>1, <1>2, <1>6, PlaceFacts
    <3> QED
      BY <3>1, KeysTogether
  <2>2. FALSE <=> join.type = "left"
    BY <2>1
  <2> QED
    BY <1>4, <1>6, <2>2, PassLeftStep DEF TurnDone
<1>7. CASE v # Null /\ w = Null /\ M!PassRight(join.type = "right")
  BY <1>5, <1>7, PassRightStep DEF TurnDone
<1>8. CASE v # Null /\ w # Null /\ M!Less(v, w) /\ M!PassLeft(join.type = "left")
  BY <1>4, <1>8, PassLeftStep DEF TurnDone
<1>9. CASE v # Null /\ w # Null /\ M!Less(w, v) /\ M!PassRight(join.type = "right")
  BY <1>5, <1>9, PassRightStep DEF TurnDone
<1>10. Null \notin {v, w} <=> v # Null /\ w # Null
  OBVIOUS
<1> HIDE DEF v, w
<1> QED
  BY <1>1, <1>6, <1>7, <1>8, <1>9, <1>10 DEF M!SkipNull, M!Advance

LEMMA MergeTurn ==
  ASSUME join \in Joins, algorithm = "merge", ValuesOrdered, KeysSorted, MergeHolds, M!EmitPair \/ M!Merge, UNCHANGED places
  PROVE  TurnDone
<1>1. CASE M!EmitPair
  BY <1>1, EmitPairStep DEF TurnDone
<1>2. CASE M!Merge
  <2>1. ~M!InGroup
    BY <1>2 DEF M!Merge
  <2>2. CASE M!SideEnds
    BY <2>1, <2>2, SideEndsStep
  <2>3. CASE M!LeftLeft /\ M!RightLeft /\ (M!SkipNull \/ M!Advance)
    BY <2>1, <2>3, TopFacts, LowerRowStep
  <2>4. CASE M!LeftLeft /\ M!RightLeft /\ M!EnterGroup
    BY <2>1, <2>4, TopFacts, EnterGroupStep DEF TurnDone
  <2> QED
    BY <1>2, <2>2, <2>3, <2>4 DEF M!Merge
<1> QED
  BY <1>1, <1>2

-----------------------------------------------------------------------------
(* Every step of the merge join is a step of the cursor, or none             *)

Loaded ==
  /\ join \in Joins /\ algorithm = "merge" /\ ValuesOrdered /\ KeysSorted
  /\ leftRows = M!SliceStable([i \in DOMAIN join.left |-> M!LeftKey(i)])
  /\ rightRows = M!SliceStable([k \in DOMAIN join.right |-> M!RightKey(k)])
  /\ leftIdx = 0 /\ rightIdx = 0 /\ group = M!NoGroup /\ delivered = {}

LEMMA MergeBegins == Loaded => MergeHolds
<1> SUFFICES ASSUME Loaded PROVE MergeHolds
  OBVIOUS
<1>1. /\ join \in Joins /\ SidesSorted /\ leftIdx = 0 /\ rightIdx = 0 /\ delivered = {} /\ ~M!InGroup
  BY LoadSorts DEF Loaded, M!InGroup
<1>2. NLeft \in Nat /\ NRight \in Nat
  BY <1>1, PlaceFacts
<1>3. /\ \A n \in 1 .. NLeft : ~(n <= leftIdx)
      /\ \A m \in 1 .. NRight : ~(m <= rightIdx)
  BY <1>1, <1>2
<1>4. MergeReturned
  BY <1>1, <1>3 DEF MergeReturned, PairDone
<1> QED
  BY <1>1, <1>2, <1>3, <1>4 DEF MergeHolds, Apart

LEMMA MergeBegun == Loaded' => MergeHolds'
BY MergeBegins, PTL

LEMMA MergeRefines ==
  ASSUME ReleaseInv, MergeInv, MergeStep, ValuesOrdered, KeysSorted
  PROVE  MergeInv' /\ [Keyed!Next]_(Keyed!vars)
<1>1. join \in Joins /\ algorithm = "merge" /\ algorithm' = algorithm /\ M!Next
  BY DEF ReleaseInv, Given, MergeStep
<1>2. CASE M!Open
  <2>1. /\ pc = "new" /\ join' = join /\ UNCHANGED answers
        /\ UNCHANGED <<leftIdx, rightIdx, group, delivered>>
    BY <1>2 DEF M!Open, M!OpenChildren, M!answers, answers
  <2>2. \/ pc' = "build"
        \/ pc' = "refused" /\ (join.leftFault # "none" \/ join.rightFault # "none")
    BY <1>2 DEF M!Open, M!OpenChildren, M!LeftRefuses, M!RightRefuses, M!StartBuild
  <2>3. pc' = "refused" => AskedByKeys.risky
    BY <2>2 DEF AskedByKeys, Asked
  <2>4. MergeInv'
    BY <2>1, <2>2 DEF MergeInv, M!NoGroup
  <2> QED
    BY <1>1, <2>1, <2>2, <2>3, <2>4, CursorOpens
<1>3. CASE M!LoadLeft
  <2>1. /\ pc = "build" /\ join' = join /\ UNCHANGED answers
        /\ UNCHANGED <<leftIdx, rightIdx, group, delivered>>
        /\ pc' = "load" \/ (pc' = "refused" /\ join.leftFault = "next")
    BY <1>3 DEF M!LoadLeft, M!answers, answers
  <2>2. pc' = "refused" => AskedByKeys.risky
    BY <2>1 DEF AskedByKeys, Asked
  <2>3. MergeInv'
    BY <2>1 DEF MergeInv, M!NoGroup
  <2> QED
    BY <1>1, <2>1, <2>2, <2>3, CursorBuilds
<1>4. CASE M!LoadRight
  <2>1. /\ pc = "load" /\ join' = join /\ UNCHANGED answers
        /\ UNCHANGED <<leftIdx, rightIdx, group, delivered>>
    BY <1>4 DEF M!LoadRight, M!answers, answers
  <2>2. CASE join.rightFault = "next"
    <3>1. pc' = "refused" /\ AskedByKeys.risky
      BY <1>4, <2>2 DEF M!LoadRight, AskedByKeys, Asked
    <3>2. MergeInv'
      BY <3>1 DEF MergeInv
    <3> QED
      BY <1>1, <2>1, <3>1, <3>2, CursorBuilds
  <2>3. CASE join.rightFault # "next"
    <3>1. /\ pc' = "ready"
          /\ leftRows' = M!SliceStable([i \in DOMAIN join.left |-> M!LeftKey(i)])
          /\ rightRows' = M!SliceStable([k \in DOMAIN join.right |-> M!RightKey(k)])
      BY <1>4, <2>3 DEF M!LoadRight
    <3>2. /\ LeftSide' = LeftSide /\ RightSide' = RightSide
          /\ \A i : M!LeftKey(i)' = M!LeftKey(i)
          /\ \A k : M!RightKey(k)' = M!RightKey(k)
      BY <1>1, <2>1, SameKeys, SameSides
    <3>3. KeysSorted'
      BY <2>1, <3>2 DEF KeysSorted, Sortable, NLeft, NRight
    <3>4. Loaded'
      BY <1>1, <2>1, <3>1, <3>2, <3>3 DEF Loaded, MergeInv, M!NoGroup, ValuesOrdered
    <3>5. MergeInv'
      BY <3>1, <3>4, MergeBegun DEF MergeInv
    <3> QED
      BY <1>1, <2>1, <3>1, <3>5, CursorBuilds
  <2> QED
    BY <2>2, <2>3
<1>5. CASE M!NextCall
  <2>1. /\ pc = "ready" /\ pc' = "loop" /\ join' = join /\ UNCHANGED <<answers, places>>
        /\ UNCHANGED <<leftIdx, rightIdx, group, delivered>> /\ MergeHolds
    BY <1>1, <1>5 DEF M!NextCall, M!Call, M!answers, answers, M!places, places, MergeInv
  <2>2. MergeHolds'
    BY <2>1, SameMerge
  <2>3. MergeInv'
    BY <2>1, <2>2 DEF MergeInv
  <2> QED
    BY <1>1, <2>1, <2>3, CursorCalled
<1>6. CASE M!Turn
  <2>1. /\ pc = "loop" /\ join' = join /\ UNCHANGED places /\ MergeHolds
        /\ M!EmitPair \/ M!Merge
    BY <1>1, <1>6 DEF M!Turn, M!places, places, MergeInv
  <2>2. TurnDone
    BY <1>1, <2>1, MergeTurn
  <2>3. MergeInv'
    BY <2>2 DEF TurnDone, MergeInv
  <2> QED
    BY <1>1, <2>1, <2>2, <2>3, CursorTurns DEF TurnDone
<1>7. CASE M!Close
  <2>1. /\ pc \in {"ready", "eof"} /\ pc' = "closed" /\ join' = join /\ UNCHANGED answers
    BY <1>7 DEF M!Close, M!answers, answers
  <2>2. MergeInv'
    BY <2>1 DEF MergeInv
  <2> QED
    BY <1>1, <2>1, <2>2, CursorCalled
<1> QED
  BY <1>1, <1>2, <1>3, <1>4, <1>5, <1>6, <1>7 DEF M!Next

-----------------------------------------------------------------------------
(* Both joins, by their keys                                                 *)

\* What the merge asks of the values and of the rows of a join; the hash join asks
\* for nothing.
KeysFit == algorithm = "merge" => ValuesOrdered /\ KeysSorted

IInv ==
  /\ ReleaseInv /\ KeysFit
  /\ algorithm = "hash" => HashInv
  /\ algorithm = "merge" => MergeInv

LEMMA RefinesInit == Init /\ KeysFit => IInv /\ Keyed!Init
<1> SUFFICES ASSUME Init, KeysFit PROVE IInv /\ Keyed!Init
  OBVIOUS
<1>1. /\ ReleaseInv /\ join \in Joins
  BY ReleaseInit DEF ReleaseInv, Given
<1>2. /\ pc = "new" /\ delivered = {} /\ returned = 0
      /\ built = 0 /\ hashTable = [key \in H!Key |-> <<>>] /\ currentLeft = 0 /\ probeQueue = <<>>
      /\ leftIdx = 0 /\ rightIdx = 0 /\ group = M!NoGroup
  BY DEF Init, H!Init, M!Init, H!KeyedInit
<1>3. HashInv /\ MergeInv
  BY <1>2 DEF HashInv, MergeInv
<1>4. /\ AskedByKeys.type \in Keyed!Type
      /\ AskedByKeys.left \in Nat /\ AskedByKeys.right \in Nat
      /\ AskedByKeys.match \subseteq Keyed!LeftRows(AskedByKeys) \X Keyed!RightRows(AskedByKeys)
      /\ AskedByKeys.risky \in BOOLEAN
  BY <1>1, JoinFacts DEF AskedByKeys, Asked, KeyMissing, Pairs, LeftSide, RightSide,
                         Keyed!Type, Keyed!LeftRows, Keyed!RightRows
<1>5. Keyed!Init
  BY <1>2, <1>4 DEF Keyed!Init, Busy
<1> QED
  BY <1>1, <1>3, <1>5 DEF IInv

LEMMA StaysFit == UNCHANGED <<algorithm, join>> /\ KeysFit => KeysFit'
<1> SUFFICES ASSUME algorithm' = algorithm, join' = join, KeysFit PROVE KeysFit'
  OBVIOUS
<1>1. /\ LeftSide' = LeftSide /\ RightSide' = RightSide
      /\ \A i : M!LeftKey(i)' = M!LeftKey(i)
      /\ \A k : M!RightKey(k)' = M!RightKey(k)
  BY SameKeys, SameSides
<1>2. KeysSorted => KeysSorted'
  BY <1>1 DEF KeysSorted, Sortable, NLeft, NRight
<1> QED
  BY <1>2 DEF KeysFit, ValuesOrdered

LEMMA SameJoin == [Next]_vars => UNCHANGED <<algorithm, join>>
<1>1. ASSUME HashStep PROVE UNCHANGED <<algorithm, join>>
  <2>1. H!Next /\ algorithm' = algorithm
    BY <1>1 DEF HashStep
  <2> QED
    BY <2>1 DEF H!Next, H!Open, H!OpenChildren, H!BuildRow, H!BuildEnd, H!NextCall, H!Call, H!Turn,
                H!Close
<1>2. ASSUME MergeStep PROVE UNCHANGED <<algorithm, join>>
  <2>1. M!Next /\ algorithm' = algorithm
    BY <1>2 DEF MergeStep
  <2> QED
    BY <2>1 DEF M!Next, M!Open, M!OpenChildren, M!LoadLeft, M!LoadRight, M!NextCall, M!Call, M!Turn,
                M!Close
<1>3. UNCHANGED vars => UNCHANGED <<algorithm, join>>
  BY DEF vars
<1> QED
  BY <1>1, <1>2, <1>3 DEF Next

LEMMA RefinesNext == IInv /\ [Next]_vars => IInv' /\ [Keyed!Next]_(Keyed!vars)
<1> SUFFICES ASSUME IInv, [Next]_vars PROVE IInv' /\ [Keyed!Next]_(Keyed!vars)
  OBVIOUS
<1>1. /\ ReleaseInv /\ ReleaseInv' /\ KeysFit /\ KeysFit'
      /\ algorithm' = algorithm /\ join' = join
  BY ReleaseStep, SameJoin, StaysFit DEF IInv
<1>2. CASE HashStep
  <2>1. HashInv' /\ [Keyed!Next]_(Keyed!vars) /\ algorithm' = "hash"
    BY <1>1, <1>2, HashRefines DEF IInv, HashStep
  <2> QED
    BY <1>1, <2>1 DEF IInv
<1>3. CASE MergeStep
  <2>1. MergeInv' /\ [Keyed!Next]_(Keyed!vars) /\ algorithm' = "merge"
    BY <1>1, <1>3, MergeRefines DEF IInv, MergeStep, KeysFit
  <2> QED
    BY <1>1, <2>1 DEF IInv
<1>4. CASE UNCHANGED vars
  <2>1. /\ UNCHANGED hashPart /\ UNCHANGED places /\ UNCHANGED <<leftIdx, rightIdx, group, delivered>>
        /\ UNCHANGED <<pc, algorithm, returned, delivered, join>>
    BY <1>4 DEF vars, hashVars, mergeVars, hashPart, places
  <2>2. (HashInv => HashInv') /\ (MergeInv => MergeInv')
    BY <2>1, SameHash, SameMerge DEF HashInv, MergeInv, hashPart, M!NoGroup
  <2>3. AskedByKeys' = AskedByKeys
    BY <1>1, SameSides
  <2>4. UNCHANGED Keyed!vars
    BY <2>1, <2>3 DEF Keyed!vars
  <2> QED
    BY <1>1, <2>1, <2>2, <2>4 DEF IInv
<1> QED
  BY <1>2, <1>3, <1>4 DEF Next

\* The hash join, whatever the condition, the values and the rows, and the merge join
\* on values that have an order, with rows without a key where its sort copes with
\* them and none on the left of a LEFT JOIN, return each row of the join of their
\* keys exactly once, in some order, then EOF; they fail only where a child does, and
\* the hash join where a row has no key.  That the keys say what the condition says
\* is no part of this.
THEOREM JoinsByKeys == Spec /\ KeysFit => Keyed!Spec
BY RefinesInit, RefinesNext, PTL DEF Spec, Keyed!Spec

-----------------------------------------------------------------------------
(* Both joins, by the condition                                              *)

\* The keys say what the condition says: the columns found are the ones meant, and
\* values that are equal, and no others, have keys that are; and no row is without
\* a key where the merge cannot do with it.
Meant ==
  /\ KeysMeant(join)
  /\ algorithm = "hash" => DisplayTells
  /\ algorithm = "merge" => ValuesOrdered /\ Mergeable(join)

\* Every row has a value to be joined by, in the column that is found.
LEMMA ValuesMeant ==
  ASSUME join \in Joins, KeysMeant(join)
  PROVE  /\ join.condition # NoCondition => join.condition.op = "="
         /\ \A i \in LeftSide : LeftValue(i) \in Keys \union {Null}
         /\ \A k \in RightSide : RightValue(k) \in Keys \union {Null}
<1>1. CASE join.condition = NoCondition
  BY <1>1 DEF LeftValue, RightValue, SideValue, Keys
<1>2. CASE join.condition # NoCondition
  <2>1. PICK l, r \in {join.condition.a, join.condition.b} :
          /\ join.condition.op = "="
          /\ l.column \in LeftColumns /\ r.column \in RightColumns
          /\ \A row \in [LeftColumns -> Cell] : SideValue(row, "left") = row[l.column]
          /\ \A row \in [RightColumns -> Cell] : SideValue(row, "right") = row[r.column]
    BY <1>2, ColumnsFound
  <2>2. Keys \union {Null} = Cell
    BY <1>2, <2>1 DEF Keys, Cell
  <2>3. \A i \in LeftSide : LeftValue(i) \in Cell
    <3>1. TAKE i \in LeftSide
    <3>2. join.left[i] \in [LeftColumns -> Cell]
      BY JoinFacts
    <3> QED
      BY <2>1, <3>2 DEF LeftValue
  <2>4. \A k \in RightSide : RightValue(k) \in Cell
    <3>1. TAKE k \in RightSide
    <3>2. join.right[k] \in [RightColumns -> Cell]
      BY JoinFacts
    <3> QED
      BY <2>1, <3>2 DEF RightValue
  <2> QED
    BY <2>1, <2>2, <2>3, <2>4
<1> QED
  BY <1>1, <1>2

\* The condition holds for two rows exactly when what they are joined by is equal.
LEMMA JudgedByValues ==
  ASSUME join \in Joins, KeysMeant(join), DisplayTells \/ ValuesOrdered,
         NEW i \in LeftSide, NEW k \in RightSide
  PROVE  Judgement(i, k) = "true" <=> Equal(LeftValue(i), RightValue(k))
<1>1. CASE join.condition = NoCondition
  BY <1>1 DEF LeftValue, RightValue, SideValue, Judgement, Keys, Equal
<1>2. CASE join.condition # NoCondition
  <2> DEFINE c == join.condition
  <2>1. PICK l \in {c.a, c.b}, r \in {c.a, c.b} :
           /\ c.op = "="
           /\ l.side = "left" /\ r.side = "right"
           /\ l.column \in LeftColumns /\ r.column \in RightColumns
           /\ {c.a, c.b} = {l, r}
           /\ \A row \in [LeftColumns -> Cell] : SideValue(row, "left") = row[l.column]
           /\ \A row \in [RightColumns -> Cell] : SideValue(row, "right") = row[r.column]
    BY <1>2, ColumnsFound
  <2> DEFINE v == join.left[i][l.column] w == join.right[k][r.column]
  <2>2. LeftValue(i) = v /\ RightValue(k) = w /\ v \in Cell /\ w \in Cell
    BY <2>1, JoinFacts DEF LeftValue, RightValue
  <2>3. CellOf(l, i, k) = v /\ CellOf(r, i, k) = w
    BY <2>1 DEF CellOf
  <2>4. Keys = Value
    BY <1>2, <2>1 DEF Keys
  <2> HIDE DEF v, w
  <2>5. (c.a = l /\ c.b = r) \/ (c.a = r /\ c.b = l)
    BY <2>1
  <2>6. Judgement(i, k) = Compared("=", v, w) \/ Judgement(i, k) = Compared("=", w, v)
    BY <1>2, <2>1, <2>3, <2>5 DEF Judgement
  <2>7. Null \in {v, w} => Compared("=", v, w) # "true" /\ Compared("=", w, v) # "true"
    BY TextsApart DEF Compared
  <2>8. /\ \A x, y \in Value : <<x, y>> \in Holds["="] <=> <<y, x>> \in Holds["="]
        /\ \A x \in Value : <<x, x>> \in Holds["="]
    BY DEF DisplayTells, ValuesOrdered
  <2>9. ASSUME v \in Value, w \in Value
        PROVE  /\ Compared("=", v, w) = "true" <=> <<v, w>> \in Holds["="]
               /\ Compared("=", w, v) = "true" <=> <<v, w>> \in Holds["="]
    BY <2>8, <2>9, TextsApart DEF Compared
  <2>10. Equal(v, w) <=> v \in Value /\ w \in Value /\ <<v, w>> \in Holds["="]
    BY <2>4, <2>8 DEF Equal
  <2>11. CASE Null \in {v, w}
    BY <2>2, <2>6, <2>7, <2>10, <2>11, TextsApart
  <2>12. CASE Null \notin {v, w}
    BY <2>2, <2>6, <2>9, <2>10, <2>12, TextsApart
  <2> QED
    BY <2>11, <2>12
<1> QED
  BY <1>1, <1>2

\* The keys of the hash join are made of the values, and tell them apart.
LEMMA HashKeysMeant ==
  ASSUME join \in Joins, algorithm = "hash", KeysMeant(join), DisplayTells
  PROVE  /\ ~KeyMissing
         /\ \A i \in LeftSide, k \in RightSide : Joined(i, k) <=> Equal(LeftValue(i), RightValue(k))
<1> DEFINE KeyOf(v) == IF v = Null THEN H!NullKey
                       ELSE H!UseKey(IF v = "cross" THEN "cross" ELSE Text[v])
<1>1. ASSUME NEW row, NEW side \in {"left", "right"},
             SideValue(row, side) \in Keys \union {Null}
      PROVE  H!JoinKey(row, side) = KeyOf(SideValue(row, side))
  <2>1. H!SideValue(row, side) = SideValue(row, side)
    BY DEF H!SideValue, H!ByEquality, H!EqualityValue, H!WholeValue, H!Tries, H!Has, H!Compared,
           H!Unfound, SideValue, ByEquality, EqualityValue, WholeValue, Tries, Has, Compared, Unfound
  <2> DEFINE v == SideValue(row, side)
  <2>2. Keys = {"cross"} \/ Keys = Value
    BY ValuesMeant DEF Keys
  <2>3. v # H!Unfound /\ (v = Null => join.condition # NoCondition)
    BY <1>1, <2>2, TextsApart DEF H!Unfound, SideValue
  <2>4. v = Null => H!ByEquality
    BY <2>3, ValuesMeant DEF H!ByEquality
  <2>5. v # Null => H!Display(v) = IF v = "cross" THEN "cross" ELSE Text[v]
    BY <1>1, <2>2, TextsApart DEF H!Display
  <2> QED
    BY <2>1, <2>3, <2>4, <2>5 DEF H!JoinKey
<1>2. /\ \A i \in LeftSide : H!LeftKey(i) = KeyOf(LeftValue(i)) /\ LeftValue(i) \in Keys \union {Null}
      /\ \A k \in RightSide : H!RightKey(k) = KeyOf(RightValue(k)) /\ RightValue(k) \in Keys \union {Null}
  BY <1>1, ValuesMeant DEF H!LeftKey, H!RightKey, LeftValue, RightValue
<1>3. \A x, y : /\ H!UseKey(x).kind = "key" /\ H!NullKey.kind # "key"
                /\ H!UseKey(x) # H!NullKey /\ H!UseKey(x) # H!BadKey /\ H!NullKey # H!BadKey
                /\ H!UseKey(x) = H!UseKey(y) => x = y
  BY DEF H!UseKey, H!NullKey, H!BadKey
<1>4. ASSUME NEW v \in Keys \union {Null}, NEW w \in Keys \union {Null}
      PROVE  Equal(v, w) <=> KeyOf(v).kind = "key" /\ KeyOf(v) = KeyOf(w)
  <2>1. CASE join.condition = NoCondition
    BY <1>3, <2>1, TextsApart DEF Keys, Equal
  <2>2. CASE join.condition # NoCondition
    <3>1. Keys = Value
      BY <2>2, ValuesMeant DEF Keys
    <3>2. Equal(v, w) <=> v \in Value /\ w \in Value /\ Text[v] = Text[w]
      BY <3>1 DEF Equal, DisplayTells
    <3> QED
      BY <1>3, <3>1, <3>2, TextsApart
  <2> QED
    BY <2>1, <2>2
<1>5. ~KeyMissing
  BY <1>2, <1>3 DEF KeyMissing
<1> QED
  BY <1>2, <1>4, <1>5 DEF Joined

\* So are those of the merge join, and they can be sorted.
LEMMA MergeKeysMeant ==
  ASSUME join \in Joins, algorithm = "merge", KeysMeant(join), ValuesOrdered, Mergeable(join)
  PROVE  /\ KeysSorted
         /\ \A i \in LeftSide, k \in RightSide : Joined(i, k) <=> Equal(LeftValue(i), RightValue(k))
<1>1. ASSUME NEW row, NEW side, SideValue(row, side) \in Keys \union {Null}
      PROVE  M!TypedKey(row, side) = SideValue(row, side)
  <2>1. M!SideValue(row, side) = SideValue(row, side)
    BY DEF M!SideValue, M!ByEquality, M!EqualityValue, M!WholeValue, M!Tries, M!Has, M!Compared,
           M!Unfound, SideValue, ByEquality, EqualityValue, WholeValue, Tries, Has, Compared, Unfound
  <2>2. Keys = {"cross"} \/ Keys = Value
    BY ValuesMeant DEF Keys
  <2>3. SideValue(row, side) # M!Unfound
    BY <1>1, <2>2, TextsApart DEF M!Unfound
  <2> QED
    BY <2>1, <2>3 DEF M!TypedKey
<1>2. /\ \A i \in LeftSide : M!LeftKey(i) = LeftValue(i) /\ LeftValue(i) \in Keys \union {Null}
      /\ \A k \in RightSide : M!RightKey(k) = RightValue(k) /\ RightValue(k) \in Keys \union {Null}
  BY <1>1, ValuesMeant DEF M!LeftKey, M!RightKey, LeftValue, RightValue
<1>3. \A i \in LeftSide, k \in RightSide : Joined(i, k) <=> Equal(LeftValue(i), RightValue(k))
  BY <1>2, KeysEqualIsEqual DEF Joined
<1>4. KeysSorted
  <2> DEFINE c == join.condition
             first == Found(c.a, c.b, LeftColumns)
             second == Found(c.b, c.a, RightColumns)
             left == Keyless(join, join.left, first)
             right == Keyless(join, join.right, second)
  <2>1. Sortable(left, NLeft) /\ Sortable(right, NRight) /\ (join.type = "left" => left = {})
    BY DEF Mergeable, NLeft, NRight
  <2>2. DOMAIN join.left = LeftSide /\ DOMAIN join.right = RightSide
    BY JoinFacts, LenProperties DEF LeftSide, RightSide
  <2>3. /\ left = {i \in LeftSide : M!LeftKey(i) = Null}
        /\ right = {k \in RightSide : M!RightKey(k) = Null}
    <3>1. CASE join.condition = NoCondition
      <4>1. /\ \A i \in LeftSide : LeftValue(i) # Null
            /\ \A k \in RightSide : RightValue(k) # Null
        BY <3>1, TextsApart DEF LeftValue, RightValue, SideValue
      <4> QED
        BY <1>2, <3>1, <4>1 DEF Keyless
    <3>2. CASE join.condition # NoCondition
      <4>1. PICK l, r \in {c.a, c.b} :
               /\ \A row \in [LeftColumns -> Cell] : SideValue(row, "left") = row[l.column]
               /\ \A row \in [RightColumns -> Cell] : SideValue(row, "right") = row[r.column]
               /\ l.column = first /\ r.column = second
        BY <3>2, ColumnsFound
      <4>2. /\ \A i \in LeftSide : LeftValue(i) = join.left[i][first]
            /\ \A k \in RightSide : RightValue(k) = join.right[k][second]
        BY <4>1, JoinFacts DEF LeftValue, RightValue
      <4> HIDE DEF first, second
      <4> QED
        BY <1>2, <2>2, <3>2, <4>2 DEF Keyless
    <3> QED
      BY <3>1, <3>2
  <2> HIDE DEF left, right
  <2> QED
    BY <2>1, <2>3 DEF KeysSorted
<1> QED
  BY <1>3, <1>4

\* The join of the keys is then the one that is asked for.
SameJoinAsked == AskedByKeys = Asked

LEMMA MeantJoin == ReleaseInv /\ Meant => KeysFit /\ SameJoinAsked
<1> SUFFICES ASSUME ReleaseInv, Meant PROVE KeysFit /\ SameJoinAsked
  OBVIOUS
<1>1. join \in Joins /\ algorithm \in {"hash", "merge"} /\ KeysMeant(join)
  BY DEF ReleaseInv, Given, Meant
<1>2. /\ ~KeyMissing /\ KeysFit
      /\ \A i \in LeftSide, k \in RightSide : Joined(i, k) <=> Equal(LeftValue(i), RightValue(k))
  <2>1. CASE algorithm = "hash"
    BY <1>1, <2>1, HashKeysMeant DEF Meant, KeysFit
  <2>2. CASE algorithm = "merge"
    BY <1>1, <2>2, MergeKeysMeant DEF Meant, KeysFit, KeyMissing
  <2> QED
    BY <1>1, <2>1, <2>2
<1>3. \A i \in LeftSide, k \in RightSide : Joined(i, k) <=> Judgement(i, k) = "true"
  BY <1>1, <1>2, JudgedByValues DEF Meant
<1>4. {p \in Pairs : Joined(p[1], p[2])} = {p \in Pairs : Judgement(p[1], p[2]) = "true"}
  BY <1>3 DEF Pairs
<1> QED
  BY <1>2, <1>4 DEF SameJoinAsked, AskedByKeys, Asked, Pairs, LeftSide, RightSide

LEMMA MeantJoinNext == ReleaseInv' /\ Meant' => SameJoinAsked'
<1>1. ReleaseInv /\ Meant => SameJoinAsked
  BY MeantJoin
<1> QED
  BY <1>1, PTL

LEMMA StaysMeant == UNCHANGED <<algorithm, join>> /\ Meant => Meant'
<1> SUFFICES ASSUME algorithm' = algorithm, join' = join, Meant PROVE Meant'
  OBVIOUS
<1>1. KeysMeant(join)'
  BY DEF Meant, KeysMeant, KeysFound, Found
<1>2. Mergeable(join) => Mergeable(join)'
  BY DEF Mergeable, Keyless, Found, Sortable
<1> QED
  BY <1>1, <1>2 DEF Meant, DisplayTells, ValuesOrdered

LEMMA MeantInit == ReleaseInv /\ Meant /\ Keyed!Init => Cursor!Init
BY MeantJoin DEF SameJoinAsked, Keyed!Init, Cursor!Init, Keyed!Type, Cursor!Type, Keyed!LeftRows, Cursor!LeftRows,
                 Keyed!RightRows, Cursor!RightRows

LEMMA MeantNext ==
  ASSUME AskedByKeys = Asked, AskedByKeys' = Asked', [Keyed!Next]_(Keyed!vars)
  PROVE  [Cursor!Next]_(Cursor!vars)
<1>1. Keyed!Answer(AskedByKeys) = Cursor!Answer(Asked)
  BY DEF Keyed!Answer, Keyed!Rows, Keyed!LeftAlone, Keyed!RightAlone, Keyed!LeftRows,
         Keyed!RightRows, Keyed!KeepsLeft, Keyed!KeepsRight,
         Cursor!Answer, Cursor!Rows, Cursor!LeftAlone, Cursor!RightAlone, Cursor!LeftRows,
         Cursor!RightRows, Cursor!KeepsLeft, Cursor!KeepsRight
<1>2. ASSUME NEW row \in Keyed!Answer(AskedByKeys), Keyed!Return(row)
      PROVE  Cursor!Next
  <2>1. Cursor!Return(row) /\ row \in Cursor!Answer(Asked)
    BY <1>1, <1>2 DEF Keyed!Return, Cursor!Return
  <2> QED
    BY <2>1 DEF Cursor!Next
<1>3. /\ Keyed!Open => Cursor!Open
      /\ Keyed!Refuse => Cursor!Refuse
      /\ Keyed!End => Cursor!End
      /\ Keyed!Fail => Cursor!Fail
      /\ Keyed!Close => Cursor!Close
  BY <1>1 DEF Keyed!Open, Keyed!Refuse, Keyed!End, Keyed!Fail, Keyed!Close,
              Cursor!Open, Cursor!Refuse, Cursor!End, Cursor!Fail, Cursor!Close
<1>4. Keyed!Next => Cursor!Next
  BY <1>2, <1>3 DEF Keyed!Next, Cursor!Next
<1>5. UNCHANGED Keyed!vars => UNCHANGED Cursor!vars
  BY DEF Keyed!vars, Cursor!vars
<1> QED
  BY <1>4, <1>5

\* Where the keys say what the condition says (Meant), the hash join and the
\* sort-merge join return each row the condition asks for exactly once, in some
\* order, then EOF, and fail only where a child does, however many rows there are.
\* Nothing in the code sees to Meant, and outside of it they are known to answer
\* otherwise: an equality written right side first may be read by the wrong columns,
\* an int and an equal float need not read alike, and a LEFT JOIN that is merged loses
\* the left rows whose key is NULL.
THEOREM KeyedJoinsAnswer == Spec /\ Meant => IsJoinCursor
<1>1. Init /\ Meant => IInv /\ Cursor!Init
  BY ReleaseInit, MeantJoin, RefinesInit, MeantInit
<1>2. IInv /\ Meant /\ [Next]_vars => IInv' /\ Meant' /\ [Cursor!Next]_(Cursor!vars)
  <2> SUFFICES ASSUME IInv, Meant, [Next]_vars
               PROVE  IInv' /\ Meant' /\ [Cursor!Next]_(Cursor!vars)
    OBVIOUS
  <2>1. IInv' /\ [Keyed!Next]_(Keyed!vars)
    BY RefinesNext
  <2>2. Meant'
    BY SameJoin, StaysMeant
  <2>3. AskedByKeys = Asked /\ AskedByKeys' = Asked'
    BY <2>1, <2>2, MeantJoin, MeantJoinNext DEF IInv, SameJoinAsked
  <2> QED
    BY <2>1, <2>2, <2>3, MeantNext
<1> QED
  BY <1>1, <1>2, PTL DEF Spec, IsJoinCursor, Cursor!Spec
=============================================================================
