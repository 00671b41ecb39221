------------------------ MODULE RealtimeGatewayProofs ------------------------
(***************************************************************************)
(* Proofs about RealtimeGateway, for every set of sockets, guests and      *)
(* addresses, every limit, window and cleanup bucket.                      *)
(*                                                                         *)
(* The two halves are proved apart.  Of the sockets: who is registered,    *)
(* that the places suffice, and that what is owed to a socket is what it   *)
(* still has in the chain.  Of the rate limits: a ledger that splits the   *)
(* requests of the last window at the beginning of the record in use, and  *)
(* that the alarm is set for the first bucket in which a record runs out.  *)
(***************************************************************************)
EXTENDS RealtimeGateway, FiniteSetTheorems, FunctionTheorems, SequenceTheorems,
        WellFoundedInduction, TLAPS

-----------------------------------------------------------------------------
(* Induction over a set of naturals, and the least of a set.               *)

\* A set of naturals with zero and all successors has them all.
LEMMA InductionOnNat ==
  ASSUME NEW S \in SUBSET Nat, 0 \in S, \A n \in S : n + 1 \in S
  PROVE  S = Nat
<1> DEFINE R == OpToRel(<, Nat)
           T == Nat \ S
<1>0. IsWellFoundedOn(R, Nat)
  BY NatLessThanWellFounded
<1>1. ASSUME T # {} PROVE FALSE
  <2>0. T \subseteq Nat
    OBVIOUS
  <2> HIDE DEF T
  <2>1. PICK x \in T : \A y \in T : ~(<<y, x>> \in R)
    BY <1>0, <1>1, <2>0, WFMin
  <2> USE DEF T
  <2>2. x \in Nat /\ x # 0
    OBVIOUS
  <2>3. x - 1 \in Nat /\ x - 1 \notin S
    BY <2>2
  <2>4. <<x - 1, x>> \in R
    BY <2>2, <2>3 DEF OpToRel
  <2> QED  BY <2>1, <2>3, <2>4
<1> QED  BY <1>1

\* A set of naturals that has a member has a least one.
LEMMA LeastExists ==
  ASSUME NEW S \in SUBSET Nat, S # {}
  PROVE  Min(S) \in S /\ \A m \in S : Min(S) <= m
<1> DEFINE R == OpToRel(<, Nat)
<1>1. IsWellFoundedOn(R, Nat)
  BY NatLessThanWellFounded
<1> HIDE DEF R
<1>2. PICK n \in S : \A m \in S : ~(<<m, n>> \in R)
  BY <1>1, WFMin
<1>3. ASSUME NEW m \in S PROVE n <= m
  <2>1. n \in Nat /\ m \in Nat
    OBVIOUS
  <2>2. m < n => <<m, n>> \in R
    BY <2>1 DEF R, OpToRel
  <2> QED  BY <1>2, <2>1, <2>2
<1> QED  BY <1>3 DEF Min

USE GatewayAssumption

-----------------------------------------------------------------------------
(* Buckets: ceilToBucket is the least multiple of a bucket.                *)

\* q is the bucket a point in time falls in, counted from the end of it.
IsCeil(x, q) == q \in Nat /\ x <= Bucket * q /\ Bucket * q < x + Bucket

LEMMA RemainderIs ==
  ASSUME NEW x \in Nat
  PROVE  /\ x % Bucket \in 0..Bucket - 1 /\ x \div Bucket \in Nat
         /\ x = Bucket * (x \div Bucket) + (x % Bucket)
<1>0. Bucket \in Nat \ {0}
  OBVIOUS
<1>1. x % Bucket \in 0..Bucket - 1
  BY <1>0
<1>2. x \div Bucket \in Nat
  BY <1>0
<1>3. x = Bucket * (x \div Bucket) + (x % Bucket)
  BY <1>0
<1> QED  BY <1>1, <1>2, <1>3

LEMMA SmallRemainder ==
  ASSUME NEW x \in Nat, x <= Bucket
  PROVE  x % Bucket = IF x = Bucket THEN 0 ELSE x
  OBVIOUS

LEMMA CeilIsMonotone ==
  ASSUME NEW x \in Nat, NEW y \in Nat, x <= y, NEW p \in Nat, NEW q \in Nat,
         IsCeil(x, p), IsCeil(y, q)
  PROVE  Bucket * p <= Bucket * q
<1>1. Bucket * p < Bucket * q + Bucket
  BY DEF IsCeil
<1>2. Bucket * p < Bucket * (q + 1)
  BY <1>1
<1>3. p <= q
  BY <1>2
<1> QED  BY <1>3

LEMMA CeilAfter ==
  ASSUME NEW x \in Nat, NEW q \in Nat, IsCeil(x, q)
  PROVE  IsCeil(x + Bucket, q + 1) /\ Bucket * (q + 1) = Bucket * q + Bucket
<1>1. Bucket * (q + 1) = Bucket * q + Bucket /\ Bucket * q \in Nat
  OBVIOUS
<1> QED  BY <1>1 DEF IsCeil

\* BucketEnd(left) as a function of the phase.
End(ph, left) == left + ((Bucket - ((ph + left) % Bucket)) % Bucket)

LEMMA EndIs ==
  ASSUME NEW ph \in 0..Bucket - 1, NEW left \in Nat
  PROVE  /\ End(ph, left) \in Nat
         /\ \E q \in Nat : IsCeil(ph + left, q) /\ ph + End(ph, left) = Bucket * q
<1> DEFINE x == ph + left
           r == x % Bucket
           d == x \div Bucket
           e == (Bucket - r) % Bucket
<1>0. x \in Nat
  OBVIOUS
<1> HIDE DEF x
<1>1. r \in 0..Bucket - 1 /\ d \in Nat /\ x = Bucket * d + r
  BY <1>0, RemainderIs
<1> HIDE DEF r, d
<1>2. e = IF r = 0 THEN 0 ELSE Bucket - r
  <2>1. Bucket - r \in Nat /\ Bucket - r <= Bucket /\ (Bucket - r = Bucket <=> r = 0)
    BY <1>1
  <2> QED  BY <2>1, SmallRemainder
<1>3. End(ph, left) = left + e
  BY DEF End, r, x
<1> HIDE DEF e
<1>6. x = ph + left
  BY DEF x
<1>4. CASE r = 0
  <2>1. IsCeil(x, d) /\ ph + (left + e) = Bucket * d
    BY <1>0, <1>1, <1>2, <1>4, <1>6 DEF IsCeil
  <2> QED  BY <1>1, <1>2, <1>3, <1>4, <1>6, <2>1
<1>5. CASE r # 0
  <2>1. Bucket * (d + 1) = Bucket * d + Bucket
    BY <1>1
  <2>2. IsCeil(x, d + 1) /\ ph + (left + e) = Bucket * (d + 1)
    <3>1. x <= Bucket * (d + 1) /\ Bucket * (d + 1) < x + Bucket
      BY <1>0, <1>1, <1>5, <2>1
    <3>2. ph + (left + e) = Bucket * (d + 1)
      <4> DEFINE m == Bucket * d
      <4>1. m \in Nat /\ x = m + r /\ Bucket * (d + 1) = m + Bucket /\ e = Bucket - r
        BY <1>1, <1>2, <1>5, <2>1
      <4> HIDE DEF m
      <4>2. ph \in Int /\ left \in Int /\ Bucket \in Int /\ r \in Int /\ e \in Int
        BY <1>1, <4>1
      <4>3. ph + left = m + r
        BY <1>6, <4>1
      <4>4. ph + (left + e) = (ph + left) + (Bucket - r)
        BY <4>1, <4>2
      <4> QED  BY <4>1, <4>2, <4>3, <4>4
    <3> QED  BY <1>1, <3>1, <3>2 DEF IsCeil
  <2> QED  BY <1>1, <1>2, <1>3, <1>5, <1>6, <2>2
<1> QED  BY <1>4, <1>5

LEMMA EndIsLater ==
  ASSUME NEW x \in 0..Bucket - 1, NEW a \in Nat, NEW b \in Nat, a <= b
  PROVE  End(x, a) <= End(x, b)
<1>1. PICK p \in Nat : IsCeil(x + a, p) /\ x + End(x, a) = Bucket * p
  BY EndIs
<1>2. PICK q \in Nat : IsCeil(x + b, q) /\ x + End(x, b) = Bucket * q
  BY EndIs
<1>3. End(x, a) \in Nat /\ End(x, b) \in Nat
  BY EndIs
<1>4. x + a \in Nat /\ x + b \in Nat /\ x + a <= x + b
  OBVIOUS
<1>5. Bucket * p <= Bucket * q
  BY <1>1, <1>2, <1>4, CeilIsMonotone
<1> QED  BY <1>1, <1>2, <1>3, <1>5

LEMMA EndIsNear ==
  ASSUME NEW x \in 0..Bucket - 1, NEW left \in Nat
  PROVE  End(x, left) \in Nat /\ End(x, left) <= left + Bucket
<1>1. PICK q \in Nat : IsCeil(x + left, q) /\ x + End(x, left) = Bucket * q
  BY EndIs
<1>2. End(x, left) \in Nat
  BY EndIs
<1> QED  BY <1>1, <1>2 DEF IsCeil

\* With every tick the end of a record's bucket comes nearer by one at most.
LEMMA EndTicks ==
  ASSUME NEW x \in 0..Bucket - 1, NEW left \in Nat, NEW rest \in Nat, rest >= left - 1
  PROVE  /\ (x + 1) % Bucket \in 0..Bucket - 1
         /\ End(x, left) - 1 <= End((x + 1) % Bucket, rest)
<1> DEFINE y == (x + 1) % Bucket
<1>0. /\ Bucket \in Nat \ {0} /\ x \in Nat /\ x + 1 \in Nat /\ x + 1 <= Bucket
      /\ x + left \in Nat
  OBVIOUS
<1>1. y = IF x + 1 = Bucket THEN 0 ELSE x + 1
  BY <1>0, SmallRemainder
<1>2. y \in 0..Bucket - 1
  BY <1>0, <1>1
<1> HIDE DEF y
<1>3. PICK p \in Nat : IsCeil(x + left, p) /\ x + End(x, left) = Bucket * p
  BY EndIs
<1>4. PICK q \in Nat : IsCeil(y + rest, q) /\ y + End(y, rest) = Bucket * q
  BY <1>2, EndIs
<1>5. End(x, left) \in Nat /\ End(y, rest) \in Nat
  BY <1>2, EndIs
<1>6. CASE x + 1 = Bucket
  <2>1. y = 0 /\ x + left <= rest + Bucket
    BY <1>0, <1>1, <1>6
  <2>2. IsCeil(rest + Bucket, q + 1) /\ Bucket * (q + 1) = Bucket * q + Bucket
    BY <1>4, <2>1, CeilAfter
  <2>3. Bucket * p <= Bucket * (q + 1)
    BY <1>0, <1>3, <2>1, <2>2, CeilIsMonotone
  <2>4. Bucket * p \in Nat /\ Bucket * q \in Nat
    BY <1>0
  <2> QED  BY <1>0, <1>3, <1>4, <1>5, <1>6, <2>1, <2>2, <2>3, <2>4 DEF y
<1>7. CASE x + 1 # Bucket
  <2>1. y = x + 1 /\ x + left <= y + rest
    BY <1>0, <1>1, <1>7
  <2>2. Bucket * p <= Bucket * q
    BY <1>0, <1>2, <1>3, <1>4, <2>1, CeilIsMonotone
  <2>3. Bucket * p \in Nat /\ Bucket * q \in Nat
    BY <1>0
  <2> QED  BY <1>0, <1>3, <1>4, <1>5, <2>1, <2>2, <2>3 DEF y
<1> QED  BY <1>2, <1>6, <1>7 DEF y

-----------------------------------------------------------------------------
(* The sums of what was counted.                                           *)

\* s[t] is f[0] + ... + f[t], for t up to m.
IsSum(s, m, f) == s = [t \in 0..m |-> IF t = 0 THEN f[0] ELSE s[t - 1] + f[t]]

LEMMA SumExists ==
  ASSUME NEW f, NEW len \in Nat
  PROVE  \E s : IsSum(s, len, f)
<1> DEFINE S == {m \in Nat : \E s : IsSum(s, m, f)}
<1>1. 0 \in S
  <2> DEFINE s == [t \in 0..0 |-> f[0]]
  <2>1. IsSum(s, 0, f)
    BY DEF IsSum
  <2> QED  BY <2>1
<1>2. ASSUME NEW m \in S PROVE m + 1 \in S
  <2>1. PICK s : IsSum(s, m, f)
    OBVIOUS
  <2> DEFINE g == [t \in 0..(m + 1) |-> IF t <= m THEN s[t] ELSE s[m] + f[m + 1]]
  <2>2. \A t \in 0..(m + 1) : g[t] = IF t = 0 THEN f[0] ELSE g[t - 1] + f[t]
    BY <2>1 DEF IsSum
  <2>3. IsSum(g, m + 1, f)
    BY <2>2 DEF IsSum
  <2> QED  BY <2>3
<1>3. S = Nat
  <2> HIDE DEF S
  <2>1. S \in SUBSET Nat
    BY DEF S
  <2> QED  BY <1>1, <1>2, <2>1, InductionOnNat
<1> QED  BY <1>3

Ages == 0..Window - 1
Tally == [Ages -> Nat]

\* Sums adds up age by age.
LEMMA SumsIs ==
  ASSUME NEW f \in Tally
  PROVE  /\ Sums(f)[0] = f[0]
         /\ \A t \in Ages : /\ Sums(f)[t] \in Nat
                            /\ t > 0 => Sums(f)[t] = Sums(f)[t - 1] + f[t]
<1> DEFINE sum == CHOOSE s : IsSum(s, Window - 1, f)
<1>1. IsSum(sum, Window - 1, f)
  <2>1. Window - 1 \in Nat
    OBVIOUS
  <2> QED  BY <2>1, SumExists
<1>2. Sums(f) = sum
  BY DEF Sums, IsSum
<1> HIDE DEF sum
<1>3. /\ sum[0] = f[0]
      /\ \A t \in Ages : t > 0 => sum[t] = sum[t - 1] + f[t]
  BY <1>1 DEF IsSum, Ages
<1> DEFINE S == {t \in Nat : t \in Ages => sum[t] \in Nat}
<1>4. 0 \in S
  BY <1>3 DEF Tally, Ages
<1>5. ASSUME NEW t \in S PROVE t + 1 \in S
  <2>1. SUFFICES ASSUME t + 1 \in Ages PROVE sum[t + 1] \in Nat
    OBVIOUS
  <2>2. t \in Ages /\ t + 1 > 0 /\ (t + 1) - 1 = t
    BY <2>1 DEF Ages
  <2>3. sum[t + 1] = sum[t] + f[t + 1]
    BY <1>3, <2>1, <2>2
  <2>4. sum[t] \in Nat /\ f[t + 1] \in Nat
    BY <2>1, <2>2 DEF Tally
  <2> QED  BY <2>3, <2>4
<1>6. S = Nat
  <2> HIDE DEF S
  <2>1. S \in SUBSET Nat
    BY DEF S
  <2> QED  BY <1>4, <1>5, <2>1, InductionOnNat
<1>7. \A t \in Ages : sum[t] \in Nat
  BY <1>6 DEF Ages
<1> QED  BY <1>2, <1>3, <1>7

\* What is asked of the next age follows from the age before it: then it
\* holds of all of them.
LEMMA AgeByAge ==
  ASSUME NEW S \in SUBSET Ages, 0 \in S, \A t \in S : t + 1 \in Ages => t + 1 \in S
  PROVE  S = Ages
<1> DEFINE T == {t \in Nat : t \in Ages => t \in S}
<1>1. \A t \in T : t + 1 \in T
  BY DEF Ages
<1>2. 0 \in T /\ T \in SUBSET Nat
  OBVIOUS
<1>3. T = Nat
  <2> HIDE DEF T
  <2> QED  BY <1>1, <1>2, InductionOnNat
<1>4. \A t \in Ages : t \in Nat
  BY DEF Ages
<1> QED  BY <1>3, <1>4

\* The further back one looks, the more was counted.
LEMMA SumsGrow ==
  ASSUME NEW f \in Tally, NEW t \in Ages
  PROVE  Sums(f)[t] <= Sums(f)[Window - 1]
<1> DEFINE S == {u \in Ages : t <= u => Sums(f)[t] <= Sums(f)[u]}
<1>0. 0 \in Ages /\ Window - 1 \in Ages
  BY DEF Ages
<1>1. 0 \in S
  BY <1>0, SumsIs DEF Ages
<1>2. ASSUME NEW u \in S, u + 1 \in Ages PROVE u + 1 \in S
  <2> DEFINE a == Sums(f)[t]
             b == Sums(f)[u]
             c == Sums(f)[u + 1]
  <2>1. u + 1 > 0 /\ (u + 1) - 1 = u /\ u \in Nat /\ t \in Nat
    BY DEF Ages
  <2>2. a \in Nat /\ b \in Nat /\ c \in Nat /\ c = b + f[u + 1] /\ f[u + 1] \in Nat
    BY <1>2, <2>1, SumsIs DEF Tally
  <2>3. t <= u => a <= b
    BY <1>2
  <2>4. t = u + 1 => a = c
    OBVIOUS
  <2> HIDE DEF a, b, c
  <2>5. t <= u + 1 => a <= c
    BY <2>1, <2>2, <2>3, <2>4
  <2> QED  BY <1>2, <2>5 DEF a, c
<1>3. S = Ages
  <2> HIDE DEF S
  <2>1. S \in SUBSET Ages
    BY DEF S
  <2> QED  BY <1>1, <1>2, <2>1, AgeByAge
<1> QED  BY <1>0, <1>3 DEF Ages

\* A request that is counted now raises every sum by one.
LEMMA SumsCount ==
  ASSUME NEW f \in Tally
  PROVE  LET g == [f EXCEPT ![0] = @ + 1]
         IN g \in Tally /\ \A t \in Ages : Sums(g)[t] = Sums(f)[t] + 1
<1> DEFINE g == [f EXCEPT ![0] = @ + 1]
<1>0. 0 \in Ages
  BY DEF Ages
<1>1. g \in Tally /\ g[0] = f[0] + 1 /\ \A t \in Ages : t > 0 => g[t] = f[t]
  BY <1>0 DEF Tally
<1> HIDE DEF g
<1> DEFINE S == {t \in Ages : Sums(g)[t] = Sums(f)[t] + 1}
<1>2. 0 \in S
  BY <1>0, <1>1, SumsIs
<1>3. ASSUME NEW t \in S, t + 1 \in Ages PROVE t + 1 \in S
  <2>1. t + 1 > 0 /\ (t + 1) - 1 = t /\ t \in Ages
    BY DEF Ages
  <2>2. Sums(g)[t + 1] = Sums(g)[t] + g[t + 1] /\ Sums(f)[t + 1] = Sums(f)[t] + f[t + 1]
    BY <1>1, <1>3, <2>1, SumsIs
  <2>3. Sums(f)[t] \in Nat /\ f[t + 1] \in Nat /\ g[t + 1] = f[t + 1]
    BY <1>1, <1>3, <2>1, SumsIs DEF Tally
  <2>4. Sums(g)[t] = Sums(f)[t] + 1
    OBVIOUS
  <2>5. Sums(g)[t + 1] = Sums(f)[t + 1] + 1
    BY <2>2, <2>3, <2>4
  <2> QED  BY <1>3, <2>5
<1>4. S = Ages
  <2> HIDE DEF S
  <2>1. S \in SUBSET Ages
    BY DEF S
  <2> QED  BY <1>2, <1>3, <2>1, AgeByAge
<1> QED  BY <1>1, <1>4 DEF g

\* With every tick what was counted is a tick older.
LEMMA SumsAge ==
  ASSUME NEW f \in Tally
  PROVE  LET g == [t \in 0..Window - 1 |-> IF t = 0 THEN 0 ELSE f[t - 1]]
         IN /\ g \in Tally /\ g[0] = 0 /\ Sums(g)[0] = 0
            /\ \A t \in Ages : t > 0 => Sums(g)[t] = Sums(f)[t - 1]
<1> DEFINE g == [t \in 0..Window - 1 |-> IF t = 0 THEN 0 ELSE f[t - 1]]
<1>0. 0 \in Ages
  BY DEF Ages
<1>1. g \in Tally /\ g[0] = 0 /\ \A t \in Ages : t > 0 => g[t] = f[t - 1]
  BY <1>0 DEF Tally, Ages
<1> HIDE DEF g
<1> DEFINE S == {t \in Ages : IF t = 0 THEN Sums(g)[t] = 0 ELSE Sums(g)[t] = Sums(f)[t - 1]}
<1>2. 0 \in S
  BY <1>0, <1>1, SumsIs
<1>3. ASSUME NEW t \in S, t + 1 \in Ages PROVE t + 1 \in S
  <2>1. t + 1 > 0 /\ (t + 1) - 1 = t /\ t \in Ages /\ t \in Nat
    BY DEF Ages
  <2>2. Sums(g)[t + 1] = Sums(g)[t] + f[t]
    BY <1>1, <1>3, <2>1, SumsIs
  <2>3. CASE t = 0
    <3>1. Sums(g)[t] = 0 /\ Sums(f)[t] = f[t] /\ f[t] \in Nat
      BY <1>0, <2>3, SumsIs DEF Tally
    <3> QED  BY <1>3, <2>1, <2>2, <3>1
  <2>4. CASE t # 0
    <3>1. t > 0
      BY <2>1, <2>4
    <3>2. Sums(g)[t] = Sums(f)[t - 1] /\ Sums(f)[t] = Sums(f)[t - 1] + f[t]
      BY <2>1, <2>4, <3>1, SumsIs
    <3> QED  BY <1>3, <2>1, <2>2, <3>2
  <2> QED  BY <2>3, <2>4
<1>4. S = Ages
  <2> HIDE DEF S
  <2>1. S \in SUBSET Ages
    BY DEF S
  <2> QED  BY <1>2, <1>3, <2>1, AgeByAge
<1>5. Sums(g)[0] = 0
  BY <1>0, <1>4
<1>6. ASSUME NEW t \in Ages, t > 0 PROVE Sums(g)[t] = Sums(f)[t - 1]
  BY <1>4, <1>6
<1> QED  BY <1>1, <1>5, <1>6 DEF g

-----------------------------------------------------------------------------
(* One record and the requests counted for its key.                        *)

RecordType == [count : Nat, left : 0..Window]
None == [count |-> 0, left |-> 0]
InUse(r) == r.count > 0 /\ r.left > 0
InForce(r) == IF InUse(r) THEN r ELSE [count |-> 0, left |-> Window]

\* The record in use counts what came since its window began, and what came
\* before is one window's worth; without a record in use that is all there is.
Balanced(r, f, limit) ==
  IF InUse(r)
  THEN /\ r.count <= limit
       /\ Sums(f)[Window - r.left] = r.count
       /\ Sums(f)[Window - 1] <= r.count + limit
  ELSE f[0] = 0 /\ Sums(f)[Window - 1] <= limit

LEMMA InForceIs ==
  ASSUME NEW r \in RecordType
  PROVE  /\ InForce(r) \in RecordType /\ InForce(r).left > 0
         /\ r.count \in Nat /\ r.left \in 0..Window
         /\ InForce(r).count \in Nat /\ InForce(r).left \in 0..Window
  BY DEF InForce, RecordType, InUse

LEMMA BalanceConsumed ==
  ASSUME NEW r \in RecordType, NEW f \in Tally, NEW limit \in Nat \ {0},
         Balanced(r, f, limit), InForce(r).count < limit
  PROVE  LET n == [count |-> InForce(r).count + 1, left |-> InForce(r).left]
         IN /\ n \in RecordType
            /\ Balanced(n, [f EXCEPT ![0] = @ + 1], limit)
<1> DEFINE g == [f EXCEPT ![0] = @ + 1]
           n == [count |-> InForce(r).count + 1, left |-> InForce(r).left]
           c == InForce(r).count
           l == InForce(r).left
<1>0. c \in Nat /\ l \in 1..Window
  BY InForceIs
<1>1. g \in Tally /\ \A t \in Ages : Sums(g)[t] = Sums(f)[t] + 1 /\ Sums(f)[t] \in Nat
  BY SumsCount, SumsIs
<1> HIDE DEF g
<1>2. n \in RecordType /\ n.count = c + 1 /\ n.left = l /\ InUse(n)
  BY <1>0 DEF RecordType, InUse
<1> HIDE DEF n
<1>3. Window - l \in Ages /\ Window - 1 \in Ages /\ 0 \in Ages
  BY <1>0 DEF Ages
<1>4. ASSUME InUse(r) PROVE Balanced(n, g, limit)
  <2>1. c = r.count /\ l = r.left
    BY <1>4 DEF InForce
  <2>2. Sums(f)[Window - l] = c /\ Sums(f)[Window - 1] <= c + limit
    BY <1>4, <2>1 DEF Balanced
  <2> QED  BY <1>0, <1>1, <1>2, <1>3, <2>2 DEF Balanced
<1>5. ASSUME ~InUse(r) PROVE Balanced(n, g, limit)
  <2>1. c = 0 /\ l = Window
    BY <1>5 DEF InForce
  <2>2. f[0] = 0 /\ Sums(f)[Window - 1] <= limit /\ Sums(f)[0] = f[0]
    BY <1>5, SumsIs DEF Balanced
  <2>3. Window - l = 0
    BY <2>1
  <2>4. Sums(g)[0] = 1 /\ Sums(g)[Window - 1] <= 1 + limit
    <3>1. Sums(f)[Window - 1] \in Nat
      BY <1>1, <1>3
    <3> QED  BY <1>1, <1>3, <2>2, <3>1
  <2> QED  BY <1>2, <2>1, <2>3, <2>4 DEF Balanced
<1> QED  BY <1>2, <1>4, <1>5 DEF g, n

LEMMA BalanceTicks ==
  ASSUME NEW r \in RecordType, NEW f \in Tally, NEW limit \in Nat, Balanced(r, f, limit)
  PROVE  LET n == [r EXCEPT !.left = Less(@)]
             g == [t \in 0..Window - 1 |-> IF t = 0 THEN 0 ELSE f[t - 1]]
         IN n \in RecordType /\ g \in Tally /\ Balanced(n, g, limit)
<1> DEFINE n == [r EXCEPT !.left = Less(@)]
           g == [t \in 0..Window - 1 |-> IF t = 0 THEN 0 ELSE f[t - 1]]
           c == r.count
           l == r.left
           last == Sums(f)[Window - 1]
<1>0. c \in Nat /\ l \in 0..Window
  BY DEF RecordType
<1>1. /\ g \in Tally /\ g[0] = 0 /\ Sums(g)[0] = 0
      /\ \A t \in Ages : t > 0 => Sums(g)[t] = Sums(f)[t - 1]
  BY SumsAge
<1> HIDE DEF g
<1>2. n \in RecordType /\ n.count = c /\ n.left = IF l > 0 THEN l - 1 ELSE 0
  BY <1>0 DEF RecordType, Less
<1> HIDE DEF n
<1>3. Window - 1 \in Ages /\ 0 \in Ages /\ last \in Nat
  BY SumsIs DEF Ages
<1>4. Sums(g)[Window - 1] <= last
  <2>1. CASE Window - 1 = 0
    BY <1>1, <1>3, <2>1
  <2>2. CASE Window - 1 # 0
    <3>1. Window - 1 > 0 /\ (Window - 1) - 1 \in Ages
      BY <2>2 DEF Ages
    <3>2. Sums(g)[Window - 1] = Sums(f)[(Window - 1) - 1]
      BY <1>1, <1>3, <3>1
    <3> QED  BY <3>1, <3>2, SumsGrow
  <2> QED  BY <2>1, <2>2
<1>5. Sums(g)[Window - 1] \in Nat
  BY <1>1, <1>3, SumsIs
<1>6. ASSUME InUse(r) /\ l > 1 PROVE Balanced(n, g, limit)
  <2>1. c > 0 /\ c <= limit /\ Sums(f)[Window - l] = c /\ last <= c + limit
    BY <1>6 DEF InUse, Balanced
  <2>2. InUse(n) /\ n.left = l - 1
    BY <1>0, <1>2, <1>6, <2>1 DEF InUse
  <2>3. Window - (l - 1) \in Ages /\ Window - (l - 1) > 0 /\ (Window - (l - 1)) - 1 = Window - l
    BY <1>0, <1>6 DEF Ages
  <2>4. Sums(g)[Window - (l - 1)] = c
    BY <1>1, <2>1, <2>3
  <2>5. Sums(g)[Window - 1] <= c + limit
    BY <1>0, <1>3, <1>4, <1>5, <2>1
  <2> QED  BY <1>1, <1>2, <2>1, <2>2, <2>4, <2>5 DEF Balanced
<1>7. ASSUME InUse(r) /\ l = 1 PROVE Balanced(n, g, limit)
  <2>1. c <= limit /\ last = c
    BY <1>7 DEF Balanced
  <2>2. ~InUse(n)
    BY <1>2, <1>7 DEF InUse
  <2>3. Sums(g)[Window - 1] <= limit
    BY <1>0, <1>4, <1>5, <2>1
  <2> QED  BY <1>1, <1>2, <2>2, <2>3 DEF Balanced
<1>8. ASSUME ~InUse(r) PROVE Balanced(n, g, limit)
  <2>1. last <= limit
    BY <1>8 DEF Balanced
  <2>2. ~InUse(n)
    BY <1>0, <1>2, <1>8 DEF InUse
  <2>3. Sums(g)[Window - 1] <= limit
    BY <1>3, <1>4, <1>5, <2>1
  <2> QED  BY <1>1, <1>2, <2>2, <2>3 DEF Balanced
<1>9. InUse(r) => l > 0
  BY DEF InUse
<1>10. Balanced(n, g, limit)
  BY <1>0, <1>6, <1>7, <1>8, <1>9
<1> QED  BY <1>1, <1>2, <1>10 DEF g, n

\* A record that has run out may be removed: no one can tell the difference.
LEMMA BalanceCleaned ==
  ASSUME NEW r \in RecordType, NEW f, NEW limit, ~InUse(r), Balanced(r, f, limit)
  PROVE  None \in RecordType /\ Balanced(None, f, limit)
  BY DEF None, InUse, Balanced, RecordType

\* What the balance says to someone who asks for a room.
LEMMA BalanceMeans ==
  ASSUME NEW r \in RecordType, NEW f \in Tally, NEW limit \in Nat \ {0}, Balanced(r, f, limit)
  PROVE  /\ InForce(r).count >= limit => Sums(f)[Window - 1] >= limit
         /\ Sums(f)[Window - 1] <= 2 * limit
<1> DEFINE last == Sums(f)[Window - 1]
<1>0. Window - 1 \in Ages /\ last \in Nat /\ r.count \in Nat
  BY SumsIs DEF Ages, RecordType
<1>1. CASE InUse(r)
  <2>1. r.count <= limit /\ Sums(f)[Window - r.left] = r.count /\ last <= r.count + limit
    BY <1>1 DEF Balanced
  <2>2. Window - r.left \in Ages
    BY <1>1 DEF InUse, RecordType, Ages
  <2>3. r.count <= last
    BY <2>1, <2>2, SumsGrow
  <2>4. InForce(r).count = r.count
    BY <1>1 DEF InForce
  <2> QED  BY <1>0, <2>1, <2>3, <2>4
<1>2. CASE ~InUse(r)
  <2>1. last <= limit
    BY <1>2 DEF Balanced
  <2>2. InForce(r).count = 0
    BY <1>2 DEF InForce
  <2> QED  BY <1>0, <2>1, <2>2
<1> QED  BY <1>1, <1>2

-----------------------------------------------------------------------------
(* The rate limits: inductive invariant.                                   *)

RatesType ==
  /\ record \in [Keys -> RecordType]
  /\ alarm \in {NoAlarm} \union 0..Window + Bucket
  /\ cleaning \in BOOLEAN /\ phase \in 0..Bucket - 1
  /\ recent \in [Keys -> Tally]

Ledger == \A k \in Keys : Balanced(record[k], recent[k], Limit(k))

\* The alarm a, or the cleanup that is about to run, will find the record r.
Watched(r, a, ph, runs) == r.count > 0 => runs \/ (a # NoAlarm /\ a <= End(ph, r.left))
Alarmed == \A k \in Keys : Watched(record[k], alarm, phase, cleaning)

RatesInv == RatesType /\ Ledger /\ Alarmed

LEMMA LimitIs ==
  ASSUME NEW k \in Keys
  PROVE  Limit(k) \in Nat \ {0}
<1>1. k[1] \in RoomActions /\ k[2] \in {"ip", "guest"}
  BY DEF Keys
<1>2. MaxOf[k[1]] \in [{"ip", "guest"} -> Nat \ {0}]
  BY <1>1
<1>3. MaxOf[k[1]][k[2]] \in Nat \ {0}
  BY <1>1, <1>2
<1> QED  BY <1>3 DEF Limit

\* The alarm after it was asked for no later than the bucket of a deadline.
LEMMA CleanupAlarmIs ==
  ASSUME RatesType, NEW left \in 0..Window
  PROVE  /\ CleanupAlarm(left) \in 0..Window + Bucket
         /\ CleanupAlarm(left) # NoAlarm
         /\ CleanupAlarm(left) <= End(phase, left)
         /\ alarm # NoAlarm => CleanupAlarm(left) <= alarm
<1> DEFINE e == BucketEnd(left)
<1>1. e = End(phase, left) /\ End(phase, left) \in Nat /\ End(phase, left) <= left + Bucket
  BY EndIsNear DEF BucketEnd, End, RatesType
<1> HIDE DEF e
<1>2. e \in 0..Window + Bucket
  BY <1>1
<1>3. CleanupAlarm(left) = IF alarm = NoAlarm \/ (alarm > 0 /\ e < alarm) THEN e ELSE alarm
  BY DEF CleanupAlarm, e
<1>4. CASE alarm = NoAlarm
  BY <1>1, <1>2, <1>3, <1>4
<1>5. CASE alarm # NoAlarm
  <2>1. alarm \in 0..Window + Bucket
    BY <1>5 DEF RatesType
  <2> QED  BY <1>1, <1>2, <1>3, <1>5, <2>1
<1> QED  BY <1>4, <1>5

\* An alarm that only came nearer still watches what it watched.
LEMMA StillWatched ==
  ASSUME RatesType, NEW r \in RecordType, Watched(r, alarm, phase, cleaning),
         NEW left \in 0..Window
  PROVE  Watched(r, CleanupAlarm(left), phase, cleaning)
<1>1. /\ CleanupAlarm(left) \in Nat /\ CleanupAlarm(left) # NoAlarm
      /\ alarm # NoAlarm => CleanupAlarm(left) <= alarm /\ alarm \in Nat
  BY CleanupAlarmIs DEF RatesType
<1>2. End(phase, r.left) \in Nat
  BY EndIsNear DEF RatesType, RecordType
<1> QED  BY <1>1, <1>2 DEF Watched

\* A deadline no earlier than the one it was asked for is watched as well.
LEMMA NowWatched ==
  ASSUME RatesType, NEW r \in RecordType, NEW left \in 0..Window, left <= r.left
  PROVE  Watched(r, CleanupAlarm(left), phase, cleaning)
<1>1. /\ CleanupAlarm(left) \in Nat /\ CleanupAlarm(left) # NoAlarm
      /\ CleanupAlarm(left) <= End(phase, left)
  BY CleanupAlarmIs
<1>2. phase \in 0..Bucket - 1 /\ left \in Nat /\ r.left \in Nat
  BY DEF RatesType, RecordType
<1>3. End(phase, left) <= End(phase, r.left) /\ End(phase, left) \in Nat
      /\ End(phase, r.left) \in Nat
  BY <1>2, EndIsLater, EndIsNear
<1> QED  BY <1>1, <1>3 DEF Watched

LEMMA CurrentIs ==
  ASSUME RatesInv, NEW k \in Keys
  PROVE  /\ Current(k) = InForce(record[k])
         /\ Refuses(k) <=> InForce(record[k]).count >= Limit(k)
         /\ record[k] \in RecordType /\ recent[k] \in Tally /\ Limit(k) \in Nat \ {0}
         /\ Current(k).left \in 0..Window /\ Current(k).count \in Nat
         /\ Balanced(record[k], recent[k], Limit(k))
         /\ Watched(record[k], alarm, phase, cleaning)
<1>1. Current(k) = InForce(record[k])
  BY DEF Current, InForce, InUse
<1>2. record[k] \in RecordType /\ recent[k] \in Tally
  BY DEF RatesInv, RatesType
<1> QED  BY <1>1, <1>2, LimitIs, InForceIs DEF Refuses, RatesInv, Ledger, Alarmed

\* Of a request: the records of the keys ks, one or two, count it, and the
\* alarm is asked for no later than any of their deadlines.
LEMMA RequestIsBalanced ==
  ASSUME RatesInv, NEW ks \in SUBSET Keys, NEW left \in 0..Window,
         \A k \in ks : ~Refuses(k) /\ left <= Current(k).left,
         record' = [k \in Keys |-> IF k \in ks THEN Consumed(k) ELSE record[k]],
         Counted(ks), alarm' = CleanupAlarm(left), UNCHANGED <<cleaning, phase>>
  PROVE  RatesInv'
<1>1. ASSUME NEW k \in Keys
      PROVE  /\ record'[k] \in RecordType /\ recent'[k] \in Tally
             /\ Balanced(record'[k], recent'[k], Limit(k))
             /\ Watched(record'[k], alarm', phase', cleaning')
  <2>1. CASE k \in ks
    <3> DEFINE n == [count |-> InForce(record[k]).count + 1, left |-> InForce(record[k]).left]
    <3>1. record'[k] = n /\ recent'[k] = [recent[k] EXCEPT ![0] = @ + 1]
      BY <2>1, CurrentIs DEF Consumed, Counted
    <3>2. InForce(record[k]).count < Limit(k)
      BY <2>1, CurrentIs
    <3>3. n \in RecordType /\ Balanced(n, [recent[k] EXCEPT ![0] = @ + 1], Limit(k))
      BY <3>2, CurrentIs, BalanceConsumed
    <3>4. [recent[k] EXCEPT ![0] = @ + 1] \in Tally
      BY CurrentIs, SumsCount
    <3>5. left <= n.left
      BY <2>1, CurrentIs
    <3> HIDE DEF n
    <3>6. Watched(n, CleanupAlarm(left), phase, cleaning)
      BY <3>3, <3>5, NowWatched DEF RatesInv
    <3> QED  BY <3>1, <3>3, <3>4, <3>6
  <2>2. CASE k \notin ks
    <3>1. record'[k] = record[k] /\ recent'[k] = recent[k]
      BY <2>2 DEF Counted
    <3>2. Watched(record[k], CleanupAlarm(left), phase, cleaning)
      BY CurrentIs, StillWatched DEF RatesInv
    <3> QED  BY <3>1, <3>2, CurrentIs
  <2> QED  BY <2>1, <2>2
<1>2. record' \in [Keys -> RecordType] /\ recent' \in [Keys -> Tally]
  BY <1>1 DEF Counted
<1>3. alarm' \in {NoAlarm} \union 0..Window + Bucket
  BY CleanupAlarmIs DEF RatesInv
<1>4. cleaning' \in BOOLEAN /\ phase' \in 0..Bucket - 1
  BY DEF RatesInv, RatesType
<1>5. Ledger' /\ Alarmed'
  BY <1>1 DEF Ledger, Alarmed, Limit
<1> QED  BY <1>2, <1>3, <1>4, <1>5 DEF RatesInv, RatesType

\* checkRoomRequestRateLimit keeps the balance.
LEMMA RequestStep ==
  ASSUME RatesInv, NEW a \in RoomActions, NEW ip \in Ips, NEW guest \in Guests,
         CheckRoomRequest(a, ip, guest)
  PROVE  RatesInv'
<1> DEFINE x == <<a, "ip", ip>>
           g == <<a, "guest", guest>>
           first == Min({Current(x).left, Current(g).left})
<1>0. x \in Keys /\ g \in Keys /\ x # g
  <2>1. x \in Keys /\ g \in Keys
    BY DEF Keys
  <2>2. x[2] = "ip" /\ g[2] = "guest"
    OBVIOUS
  <2>3. "ip" # "guest"
    OBVIOUS
  <2> HIDE DEF x, g
  <2> QED  BY <2>1, <2>2, <2>3
<1>1. /\ Current(x).left \in 0..Window /\ Current(g).left \in 0..Window
      /\ record[x].left \in 0..Window
  BY <1>0, CurrentIs DEF RecordType
<1>2. first \in 0..Window /\ first <= Current(x).left /\ first <= Current(g).left
  <2> DEFINE S == {Current(x).left, Current(g).left}
  <2>1. S \in SUBSET Nat /\ S # {}
    BY <1>1
  <2>2. Min(S) \in S /\ \A m \in S : Min(S) <= m
    <3> HIDE DEF S
    <3> QED  BY <2>1, LeastExists
  <2> QED  BY <1>1, <2>2
<1>3. record = [k \in Keys |-> record[k]] /\ recent = [k \in Keys |-> recent[k]]
  BY DEF RatesInv, RatesType
<1> HIDE DEF first
<1>4. CASE Refuses(x)
  <2>1. /\ alarm' = CleanupAlarm(record[x].left)
        /\ UNCHANGED <<record, recent, cleaning, phase>>
    BY <1>4 DEF CheckRoomRequest
  <2>2. record' = [k \in Keys |-> IF k \in {} THEN Consumed(k) ELSE record[k]] /\ Counted({})
    BY <1>3, <2>1 DEF Counted
  <2> QED  BY <1>1, <2>1, <2>2, RequestIsBalanced
<1>5. CASE ~Refuses(x) /\ Refuses(g)
  <2>1. /\ record' = [record EXCEPT ![x] = Consumed(x)] /\ Counted({x})
        /\ alarm' = CleanupAlarm(first) /\ UNCHANGED <<cleaning, phase>>
    BY <1>5 DEF CheckRoomRequest, first
  <2>2. record' = [k \in Keys |-> IF k \in {x} THEN Consumed(k) ELSE record[k]]
    BY <1>3, <2>1
  <2>3. \A k \in {x} : ~Refuses(k) /\ first <= Current(k).left
    BY <1>2, <1>5
  <2>4. {x} \in SUBSET Keys
    BY <1>0
  <2> HIDE DEF x
  <2> QED  BY <1>2, <2>1, <2>2, <2>3, <2>4, RequestIsBalanced
<1>6. CASE ~Refuses(x) /\ ~Refuses(g)
  <2>1. /\ record' = [record EXCEPT ![x] = Consumed(x), ![g] = Consumed(g)] /\ Counted({x, g})
        /\ alarm' = CleanupAlarm(first) /\ UNCHANGED <<cleaning, phase>>
    BY <1>6 DEF CheckRoomRequest, first
  <2>2. record' = [k \in Keys |-> IF k \in {x, g} THEN Consumed(k) ELSE record[k]]
    <3> HIDE DEF x, g
    <3> QED  BY <1>0, <1>3, <2>1
  <2>3. \A k \in {x, g} : ~Refuses(k) /\ first <= Current(k).left
    BY <1>2, <1>6
  <2>4. {x, g} \in SUBSET Keys
    BY <1>0
  <2> HIDE DEF x, g
  <2> QED  BY <1>2, <2>1, <2>2, <2>3, <2>4, RequestIsBalanced
<1> QED  BY <1>4, <1>5, <1>6

\* The alarm that fires leaves its watch to the handler.
LEMMA FiringStep ==
  ASSUME RatesInv, AlarmFires
  PROVE  RatesInv'
<1>1. /\ alarm' = NoAlarm /\ cleaning' = TRUE /\ UNCHANGED <<record, phase, recent>>
  BY DEF AlarmFires
<1>2. RatesType' /\ Ledger'
  BY <1>1 DEF RatesInv, RatesType, Ledger, Limit
<1>3. Alarmed'
  BY <1>1 DEF Alarmed, Watched
<1> QED  BY <1>2, <1>3 DEF RatesInv

\* cleanupExpiredRateLimits leaves an alarm for the first of the records it keeps.
LEMMA CleanupStep ==
  ASSUME RatesInv, CleanupExpired
  PROVE  RatesInv'
<1> DEFINE live == {k \in Keys : record[k].count > 0 /\ record[k].left > 0}
           S == {record[k].left : k \in live}
<1>1. /\ cleaning' = FALSE /\ UNCHANGED <<phase, recent>>
      /\ record' = [k \in Keys |-> IF k \in live THEN record[k] ELSE None]
      /\ alarm' = IF live = {} THEN NoAlarm ELSE BucketEnd(Min(S))
  BY DEF CleanupExpired, None
<1>2. \A k \in Keys : k \in live <=> InUse(record[k])
  BY DEF InUse
<1>3. live \subseteq Keys
  OBVIOUS
<1>4. S \in SUBSET Nat
  BY CurrentIs DEF RecordType
<1>5. phase \in 0..Bucket - 1
  BY DEF RatesInv, RatesType
<1>6. live # {} => /\ alarm' = End(phase, Min(S)) /\ alarm' \in 0..Window + Bucket
                   /\ \A k \in live : alarm' <= End(phase, record[k].left)
  <2> SUFFICES ASSUME live # {}
               PROVE  /\ alarm' = End(phase, Min(S)) /\ alarm' \in 0..Window + Bucket
                      /\ \A k \in live : alarm' <= End(phase, record[k].left)
    OBVIOUS
  <2>1. Min(S) \in S /\ \A m \in S : Min(S) <= m
    <3>1. S # {}
      <4>1. PICK k \in live : TRUE
        OBVIOUS
      <4>2. record[k].left \in S
        BY <4>1
      <4> QED  BY <4>2
    <3> HIDE DEF S
    <3> QED  BY <1>4, <3>1, LeastExists
  <2>2. Min(S) \in 0..Window
    BY <1>3, <2>1, CurrentIs DEF RecordType
  <2>3. alarm' = End(phase, Min(S))
    BY <1>1 DEF BucketEnd, End
  <2>4. End(phase, Min(S)) \in Nat /\ End(phase, Min(S)) <= Min(S) + Bucket
    BY <1>5, <2>2, EndIsNear
  <2>5. ASSUME NEW k \in live PROVE End(phase, Min(S)) <= End(phase, record[k].left)
    <3>1. record[k].left \in Nat /\ Min(S) \in Nat /\ Min(S) <= record[k].left
      BY <1>4, <2>1, <2>2
    <3> HIDE DEF S
    <3> QED  BY <1>5, <3>1, EndIsLater
  <2>6. alarm' \in 0..Window + Bucket
    <3> HIDE DEF S
    <3> QED  BY <2>2, <2>3, <2>4
  <2> QED  BY <2>3, <2>5, <2>6
<1> HIDE DEF live, S
<1>7. ASSUME NEW k \in Keys
      PROVE  /\ record'[k] \in RecordType
             /\ Balanced(record'[k], recent'[k], Limit(k))
             /\ Watched(record'[k], alarm', phase', cleaning')
  <2>1. CASE k \in live
    <3>1. record'[k] = record[k] /\ recent'[k] = recent[k] /\ phase' = phase
      BY <1>1, <2>1
    <3>2. alarm' # NoAlarm /\ alarm' <= End(phase, record[k].left)
      BY <1>6, <2>1
    <3> QED  BY <3>1, <3>2, CurrentIs DEF Watched
  <2>2. CASE k \notin live
    <3>1. record'[k] = None /\ recent'[k] = recent[k]
      BY <1>1, <2>2
    <3>2. ~InUse(record[k])
      BY <1>2, <2>2
    <3>3. None \in RecordType /\ Balanced(None, recent[k], Limit(k))
      BY <3>2, CurrentIs, BalanceCleaned
    <3>4. Watched(None, alarm', phase', cleaning')
      BY DEF Watched, None
    <3> QED  BY <3>1, <3>3, <3>4
  <2> QED  BY <2>1, <2>2
<1>8. alarm' \in {NoAlarm} \union 0..Window + Bucket
  BY <1>1, <1>6
<1>9. RatesType'
  BY <1>1, <1>7, <1>8 DEF RatesInv, RatesType
<1>10. Ledger' /\ Alarmed'
  BY <1>7 DEF Ledger, Alarmed, Limit
<1> QED  BY <1>9, <1>10 DEF RatesInv

\* A tick brings nearer every deadline and the alarm, and what was counted
\* grows older with the record it was counted in.
LEMMA TickStep ==
  ASSUME RatesInv, Tick
  PROVE  RatesInv'
<1>0. /\ phase' = (phase + 1) % Bucket /\ cleaning' = cleaning
      /\ record' = [k \in Keys |-> [record[k] EXCEPT !.left = Less(@)]]
      /\ alarm' = IF alarm = NoAlarm THEN NoAlarm ELSE Less(alarm)
      /\ recent' = [k \in Keys |-> [t \in 0..Window - 1 |-> IF t = 0 THEN 0 ELSE recent[k][t - 1]]]
  BY DEF Tick
<1>1. phase \in 0..Bucket - 1 /\ alarm \in {NoAlarm} \union 0..Window + Bucket
  BY DEF RatesInv, RatesType
<1>2. phase' \in 0..Bucket - 1
  <2>1. 0 \in Nat /\ 0 >= 0 - 1
    OBVIOUS
  <2> QED  BY <1>0, <1>1, <2>1, EndTicks
<1>3. alarm' \in {NoAlarm} \union 0..Window + Bucket
  BY <1>0, <1>1 DEF Less
<1>4. ASSUME NEW k \in Keys
      PROVE  /\ record'[k] \in RecordType /\ recent'[k] \in Tally
             /\ Balanced(record'[k], recent'[k], Limit(k))
             /\ Watched(record'[k], alarm', phase', cleaning')
  <2> DEFINE r == record[k]
             n == [r EXCEPT !.left = Less(@)]
             g == [t \in 0..Window - 1 |-> IF t = 0 THEN 0 ELSE recent[k][t - 1]]
  <2>1. record'[k] = n /\ recent'[k] = g
    BY <1>0
  <2>2. r \in RecordType /\ recent[k] \in Tally /\ Limit(k) \in Nat
        /\ Balanced(r, recent[k], Limit(k)) /\ Watched(r, alarm, phase, cleaning)
    BY CurrentIs
  <2>3. n \in RecordType /\ g \in Tally /\ Balanced(n, g, Limit(k))
    BY <2>2, BalanceTicks
  <2>4. n.count = r.count /\ n.left = Less(r.left) /\ r.left \in Nat /\ r.count \in Nat
    BY <2>2 DEF RecordType
  <2> HIDE DEF g, n, r
  <2>5. Less(r.left) \in Nat /\ Less(r.left) >= r.left - 1
    BY <2>4 DEF Less
  <2>6. /\ End(phase, r.left) - 1 <= End(phase', Less(r.left))
        /\ End(phase, r.left) \in Nat /\ End(phase', Less(r.left)) \in Nat
    BY <1>0, <1>1, <1>2, <2>4, <2>5, EndTicks, EndIsNear
  <2>7. alarm # NoAlarm => alarm' # NoAlarm /\ alarm \in Nat
                            /\ alarm' = IF alarm > 0 THEN alarm - 1 ELSE 0
    BY <1>0, <1>1 DEF Less
  <2>8. Watched(n, alarm', phase', cleaning')
    <3>1. SUFFICES ASSUME n.count > 0, ~cleaning
                   PROVE  alarm' # NoAlarm /\ alarm' <= End(phase', n.left)
      BY <1>0 DEF Watched
    <3>2. alarm # NoAlarm /\ alarm <= End(phase, r.left)
      BY <2>2, <2>4, <3>1 DEF Watched
    <3>3. alarm' # NoAlarm /\ alarm \in Nat /\ alarm' = IF alarm > 0 THEN alarm - 1 ELSE 0
      BY <2>7, <3>2
    <3> QED  BY <2>4, <2>6, <3>2, <3>3
  <2> QED  BY <2>1, <2>3, <2>8
<1>5. RatesType'
  <2>1. record' \in [Keys -> RecordType] /\ recent' \in [Keys -> Tally]
    BY <1>0, <1>4
  <2>2. cleaning' \in BOOLEAN
    BY <1>0 DEF RatesInv, RatesType
  <2> QED  BY <1>2, <1>3, <2>1, <2>2 DEF RatesType
<1>6. Ledger' /\ Alarmed'
  BY <1>4 DEF Ledger, Alarmed, Limit
<1> QED  BY <1>5, <1>6 DEF RatesInv

\* What the invariant of the rate limits says of them.
LEMMA RatesAreSound ==
  ASSUME RatesInv
  PROVE  /\ record \in [Keys -> [count : Nat, left : 0..Window]]
         /\ alarm \in {NoAlarm} \union 0..Window + Bucket
         /\ LimitsInv /\ AlarmInv
<1>1. LimitsInv
  BY CurrentIs, BalanceMeans DEF LimitsInv
<1>2. AlarmInv
  BY DEF RatesInv, Alarmed, Watched, AlarmInv, BucketEnd, End
<1> QED  BY <1>1, <1>2 DEF RatesInv, RatesType, RecordType

LEMMA RatesStart ==
  ASSUME Init
  PROVE  RatesInv
<1>0. /\ record = [k \in Keys |-> None] /\ alarm = NoAlarm /\ cleaning = FALSE /\ phase = 0
      /\ recent = [k \in Keys |-> [t \in 0..Window - 1 |-> 0]]
  BY DEF Init, None
<1> DEFINE z == [t \in 0..Window - 1 |-> 0]
<1>1. z \in Tally /\ \A t \in Ages : z[t] = 0
  BY DEF Tally, Ages
<1>2. 0 \in Ages /\ Window - 1 \in Ages
  BY DEF Ages
<1> HIDE DEF z
<1>3. Sums(z)[Window - 1] = 0
  <2> DEFINE S == {t \in Ages : Sums(z)[t] = 0}
  <2>1. 0 \in S
    BY <1>1, <1>2, SumsIs
  <2>2. ASSUME NEW t \in S, t + 1 \in Ages PROVE t + 1 \in S
    <3>1. t + 1 > 0 /\ (t + 1) - 1 = t
      BY DEF Ages
    <3>2. Sums(z)[t + 1] = Sums(z)[t] + z[t + 1]
      BY <1>1, <2>2, <3>1, SumsIs
    <3> QED  BY <1>1, <2>2, <3>2
  <2>3. S = Ages
    <3> HIDE DEF S
    <3>1. S \in SUBSET Ages
      BY DEF S
    <3> QED  BY <2>1, <2>2, <3>1, AgeByAge
  <2> QED  BY <1>2, <2>3
<1>4. None \in RecordType /\ ~InUse(None) /\ None.count = 0
  BY DEF None, RecordType, InUse
<1>5. ASSUME NEW k \in Keys PROVE Balanced(None, z, Limit(k))
  <2>1. z[0] = 0 /\ Sums(z)[Window - 1] <= Limit(k)
    BY <1>1, <1>2, <1>3, LimitIs
  <2> QED  BY <1>4, <2>1 DEF Balanced
<1>6. RatesType
  <2>1. record \in [Keys -> RecordType] /\ recent \in [Keys -> Tally]
    BY <1>0, <1>1, <1>4 DEF z
  <2>2. alarm \in {NoAlarm} \union 0..Window + Bucket /\ phase \in 0..Bucket - 1
    BY <1>0
  <2>3. cleaning \in BOOLEAN
    BY <1>0
  <2> QED  BY <2>1, <2>2, <2>3 DEF RatesType
<1>7. Ledger
  BY <1>0, <1>5 DEF Ledger, z
<1>8. Alarmed
  BY <1>0, <1>4 DEF Alarmed, Watched
<1> QED  BY <1>6, <1>7, <1>8 DEF RatesInv

-----------------------------------------------------------------------------
(* The sockets: the places, and the requests that wait.                    *)

\* The limits hold of the set of registered sockets R.
Suffice(R) ==
  /\ Cardinality(R) <= MaxSockets
  /\ \A s \in R : IpOf[s] # NoIp => Cardinality({t \in R : IpOf[t] = IpOf[s]}) <= MaxPerIp

LEMMA SomeLeave ==
  ASSUME NEW R, IsFiniteSet(R), Suffice(R), NEW Q \in SUBSET R
  PROVE  IsFiniteSet(Q) /\ Suffice(Q)
<1>1. IsFiniteSet(Q) /\ Cardinality(Q) <= Cardinality(R)
  BY FS_Subset
<1>2. Cardinality(Q) <= MaxSockets
  BY <1>1, FS_CardinalityType DEF Suffice
<1>3. ASSUME NEW s \in Q, IpOf[s] # NoIp
      PROVE  Cardinality({t \in Q : IpOf[t] = IpOf[s]}) <= MaxPerIp
  <2> DEFINE A == {t \in Q : IpOf[t] = IpOf[s]}
             B == {t \in R : IpOf[t] = IpOf[s]}
  <2>1. A \in SUBSET B /\ B \in SUBSET R
    OBVIOUS
  <2>2. Cardinality(B) <= MaxPerIp
    BY <1>3 DEF Suffice
  <2> HIDE DEF A, B
  <2>3. IsFiniteSet(B) /\ IsFiniteSet(A) /\ Cardinality(A) <= Cardinality(B)
    BY <2>1, FS_Subset
  <2>4. Cardinality(A) <= MaxPerIp
    BY <2>2, <2>3, FS_CardinalityType
  <2> QED  BY <2>4 DEF A
<1> QED  BY <1>1, <1>2, <1>3 DEF Suffice

LEMMA CardinalityOfOneMore ==
  ASSUME NEW R, IsFiniteSet(R), NEW s
  PROVE  /\ IsFiniteSet(R \union {s}) /\ Cardinality(R) \in Nat
         /\ Cardinality(R \union {s}) <= Cardinality(R) + 1
<1>1. Cardinality(R) \in Nat
  BY FS_CardinalityType
<1>2. /\ IsFiniteSet(R \union {s})
      /\ Cardinality(R \union {s}) = IF s \in R THEN Cardinality(R) ELSE Cardinality(R) + 1
  BY FS_AddElement
<1> QED  BY <1>1, <1>2

\* attachSocket asks first: there is a place for one more.
LEMMA OneComes ==
  ASSUME NEW R, IsFiniteSet(R), Suffice(R), NEW s, Cardinality(R) < MaxSockets,
         IpOf[s] # NoIp => Cardinality({t \in R : IpOf[t] = IpOf[s]}) < MaxPerIp
  PROVE  IsFiniteSet(R \union {s}) /\ Suffice(R \union {s})
<1> DEFINE Q == R \union {s}
<1>1. IsFiniteSet(Q) /\ Cardinality(Q) <= Cardinality(R) + 1 /\ Cardinality(R) \in Nat
  BY CardinalityOfOneMore
<1>2. Cardinality(Q) <= MaxSockets
  <2>1. Cardinality(Q) \in Nat
    BY <1>1, FS_CardinalityType
  <2> HIDE DEF Q
  <2> QED  BY <1>1, <2>1
<1>3. ASSUME NEW u \in Q, IpOf[u] # NoIp
      PROVE  Cardinality({t \in Q : IpOf[t] = IpOf[u]}) <= MaxPerIp
  <2> DEFINE A == {t \in Q : IpOf[t] = IpOf[u]}
             B == {t \in R : IpOf[t] = IpOf[u]}
  <2>1. IsFiniteSet(B) /\ Cardinality(B) \in Nat
    <3>1. B \in SUBSET R
      OBVIOUS
    <3> HIDE DEF B
    <3> QED  BY <3>1, FS_Subset, FS_CardinalityType
  <2>2. CASE IpOf[u] = IpOf[s]
    <3>1. A = B \union {s}
      BY <2>2
    <3>2. Cardinality(B) < MaxPerIp
      BY <1>3, <2>2
    <3> HIDE DEF A, B
    <3>3. IsFiniteSet(A) /\ Cardinality(A) <= Cardinality(B) + 1
      BY <2>1, <3>1, CardinalityOfOneMore
    <3>5. Cardinality(A) \in Nat
      BY <3>3, FS_CardinalityType
    <3>4. Cardinality(A) <= MaxPerIp
      BY <2>1, <3>2, <3>3, <3>5
    <3> QED  BY <3>4 DEF A
  <2>3. CASE IpOf[u] # IpOf[s]
    <3>1. A = B
      BY <2>3
    <3>2. u \in R
      BY <2>3
    <3>3. Cardinality(B) <= MaxPerIp
      BY <1>3, <3>2 DEF Suffice
    <3> QED  BY <3>1, <3>3
  <2> QED  BY <2>2, <2>3
<1> QED  BY <1>1, <1>2, <1>3 DEF Suffice

Event == [socket : Sockets, kind : Kinds \union {"close"}]

\* Where the requests of a socket stand in a chain of events.
Waiting(q, s) == {i \in 1..Len(q) : q[i].socket = s /\ q[i].kind = "request"}
IsRequest(e, s) == e.socket = s /\ e.kind = "request"

LEMMA WaitingIsFinite ==
  ASSUME NEW q \in Seq(Event), NEW s
  PROVE  IsFiniteSet(Waiting(q, s)) /\ Cardinality(Waiting(q, s)) \in Nat
<1>1. Len(q) \in Nat
  BY LenProperties
<1>2. IsFiniteSet(1..Len(q))
  BY <1>1, FS_Interval
<1>3. Waiting(q, s) \in SUBSET (1..Len(q))
  BY DEF Waiting
<1> QED  BY <1>2, <1>3, FS_Subset, FS_CardinalityType

LEMMA WaitingAfterAppend ==
  ASSUME NEW q \in Seq(Event), NEW e \in Event, NEW s
  PROVE  Cardinality(Waiting(Append(q, e), s)) =
           Cardinality(Waiting(q, s)) + (IF IsRequest(e, s) THEN 1 ELSE 0)
<1> DEFINE p == Append(q, e)
           n == Len(q) + 1
<1>1. /\ Len(q) \in Nat /\ Len(p) = n /\ p[n] = e
      /\ \A i \in 1..Len(q) : p[i] = q[i]
  BY AppendProperties, LenProperties
<1> HIDE DEF p
<1>2. \A i \in 1..Len(p) : i = n \/ i \in 1..Len(q)
  BY <1>1
<1>3. n \in 1..Len(p) /\ n \notin 1..Len(q) /\ 1..Len(q) \subseteq 1..Len(p)
  BY <1>1
<1> HIDE DEF n
<1>4. Waiting(p, s) = Waiting(q, s) \union (IF IsRequest(e, s) THEN {n} ELSE {})
  BY <1>1, <1>2, <1>3 DEF Waiting, IsRequest
<1>5. n \notin Waiting(q, s)
  BY <1>3 DEF Waiting
<1>6. IsFiniteSet(Waiting(q, s)) /\ Cardinality(Waiting(q, s)) \in Nat
  BY WaitingIsFinite
<1>7. CASE IsRequest(e, s)
  <2>1. Waiting(p, s) = Waiting(q, s) \union {n}
    BY <1>4, <1>7
  <2>2. Cardinality(Waiting(p, s)) = Cardinality(Waiting(q, s)) + 1
    BY <1>5, <1>6, <2>1, FS_AddElement
  <2> QED  BY <1>7, <2>2 DEF p
<1>8. CASE ~IsRequest(e, s)
  <2>1. Waiting(p, s) = Waiting(q, s)
    BY <1>4, <1>8
  <2> QED  BY <1>6, <1>8, <2>1 DEF p
<1> QED  BY <1>7, <1>8

LEMMA WaitingAfterTail ==
  ASSUME NEW q \in Seq(Event), q # <<>>, NEW s
  PROVE  Cardinality(Waiting(q, s)) =
           Cardinality(Waiting(Tail(q), s)) + (IF IsRequest(Head(q), s) THEN 1 ELSE 0)
<1> DEFINE p == Tail(q)
           W == Waiting(q, s)
           V == Waiting(p, s)
           f == [i \in V |-> i + 1]
<1>1. /\ Len(q) \in Nat \ {0} /\ Len(p) = Len(q) - 1 /\ p \in Seq(Event) /\ Head(q) = q[1]
      /\ \A i \in 1..Len(p) : p[i] = q[i + 1]
  BY HeadTailProperties, EmptySeq
<1> HIDE DEF p
<1>2. /\ \A i \in V : i \in Nat /\ i + 1 \in W \ {1}
      /\ \A i \in W \ {1} : i \in Nat /\ i - 1 \in V /\ (i - 1) + 1 = i
  <2>1. ASSUME NEW i \in V PROVE i \in Nat /\ i + 1 \in W \ {1}
    <3>1. i \in 1..Len(p) /\ i \in Nat /\ i + 1 \in 1..Len(q) /\ i + 1 # 1
      BY <1>1 DEF Waiting
    <3>2. p[i] = q[i + 1] /\ p[i].socket = s /\ p[i].kind = "request"
      BY <1>1, <3>1 DEF Waiting
    <3> QED  BY <3>1, <3>2 DEF Waiting
  <2>2. ASSUME NEW i \in W \ {1} PROVE i \in Nat /\ i - 1 \in V /\ (i - 1) + 1 = i
    <3>1. i \in 1..Len(q) /\ q[i].socket = s /\ q[i].kind = "request"
      BY DEF Waiting
    <3>2. i \in Nat /\ i - 1 \in 1..Len(p) /\ (i - 1) + 1 = i
      BY <1>1, <3>1
    <3>3. p[i - 1] = q[i]
      BY <1>1, <3>2
    <3> QED  BY <3>1, <3>2, <3>3 DEF Waiting
  <2> QED  BY <2>1, <2>2
<1>3. 1 \in W <=> IsRequest(Head(q), s)
  BY <1>1 DEF Waiting, IsRequest
<1>4. /\ IsFiniteSet(W) /\ IsFiniteSet(V) /\ Cardinality(W) \in Nat /\ Cardinality(V) \in Nat
  BY <1>1, WaitingIsFinite
<1> HIDE DEF W, V
<1>5. f \in Bijection(V, W \ {1})
  <2>1. f \in [V -> W \ {1}]
    BY <1>2
  <2>2. \A i, j \in V : f[i] = f[j] => i = j
    BY <1>2
  <2>3. \A i \in W \ {1} : \E j \in V : f[j] = i
    BY <1>2
  <2> HIDE DEF f
  <2> QED  BY <2>1, <2>2, <2>3, Fun_IsBij
<1>6. Cardinality(W \ {1}) = Cardinality(V)
  <2>1. ExistsBijection(V, W \ {1})
    BY <1>5 DEF ExistsBijection
  <2> QED  BY <1>4, <2>1, FS_Bijection
<1>7. Cardinality(W \ {1}) = IF 1 \in W THEN Cardinality(W) - 1 ELSE Cardinality(W)
  BY <1>4, FS_RemoveElement
<1>8. Cardinality(W) = Cardinality(V) + (IF IsRequest(Head(q), s) THEN 1 ELSE 0)
  BY <1>3, <1>4, <1>6, <1>7
<1> QED  BY <1>8 DEF W, V, p

-----------------------------------------------------------------------------
(* The sockets: inductive invariant.                                       *)

SocketsType ==
  /\ ready \in [Sockets -> {"new", "open", "closing", "closed"}]
  /\ registered \subseteq Sockets /\ IsFiniteSet(registered)
  /\ chain \in Seq(Event)
  /\ sent \in [Sockets -> Nat] /\ owed \in [Sockets -> Nat] /\ failed \subseteq Sockets
  /\ \A s \in Sockets : sent[s] <= MaxSent[s]

\* Who is open is registered, unless a send to it has failed; who is new has
\* done nothing yet; events come
\* from those who were let in, a close event from one that is gone.
Known ==
  \A s \in Sockets :
    /\ ready[s] = "open" => s \in registered \union failed
    /\ ready[s] = "new" => s \notin registered /\ sent[s] = 0
Arrived ==
  \A i \in 1..Len(chain) :
    /\ ready[chain[i].socket] # "new"
    /\ chain[i].kind = "close" => ready[chain[i].socket] = "closed"

\* What is owed to a registered socket is what it still has in the chain.
InTurn ==
  \A s \in Sockets :
    /\ owed[s] <= sent[s]
    /\ s \in registered => owed[s] = Cardinality(Waiting(chain, s))

PracticeInv ==
  SocketsType /\ registered = armed /\ Known /\ Arrived /\ Suffice(registered) /\ InTurn

LEMMA EventIs ==
  ASSUME SocketsType, NEW i \in 1..Len(chain)
  PROVE  chain[i] \in Event /\ chain[i].socket \in Sockets
<1>1. chain[i] \in Event
  BY ElementOfSeq DEF SocketsType
<1> QED  BY <1>1 DEF Event

\* A ready state changes forward only: what is behind stays behind.
Onward ==
  \A s \in Sockets : /\ ready[s] # "new" => ready'[s] # "new"
                     /\ ready[s] = "closed" => ready'[s] = "closed"

LEMMA ArrivedStays ==
  ASSUME SocketsType, Arrived, Onward, chain' = chain
  PROVE  Arrived'
<1>1. ASSUME NEW i \in 1..Len(chain)
      PROVE  /\ ready'[chain[i].socket] # "new"
             /\ chain[i].kind = "close" => ready'[chain[i].socket] = "closed"
  BY EventIs DEF Arrived, Onward
<1> QED  BY <1>1 DEF Arrived

LEMMA ArrivedNext ==
  ASSUME SocketsType, Arrived, Onward, chain # <<>>, chain' = Tail(chain)
  PROVE  /\ Arrived' /\ chain' \in Seq(Event)
         /\ Head(chain) \in Event /\ Head(chain).socket \in Sockets
         /\ ready[Head(chain).socket] # "new"
         /\ Head(chain).kind = "close" => ready[Head(chain).socket] = "closed"
<1>1. /\ Len(chain) \in Nat \ {0} /\ Tail(chain) \in Seq(Event) /\ Head(chain) = chain[1]
      /\ Len(Tail(chain)) = Len(chain) - 1
      /\ \A i \in 1..Len(Tail(chain)) : Tail(chain)[i] = chain[i + 1]
  BY HeadTailProperties, EmptySeq DEF SocketsType
<1>2. ASSUME NEW i \in 1..Len(chain')
      PROVE  /\ ready'[chain'[i].socket] # "new"
             /\ chain'[i].kind = "close" => ready'[chain'[i].socket] = "closed"
  <2>1. i + 1 \in 1..Len(chain) /\ chain'[i] = chain[i + 1]
    BY <1>1
  <2> QED  BY <2>1, EventIs DEF Arrived, Onward
<1>3. 1 \in 1..Len(chain)
  BY <1>1
<1> QED  BY <1>1, <1>2, <1>3, EventIs DEF Arrived

LEMMA ArrivedLast ==
  ASSUME SocketsType, Arrived, Onward, NEW e \in Event, chain' = Append(chain, e),
         ready'[e.socket] # "new", e.kind = "close" => ready'[e.socket] = "closed"
  PROVE  Arrived' /\ chain' \in Seq(Event)
<1>1. /\ Len(chain) \in Nat /\ chain' \in Seq(Event) /\ Len(chain') = Len(chain) + 1
      /\ chain'[Len(chain) + 1] = e
      /\ \A i \in 1..Len(chain) : chain'[i] = chain[i]
  BY AppendProperties, LenProperties DEF SocketsType
<1>2. ASSUME NEW i \in 1..Len(chain')
      PROVE  /\ ready'[chain'[i].socket] # "new"
             /\ chain'[i].kind = "close" => ready'[chain'[i].socket] = "closed"
  <2>1. CASE i \in 1..Len(chain)
    <3>1. chain'[i] = chain[i]
      BY <1>1, <2>1
    <3> QED  BY <2>1, <3>1, EventIs DEF Arrived, Onward
  <2>2. CASE i = Len(chain) + 1
    BY <1>1, <2>2
  <2>3. i \in 1..Len(chain) \/ i = Len(chain) + 1
    BY <1>1
  <2> QED  BY <2>1, <2>2, <2>3
<1> QED  BY <1>1, <1>2 DEF Arrived

\* A socket that is dropped frees its place, and nothing is owed to it.
LEMMA DropKeeps ==
  ASSUME PracticeInv, NEW s \in Sockets, Detach(s), Onward,
         ready' \in [Sockets -> {"new", "open", "closing", "closed"}],
         failed \subseteq failed', failed' \subseteq Sockets,
         ready'[s] = "open" => s \in failed',
         \A t \in Sockets \ {s} : ready'[t] = ready[t],
         chain' \in Seq(Event), Arrived', sent' = sent,
         ready'[s] = "new" => ready[s] = "new",
         \A t \in Sockets \ {s} :
           Cardinality(Waiting(chain', t)) = Cardinality(Waiting(chain, t))
  PROVE  PracticeInv'
<1>1. /\ registered' = registered \ {s} /\ armed' = armed \ {s}
      /\ owed' = [owed EXCEPT ![s] = 0]
  BY DEF Detach
<1>2. registered' \in SUBSET registered
  BY <1>1
<1>3. IsFiniteSet(registered') /\ Suffice(registered')
  BY <1>2, SomeLeave DEF PracticeInv, SocketsType
<1>4. SocketsType'
  BY <1>1, <1>2, <1>3 DEF PracticeInv, SocketsType
<1>5. Known'
  BY <1>1 DEF PracticeInv, Known
<1>6. InTurn'
  <2>1. ASSUME NEW t \in Sockets
        PROVE  /\ owed'[t] <= sent'[t]
               /\ t \in registered' => owed'[t] = Cardinality(Waiting(chain', t))
    <3>1. CASE t = s
      <4>1. owed'[t] = 0 /\ t \notin registered' /\ sent'[t] \in Nat
        BY <1>1, <3>1 DEF PracticeInv, SocketsType
      <4> QED  BY <4>1
    <3>2. CASE t # s
      <4>1. owed'[t] = owed[t] /\ (t \in registered' <=> t \in registered) /\ sent'[t] = sent[t]
        BY <1>1, <3>2 DEF PracticeInv, SocketsType
      <4>2. Cardinality(Waiting(chain', t)) = Cardinality(Waiting(chain, t))
        BY <3>2
      <4> QED  BY <4>1, <4>2 DEF PracticeInv, InTurn
    <3> QED  BY <3>1, <3>2
  <2> QED  BY <2>1 DEF InTurn
<1> QED  BY <1>1, <1>3, <1>4, <1>5, <1>6 DEF PracticeInv

\* attachSocket
LEMMA AttachStep ==
  ASSUME PracticeInv, NEW s \in Sockets, AttachSocket(s)
  PROVE  PracticeInv'
<1>0. ready[s] = "new" /\ UNCHANGED <<chain, sent, owed, failed>>
  BY DEF AttachSocket
<1>1. SocketsType /\ Known /\ Arrived /\ InTurn /\ Suffice(registered) /\ registered = armed
  BY DEF PracticeInv
<1>2. s \notin registered /\ sent[s] = 0
  BY <1>0, <1>1 DEF Known
<1>3. CASE Full(s)
  <2>1. /\ ready' = [ready EXCEPT ![s] = "closing"]
        /\ UNCHANGED <<registered, armed>>
    BY <1>3 DEF AttachSocket
  <2>2. Onward
    BY <1>0, <1>1, <2>1 DEF Onward, SocketsType
  <2>3. Arrived'
    BY <1>0, <1>1, <2>2, ArrivedStays
  <2>4. SocketsType' /\ Known' /\ InTurn'
    BY <1>0, <1>1, <2>1 DEF SocketsType, Known, InTurn
  <2> QED  BY <1>1, <2>1, <2>3, <2>4 DEF PracticeInv
<1>4. CASE ~Full(s)
  <2>1. /\ ready' = [ready EXCEPT ![s] = "open"]
        /\ registered' = registered \union {s} /\ armed' = armed \union {s}
    BY <1>4 DEF AttachSocket
  <2>2. Onward
    BY <1>0, <1>1, <2>1 DEF Onward, SocketsType
  <2>3. Arrived'
    BY <1>0, <1>1, <2>2, ArrivedStays
  <2>4. IsFiniteSet(registered') /\ Suffice(registered')
    <3> DEFINE near == {t \in registered : IpOf[t] = IpOf[s]}
    <3>1. IsFiniteSet(registered) /\ Cardinality(registered) \in Nat
      BY <1>1, FS_CardinalityType DEF SocketsType
    <3>2. near \in SUBSET registered
      OBVIOUS
    <3>3. /\ ~(Cardinality(registered) >= MaxSockets)
          /\ IpOf[s] # NoIp => ~(Cardinality(near) >= MaxPerIp)
      BY <1>4 DEF Full
    <3> HIDE DEF near
    <3>4. Cardinality(near) \in Nat
      BY <3>1, <3>2, FS_Subset, FS_CardinalityType
    <3>5. Cardinality(registered) < MaxSockets /\ (IpOf[s] # NoIp => Cardinality(near) < MaxPerIp)
      BY <3>1, <3>3, <3>4
    <3> QED  BY <1>1, <2>1, <3>1, <3>5, OneComes DEF near
  <2>5. SocketsType' /\ Known'
    BY <1>0, <1>1, <2>1, <2>4 DEF SocketsType, Known
  <2>6. InTurn'
    <3>1. Cardinality(Waiting(chain, s)) = 0 /\ owed[s] = 0
      <4>1. ASSUME NEW i \in Waiting(chain, s) PROVE FALSE
        BY <1>0, <1>1 DEF Waiting, Arrived
      <4>2. Waiting(chain, s) = {}
        BY <4>1
      <4>3. owed[s] <= sent[s] /\ owed[s] \in Nat
        BY <1>1 DEF InTurn, SocketsType
      <4> QED  BY <1>2, <4>2, <4>3, FS_EmptySet
    <3>2. \A t \in Sockets \ {s} : t \in registered' <=> t \in registered
      BY <2>1
    <3> QED  BY <1>0, <1>1, <2>1, <3>1, <3>2 DEF InTurn
  <2>7. registered' = armed'
    BY <1>1, <2>1
  <2> QED  BY <2>3, <2>4, <2>5, <2>6, <2>7 DEF PracticeInv
<1> QED  BY <1>3, <1>4

LEMMA SendStep ==
  ASSUME PracticeInv, NEW s \in Sockets, NEW kind \in Kinds, ClientSends(s, kind)
  PROVE  PracticeInv'
<1> DEFINE e == [socket |-> s, kind |-> kind]
<1>0. /\ ready[s] = "open" /\ sent[s] < MaxSent[s] /\ sent' = [sent EXCEPT ![s] = @ + 1]
      /\ owed' = IF kind = "request" THEN [owed EXCEPT ![s] = @ + 1] ELSE owed
      /\ chain' = Append(chain, e)
      /\ UNCHANGED <<ready, registered, armed, failed>>
  BY DEF ClientSends
<1>1. SocketsType /\ Known /\ Arrived /\ InTurn /\ Suffice(registered) /\ registered = armed
  BY DEF PracticeInv
<1>2. e \in Event /\ e.socket = s /\ e.kind = kind /\ kind # "close"
  BY DEF Event, Kinds
<1>3. Arrived' /\ chain' \in Seq(Event)
  <2>1. Onward
    BY <1>0 DEF Onward
  <2>2. ready'[e.socket] # "new" /\ e.kind # "close"
    BY <1>0, <1>2
  <2> HIDE DEF e
  <2> QED  BY <1>0, <1>1, <1>2, <2>1, <2>2, ArrivedLast
<1>5. /\ sent[s] \in Nat /\ owed[s] \in Nat /\ sent'[s] = sent[s] + 1
      /\ \A t \in Sockets \ {s} : sent'[t] = sent[t] /\ owed'[t] = owed[t]
      /\ owed'[s] = owed[s] + (IF kind = "request" THEN 1 ELSE 0)
  BY <1>0, <1>1 DEF SocketsType
<1>6. SocketsType'
  <2>1. sent' \in [Sockets -> Nat] /\ \A t \in Sockets : sent'[t] <= MaxSent[t]
    BY <1>0, <1>1, <1>5 DEF SocketsType
  <2>2. owed' \in [Sockets -> Nat]
    BY <1>0, <1>1 DEF SocketsType
  <2> QED  BY <1>0, <1>1, <1>3, <2>1, <2>2 DEF SocketsType
<1>7. Known'
  BY <1>0, <1>1, <1>5 DEF Known
<1>8. InTurn'
  <2>1. ASSUME NEW t \in Sockets
        PROVE  /\ owed'[t] <= sent'[t]
               /\ t \in registered' => owed'[t] = Cardinality(Waiting(chain', t))
    <3>0. chain \in Seq(Event) /\ Cardinality(Waiting(chain, t)) \in Nat
      BY <1>1, WaitingIsFinite DEF SocketsType
    <3>1. Cardinality(Waiting(chain', t)) =
            Cardinality(Waiting(chain, t)) + (IF IsRequest(e, t) THEN 1 ELSE 0)
      <4> HIDE DEF e
      <4> QED  BY <1>0, <1>2, <3>0, WaitingAfterAppend
    <3>2. /\ owed[t] <= sent[t]
          /\ t \in registered => owed[t] = Cardinality(Waiting(chain, t))
      BY <1>1 DEF InTurn
    <3>3. CASE t = s
      <4>1. IsRequest(e, t) <=> kind = "request"
        BY <1>2, <3>3 DEF IsRequest
      <4> DEFINE more == IF kind = "request" THEN 1 ELSE 0
      <4>4. more \in 0..1
        OBVIOUS
      <4>7. owed'[s] = owed[s] + more
        BY <1>5
      <4>8. sent'[s] = sent[s] + 1 /\ owed[s] \in Nat /\ sent[s] \in Nat
        BY <1>5
      <4>5. owed'[t] = owed[t] + more /\ sent'[t] = sent[t] + 1
            /\ owed[t] \in Nat /\ sent[t] \in Nat
        BY <3>3, <4>7, <4>8
      <4>6. Cardinality(Waiting(chain', t)) = Cardinality(Waiting(chain, t)) + more
        BY <3>1, <4>1
      <4> HIDE DEF more
      <4>2. owed'[t] <= sent'[t]
        BY <3>2, <4>4, <4>5
      <4>3. t \in registered => owed'[t] = Cardinality(Waiting(chain', t))
        BY <3>2, <4>5, <4>6
      <4> QED  BY <1>0, <4>2, <4>3
    <3>4. CASE t # s
      <4>1. ~IsRequest(e, t)
        BY <1>2, <3>4 DEF IsRequest
      <4>2. Cardinality(Waiting(chain', t)) = Cardinality(Waiting(chain, t))
        BY <3>0, <3>1, <4>1
      <4> QED  BY <1>0, <1>5, <3>2, <3>4, <4>2
    <3> QED  BY <3>3, <3>4
  <2> QED  BY <2>1 DEF InTurn
<1> QED  BY <1>0, <1>1, <1>3, <1>6, <1>7, <1>8 DEF PracticeInv

LEMMA CloseStep ==
  ASSUME PracticeInv, NEW s \in Sockets, ClientCloses(s)
  PROVE  PracticeInv'
<1> DEFINE e == [socket |-> s, kind |-> "close"]
<1>0. /\ ready[s] \in {"open", "closing"} /\ ready' = [ready EXCEPT ![s] = "closed"]
      /\ chain' = IF s \in registered \/ sent[s] > 0 THEN Append(chain, e) ELSE chain
      /\ UNCHANGED <<registered, armed, sent, owed, failed>>
  BY DEF ClientCloses
<1>1. SocketsType /\ Known /\ Arrived /\ InTurn /\ Suffice(registered) /\ registered = armed
  BY DEF PracticeInv
<1>2. e \in Event /\ e.socket = s /\ e.kind = "close"
  BY DEF Event
<1>3. Onward /\ ready'[s] = "closed" /\ \A t \in Sockets \ {s} : ready'[t] = ready[t]
  BY <1>0, <1>1 DEF Onward, SocketsType
<1>4. \/ chain' = Append(chain, e)
      \/ chain' = chain
  BY <1>0
<1> HIDE DEF e
<1>5. /\ Arrived' /\ chain' \in Seq(Event)
      /\ \A t \in Sockets : Cardinality(Waiting(chain', t)) = Cardinality(Waiting(chain, t))
  <2>1. CASE chain' = chain
    BY <1>1, <1>3, <2>1, ArrivedStays DEF SocketsType
  <2>2. CASE chain' = Append(chain, e)
    <3>1. Arrived' /\ chain' \in Seq(Event)
      BY <1>1, <1>2, <1>3, <2>2, ArrivedLast
    <3>2. ASSUME NEW t \in Sockets
          PROVE  Cardinality(Waiting(chain', t)) = Cardinality(Waiting(chain, t))
      <4>1. ~IsRequest(e, t)
        BY <1>2 DEF IsRequest
      <4>2. chain \in Seq(Event) /\ Cardinality(Waiting(chain, t)) \in Nat
        BY <1>1, WaitingIsFinite DEF SocketsType
      <4>3. Cardinality(Waiting(Append(chain, e), t)) =
              Cardinality(Waiting(chain, t)) + (IF IsRequest(e, t) THEN 1 ELSE 0)
        BY <1>2, <4>2, WaitingAfterAppend
      <4> QED  BY <2>2, <4>1, <4>2, <4>3
    <3> QED  BY <3>1, <3>2
  <2> QED  BY <1>4, <2>1, <2>2
<1>6. SocketsType'
  <2>1. ready' \in [Sockets -> {"new", "open", "closing", "closed"}]
    BY <1>0, <1>1 DEF SocketsType
  <2> QED  BY <1>0, <1>1, <1>5, <2>1 DEF SocketsType
<1>7. Known' /\ InTurn'
  BY <1>0, <1>1, <1>3, <1>5 DEF Known, InTurn
<1> QED  BY <1>0, <1>1, <1>5, <1>6, <1>7 DEF PracticeInv

\* The timer of scheduleSocketIdleTimeout frees the place.
LEMMA IdleStep ==
  ASSUME PracticeInv, NEW s \in Sockets, IdleTimeout(s)
  PROVE  PracticeInv'
<1>0. /\ Detach(s) /\ UNCHANGED <<chain, sent, failed>>
      /\ ready' = IF ready[s] = "open" THEN [ready EXCEPT ![s] = "closing"] ELSE ready
  BY DEF IdleTimeout
<1>1. SocketsType /\ Arrived
  BY DEF PracticeInv
<1>2. /\ Onward /\ ready'[s] # "open" /\ \A t \in Sockets \ {s} : ready'[t] = ready[t]
      /\ ready' \in [Sockets -> {"new", "open", "closing", "closed"}]
      /\ ready'[s] = "new" => ready[s] = "new"
  BY <1>0, <1>1 DEF SocketsType, Onward
<1>3. Arrived' /\ chain' \in Seq(Event)
  BY <1>0, <1>1, <1>2, ArrivedStays DEF SocketsType
<1>4. failed \subseteq failed' /\ failed' \subseteq Sockets
  BY <1>0, <1>1 DEF SocketsType
<1> QED  BY <1>0, <1>2, <1>3, <1>4, DropKeeps

\* One event of the chain, whatever its kind.
LEMMA EventStep ==
  ASSUME PracticeInv, HandleEvent
  PROVE  PracticeInv'
<1> DEFINE e == Head(chain)
           s == e.socket
           States == {"new", "open", "closing", "closed"}
<1>0. chain # <<>> /\ chain' = Tail(chain) /\ sent' = sent
  BY DEF HandleEvent
<1>1. /\ SocketsType /\ Known /\ Arrived /\ InTurn /\ Suffice(registered)
      /\ registered = armed /\ ready \in [Sockets -> States]
  BY DEF PracticeInv, SocketsType
<1>2. ASSUME Onward
      PROVE  /\ Arrived' /\ chain' \in Seq(Event)
             /\ e \in Event /\ s \in Sockets /\ ready[s] # "new"
             /\ e.kind = "close" => ready[s] = "closed"
  BY <1>0, <1>1, <1>2, ArrivedNext
<1>3. e \in Event /\ s \in Sockets /\ ready[s] # "new" /\ (e.kind = "close" => ready[s] = "closed")
  <2>1. Head(chain) \in Event /\ Head(chain) = chain[1] /\ 1 \in 1..Len(chain)
    BY <1>0, <1>1, HeadTailProperties, EmptySeq DEF SocketsType
  <2> QED  BY <1>1, <2>1, EventIs DEF Arrived
<1>4. ready[s] = "open" => s \in registered \union failed
  BY <1>1, <1>3 DEF Known
<1>5. ASSUME NEW t \in Sockets
      PROVE  /\ Cardinality(Waiting(chain, t)) =
                  Cardinality(Waiting(chain', t)) + (IF IsRequest(e, t) THEN 1 ELSE 0)
             /\ Cardinality(Waiting(chain, t)) \in Nat /\ Cardinality(Waiting(chain', t)) \in Nat
             /\ ~IsRequest(e, t) =>
                  Cardinality(Waiting(chain', t)) = Cardinality(Waiting(chain, t))
  <2>1. chain \in Seq(Event) /\ Tail(chain) \in Seq(Event)
    BY <1>0, <1>1, HeadTailProperties DEF SocketsType
  <2>2. Cardinality(Waiting(chain, t)) \in Nat /\ Cardinality(Waiting(chain', t)) \in Nat
    BY <1>0, <2>1, WaitingIsFinite
  <2>3. Cardinality(Waiting(chain, t)) =
          Cardinality(Waiting(chain', t)) + (IF IsRequest(e, t) THEN 1 ELSE 0)
    BY <1>0, <2>1, WaitingAfterTail
  <2> QED  BY <2>2, <2>3
<1>6. \A t \in Sockets \ {s} : Cardinality(Waiting(chain', t)) = Cardinality(Waiting(chain, t))
  BY <1>5 DEF IsRequest
<1> DEFINE dropped ==
             /\ Detach(s) /\ failed' \in {failed, failed \union {s}}
             /\ \/ ready' = ready
                \/ ready' = [ready EXCEPT ![s] = "closing"] /\ ready[s] = "open"
             /\ ready'[s] = "open" => s \in failed'
           answered ==
             /\ e.kind = "request" /\ s \in registered /\ ready[s] = "open"
             /\ owed' = [owed EXCEPT ![s] = @ - 1] /\ armed' = armed \union {s}
             /\ UNCHANGED <<ready, registered, failed>>
<1>7. CASE dropped
  <2> HIDE DEF s
  <2>1. /\ Detach(s) /\ (ready'[s] = "open" => s \in failed')
        /\ failed \subseteq failed' /\ failed' \subseteq Sockets
    BY <1>1, <1>3, <1>7 DEF SocketsType
  <2>2. /\ Onward /\ ready' \in [Sockets -> States]
        /\ \A t \in Sockets \ {s} : ready'[t] = ready[t]
        /\ ready'[s] = "new" => ready[s] = "new"
    BY <1>1, <1>3, <1>7 DEF Onward
  <2>3. Arrived' /\ chain' \in Seq(Event)
    BY <1>2, <2>2
  <2> QED  BY <1>0, <1>3, <1>6, <2>1, <2>2, <2>3, DropKeeps
<1>8. CASE e.kind = "binary"
  <2>1. /\ armed' = IF s \in registered THEN armed \union {s} ELSE armed
        /\ UNCHANGED <<ready, registered, owed, failed>>
    BY <1>8 DEF HandleEvent
  <2>2. Onward
    BY <2>1 DEF Onward
  <2>3. armed' = registered'
    BY <1>1, <2>1
  <2>4. \A t \in Sockets : Cardinality(Waiting(chain', t)) = Cardinality(Waiting(chain, t))
    BY <1>5, <1>8 DEF IsRequest
  <2>5. SocketsType' /\ Known' /\ InTurn' /\ Suffice(registered')
    BY <1>0, <1>1, <1>2, <2>1, <2>2, <2>4 DEF SocketsType, Known, InTurn
  <2> QED  BY <1>2, <2>2, <2>3, <2>5 DEF PracticeInv
<1>9. CASE answered
  <2>1. /\ owed' = [owed EXCEPT ![s] = @ - 1] /\ armed' = armed \union {s}
        /\ UNCHANGED <<ready, registered, failed>>
    BY <1>9
  <2>2. Onward
    BY <2>1 DEF Onward
  <2>3. armed' = registered'
    BY <1>1, <1>9, <2>1
  <2>4. /\ owed[s] \in Nat /\ sent[s] \in Nat /\ owed[s] <= sent[s]
        /\ owed[s] = Cardinality(Waiting(chain, s))
    BY <1>1, <1>3, <1>9 DEF SocketsType, InTurn
  <2>5. IsRequest(e, s)
    BY <1>9 DEF IsRequest
  <2>6. /\ Cardinality(Waiting(chain', s)) \in Nat
        /\ owed[s] = Cardinality(Waiting(chain', s)) + 1
    BY <1>3, <1>5, <2>4, <2>5
  <2>7. /\ owed'[s] = owed[s] - 1 /\ owed' \in [Sockets -> Nat]
        /\ \A t \in Sockets \ {s} : owed'[t] = owed[t]
    <3> HIDE DEF s
    <3>1. owed[s] - 1 \in Nat
      BY <2>6
    <3> QED  BY <1>1, <1>3, <2>1, <3>1 DEF SocketsType
  <2> HIDE DEF s
  <2>8. SocketsType' /\ Known' /\ Suffice(registered')
    BY <1>0, <1>1, <1>2, <2>1, <2>2, <2>7 DEF SocketsType, Known
  <2>9. InTurn'
    <3>1. ASSUME NEW t \in Sockets
          PROVE  /\ owed'[t] <= sent'[t]
                 /\ t \in registered' => owed'[t] = Cardinality(Waiting(chain', t))
      <4>1. CASE t = s
        <5>1. owed'[s] <= sent'[s] /\ owed'[s] = Cardinality(Waiting(chain', s))
          BY <1>0, <2>4, <2>6, <2>7
        <5> QED  BY <1>9, <2>1, <4>1, <5>1
      <4>2. CASE t # s
        BY <1>0, <1>1, <1>6, <2>1, <2>7, <4>2 DEF InTurn
      <4> QED  BY <4>1, <4>2
    <3> QED  BY <3>1 DEF InTurn
  <2> QED  BY <1>2, <2>2, <2>3, <2>8, <2>9 DEF PracticeInv
<1>10. e.kind \in {"request", "binary", "oversized", "close"}
  BY <1>3 DEF Event, Kinds
<1>11. CASE e.kind = "close"
  <2>1. Detach(s) /\ UNCHANGED <<ready, failed>>
    BY <1>11 DEF HandleEvent
  <2> QED  BY <1>3, <1>7, <1>11, <2>1
<1>12. CASE e.kind = "oversized"
  <2>1. Oversized(s)
    BY <1>12 DEF HandleEvent
  <2>2. dropped
    <3> HIDE DEF s
    <3> QED  BY <1>1, <1>3, <1>4, <2>1 DEF Oversized
  <2> QED  BY <1>7, <2>2
<1>13. CASE e.kind = "request"
  <2>1. Reply(s)
    BY <1>13 DEF HandleEvent
  <2>2. dropped \/ answered
    <3> HIDE DEF s
    <3> QED  BY <1>4, <1>13, <2>1 DEF Reply
  <2> QED  BY <1>7, <1>9, <2>2
<1> QED  BY <1>8, <1>10, <1>11, <1>12, <1>13

-----------------------------------------------------------------------------
(* Both halves.                                                            *)

IInv == PracticeInv /\ RatesInv

LEMMA PracticeIsSound ==
  ASSUME PracticeInv
  PROVE  /\ ready \in [Sockets -> {"new", "open", "closing", "closed"}]
         /\ registered \subseteq Sockets /\ failed \subseteq Sockets
         /\ owed \in [Sockets -> Nat] /\ \A s \in Sockets : owed[s] <= MaxSent[s]
         /\ SocketsInv
<1>1. SocketsType /\ registered = armed /\ Known /\ Suffice(registered) /\ InTurn
  BY DEF PracticeInv
<1>2. \A s \in Sockets : owed[s] <= MaxSent[s]
  <2>1. ASSUME NEW s \in Sockets PROVE owed[s] <= MaxSent[s]
    <3>1. /\ owed[s] \in Nat /\ sent[s] \in Nat /\ MaxSent[s] \in Nat
          /\ owed[s] <= sent[s] /\ sent[s] <= MaxSent[s]
      BY <1>1 DEF SocketsType, InTurn
    <3> QED  BY <3>1
  <2> QED  BY <2>1
<1>4. ASSUME NEW s \in registered, owed[s] > 0
      PROVE  \E i \in DOMAIN chain : chain[i].socket = s /\ chain[i].kind = "request"
  <2>1. owed[s] = Cardinality(Waiting(chain, s))
    BY <1>1 DEF InTurn, SocketsType
  <2>2. Waiting(chain, s) # {}
    BY <1>4, <2>1, FS_EmptySet
  <2>3. DOMAIN chain = 1..Len(chain)
    BY <1>1, LenProperties DEF SocketsType
  <2> QED  BY <2>2, <2>3 DEF Waiting
<1>5. SocketsInv
  BY <1>1, <1>4 DEF SocketsInv, Known, Suffice
<1> QED  BY <1>1, <1>2, <1>5 DEF SocketsType

LEMMA InvMeansSound ==
  ASSUME IInv
  PROVE  GatewayInv
  BY PracticeIsSound, RatesAreSound DEF IInv, GatewayInv, TypeOK

LEMMA PracticeStart ==
  ASSUME Init
  PROVE  PracticeInv
<1>0. /\ ready = [s \in Sockets |-> "new"] /\ registered = {} /\ armed = {} /\ chain = <<>>
      /\ sent = [s \in Sockets |-> 0] /\ owed = [s \in Sockets |-> 0] /\ failed = {}
  BY DEF Init
<1>1. IsFiniteSet(registered) /\ Cardinality(registered) = 0
  BY <1>0, FS_EmptySet
<1>2. chain \in Seq(Event) /\ Len(chain) = 0
  BY <1>0, EmptySeq
<1>3. SocketsType
  BY <1>0, <1>1, <1>2 DEF SocketsType
<1>4. Known /\ Arrived
  BY <1>0, <1>2 DEF Known, Arrived
<1>5. Suffice(registered)
  BY <1>0, <1>1 DEF Suffice
<1>6. InTurn
  BY <1>0 DEF InTurn
<1> QED  BY <1>0, <1>3, <1>4, <1>5, <1>6 DEF PracticeInv

LEMMA StepKeepsInv ==
  ASSUME IInv, [Next]_vars
  PROVE  IInv'
<1>1. ASSUME SocketStep
      PROVE  IInv'
  <2>1. UNCHANGED <<record, alarm, cleaning, phase, recent>>
    BY <1>1 DEF SocketStep, limitVars
  <2>2. RatesInv'
    BY <2>1 DEF IInv, RatesInv, RatesType, Ledger, Alarmed, Limit
  <2>3. CASE \E s \in Sockets : \/ AttachSocket(s) \/ ClientCloses(s) \/ IdleTimeout(s)
                                \/ \E kind \in Kinds : ClientSends(s, kind)
    BY <2>2, <2>3, AttachStep, CloseStep, IdleStep, SendStep DEF IInv
  <2>4. CASE HandleEvent
    BY <2>2, <2>4, EventStep DEF IInv
  <2> QED  BY <1>1, <2>3, <2>4 DEF SocketStep
<1>2. ASSUME LimitStep
      PROVE  IInv'
  <2>1. UNCHANGED <<ready, registered, armed, chain, sent, owed, failed>>
    BY <1>2 DEF LimitStep, socketVars
  <2>2. PracticeInv'
    BY <2>1 DEF IInv, PracticeInv, SocketsType, Known, Arrived, InTurn
  <2>3. CASE \E a \in RoomActions, ip \in Ips, g \in Guests : CheckRoomRequest(a, ip, g)
    BY <2>2, <2>3, RequestStep DEF IInv
  <2>4. CASE AlarmFires \/ CleanupExpired \/ Tick
    BY <2>2, <2>4, FiringStep, CleanupStep, TickStep DEF IInv
  <2> QED  BY <1>2, <2>3, <2>4 DEF LimitStep
<1>3. ASSUME UNCHANGED vars
      PROVE  IInv'
  <2>1. UNCHANGED <<ready, registered, armed, chain, sent, owed, failed>>
        /\ UNCHANGED <<record, alarm, cleaning, phase, recent>>
    BY <1>3 DEF vars, socketVars, limitVars
  <2>2. RatesInv'
    BY <2>1 DEF IInv, RatesInv, RatesType, Ledger, Alarmed, Limit
  <2>3. PracticeInv'
    BY <2>1 DEF IInv, PracticeInv, SocketsType, Known, Arrived, InTurn
  <2> QED  BY <2>2, <2>3 DEF IInv
<1> QED  BY <1>1, <1>2, <1>3 DEF Next

\* The gateway is sound: the connections it knows stay within their limits,
\* each with a timer that will free its place and its requests in turn; an
\* open socket it does not know is one on which a send has thrown, which
\* sendMessage drops without closing it; nobody is refused a room who has not
\* used up the limit within the last window, a window lets through two
\* limits' worth at most, and no record is forgotten.
THEOREM GatewayIsSound == Spec => []GatewayInv
<1>1. Init => IInv
  BY PracticeStart, RatesStart DEF IInv
<1>2. IInv /\ [Next]_vars => IInv'
  BY StepKeepsInv
<1>3. IInv => GatewayInv
  BY InvMeansSound
<1> QED  BY <1>1, <1>2, <1>3, PTL DEF Spec

=============================================================================
