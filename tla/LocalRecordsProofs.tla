------------------------- MODULE LocalRecordsProofs -------------------------
(***************************************************************************)
(* Proofs about LocalRecords for every set of tabs, runs, cosmetics and    *)
(* prices, and every limit of attempts: LocalInv is inductive.  The        *)
(* progress that a tab may store over another's is sound because every     *)
(* progress is, not because it is the latest; the limit of a day rests on  *)
(* the tabs that may still add an attempt to it.  Coins are sums, so the   *)
(* first lemmas are about the fold that takes them.                        *)
(***************************************************************************)
EXTENDS LocalRecords, FiniteSetTheorems, WellFoundedInduction, TLAPS

-----------------------------------------------------------------------------
(* Induction over a set of naturals, so that it can be cited.              *)

\* A set of naturals with zero and all successors has them all.
LEMMA InductionOnNat ==
  ASSUME NEW S \in SUBSET Nat, 0 \in S, \A n \in S : n + 1 \in S
  PROVE  S = Nat
<1> DEFINE R == OpToRel(<, Nat)
           T == Nat \ S
<1>0. IsWellFoundedOn(R, Nat)
  BY NatLessThanWellFounded
<1>1. ASSUME T # {} PROVE FALSE
  <2>0. T \subseteq Nat
    OBVIOUS
  <2> HIDE DEF T
  <2>1. PICK x \in T : \A y \in T : ~(<<y, x>> \in R)
    BY <1>0, <1>1, <2>0, WFMin
  <2> USE DEF T
  <2>2. x \in Nat /\ x # 0
    OBVIOUS
  <2>3. x - 1 \in Nat /\ x - 1 \notin S
    BY <2>2
  <2>4. <<x - 1, x>> \in R
    BY <2>2, <2>3 DEF OpToRel
  <2> QED  BY <2>1, <2>3, <2>4
<1> QED  BY <1>1

-----------------------------------------------------------------------------
(* Sums over finite sets, as the fold of the library takes them.           *)

Chosen(s) == CHOOSE x \in s : TRUE

\* h[s] is the sum of f over s, for the s in P.
AddsUp(h, P, f) ==
  h = [s \in P |-> IF s = {} THEN 0 ELSE f[Chosen(s)] + h[s \ {Chosen(s)}]]

\* ... for all subsets of D.
SumsOf(h, D, f) == AddsUp(h, SUBSET D, f)

Weights(D) == [D -> Nat]

SmallSubsets(D, n) == {s \in SUBSET D : Cardinality(s) <= n}

LEMMA WithoutOne ==
  ASSUME NEW s, IsFiniteSet(s), s # {}, NEW x \in s
  PROVE  /\ IsFiniteSet(s \ {x}) /\ Cardinality(s) \in Nat
         /\ Cardinality(s \ {x}) \in Nat /\ Cardinality(s \ {x}) = Cardinality(s) - 1
<1>1. IsFiniteSet(s \ {x}) /\ Cardinality(s \ {x}) = Cardinality(s) - 1
  BY FS_RemoveElement
<1> QED  BY <1>1, FS_CardinalityType

LEMMA SumsExist ==
  ASSUME NEW D, IsFiniteSet(D), NEW f
  PROVE  \E h : SumsOf(h, D, f)
<1> DEFINE S == {n \in Nat : \E h : AddsUp(h, SmallSubsets(D, n), f)}
<1>0. \A s \in SUBSET D : IsFiniteSet(s) /\ Cardinality(s) \in Nat
                          /\ Cardinality(s) <= Cardinality(D)
  BY FS_Subset, FS_CardinalityType
<1>1. 0 \in S
  <2>1. \A s \in SmallSubsets(D, 0) : s = {}
    BY <1>0, FS_EmptySet DEF SmallSubsets
  <2> DEFINE h == [s \in SmallSubsets(D, 0) |-> 0]
  <2>2. AddsUp(h, SmallSubsets(D, 0), f)
    BY <2>1 DEF AddsUp
  <2> QED  BY <2>2
<1>2. ASSUME NEW n \in S PROVE n + 1 \in S
  <2>0. n \in Nat
    OBVIOUS
  <2>1. PICK h : AddsUp(h, SmallSubsets(D, n), f)
    OBVIOUS
  <2> DEFINE g == [s \in SmallSubsets(D, n + 1) |->
                     IF s = {} THEN 0 ELSE f[Chosen(s)] + h[s \ {Chosen(s)}]]
  <2>2. SmallSubsets(D, n) \subseteq SmallSubsets(D, n + 1)
    BY <1>0, <2>0 DEF SmallSubsets
  <2>3. ASSUME NEW s \in SmallSubsets(D, n) PROVE g[s] = h[s]
    BY <2>1, <2>2, <2>3 DEF AddsUp
  <2>4. ASSUME NEW s \in SmallSubsets(D, n + 1), s # {}
        PROVE  s \ {Chosen(s)} \in SmallSubsets(D, n)
    <3>1. s \in SUBSET D /\ Chosen(s) \in s /\ Cardinality(s) <= n + 1
      BY <2>4 DEF Chosen, SmallSubsets
    <3>2. IsFiniteSet(s)
      BY <1>0, <3>1
    <3>3. /\ Cardinality(s) \in Nat
          /\ Cardinality(s \ {Chosen(s)}) = Cardinality(s) - 1
      BY <2>4, <3>1, <3>2, WithoutOne
    <3> QED  BY <2>0, <3>1, <3>3 DEF SmallSubsets
  <2>5. \A s \in SmallSubsets(D, n + 1) :
          g[s] = IF s = {} THEN 0 ELSE f[Chosen(s)] + g[s \ {Chosen(s)}]
    BY <2>3, <2>4
  <2> HIDE DEF g
  <2>6. g = [s \in SmallSubsets(D, n + 1) |-> g[s]]
    BY DEF g
  <2>7. AddsUp(g, SmallSubsets(D, n + 1), f)
    BY <2>5, <2>6 DEF AddsUp
  <2> QED  BY <2>0, <2>7
<1>3. S = Nat
  <2> HIDE DEF S
  <2>1. S \in SUBSET Nat
    BY DEF S
  <2> QED  BY <1>1, <1>2, <2>1, InductionOnNat
<1>4. Cardinality(D) \in Nat
  BY FS_CardinalityType
<1>5. SmallSubsets(D, Cardinality(D)) = SUBSET D
  BY <1>0 DEF SmallSubsets
<1>6. Cardinality(D) \in S
  BY <1>3, <1>4
<1> QED  BY <1>5, <1>6 DEF SumsOf

\* Where two functions agree so do their sums.
Agree(D, f, g) == \A x \in D : f[x] = g[x]

LEMMA SameSums ==
  ASSUME NEW D, NEW E, NEW f, NEW g, NEW h, NEW k,
         SumsOf(h, D, f), SumsOf(k, E, g),
         IsFiniteSet(D), D \subseteq E, Agree(D, f, g)
  PROVE  h[D] = k[D]
<1> DEFINE S == {n \in Nat : \A s \in SUBSET D : Cardinality(s) = n => h[s] = k[s]}
<1>0. \A s \in SUBSET D : IsFiniteSet(s) /\ Cardinality(s) \in Nat
  BY FS_Subset, FS_CardinalityType
<1>1. ASSUME NEW s \in SUBSET D
      PROVE  /\ h[s] = IF s = {} THEN 0 ELSE f[Chosen(s)] + h[s \ {Chosen(s)}]
             /\ k[s] = IF s = {} THEN 0 ELSE g[Chosen(s)] + k[s \ {Chosen(s)}]
  BY <1>1 DEF AddsUp, SumsOf
<1>2. 0 \in S
  <2>1. ASSUME NEW s \in SUBSET D, Cardinality(s) = 0 PROVE h[s] = k[s]
    <3>1. s = {}
      BY <1>0, <2>1, FS_EmptySet
    <3> QED  BY <1>1, <3>1
  <2> QED  BY <2>1
<1>3. ASSUME NEW n \in S PROVE n + 1 \in S
  <2>0. n \in Nat
    OBVIOUS
  <2>1. ASSUME NEW s \in SUBSET D, Cardinality(s) = n + 1 PROVE h[s] = k[s]
    <3>1. s # {}
      BY <2>0, <2>1, FS_EmptySet
    <3>2. Chosen(s) \in s
      BY <3>1 DEF Chosen
    <3>3. Cardinality(s \ {Chosen(s)}) = n
      BY <1>0, <2>0, <2>1, <3>1, <3>2, WithoutOne
    <3>4. s \ {Chosen(s)} \in SUBSET D
      OBVIOUS
    <3>5. h[s \ {Chosen(s)}] = k[s \ {Chosen(s)}]
      BY <3>3, <3>4
    <3>6. f[Chosen(s)] = g[Chosen(s)]
      BY <3>2 DEF Agree
    <3> QED  BY <1>1, <3>1, <3>5, <3>6
  <2> QED  BY <2>0, <2>1
<1>4. S = Nat
  <2> HIDE DEF S
  <2>1. S \in SUBSET Nat
    BY DEF S
  <2> QED  BY <1>2, <1>3, <2>1, InductionOnNat
<1>5. Cardinality(D) \in S
  BY <1>0, <1>4
<1> QED  BY <1>5

\* A sum may be taken in any order.
LEMMA SumWithout ==
  ASSUME NEW D, NEW f \in Weights(D), NEW h, SumsOf(h, D, f),
         IsFiniteSet(D)
  PROVE  /\ h[D] \in Nat
         /\ \A x \in D : h[D \ {x}] \in Nat /\ h[D] = f[x] + h[D \ {x}]
<1> DEFINE OK(s) == h[s] \in Nat /\ \A x \in s : h[s] = f[x] + h[s \ {x}]
           S == {n \in Nat : \A s \in SUBSET D : Cardinality(s) = n => OK(s)}
           U == {n \in Nat : \A m \in 0..n : m \in S}
<1>0. \A s \in SUBSET D : IsFiniteSet(s) /\ Cardinality(s) \in Nat
  BY FS_Subset, FS_CardinalityType
<1>1. ASSUME NEW s \in SUBSET D
      PROVE  h[s] = IF s = {} THEN 0 ELSE f[Chosen(s)] + h[s \ {Chosen(s)}]
  BY <1>1 DEF AddsUp, SumsOf
<1>2. 0 \in S
  <2>1. ASSUME NEW s \in SUBSET D, Cardinality(s) = 0 PROVE OK(s)
    <3>1. s = {}
      BY <1>0, <2>1, FS_EmptySet
    <3>2. h[s] = 0
      BY <1>1, <3>1
    <3> QED  BY <3>1, <3>2
  <2> QED  BY <2>1
<1>3. ASSUME NEW n \in U PROVE n + 1 \in S
  <2>0. n \in Nat
    OBVIOUS
  <2>1. ASSUME NEW s \in SUBSET D, Cardinality(s) < n + 1 PROVE OK(s)
    <3>1. Cardinality(s) \in 0..n
      BY <1>0, <2>0, <2>1
    <3>2. Cardinality(s) \in S
      BY <3>1
    <3> QED  BY <3>2
  <2>2. ASSUME NEW s \in SUBSET D, Cardinality(s) = n + 1 PROVE OK(s)
    <3> DEFINE c == Chosen(s)
    <3>0. n \in Nat /\ IsFiniteSet(s) /\ Cardinality(s) = n + 1
      BY <1>0, <2>0, <2>2
    <3> HIDE DEF U, S, OK, c
    <3>1. s # {}
      BY <3>0, FS_EmptySet
    <3>2. c \in s /\ c \in D
      BY <3>1 DEF Chosen, c
    <3>3. \A x \in s : Cardinality(s \ {x}) = n /\ s \ {x} \in SUBSET D
      BY <3>0, <3>1, WithoutOne
    <3>4. h[s] = f[c] + h[s \ {c}]
      BY <1>1, <3>1 DEF c
    <3>5. \A x \in s : OK(s \ {x})
      <4>1. n < n + 1
        BY <3>0
      <4> QED  BY <2>1, <3>3, <4>1
    <3>6. \A x \in s : h[s \ {x}] \in Nat /\ f[x] \in Nat
      BY <3>5 DEF OK, Weights
    <3>7. ASSUME NEW x \in s PROVE h[s] = f[x] + h[s \ {x}]
      <4>1. CASE x = c
        BY <3>4, <4>1
      <4>2. CASE x # c
        <5>1. h[s \ {c}] = f[x] + h[(s \ {c}) \ {x}]
          BY <3>2, <3>5, <4>2 DEF OK
        <5>2. h[s \ {x}] = f[c] + h[(s \ {x}) \ {c}]
          BY <3>2, <3>5, <4>2 DEF OK
        <5>3. (s \ {x}) \ {c} = (s \ {c}) \ {x}
          OBVIOUS
        <5>4. h[(s \ {c}) \ {x}] \in Nat
          <6>1. (s \ {c}) \ {x} \in SUBSET D
            OBVIOUS
          <6>2. Cardinality((s \ {c}) \ {x}) < n + 1
            <7>1. x \in s \ {c} /\ IsFiniteSet(s \ {c}) /\ s \ {c} # {}
              BY <1>0, <3>2, <3>3, <4>2
            <7>2. Cardinality((s \ {c}) \ {x}) = Cardinality(s \ {c}) - 1
              BY <7>1, WithoutOne
            <7> QED  BY <3>0, <3>2, <3>3, <7>2
          <6> QED  BY <2>1, <6>1, <6>2 DEF OK
        <5>5. f[x] \in Nat /\ f[c] \in Nat
          BY <3>2, <3>6
        <5>6. h[s \ {x}] = f[c] + h[(s \ {c}) \ {x}]
          BY <5>2, <5>3
        <5> QED  BY <3>4, <5>1, <5>4, <5>5, <5>6
      <4> QED  BY <4>1, <4>2
    <3>8. h[s] \in Nat
      BY <3>2, <3>4, <3>6
    <3> QED  BY <3>7, <3>8 DEF OK
  <2> HIDE DEF OK
  <2> QED  BY <2>0, <2>2
<1>4. U = Nat
  <2>1. 0 \in U
    BY <1>2
  <2>2. ASSUME NEW n \in U PROVE n + 1 \in U
    <3>1. n \in Nat /\ n + 1 \in S
      BY <1>3
    <3> HIDE DEF S
    <3> QED  BY <3>1
  <2> HIDE DEF U
  <2>3. U \in SUBSET Nat
    BY DEF U
  <2> QED  BY <2>1, <2>2, <2>3, InductionOnNat
<1>5. ASSUME NEW s \in SUBSET D PROVE OK(s)
  <2>1. Cardinality(s) \in U
    BY <1>0, <1>4
  <2>2. Cardinality(s) \in S
    <3>1. Cardinality(s) \in 0..Cardinality(s)
      BY <1>0
    <3> HIDE DEF S
    <3> QED  BY <2>1, <3>1
  <2> HIDE DEF OK
  <2> QED  BY <2>2
<1>6. \A x \in D : D \ {x} \in SUBSET D
  OBVIOUS
<1> QED  BY <1>5, <1>6

-----------------------------------------------------------------------------
(* The invariant.                                                          *)

ProgressRecord ==
  [coins : Nat, owned : SUBSET Items, worn : Items \cup {NoItem},
   claimed : UNION {[keys -> Nat] : keys \in SUBSET Plays}]

SessionRecord ==
  [play : Plays \cup {NoPlay}, day : 1..Days, consumed : BOOLEAN, finished : BOOLEAN,
   lasted : BOOLEAN]

DailyRecord ==
  [attempts : Nat, best : 0..3, points : Nat, perfectAwarded : BOOLEAN,
   completionAwarded : BOOLEAN]

\* A progress that was earned.
Earned(p) ==
  /\ p \in ProgressRecord
  /\ IsFiniteSet(p.owned) /\ IsFiniteSet(DOMAIN p.claimed)
  /\ p.coins = StartCoins + Total(p.claimed) - Paid(p.owned)
  /\ p.worn \in p.owned \cup {NoItem}

ProgressInv == \A p \in Progresses : Earned(p)

DayType ==
  /\ today \in 1..Days /\ used \subseteq Plays
  /\ tabDay \in [Tabs -> 1..Days] /\ asked \in [Tabs -> Nat]
  /\ \A t \in Tabs : tabDay[t] <= today /\ asked[t] <= tabDay[t]
  /\ session \in [Tabs -> SessionRecord]
  /\ daily \in [1..Days -> DailyRecord]
  /\ played \in [1..Days -> Nat] /\ unchecked \in [1..Days -> Nat]

\* A daily run under way was asked for by nobody any more, and is consumed
\* once it has lasted.
RunsAreTrue ==
  \A t \in Tabs : IsRunning(t) /\ IsDaily(t) =>
                    asked[t] = 0 /\ session[t].consumed = session[t].lasted

PointsOf(record) == (IF record.completionAwarded THEN 1 ELSE 0)
                    + (IF record.perfectAwarded THEN 2 ELSE 0)

RecordsAreTrue ==
  \A d \in 1..Days : /\ daily[d].attempts = played[d]
                      /\ daily[d].points = PointsOf(daily[d])

\* The tabs that may still add an attempt to day d.
Pending(d) ==
  {t \in Tabs : \/ asked[t] = d
                \/ /\ IsRunning(t) /\ IsDaily(t)
                   /\ ~session[t].consumed /\ session[t].day = d}

\* There is an attempt left, or those who may still add one stay in the limit.
Limited(d) ==
  \/ daily[d].attempts < MaxAttempts
  \/ daily[d].attempts + Cardinality(Pending(d))
       < MaxAttempts + Cardinality(Tabs) + unchecked[d]

DayInv == DayType /\ RunsAreTrue /\ RecordsAreTrue /\ \A d \in 1..Days : Limited(d)

-----------------------------------------------------------------------------
(* The coins that were earned, and what cosmetics cost.                    *)

LEMMA TotalAddsUp ==
  ASSUME NEW f, IsFiniteSet(DOMAIN f)
  PROVE  \E h : SumsOf(h, DOMAIN f, f) /\ Total(f) = h[DOMAIN f]
<1> DEFINE h == CHOOSE h : SumsOf(h, DOMAIN f, f)
<1>1. SumsOf(h, DOMAIN f, f)
  BY SumsExist
<1>2. Total(f) = h[DOMAIN f]
  BY DEF Total, MapThenSumSet, MapThenFoldSet, SumsOf, AddsUp, Chosen
<1> QED  BY <1>1, <1>2

LEMMA PaidAddsUp ==
  ASSUME NEW owned, IsFiniteSet(owned)
  PROVE  \E h : SumsOf(h, owned, Price) /\ Paid(owned) = h[owned]
<1> DEFINE h == CHOOSE h : SumsOf(h, owned, Price)
<1>1. SumsOf(h, owned, Price)
  BY SumsExist
<1>2. Paid(owned) = h[owned]
  BY DEF Paid, MapThenSumSet, MapThenFoldSet, SumsOf, AddsUp, Chosen
<1> QED  BY <1>1, <1>2

\* One reward more.
LEMMA TotalOfClaim ==
  ASSUME NEW K, NEW f \in Weights(K), IsFiniteSet(K), NEW k, k \notin K, NEW v \in Nat
  PROVE  /\ Claim(f, k, v) \in Weights(K \cup {k}) /\ IsFiniteSet(K \cup {k})
         /\ Total(f) \in Nat
         /\ Total(Claim(f, k, v)) = Total(f) + v
<1> DEFINE g == Claim(f, k, v)
           L == K \cup {k}
<1>1. /\ DOMAIN f = K /\ g \in [L -> Nat] /\ DOMAIN g = L
      /\ g[k] = v /\ \A x \in K : g[x] = f[x]
  BY DEF Claim, Weights
<1>2. IsFiniteSet(L) /\ L \ {k} = K
  BY FS_AddElement
<1> HIDE DEF g, L
<1>3. PICK hf : SumsOf(hf, K, f) /\ Total(f) = hf[K]
  BY <1>1, TotalAddsUp
<1>4. PICK hg : SumsOf(hg, L, g) /\ Total(g) = hg[L]
  BY <1>1, <1>2, TotalAddsUp
<1>5. hf[K] = hg[K]
  <2>1. K \subseteq L
    BY DEF L
  <2>2. Agree(K, f, g)
    BY <1>1 DEF Agree
  <2>3. SumsOf(hf, K, f) /\ SumsOf(hg, L, g)
    BY <1>3, <1>4
  <2> QED  BY <2>1, <2>2, <2>3, SameSums
<1>6. hg[L] = g[k] + hg[K] /\ hg[K] \in Nat
  <2>1. \A x \in L : hg[L \ {x}] \in Nat /\ hg[L] = g[x] + hg[L \ {x}]
    <3>1. SumsOf(hg, L, g) /\ IsFiniteSet(L) /\ g \in Weights(L)
      BY <1>1, <1>2, <1>4 DEF Weights
    <3> QED  BY <3>1, SumWithout
  <2>2. k \in L
    BY DEF L
  <2> QED  BY <1>2, <2>1, <2>2
<1> QED  BY <1>1, <1>2, <1>3, <1>4, <1>5, <1>6 DEF g, L, Weights

\* One cosmetic more.
LEMMA PaidForOneMore ==
  ASSUME NEW owned \in SUBSET Items, IsFiniteSet(owned), NEW item \in Items \ owned
  PROVE  /\ IsFiniteSet(owned \cup {item}) /\ Paid(owned) \in Nat
         /\ Paid(owned \cup {item}) = Paid(owned) + Price[item]
<1> DEFINE L == owned \cup {item}
           price == [i \in L |-> Price[i]]
<1>1. IsFiniteSet(L) /\ L \ {item} = owned /\ L \subseteq Items
  BY FS_AddElement
<1>2. price \in [L -> Nat] /\ \A i \in L : price[i] = Price[i]
  BY <1>1, RecordsAssumption
<1> HIDE DEF L, price
<1>3. PICK h : SumsOf(h, owned, Price) /\ Paid(owned) = h[owned]
  BY PaidAddsUp
<1>4. PICK g : SumsOf(g, L, Price) /\ Paid(L) = g[L]
  BY <1>1, PaidAddsUp
<1>5. PICK k : SumsOf(k, L, price)
  BY <1>1, SumsExist
<1>6. item \in L /\ owned \in SUBSET L
  BY DEF L
<1>7. k[L] = g[L]
  <2>1. L \subseteq L /\ Agree(L, price, Price)
    BY <1>2 DEF Agree
  <2> QED  BY <1>1, <1>4, <1>5, <2>1, SameSums
<1>8. h[owned] = k[owned]
  <2>1. owned \subseteq L /\ Agree(owned, Price, price)
    BY <1>2, <1>6 DEF Agree
  <2> QED  BY <1>3, <1>5, <2>1, SameSums
<1>9. k[L] = price[item] + k[owned] /\ k[owned] \in Nat
  <2>1. \A x \in L : k[L \ {x}] \in Nat /\ k[L] = price[x] + k[L \ {x}]
    <3>1. SumsOf(k, L, price) /\ IsFiniteSet(L) /\ price \in Weights(L)
      BY <1>1, <1>2, <1>5 DEF Weights
    <3> QED  BY <3>1, SumWithout
  <2> QED  BY <1>1, <1>6, <2>1
<1>10. price[item] = Price[item] /\ Price[item] \in Nat
  BY <1>2, <1>6
<1> QED  BY <1>1, <1>3, <1>4, <1>7, <1>8, <1>9, <1>10 DEF L

LEMMA NothingAddsUp == Total([k \in {} |-> 0]) = 0 /\ Paid({}) = 0
<1>1. IsFiniteSet({}) /\ DOMAIN [k \in {} |-> 0] = {}
  BY FS_EmptySet
<1>2. PICK h : SumsOf(h, {}, [k \in {} |-> 0]) /\ Total([k \in {} |-> 0]) = h[{}]
  BY <1>1, TotalAddsUp
<1>3. PICK g : SumsOf(g, {}, Price) /\ Paid({}) = g[{}]
  BY <1>1, PaidAddsUp
<1> QED  BY <1>2, <1>3 DEF SumsOf, AddsUp

-----------------------------------------------------------------------------
(* Progress stays earned.                                                  *)

LEMMA PaidIsNat ==
  ASSUME NEW p, Earned(p)
  PROVE  Total(p.claimed) \in Nat /\ Paid(p.owned) \in Nat
<1>1. IsFiniteSet(p.owned) /\ p.owned \subseteq Items
  BY DEF Earned, ProgressRecord
<1>2. PICK K \in SUBSET Plays : p.claimed \in Weights(K)
  BY DEF Earned, ProgressRecord, Weights
<1>3. IsFiniteSet(K) /\ DOMAIN p.claimed = K
  BY <1>2 DEF Earned, Weights
<1>4. Total(p.claimed) \in Nat
  <2>1. PICK h : SumsOf(h, K, p.claimed) /\ Total(p.claimed) = h[K]
    BY <1>3, TotalAddsUp
  <2>2. h[K] \in Nat
    BY <1>2, <1>3, <2>1, SumWithout
  <2> QED  BY <2>1, <2>2
<1>5. Paid(p.owned) \in Nat
  <2> DEFINE price == [i \in p.owned |-> Price[i]]
             owned == p.owned
  <2>1. price \in Weights(owned) /\ \A i \in owned : price[i] = Price[i]
    BY <1>1, RecordsAssumption DEF Weights
  <2>2. IsFiniteSet(owned)
    BY <1>1
  <2> HIDE DEF price
  <2>3. PICK h : SumsOf(h, owned, Price) /\ Paid(owned) = h[owned]
    BY <2>2, PaidAddsUp
  <2>4. PICK g : SumsOf(g, owned, price)
    BY <2>2, SumsExist
  <2>5. h[owned] = g[owned]
    <3>1. owned \subseteq owned /\ Agree(owned, Price, price)
      BY <2>1 DEF Agree
    <3> QED  BY <2>2, <2>3, <2>4, <3>1, SameSums
  <2>6. g[owned] \in Nat
    BY <2>1, <2>2, <2>4, SumWithout
  <2> QED  BY <2>3, <2>5, <2>6
<1> QED  BY <1>4, <1>5

\* A reward is paid once for each key.
LEMMA AwardIsEarned ==
  ASSUME NEW p, Earned(p), NEW play \in Plays, NEW result \in Results
  PROVE  Earned(AwardStyleCoins(p, play, result))
<1> DEFINE total == CalculateStyleCoinReward(play, result)
           claimed == Claim(p.claimed, play, total)
           q == [p EXCEPT !.coins = @ + total, !.claimed = claimed]
<1>1. total \in Nat
  BY DEF CalculateStyleCoinReward
<1>2. AwardStyleCoins(p, play, result)
        = IF total = 0 \/ play \in DOMAIN p.claimed THEN p ELSE q
  BY DEF AwardStyleCoins
<1> HIDE DEF total
<1>3. ASSUME play \notin DOMAIN p.claimed PROVE Earned(q)
  <2>1. PICK K \in SUBSET Plays : p.claimed \in Weights(K)
    BY DEF Earned, ProgressRecord, Weights
  <2>2. DOMAIN p.claimed = K /\ IsFiniteSet(K) /\ play \notin K
    BY <1>3, <2>1 DEF Earned, Weights
  <2>3. /\ claimed \in Weights(K \cup {play}) /\ IsFiniteSet(K \cup {play})
        /\ Total(claimed) = Total(p.claimed) + total
    BY <1>1, <2>1, <2>2, TotalOfClaim
  <2>4. p.coins \in Nat /\ p \in ProgressRecord /\ p.coins + total \in Nat
    BY <1>1 DEF Earned, ProgressRecord
  <2> HIDE DEF claimed
  <2>5. DOMAIN claimed = K \cup {play} /\ K \cup {play} \in SUBSET Plays
    BY <2>3 DEF Weights
  <2>6. claimed \in UNION {[keys -> Nat] : keys \in SUBSET Plays}
    BY <2>3, <2>5 DEF Weights
  <2>7. q = [p EXCEPT !.coins = p.coins + total, !.claimed = claimed]
    OBVIOUS
  <2> HIDE DEF q
  <2>8. q \in ProgressRecord
    BY <2>4, <2>6, <2>7 DEF ProgressRecord
  <2>9. /\ q.coins = p.coins + total /\ q.claimed = claimed
        /\ q.owned = p.owned /\ q.worn = p.worn
    BY <2>4, <2>7 DEF ProgressRecord
  <2>10. q.coins = StartCoins + Total(q.claimed) - Paid(q.owned)
    <3>1. p.coins = StartCoins + Total(p.claimed) - Paid(p.owned)
      BY DEF Earned
    <3>2. Total(p.claimed) \in Nat /\ Paid(p.owned) \in Nat
      BY PaidIsNat
    <3> QED  BY <1>1, <2>3, <2>9, <3>1, <3>2, RecordsAssumption
  <2> QED  BY <2>3, <2>5, <2>8, <2>9, <2>10 DEF Earned
<1> HIDE DEF q
<1> QED  BY <1>2, <1>3

LEMMA PurchaseIsEarned ==
  ASSUME NEW p, Earned(p), NEW item \in Items, MayPurchase(p, item)
  PROVE  Earned(PurchaseCosmetic(p, item))
<1> DEFINE q == PurchaseCosmetic(p, item)
<1>1. /\ p \in ProgressRecord /\ p.coins \in Nat /\ Price[item] \in Nat
      /\ p.coins - Price[item] \in Nat
      /\ p.owned \in SUBSET Items /\ item \in Items \ p.owned /\ IsFiniteSet(p.owned)
  BY RecordsAssumption DEF Earned, ProgressRecord, MayPurchase
<1>2. /\ IsFiniteSet(p.owned \cup {item})
      /\ Paid(p.owned \cup {item}) = Paid(p.owned) + Price[item]
  BY <1>1, PaidForOneMore
<1>3. q = [p EXCEPT !.coins = p.coins - Price[item], !.owned = p.owned \cup {item}]
  BY DEF PurchaseCosmetic
<1> HIDE DEF q
<1>4. q \in ProgressRecord
  BY <1>1, <1>3 DEF ProgressRecord
<1>5. /\ q.coins = p.coins - Price[item] /\ q.owned = p.owned \cup {item}
      /\ q.claimed = p.claimed /\ q.worn = p.worn
  BY <1>1, <1>3 DEF ProgressRecord
<1>6. q.coins = StartCoins + Total(q.claimed) - Paid(q.owned)
  <2>1. p.coins = StartCoins + Total(p.claimed) - Paid(p.owned)
    BY DEF Earned
  <2>2. Total(p.claimed) \in Nat /\ Paid(p.owned) \in Nat
    BY PaidIsNat
  <2> QED  BY <1>1, <1>2, <1>5, <2>1, <2>2, RecordsAssumption
<1>7. q.worn \in q.owned \cup {NoItem} /\ IsFiniteSet(DOMAIN q.claimed)
  BY <1>5 DEF Earned
<1> QED  BY <1>2, <1>4, <1>5, <1>6, <1>7 DEF Earned, q

\* Other equipment, of what is owned.
LEMMA WornIsEarned ==
  ASSUME NEW p, Earned(p), NEW worn \in p.owned \cup {NoItem}
  PROVE  Earned([p EXCEPT !.worn = worn])
<1> DEFINE q == [p EXCEPT !.worn = worn]
<1>1. p \in ProgressRecord /\ worn \in Items \cup {NoItem}
  BY DEF Earned, ProgressRecord
<1>2. q \in ProgressRecord
  BY <1>1 DEF ProgressRecord
<1>3. q.coins = p.coins /\ q.owned = p.owned /\ q.claimed = p.claimed /\ q.worn = worn
  BY <1>1 DEF ProgressRecord
<1> HIDE DEF q
<1>4. Earned(q)
  BY <1>2, <1>3 DEF Earned
<1> QED  BY <1>4 DEF q

LEMMA KeepIsEarned ==
  ASSUME ProgressInv, progress \in [Tabs -> ProgressRecord], NEW t \in Tabs,
         NEW p, Earned(p), Keep(t, p)
  PROVE  ProgressInv' /\ progress' \in [Tabs -> ProgressRecord]
<1>1. \A u \in Tabs : progress'[u] = p \/ progress'[u] = progress[u]
  BY DEF Keep
<1>2. \A u \in Tabs : Earned(progress'[u])
  BY <1>1 DEF ProgressInv, Progresses
<1>3. Earned(stored')
  BY DEF Keep
<1>4. progress' \in [Tabs -> ProgressRecord]
  BY DEF Keep, Earned
<1> QED  BY <1>2, <1>3, <1>4 DEF ProgressInv, Progresses

\* The page is loaded again.
LEMMA ReloadIsEarned ==
  ASSUME ProgressInv, progress \in [Tabs -> ProgressRecord], NEW t \in Tabs, Reload(t)
  PROVE  ProgressInv' /\ progress' \in [Tabs -> ProgressRecord]
<1> DEFINE worn == IF stored.worn \in stored.owned THEN stored.worn ELSE NoItem
           p == [stored EXCEPT !.worn = worn]
<1>1. Earned(stored)
  BY DEF ProgressInv, Progresses
<1>2. Earned(p)
  <2>1. worn \in stored.owned \cup {NoItem}
    OBVIOUS
  <2> HIDE DEF worn
  <2> QED  BY <1>1, <2>1, WornIsEarned
<1>3. progress' = [progress EXCEPT ![t] = p] /\ stored' = stored
  BY DEF Reload
<1> HIDE DEF p
<1>4. \A u \in Tabs : progress'[u] = p \/ progress'[u] = progress[u]
  BY <1>3
<1>5. \A u \in Tabs : Earned(progress'[u])
  BY <1>2, <1>4 DEF ProgressInv, Progresses
<1>6. progress' \in [Tabs -> ProgressRecord]
  BY <1>2, <1>3 DEF Earned
<1> QED  BY <1>1, <1>3, <1>5, <1>6 DEF ProgressInv, Progresses

\* Every step keeps every progress an earned one.
LEMMA ProgressStep ==
  ASSUME ProgressInv, progress \in [Tabs -> ProgressRecord], DayType, [Next]_vars
  PROVE  ProgressInv' /\ progress' \in [Tabs -> ProgressRecord]
<1>1. ASSUME UNCHANGED <<stored, progress>>
      PROVE  ProgressInv' /\ progress' \in [Tabs -> ProgressRecord]
  BY <1>1 DEF ProgressInv, Progresses
<1>2. \A t \in Tabs : Earned(progress[t])
  BY DEF ProgressInv, Progresses
<1>3. ASSUME NEW t \in Tabs, NEW item \in Items, Purchase(t, item)
      PROVE  ProgressInv' /\ progress' \in [Tabs -> ProgressRecord]
  <2>1. /\ MayPurchase(progress[t], item)
        /\ Keep(t, PurchaseCosmetic(progress[t], item))
    BY <1>3 DEF Purchase
  <2>2. Earned(PurchaseCosmetic(progress[t], item))
    BY <1>2, <2>1, PurchaseIsEarned
  <2> QED  BY <2>1, <2>2, KeepIsEarned
<1>4. ASSUME NEW t \in Tabs, NEW item \in Items, Equip(t, item)
      PROVE  ProgressInv' /\ progress' \in [Tabs -> ProgressRecord]
  <2>1. /\ item \in progress[t].owned
        /\ Keep(t, EquipCosmetic(progress[t], item))
    BY <1>4 DEF Equip
  <2>2. Earned([progress[t] EXCEPT !.worn = item])
    BY <1>2, <2>1, WornIsEarned
  <2>3. Earned(EquipCosmetic(progress[t], item))
    BY <2>1, <2>2 DEF EquipCosmetic
  <2> QED  BY <2>1, <2>3, KeepIsEarned
<1>5. ASSUME NEW t \in Tabs, NEW m \in Matches, NEW result \in MatchResults,
             SeeMatchResult(t, m, result)
      PROVE  ProgressInv' /\ progress' \in [Tabs -> ProgressRecord]
  <2>1. Keep(t, AwardStyleCoins(progress[t], m, result))
    BY <1>5 DEF SeeMatchResult
  <2>2. m \in Plays /\ result \in Results
    BY RecordsAssumption DEF Plays
  <2>3. Earned(AwardStyleCoins(progress[t], m, result))
    BY <1>2, <2>2, AwardIsEarned
  <2> QED  BY <2>1, <2>3, KeepIsEarned
<1>6. ASSUME NEW t \in Tabs, NEW quality \in Qualities, FinishPractice(t, quality)
      PROVE  ProgressInv' /\ progress' \in [Tabs -> ProgressRecord]
  <2> DEFINE result == [completed |-> TRUE, won |-> FALSE, quality |-> quality]
             play == session[t].play
  <2>1. Keep(t, AwardStyleCoins(progress[t], play, result)) /\ play # NoPlay
    BY <1>6 DEF FinishPractice, IsRunning
  <2>2. result \in Results /\ play \in Plays
    BY <2>1 DEF Results, DayType, SessionRecord
  <2> HIDE DEF result, play
  <2>3. Earned(AwardStyleCoins(progress[t], play, result))
    BY <1>2, <2>2, AwardIsEarned
  <2> QED  BY <2>1, <2>3, KeepIsEarned
<1>7. ASSUME NEW t \in Tabs, Reload(t)
      PROVE  ProgressInv' /\ progress' \in [Tabs -> ProgressRecord]
  BY <1>7, ReloadIsEarned
<1>8. CASE UNCHANGED vars
  BY <1>1, <1>8 DEF vars
<1>9. ASSUME NEW t \in Tabs,
             \/ \E play \in Practices : StartPractice(t, play)
             \/ \E play \in Dailies : StartDaily(t, play)
             \/ AskForDaily(t) \/ FiveSeconds(t) \/ RepeatPractice(t)
             \/ ReturnToPracticeMenu(t) \/ NextChallenge(t)
      PROVE  ProgressInv' /\ progress' \in [Tabs -> ProgressRecord]
  BY <1>1, <1>9 DEF StartPractice, StartDaily, AskForDaily, FiveSeconds, RepeatPractice,
       ReturnToPracticeMenu, NextChallenge
<1>10. CASE NextDay
  BY <1>1, <1>10 DEF NextDay
<1> QED  BY <1>3, <1>4, <1>5, <1>6, <1>7, <1>8, <1>9, <1>10 DEF Next

-----------------------------------------------------------------------------
(* One record of a day.                                                    *)

LEMMA ConsumedIs ==
  ASSUME NEW record \in DailyRecord
  PROVE  /\ Consumed(record) \in DailyRecord
         /\ Consumed(record).attempts = record.attempts + 1
         /\ Consumed(record).best = record.best
         /\ Consumed(record).points = record.points
         /\ PointsOf(Consumed(record)) = PointsOf(record)
<1> DEFINE q == Consumed(record)
<1>1. q = [record EXCEPT !.attempts = record.attempts + 1] /\ record.attempts + 1 \in Nat
  BY DEF Consumed, DailyRecord
<1> HIDE DEF q
<1>2. q \in DailyRecord
  BY <1>1 DEF DailyRecord
<1>3. /\ q.attempts = record.attempts + 1 /\ q.best = record.best
      /\ q.points = record.points /\ q.perfectAwarded = record.perfectAwarded
      /\ q.completionAwarded = record.completionAwarded
  BY <1>1 DEF DailyRecord
<1> QED  BY <1>2, <1>3 DEF PointsOf, q

LEMMA BetterIs ==
  ASSUME NEW record \in DailyRecord, NEW quality \in Qualities
  PROVE  /\ Better(record, quality) \in DailyRecord
         /\ Better(record, quality).attempts = record.attempts
         /\ Better(record, quality).best >= record.best
         /\ Better(record, quality).points = record.points
         /\ Better(record, quality).perfectAwarded = record.perfectAwarded
         /\ Better(record, quality).completionAwarded = record.completionAwarded
<1> DEFINE q == [record EXCEPT !.best = Best(quality)]
<1>1. Best(quality) \in 0..3
  BY DEF Best, Qualities
<1>2. q \in DailyRecord
  BY <1>1 DEF DailyRecord
<1>3. /\ q.attempts = record.attempts /\ q.best = Best(quality)
      /\ q.points = record.points /\ q.perfectAwarded = record.perfectAwarded
      /\ q.completionAwarded = record.completionAwarded
  BY DEF DailyRecord
<1>4. Better(record, quality) = IF Best(quality) > record.best THEN q ELSE record
  BY DEF Better
<1> HIDE DEF q
<1>5. record.best \in 0..3
  BY DEF DailyRecord
<1> QED  BY <1>1, <1>2, <1>3, <1>4, <1>5

\* A run that is finished: an attempt more, unless it was consumed, and the
\* points that the record is worth.
LEMMA RecordedIs ==
  ASSUME NEW record \in DailyRecord, record.points = PointsOf(record),
         NEW quality \in Qualities, NEW consumed \in BOOLEAN
  PROVE  LET q == RecordDailyChallengeAttempt(record, quality, consumed)
         IN  /\ q \in DailyRecord
             /\ q.attempts = record.attempts + (IF consumed THEN 0 ELSE 1)
             /\ q.best >= record.best /\ q.points >= record.points
             /\ q.points = PointsOf(q)
<1> DEFINE b == Better(record, quality)
<1>1. /\ b \in DailyRecord /\ b.attempts = record.attempts /\ b.best >= record.best
      /\ b.points = record.points /\ b.perfectAwarded = record.perfectAwarded
      /\ b.completionAwarded = record.completionAwarded
  BY BetterIs
<1> HIDE DEF b
<1>2. CASE ~consumed
  <2> DEFINE q == Consumed(b)
  <2>1. RecordDailyChallengeAttempt(record, quality, consumed) = q
    BY <1>2 DEF RecordDailyChallengeAttempt, UpdateDailyChallengeRecord, b
  <2>2. /\ q \in DailyRecord /\ q.attempts = b.attempts + 1 /\ q.best = b.best
        /\ q.points = b.points /\ PointsOf(q) = PointsOf(b)
    BY <1>1, ConsumedIs
  <2>3. PointsOf(b) = PointsOf(record)
    BY <1>1 DEF PointsOf
  <2>4. record.points \in Nat
    BY DEF DailyRecord
  <2> HIDE DEF q
  <2> QED  BY <1>1, <1>2, <2>1, <2>2, <2>3, <2>4
<1>3. CASE consumed
  <2> DEFINE perfect == quality = "perfect"
             first == (IF record.completionAwarded THEN 0 ELSE 1)
                      + (IF perfect /\ ~record.perfectAwarded THEN 2 ELSE 0)
             points == Min({3, record.points + first})
             won == record.perfectAwarded \/ perfect
             q == [b EXCEPT !.points = points, !.perfectAwarded = won,
                            !.completionAwarded = TRUE]
  <2>1. RecordDailyChallengeAttempt(record, quality, consumed) = q
    BY <1>1, <1>3 DEF RecordDailyChallengeAttempt, UpdateDailyChallengeCompletion, b
  <2>2. /\ record.completionAwarded \in BOOLEAN /\ record.perfectAwarded \in BOOLEAN
        /\ record.points \in Nat
    BY DEF DailyRecord
  <2>3. /\ record.points + first = 1 + (IF won THEN 2 ELSE 0)
        /\ record.points <= record.points + first
    BY <2>2 DEF PointsOf
  <2>4. points = 1 + (IF won THEN 2 ELSE 0)
    <3>1. record.points + first \in {1, 3}
      BY <2>3
    <3> HIDE DEF first
    <3>2. PICK n \in {1, 3} : n = record.points + first
      BY <3>1
    <3>3. Min({3, n}) = n
      BY <3>2 DEF Min
    <3> QED  BY <2>3, <3>2, <3>3
  <2>5. points \in Nat /\ points >= record.points
    BY <2>2, <2>3, <2>4
  <2> HIDE DEF points, first
  <2>6. won \in BOOLEAN
    OBVIOUS
  <2> HIDE DEF won
  <2>7. q \in DailyRecord
    BY <1>1, <2>5, <2>6 DEF DailyRecord
  <2>8. /\ q.attempts = b.attempts /\ q.best = b.best /\ q.points = points
        /\ q.perfectAwarded = won /\ q.completionAwarded = TRUE
    BY <1>1 DEF DailyRecord
  <2> HIDE DEF q
  <2>9. q.points = PointsOf(q)
    BY <2>4, <2>8 DEF PointsOf
  <2>10. record.attempts \in Nat
    BY DEF DailyRecord
  <2>11. q.attempts = record.attempts + (IF consumed THEN 0 ELSE 1)
    BY <1>1, <1>3, <2>8, <2>10
  <2>12. q.best >= record.best /\ q.points >= record.points
    BY <1>1, <2>5, <2>8
  <2> QED  BY <2>1, <2>7, <2>9, <2>11, <2>12
<1> QED  BY <1>2, <1>3

-----------------------------------------------------------------------------
(* The limit of a day.                                                     *)

LEMMA TabsAreFew ==
  ASSUME NEW P, P \subseteq Tabs
  PROVE  /\ Cardinality(P) \in Nat /\ Cardinality(Tabs) \in Nat
         /\ Cardinality(P) <= Cardinality(Tabs)
         /\ \A Q \in SUBSET P : Cardinality(Q) \in Nat /\ Cardinality(Q) <= Cardinality(P)
         /\ \A t \in P : \A Q \in SUBSET (P \ {t}) :
              Cardinality(Q) \in Nat /\ Cardinality(Q) + 1 <= Cardinality(P)
         /\ \A t \in Tabs : \A Q \in SUBSET (P \cup {t}) :
              Cardinality(Q) \in Nat /\ Cardinality(Q) <= Cardinality(P) + 1
<1>0. IsFiniteSet(Tabs)
  BY RecordsAssumption
<1>1. /\ IsFiniteSet(P) /\ Cardinality(P) \in Nat /\ Cardinality(Tabs) \in Nat
      /\ Cardinality(P) <= Cardinality(Tabs)
  BY <1>0, FS_Subset, FS_CardinalityType
<1>2. ASSUME NEW Q \in SUBSET P
      PROVE  Cardinality(Q) \in Nat /\ Cardinality(Q) <= Cardinality(P)
  BY <1>1, FS_Subset, FS_CardinalityType
<1>3. ASSUME NEW t \in P, NEW Q \in SUBSET (P \ {t})
      PROVE  Cardinality(Q) \in Nat /\ Cardinality(Q) + 1 <= Cardinality(P)
  <2>1. IsFiniteSet(P \ {t}) /\ Cardinality(P \ {t}) = Cardinality(P) - 1
    BY <1>1, FS_RemoveElement
  <2>2. IsFiniteSet(Q) /\ Cardinality(Q) <= Cardinality(P \ {t})
    BY <2>1, FS_Subset
  <2>3. Cardinality(Q) \in Nat
    BY <2>2, FS_CardinalityType
  <2> QED  BY <1>1, <2>1, <2>2, <2>3
<1>4. ASSUME NEW t \in Tabs, NEW Q \in SUBSET (P \cup {t})
      PROVE  Cardinality(Q) \in Nat /\ Cardinality(Q) <= Cardinality(P) + 1
  <2>1. /\ IsFiniteSet(P \cup {t})
        /\ Cardinality(P \cup {t}) = IF t \in P THEN Cardinality(P) ELSE Cardinality(P) + 1
    BY <1>1, FS_AddElement
  <2>2. IsFiniteSet(Q) /\ Cardinality(Q) <= Cardinality(P \cup {t})
    BY <2>1, FS_Subset
  <2>3. Cardinality(Q) \in Nat
    BY <2>2, FS_CardinalityType
  <2> QED  BY <1>1, <2>1, <2>2, <2>3
<1> QED  BY <1>1, <1>2, <1>3, <1>4

LEMMA PendingTabs ==
  ASSUME NEW d
  PROVE  Pending(d) \subseteq Tabs /\ Pending(d)' \subseteq Tabs
BY DEF Pending

LEMMA DayCounts ==
  ASSUME DayType, NEW d \in 1..Days
  PROVE  /\ daily[d] \in DailyRecord /\ daily[d].attempts \in Nat
         /\ unchecked[d] \in Nat /\ played[d] \in Nat
BY DEF DayType, DailyRecord

\* Nobody more may add an attempt.
LEMMA LimitIsKept ==
  ASSUME DayType, NEW d \in 1..Days, Limited(d), Pending(d)' \subseteq Pending(d),
         daily'[d].attempts = daily[d].attempts, unchecked'[d] = unchecked[d]
  PROVE  Limited(d)'
<1> DEFINE P == Pending(d)
           Q == Pending(d)'
<1>1. /\ Cardinality(P) \in Nat /\ Cardinality(Q) \in Nat
      /\ Cardinality(Q) <= Cardinality(P) /\ Cardinality(Tabs) \in Nat
  BY PendingTabs, TabsAreFew
<1>2. daily[d].attempts \in Nat /\ unchecked[d] \in Nat /\ MaxAttempts \in Nat
  BY DayCounts, RecordsAssumption
<1> HIDE DEF P, Q
<1> QED  BY <1>1, <1>2 DEF Limited, P, Q

\* A tab that was to add an attempt has added it.
LEMMA LimitIsCounted ==
  ASSUME DayType, NEW d \in 1..Days, Limited(d), NEW t \in Pending(d),
         Pending(d)' \subseteq Pending(d) \ {t},
         daily'[d].attempts = daily[d].attempts + 1, unchecked'[d] = unchecked[d]
  PROVE  Limited(d)'
<1> DEFINE P == Pending(d)
           Q == Pending(d)'
<1>1. P \subseteq Tabs /\ Q \in SUBSET (P \ {t}) /\ t \in P
  BY PendingTabs
<1> HIDE DEF P, Q
<1>2. /\ Cardinality(P) \in Nat /\ Cardinality(Q) \in Nat
      /\ Cardinality(Q) + 1 <= Cardinality(P) /\ Cardinality(P) <= Cardinality(Tabs)
      /\ Cardinality(Tabs) \in Nat
  BY <1>1, TabsAreFew
<1>3. daily[d].attempts \in Nat /\ unchecked[d] \in Nat /\ MaxAttempts \in Nat
  BY DayCounts, RecordsAssumption
<1>4. CASE daily[d].attempts < MaxAttempts
  <2>1. daily'[d].attempts + Cardinality(Q)
          < MaxAttempts + Cardinality(Tabs) + unchecked'[d]
    BY <1>2, <1>3, <1>4
  <2> QED  BY <2>1 DEF Limited, Q
<1>5. CASE daily[d].attempts + Cardinality(P)
             < MaxAttempts + Cardinality(Tabs) + unchecked[d]
  <2>1. daily'[d].attempts + Cardinality(Q)
          < MaxAttempts + Cardinality(Tabs) + unchecked'[d]
    BY <1>2, <1>3, <1>5
  <2> QED  BY <2>1 DEF Limited, Q
<1> QED  BY <1>4, <1>5 DEF Limited, P

\* A tab more may add an attempt, which was let in unchecked.
LEMMA LimitIsUnchecked ==
  ASSUME DayType, NEW d \in 1..Days, Limited(d), NEW t \in Tabs,
         Pending(d)' \subseteq Pending(d) \cup {t},
         daily'[d].attempts = daily[d].attempts, unchecked'[d] = unchecked[d] + 1
  PROVE  Limited(d)'
<1> DEFINE P == Pending(d)
           Q == Pending(d)'
<1>1. P \subseteq Tabs /\ Q \in SUBSET (P \cup {t})
  BY PendingTabs
<1> HIDE DEF P, Q
<1>2. /\ Cardinality(P) \in Nat /\ Cardinality(Q) \in Nat
      /\ Cardinality(Q) <= Cardinality(P) + 1 /\ Cardinality(Tabs) \in Nat
  BY <1>1, TabsAreFew
<1>3. daily[d].attempts \in Nat /\ unchecked[d] \in Nat /\ MaxAttempts \in Nat
  BY DayCounts, RecordsAssumption
<1>4. CASE daily[d].attempts < MaxAttempts
  BY <1>4 DEF Limited
<1>5. CASE daily[d].attempts + Cardinality(P)
             < MaxAttempts + Cardinality(Tabs) + unchecked[d]
  <2>1. daily'[d].attempts + Cardinality(Q)
          < MaxAttempts + Cardinality(Tabs) + unchecked'[d]
    BY <1>2, <1>3, <1>5
  <2> QED  BY <2>1 DEF Limited, Q
<1> QED  BY <1>4, <1>5 DEF Limited, P

LEMMA LimitBounds ==
  ASSUME DayType, NEW d \in 1..Days, Limited(d)
  PROVE  daily[d].attempts < MaxAttempts + Cardinality(Tabs) + unchecked[d]
<1> DEFINE P == Pending(d)
<1>1. Cardinality(P) \in Nat /\ Cardinality(Tabs) \in Nat
  BY PendingTabs, TabsAreFew
<1>2. daily[d].attempts \in Nat /\ unchecked[d] \in Nat /\ MaxAttempts \in Nat
  BY DayCounts, RecordsAssumption
<1>3. \/ daily[d].attempts < MaxAttempts
      \/ daily[d].attempts + Cardinality(P)
           < MaxAttempts + Cardinality(Tabs) + unchecked[d]
  BY DEF Limited
<1> HIDE DEF P
<1> QED  BY <1>1, <1>2, <1>3

-----------------------------------------------------------------------------
(* The steps of a day.                                                     *)

\* A step that counts nothing and lets nobody in.
LEMMA CalmStep ==
  ASSUME DayInv, DayType', RunsAreTrue', UNCHANGED <<daily, played, unchecked>>,
         \A d \in 1..Days : Pending(d)' \subseteq Pending(d)
  PROVE  DayInv'
<1>1. \A d \in 1..Days : Limited(d)'
  BY LimitIsKept DEF DayInv
<1>2. RecordsAreTrue'
  BY DEF DayInv, RecordsAreTrue, PointsOf
<1> QED  BY <1>1, <1>2 DEF DayInv

\* ... of a tab that starts nothing but a practice, or nothing.
LEMMA NoDailyRun ==
  ASSUME DayInv, NEW t \in Tabs, NEW x \in SessionRecord, x.play \notin Dailies,
         session' = [session EXCEPT ![t] = x],
         \/ asked' = asked
         \/ asked' = [asked EXCEPT ![t] = 0],
         UNCHANGED <<daily, played, unchecked, tabDay, today>>, used' \subseteq Plays
  PROVE  DayInv'
<1>0. /\ asked' \in [Tabs -> Nat] /\ session' \in [Tabs -> SessionRecord]
      /\ \A u \in Tabs : u # t => asked'[u] = asked[u] /\ session'[u] = session[u]
      /\ session'[t] = x /\ asked'[t] \in {asked[t], 0}
  <2>1. asked \in [Tabs -> Nat] /\ session \in [Tabs -> SessionRecord]
    BY DEF DayInv, DayType
  <2>2. /\ asked' \in [Tabs -> Nat] /\ asked'[t] \in {asked[t], 0}
        /\ \A u \in Tabs : u # t => asked'[u] = asked[u]
    BY <2>1
  <2> QED  BY <2>1, <2>2
<1>1. DayType'
  <2>1. DayType
    BY DEF DayInv
  <2>2. \A u \in Tabs : asked'[u] <= tabDay[u]
    BY <1>0, <2>1 DEF DayType
  <2> QED  BY <1>0, <2>1, <2>2 DEF DayType
<1>2. ~IsDaily(t)'
  BY <1>0 DEF IsDaily
<1>3. RunsAreTrue'
  BY <1>0, <1>2 DEF DayInv, RunsAreTrue, IsRunning, IsDaily
<1>4. ASSUME NEW d \in 1..Days PROVE Pending(d)' \subseteq Pending(d)
  BY <1>0, <1>2, <1>4 DEF Pending, IsRunning, IsDaily
<1> QED  BY <1>1, <1>3, <1>4, CalmStep

LEMMA SessionIs ==
  ASSUME NEW play \in Plays \cup {NoPlay}, NEW day \in 1..Days
  PROVE  /\ Session(play, day) \in SessionRecord
         /\ Session(play, day).play = play /\ Session(play, day).day = day
         /\ ~Session(play, day).consumed /\ ~Session(play, day).finished
         /\ ~Session(play, day).lasted
BY DEF Session, NoSession, SessionRecord

LEMMA NoSessionIs ==
  NoSession \in SessionRecord /\ NoSession.play = NoPlay /\ NoPlay \notin Dailies
<1>1. 1 \in 1..Days
  BY RecordsAssumption
<1> QED  BY <1>1, RecordsAssumption DEF NoSession, SessionRecord, Plays

LEMMA StartPracticeIsCalm ==
  ASSUME DayInv, NEW t \in Tabs, NEW play \in Practices, StartPractice(t, play)
  PROVE  DayInv'
<1>1. play \in Plays /\ play \notin Dailies /\ 1 \in 1..Days
  BY RecordsAssumption DEF Plays
<1>2. Session(play, 1) \in SessionRecord /\ Session(play, 1).play = play
  BY <1>1, SessionIs
<1>3. /\ session' = [session EXCEPT ![t] = Session(play, 1)]
      /\ asked' = [asked EXCEPT ![t] = 0]
      /\ UNCHANGED <<daily, played, unchecked, tabDay, today>>
      /\ used' \subseteq Plays
  BY <1>1 DEF StartPractice, dayVars, DayInv, DayType
<1> QED  BY <1>1, <1>2, <1>3, NoDailyRun

LEMMA RepeatIsCalm ==
  ASSUME DayInv, NEW t \in Tabs, RepeatPractice(t)
  PROVE  DayInv'
<1> DEFINE x == [session[t] EXCEPT !.finished = FALSE]
<1>0. session[t] \in SessionRecord /\ session[t].play \notin Dailies
  BY RecordsAssumption DEF RepeatPractice, DayInv, DayType
<1>1. x \in SessionRecord /\ x.play \notin Dailies
  BY <1>0 DEF SessionRecord
<1>2. /\ session' = [session EXCEPT ![t] = x] /\ asked' = asked
      /\ UNCHANGED <<daily, played, unchecked, tabDay, today>>
      /\ used' \subseteq Plays
  BY DEF RepeatPractice, dayVars, DayInv, DayType
<1> HIDE DEF x
<1> QED  BY <1>1, <1>2, NoDailyRun

\* The menu, and a reload.
LEMMA EndIsCalm ==
  ASSUME DayInv, NEW t \in Tabs, ReturnToPracticeMenu(t) \/ Reload(t)
  PROVE  DayInv'
<1>1. /\ session' = [session EXCEPT ![t] = NoSession]
      /\ asked' = [asked EXCEPT ![t] = 0]
      /\ UNCHANGED <<daily, played, unchecked, tabDay, today>>
      /\ used' \subseteq Plays
  BY DEF ReturnToPracticeMenu, Reload, dayVars, DayInv, DayType
<1>2. NoSession \in SessionRecord /\ NoSession.play \notin Dailies
  BY NoSessionIs
<1> QED  BY <1>1, <1>2, NoDailyRun

\* The next day begins.
LEMMA DayIsCalm ==
  ASSUME DayInv, NextDay \/ \E t \in Tabs : NextChallenge(t)
  PROVE  DayInv'
<1>1. UNCHANGED <<session, asked, used, daily, played, unchecked>>
  BY DEF NextDay, NextChallenge
<1>2. DayType'
  <2>1. CASE NextDay
    BY <1>1, <2>1, RecordsAssumption DEF NextDay, DayInv, DayType
  <2>2. ASSUME NEW t \in Tabs, NextChallenge(t) PROVE DayType'
    BY <1>1, <2>2 DEF NextChallenge, DayInv, DayType
  <2> QED  BY <2>1, <2>2
<1>3. RunsAreTrue'
  BY <1>1 DEF DayInv, RunsAreTrue, IsRunning, IsDaily
<1>4. \A d \in 1..Days : Pending(d)' \subseteq Pending(d)
  BY <1>1 DEF Pending, IsRunning, IsDaily
<1> QED  BY <1>1, <1>2, <1>3, <1>4, CalmStep

LEMMA IdleIsCalm ==
  ASSUME DayInv, UNCHANGED <<session, asked, used, dayVars>>
  PROVE  DayInv'
<1>1. UNCHANGED <<session, asked, used, daily, played, unchecked, tabDay, today>>
  BY DEF dayVars
<1>2. DayType'
  BY <1>1 DEF DayInv, DayType
<1>3. RunsAreTrue'
  BY <1>1 DEF DayInv, RunsAreTrue, IsRunning, IsDaily
<1>4. \A d \in 1..Days : Pending(d)' \subseteq Pending(d)
  BY <1>1 DEF Pending, IsRunning, IsDaily
<1> QED  BY <1>1, <1>2, <1>3, <1>4, CalmStep

\* A tab asks while an attempt is left.
LEMMA AskForDailyKeeps ==
  ASSUME DayInv, NEW t \in Tabs, AskForDaily(t)
  PROVE  DayInv'
<1> DEFINE day == tabDay[t]
<1>1. /\ UNCHANGED <<session, used, daily, played, unchecked, tabDay, today>>
      /\ asked' = [asked EXCEPT ![t] = day] /\ ~IsRunning(t)
      /\ daily[day].attempts < MaxAttempts
  BY DEF AskForDaily, dayVars
<1>2. DayType /\ day \in 1..Days /\ asked \in [Tabs -> Nat]
  BY DEF DayInv, DayType
<1> HIDE DEF day
<1>3. /\ asked' \in [Tabs -> Nat] /\ asked'[t] = day
      /\ \A u \in Tabs : u # t => asked'[u] = asked[u]
  BY <1>1, <1>2
<1>4. DayType'
  <2>1. ASSUME NEW u \in Tabs PROVE asked'[u] <= tabDay[u]
    <3>1. asked[u] <= tabDay[u] /\ day \in Nat
      BY <1>2 DEF DayType
    <3>2. CASE u = t
      BY <1>3, <3>1, <3>2 DEF day
    <3>3. CASE u # t
      BY <1>3, <3>1, <3>3
    <3> QED  BY <3>2, <3>3
  <2> QED  BY <1>1, <1>2, <1>3, <2>1 DEF DayType
<1>5. RunsAreTrue'
  BY <1>1, <1>3 DEF DayInv, RunsAreTrue, IsRunning, IsDaily
<1>6. RecordsAreTrue'
  BY <1>1 DEF DayInv, RecordsAreTrue, PointsOf
<1>7. ASSUME NEW d \in 1..Days PROVE Limited(d)'
  <2>1. CASE d = day
    BY <1>1, <2>1 DEF Limited
  <2>2. CASE d # day
    <3>1. Pending(d)' \subseteq Pending(d)
      BY <1>1, <1>3, <2>2 DEF Pending, IsRunning, IsDaily
    <3> QED  BY <1>1, <1>2, <3>1, LimitIsKept DEF DayInv
  <2> QED  BY <2>1, <2>2
<1> QED  BY <1>4, <1>5, <1>6, <1>7 DEF DayInv

\* ... and is let in, for the day of the server.
LEMMA StartDailyKeeps ==
  ASSUME DayInv, NEW t \in Tabs, NEW play \in Dailies, StartDaily(t, play)
  PROVE  DayInv'
<1> DEFINE x == Session(play, today)
<1>1. /\ asked[t] # 0 /\ asked' = [asked EXCEPT ![t] = 0]
      /\ used' = used \cup {play} /\ session' = [session EXCEPT ![t] = x]
      /\ unchecked' = IF asked[t] = today THEN unchecked
                      ELSE [unchecked EXCEPT ![today] = @ + 1]
      /\ UNCHANGED <<daily, tabDay, today, played>>
  BY DEF StartDaily
<1>2. DayType /\ today \in 1..Days /\ play \in Plays
  BY DEF DayInv, DayType, Plays
<1>3. /\ x \in SessionRecord /\ x.play = play /\ x.day = today
      /\ ~x.consumed /\ ~x.finished /\ ~x.lasted
  <2>1. play \in Plays \cup {NoPlay}
    BY <1>2
  <2> QED  BY <1>2, <2>1, SessionIs
<1> HIDE DEF x
<1>4. /\ asked' \in [Tabs -> Nat] /\ asked'[t] = 0
      /\ \A u \in Tabs : u # t => asked'[u] = asked[u]
      /\ session' \in [Tabs -> SessionRecord] /\ session'[t] = x
      /\ \A u \in Tabs : u # t => session'[u] = session[u]
  <2>1. asked \in [Tabs -> Nat] /\ session \in [Tabs -> SessionRecord]
    BY <1>2 DEF DayType
  <2> QED  BY <1>1, <1>3, <2>1
<1>5. /\ unchecked' \in [1..Days -> Nat]
      /\ \A d \in 1..Days : unchecked'[d] = IF d = today /\ asked[t] # today
                                            THEN unchecked[d] + 1 ELSE unchecked[d]
  <2>1. unchecked \in [1..Days -> Nat]
    BY <1>2 DEF DayType
  <2>2. CASE asked[t] = today
    BY <1>1, <2>1, <2>2
  <2>3. CASE asked[t] # today
    BY <1>1, <1>2, <2>1, <2>3
  <2> QED  BY <2>2, <2>3
<1>6. DayType'
  <2>1. ASSUME NEW u \in Tabs PROVE asked'[u] <= tabDay[u]
    <3>1. asked[u] <= tabDay[u] /\ tabDay[u] \in Nat
      BY <1>2 DEF DayType
    <3>2. CASE u = t
      BY <1>4, <3>1, <3>2
    <3>3. CASE u # t
      BY <1>4, <3>1, <3>3
    <3> QED  BY <3>2, <3>3
  <2>2. used' \subseteq Plays
    BY <1>1, <1>2 DEF DayType
  <2> QED  BY <1>1, <1>2, <1>4, <1>5, <2>1, <2>2 DEF DayType
<1>7. RunsAreTrue'
  <2>1. \A u \in Tabs : u # t => (IsRunning(u)' <=> IsRunning(u)) /\ (IsDaily(u)' <=> IsDaily(u))
    BY <1>4 DEF IsRunning, IsDaily
  <2>2. session'[t].consumed = session'[t].lasted
    BY <1>3, <1>4 DEF SessionRecord
  <2> QED  BY <1>4, <2>1, <2>2 DEF DayInv, RunsAreTrue
<1>8. RecordsAreTrue'
  BY <1>1 DEF DayInv, RecordsAreTrue, PointsOf
<1>9. \A d \in 1..Days : Pending(d)' \subseteq (IF d = today THEN Pending(d) \cup {t}
                                                ELSE Pending(d))
  BY <1>3, <1>4 DEF Pending, IsRunning, IsDaily
<1>10. asked[t] = today => t \in Pending(today)
  BY DEF Pending
<1>11. ASSUME NEW d \in 1..Days PROVE Limited(d)'
  <2>0. Limited(d) /\ daily'[d].attempts = daily[d].attempts
    BY <1>1 DEF DayInv
  <2>1. CASE d = today /\ asked[t] # today
    <3>1. Pending(d)' \subseteq Pending(d) \cup {t} /\ unchecked'[d] = unchecked[d] + 1
      BY <1>5, <1>9, <2>1
    <3> QED  BY <1>2, <2>0, <3>1, LimitIsUnchecked
  <2>2. CASE ~(d = today /\ asked[t] # today)
    <3>1. Pending(d)' \subseteq Pending(d) /\ unchecked'[d] = unchecked[d]
      BY <1>5, <1>9, <1>10, <2>2
    <3> QED  BY <1>2, <2>0, <3>1, LimitIsKept
  <2> QED  BY <2>1, <2>2
<1> QED  BY <1>6, <1>7, <1>8, <1>11 DEF DayInv

\* The attempt of a run is counted in the record q of its day, or was already,
\* and x is the session after it.
LEMMA RunCounts ==
  ASSUME DayInv, NEW t \in Tabs, IsRunning(t), IsDaily(t),
         NEW x \in SessionRecord, x.play = session[t].play,
         x.day = session[t].day, x.lasted, x.consumed \/ x.finished,
         NEW q \in DailyRecord, q.points = PointsOf(q),
         q.attempts = daily[session[t].day].attempts + (IF session[t].lasted THEN 0 ELSE 1),
         session' = [session EXCEPT ![t] = x],
         daily' = [daily EXCEPT ![session[t].day] = q],
         Lasts(t), UNCHANGED <<asked, tabDay, today, used, unchecked>>
  PROVE  DayInv'
<1> DEFINE day == session[t].day
<1>1. DayType /\ session[t] \in SessionRecord /\ day \in 1..Days
  BY DEF DayInv, DayType, SessionRecord
<1> HIDE DEF day
<1>2. /\ session' \in [Tabs -> SessionRecord] /\ session'[t] = x
      /\ \A u \in Tabs : u # t => session'[u] = session[u]
  BY <1>1 DEF DayType
<1>3. /\ daily' \in [1..Days -> DailyRecord] /\ daily'[day] = q
      /\ \A d \in 1..Days : d # day => daily'[d] = daily[d]
  BY <1>1 DEF DayType, day
<1>4. /\ played' \in [1..Days -> Nat]
      /\ \A d \in 1..Days : played'[d] = IF d = day /\ ~session[t].lasted
                                         THEN played[d] + 1 ELSE played[d]
  <2>1. played \in [1..Days -> Nat]
    BY <1>1 DEF DayType
  <2>2. CASE session[t].lasted
    BY <2>1, <2>2 DEF Lasts
  <2>3. CASE ~session[t].lasted
    <3>1. played' = [played EXCEPT ![day] = @ + 1]
      BY <2>3 DEF Lasts, day
    <3> QED  BY <1>1, <2>1, <2>3, <3>1
  <2> QED  BY <2>2, <2>3
<1>5. DayType'
  BY <1>1, <1>2, <1>3, <1>4 DEF DayType
<1>6. asked[t] = 0 /\ session[t].consumed = session[t].lasted
  BY DEF DayInv, RunsAreTrue
<1>7. \A u \in Tabs : u # t => (IsRunning(u)' <=> IsRunning(u)) /\ (IsDaily(u)' <=> IsDaily(u))
  BY <1>2 DEF IsRunning, IsDaily
<1>8. IsRunning(t)' => x.consumed /\ x.lasted
  BY <1>2 DEF IsRunning
<1>9. RunsAreTrue'
  BY <1>2, <1>6, <1>7, <1>8 DEF DayInv, RunsAreTrue
<1>10. RecordsAreTrue'
  <2>1. ASSUME NEW d \in 1..Days
        PROVE  daily'[d].attempts = played'[d] /\ daily'[d].points = PointsOf(daily'[d])
    <3>0. daily[d].attempts = played[d] /\ daily[d].points = PointsOf(daily[d])
      BY DEF DayInv, RecordsAreTrue
    <3>1. CASE d = day
      <4>1. played[d] \in Nat
        BY <1>1 DEF DayType
      <4> QED  BY <1>3, <1>4, <3>0, <3>1, <4>1 DEF day
    <3>2. CASE d # day
      BY <1>3, <1>4, <3>0, <3>2
    <3> QED  BY <3>1, <3>2
  <2> QED  BY <2>1 DEF RecordsAreTrue, PointsOf
<1>11. \A d \in 1..Days : Pending(d)' \subseteq Pending(d) \ {t}
  <2>1. ASSUME NEW d \in 1..Days PROVE t \notin Pending(d)'
    BY <1>2, <1>6, <1>8 DEF Pending
  <2>2. ASSUME NEW d \in 1..Days PROVE Pending(d)' \subseteq Pending(d)
    BY <1>2, <1>7, <2>1, <2>2 DEF Pending
  <2> QED  BY <2>1, <2>2
<1>12. ASSUME NEW d \in 1..Days PROVE Limited(d)'
  <2>0. Limited(d) /\ unchecked'[d] = unchecked[d] /\ Pending(d)' \subseteq Pending(d) \ {t}
    BY <1>11 DEF DayInv
  <2>1. CASE d = day /\ ~session[t].lasted
    <3>1. t \in Pending(d)
      BY <1>6, <2>1 DEF Pending, day
    <3>2. daily'[d].attempts = daily[d].attempts + 1
      BY <1>3, <2>1 DEF day
    <3> QED  BY <1>1, <2>0, <3>1, <3>2, LimitIsCounted
  <2>2. CASE ~(d = day /\ ~session[t].lasted)
    <3>1. daily'[d].attempts = daily[d].attempts
      <4>1. daily[d].attempts \in Nat
        BY <1>1, DayCounts
      <4> QED  BY <1>3, <2>2, <4>1 DEF day
    <3>2. Pending(d)' \subseteq Pending(d)
      BY <2>0
    <3> QED  BY <1>1, <2>0, <3>1, <3>2, LimitIsKept
  <2> QED  BY <2>1, <2>2
<1> QED  BY <1>5, <1>9, <1>10, <1>12 DEF DayInv

\* Five seconds are over.
LEMMA FiveSecondsKeeps ==
  ASSUME DayInv, NEW t \in Tabs, FiveSeconds(t)
  PROVE  DayInv'
<1> DEFINE day == session[t].day
           x == [session[t] EXCEPT !.consumed = TRUE, !.lasted = TRUE]
           q == Consumed(daily[day])
<1>1. /\ IsRunning(t) /\ IsDaily(t) /\ ~session[t].consumed
      /\ daily' = [daily EXCEPT ![day] = q] /\ Lasts(t)
      /\ UNCHANGED <<asked, tabDay, today, used, unchecked>>
  BY DEF FiveSeconds, MayConsume
<1>2. session' = [session EXCEPT ![t] = x]
  BY DEF FiveSeconds
<1>3. DayType /\ session[t] \in SessionRecord /\ day \in 1..Days
  BY DEF DayInv, DayType, SessionRecord
<1>4. /\ x \in SessionRecord /\ x.play = session[t].play /\ x.day = session[t].day
      /\ x.lasted /\ x.consumed
  BY <1>3 DEF SessionRecord
<1>5. ~session[t].lasted
  BY <1>1, <1>3 DEF DayInv, RunsAreTrue, SessionRecord
<1>6. daily[day] \in DailyRecord /\ daily[day].points = PointsOf(daily[day])
  BY <1>3, DayCounts DEF DayInv, RecordsAreTrue
<1> HIDE DEF x
<1>7. /\ q \in DailyRecord /\ q.points = PointsOf(q)
      /\ q.attempts = daily[day].attempts + 1
  BY <1>6, ConsumedIs
<1> HIDE DEF q
<1> QED  BY <1>1, <1>2, <1>4, <1>5, <1>7, RunCounts

\* The record that finishPractice writes: of a run that was consumed, that is
\* consumed now, or that comes too late for that.
LEMMA FinishedRecord ==
  ASSUME DayInv, NEW t \in Tabs, IsRunning(t), IsDaily(t), NEW quality \in Qualities
  PROVE  LET day == session[t].day
             may == MayConsume(t)
             record == IF may THEN Consumed(daily[day]) ELSE daily[day]
             q == RecordDailyChallengeAttempt(record, quality, session[t].consumed \/ may)
         IN  /\ q \in DailyRecord /\ q.points = PointsOf(q)
             /\ q.attempts = daily[day].attempts + (IF session[t].lasted THEN 0 ELSE 1)
             /\ q.best >= daily[day].best /\ q.points >= daily[day].points
<1> DEFINE day == session[t].day
           may == MayConsume(t)
           consumed == session[t].consumed \/ may
           record == IF may THEN Consumed(daily[day]) ELSE daily[day]
           q == RecordDailyChallengeAttempt(record, quality, consumed)
<1>1. DayType /\ session[t] \in SessionRecord /\ day \in 1..Days
  BY DEF DayInv, DayType, SessionRecord
<1>2. session[t].consumed = session[t].lasted /\ session[t].consumed \in BOOLEAN
  BY <1>1 DEF DayInv, RunsAreTrue, SessionRecord
<1>3. may \in BOOLEAN /\ (may => ~session[t].consumed)
  BY DEF MayConsume
<1>4. /\ daily[day] \in DailyRecord /\ daily[day].points = PointsOf(daily[day])
      /\ daily[day].attempts \in Nat /\ daily[day].best \in 0..3
      /\ daily[day].points \in Nat
  BY <1>1, DayCounts DEF DayInv, RecordsAreTrue, DailyRecord
<1> HIDE DEF day, may
<1>5. /\ record \in DailyRecord /\ record.points = PointsOf(record)
      /\ record.attempts = daily[day].attempts + (IF may THEN 1 ELSE 0)
      /\ record.best = daily[day].best /\ record.points = daily[day].points
  <2>1. CASE may
    <3>1. record = Consumed(daily[day])
      BY <2>1
    <3>2. /\ Consumed(daily[day]) \in DailyRecord
          /\ Consumed(daily[day]).attempts = daily[day].attempts + 1
          /\ Consumed(daily[day]).best = daily[day].best
          /\ Consumed(daily[day]).points = daily[day].points
          /\ PointsOf(Consumed(daily[day])) = PointsOf(daily[day])
      BY <1>4, ConsumedIs
    <3> HIDE DEF record
    <3> QED  BY <1>4, <2>1, <3>1, <3>2
  <2>2. CASE ~may
    BY <1>4, <2>2
  <2> QED  BY <1>3, <2>1, <2>2
<1>6. consumed \in BOOLEAN
  BY <1>2, <1>3
<1> HIDE DEF record, consumed
<1>7. /\ q \in DailyRecord
      /\ q.attempts = record.attempts + (IF consumed THEN 0 ELSE 1)
      /\ q.best >= record.best /\ q.points >= record.points
      /\ q.points = PointsOf(q)
  BY <1>5, <1>6, RecordedIs
<1> HIDE DEF q
<1>8. q.attempts = daily[day].attempts + (IF session[t].lasted THEN 0 ELSE 1)
  BY <1>2, <1>3, <1>4, <1>5, <1>7 DEF consumed
<1>9. q.best >= daily[day].best /\ q.points >= daily[day].points
  BY <1>5, <1>7
<1> QED  BY <1>7, <1>8, <1>9 DEF q, consumed, record, may, day

\* A run is finished.
LEMMA FinishKeeps ==
  ASSUME DayInv, NEW t \in Tabs, NEW quality \in Qualities, FinishPractice(t, quality)
  PROVE  DayInv'
<1> DEFINE day == session[t].day
           may == MayConsume(t)
           consumed == session[t].consumed \/ may
           record == IF may THEN Consumed(daily[day]) ELSE daily[day]
           q == RecordDailyChallengeAttempt(record, quality, consumed)
           x == [session[t] EXCEPT !.finished = TRUE, !.consumed = IsDaily(t) /\ consumed,
                                   !.lasted = IsDaily(t)]
<1>1. /\ IsRunning(t) /\ session' = [session EXCEPT ![t] = x]
      /\ UNCHANGED <<asked, tabDay, today, used, unchecked>>
  BY DEF FinishPractice
<1>2. DayType /\ session[t] \in SessionRecord /\ day \in 1..Days
  BY DEF DayInv, DayType, SessionRecord
<1>3. (IsDaily(t) /\ consumed) \in BOOLEAN /\ IsDaily(t) \in BOOLEAN
  BY <1>2 DEF IsDaily
<1>4. /\ x \in SessionRecord /\ x.play = session[t].play /\ x.day = session[t].day
      /\ x.lasted = IsDaily(t) /\ x.finished
  <2> DEFINE c == IsDaily(t) /\ consumed
             l == IsDaily(t)
  <2>1. c \in BOOLEAN /\ l \in BOOLEAN
    BY <1>3
  <2>2. x = [session[t] EXCEPT !.finished = TRUE, !.consumed = c, !.lasted = l]
    OBVIOUS
  <2> HIDE DEF c, l, x
  <2>3. /\ x \in SessionRecord /\ x.play = session[t].play /\ x.day = session[t].day
        /\ x.lasted = l /\ x.finished
    BY <1>2, <2>1, <2>2 DEF SessionRecord
  <2> QED  BY <2>3 DEF l
<1>5. CASE IsDaily(t)
  <2>1. daily' = [daily EXCEPT ![day] = q] /\ Lasts(t)
    BY <1>5 DEF FinishPractice
  <2>2. /\ q \in DailyRecord /\ q.points = PointsOf(q)
        /\ q.attempts = daily[day].attempts + (IF session[t].lasted THEN 0 ELSE 1)
    BY <1>1, <1>5, FinishedRecord
  <2> HIDE DEF q, x
  <2> QED  BY <1>1, <1>4, <1>5, <2>1, <2>2, RunCounts
<1>6. CASE ~IsDaily(t)
  <2>1. UNCHANGED <<daily, played>>
    BY <1>6 DEF FinishPractice
  <2>2. x.play \notin Dailies
    BY <1>4, <1>6 DEF IsDaily
  <2>3. used' \subseteq Plays
    BY <1>1, <1>2 DEF DayType
  <2> HIDE DEF x
  <2> QED  BY <1>1, <1>4, <2>1, <2>2, <2>3, NoDailyRun
<1> QED  BY <1>5, <1>6

-----------------------------------------------------------------------------
(* The theorems.                                                           *)

\* Every step keeps the records of the days and their limits.
LEMMA DayStep ==
  ASSUME DayInv, [Next]_vars
  PROVE  DayInv'
<1>1. ASSUME NEW t \in Tabs, NEW item \in Items, Purchase(t, item) \/ Equip(t, item)
      PROVE  DayInv'
  BY <1>1, IdleIsCalm DEF Purchase, Equip
<1>2. ASSUME NEW t \in Tabs, NEW m \in Matches, NEW result \in MatchResults,
             SeeMatchResult(t, m, result)
      PROVE  DayInv'
  BY <1>2, IdleIsCalm DEF SeeMatchResult
<1>3. ASSUME NEW t \in Tabs, NEW play \in Practices, StartPractice(t, play) PROVE DayInv'
  BY <1>3, StartPracticeIsCalm
<1>4. ASSUME NEW t \in Tabs, NEW play \in Dailies, StartDaily(t, play) PROVE DayInv'
  BY <1>4, StartDailyKeeps
<1>5. ASSUME NEW t \in Tabs, NEW quality \in Qualities, FinishPractice(t, quality)
      PROVE  DayInv'
  BY <1>5, FinishKeeps
<1>6. ASSUME NEW t \in Tabs, AskForDaily(t) PROVE DayInv'
  BY <1>6, AskForDailyKeeps
<1>7. ASSUME NEW t \in Tabs, FiveSeconds(t) PROVE DayInv'
  BY <1>7, FiveSecondsKeeps
<1>8. ASSUME NEW t \in Tabs, RepeatPractice(t) PROVE DayInv'
  BY <1>8, RepeatIsCalm
<1>9. ASSUME NEW t \in Tabs, ReturnToPracticeMenu(t) \/ Reload(t) PROVE DayInv'
  BY <1>9, EndIsCalm
<1>10. ASSUME NextDay \/ \E t \in Tabs : NextChallenge(t) PROVE DayInv'
  BY <1>10, DayIsCalm
<1>11. CASE UNCHANGED vars
  BY <1>11, IdleIsCalm DEF vars, dayVars
<1> QED  BY <1>1, <1>2, <1>3, <1>4, <1>5, <1>6, <1>7, <1>8, <1>9, <1>10, <1>11 DEF Next

LocalInv == ProgressInv /\ progress \in [Tabs -> ProgressRecord] /\ DayInv

LEMMA InitLocal == Init => LocalInv
<1> SUFFICES ASSUME Init PROVE LocalInv
  OBVIOUS
<1>1. Earned(DefaultProgress)
  <2> DEFINE p == DefaultProgress
             empty == [k \in {} |-> 0]
  <2>1. empty \in [{} -> Nat] /\ {} \in SUBSET Plays /\ DOMAIN empty = {}
    OBVIOUS
  <2>2. empty \in UNION {[keys -> Nat] : keys \in SUBSET Plays}
    BY <2>1
  <2>3. Total(empty) = 0 /\ Paid({}) = 0
    BY NothingAddsUp
  <2> HIDE DEF empty
  <2>4. p = [coins |-> StartCoins, owned |-> {}, worn |-> NoItem, claimed |-> empty]
    BY DEF DefaultProgress, empty
  <2> HIDE DEF p
  <2>5. p \in ProgressRecord
    BY <2>2, <2>4, RecordsAssumption DEF ProgressRecord
  <2>6. p.coins = StartCoins /\ p.owned = {} /\ p.worn = NoItem /\ p.claimed = empty
    BY <2>4
  <2>7. IsFiniteSet(p.owned) /\ IsFiniteSet(DOMAIN p.claimed)
    BY <2>1, <2>6, FS_EmptySet
  <2>8. p.coins = StartCoins + Total(p.claimed) - Paid(p.owned)
    BY <2>3, <2>6, RecordsAssumption
  <2> QED  BY <2>5, <2>6, <2>7, <2>8 DEF Earned, p
<1>2. stored = DefaultProgress /\ progress = [t \in Tabs |-> DefaultProgress]
  BY DEF Init
<1>3. ProgressInv /\ progress \in [Tabs -> ProgressRecord]
  BY <1>1, <1>2 DEF ProgressInv, Progresses, Earned
<1>4. NoSession \in SessionRecord /\ NoSession.play = NoPlay
  BY NoSessionIs
<1>5. NoRecord \in DailyRecord /\ NoRecord.points = PointsOf(NoRecord) /\ NoRecord.attempts = 0
  BY DEF NoRecord, DailyRecord, PointsOf
<1>6. /\ session = [t \in Tabs |-> NoSession] /\ asked = [t \in Tabs |-> 0]
      /\ daily = [d \in 1..Days |-> NoRecord] /\ played = [d \in 1..Days |-> 0]
      /\ unchecked = [d \in 1..Days |-> 0]
      /\ tabDay = [t \in Tabs |-> 1] /\ today = 1 /\ used = {}
  BY DEF Init
<1>7. DayType
  BY <1>4, <1>5, <1>6, RecordsAssumption DEF DayType
<1>8. RunsAreTrue
  BY <1>4, <1>6 DEF RunsAreTrue, IsRunning
<1>9. RecordsAreTrue
  BY <1>5, <1>6 DEF RecordsAreTrue, PointsOf
<1>10. \A d \in 1..Days : Limited(d)
  BY <1>5, <1>6, RecordsAssumption DEF Limited
<1> QED  BY <1>3, <1>7, <1>8, <1>9, <1>10 DEF LocalInv, DayInv

LEMMA LocalStep ==
  ASSUME LocalInv, [Next]_vars
  PROVE  LocalInv'
<1>1. DayInv'
  BY DayStep DEF LocalInv
<1>2. ProgressInv' /\ progress' \in [Tabs -> ProgressRecord]
  BY ProgressStep DEF LocalInv, DayInv
<1> QED  BY <1>1, <1>2 DEF LocalInv

LEMMA LocalInvariant == Spec => []LocalInv
BY InitLocal, LocalStep, PTL DEF Spec

LEMMA LocalInvIsEnough ==
  ASSUME LocalInv
  PROVE  RecordsInv
<1>1. DayType /\ RunsAreTrue /\ RecordsAreTrue /\ \A d \in 1..Days : Limited(d)
  BY DEF LocalInv, DayInv
<1>2. \A p \in Progresses : Earned(p)
  BY DEF LocalInv, ProgressInv
<1>3. TypeOK
  <2>1. ASSUME NEW p \in Progresses
        PROVE  /\ p.coins \in Nat /\ p.owned \subseteq Items
               /\ p.worn \in Items \cup {NoItem} /\ DOMAIN p.claimed \subseteq Plays
    BY <1>2 DEF Earned, ProgressRecord
  <2>2. ASSUME NEW t \in Tabs
        PROVE  /\ session[t].play \in Plays \cup {NoPlay} /\ session[t].day \in 1..Days
               /\ {session[t].consumed, session[t].finished} \subseteq BOOLEAN
               /\ tabDay[t] \in 1..today /\ asked[t] \in 0..tabDay[t]
    <3>1. session[t] \in SessionRecord
      BY <1>1 DEF DayType
    <3>2. /\ today \in 1..Days /\ tabDay[t] \in 1..Days /\ asked[t] \in Nat
          /\ tabDay[t] <= today /\ asked[t] <= tabDay[t]
      BY <1>1 DEF DayType
    <3> QED  BY <3>1, <3>2 DEF SessionRecord
  <2>3. ASSUME NEW d \in 1..Days PROVE daily[d].attempts \in Nat /\ daily[d].best \in 0..3
    BY <1>1, DayCounts DEF DailyRecord
  <2>4. today \in 1..Days /\ used \subseteq Plays
    BY <1>1 DEF DayType
  <2> QED  BY <2>1, <2>2, <2>3, <2>4 DEF TypeOK
<1>4. Balanced
  BY <1>2 DEF Balanced, Earned
<1>5. DailyRecordIsTrue
  BY <1>1 DEF RecordsAreTrue, PointsOf, DailyRecordIsTrue
<1>6. AttemptsAreLimited
  BY <1>1, LimitBounds DEF AttemptsAreLimited
<1> QED  BY <1>3, <1>4, <1>5, <1>6 DEF RecordsInv

\* Whatever tabs overwrite for each other, coins and cosmetics are what was
\* earned; the record of a day counts every run once, and no more of them than
\* the limit allows and the tabs and outdated pages let in beyond it.
THEOREM RecordsAreSound == Spec => []RecordsInv
BY LocalInvariant, LocalInvIsEnough, PTL

\* One step on the record of a day.
LEMMA BestStep ==
  ASSUME LocalInv, [Next]_vars, NEW d \in 1..Days
  PROVE  daily'[d].best >= daily[d].best /\ daily'[d].points >= daily[d].points
<1>0. DayInv /\ DayType /\ daily \in [1..Days -> DailyRecord]
  BY DEF LocalInv, DayInv, DayType
<1>1. \A e \in 1..Days : daily[e].best \in 0..3 /\ daily[e].points \in Nat
  BY <1>0 DEF DailyRecord
<1>2. ASSUME UNCHANGED daily
      PROVE  daily'[d].best >= daily[d].best /\ daily'[d].points >= daily[d].points
  BY <1>1, <1>2
<1>3. ASSUME NEW t \in Tabs, FiveSeconds(t)
      PROVE  daily'[d].best >= daily[d].best /\ daily'[d].points >= daily[d].points
  <2> DEFINE day == session[t].day
             q == Consumed(daily[day])
  <2>1. daily' = [daily EXCEPT ![day] = q] /\ day \in 1..Days
    BY <1>0, <1>3 DEF FiveSeconds, DayType, SessionRecord
  <2>2. q.best = daily[day].best /\ q.points = daily[day].points
    BY <1>0, <2>1, ConsumedIs
  <2> HIDE DEF q, day
  <2> QED  BY <1>0, <1>1, <2>1, <2>2
<1>4. ASSUME NEW t \in Tabs, NEW quality \in Qualities, FinishPractice(t, quality)
      PROVE  daily'[d].best >= daily[d].best /\ daily'[d].points >= daily[d].points
  <2> DEFINE day == session[t].day
             may == MayConsume(t)
             record == IF may THEN Consumed(daily[day]) ELSE daily[day]
             q == RecordDailyChallengeAttempt(record, quality, session[t].consumed \/ may)
  <2>1. CASE IsDaily(t)
    <3>1. daily' = [daily EXCEPT ![day] = q] /\ day \in 1..Days /\ IsRunning(t)
      BY <1>0, <1>4, <2>1 DEF FinishPractice, DayType, SessionRecord
    <3>2. q.best >= daily[day].best /\ q.points >= daily[day].points
      BY <1>0, <2>1, <3>1, FinishedRecord
    <3> HIDE DEF q, day
    <3> QED  BY <1>0, <1>1, <3>1, <3>2
  <2>2. CASE ~IsDaily(t)
    <3>1. UNCHANGED daily
      BY <1>4, <2>2 DEF FinishPractice
    <3> QED  BY <1>2, <3>1
  <2> QED  BY <2>1, <2>2
<1>5. ASSUME NEW t \in Tabs,
             \/ \E item \in Items : Purchase(t, item) \/ Equip(t, item)
             \/ \E m \in Matches, result \in MatchResults : SeeMatchResult(t, m, result)
             \/ \E play \in Practices : StartPractice(t, play)
             \/ \E play \in Dailies : StartDaily(t, play)
             \/ AskForDaily(t) \/ RepeatPractice(t)
             \/ ReturnToPracticeMenu(t) \/ Reload(t) \/ NextChallenge(t)
      PROVE  UNCHANGED daily
  BY <1>5 DEF Purchase, Equip, SeeMatchResult, StartPractice, StartDaily, AskForDaily,
       RepeatPractice, ReturnToPracticeMenu, Reload, NextChallenge, dayVars
<1>6. ASSUME NextDay \/ UNCHANGED vars PROVE UNCHANGED daily
  BY <1>6 DEF NextDay, vars
<1> QED  BY <1>2, <1>3, <1>4, <1>5, <1>6 DEF Next

\* The best run of a day and its points are never lost to a worse one.
THEOREM BestStaysBest == Spec => BestIsKept
<1>1. LocalInv /\ [Next]_vars =>
        [\A d \in 1..Days : /\ daily'[d].best >= daily[d].best
                            /\ daily'[d].points >= daily[d].points]_vars
  BY BestStep
<1> QED  BY <1>1, LocalInvariant, PTL DEF Spec, BestIsKept

=============================================================================
