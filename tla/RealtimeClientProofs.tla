------------------------ MODULE RealtimeClientProofs ------------------------
(***************************************************************************)
(* Proofs about RealtimeClient, for every set of requests, their sizes and *)
(* the limits of the outbound queue.                                       *)
(*                                                                         *)
(* The inductive invariant has four parts.  ClientType: the kinds of       *)
(* values and the shapes of the stack of what is suspended.  Owed: a       *)
(* request whose answer is still owed has not been answered, and is owed   *)
(* in one place only.  Unsent: what is queued was neither sent nor         *)
(* answered, and is queued once.  Link: what the suspended listener, the   *)
(* reconnect timer and the state of the WebSocket say of each other.       *)
(***************************************************************************)
EXTENDS RealtimeClient, FiniteSetsExt, SequenceTheorems, WellFoundedInduction, TLAPS

-----------------------------------------------------------------------------
(* The least of a set; queues in which nothing is twice.                   *)

\* A set of naturals that has a member has a least one.
LEMMA LeastExists ==
  ASSUME NEW S \in SUBSET Nat, S # {}
  PROVE  Min(S) \in S /\ \A m \in S : Min(S) <= m
<1> DEFINE R == OpToRel(<, Nat)
<1>1. IsWellFoundedOn(R, Nat)
  BY NatLessThanWellFounded
<1> HIDE DEF R
<1>2. PICK n \in S : \A m \in S : ~(<<m, n>> \in R)
  BY <1>1, WFMin
<1>3. ASSUME NEW m \in S PROVE n <= m
  <2>1. n \in Nat /\ m \in Nat
    OBVIOUS
  <2>2. m < n => <<m, n>> \in R
    BY <2>1 DEF R, OpToRel
  <2> QED  BY <1>2, <2>1, <2>2
<1> QED  BY <1>3 DEF Min

Distinct(q) == \A i, j \in 1..Len(q) : i # j => q[i] # q[j]

LEMMA ToSetIs ==
  ASSUME NEW S, NEW q \in Seq(S)
  PROVE  ToSet(q) = {q[i] : i \in 1..Len(q)} /\ ToSet(q) \subseteq S /\ Len(q) \in Nat
<1>1. DOMAIN q = 1..Len(q) /\ Len(q) \in Nat /\ \A i \in 1..Len(q) : q[i] \in S
  BY ElementOfSeq, LenProperties
<1> QED  BY <1>1 DEF ToSet

\* Without an element the others keep their order, and nothing else is missing.
LEMMA RemovedFirst ==
  ASSUME NEW S, NEW q \in Seq(S), Distinct(q), NEW r
  PROVE  /\ RemoveFirst(q, r) \in Seq(S) /\ Distinct(RemoveFirst(q, r))
         /\ ToSet(RemoveFirst(q, r)) = ToSet(q) \ {r}
<1>0. ToSet(q) = {q[i] : i \in 1..Len(q)} /\ Len(q) \in Nat
      /\ \A i \in 1..Len(q) : q[i] \in S
  BY ToSetIs, ElementOfSeq
<1>1. CASE ~\E i \in 1..Len(q) : q[i] = r
  BY <1>0, <1>1 DEF RemoveFirst
<1>2. CASE \E i \in 1..Len(q) : q[i] = r
  <2> DEFINE I == {i \in 1..Len(q) : q[i] = r}
             k == Min(I)
             p == RemoveAt(q, k)
  <2>1. k \in I
    <3>1. I \in SUBSET Nat /\ I # {}
      BY <1>0, <1>2
    <3> HIDE DEF I
    <3> QED  BY <3>1, LeastExists
  <2>2. RemoveFirst(q, r) = p
    BY <1>2, <2>1 DEF RemoveFirst, SelectInSeq
  <2>3. k \in 1..Len(q) /\ q[k] = r
    BY <2>1
  <2> HIDE DEF k
  <2>4. /\ p \in Seq(S) /\ Len(p) = Len(q) - 1
        /\ \A i \in 1..Len(p) : p[i] = IF i < k THEN q[i] ELSE q[i + 1]
    <3> DEFINE a == SubSeq(q, 1, k - 1)
               b == SubSeq(q, k + 1, Len(q))
    <3>1. /\ a \in Seq(S) /\ Len(a) = k - 1 /\ \A i \in 1..(k - 1) : a[i] = q[i]
      BY <1>0, <2>3, SubSeqProperties
    <3>2. /\ b \in Seq(S) /\ Len(b) = Len(q) - k
          /\ \A i \in 1..(Len(q) - k) : b[i] = q[k + i]
      BY <1>0, <2>3, SubSeqProperties
    <3>3. p = a \o b
      BY DEF RemoveAt
    <3> HIDE DEF a, b, p
    <3>4. /\ p \in Seq(S) /\ Len(p) = Len(a) + Len(b)
          /\ \A i \in 1..Len(p) : p[i] = IF i <= Len(a) THEN a[i] ELSE b[i - Len(a)]
      <4>1. /\ a \o b \in Seq(S) /\ Len(a \o b) = Len(a) + Len(b)
            /\ \A i \in 1..Len(a) + Len(b) :
                 (a \o b)[i] = IF i <= Len(a) THEN a[i] ELSE b[i - Len(a)]
        BY <3>1, <3>2, ConcatProperties
      <4> QED  BY <3>3, <4>1
    <3>5. Len(p) = Len(q) - 1
      BY <1>0, <2>3, <3>1, <3>2, <3>4
    <3>6. ASSUME NEW i \in 1..Len(p) PROVE p[i] = IF i < k THEN q[i] ELSE q[i + 1]
      <4>1. CASE i < k
        BY <1>0, <2>3, <3>1, <3>4, <3>5, <4>1
      <4>2. CASE ~(i < k)
        <5>1. p[i] = b[i - (k - 1)] /\ i - (k - 1) \in 1..(Len(q) - k)
          BY <1>0, <2>3, <3>1, <3>4, <3>5, <4>2
        <5>2. k + (i - (k - 1)) = i + 1
          BY <1>0, <2>3
        <5> QED  BY <3>2, <4>2, <5>1, <5>2
      <4> QED  BY <4>1, <4>2
    <3> QED  BY <3>4, <3>5, <3>6
  <2> HIDE DEF p
  <2>5. ASSUME NEW i \in 1..Len(p)
        PROVE  \E j \in 1..Len(q) : j # k /\ p[i] = q[j] /\ j = IF i < k THEN i ELSE i + 1
    BY <1>0, <2>3, <2>4
  <2>6. ToSet(p) = {p[i] : i \in 1..Len(p)}
    BY <2>4, ToSetIs
  <2>7. ToSet(p) = ToSet(q) \ {r}
    <3>1. ToSet(p) \subseteq ToSet(q) \ {r}
      BY <1>0, <2>3, <2>5, <2>6 DEF Distinct
    <3>2. ASSUME NEW j \in 1..Len(q), q[j] # r PROVE q[j] \in ToSet(p)
      <4> DEFINE i == IF j < k THEN j ELSE j - 1
      <4>1. i \in 1..Len(p) /\ p[i] = q[j]
        BY <1>0, <2>3, <2>4, <3>2
      <4> QED  BY <2>6, <4>1
    <3> QED  BY <1>0, <3>1, <3>2
  <2>8. Distinct(p)
    <3> SUFFICES ASSUME NEW i \in 1..Len(p), NEW j \in 1..Len(p), i # j PROVE p[i] # p[j]
      BY DEF Distinct
    <3>1. PICK x \in 1..Len(q) : p[i] = q[x] /\ x = IF i < k THEN i ELSE i + 1
      BY <2>5
    <3>2. PICK y \in 1..Len(q) : p[j] = q[y] /\ y = IF j < k THEN j ELSE j + 1
      BY <2>5
    <3>3. x # y
      BY <1>0, <2>3, <3>1, <3>2
    <3> QED  BY <3>1, <3>2, <3>3 DEF Distinct
  <2> QED  BY <2>2, <2>4, <2>7, <2>8
<1> QED  BY <1>1, <1>2

\* An element more at the end.
LEMMA AppendedQueue ==
  ASSUME NEW S, NEW q \in Seq(S), Distinct(q), NEW r \in S, r \notin ToSet(q)
  PROVE  /\ Append(q, r) \in Seq(S) /\ Distinct(Append(q, r))
         /\ ToSet(Append(q, r)) = ToSet(q) \cup {r}
<1> DEFINE p == Append(q, r)
<1>0. ToSet(q) = {q[i] : i \in 1..Len(q)} /\ Len(q) \in Nat
  BY ToSetIs
<1>1. /\ p \in Seq(S) /\ Len(p) = Len(q) + 1
      /\ \A i \in 1..Len(q) : p[i] = q[i]
      /\ p[Len(q) + 1] = r
  BY AppendProperties
<1> HIDE DEF p
<1>2. ToSet(p) = {p[i] : i \in 1..Len(p)}
  BY <1>1, ToSetIs
<1>3. ToSet(p) = ToSet(q) \cup {r}
  <2>1. ToSet(p) \subseteq ToSet(q) \cup {r}
    BY <1>0, <1>1, <1>2
  <2>2. ToSet(q) \subseteq ToSet(p)
    BY <1>0, <1>1, <1>2
  <2>3. r \in ToSet(p)
    <3>1. Len(q) + 1 \in 1..Len(p)
      BY <1>0, <1>1
    <3> QED  BY <1>1, <1>2, <3>1
  <2> QED  BY <2>1, <2>2, <2>3
<1>4. Distinct(p)
  BY <1>0, <1>1 DEF Distinct
<1> QED  BY <1>1, <1>3, <1>4 DEF p

\* The empty queue.
LEMMA NoQueue ==
  ASSUME NEW S
  PROVE  <<>> \in Seq(S) /\ Distinct(<<>>) /\ ToSet(<<>>) = {}
<1>1. <<>> \in Seq(S) /\ Len(<<>>) = 0
  BY EmptySeq
<1>2. ToSet(<<>>) = {}
  <2>1. DOMAIN <<>> = {}
    OBVIOUS
  <2> QED  BY <2>1 DEF ToSet
<1> QED  BY <1>1, <1>2 DEF Distinct

-----------------------------------------------------------------------------
(* The outbound queue.                                                     *)

\* removeQueuedMessage: the request leaves the queue, the others keep their order.
LEMMA WithoutQueue ==
  ASSUME NEW S, NEW q \in Seq(S), Distinct(q), NEW r
  PROVE  /\ Without(q, r) \in Seq(S) /\ Distinct(Without(q, r))
         /\ ToSet(Without(q, r)) = ToSet(q) \ {r}
  BY RemovedFirst DEF Without

USE RequestAssumption, QueueAssumption

\* The empty queue fits, so the queue is never left too long.
LEMMA EmptyFits == Fits(<<>>)
<1>1. BytesOf(<<>>) = 0
  <2>1. DOMAIN <<>> = {}
    OBVIOUS
  <2> QED  BY <2>1 DEF BytesOf, FoldSeq, FoldFunction, FoldFunctionOnSet, MapThenFoldSet
<1> QED  BY <1>1 DEF Fits

\* The number of messages that have to go is one of the queue's lengths.
LEMMA ExcessIs ==
  ASSUME NEW S, NEW q \in Seq(S)
  PROVE  Excess(q) \in 0..Len(q)
<1> DEFINE K == {k \in 0..Len(q) : Fits(SubSeq(q, k + 1, Len(q)))}
<1>1. Len(q) \in Nat
  BY LenProperties
<1>2. Len(q) \in K
  <2>1. SubSeq(q, Len(q) + 1, Len(q)) = <<>>
    BY <1>1, SubSeqEmpty
  <2>2. Fits(SubSeq(q, Len(q) + 1, Len(q)))
    BY <2>1, EmptyFits
  <2> QED  BY <1>1, <2>2
<1>3. K \in SUBSET Nat /\ K # {}
  BY <1>1, <1>2
<1>4. PICK n \in K : \A m \in K : n <= m
  <2> HIDE DEF K
  <2>1. Min(K) \in K /\ \A m \in K : Min(K) <= m
    BY <1>3, LeastExists
  <2> QED  BY <2>1
<1>5. \A j \in 0..(n - 1) : ~Fits(SubSeq(q, j + 1, Len(q)))
  <2> SUFFICES ASSUME NEW j \in 0..(n - 1), Fits(SubSeq(q, j + 1, Len(q))) PROVE FALSE
    OBVIOUS
  <2>1. j \in K /\ n \in Nat
    BY <1>1
  <2> QED  BY <1>4, <2>1
<1> QED  BY <1>4, <1>5 DEF Excess

\* A queue and what it drops have nothing in common.
LEMMA DroppedQueue ==
  ASSUME NEW S, NEW q \in Seq(S), Distinct(q), NEW k \in 0..Len(q)
  PROVE  LET kept == SubSeq(q, k + 1, Len(q))  dropped == ToSet(SubSeq(q, 1, k))
         IN  /\ kept \in Seq(S) /\ Distinct(kept)
             /\ ToSet(kept) \subseteq ToSet(q) \ dropped /\ dropped \subseteq ToSet(q)
<1> DEFINE kept == SubSeq(q, k + 1, Len(q))
           gone == SubSeq(q, 1, k)
<1>0. ToSet(q) = {q[i] : i \in 1..Len(q)} /\ Len(q) \in Nat
      /\ \A i \in 1..Len(q) : q[i] \in S
  BY ToSetIs, ElementOfSeq
<1>1. /\ kept \in Seq(S) /\ Len(kept) = Len(q) - k
      /\ \A i \in 1..Len(q) - k : kept[i] = q[k + i]
  BY <1>0, SubSeqProperties
<1>2. /\ gone \in Seq(S) /\ Len(gone) = k
      /\ \A i \in 1..k : gone[i] = q[i]
  BY <1>0, SubSeqProperties
<1> HIDE DEF kept, gone
<1>3. ToSet(kept) = {kept[i] : i \in 1..Len(kept)} /\ ToSet(gone) = {gone[i] : i \in 1..Len(gone)}
  BY <1>1, <1>2, ToSetIs
<1>4. Distinct(kept)
  <2> SUFFICES ASSUME NEW i \in 1..Len(q) - k, NEW j \in 1..Len(q) - k, i # j
               PROVE  kept[i] # kept[j]
    BY <1>1 DEF Distinct
  <2>1. k + i \in 1..Len(q) /\ k + j \in 1..Len(q) /\ k + i # k + j
    BY <1>0
  <2>2. q[k + i] # q[k + j]
    BY <2>1 DEF Distinct
  <2> QED  BY <1>1, <2>2
<1>5. ToSet(gone) \subseteq ToSet(q)
  BY <1>0, <1>2, <1>3
<1>6. ToSet(kept) \subseteq ToSet(q)
  BY <1>0, <1>1, <1>3
<1>7. ASSUME NEW x \in ToSet(kept), x \in ToSet(gone) PROVE FALSE
  <2>1. PICK i \in 1..Len(q) - k : x = q[k + i]
    BY <1>1, <1>3
  <2>2. PICK j \in 1..k : x = q[j]
    BY <1>2, <1>3, <1>7
  <2>3. k + i \in 1..Len(q) /\ j \in 1..Len(q) /\ j # k + i
    BY <1>0
  <2> QED  BY <2>1, <2>2, <2>3 DEF Distinct
<1>8. /\ kept \in Seq(S) /\ Distinct(kept)
      /\ ToSet(kept) \subseteq ToSet(q) \ ToSet(gone) /\ ToSet(gone) \subseteq ToSet(q)
  BY <1>1, <1>4, <1>5, <1>6, <1>7
<1> QED  BY <1>8 DEF kept, gone

LEMMA OnceIs ==
  ASSUME NEW count \in [Requests -> Nat], NEW R
  PROVE  /\ Once(count, R) \in [Requests -> Nat]
         /\ \A r \in Requests : r \in R => Once(count, R)[r] = count[r] + 1
         /\ \A r \in Requests : r \notin R => Once(count, R)[r] = count[r]
  BY DEF Once

-----------------------------------------------------------------------------
(* The invariant.                                                          *)

\* Nothing is delivered while a listener runs, but it may call disconnect, once.
Stacks ==
  {<<>>} \cup {<<f>> : f \in Frames}
         \cup {<<"disconnect", f>> : f \in Frames \ {"disconnect"}}

\* The listener or callback that is suspended below a disconnect.
Below ==
  IF calls = <<>> THEN "none"
  ELSE IF Head(calls) # "disconnect" THEN Head(calls)
  ELSE IF Tail(calls) = <<>> THEN "none" ELSE Head(Tail(calls))

ClientType ==
  /\ ws \in {"connecting", "open", "closing", "closed"}
  /\ attached \in BOOLEAN /\ manuallyClosed \in BOOLEAN /\ reconnectTimer \in BOOLEAN
  /\ pending \subseteq Acked /\ failing \subseteq Acked
  /\ emitted \subseteq Requests /\ wire \subseteq Requests
  /\ queue \in Seq(Replayable) /\ calls \in Stacks
  /\ sent \in [Requests -> Nat] /\ answers \in [Requests -> Nat]

Owed ==
  /\ pending \cap failing = {} /\ pending \cup failing \subseteq emitted
  /\ \A r \in pending \cup failing : answers[r] = 0
  /\ \A r \in Requests : answers[r] <= 1 /\ (r \notin emitted => answers[r] = 0)

Unsent ==
  /\ Distinct(queue)
  /\ \A r \in ToSet(queue) : r \in emitted /\ sent[r] = 0 /\ answers[r] = 0
  /\ \A r \in Requests : sent[r] <= 1 /\ (r \notin emitted => sent[r] = 0)

ClosingFrames == {"replaced", "lost", "closed", "reconnect"}
Link ==
  /\ ws # "closed" \/ manuallyClosed \/ Below \in ClosingFrames => ~reconnectTimer
  /\ Below = "open" => ws # "closed"
  /\ Below \in ClosingFrames => ws = "closed"
  /\ Below = "closed" => manuallyClosed
  /\ ~Idle /\ Head(calls) = "disconnect" => manuallyClosed
  /\ Below = "none" /\ ws = "closed" /\ ~manuallyClosed => reconnectTimer

SocketInv == ClientType /\ Owed /\ Unsent /\ Link

\* What holds of the links and the stack alone.
LEMMA LinkUnchanged ==
  ASSUME Link, UNCHANGED <<linkVars, calls>>
  PROVE  Link'
  BY DEF Link, linkVars, Below, ClosingFrames, Idle

LEMMA EmitKeeps ==
  ASSUME SocketInv, NEW r \in Requests, Emit(r)
  PROVE  SocketInv'
<1> USE DEF SocketInv, linkVars
<1>0. /\ r \notin emitted /\ emitted' = emitted \cup {r}
      /\ UNCHANGED <<linkVars, failing, calls>>
      /\ r \notin pending /\ r \notin failing /\ r \notin ToSet(queue)
      /\ answers[r] = 0 /\ sent[r] = 0
  BY DEF Emit, Owed, Unsent
<1>1. Link'
  BY <1>0, LinkUnchanged
<1>2. CASE EmitOpen(r)
  <2>1. /\ sent' \in [Requests -> Nat] /\ sent'[r] = 1
        /\ \A x \in Requests \ {r} : sent'[x] = sent[x]
    <3>1. sent \in [Requests -> Nat] /\ sent' = Once(sent, {r})
      BY <1>2 DEF EmitOpen, ClientType
    <3> QED  BY <1>0, <3>1 DEF Once
  <2>2. UNCHANGED <<queue, answers>> /\ wire' = wire \cup {r}
        /\ pending' = pending \cup ({r} \cap Acked)
    BY <1>2 DEF EmitOpen
  <2>3. ClientType'
    BY <1>0, <2>1, <2>2 DEF ClientType
  <2>4. Owed'
    BY <1>0, <2>2 DEF Owed
  <2>5. Unsent'
    BY <1>0, <2>1, <2>2 DEF Unsent, ClientType
  <2> QED  BY <1>1, <2>3, <2>4, <2>5
<1>3. CASE EmitRefused(r)
  <2>1. /\ answers' \in [Requests -> Nat] /\ answers'[r] \in {0, 1}
        /\ \A x \in Requests \ {r} : answers'[x] = answers[x]
    <3>1. answers \in [Requests -> Nat] /\ answers' = Once(answers, {r} \cap Acked)
      BY <1>3 DEF EmitRefused, ClientType
    <3> QED  BY <1>0, <3>1 DEF Once
  <2>2. UNCHANGED <<queue, pending, sent, wire>>
    BY <1>3 DEF EmitRefused
  <2>3. ClientType'
    BY <1>0, <2>1, <2>2 DEF ClientType
  <2>4. Owed'
    BY <1>0, <2>1, <2>2 DEF Owed, ClientType
  <2>5. Unsent'
    <3>1. ToSet(queue) \subseteq Requests
      BY ToSetIs DEF ClientType
    <3> QED  BY <1>0, <2>1, <2>2, <3>1 DEF Unsent
  <2> QED  BY <1>1, <2>3, <2>4, <2>5
<1>4. CASE EmitQueued(r)
  <2> DEFINE q == Append(queue, r)
             k == Excess(q)
             dropped == ToSet(SubSeq(q, 1, k))
             told == dropped \cap (pending \cup {r})
  <2>1. r \in Replayable /\ q \in Seq(Replayable) /\ Distinct(q)
        /\ ToSet(q) = ToSet(queue) \cup {r}
    BY <1>0, <1>4, AppendedQueue DEF EmitQueued, Unsent, ClientType
  <2>2. /\ queue' = SubSeq(q, k + 1, Len(q)) /\ pending' = (pending \cup {r}) \ dropped
        /\ answers' = Once(answers, told) /\ UNCHANGED <<sent, wire>>
    BY <1>4 DEF EmitQueued
  <2> HIDE DEF q
  <2>3. k \in 0..Len(q)
    BY <2>1, ExcessIs
  <2> HIDE DEF k
  <2>4. /\ queue' \in Seq(Replayable) /\ Distinct(queue)'
        /\ ToSet(queue') \subseteq ToSet(q) \ dropped
    <3>1. Distinct(SubSeq(q, k + 1, Len(q)))
      BY <2>1, <2>3, DroppedQueue
    <3> QED  BY <2>1, <2>2, <2>3, <3>1, DroppedQueue DEF Distinct
  <2> HIDE DEF dropped
  <2>5. /\ answers' \in [Requests -> Nat]
        /\ \A x \in Requests : x \in told => answers'[x] = answers[x] + 1
        /\ \A x \in Requests : x \notin told => answers'[x] = answers[x]
    <3>1. answers \in [Requests -> Nat]
      BY DEF ClientType
    <3> QED  BY <2>2, <3>1, OnceIs
  <2>6. \A x \in told : answers[x] = 0
    BY <1>0 DEF Owed
  <2>7. told \subseteq emitted' /\ told \cap pending' = {} /\ told \cap failing = {}
    BY <1>0, <2>2 DEF Owed
  <2> HIDE DEF told
  <2>8. ClientType'
    BY <1>0, <2>1, <2>2, <2>4, <2>5 DEF ClientType
  <2>9. Owed'
    BY <1>0, <2>1, <2>2, <2>5, <2>6, <2>7 DEF Owed, ClientType
  <2>10. Unsent'
    <3>1. ASSUME NEW x \in ToSet(queue')
          PROVE  x \in emitted' /\ sent'[x] = 0 /\ answers'[x] = 0
      <4>1. x \in ToSet(queue) \cup {r} /\ x \notin dropped /\ x \in Requests
        BY <2>1, <2>4, ToSetIs DEF ClientType
      <4>2. x \notin told
        BY <4>1 DEF told
      <4> QED  BY <1>0, <2>2, <2>5, <4>1, <4>2 DEF Unsent
    <3> QED  BY <1>0, <2>2, <2>4, <3>1 DEF Unsent
  <2> QED  BY <1>1, <2>8, <2>9, <2>10
<1> QED  BY <1>2, <1>3, <1>4 DEF Emit

\* A callback that is owed is called, and its message is taken out of the queue.
LEMMA AnswerKeeps ==
  ASSUME SocketInv, NEW r \in pending \cup failing,
         answers' = Once(answers, {r}), queue' = Without(queue, r),
         pending' = pending \ {r}, failing' = failing \ {r},
         UNCHANGED <<emitted, sent>>
  PROVE  /\ Owed' /\ Unsent' /\ queue' \in Seq(Replayable)
         /\ answers' \in [Requests -> Nat]
<1> USE DEF SocketInv
<1>0. r \in Requests /\ answers[r] = 0 /\ answers \in [Requests -> Nat]
  BY DEF ClientType, Owed
<1>1. /\ answers' \in [Requests -> Nat] /\ answers'[r] = 1
      /\ \A x \in Requests \ {r} : answers'[x] = answers[x]
  BY <1>0 DEF Once
<1>2. /\ queue' \in Seq(Replayable) /\ Distinct(queue)'
      /\ ToSet(queue)' \subseteq ToSet(queue) \ {r}
  <2>1. queue \in Seq(Replayable) /\ Distinct(queue)
    BY DEF ClientType, Unsent
  <2>2. /\ Without(queue, r) \in Seq(Replayable) /\ Distinct(Without(queue, r))
        /\ ToSet(Without(queue, r)) \subseteq ToSet(queue) \ {r}
    BY <2>1, WithoutQueue
  <2> QED  BY <2>2 DEF Distinct, ToSet
<1>3. Owed'
  <2>1. pending' \cap failing' = {} /\ pending' \cup failing' \subseteq emitted'
    BY DEF Owed
  <2>2. \A x \in pending' \cup failing' : x # r /\ x \in Requests /\ answers[x] = 0
    BY DEF Owed, ClientType
  <2>3. \A x \in Requests : answers'[x] <= 1 /\ (x \notin emitted' => answers'[x] = 0)
    <3>1. r \in emitted
      BY DEF Owed
    <3>2. \A x \in Requests : answers[x] <= 1 /\ (x \notin emitted => answers[x] = 0)
      BY DEF Owed
    <3> QED  BY <1>0, <1>1, <3>1, <3>2
  <2> QED  BY <1>1, <2>1, <2>2, <2>3 DEF Owed
<1>4. Unsent'
  <2>1. ToSet(queue) \subseteq Requests
    BY ToSetIs DEF ClientType
  <2> QED  BY <1>0, <1>1, <1>2, <2>1 DEF Unsent
<1> QED  BY <1>1, <1>2, <1>3, <1>4

LEMMA TimeoutKeeps ==
  ASSUME SocketInv, NEW r \in Requests, Timeout(r)
  PROVE  SocketInv'
<1> USE DEF SocketInv, linkVars
<1>1. r \in pending /\ failing \ {r} = failing
  BY DEF Timeout, Owed
<1>2. Owed' /\ Unsent' /\ queue' \in Seq(Replayable) /\ answers' \in [Requests -> Nat]
  BY <1>1, AnswerKeeps DEF Timeout
<1>3. Link'
  BY LinkUnchanged DEF Timeout
<1>4. ClientType'
  BY <1>2 DEF Timeout, ClientType
<1> QED  BY <1>2, <1>3, <1>4

LEMMA CallFailedKeeps ==
  ASSUME SocketInv, NEW r \in Requests, CallFailed(r)
  PROVE  SocketInv'
<1> USE DEF SocketInv, linkVars
<1>1. r \in failing /\ pending \ {r} = pending
  BY DEF CallFailed, Owed
<1>2. Owed' /\ Unsent' /\ queue' \in Seq(Replayable) /\ answers' \in [Requests -> Nat]
  BY <1>1, AnswerKeeps DEF CallFailed
<1>3. Link'
  BY LinkUnchanged DEF CallFailed
<1>4. ClientType'
  BY <1>2 DEF CallFailed, ClientType
<1> QED  BY <1>2, <1>3, <1>4

LEMMA AnswerEventKeeps ==
  ASSUME SocketInv, NEW r \in Requests, AnswerEvent(r)
  PROVE  SocketInv'
<1> USE DEF SocketInv, linkVars
<1>1. Owed' /\ Unsent' /\ queue' \in Seq(Replayable) /\ answers' \in [Requests -> Nat]
  <2>1. CASE r \in pending
    <3>1. {r} \cap pending = {r} /\ failing \ {r} = failing
      BY <2>1 DEF Owed
    <3>2. /\ answers' = Once(answers, {r}) /\ queue' = Without(queue, r)
          /\ pending' = pending \ {r} /\ UNCHANGED <<failing, emitted, sent>>
      BY <2>1, <3>1 DEF AnswerEvent
    <3> QED  BY <2>1, <3>1, <3>2, AnswerKeeps
  <2>2. CASE r \notin pending
    <3>1. {r} \cap pending = {} /\ pending \ {r} = pending
      BY <2>2
    <3>2. answers \in [Requests -> Nat]
      BY DEF ClientType
    <3>3. answers' = answers
      BY <3>1, <3>2 DEF AnswerEvent, Once
    <3>4. UNCHANGED <<queue, pending, failing, emitted, sent>>
      BY <2>2, <3>1 DEF AnswerEvent
    <3> QED  BY <3>2, <3>3, <3>4 DEF Owed, Unsent, ClientType
  <2> QED  BY <2>1, <2>2
<1>2. Link'
  BY LinkUnchanged DEF AnswerEvent
<1>3. ClientType'
  BY <1>1 DEF AnswerEvent, ClientType
<1> QED  BY <1>1, <1>2, <1>3

\* The shapes of the stack.
LEMMA StackShapes ==
  ASSUME calls \in Stacks
  PROVE  \/ calls = <<>> /\ Idle /\ Below = "none"
         \/ \E f \in Frames \ {"disconnect"} :
               /\ calls = <<f>> /\ ~Idle /\ Head(calls) = f /\ Tail(calls) = <<>>
               /\ Below = f /\ Len(calls) = 1 /\ calls[1] = f
         \/ /\ calls = <<"disconnect">> /\ ~Idle /\ Head(calls) = "disconnect"
            /\ Tail(calls) = <<>> /\ Below = "none" /\ Len(calls) = 1
            /\ calls[1] = "disconnect"
         \/ \E f \in Frames \ {"disconnect"} :
               /\ calls = <<"disconnect", f>> /\ ~Idle /\ Head(calls) = "disconnect"
               /\ Tail(calls) = <<f>> /\ Below = f /\ Len(calls) = 2
               /\ calls[1] = "disconnect"
<1>1. CASE calls = <<>>
  BY <1>1 DEF Idle, Below
<1>2. CASE \E f \in Frames : calls = <<f>>
  <2>1. PICK f \in Frames : calls = <<f>>
    BY <1>2
  <2>2. calls # <<>> /\ Head(calls) = f /\ Tail(calls) = <<>> /\ Len(calls) = 1 /\ calls[1] = f
    BY <2>1
  <2> QED  BY <2>1, <2>2 DEF Idle, Below
<1>3. CASE \E f \in Frames \ {"disconnect"} : calls = <<"disconnect", f>>
  <2>1. PICK f \in Frames \ {"disconnect"} : calls = <<"disconnect", f>>
    BY <1>3
  <2>2. /\ calls # <<>> /\ Head(calls) = "disconnect" /\ Tail(calls) = <<f>>
        /\ Len(calls) = 2 /\ calls[1] = "disconnect"
    BY <2>1
  <2>3. <<f>> # <<>> /\ Head(<<f>>) = f
    OBVIOUS
  <2> QED  BY <2>1, <2>2, <2>3 DEF Idle, Below
<1> QED  BY <1>1, <1>2, <1>3 DEF Stacks

LEMMA PairOf ==
  ASSUME NEW S, NEW a \in S, NEW b \in S
  PROVE  <<a>> \o <<b>> = <<a, b>>
<1>1. <<a>> \in Seq(S) /\ <<b>> \in Seq(S) /\ Len(<<a>>) = 1 /\ Len(<<b>>) = 1
  OBVIOUS
<1>2. /\ <<a>> \o <<b>> \in Seq(S) /\ Len(<<a>> \o <<b>>) = 2
      /\ (<<a>> \o <<b>>)[1] = a /\ (<<a>> \o <<b>>)[2] = b
  BY <1>1, ConcatProperties
<1>3. <<a, b>> \in Seq(S) /\ Len(<<a, b>>) = 2 /\ <<a, b>>[1] = a /\ <<a, b>>[2] = b
  OBVIOUS
<1> DEFINE p == <<a>> \o <<b>>
           q == <<a, b>>
<1> HIDE DEF p, q
<1>4. Len(p) = Len(q) /\ \A i \in 1..Len(p) : p[i] = q[i]
  BY <1>2, <1>3 DEF p, q
<1>5. p = q
  BY <1>2, <1>3, <1>4, SeqEqual DEF p, q
<1> QED  BY <1>5 DEF p, q

LEMMA DisconnectKeeps ==
  ASSUME SocketInv, Disconnect
  PROVE  SocketInv'
<1> USE DEF SocketInv
<1>1. calls' \in Stacks /\ Below' = Below /\ Head(calls') = "disconnect" /\ calls' # <<>>
  <2>1. calls \in Stacks
    BY DEF ClientType
  <2>2. CASE calls = <<>>
    <3>1. calls' = <<"disconnect">>
      BY <2>2 DEF Disconnect
    <3> QED  BY <2>2, <3>1 DEF Stacks, Frames, Below
  <2>3. CASE \E f \in Frames \ {"disconnect"} : calls = <<f>>
    <3>1. PICK f \in Frames \ {"disconnect"} : calls = <<f>>
      BY <2>3
    <3>2. calls' = <<"disconnect", f>>
      BY <3>1, PairOf DEF Disconnect, Frames
    <3> QED  BY <3>1, <3>2 DEF Stacks, Below
  <2>4. Len(calls) # 0 => calls[1] # "disconnect"
    BY <2>1, StackShapes DEF Disconnect
  <2> QED  BY <2>1, <2>2, <2>3, <2>4, StackShapes
<1>2. Link'
  BY <1>1 DEF Disconnect, Link, Idle, ClosingFrames
<1>3. Owed'
  BY DEF Disconnect, Owed
<1>4. Unsent'
  <2>1. queue' = <<>> /\ UNCHANGED <<emitted, sent, answers>>
    BY DEF Disconnect
  <2>2. Distinct(queue)' /\ ToSet(queue)' = {}
    BY <2>1, NoQueue DEF Distinct, ToSet
  <2> QED  BY <2>1, <2>2 DEF Unsent
<1>5. ClientType'
  BY <1>1, NoQueue DEF Disconnect, ClientType
<1> QED  BY <1>2, <1>3, <1>4, <1>5

LEMMA FinishDisconnectKeeps ==
  ASSUME SocketInv, FinishDisconnect
  PROVE  SocketInv'
<1> USE DEF SocketInv
<1>1. calls' \in Stacks /\ Below' = Below /\ (calls' = <<>> \/ Head(calls') # "disconnect")
      /\ ~Idle /\ Head(calls) = "disconnect"
  <2>1. calls \in Stacks /\ calls' = Tail(calls) /\ ~Idle /\ Head(calls) = "disconnect"
    BY DEF FinishDisconnect, ClientType
  <2>2. CASE calls = <<"disconnect">>
    BY <2>1, <2>2 DEF Stacks, Below
  <2>3. CASE \E f \in Frames \ {"disconnect"} : calls = <<"disconnect", f>>
    <3>1. PICK f \in Frames \ {"disconnect"} : calls = <<"disconnect", f>>
      BY <2>3
    <3>2. calls' = <<f>>
      BY <2>1, <3>1
    <3> QED  BY <2>1, <3>1, <3>2 DEF Stacks, Below
  <2> QED  BY <2>1, <2>2, <2>3, StackShapes
<1>2. Link'
  BY <1>1 DEF FinishDisconnect, Link, Idle, ClosingFrames, ClientType
<1>3. Owed' /\ Unsent'
  BY DEF FinishDisconnect, Owed, Unsent
<1>4. ClientType'
  BY <1>1 DEF FinishDisconnect, ClientType
<1> QED  BY <1>2, <1>3, <1>4

\* One frame on the stack.
LEMMA OneFrame ==
  ASSUME NEW f \in Frames \ {"disconnect"}, calls' = <<f>>
  PROVE  calls' \in Stacks /\ Below' = f /\ ~Idle' /\ Head(calls') = f
  BY DEF Stacks, Below, Idle

\* Unless a disconnect is on top, the frame on top is the only one.
LEMMA TopFrame ==
  ASSUME calls \in Stacks, ~Idle, Head(calls) # "disconnect"
  PROVE  Below = Head(calls) /\ Tail(calls) = <<>>
  BY StackShapes

LEMMA NoFrame ==
  ASSUME calls' = <<>>
  PROVE  calls' \in Stacks /\ Below' = "none" /\ Idle'
  BY DEF Stacks, Below, Idle

LEMMA EventKeeps ==
  ASSUME SocketInv, OpenEvent \/ Reconnect \/ \E code \in {1006, 4000} : CloseEvent(code)
  PROVE  SocketInv'
<1> USE DEF SocketInv, linkVars
<1>1. Idle /\ Below = "none"
  BY DEF OpenEvent, Reconnect, CloseEvent, Idle, Below
<1>2. UNCHANGED <<pending, failing, queue, emitted, sent, answers, manuallyClosed>>
  BY DEF OpenEvent, Reconnect, CloseEvent
<1>3. Owed' /\ Unsent'
  BY <1>2 DEF Owed, Unsent
<1>4. CASE OpenEvent
  <2>1. calls' \in Stacks /\ Below' = "open" /\ ~Idle' /\ Head(calls') = "open"
    BY <1>4, OneFrame DEF OpenEvent, Frames
  <2>2. Link'
    BY <1>1, <1>4, <2>1 DEF OpenEvent, Link, ClosingFrames
  <2>3. ClientType'
    BY <1>2, <1>4, <2>1 DEF OpenEvent, ClientType
  <2> QED  BY <1>3, <2>2, <2>3
<1>5. CASE Reconnect
  <2>1. Link'
    BY <1>1, <1>5 DEF Reconnect, Link, ClosingFrames, Idle, Below, ClientType
  <2>2. ClientType'
    <3>1. UNCHANGED <<calls, wire>> /\ reconnectTimer' = FALSE
      BY <1>5 DEF Reconnect
    <3>2. ws' \in {"connecting", "open", "closing", "closed"} /\ attached' \in BOOLEAN
      <4>1. CASE manuallyClosed
        <5>1. ws' = ws /\ attached' = attached
          BY <1>5, <4>1 DEF Reconnect
        <5> QED  BY <5>1 DEF ClientType
      <4>2. CASE ~manuallyClosed
        <5>1. ws' = "connecting" /\ attached' = TRUE
          BY <1>5, <4>2 DEF Reconnect
        <5> QED  BY <5>1
      <4> QED  BY <4>1, <4>2
    <3>3. manuallyClosed' \in BOOLEAN /\ reconnectTimer' \in BOOLEAN
      <4>1. manuallyClosed' = manuallyClosed /\ reconnectTimer' = FALSE
        BY <1>2, <3>1
      <4>2. manuallyClosed' \in BOOLEAN
        BY <4>1 DEF ClientType
      <4>3. reconnectTimer' \in BOOLEAN
        BY <4>1
      <4> QED  BY <4>2, <4>3
    <3> QED  BY <1>2, <3>1, <3>2, <3>3 DEF ClientType
  <2> QED  BY <1>3, <2>1, <2>2
<1>6. ASSUME NEW code \in {1006, 4000}, CloseEvent(code) PROVE SocketInv'
  <2>1. PICK f \in {"replaced", "closed", "lost"} :
          calls' = <<f>> /\ (f = "closed" => manuallyClosed)
    BY <1>6 DEF CloseEvent
  <2>2. calls' \in Stacks /\ Below' = f /\ ~Idle' /\ Head(calls') = f
    BY <2>1, OneFrame DEF Frames
  <2>3. Link'
    BY <1>1, <1>2, <1>6, <2>1, <2>2 DEF CloseEvent, Link, ClosingFrames
  <2>4. ClientType'
    BY <1>2, <1>6, <2>2 DEF CloseEvent, ClientType
  <2> QED  BY <1>3, <2>3, <2>4
<1> QED  BY <1>4, <1>5, <1>6

LEMMA FlushKeeps ==
  ASSUME SocketInv, FlushOutboundMessages
  PROVE  SocketInv'
<1> USE DEF SocketInv, linkVars
<1>0. /\ ~Idle /\ Head(calls) = "open" /\ calls' = Tail(calls)
      /\ UNCHANGED <<linkVars, pending, failing, emitted, answers>>
  BY DEF FlushOutboundMessages
<1>1. Below = "open" /\ calls' \in Stacks /\ Below' = "none" /\ Idle'
  BY <1>0, TopFrame, NoFrame DEF ClientType
<1>2. Link'
  BY <1>0, <1>1 DEF Link, ClosingFrames
<1>3. Owed'
  BY <1>0 DEF Owed
<1>4. Unsent' /\ queue' \in Seq(Replayable) /\ sent' \in [Requests -> Nat]
      /\ wire' \subseteq Requests
  <2>0. queue \in Seq(Replayable) /\ sent \in [Requests -> Nat] /\ wire \subseteq Requests
        /\ ToSet(queue) \subseteq Requests
    BY ToSetIs DEF ClientType
  <2>1. CASE IsOpen
    <3>1. /\ sent' = Once(sent, ToSet(queue)) /\ wire' = wire \cup ToSet(queue)
          /\ queue' = <<>>
      BY <2>1 DEF FlushOutboundMessages
    <3>2. Distinct(queue)' /\ ToSet(queue)' = {} /\ queue' \in Seq(Replayable)
      BY <3>1, NoQueue DEF Distinct, ToSet
    <3>3. /\ sent' \in [Requests -> Nat]
          /\ \A r \in Requests : r \in ToSet(queue) => sent'[r] = sent[r] + 1
          /\ \A r \in Requests : r \notin ToSet(queue) => sent'[r] = sent[r]
      BY <2>0, <3>1, OnceIs
    <3>4. \A r \in Requests : sent'[r] <= 1 /\ (r \notin emitted' => sent'[r] = 0)
      BY <1>0, <3>3 DEF Unsent
    <3> QED  BY <2>0, <3>1, <3>2, <3>3, <3>4 DEF Unsent
  <2>2. CASE ~IsOpen
    BY <1>0, <2>0, <2>2 DEF FlushOutboundMessages, Unsent
  <2> QED  BY <2>1, <2>2
<1>5. ClientType'
  BY <1>0, <1>1, <1>4 DEF ClientType
<1> QED  BY <1>2, <1>3, <1>4, <1>5

LEMMA CloseKeeps ==
  ASSUME SocketInv, FailPendingAcks \/ FinishClose
  PROVE  SocketInv'
<1> USE DEF SocketInv, linkVars
<1>0. /\ failing = {} /\ ~Idle /\ Head(calls) \in ClosingFrames
      /\ UNCHANGED <<ws, queue, emitted, wire, sent, answers>>
  BY DEF FailPendingAcks, FinishClose, ClosingFrames
<1>1. Below = Head(calls) /\ ws = "closed" /\ ~reconnectTimer
  BY <1>0, TopFrame DEF ClientType, Link, ClosingFrames
<1>2. Unsent'
  BY <1>0 DEF Unsent
<1>3. Owed'
  BY <1>0 DEF FailPendingAcks, FinishClose, Owed
<1>4. CASE FailPendingAcks
  <2>1. PICK f \in {"reconnect", "closed"} :
          calls' = <<f>> /\ (f = "closed" <=> Head(calls) = "replaced")
    BY <1>4 DEF FailPendingAcks
  <2>2. calls' \in Stacks /\ Below' = f /\ ~Idle' /\ Head(calls') = f
    BY <2>1, OneFrame DEF Frames
  <2>3. Link'
    BY <1>0, <1>1, <1>4, <2>1, <2>2 DEF FailPendingAcks, Link, ClosingFrames
  <2>4. ClientType'
    BY <1>0, <1>4, <2>2 DEF FailPendingAcks, ClientType
  <2> QED  BY <1>2, <1>3, <2>3, <2>4
<1>5. CASE FinishClose
  <2>1. calls' \in Stacks /\ Below' = "none" /\ Idle'
    BY <1>5, NoFrame DEF FinishClose
  <2>2. Link'
    BY <1>0, <1>1, <1>5, <2>1 DEF FinishClose, Link, ClosingFrames, ClientType
  <2>3. ClientType'
    BY <1>0, <1>5, <2>1 DEF FinishClose, ClientType
  <2> QED  BY <1>2, <1>3, <2>2, <2>3
<1> QED  BY <1>4, <1>5

-----------------------------------------------------------------------------
(* The invariant and what it says of the runs.                             *)

LEMMA InitSocket == Init => SocketInv
<1> SUFFICES ASSUME Init PROVE SocketInv
  OBVIOUS
<1>1. calls \in Stacks /\ Below = "none" /\ Idle
  BY DEF Init, Stacks, Below, Idle
<1>2. ClientType
  BY <1>1, NoQueue DEF Init, ClientType
<1>3. Owed
  BY DEF Init, Owed
<1>4. Unsent
  BY NoQueue DEF Init, Unsent
<1>5. Link
  BY <1>1 DEF Init, Link, ClosingFrames
<1> QED  BY <1>2, <1>3, <1>4, <1>5 DEF SocketInv

LEMMA NextSocket == SocketInv /\ [Next]_vars => SocketInv'
<1> SUFFICES ASSUME SocketInv, [Next]_vars PROVE SocketInv'
  OBVIOUS
<1>1. ASSUME NEW r \in Requests, Emit(r) \/ AnswerEvent(r) \/ Timeout(r) \/ CallFailed(r)
      PROVE  SocketInv'
  BY <1>1, EmitKeeps, AnswerEventKeeps, TimeoutKeeps, CallFailedKeeps
<1>2. CASE Disconnect \/ FinishDisconnect
  BY <1>2, DisconnectKeeps, FinishDisconnectKeeps
<1>3. CASE FlushOutboundMessages \/ FailPendingAcks \/ FinishClose
  BY <1>3, FlushKeeps, CloseKeeps
<1>4. CASE OpenEvent \/ Reconnect \/ \E code \in {1006, 4000} : CloseEvent(code)
  BY <1>4, EventKeeps
<1>5. CASE UNCHANGED vars
  <2>1. ClientType'
    BY <1>5 DEF vars, SocketInv, ClientType
  <2>2. Owed' /\ Unsent'
    BY <1>5 DEF vars, SocketInv, Owed, Unsent
  <2>3. Link'
    BY <1>5 DEF vars, SocketInv, Link, Below, Idle
  <2> QED  BY <2>1, <2>2, <2>3 DEF SocketInv
<1> QED  BY <1>1, <1>2, <1>3, <1>4, <1>5 DEF Next, Running

\* SocketInv holds of every state of the socket: each request is owed in one place,
\* what is queued is unsent and unanswered, and the stack fits the link.
THEOREM SocketIsSound == Spec => []SocketInv
  BY InitSocket, NextSocket, PTL DEF Spec

\* realtime-client.ts: however answers, timeouts, overflows, lost connections and
\* disconnects out of another callback meet, a request is sent at most once and
\* answered at most once, and the connection comes back exactly when it may.
THEOREM ClientIsSound == Spec => []ClientInv
<1>1. SocketInv => ClientInv
  <2> SUFFICES ASSUME SocketInv PROVE ClientInv
    OBVIOUS
  <2>1. calls \in Seq(Frames)
    <3>1. /\ <<>> \in Seq(Frames) /\ \A f \in Frames : <<f>> \in Seq(Frames)
          /\ \A f \in Frames, g \in Frames : <<f, g>> \in Seq(Frames)
      OBVIOUS
    <3>2. "disconnect" \in Frames
      BY DEF Frames
    <3> QED  BY <3>1, <3>2 DEF SocketInv, ClientType, Stacks
  <2>2. TypeOK
    BY <2>1 DEF SocketInv, ClientType, TypeOK
  <2>3. AnsweredOnce /\ SentOnce
    BY DEF SocketInv, Owed, Unsent, AnsweredOnce, SentOnce
  <2>4. ReconnectsUnlessOver
    BY DEF SocketInv, ClientType, Link, ReconnectsUnlessOver, Idle, Below
  <2> QED  BY <2>2, <2>3, <2>4 DEF ClientInv
<1> QED  BY <1>1, SocketIsSound, PTL

\* What the application was told has failed unsent is never sent afterwards.
THEOREM FailedStaysUnsent == Spec => FailedIsNotSent
<1> DEFINE Kept == \A r \in Acked : answers[r] > 0 => sent'[r] = sent[r]
<1>1. SocketInv /\ [Next]_vars => Kept
  <2> SUFFICES ASSUME SocketInv, [Next]_vars, NEW r \in Acked, answers[r] > 0
               PROVE  sent'[r] = sent[r]
    OBVIOUS
  <2>0. /\ sent \in [Requests -> Nat] /\ r \in Requests /\ r \in emitted
        /\ r \notin ToSet(queue)
    BY DEF SocketInv, ClientType, Owed, Unsent
  <2>1. CASE FlushOutboundMessages
    BY <2>0, <2>1, OnceIs DEF FlushOutboundMessages
  <2>2. ASSUME NEW x \in Requests, Emit(x) PROVE sent'[r] = sent[r]
    <3>1. x # r /\ (sent' = Once(sent, {x}) \/ sent' = sent)
      BY <2>0, <2>2 DEF Emit, EmitOpen, EmitRefused, EmitQueued
    <3> QED  BY <2>0, <3>1 DEF Once
  <2>3. ASSUME NEW x \in Requests, AnswerEvent(x) \/ Timeout(x) \/ CallFailed(x)
        PROVE  sent' = sent
    BY <2>3 DEF AnswerEvent, Timeout, CallFailed
  <2>4. CASE Disconnect \/ FinishDisconnect \/ FailPendingAcks \/ FinishClose
    BY <2>4 DEF Disconnect, FinishDisconnect, FailPendingAcks, FinishClose
  <2>5. CASE OpenEvent \/ Reconnect \/ \E code \in {1006, 4000} : CloseEvent(code)
    BY <2>5 DEF OpenEvent, Reconnect, CloseEvent
  <2>6. CASE UNCHANGED vars
    BY <2>6 DEF vars
  <2> QED  BY <2>1, <2>2, <2>3, <2>4, <2>5, <2>6 DEF Next, Running
<1>2. SocketInv /\ [Next]_vars => [Kept]_vars
  BY <1>1
<1> QED  BY <1>2, SocketIsSound, PTL DEF Spec, FailedIsNotSent

\* A session that another connection took over, or that was closed, does not come
\* back by itself.
THEOREM OverStaysOver == Spec => OverIsOver
<1> DEFINE Over == ws = "closed" /\ (manuallyClosed \/ calls = <<"replaced">>)
<1>1. SocketInv /\ Over /\ [Next]_vars => Over'
  <2> SUFFICES ASSUME SocketInv, Over, [Next]_vars PROVE Over'
    OBVIOUS
  <2>1. (Idle => manuallyClosed) /\ (~manuallyClosed => Head(calls) = "replaced")
    BY DEF Idle
  <2>2. CASE UNCHANGED <<ws, manuallyClosed, calls>>
    BY <2>2
  <2>3. ASSUME NEW r \in Requests, Emit(r) \/ AnswerEvent(r) \/ Timeout(r) \/ CallFailed(r)
        PROVE  UNCHANGED <<ws, manuallyClosed, calls>>
    BY <2>3 DEF Emit, AnswerEvent, Timeout, CallFailed, linkVars
  <2>4. CASE Disconnect \/ FinishDisconnect
    BY <2>1, <2>4 DEF Disconnect, FinishDisconnect
  <2>5. CASE FlushOutboundMessages \/ FailPendingAcks \/ FinishClose
    BY <2>1, <2>5 DEF FlushOutboundMessages, FailPendingAcks, FinishClose, linkVars
  <2>6. CASE Reconnect
    BY <2>1, <2>6 DEF Reconnect
  <2>7. CASE OpenEvent
    BY <2>7 DEF OpenEvent
  <2>8. ASSUME NEW code \in {1006, 4000}, CloseEvent(code) PROVE FALSE
    BY <2>8 DEF CloseEvent
  <2>9. CASE UNCHANGED vars
    BY <2>2, <2>9 DEF vars
  <2> QED  BY <2>2, <2>3, <2>4, <2>5, <2>6, <2>7, <2>8, <2>9 DEF Next, Running
<1>2. Over => ws = "closed"
  OBVIOUS
<1> QED  BY <1>1, <1>2, SocketIsSound, PTL DEF Spec, OverIsOver

=============================================================================
