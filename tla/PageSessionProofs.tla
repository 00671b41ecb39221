-------------------------- MODULE PageSessionProofs -------------------------
(***************************************************************************)
(* Proofs about PageSession, for every set of rooms and any number of      *)
(* attempts, rounds, sockets and reloads.                                  *)
(*                                                                         *)
(* The functions of the page are operators from page to page, so the       *)
(* invariant is one of a page and of the requests its socket still owes    *)
(* it: when a connection ends, those requests fail one after the other,    *)
(* and each callback finds the page as the ones before it left it.         *)
(***************************************************************************)
EXTENDS PageSession, FiniteSetsExt, SequenceTheorems, WellFoundedInduction, TLAPS

-----------------------------------------------------------------------------
(* Induction and the least of a set; queues in which nothing is twice.     *)

\* A set of naturals with zero and all successors has them all.
LEMMA InductionOnNat ==
  ASSUME NEW S \in SUBSET Nat, 0 \in S, \A n \in S : n + 1 \in S
  PROVE  S = Nat
<1> DEFINE R == OpToRel(<, Nat)
           T == Nat \ S
<1>0. IsWellFoundedOn(R, Nat)
  BY NatLessThanWellFounded
<1>1. ASSUME T # {} PROVE FALSE
  <2>0. T \subseteq Nat
    OBVIOUS
  <2> HIDE DEF T
  <2>1. PICK x \in T : \A y \in T : ~(<<y, x>> \in R)
    BY <1>0, <1>1, <2>0, WFMin
  <2> USE DEF T
  <2>2. x \in Nat /\ x # 0
    OBVIOUS
  <2>3. x - 1 \in Nat /\ x - 1 \notin S
    BY <2>2
  <2>4. <<x - 1, x>> \in R
    BY <2>2, <2>3 DEF OpToRel
  <2> QED  BY <2>1, <2>3, <2>4
<1> QED  BY <1>1

\* A set of naturals that has a member has a least one.
LEMMA LeastExists ==
  ASSUME NEW S \in SUBSET Nat, S # {}
  PROVE  Min(S) \in S /\ \A m \in S : Min(S) <= m
<1> DEFINE R == OpToRel(<, Nat)
<1>1. IsWellFoundedOn(R, Nat)
  BY NatLessThanWellFounded
<1> HIDE DEF R
<1>2. PICK n \in S : \A m \in S : ~(<<m, n>> \in R)
  BY <1>1, WFMin
<1>3. ASSUME NEW m \in S PROVE n <= m
  <2>1. n \in Nat /\ m \in Nat
    OBVIOUS
  <2>2. m < n => <<m, n>> \in R
    BY <2>1 DEF R, OpToRel
  <2> QED  BY <1>2, <2>1, <2>2
<1> QED  BY <1>3 DEF Min

Distinct(q) == \A i, j \in 1..Len(q) : i # j => q[i] # q[j]

LEMMA ToSetIs ==
  ASSUME NEW S, NEW q \in Seq(S)
  PROVE  ToSet(q) = {q[i] : i \in 1..Len(q)} /\ ToSet(q) \subseteq S /\ Len(q) \in Nat
<1>1. DOMAIN q = 1..Len(q) /\ Len(q) \in Nat /\ \A i \in 1..Len(q) : q[i] \in S
  BY ElementOfSeq, LenProperties
<1> QED  BY <1>1 DEF ToSet

\* Without an element the others keep their order, and nothing else is missing.
LEMMA RemovedFirst ==
  ASSUME NEW S, NEW q \in Seq(S), Distinct(q), NEW r
  PROVE  /\ RemoveFirst(q, r) \in Seq(S) /\ Distinct(RemoveFirst(q, r))
         /\ ToSet(RemoveFirst(q, r)) = ToSet(q) \ {r}
<1>0. ToSet(q) = {q[i] : i \in 1..Len(q)} /\ Len(q) \in Nat
      /\ \A i \in 1..Len(q) : q[i] \in S
  BY ToSetIs, ElementOfSeq
<1>1. CASE ~\E i \in 1..Len(q) : q[i] = r
  BY <1>0, <1>1 DEF RemoveFirst
<1>2. CASE \E i \in 1..Len(q) : q[i] = r
  <2> DEFINE I == {i \in 1..Len(q) : q[i] = r}
             k == Min(I)
             p == RemoveAt(q, k)
  <2>1. k \in I
    <3>1. I \in SUBSET Nat /\ I # {}
      BY <1>0, <1>2
    <3> HIDE DEF I
    <3> QED  BY <3>1, LeastExists
  <2>2. RemoveFirst(q, r) = p
    BY <1>2, <2>1 DEF RemoveFirst, SelectInSeq
  <2>3. k \in 1..Len(q) /\ q[k] = r
    BY <2>1
  <2> HIDE DEF k
  <2>4. /\ p \in Seq(S) /\ Len(p) = Len(q) - 1
        /\ \A i \in 1..Len(p) : p[i] = IF i < k THEN q[i] ELSE q[i + 1]
    <3> DEFINE a == SubSeq(q, 1, k - 1)
               b == SubSeq(q, k + 1, Len(q))
    <3>1. /\ a \in Seq(S) /\ Len(a) = k - 1 /\ \A i \in 1..(k - 1) : a[i] = q[i]
      BY <1>0, <2>3, SubSeqProperties
    <3>2. /\ b \in Seq(S) /\ Len(b) = Len(q) - k
          /\ \A i \in 1..(Len(q) - k) : b[i] = q[k + i]
      BY <1>0, <2>3, SubSeqProperties
    <3>3. p = a \o b
      BY DEF RemoveAt
    <3> HIDE DEF a, b, p
    <3>4. /\ p \in Seq(S) /\ Len(p) = Len(a) + Len(b)
          /\ \A i \in 1..Len(p) : p[i] = IF i <= Len(a) THEN a[i] ELSE b[i - Len(a)]
      <4>1. /\ a \o b \in Seq(S) /\ Len(a \o b) = Len(a) + Len(b)
            /\ \A i \in 1..Len(a) + Len(b) :
                 (a \o b)[i] = IF i <= Len(a) THEN a[i] ELSE b[i - Len(a)]
        BY <3>1, <3>2, ConcatProperties
      <4> QED  BY <3>3, <4>1
    <3>5. Len(p) = Len(q) - 1
      BY <1>0, <2>3, <3>1, <3>2, <3>4
    <3>6. ASSUME NEW i \in 1..Len(p) PROVE p[i] = IF i < k THEN q[i] ELSE q[i + 1]
      <4>1. CASE i < k
        BY <1>0, <2>3, <3>1, <3>4, <3>5, <4>1
      <4>2. CASE ~(i < k)
        <5>1. p[i] = b[i - (k - 1)] /\ i - (k - 1) \in 1..(Len(q) - k)
          BY <1>0, <2>3, <3>1, <3>4, <3>5, <4>2
        <5>2. k + (i - (k - 1)) = i + 1
          BY <1>0, <2>3
        <5> QED  BY <3>2, <4>2, <5>1, <5>2
      <4> QED  BY <4>1, <4>2
    <3> QED  BY <3>4, <3>5, <3>6
  <2> HIDE DEF p
  <2>5. ASSUME NEW i \in 1..Len(p)
        PROVE  \E j \in 1..Len(q) : j # k /\ p[i] = q[j] /\ j = IF i < k THEN i ELSE i + 1
    BY <1>0, <2>3, <2>4
  <2>6. ToSet(p) = {p[i] : i \in 1..Len(p)}
    BY <2>4, ToSetIs
  <2>7. ToSet(p) = ToSet(q) \ {r}
    <3>1. ToSet(p) \subseteq ToSet(q) \ {r}
      BY <1>0, <2>3, <2>5, <2>6 DEF Distinct
    <3>2. ASSUME NEW j \in 1..Len(q), q[j] # r PROVE q[j] \in ToSet(p)
      <4> DEFINE i == IF j < k THEN j ELSE j - 1
      <4>1. i \in 1..Len(p) /\ p[i] = q[j]
        BY <1>0, <2>3, <2>4, <3>2
      <4> QED  BY <2>6, <4>1
    <3> QED  BY <1>0, <3>1, <3>2
  <2>8. Distinct(p)
    <3> SUFFICES ASSUME NEW i \in 1..Len(p), NEW j \in 1..Len(p), i # j PROVE p[i] # p[j]
      BY DEF Distinct
    <3>1. PICK x \in 1..Len(q) : p[i] = q[x] /\ x = IF i < k THEN i ELSE i + 1
      BY <2>5
    <3>2. PICK y \in 1..Len(q) : p[j] = q[y] /\ y = IF j < k THEN j ELSE j + 1
      BY <2>5
    <3>3. x # y
      BY <1>0, <2>3, <3>1, <3>2
    <3> QED  BY <3>1, <3>2, <3>3 DEF Distinct
  <2> QED  BY <2>2, <2>4, <2>7, <2>8
<1> QED  BY <1>1, <1>2

\* An element more at the end.
LEMMA AppendedQueue ==
  ASSUME NEW S, NEW q \in Seq(S), Distinct(q), NEW r \in S, r \notin ToSet(q)
  PROVE  /\ Append(q, r) \in Seq(S) /\ Distinct(Append(q, r))
         /\ ToSet(Append(q, r)) = ToSet(q) \cup {r}
<1> DEFINE p == Append(q, r)
<1>0. ToSet(q) = {q[i] : i \in 1..Len(q)} /\ Len(q) \in Nat
  BY ToSetIs
<1>1. /\ p \in Seq(S) /\ Len(p) = Len(q) + 1
      /\ \A i \in 1..Len(q) : p[i] = q[i]
      /\ p[Len(q) + 1] = r
  BY AppendProperties
<1> HIDE DEF p
<1>2. ToSet(p) = {p[i] : i \in 1..Len(p)}
  BY <1>1, ToSetIs
<1>3. ToSet(p) = ToSet(q) \cup {r}
  <2>1. ToSet(p) \subseteq ToSet(q) \cup {r}
    BY <1>0, <1>1, <1>2
  <2>2. ToSet(q) \subseteq ToSet(p)
    BY <1>0, <1>1, <1>2
  <2>3. r \in ToSet(p)
    <3>1. Len(q) + 1 \in 1..Len(p)
      BY <1>0, <1>1
    <3> QED  BY <1>1, <1>2, <3>1
  <2> QED  BY <2>1, <2>2, <2>3
<1>4. Distinct(p)
  BY <1>0, <1>1 DEF Distinct
<1> QED  BY <1>1, <1>3, <1>4 DEF p

\* The empty queue.
LEMMA NoQueue ==
  ASSUME NEW S
  PROVE  <<>> \in Seq(S) /\ Distinct(<<>>) /\ ToSet(<<>>) = {}
<1>1. <<>> \in Seq(S) /\ Len(<<>>) = 0
  BY EmptySeq
<1>2. ToSet(<<>>) = {}
  <2>1. DOMAIN <<>> = {}
    OBVIOUS
  <2> QED  BY <2>1 DEF ToSet
<1> QED  BY <1>1, <1>2 DEF Distinct

USE PageAssumption

-----------------------------------------------------------------------------
(* The invariant of a page p with the requests R pending.                  *)

Links      == {"none", "connecting", "open", "waiting", "over"}
RoomRecord == [code : Codes, round : 1..MaxRounds, over : BOOLEAN]
PageRecord ==
  [socket : Nat, targets : Seq(Rooms \cup {Practice}), link : Links,
   pending : Seq(Requests), member : BOOLEAN, room : RoomRecord, result : BOOLEAN,
   createPending : BOOLEAN, joinPending : BOOLEAN,
   stored : Codes, persisted : Codes, inFlight : BOOLEAN,
   attempts : 0..(MaxJoins + 1), tried : 0..(MaxJoins + 1), timer : Nat,
   recovery : {"idle", "reconnecting", "failed"},
   practice : BOOLEAN, setup : BOOLEAN]

PageType(p) ==
  p \in PageRecord /\ p.socket <= Len(p.targets) /\ p.timer <= Len(p.targets)

\* Without a socket there is no link, and nothing is owed.
Linked(p, R) ==
  /\ p.socket = 0 <=> p.link = "none"
  /\ p.member => p.link = "open"
  /\ R \subseteq Requests /\ (p.socket = 0 => R = {})

\* What may be asked of a socket: a room is created or joined exactly while the
\* page is connected to one it does not have yet.
Asked(p, R) ==
  /\ "practice" \in R => Target(p) = Practice
  /\ "create" \in R \/ "join" \in R <=> OfRoom(p) /\ p.stored = NoRoom
  /\ ~("create" \in R /\ "join" \in R)
  /\ "rejoin" \in R \/ "stored" \in R => OfRoom(p) /\ p.stored # NoRoom
  /\ "rejoin" \in R => HasRoom(p)
  /\ p.inFlight <=> "stored" \in R

\* The room to come back to, the one on the screen and the one the socket is
\* connected to.
Kept(p) ==
  /\ p.persisted = p.stored
  /\ p.stored # NoRoom /\ p.socket # 0 => Target(p) = p.stored
  /\ p.stored # NoRoom /\ HasRoom(p) => p.room.code = p.stored
  /\ p.stored # NoRoom /\ ~HasRoom(p) => ~p.setup /\ p.recovery # "idle"
  /\ p.socket # 0 /\ HasRoom(p) => p.room.code = Target(p)
  /\ p.practice => ~HasRoom(p) /\ p.stored = NoRoom /\ ~OfRoom(p)

\* While it says that it is reconnecting, something is still to come.
Waits(p, R) ==
  /\ p.recovery = "reconnecting" /\ p.stored # NoRoom
  /\ ~HasRoom(p) \/ p.link # "open"
  => p.link \in {"connecting", "waiting"} \/ R # {} \/ (p.timer # 0 /\ p.timer = p.socket)

Sound(p, R) == PageType(p) /\ Linked(p, R) /\ Asked(p, R) /\ Kept(p) /\ Waits(p, R)

-----------------------------------------------------------------------------
(* The invariant.                                                          *)

NotAhead(room, snap) ==
  room.round <= snap.round /\ (room.round = snap.round /\ room.over => snap.over)

\* Between the steps nothing is asked twice, a rejoin is asked of an open
\* connection only, and what is shown of a room that is still being joined came
\* over this very connection.
Between(p, snap) ==
  /\ Distinct(p.pending)
  /\ "rejoin" \in ToSet(p.pending) => p.link = "open"
  /\ p.socket # 0 /\ HasRoom(p) /\ p.stored = NoRoom
       => p.member /\ NotAhead(p.room, snap)

SessionInv ==
  /\ truth \in Snapshots /\ reloads \in 0..MaxReloads
  /\ Sound(page, ToSet(page.pending)) /\ Between(page, truth)

-----------------------------------------------------------------------------
(* Pages that let a socket go or take a new one.                           *)

SameStory(p, q) ==
  /\ q.room = p.room /\ q.stored = p.stored /\ q.persisted = p.persisted
  /\ q.practice = p.practice /\ q.setup = p.setup /\ q.recovery = p.recovery
  /\ q.timer = p.timer

LEMMA LetGoIs ==
  ASSUME NEW p \in PageRecord
  PROVE  /\ LetGo(p) \in PageRecord /\ SameStory(p, LetGo(p))
         /\ LetGo(p).socket = 0 /\ LetGo(p).link = "none" /\ LetGo(p).pending = <<>>
         /\ ~LetGo(p).member /\ LetGo(p).targets = p.targets
         /\ LetGo(p).inFlight = p.inFlight
<1> DEFINE q == LetGo(p)
           joins == p.joinPending /\ ~Contains(p.pending, "join")
<1>1. joins \in BOOLEAN /\ <<>> \in Seq(Requests) /\ "none" \in Links
  BY EmptySeq DEF Links
<1>2. q = [p EXCEPT !.socket = 0, !.link = "none", !.pending = <<>>,
                   !.member = FALSE, !.joinPending = joins]
  BY DEF LetGo, PageRecord
<1> HIDE DEF joins, q
<1>3. q \in PageRecord
  BY <1>1, <1>2 DEF PageRecord
<1>4. SameStory(p, q)
  BY <1>2 DEF PageRecord, SameStory
<1>5. /\ q.socket = 0 /\ q.link = "none" /\ q.pending = <<>> /\ ~q.member
      /\ q.targets = p.targets /\ q.inFlight = p.inFlight
  BY <1>2 DEF PageRecord
<1> QED  BY <1>3, <1>4, <1>5 DEF q

LEMMA ConnectSocketIs ==
  ASSUME NEW p \in PageRecord, NEW target \in Rooms \cup {Practice}
  PROVE  LET q == ConnectSocket(p, target)
         IN  /\ q \in PageRecord /\ SameStory(p, q)
             /\ q.socket = Len(p.targets) + 1 /\ q.link = "connecting"
             /\ q.pending = <<>> /\ ~q.member /\ ~q.inFlight
             /\ Len(q.targets) = Len(p.targets) + 1 /\ Target(q) = target
<1> DEFINE r == LetGo(p)
           n == Len(p.targets) + 1
           more == Append(p.targets, target)
           q == ConnectSocket(p, target)
<1>1. /\ r \in PageRecord /\ SameStory(p, r) /\ r.targets = p.targets
      /\ r.pending = <<>> /\ ~r.member
  BY LetGoIs
<1>2. /\ n \in Nat \ {0} /\ more \in Seq(Rooms \cup {Practice}) /\ Len(more) = n
      /\ more[n] = target
  <2>1. p.targets \in Seq(Rooms \cup {Practice})
    BY DEF PageRecord
  <2> QED  BY <2>1, AppendProperties, LenProperties
<1>3. q = [r EXCEPT !.inFlight = FALSE, !.link = "connecting", !.socket = n,
                    !.targets = more]
  BY <1>1 DEF ConnectSocket, PageRecord
<1> HIDE DEF r, n, more, q
<1>4. /\ q \in PageRecord /\ q.socket = n /\ q.targets = more /\ q.link = "connecting"
      /\ ~q.inFlight
  BY <1>1, <1>2, <1>3 DEF PageRecord, Links
<1>5. SameStory(p, q) /\ q.pending = <<>> /\ ~q.member
  BY <1>1, <1>3 DEF PageRecord, SameStory
<1>6. Target(q) = target
  BY <1>2, <1>4 DEF Target
<1> QED  BY <1>2, <1>4, <1>5, <1>6 DEF n, q

\* A page without a socket, and without a room to come back to, is sound.
LEMMA GoneIsSound ==
  ASSUME NEW p, PageType(p), p.socket = 0, p.link = "none", ~p.member, ~p.inFlight,
         p.stored = NoRoom, p.persisted = NoRoom, p.practice => ~HasRoom(p)
  PROVE  Sound(p, {})
<1>1. Target(p) = NoRoom /\ ~OfRoom(p)
  BY DEF Target, OfRoom
<1>2. Linked(p, {})
  BY DEF Linked
<1>3. Asked(p, {})
  BY <1>1 DEF Asked
<1>4. Kept(p)
  BY <1>1 DEF Kept
<1>5. Waits(p, {})
  BY DEF Waits
<1> QED  BY <1>2, <1>3, <1>4, <1>5 DEF Sound

LEMMA DisconnectIs ==
  ASSUME NEW p, PageType(p)
  PROVE  LET q == DisconnectCurrentSocket(p)
         IN  /\ PageType(q) /\ SameStory(p, q) /\ q.socket = 0 /\ q.link = "none"
             /\ q.pending = <<>> /\ ~q.member /\ ~q.inFlight
<1> DEFINE r == LetGo(p)
           q == DisconnectCurrentSocket(p)
<1>1. /\ r \in PageRecord /\ SameStory(p, r) /\ r.socket = 0 /\ r.link = "none"
      /\ r.pending = <<>> /\ ~r.member /\ r.targets = p.targets
  BY LetGoIs DEF PageType
<1>2. q = [r EXCEPT !.inFlight = FALSE]
  BY DEF DisconnectCurrentSocket
<1> HIDE DEF r, q
<1>3. q \in PageRecord /\ ~q.inFlight
  BY <1>1, <1>2 DEF PageRecord
<1>4. /\ SameStory(p, q) /\ q.socket = 0 /\ q.link = "none" /\ q.pending = <<>>
      /\ ~q.member /\ q.targets = p.targets
  BY <1>1, <1>2 DEF PageRecord, SameStory
<1>5. p.targets \in Seq(Rooms \cup {Practice})
  BY DEF PageType, PageRecord
<1>6. PageType(q)
  BY <1>3, <1>4, <1>5, LenProperties DEF PageType, SameStory
<1> QED  BY <1>3, <1>4, <1>6 DEF q

\* The end of a request that came to nothing: a page with no room to come back to.
LEMMA DisconnectIsSound ==
  ASSUME NEW p, PageType(p), p.stored = NoRoom, p.persisted = NoRoom,
         p.practice => ~HasRoom(p)
  PROVE  LET q == DisconnectCurrentSocket(p)
         IN  Sound(q, {}) /\ q.socket = 0 /\ q.pending = <<>> /\ q.room = p.room
<1> DEFINE q == DisconnectCurrentSocket(p)
<1>1. /\ PageType(q) /\ SameStory(p, q) /\ q.socket = 0 /\ q.link = "none"
      /\ q.pending = <<>> /\ ~q.member /\ ~q.inFlight
  BY DisconnectIs
<1> HIDE DEF q
<1>2. Sound(q, {}) /\ q.room = p.room
  BY <1>1, GoneIsSound DEF SameStory, HasRoom
<1> QED  BY <1>1, <1>2 DEF q

LEMMA DiscardIsSound ==
  ASSUME NEW p, PageType(p), p.practice => ~HasRoom(p)
  PROVE  LET q == DiscardStoredRoom(p)
         IN  /\ Sound(q, {}) /\ q.socket = 0 /\ q.pending = <<>> /\ q.room = p.room
             /\ q.stored = NoRoom /\ q.recovery = "idle"
<1> DEFINE r == [p EXCEPT !.timer = 0, !.stored = NoRoom, !.attempts = 0,
                          !.inFlight = FALSE, !.persisted = NoRoom, !.recovery = "idle"]
           q == DisconnectCurrentSocket(r)
<1>1. p \in PageRecord /\ 0 \in 0..(MaxJoins + 1) /\ NoRoom \in Codes
  BY DEF PageType, Codes
<1>2. r \in PageRecord
  BY <1>1 DEF PageRecord
<1>3. /\ r.timer = 0 /\ r.stored = NoRoom /\ r.persisted = NoRoom /\ r.recovery = "idle"
      /\ r.room = p.room /\ r.practice = p.practice /\ r.targets = p.targets
      /\ r.socket = p.socket
  BY <1>1 DEF PageRecord
<1> HIDE DEF r
<1>4. PageType(r)
  BY <1>2, <1>3 DEF PageType, PageRecord
<1>5. Sound(q, {}) /\ q.socket = 0 /\ q.pending = <<>> /\ q.room = r.room
  BY <1>3, <1>4, DisconnectIsSound DEF HasRoom
<1>6. SameStory(r, q)
  BY <1>4, DisconnectIs
<1>7. q = DiscardStoredRoom(p)
  BY DEF DiscardStoredRoom, r
<1> HIDE DEF q
<1> QED  BY <1>3, <1>5, <1>6, <1>7 DEF SameStory

\* attemptStoredRoomJoin of a page that has a room to come back to.
LEMMA AttemptIs ==
  ASSUME NEW p, NEW R, PageType(p), Linked(p, R), Asked(p, R), Kept(p),
         p.socket # 0, p.stored # NoRoom
  PROVE  LET q == AttemptStoredRoomJoin(p)
         IN  /\ Sound(q, R \cup {"stored"})
             /\ q.room = p.room /\ q.socket = p.socket /\ q.link = p.link
             /\ q.stored = p.stored /\ q.member = p.member
             /\ q.pending = (IF p.inFlight THEN p.pending ELSE Append(p.pending, "stored"))
<1> DEFINE q == AttemptStoredRoomJoin(p)
           n == IF p.attempts > MaxJoins THEN p.attempts ELSE p.attempts + 1
           more == Append(p.pending, "stored")
<1>0. p \in PageRecord /\ p.pending \in Seq(Requests) /\ p.attempts \in 0..(MaxJoins + 1)
      /\ MaxJoins \in Nat
  BY DEF PageType, PageRecord
<1>1. CASE p.inFlight
  <2>1. q = p
    BY <1>1 DEF AttemptStoredRoomJoin
  <2>2. "stored" \in R /\ R \cup {"stored"} = R
    BY <1>1 DEF Asked
  <2>3. Waits(p, R)
    BY <2>2 DEF Waits
  <2> HIDE DEF q
  <2> QED  BY <1>1, <2>1, <2>2, <2>3 DEF Sound, q
<1>2. CASE ~p.inFlight
  <2> DEFINE S == R \cup {"stored"}
  <2>1. q = [p EXCEPT !.timer = 0, !.inFlight = TRUE, !.attempts = n, !.tried = n,
                      !.recovery = "reconnecting", !.pending = more]
    BY <1>0, <1>2 DEF AttemptStoredRoomJoin, Emit, PageRecord
  <2>2. n \in 0..(MaxJoins + 1)
    BY <1>0
  <2>3. more \in Seq(Requests) /\ "stored" \in Requests
    BY <1>0, AppendProperties DEF Requests
  <2> HIDE DEF n, more, q
  <2>4. q \in PageRecord
    BY <1>0, <2>1, <2>2, <2>3 DEF PageRecord
  <2>5. /\ q.timer = 0 /\ q.inFlight /\ q.recovery = "reconnecting" /\ q.pending = more
        /\ q.room = p.room /\ q.socket = p.socket /\ q.link = p.link
        /\ q.stored = p.stored /\ q.persisted = p.persisted /\ q.member = p.member
        /\ q.targets = p.targets /\ q.practice = p.practice /\ q.setup = p.setup
    BY <1>0, <2>1 DEF PageRecord
  <2>6. Target(q) = Target(p) /\ (OfRoom(q) <=> OfRoom(p)) /\ (HasRoom(q) <=> HasRoom(p))
    BY <2>5 DEF Target, OfRoom, HasRoom
  <2>7. OfRoom(p)
    BY <1>0 DEF Kept, OfRoom, PageRecord, Codes
  <2>8. PageType(q)
    BY <2>4, <2>5 DEF PageType, PageRecord
  <2>9. Linked(q, S)
    BY <2>3, <2>5 DEF Linked
  <2>10. Asked(q, S)
    BY <2>5, <2>6, <2>7 DEF Asked
  <2>11. Kept(q)
    BY <2>5, <2>6 DEF Kept
  <2>12. Waits(q, S)
    BY DEF Waits
  <2> QED  BY <1>2, <2>5, <2>8, <2>9, <2>10, <2>11, <2>12 DEF Sound, q, more
<1> QED  BY <1>1, <1>2

-----------------------------------------------------------------------------
(* Answers and the snapshots they bring.                                   *)

SameSocket(p, q) ==
  /\ q.socket = p.socket /\ q.targets = p.targets /\ q.link = p.link
  /\ q.pending = p.pending /\ q.member = p.member /\ q.timer = p.timer

\* What RoomMovesOn asks of a step, but for the attempts to come back.
MovesOn(a, b) ==
  \/ b.code # a.code
  \/ b.round > a.round
  \/ b.round = a.round /\ (a.over => b.over)

\* A page p turned into q when a request was answered: either it has let its
\* socket go, or it owes one answer less.
Settled(p, R, request, q) ==
  IF q.socket = 0 THEN Sound(q, {}) /\ q.pending = <<>>
  ELSE /\ Sound(q, R \ {request}) /\ q.socket = p.socket /\ q.pending = p.pending
       /\ q.link = p.link /\ q.member = p.member
       /\ q.stored = NoRoom => p.stored = NoRoom /\ q.room = p.room

LEMMA SameSocketIs ==
  ASSUME NEW p, PageType(p), NEW q \in PageRecord, SameSocket(p, q)
  PROVE  /\ PageType(q) /\ Target(q) = Target(p) /\ (OfRoom(q) <=> OfRoom(p))
         /\ \A R, S : Linked(p, R) /\ S \subseteq R => Linked(q, S)
<1>1. PageType(q)
  BY DEF PageType, SameSocket
<1>2. Target(q) = Target(p) /\ (OfRoom(q) <=> OfRoom(p))
  BY DEF Target, OfRoom, SameSocket
<1>3. ASSUME NEW R, NEW S, Linked(p, R), S \subseteq R
      PROVE  Linked(q, S)
  BY <1>3 DEF Linked, SameSocket
<1> QED  BY <1>1, <1>2, <1>3

LEMMA ShownIs ==
  ASSUME NEW code \in Codes, NEW snap \in Snapshots
  PROVE  Shown(code, snap) \in RoomRecord /\ Shown(code, snap).code = code
         /\ Shown(code, snap).round = snap.round /\ Shown(code, snap).over = snap.over
  BY DEF Shown, Snapshots, RoomRecord

LEMMA TargetIs ==
  ASSUME NEW p, PageType(p), Kept(p)
  PROVE  /\ OfRoom(p) => Target(p) \in Rooms /\ p.socket # 0 /\ Target(p) \in Codes
         /\ p.stored # NoRoom /\ p.socket # 0 => OfRoom(p) /\ Target(p) = p.stored
         /\ Target(p) = Practice => p.stored = NoRoom /\ ~HasRoom(p) /\ p.socket # 0
<1>1. p.stored \in Rooms \cup {NoRoom} /\ p.room.code \in Rooms \cup {NoRoom}
  BY DEF PageType, PageRecord, RoomRecord, Codes
<1>2. OfRoom(p) => Target(p) \in Rooms /\ p.socket # 0 /\ Target(p) \in Codes
  BY DEF OfRoom, Target, Codes
<1>3. p.stored # NoRoom /\ p.socket # 0 => OfRoom(p) /\ Target(p) = p.stored
  BY <1>1 DEF Kept, OfRoom
<1>4. Target(p) = Practice => p.socket # 0
  BY DEF Target
<1>5. Target(p) = Practice => p.stored = NoRoom /\ ~HasRoom(p)
  BY <1>1, <1>3, <1>4 DEF Kept, HasRoom
<1> QED  BY <1>2, <1>3, <1>4, <1>5

\* The server has seated the player: the room is on the screen and kept.
LEMMA SeatedIsSettled ==
  ASSUME NEW p, NEW R, Sound(p, R), NEW request \in R, request \in {"create", "join"},
         p.link = "open", NEW snap \in Snapshots,
         NEW q \in PageRecord, SameSocket(p, q), q.inFlight = p.inFlight,
         q.room = Shown(Target(p), snap), q.stored = Target(p),
         q.persisted = Target(p), ~q.practice
  PROVE  Settled(p, R, request, q)
<1> DEFINE S == R \ {request}
<1>0. PageType(p) /\ Linked(p, R) /\ Asked(p, R) /\ Kept(p)
  BY DEF Sound
<1>1. /\ OfRoom(p) /\ p.stored = NoRoom /\ Target(p) \in Rooms /\ p.socket # 0
      /\ Target(p) \in Codes
  BY <1>0, TargetIs DEF Asked
<1>2. PageType(q) /\ Target(q) = Target(p) /\ OfRoom(q) /\ Linked(q, S)
  BY <1>0, <1>1, SameSocketIs
<1>3. q.room.code = Target(p) /\ HasRoom(q) /\ q.stored # NoRoom
  BY <1>1, ShownIs DEF HasRoom
<1>4. Asked(q, S)
  BY <1>0, <1>1, <1>2, <1>3 DEF Asked
<1>5. Kept(q)
  BY <1>2, <1>3 DEF Kept
<1>6. Waits(q, S)
  BY <1>3 DEF Waits, SameSocket
<1> QED  BY <1>1, <1>2, <1>3, <1>4, <1>5, <1>6 DEF Settled, Sound, SameSocket

\* The connection of a room that is not seated is given up.
LEMMA UnseatedIsSettled ==
  ASSUME NEW p, NEW R, Sound(p, R), NEW request \in R, request \in {"create", "join"},
         NEW r \in PageRecord, SameSocket(p, r), SameStory(p, r)
  PROVE  LET q == DisconnectCurrentSocket(r)
         IN  Settled(p, R, request, q) /\ q.room = p.room
<1> DEFINE q == DisconnectCurrentSocket(r)
<1>0. PageType(p) /\ Asked(p, R) /\ Kept(p)
  BY DEF Sound
<1>1. /\ PageType(r) /\ r.stored = NoRoom /\ r.persisted = NoRoom
      /\ r.practice => ~HasRoom(r)
  BY <1>0, SameSocketIs DEF Asked, Kept, SameStory, HasRoom
<1>2. Sound(q, {}) /\ q.socket = 0 /\ q.pending = <<>> /\ q.room = r.room
  BY <1>1, DisconnectIsSound
<1> HIDE DEF q
<1> QED  BY <1>2 DEF Settled, SameStory, q

LEMMA CreatedIsSettled ==
  ASSUME NEW p, NEW R, Sound(p, R), "create" \in R,
         NEW answer, answer = "ok" => p.link = "open", NEW snap \in Snapshots
  PROVE  LET q == Created(p, answer, snap)
         IN  /\ Settled(p, R, "create", q)
             /\ q.room = IF answer = "ok" THEN Shown(Target(p), snap) ELSE p.room
<1> DEFINE q == Created(p, answer, snap)
<1>0. p \in PageRecord /\ PageType(p) /\ Asked(p, R) /\ Kept(p)
  BY DEF Sound, PageType
<1>1. CASE answer = "ok"
  <2> DEFINE code == Target(p)
             room == Shown(code, snap)
  <2>1. code \in Codes /\ room \in RoomRecord
    BY <1>0, TargetIs, ShownIs DEF Asked
  <2>2. q = [p EXCEPT !.createPending = FALSE, !.room = room, !.stored = code,
                      !.persisted = code, !.practice = FALSE, !.result = FALSE]
    BY <1>0, <1>1 DEF Created, PageRecord
  <2> HIDE DEF q, code, room
  <2>3. q \in PageRecord
    BY <1>0, <2>1, <2>2 DEF PageRecord
  <2>4. /\ SameSocket(p, q) /\ q.inFlight = p.inFlight /\ q.room = room
        /\ q.stored = code /\ q.persisted = code /\ ~q.practice
    BY <1>0, <2>2 DEF PageRecord, SameSocket
  <2>5. Settled(p, R, "create", q)
    BY <1>1, <2>3, <2>4, SeatedIsSettled DEF code, room
  <2> QED  BY <1>1, <2>4, <2>5 DEF q, code, room
<1>2. CASE answer # "ok"
  <2> DEFINE r == [p EXCEPT !.createPending = FALSE]
  <2>1. r \in PageRecord /\ SameSocket(p, r) /\ SameStory(p, r)
    BY <1>0 DEF PageRecord, SameSocket, SameStory
  <2>2. q = DisconnectCurrentSocket(r)
    BY <1>2 DEF Created
  <2> HIDE DEF q, r
  <2>3. Settled(p, R, "create", q) /\ q.room = p.room
    BY <2>1, <2>2, UnseatedIsSettled
  <2> QED  BY <1>2, <2>3 DEF q
<1> QED  BY <1>1, <1>2

LEMMA JoinedIsSettled ==
  ASSUME NEW p, NEW R, Sound(p, R), "join" \in R,
         NEW answer, answer = "ok" => p.link = "open", NEW snap \in Snapshots
  PROVE  LET q == Joined(p, answer, snap)
         IN  /\ Settled(p, R, "join", q)
             /\ q.room = IF answer = "ok" THEN Shown(Target(p), snap) ELSE p.room
<1> DEFINE q == Joined(p, answer, snap)
<1>0. p \in PageRecord /\ PageType(p) /\ Asked(p, R) /\ Kept(p)
  BY DEF Sound, PageType
<1>1. CASE answer = "ok"
  <2> DEFINE code == Target(p)
             room == Shown(code, snap)
  <2>1. code \in Codes /\ room \in RoomRecord
    BY <1>0, TargetIs, ShownIs DEF Asked
  <2>2. q = [p EXCEPT !.joinPending = FALSE, !.room = room, !.stored = code,
                      !.persisted = code, !.practice = FALSE, !.result = FALSE]
    BY <1>0, <1>1 DEF Joined, PageRecord
  <2> HIDE DEF q, code, room
  <2>3. q \in PageRecord
    BY <1>0, <2>1, <2>2 DEF PageRecord
  <2>4. /\ SameSocket(p, q) /\ q.inFlight = p.inFlight /\ q.room = room
        /\ q.stored = code /\ q.persisted = code /\ ~q.practice
    BY <1>0, <2>2 DEF PageRecord, SameSocket
  <2>5. Settled(p, R, "join", q)
    BY <1>1, <2>3, <2>4, SeatedIsSettled DEF code, room
  <2> QED  BY <1>1, <2>4, <2>5 DEF q, code, room
<1>2. CASE answer # "ok"
  <2> DEFINE r == [p EXCEPT !.joinPending = FALSE]
  <2>1. r \in PageRecord /\ SameSocket(p, r) /\ SameStory(p, r)
    BY <1>0 DEF PageRecord, SameSocket, SameStory
  <2>2. q = DisconnectCurrentSocket(r)
    BY <1>2 DEF Joined
  <2> HIDE DEF q, r
  <2>3. Settled(p, R, "join", q) /\ q.room = p.room
    BY <2>1, <2>2, UnseatedIsSettled
  <2> QED  BY <1>2, <2>3 DEF q
<1> QED  BY <1>1, <1>2

\* applyRoomSnapshot: the room moves on or stays.
LEMMA AppliedIs ==
  ASSUME NEW p, p \in PageRecord, NEW next \in RoomRecord
  PROVE  LET q == ApplyRoomSnapshot(p, next)
         IN  /\ q \in PageRecord /\ SameSocket(p, q) /\ q.inFlight = p.inFlight
             /\ q.stored = p.stored /\ q.persisted = p.persisted
             /\ q.practice = p.practice /\ q.setup = p.setup /\ q.recovery = p.recovery
             /\ MovesOn(p.room, q.room) /\ q.room \in {p.room, next}
<1> DEFINE q == ApplyRoomSnapshot(p, next)
<1>0. p.room \in RoomRecord /\ p.room.round \in 1..MaxRounds
  BY DEF PageRecord, RoomRecord
<1>1. CASE q = p
  <2>1. MovesOn(p.room, q.room)
    BY <1>0, <1>1 DEF MovesOn
  <2> HIDE DEF q
  <2> QED  BY <1>1, <2>1 DEF SameSocket, q
<1>2. CASE q # p
  <2>1. ShouldApplyRoomSnapshot(p, next) /\ q = [p EXCEPT !.room = next, !.result = next.over]
    BY <1>2 DEF ApplyRoomSnapshot
  <2>2. next.over \in BOOLEAN
    BY DEF RoomRecord
  <2>3. MovesOn(p.room, next)
    BY <2>1 DEF ShouldApplyRoomSnapshot, MovesOn
  <2> HIDE DEF q
  <2>4. q \in PageRecord
    BY <2>1, <2>2 DEF PageRecord
  <2>5. /\ SameSocket(p, q) /\ q.inFlight = p.inFlight
        /\ q.stored = p.stored /\ q.persisted = p.persisted
        /\ q.practice = p.practice /\ q.setup = p.setup /\ q.recovery = p.recovery
        /\ q.room = next
    BY <2>1 DEF PageRecord, SameSocket
  <2> QED  BY <2>3, <2>4, <2>5 DEF q
<1> QED  BY <1>1, <1>2

LEMMA RejoinedIsSettled ==
  ASSUME NEW p, NEW R, Sound(p, R), "rejoin" \in R,
         NEW answer, answer = "ok" => p.link = "open", NEW snap \in Snapshots
  PROVE  LET q == Rejoined(p, answer, snap)
         IN  /\ Settled(p, R, "rejoin", q) /\ MovesOn(p.room, q.room)
             /\ answer # "ok" => q.room = p.room
<1> DEFINE q == Rejoined(p, answer, snap)
           S == R \ {"rejoin"}
<1>0. p \in PageRecord /\ PageType(p) /\ Linked(p, R) /\ Asked(p, R) /\ Kept(p)
  BY DEF Sound, PageType
<1>1. /\ OfRoom(p) /\ p.stored # NoRoom /\ HasRoom(p) /\ p.socket # 0
      /\ Target(p) = p.stored /\ p.room.code = Target(p) /\ Target(p) \in Codes
      /\ p.room \in RoomRecord
  BY <1>0, TargetIs DEF Asked, Kept, PageRecord
<1>2. /\ q \in PageRecord /\ SameSocket(p, q) /\ q.inFlight = p.inFlight
      /\ q.stored = p.stored /\ q.persisted = p.persisted /\ q.practice = p.practice
      /\ q.setup = p.setup /\ q.room.code = p.room.code
      /\ MovesOn(p.room, q.room) /\ (answer # "ok" => q.room = p.room)
      /\ q.recovery # "reconnecting"
  <2>1. CASE answer = "ok"
    <3> DEFINE r == [p EXCEPT !.recovery = "idle", !.stored = Target(p)]
               next == Shown(Target(p), snap)
    <3>1. next \in RoomRecord /\ next.code = Target(p)
      BY <1>1, ShownIs
    <3>2. r \in PageRecord
      BY <1>0, <1>1 DEF PageRecord
    <3>3. /\ SameSocket(p, r) /\ r.inFlight = p.inFlight /\ r.stored = p.stored
          /\ r.persisted = p.persisted /\ r.practice = p.practice
          /\ r.setup = p.setup /\ r.room = p.room /\ r.recovery = "idle"
      BY <1>0, <1>1 DEF PageRecord, SameSocket
    <3>4. q = ApplyRoomSnapshot(r, next)
      BY <2>1 DEF Rejoined
    <3> HIDE DEF q, r, next
    <3>5. /\ q \in PageRecord /\ SameSocket(r, q) /\ q.inFlight = r.inFlight
          /\ q.stored = r.stored /\ q.persisted = r.persisted
          /\ q.practice = r.practice /\ q.setup = r.setup /\ q.recovery = r.recovery
          /\ MovesOn(r.room, q.room) /\ q.room \in {r.room, next}
      BY <3>1, <3>2, <3>4, AppliedIs
    <3> QED  BY <1>1, <2>1, <3>1, <3>3, <3>5 DEF SameSocket
  <2>2. CASE answer # "ok"
    <3>1. q = [p EXCEPT !.recovery = "failed"]
      BY <2>2 DEF Rejoined
    <3> HIDE DEF q
    <3>2. q \in PageRecord
      BY <1>0, <3>1 DEF PageRecord
    <3>3. /\ SameSocket(p, q) /\ q.inFlight = p.inFlight /\ q.stored = p.stored
          /\ q.persisted = p.persisted /\ q.practice = p.practice
          /\ q.setup = p.setup /\ q.room = p.room /\ q.recovery = "failed"
      BY <1>0, <3>1 DEF PageRecord, SameSocket
    <3>4. MovesOn(p.room, q.room)
      BY <1>1, <3>3 DEF MovesOn, RoomRecord
    <3> QED  BY <3>2, <3>3, <3>4
  <2> QED  BY <2>1, <2>2
<1> HIDE DEF q
<1>3. PageType(q) /\ Target(q) = Target(p) /\ OfRoom(q) /\ Linked(q, S)
  BY <1>0, <1>1, <1>2, SameSocketIs
<1>4. HasRoom(q)
  BY <1>1, <1>2 DEF HasRoom
<1>5. Asked(q, S)
  BY <1>0, <1>1, <1>2, <1>3, <1>4 DEF Asked
<1>6. Kept(q)
  BY <1>0, <1>1, <1>2, <1>3, <1>4 DEF Kept, SameSocket
<1>7. Waits(q, S)
  BY <1>2 DEF Waits
<1>8. Settled(p, R, "rejoin", q)
  BY <1>1, <1>2, <1>3, <1>5, <1>6, <1>7 DEF Settled, Sound, SameSocket
<1> QED  BY <1>2, <1>8 DEF q

LEMMA StoredIsSettled ==
  ASSUME NEW p, NEW R, Sound(p, R), "stored" \in R,
         NEW answer, answer = "ok" => p.link = "open", NEW snap \in Snapshots
  PROVE  LET q == StoredJoined(p, answer, snap)
         IN  /\ Settled(p, R, "stored", q) /\ ~q.inFlight
             /\ answer # "ok" => q.room = p.room
<1> DEFINE q == StoredJoined(p, answer, snap)
           S == R \ {"stored"}
           action == FailureAction(answer, p.tried)
<1>0. p \in PageRecord /\ PageType(p) /\ Linked(p, R) /\ Asked(p, R) /\ Kept(p)
  BY DEF Sound, PageType
<1>1. /\ OfRoom(p) /\ p.stored # NoRoom /\ p.socket # 0 /\ Target(p) = p.stored
      /\ Target(p) \in Rooms /\ Target(p) \in Codes
  BY <1>0, TargetIs DEF Asked
<1>2. CASE answer # "ok" /\ action = "discard"
  <2> DEFINE r == [p EXCEPT !.inFlight = FALSE]
  <2>1. r \in PageRecord /\ SameSocket(p, r) /\ SameStory(p, r)
    BY <1>0 DEF PageRecord, SameSocket, SameStory
  <2>2. q = DiscardStoredRoom(r)
    BY <1>2 DEF StoredJoined
  <2> HIDE DEF q, r, action
  <2>3. PageType(r) /\ (r.practice => ~HasRoom(r))
    BY <1>0, <2>1, SameSocketIs DEF Kept, SameStory, HasRoom
  <2>4. Sound(q, {}) /\ q.socket = 0 /\ q.pending = <<>> /\ q.room = r.room
    BY <2>2, <2>3, DiscardIsSound
  <2>5. ~q.inFlight
    BY <2>4 DEF Sound, Asked
  <2> QED  BY <2>1, <2>4, <2>5 DEF Settled, SameStory, q
<1>3. CASE answer = "ok" \/ action # "discard"
  <2>1. /\ q \in PageRecord /\ ~q.inFlight /\ q.stored = p.stored /\ q.link = p.link
        /\ q.persisted = p.persisted /\ q.setup = p.setup /\ q.socket = p.socket
        /\ q.targets = p.targets /\ q.pending = p.pending /\ q.member = p.member
        /\ q.timer \in {p.timer, p.socket} /\ (q.practice => p.practice)
        /\ IF answer = "ok" THEN HasRoom(q) /\ q.room.code = Target(p) /\ ~q.practice
           ELSE q.room = p.room /\ q.recovery # "idle"
        /\ q.recovery = "reconnecting" => q.timer = p.socket
    <3>1. CASE answer = "ok"
      <4> DEFINE code == Target(p)
                 room == Shown(code, snap)
                 over == snap.over
      <4>1. /\ room \in RoomRecord /\ room.code = code /\ code # NoRoom
            /\ code \in Codes /\ over \in BOOLEAN /\ code = p.stored
            /\ 0 \in 0..(MaxJoins + 1)
        BY <1>1, ShownIs DEF Snapshots
      <4>2. q = [p EXCEPT !.inFlight = FALSE, !.attempts = 0, !.recovery = "idle",
                          !.stored = code, !.room = room, !.result = over,
                          !.practice = FALSE]
        BY <1>0, <3>1 DEF StoredJoined, PageRecord
      <4> HIDE DEF q, code, room, over, action
      <4>3. q \in PageRecord
        BY <1>0, <4>1, <4>2 DEF PageRecord
      <4>4. /\ ~q.inFlight /\ q.stored = code /\ q.link = p.link
            /\ q.persisted = p.persisted /\ q.setup = p.setup /\ q.socket = p.socket
            /\ q.targets = p.targets /\ q.pending = p.pending /\ q.member = p.member
            /\ q.timer = p.timer /\ ~q.practice /\ q.room = room /\ q.recovery = "idle"
        BY <1>0, <4>2 DEF PageRecord
      <4> QED  BY <3>1, <4>1, <4>3, <4>4 DEF HasRoom, code
    <3>2. CASE answer # "ok" /\ action = "pause"
      <4>1. q = [p EXCEPT !.inFlight = FALSE, !.recovery = "failed"]
        BY <1>0, <3>2 DEF StoredJoined, PageRecord
      <4> HIDE DEF q, action
      <4>2. q \in PageRecord
        BY <1>0, <4>1 DEF PageRecord
      <4>3. /\ ~q.inFlight /\ q.stored = p.stored /\ q.link = p.link
            /\ q.persisted = p.persisted /\ q.setup = p.setup /\ q.socket = p.socket
            /\ q.targets = p.targets /\ q.pending = p.pending /\ q.member = p.member
            /\ q.timer = p.timer /\ q.practice = p.practice /\ q.room = p.room
            /\ q.recovery = "failed"
        BY <1>0, <4>1 DEF PageRecord
      <4> QED  BY <3>2, <4>2, <4>3
    <3>3. CASE answer # "ok" /\ action = "retry"
      <4>1. q = [p EXCEPT !.inFlight = FALSE, !.recovery = "reconnecting",
                          !.timer = p.socket]
        BY <1>0, <3>3 DEF StoredJoined, PageRecord
      <4> HIDE DEF q, action
      <4>2. q \in PageRecord
        BY <1>0, <4>1 DEF PageRecord
      <4>3. /\ ~q.inFlight /\ q.stored = p.stored /\ q.link = p.link
            /\ q.persisted = p.persisted /\ q.setup = p.setup /\ q.socket = p.socket
            /\ q.targets = p.targets /\ q.pending = p.pending /\ q.member = p.member
            /\ q.timer = p.socket /\ q.practice = p.practice /\ q.room = p.room
            /\ q.recovery = "reconnecting"
        BY <1>0, <4>1 DEF PageRecord
      <4> QED  BY <3>3, <4>2, <4>3
    <3>4. action \in {"discard", "pause", "retry"}
      BY DEF FailureAction
    <3> QED  BY <1>3, <3>1, <3>2, <3>3, <3>4
  <2> HIDE DEF q, action
  <2>2. Target(q) = Target(p) /\ OfRoom(q)
    BY <1>1, <2>1 DEF Target, OfRoom
  <2>3. PageType(q)
    BY <1>0, <2>1 DEF PageType
  <2>4. Linked(q, S)
    BY <1>0, <2>1 DEF Linked
  <2>5. HasRoom(p) => HasRoom(q)
    BY <2>1 DEF HasRoom
  <2>6. Asked(q, S)
    BY <1>0, <1>1, <2>1, <2>2, <2>5 DEF Asked
  <2>7. Kept(q)
    <3>1. CASE answer = "ok"
      BY <1>0, <1>1, <2>1, <2>2, <3>1 DEF Kept
    <3>2. CASE answer # "ok"
      BY <1>0, <1>1, <2>1, <2>2, <3>2 DEF Kept, HasRoom
    <3> QED  BY <3>1, <3>2
  <2>8. Waits(q, S)
    BY <1>1, <2>1 DEF Waits
  <2> QED  BY <1>1, <2>1, <2>3, <2>4, <2>6, <2>7, <2>8 DEF Settled, Sound, q
<1> QED  BY <1>2, <1>3

LEMMA PractisedIsSettled ==
  ASSUME NEW p, NEW R, Sound(p, R), "practice" \in R, NEW answer
  PROVE  LET q == Practised(p, answer)
         IN  Settled(p, R, "practice", q) /\ q.room = p.room
<1> DEFINE q == Practised(p, answer)
           r == LetGo(p)
           done == p.practice \/ answer = "ok"
<1>0. p \in PageRecord /\ PageType(p) /\ Linked(p, R) /\ Asked(p, R) /\ Kept(p)
  BY DEF Sound, PageType
<1>1. /\ Target(p) = Practice /\ p.stored = NoRoom /\ p.persisted = NoRoom
      /\ ~HasRoom(p) /\ ~p.inFlight
  <2>1. Target(p) = Practice /\ p.stored = NoRoom /\ ~HasRoom(p)
    BY <1>0, TargetIs DEF Asked
  <2>2. ~OfRoom(p)
    BY <2>1 DEF OfRoom
  <2> QED  BY <1>0, <2>1, <2>2 DEF Asked, Kept
<1>2. /\ r \in PageRecord /\ SameStory(p, r) /\ r.socket = 0 /\ r.link = "none"
      /\ r.pending = <<>> /\ ~r.member /\ r.targets = p.targets /\ ~r.inFlight
  BY <1>0, <1>1, LetGoIs
<1>3. q = [r EXCEPT !.practice = done] /\ done \in BOOLEAN
  BY <1>1, <1>2 DEF Practised, DisconnectPracticeSocket, SameStory, PageRecord
<1> HIDE DEF q, r, done
<1>4. q \in PageRecord
  BY <1>2, <1>3 DEF PageRecord
<1>5. /\ q.socket = 0 /\ q.link = "none" /\ q.pending = <<>> /\ ~q.member /\ ~q.inFlight
      /\ q.room = p.room /\ q.stored = NoRoom /\ q.persisted = NoRoom
      /\ q.timer = p.timer /\ q.targets = p.targets
  BY <1>1, <1>2, <1>3 DEF PageRecord, SameStory
<1>6. PageType(q) /\ ~HasRoom(q)
  BY <1>0, <1>1, <1>4, <1>5 DEF PageType, HasRoom, PageRecord
<1>7. Sound(q, {})
  BY <1>5, <1>6, GoneIsSound
<1> QED  BY <1>5, <1>7 DEF Settled, q

\* The callback of a request of the current socket.
LEMMA AnsweredIsSettled ==
  ASSUME NEW p, NEW R, Sound(p, R), NEW request \in R,
         NEW answer, answer = "ok" => p.link = "open", NEW snap \in Snapshots
  PROVE  LET q == Answered(p, p.socket, request, answer, snap)
         IN  /\ p.socket # 0 /\ Settled(p, R, request, q)
             /\ answer # "ok" => q.room = p.room
             /\ request \in {"create", "join"} /\ answer = "ok"
                  => q.room = Shown(Target(p), snap)
             /\ request \notin {"create", "join", "stored"} => MovesOn(p.room, q.room)
             /\ request = "stored" => ~q.inFlight
<1> DEFINE q == Answered(p, p.socket, request, answer, snap)
<1>1. request \in Requests /\ p.socket # 0 /\ IsCurrentSocket(p, p.socket)
  BY DEF Sound, Linked, IsCurrentSocket
<1>2. CASE request = "create"
  <2>1. q = Created(p, answer, snap)
    BY <1>1, <1>2 DEF Answered
  <2> HIDE DEF q
  <2> QED  BY <1>1, <1>2, <2>1, CreatedIsSettled DEF q
<1>3. CASE request = "join"
  <2>1. q = Joined(p, answer, snap)
    BY <1>1, <1>3 DEF Answered
  <2> HIDE DEF q
  <2> QED  BY <1>1, <1>3, <2>1, JoinedIsSettled DEF q
<1>4. CASE request = "rejoin"
  <2>1. q = Rejoined(p, answer, snap)
    BY <1>1, <1>4 DEF Answered
  <2> HIDE DEF q
  <2> QED  BY <1>1, <1>4, <2>1, RejoinedIsSettled DEF q
<1>5. CASE request = "stored"
  <2>1. q = StoredJoined(p, answer, snap)
    BY <1>1, <1>5 DEF Answered
  <2> HIDE DEF q
  <2> QED  BY <1>1, <1>5, <2>1, StoredIsSettled DEF q
<1>6. CASE request = "practice"
  <2>1. q = Practised(p, answer)
    BY <1>1, <1>6 DEF Answered
  <2> HIDE DEF q
  <2>2. Settled(p, R, "practice", q) /\ q.room = p.room
    BY <1>6, <2>1, PractisedIsSettled
  <2>3. MovesOn(p.room, q.room)
    BY <2>2 DEF MovesOn, Sound, PageType, PageRecord, RoomRecord
  <2> QED  BY <1>1, <1>6, <2>2, <2>3 DEF q
<1> QED  BY <1>1, <1>2, <1>3, <1>4, <1>5, <1>6 DEF Requests

\* A request that fails leaves the room on the screen as it is.
LEMMA FailedIsSettled ==
  ASSUME NEW p, NEW R, Sound(p, R), NEW request \in R, NEW snap \in Snapshots,
         NEW s, s = p.socket
  PROVE  LET q == Answered(p, s, request, "failed", snap)
         IN  Settled(p, R, request, q) /\ q.room = p.room
<1> DEFINE q == Answered(p, p.socket, request, "failed", snap)
<1>1. "failed" # "ok"
  OBVIOUS
<1>2. Settled(p, R, request, q) /\ ("failed" # "ok" => q.room = p.room)
  <2> DEFINE answer == "failed"
  <2>1. answer = "ok" => p.link = "open"
    OBVIOUS
  <2> QED  BY <2>1, AnsweredIsSettled
<1> HIDE DEF q
<1>3. Settled(p, R, request, q) /\ q.room = p.room
  BY <1>1, <1>2
<1> QED  BY <1>3 DEF q

-----------------------------------------------------------------------------
(* The end of a connection, at which all requests fail.                    *)

\* f[n] is the page p after the first n of the requests of socket s failed.
IsFailing(f, m, p, s, requests, snap) ==
  f = [n \in 0..m |-> IF n = 0 THEN p
                      ELSE Answered(f[n - 1], s, requests[n], "failed", snap)]

LEMMA FailingExists ==
  ASSUME NEW p, NEW s, NEW requests, NEW snap, NEW len \in Nat
  PROVE  \E f : IsFailing(f, len, p, s, requests, snap)
<1> DEFINE S == {m \in Nat : \E f : IsFailing(f, m, p, s, requests, snap)}
<1>1. 0 \in S
  <2> DEFINE f == [n \in 0..0 |-> p]
  <2>1. IsFailing(f, 0, p, s, requests, snap)
    BY DEF IsFailing
  <2> QED  BY <2>1
<1>2. ASSUME NEW m \in S PROVE m + 1 \in S
  <2>1. PICK f : IsFailing(f, m, p, s, requests, snap)
    OBVIOUS
  <2> DEFINE next == Answered(f[m], s, requests[m + 1], "failed", snap)
             g == [n \in 0..(m + 1) |-> IF n <= m THEN f[n] ELSE next]
  <2>2. \A n \in 0..(m + 1) :
          g[n] = IF n = 0 THEN p
                 ELSE Answered(g[n - 1], s, requests[n], "failed", snap)
    BY <2>1 DEF IsFailing
  <2>3. IsFailing(g, m + 1, p, s, requests, snap)
    BY <2>2 DEF IsFailing
  <2> QED  BY <2>3
<1>3. S = Nat
  <2> HIDE DEF S
  <2>1. S \in SUBSET Nat
    BY DEF S
  <2> QED  BY <1>1, <1>2, <2>1, InductionOnNat
<1> QED  BY <1>3

LEMMA AllFailedIsFailing ==
  ASSUME NEW p, NEW s, NEW requests, NEW snap, Len(requests) \in Nat
  PROVE  \E f : /\ IsFailing(f, Len(requests), p, s, requests, snap)
                /\ AllFailed(p, s, requests, snap) = f[Len(requests)]
<1> DEFINE after == CHOOSE f : IsFailing(f, Len(requests), p, s, requests, snap)
<1>1. IsFailing(after, Len(requests), p, s, requests, snap)
  BY FailingExists
<1>2. AllFailed(p, s, requests, snap) = after[Len(requests)]
  BY DEF AllFailed, IsFailing
<1> QED  BY <1>1, <1>2

\* The callback of a socket that was let go meanwhile.
LEMMA LateAnswerIsSound ==
  ASSUME NEW p, Sound(p, {}), NEW s, p.socket # s, NEW request, NEW answer, NEW snap
  PROVE  LET q == Answered(p, s, request, answer, snap)
         IN  Sound(q, {}) /\ q.socket = p.socket /\ q.pending = p.pending /\ q.room = p.room
<1> DEFINE q == Answered(p, s, request, answer, snap)
           joins == p.joinPending /\ request # "join"
<1>0. p \in PageRecord /\ PageType(p) /\ Linked(p, {}) /\ Asked(p, {}) /\ Kept(p)
      /\ Waits(p, {})
  BY DEF Sound, PageType
<1>1. q = [p EXCEPT !.joinPending = joins] /\ joins \in BOOLEAN
  BY <1>0 DEF Answered, IsCurrentSocket, PageRecord
<1> HIDE DEF q, joins
<1>2. q \in PageRecord
  BY <1>0, <1>1 DEF PageRecord
<1>3. SameSocket(p, q) /\ SameStory(p, q) /\ q.inFlight = p.inFlight
  BY <1>0, <1>1 DEF PageRecord, SameSocket, SameStory
<1>4. /\ PageType(q) /\ Target(q) = Target(p) /\ (OfRoom(q) <=> OfRoom(p))
      /\ Linked(q, {}) /\ (HasRoom(q) <=> HasRoom(p))
  BY <1>0, <1>2, <1>3, SameSocketIs DEF HasRoom, SameStory
<1>5. Asked(q, {}) /\ Kept(q) /\ Waits(q, {})
  BY <1>0, <1>3, <1>4 DEF Asked, Kept, Waits, SameSocket, SameStory
<1> QED  BY <1>3, <1>4, <1>5 DEF Sound, SameSocket, SameStory, q

LEMMA AllFailedIsSound ==
  ASSUME NEW p, NEW requests \in Seq(Requests), Distinct(requests),
         Sound(p, ToSet(requests)), p.pending = <<>>, p.socket # 0,
         NEW snap \in Snapshots
  PROVE  LET q == AllFailed(p, p.socket, requests, snap)
         IN  Sound(q, {}) /\ q.pending = <<>> /\ q.room = p.room
<1> DEFINE q == AllFailed(p, p.socket, requests, snap)
           len == Len(requests)
           Rest(n) == {requests[i] : i \in (n + 1)..len}
<1>0. len \in Nat /\ ToSet(requests) = Rest(0)
  BY ToSetIs
<1>1. PICK f : IsFailing(f, len, p, p.socket, requests, snap) /\ q = f[len]
  <2> DEFINE s == p.socket
  <2>1. \E f : /\ IsFailing(f, Len(requests), p, s, requests, snap)
               /\ AllFailed(p, s, requests, snap) = f[Len(requests)]
    <3> HIDE DEF s
    <3> QED  BY <1>0, AllFailedIsFailing
  <2> QED  BY <2>1
<1> DEFINE Good(n) == /\ f[n].pending = <<>> /\ f[n].room = p.room
                      /\ \/ f[n].socket = 0 /\ Sound(f[n], {})
                         \/ f[n].socket = p.socket /\ Sound(f[n], Rest(n))
           S == {n \in Nat : n <= len => Good(n)}
<1>2. 0 \in S
  <2>1. f[0] = p
    BY <1>0, <1>1 DEF IsFailing
  <2> QED  BY <1>0, <2>1
<1>3. ASSUME NEW n \in S PROVE n + 1 \in S
  <2> SUFFICES ASSUME n + 1 <= len PROVE Good(n + 1)
    OBVIOUS
  <2>0. n \in Nat /\ n <= len /\ Good(n)
    BY <1>0
  <2> DEFINE a == f[n]
             b == f[n + 1]
             request == requests[n + 1]
  <2>1. b = Answered(a, p.socket, request, "failed", snap)
    <3>1. n + 1 \in 0..len /\ n + 1 # 0 /\ (n + 1) - 1 = n
      BY <1>0, <2>0
    <3> QED  BY <1>1, <3>1 DEF IsFailing
  <2>2. a.pending = <<>> /\ a.room = p.room
    BY <2>0
  <2>3. CASE a.socket = 0 /\ Sound(a, {})
    <3> HIDE DEF a, b, request
    <3>1. Sound(b, {}) /\ b.socket = 0 /\ b.pending = <<>> /\ b.room = p.room
      BY <2>1, <2>2, <2>3, LateAnswerIsSound
    <3> QED  BY <3>1 DEF b
  <2>4. CASE a.socket = p.socket /\ Sound(a, Rest(n))
    <3>1. request \in Rest(n)
      <4>1. n + 1 \in (n + 1)..len
        BY <1>0, <2>0
      <4> QED  BY <4>1
    <3>2. Rest(n) \ {request} = Rest(n + 1)
      <4>1. \A i \in 1..len, j \in 1..len : i # j => requests[i] # requests[j]
        BY DEF Distinct
      <4>2. ASSUME NEW i \in (n + 2)..len PROVE requests[i] \in Rest(n) \ {request}
        <5>1. i \in 1..len /\ n + 1 \in 1..len /\ i # n + 1 /\ i \in (n + 1)..len
          BY <1>0, <2>0
        <5> QED  BY <4>1, <5>1
      <4>3. ASSUME NEW i \in (n + 1)..len, requests[i] # request
            PROVE  requests[i] \in Rest(n + 1)
        <5>1. i \in (n + 1 + 1)..len
          BY <1>0, <2>0, <4>3
        <5> QED  BY <5>1
      <4>4. n + 1 + 1 = n + 2
        BY <2>0
      <4> QED  BY <4>2, <4>3, <4>4
    <3> HIDE DEF a, b, request, Rest
    <3>3. Settled(a, Rest(n), request, b) /\ b.room = a.room
      BY <2>1, <2>4, <3>1, FailedIsSettled
    <3> QED  BY <2>2, <2>4, <3>2, <3>3 DEF Settled, b
  <2> QED  BY <2>0, <2>3, <2>4
<1>4. S = Nat
  <2> HIDE DEF S
  <2>1. S \in SUBSET Nat
    BY DEF S
  <2> QED  BY <1>2, <1>3, <2>1, InductionOnNat
<1>5. Good(len)
  <2>1. len \in S
    <3> HIDE DEF S
    <3> QED  BY <1>0, <1>4
  <2> HIDE DEF Good
  <2> QED  BY <1>0, <2>1
<1>6. Rest(len) = {}
  BY <1>0
<1> QED  BY <1>1, <1>5, <1>6

-----------------------------------------------------------------------------
(* The steps.                                                              *)

\* The room on the screen moves on, an attempt to come back is answered, or the
\* page is loaded again: what RoomMovesOn asks of a step.
Moves ==
  \/ MovesOn(page.room, page'.room)
  \/ page.inFlight /\ ~page'.inFlight
  \/ reloads' # reloads

\* What one reads off the invariant; R is what the page is owed.
LEMMA SessionIs ==
  ASSUME SessionInv
  PROVE  LET R == ToSet(page.pending)
         IN  /\ page \in PageRecord /\ page.pending \in Seq(Requests)
             /\ page.room \in RoomRecord /\ page.room.round \in 1..MaxRounds
             /\ page.room.code \in Codes /\ page.stored \in Codes
             /\ Len(page.targets) \in Nat /\ page.socket \in Nat
             /\ truth \in Snapshots /\ truth.round \in 1..MaxRounds
             /\ truth.over \in BOOLEAN
             /\ PageType(page) /\ Linked(page, R) /\ Asked(page, R) /\ Kept(page)
             /\ Waits(page, R) /\ Distinct(page.pending) /\ R \subseteq Requests
             /\ MovesOn(page.room, page.room)
<1>1. /\ page \in PageRecord /\ PageType(page) /\ Linked(page, ToSet(page.pending))
      /\ Asked(page, ToSet(page.pending)) /\ Kept(page)
      /\ Waits(page, ToSet(page.pending)) /\ Distinct(page.pending)
  BY DEF SessionInv, Sound, PageType, Between
<1>2. /\ page.pending \in Seq(Requests) /\ page.room \in RoomRecord
      /\ page.stored \in Codes /\ page.socket \in Nat
      /\ page.targets \in Seq(Rooms \cup {Practice})
  BY <1>1 DEF PageRecord
<1>3. page.room.round \in 1..MaxRounds /\ page.room.code \in Codes
  BY <1>2 DEF RoomRecord
<1>4. truth \in Snapshots /\ truth.round \in 1..MaxRounds /\ truth.over \in BOOLEAN
  BY DEF SessionInv, Snapshots
<1>5. MovesOn(page.room, page.room)
  BY DEF MovesOn
<1>6. Len(page.targets) \in Nat
  BY <1>2, LenProperties
<1> QED  BY <1>1, <1>2, <1>3, <1>4, <1>5, <1>6 DEF Linked

\* A page that is owed nothing.
LEMMA IdleIsBetween ==
  ASSUME NEW p, Sound(p, {}), p.pending = <<>>, NEW snap
  PROVE  ToSet(p.pending) = {} /\ Between(p, snap)
<1>1. ToSet(p.pending) = {} /\ Distinct(p.pending)
  BY NoQueue
<1>2. ~(p.socket # 0 /\ HasRoom(p) /\ p.stored = NoRoom)
  <2>1. p.room.code \in Rooms \cup {NoRoom}
    BY DEF Sound, PageType, PageRecord, RoomRecord, Codes
  <2> QED  BY <2>1 DEF Sound, Kept, Asked, HasRoom, OfRoom
<1> QED  BY <1>1, <1>2 DEF Between

LEMMA IdleIsSound ==
  ASSUME Sound(page', {}), page'.pending = <<>>,
         truth' \in Snapshots, reloads' \in 0..MaxReloads
  PROVE  SessionInv'
<1>1. ToSet(page'.pending) = {} /\ Between(page', truth')
  BY IdleIsBetween
<1> QED  BY <1>1 DEF SessionInv

\* The effect that mounts the page.
LEMMA MountedIsSound ==
  ASSUME NEW code \in Codes
  PROVE  LET q == Mounted(code) IN Sound(q, {}) /\ q.pending = <<>>
<1> DEFINE f == Fresh(code)
<1>1. /\ <<>> \in Seq(Requests) /\ <<>> \in Seq(Rooms \cup {Practice})
      /\ Len(<<>>) = 0 /\ "none" \in Links /\ 0 \in 0..(MaxJoins + 1)
      /\ NoRoom \in Codes /\ Nothing \in RoomRecord
  BY EmptySeq DEF Links, Codes, Nothing, RoomRecord
<1>2. f \in PageRecord
  BY <1>1 DEF Fresh, PageRecord
<1>3. /\ f.socket = 0 /\ f.targets = <<>> /\ f.link = "none" /\ f.pending = <<>>
      /\ ~f.member /\ f.room = Nothing /\ f.stored = code /\ f.persisted = code
      /\ ~f.inFlight /\ f.timer = 0 /\ ~f.practice /\ ~f.setup
  BY DEF Fresh
<1> HIDE DEF f
<1>4. CASE code = NoRoom
  <2>1. PageType(f) /\ ~HasRoom(f)
    BY <1>1, <1>2, <1>3 DEF PageType, HasRoom, Nothing
  <2>2. Sound(f, {})
    BY <1>3, <1>4, <2>1, GoneIsSound
  <2> QED  BY <1>3, <1>4, <2>2 DEF Mounted, f
<1>5. CASE code # NoRoom
  <2> DEFINE r == [f EXCEPT !.recovery = "reconnecting"]
             q == ConnectSocket(r, code)
  <2>1. r \in PageRecord
    BY <1>2 DEF PageRecord
  <2>2. /\ r.targets = <<>> /\ r.room = Nothing /\ r.stored = code
        /\ r.persisted = code /\ r.timer = 0 /\ ~r.practice /\ ~r.setup
        /\ r.recovery = "reconnecting"
    BY <1>2, <1>3 DEF PageRecord
  <2>3. code \in Rooms
    BY <1>5 DEF Codes
  <2>4. q = Mounted(code)
    BY <1>5 DEF Mounted, f
  <2> HIDE DEF r
  <2>5. /\ q \in PageRecord /\ SameStory(r, q) /\ q.socket = Len(r.targets) + 1
        /\ q.link = "connecting" /\ q.pending = <<>> /\ ~q.member /\ ~q.inFlight
        /\ Len(q.targets) = Len(r.targets) + 1 /\ Target(q) = code
    BY <2>1, <2>3, ConnectSocketIs
  <2> HIDE DEF q
  <2>6. /\ q.socket = 1 /\ Len(q.targets) = 1 /\ q.timer = 0 /\ q.room = Nothing
        /\ q.stored = code /\ q.persisted = code /\ ~q.practice /\ ~q.setup
        /\ q.recovery = "reconnecting"
    BY <1>1, <2>2, <2>5 DEF SameStory
  <2>7. OfRoom(q) /\ ~HasRoom(q)
    BY <2>3, <2>5, <2>6 DEF OfRoom, HasRoom, Nothing
  <2>8. PageType(q)
    BY <2>5, <2>6 DEF PageType
  <2>9. Linked(q, {})
    BY <2>5, <2>6 DEF Linked
  <2>10. Asked(q, {})
    BY <1>5, <2>5, <2>6, <2>7 DEF Asked
  <2>11. Kept(q)
    BY <2>5, <2>6, <2>7 DEF Kept
  <2>12. Waits(q, {})
    BY <2>5 DEF Waits
  <2> QED  BY <2>4, <2>5, <2>8, <2>9, <2>10, <2>11, <2>12 DEF Sound
<1> QED  BY <1>4, <1>5

LEMMA InitIsSound == Init => SessionInv
<1> SUFFICES ASSUME Init PROVE SessionInv
  OBVIOUS
<1>1. PICK code \in Codes : page = Mounted(code)
  BY DEF Init, Codes
<1>2. Sound(page, {}) /\ page.pending = <<>>
  BY <1>1, MountedIsSound
<1>3. ToSet(page.pending) = {} /\ Between(page, truth)
  BY <1>2, IdleIsBetween
<1>4. truth \in Snapshots /\ reloads \in 0..MaxReloads
  BY DEF Init, Snapshots
<1> QED  BY <1>2, <1>3, <1>4 DEF SessionInv

\* A page in which only the link, the membership, the timer, the menu and what
\* is said of the recovery have changed: what holds of it besides Waits.
LEMMA RelinkedIs ==
  ASSUME SessionInv, NEW q \in PageRecord,
         q.socket = page.socket, q.targets = page.targets, q.room = page.room,
         q.stored = page.stored, q.persisted = page.persisted,
         q.practice = page.practice, q.setup => page.setup \/ page.stored = NoRoom,
         q.inFlight = page.inFlight, q.timer \in {0, page.timer},
         q.recovery = "idle" => page.recovery = "idle",
         q.link = "none" <=> page.socket = 0, q.member => q.link = "open"
  PROVE  LET R == ToSet(page.pending)
         IN  /\ PageType(q) /\ Linked(q, R) /\ Asked(q, R) /\ Kept(q)
             /\ Target(q) = Target(page) /\ (OfRoom(q) <=> OfRoom(page))
             /\ (HasRoom(q) <=> HasRoom(page))
<1> DEFINE R == ToSet(page.pending)
<1>0. PageType(page) /\ Linked(page, R) /\ Asked(page, R) /\ Kept(page)
      /\ Len(page.targets) \in Nat
  BY SessionIs
<1> HIDE DEF R
<1>1. Target(q) = Target(page) /\ (OfRoom(q) <=> OfRoom(page))
      /\ (HasRoom(q) <=> HasRoom(page))
  BY DEF Target, OfRoom, HasRoom
<1>2. PageType(q)
  BY <1>0 DEF PageType
<1>3. Linked(q, R)
  BY <1>0 DEF Linked
<1>4. Asked(q, R)
  BY <1>0, <1>1 DEF Asked
<1>5. Kept(q)
  BY <1>0, <1>1 DEF Kept
<1> QED  BY <1>1, <1>2, <1>3, <1>4, <1>5 DEF R

LEMMA OpensStep ==
  ASSUME SessionInv, Opens
  PROVE  SessionInv' /\ Moves
<1> DEFINE R == ToSet(page.pending)
           p == [page EXCEPT !.link = "open"]
<1>0. /\ page \in PageRecord /\ page.pending \in Seq(Requests) /\ page.stored \in Codes
      /\ PageType(page) /\ Linked(page, R) /\ Asked(page, R) /\ Kept(page)
      /\ Distinct(page.pending) /\ MovesOn(page.room, page.room)
  BY SessionIs
<1>1. page.link = "connecting" /\ page.socket # 0 /\ ~page.member
  BY <1>0 DEF Opens, Linked
<1>2. "rejoin" \notin R /\ ~(HasRoom(page) /\ page.stored = NoRoom)
  BY <1>1 DEF SessionInv, Between
<1>3. truth' \in Snapshots /\ reloads' = reloads /\ reloads \in 0..MaxReloads
  BY DEF Opens, SessionInv
<1>4. p \in PageRecord
  BY <1>0 DEF PageRecord, Links
<1>5. /\ p.socket = page.socket /\ p.targets = page.targets /\ p.room = page.room
      /\ p.stored = page.stored /\ p.persisted = page.persisted
      /\ p.practice = page.practice /\ p.setup = page.setup
      /\ p.inFlight = page.inFlight /\ p.timer = page.timer
      /\ p.recovery = page.recovery /\ p.link = "open" /\ p.pending = page.pending
  BY <1>0 DEF PageRecord
<1>6. page' = IF ~OfRoom(p) THEN p
              ELSE IF HasRoom(p) THEN Emit(p, "rejoin")
              ELSE AttemptStoredRoomJoin(p)
  BY DEF Opens
<1> HIDE DEF p
<1>7. /\ PageType(p) /\ Linked(p, R) /\ Asked(p, R) /\ Kept(p)
      /\ Target(p) = Target(page) /\ (OfRoom(p) <=> OfRoom(page))
      /\ (HasRoom(p) <=> HasRoom(page))
  BY <1>1, <1>4, <1>5, RelinkedIs
<1>8. p.stored # NoRoom => OfRoom(p)
  BY <1>1, <1>5, <1>7, TargetIs
<1> HIDE DEF R
\* What is left to show in each of the cases.
<1>9. ASSUME NEW S, Sound(page', S), ToSet(page'.pending) = S,
             Distinct(page'.pending), page'.room = page.room, page'.link = "open",
             page'.stored = page.stored
      PROVE  SessionInv' /\ Moves
  <2>1. ~(HasRoom(page') /\ page'.stored = NoRoom)
    BY <1>2, <1>9 DEF HasRoom
  <2>2. Between(page', truth')
    BY <1>9, <2>1 DEF Between
  <2>3. SessionInv'
    BY <1>3, <1>9, <2>2 DEF SessionInv
  <2>4. Moves
    BY <1>0, <1>9 DEF Moves
  <2> QED  BY <2>3, <2>4
<1>10. CASE page' = p /\ p.stored = NoRoom
  <2>1. Waits(p, R)
    BY <1>10 DEF Waits
  <2>2. Sound(page', R)
    BY <1>7, <1>10, <2>1 DEF Sound
  <2> QED  BY <1>0, <1>5, <1>9, <1>10, <2>2 DEF R
<1>11. CASE OfRoom(p) /\ HasRoom(p)
  <2> DEFINE more == Append(page.pending, "rejoin")
             q == Emit(p, "rejoin")
             S == R \cup {"rejoin"}
  <2>0. p.stored # NoRoom
    BY <1>2, <1>5, <1>7, <1>11
  <2>1. "rejoin" \in Requests
    BY DEF Requests
  <2>2. more \in Seq(Requests) /\ Distinct(more) /\ ToSet(more) = S
    BY <1>0, <1>2, <2>1, AppendedQueue DEF R
  <2>3. q = [p EXCEPT !.pending = more]
    BY <1>5 DEF Emit
  <2>4. page' = q
    BY <1>6, <1>11
  <2> HIDE DEF more, q
  <2>5. q \in PageRecord
    BY <1>4, <2>2, <2>3 DEF PageRecord
  <2>6. SameStory(p, q) /\ q.pending = more /\ q.socket = p.socket /\ q.link = p.link
        /\ q.targets = p.targets /\ q.member = p.member /\ q.inFlight = p.inFlight
    BY <1>4, <2>3 DEF PageRecord, SameStory
  <2>7. /\ PageType(q) /\ (OfRoom(q) <=> OfRoom(p)) /\ Target(q) = Target(p)
        /\ (HasRoom(q) <=> HasRoom(p))
    BY <1>7, <2>5, <2>6 DEF PageType, OfRoom, Target, HasRoom, SameStory
  <2>8. Linked(q, S)
    BY <1>1, <1>5, <1>7, <2>1, <2>6 DEF Linked
  <2>9. Asked(q, S)
    BY <1>7, <1>11, <2>0, <2>6, <2>7 DEF Asked, SameStory
  <2>10. Kept(q)
    BY <1>7, <2>6, <2>7 DEF Kept, SameStory
  <2>11. Waits(q, S)
    BY DEF Waits
  <2>12. Sound(q, S)
    BY <2>7, <2>8, <2>9, <2>10, <2>11 DEF Sound
  <2> HIDE DEF S
  <2>13. q.room = page.room /\ q.link = "open" /\ q.stored = page.stored
    BY <1>5, <2>6 DEF SameStory
  <2> QED  BY <1>9, <2>2, <2>4, <2>6, <2>12, <2>13
<1>12. CASE OfRoom(p) /\ ~HasRoom(p) /\ p.stored # NoRoom
  <2> DEFINE q == AttemptStoredRoomJoin(p)
             S == R \cup {"stored"}
  <2>1. page' = q
    BY <1>6, <1>12
  <2>2. p.socket # 0
    BY <1>1, <1>5
  <2> HIDE DEF q
  <2>3. /\ Sound(q, S) /\ q.room = p.room /\ q.link = p.link /\ q.stored = p.stored
        /\ q.pending = (IF p.inFlight THEN p.pending ELSE Append(p.pending, "stored"))
    BY <1>7, <1>12, <2>2, AttemptIs DEF q
  <2>4. ToSet(q.pending) = S /\ Distinct(q.pending)
    <3>1. p.inFlight <=> "stored" \in R
      BY <1>7 DEF Asked
    <3>2. CASE p.inFlight
      BY <1>0, <1>5, <2>3, <3>1, <3>2 DEF R
    <3>3. CASE ~p.inFlight
      <4>1. "stored" \in Requests
        BY DEF Requests
      <4> QED  BY <1>0, <1>5, <2>3, <3>1, <3>3, <4>1, AppendedQueue DEF R
    <3> QED  BY <3>2, <3>3
  <2> HIDE DEF S
  <2>5. q.room = page.room /\ q.link = "open" /\ q.stored = page.stored
    BY <1>5, <2>3
  <2> QED  BY <1>9, <2>1, <2>3, <2>4, <2>5
<1>13. CASE OfRoom(p) /\ ~HasRoom(p) /\ p.stored = NoRoom
  <2>1. page' = p
    BY <1>6, <1>13 DEF AttemptStoredRoomJoin
  <2> QED  BY <1>10, <1>13, <2>1
<1>14. CASE ~OfRoom(p)
  BY <1>6, <1>8, <1>10, <1>14
<1> QED  BY <1>11, <1>12, <1>13, <1>14

\* The handler of a lost connection, and then the requests that fail with it.
LEMMA ClosesStep ==
  ASSUME SessionInv, NEW replaced \in BOOLEAN, Closes(replaced)
  PROVE  SessionInv' /\ Moves
<1> DEFINE R == ToSet(page.pending)
           link == IF replaced THEN "over" ELSE "waiting"
           recovery == IF ~OfRoom(page) THEN page.recovery
                       ELSE IF replaced THEN "failed" ELSE "reconnecting"
           creates == page.createPending /\ (HasRoom(page) \/ ~OfRoom(page))
           p == [Disconnected(page, ~replaced) EXCEPT
                   !.pending = <<>>, !.member = FALSE,
                   !.link = IF replaced THEN "over" ELSE "waiting"]
<1>0. /\ page \in PageRecord /\ page.pending \in Seq(Requests) /\ page.stored \in Codes
      /\ PageType(page) /\ Linked(page, R) /\ Asked(page, R) /\ Kept(page)
      /\ Distinct(page.pending) /\ MovesOn(page.room, page.room) /\ truth \in Snapshots
      /\ reloads \in 0..MaxReloads
  BY SessionIs DEF SessionInv
<1>1. page.socket # 0
  BY <1>0 DEF Closes, Linked
<1>2. page' = AllFailed(p, page.socket, page.pending, truth)
  BY DEF Closes
<1>3. p = [page EXCEPT !.createPending = creates, !.recovery = recovery,
                       !.pending = <<>>, !.member = FALSE, !.link = link]
  BY <1>0 DEF Disconnected, PageRecord
<1>4. /\ <<>> \in Seq(Requests) /\ creates \in BOOLEAN /\ link \in Links \ {"none"}
      /\ recovery \in {"idle", "reconnecting", "failed"}
  BY <1>0, EmptySeq DEF PageRecord, Links
<1>5. /\ recovery = "idle" => page.recovery = "idle"
      /\ OfRoom(page) /\ recovery = "reconnecting" => link = "waiting"
  OBVIOUS
<1> HIDE DEF creates, recovery, link, p
<1>6. p \in PageRecord
  BY <1>0, <1>3, <1>4 DEF PageRecord
<1>7. /\ p.socket = page.socket /\ p.targets = page.targets /\ p.room = page.room
      /\ p.stored = page.stored /\ p.persisted = page.persisted
      /\ p.practice = page.practice /\ p.setup = page.setup
      /\ p.inFlight = page.inFlight /\ p.timer = page.timer
      /\ p.recovery = recovery /\ p.link = link /\ p.pending = <<>> /\ ~p.member
  BY <1>0, <1>3 DEF PageRecord
<1>8. /\ PageType(p) /\ Linked(p, R) /\ Asked(p, R) /\ Kept(p)
      /\ (OfRoom(p) <=> OfRoom(page))
  BY <1>1, <1>4, <1>5, <1>6, <1>7, RelinkedIs
<1>9. Waits(p, R)
  <2>1. p.stored # NoRoom => OfRoom(page)
    BY <1>0, <1>1, <1>7, TargetIs
  <2> QED  BY <1>5, <1>7, <2>1 DEF Waits
<1>10. Sound(p, R)
  BY <1>8, <1>9 DEF Sound
<1> HIDE DEF R
<1>11. Sound(page', {}) /\ page'.pending = <<>> /\ page'.room = p.room
  <2> DEFINE q == AllFailed(p, p.socket, page.pending, truth)
  <2>1. Sound(q, {}) /\ q.pending = <<>> /\ q.room = p.room
    BY <1>0, <1>1, <1>7, <1>10, AllFailedIsSound DEF R
  <2> HIDE DEF q
  <2>2. page' = q
    BY <1>2, <1>7 DEF q
  <2> QED  BY <2>1, <2>2
<1>12. truth' = truth /\ reloads' = reloads
  BY DEF Closes
<1>13. SessionInv'
  BY <1>0, <1>11, <1>12, IdleIsSound
<1> QED  BY <1>0, <1>7, <1>11, <1>13 DEF Moves

\* A page in which little changes, and nothing that it is owed.
LEMMA QuietStep ==
  ASSUME SessionInv, truth' = truth, reloads' = reloads, NEW R, R = ToSet(page.pending),
         Sound(page', R), page'.pending = page.pending, page'.room = page.room,
         page'.stored = page.stored, page'.socket = page.socket,
         page'.member = page.member, page.link = "open" => page'.link = "open"
  PROVE  SessionInv' /\ Moves
<1>1. Between(page, truth)
  BY DEF SessionInv
<1>2. Between(page', truth')
  BY <1>1 DEF Between, HasRoom
<1>3. SessionInv'
  BY <1>2 DEF SessionInv
<1>4. MovesOn(page.room, page'.room)
  BY SessionIs
<1> QED  BY <1>3, <1>4 DEF Moves

LEMMA ReconnectsStep ==
  ASSUME SessionInv, Reconnects
  PROVE  SessionInv' /\ Moves
<1> DEFINE R == ToSet(page.pending)
           q == [page EXCEPT !.link = "connecting"]
<1>0. /\ page \in PageRecord /\ PageType(page) /\ Linked(page, R)
  BY SessionIs
<1>1. page.link = "waiting" /\ page' = q /\ truth' = truth /\ reloads' = reloads
  BY DEF Reconnects
<1>2. page.socket # 0 /\ ~page.member
  BY <1>0, <1>1 DEF Linked
<1>3. q \in PageRecord
  BY <1>0 DEF PageRecord, Links
<1>4. /\ q.socket = page.socket /\ q.targets = page.targets /\ q.room = page.room
      /\ q.stored = page.stored /\ q.persisted = page.persisted
      /\ q.practice = page.practice /\ q.setup = page.setup
      /\ q.inFlight = page.inFlight /\ q.timer = page.timer
      /\ q.recovery = page.recovery /\ q.link = "connecting"
      /\ q.pending = page.pending /\ q.member = page.member
  BY <1>0 DEF PageRecord
<1> HIDE DEF q
<1>5. PageType(q) /\ Linked(q, R) /\ Asked(q, R) /\ Kept(q)
  BY <1>2, <1>3, <1>4, RelinkedIs
<1>6. Waits(q, R)
  BY <1>4 DEF Waits
<1>7. Sound(q, R)
  BY <1>5, <1>6 DEF Sound
<1> HIDE DEF R
<1>8. R = ToSet(page.pending)
  BY DEF R
<1> QED  BY <1>1, <1>4, <1>7, <1>8, QuietStep

LEMMA AcceptsStep ==
  ASSUME SessionInv, Accepts
  PROVE  SessionInv' /\ Moves
<1> DEFINE R == ToSet(page.pending)
           q == [page EXCEPT !.member = TRUE]
<1>0. /\ page \in PageRecord /\ PageType(page) /\ Linked(page, R) /\ Waits(page, R)
      /\ MovesOn(page.room, page.room) /\ Distinct(page.pending)
  BY SessionIs
<1>1. page.link = "open" /\ ~page.member /\ page' = q /\ reloads' = reloads
  BY DEF Accepts
<1>2. page.socket # 0
  BY <1>0, <1>1 DEF Linked
<1>3. truth' \in Snapshots
  <2>1. [round |-> 1, over |-> FALSE] \in Snapshots
    BY DEF Snapshots
  <2> QED  BY <2>1 DEF Accepts, SessionInv
<1>4. q \in PageRecord
  BY <1>0 DEF PageRecord
<1>5. /\ q.socket = page.socket /\ q.targets = page.targets /\ q.room = page.room
      /\ q.stored = page.stored /\ q.persisted = page.persisted
      /\ q.practice = page.practice /\ q.setup = page.setup
      /\ q.inFlight = page.inFlight /\ q.timer = page.timer
      /\ q.recovery = page.recovery /\ q.link = page.link
      /\ q.pending = page.pending
  BY <1>0 DEF PageRecord
<1> HIDE DEF q
<1>6. PageType(q) /\ Linked(q, R) /\ Asked(q, R) /\ Kept(q) /\ (HasRoom(q) <=> HasRoom(page))
  BY <1>1, <1>2, <1>4, <1>5, RelinkedIs
<1>7. Waits(q, R)
  BY <1>0, <1>5, <1>6 DEF Waits
<1>8. Sound(q, R)
  BY <1>6, <1>7 DEF Sound
<1>9. ~(HasRoom(page) /\ page.stored = NoRoom)
  BY <1>1, <1>2 DEF SessionInv, Between
<1>10. Between(q, truth')
  BY <1>0, <1>1, <1>5, <1>6, <1>9 DEF Between
<1>11. reloads \in 0..MaxReloads
  BY DEF SessionInv
<1>12. SessionInv'
  BY <1>1, <1>3, <1>5, <1>8, <1>10, <1>11 DEF SessionInv
<1>13. MovesOn(page.room, page'.room)
  BY <1>0, <1>1, <1>5
<1> QED  BY <1>12, <1>13 DEF Moves

LEMMA MatchGoesOnStep ==
  ASSUME SessionInv, MatchGoesOn
  PROVE  SessionInv' /\ Moves
<1>0. /\ MovesOn(page.room, page.room) /\ page.room.round \in 1..MaxRounds
      /\ truth \in Snapshots /\ truth.round \in 1..MaxRounds
  BY SessionIs
<1>1. page' = page /\ reloads' = reloads /\ truth' \in Snapshots
  BY DEF MatchGoesOn
<1>2. NotAhead(page.room, truth) => NotAhead(page.room, truth')
  <2>1. CASE truth' = [truth EXCEPT !.over = TRUE]
    <3>1. truth'.round = truth.round /\ truth'.over
      BY <1>0, <2>1 DEF Snapshots
    <3> QED  BY <3>1 DEF NotAhead
  <2>2. CASE truth' = [round |-> truth.round + 1, over |-> FALSE]
    <3>1. truth'.round = truth.round + 1
      BY <2>2
    <3>2. page.room.round \in Nat /\ truth.round \in Nat
      BY <1>0
    <3> QED  BY <3>1, <3>2 DEF NotAhead
  <2> QED  BY <2>1, <2>2 DEF MatchGoesOn
<1>3. Between(page', truth')
  BY <1>1, <1>2 DEF SessionInv, Between
<1>4. SessionInv'
  BY <1>1, <1>3 DEF SessionInv
<1> QED  BY <1>0, <1>1, <1>4 DEF Moves

\* A snapshot comes from the server, which has seated the player.
LEMMA ShowsRoomStep ==
  ASSUME SessionInv, NEW s \in Sockets, NEW snap \in Snapshots, ShowsRoom(s, snap)
  PROVE  SessionInv' /\ Moves
<1> DEFINE R == ToSet(page.pending)
           next == Shown(Target(page), truth)
           q == ApplyRoomSnapshot(page, next)
<1>0. /\ page \in PageRecord /\ PageType(page) /\ Linked(page, R) /\ Asked(page, R)
      /\ Kept(page) /\ Waits(page, R) /\ truth \in Snapshots
      /\ truth.round \in 1..MaxRounds /\ page.room.code \in Codes
      /\ Distinct(page.pending) /\ reloads \in 0..MaxReloads
  BY SessionIs DEF SessionInv
<1>1. page.socket # 0 /\ s = page.socket /\ page.member /\ snap = truth
  BY DEF ShowsRoom, IsCurrentSocket
<1>2. Target(page) \in Rooms /\ OfRoom(page) /\ page.targets[s] = Target(page)
  BY <1>1 DEF ShowsRoom, Target, OfRoom
<1>3. page' = q /\ truth' = truth /\ reloads' = reloads
  BY <1>1, <1>2 DEF ShowsRoom
<1>4. /\ Target(page) \in Codes /\ next \in RoomRecord /\ next.code = Target(page)
      /\ next.round = truth.round /\ next.over = truth.over
  BY <1>0, <1>2, ShownIs DEF Codes
<1> HIDE DEF q, next
<1>5. /\ q \in PageRecord /\ SameSocket(page, q) /\ q.inFlight = page.inFlight
      /\ q.stored = page.stored /\ q.persisted = page.persisted
      /\ q.practice = page.practice /\ q.setup = page.setup
      /\ q.recovery = page.recovery
      /\ MovesOn(page.room, q.room) /\ q.room \in {page.room, next}
  BY <1>0, <1>4, AppliedIs DEF q
<1>6. PageType(q) /\ Target(q) = Target(page) /\ OfRoom(q) /\ Linked(q, R)
  BY <1>0, <1>2, <1>5, SameSocketIs
<1>7. HasRoom(q) => q.room.code = Target(page)
  <2>1. HasRoom(page) => page.room.code = Target(page)
    BY <1>0, <1>1 DEF Kept
  <2> QED  BY <1>4, <1>5, <2>1 DEF HasRoom
<1>8. HasRoom(page) => HasRoom(q)
  BY <1>2, <1>4, <1>5 DEF HasRoom
<1>9. Asked(q, R)
  BY <1>0, <1>2, <1>5, <1>6, <1>8 DEF Asked
<1>10. Kept(q)
  BY <1>0, <1>1, <1>2, <1>5, <1>6, <1>7, <1>8 DEF Kept, SameSocket
<1>11. Waits(q, R)
  BY <1>0, <1>5, <1>8 DEF Waits, SameSocket
<1>12. Sound(q, R)
  BY <1>6, <1>9, <1>10, <1>11 DEF Sound
<1>13. Between(q, truth)
  <2>1. q.pending = page.pending /\ q.link = page.link /\ q.member
    BY <1>1, <1>5 DEF SameSocket
  <2>2. NotAhead(next, truth)
    BY <1>0, <1>4 DEF NotAhead
  <2>3. HasRoom(q) /\ q.stored = NoRoom => NotAhead(q.room, truth)
    <3>1. CASE q.room = next
      BY <2>2, <3>1
    <3>2. CASE q.room = page.room
      BY <1>1, <1>5, <3>2 DEF SessionInv, Between, HasRoom
    <3> QED  BY <1>5, <3>1, <3>2
  <2> QED  BY <1>0, <2>1, <2>3 DEF SessionInv, Between
<1>14. SessionInv'
  <2>1. q.pending = page.pending
    BY <1>5 DEF SameSocket
  <2> QED  BY <1>0, <1>3, <1>12, <1>13, <2>1 DEF SessionInv
<1> QED  BY <1>3, <1>5, <1>14 DEF Moves

LEMMA ShowsResultStep ==
  ASSUME SessionInv, NEW s \in Sockets, ShowsResult(s)
  PROVE  SessionInv' /\ Moves
<1> DEFINE R == ToSet(page.pending)
           over == [page.room EXCEPT !.over = TRUE]
           q == [page EXCEPT !.room = over, !.result = TRUE]
<1>0. /\ page \in PageRecord /\ PageType(page) /\ Linked(page, R) /\ Asked(page, R)
      /\ Kept(page) /\ Waits(page, R) /\ page.room \in RoomRecord
      /\ page.room.round \in 1..MaxRounds
      /\ Distinct(page.pending) /\ reloads \in 0..MaxReloads /\ truth \in Snapshots
  BY SessionIs DEF SessionInv
<1>1. page.socket # 0 /\ s = page.socket /\ page.member /\ truth.over
  BY DEF ShowsResult, IsCurrentSocket
<1>2. page' = q /\ truth' = truth /\ reloads' = reloads
  BY <1>0 DEF ShowsResult, PageRecord
<1>3. /\ over \in RoomRecord /\ over.code = page.room.code
      /\ over.round = page.room.round /\ over.over
  BY <1>0 DEF RoomRecord
<1> HIDE DEF over, q
<1>4. q \in PageRecord
  BY <1>0, <1>3 DEF q, PageRecord
<1>5. /\ SameSocket(page, q) /\ q.inFlight = page.inFlight
      /\ q.stored = page.stored /\ q.persisted = page.persisted
      /\ q.practice = page.practice /\ q.setup = page.setup
      /\ q.recovery = page.recovery /\ q.room = over
  BY <1>0 DEF q, PageRecord, SameSocket
<1>6. PageType(q) /\ Target(q) = Target(page) /\ (OfRoom(q) <=> OfRoom(page)) /\ Linked(q, R)
  BY <1>0, <1>4, <1>5, SameSocketIs
<1>7. HasRoom(q) <=> HasRoom(page)
  BY <1>3, <1>5 DEF HasRoom
<1>8. Asked(q, R)
  BY <1>0, <1>5, <1>6, <1>7 DEF Asked
<1>9. Kept(q)
  BY <1>0, <1>3, <1>5, <1>6, <1>7 DEF Kept, SameSocket
<1>10. Waits(q, R)
  BY <1>0, <1>5, <1>7 DEF Waits, SameSocket
<1>11. Sound(q, R)
  BY <1>6, <1>8, <1>9, <1>10 DEF Sound
<1>12. Between(q, truth)
  <2>1. /\ q.pending = page.pending /\ q.link = page.link /\ q.member
        /\ q.socket = page.socket
    BY <1>1, <1>5 DEF SameSocket
  <2>2. NotAhead(page.room, truth) => NotAhead(over, truth)
    BY <1>1, <1>3 DEF NotAhead
  <2> QED  BY <1>5, <1>7, <2>1, <2>2 DEF SessionInv, Between
<1>13. SessionInv'
  <2>1. q.pending = page.pending
    BY <1>5 DEF SameSocket
  <2> QED  BY <1>0, <1>2, <1>11, <1>12, <2>1 DEF SessionInv
<1>14. MovesOn(page.room, over)
  BY <1>3 DEF MovesOn
<1> QED  BY <1>2, <1>5, <1>13, <1>14 DEF Moves

LEMMA ShowsErrorStep ==
  ASSUME SessionInv, ShowsError
  PROVE  SessionInv' /\ Moves
<1> DEFINE R == ToSet(page.pending)
           q == [page EXCEPT !.createPending = FALSE]
<1>0. page \in PageRecord /\ Linked(page, R) /\ Waits(page, R)
  BY SessionIs
<1>1. page' = q /\ truth' = truth /\ reloads' = reloads
  BY DEF ShowsError
<1>2. q \in PageRecord
  BY <1>0 DEF PageRecord
<1>3. /\ SameSocket(page, q) /\ SameStory(page, q) /\ q.inFlight = page.inFlight
  BY <1>0 DEF PageRecord, SameSocket, SameStory
<1> HIDE DEF q
<1>4. /\ PageType(q) /\ Linked(q, R) /\ Asked(q, R) /\ Kept(q)
      /\ (HasRoom(q) <=> HasRoom(page))
  BY <1>0, <1>2, <1>3, RelinkedIs DEF SameSocket, SameStory, Linked
<1>5. Waits(q, R)
  BY <1>0, <1>3, <1>4 DEF Waits, SameSocket, SameStory
<1>6. Sound(q, R)
  BY <1>4, <1>5 DEF Sound
<1> HIDE DEF R
<1>7. R = ToSet(page.pending)
  BY DEF R
<1> QED  BY <1>1, <1>3, <1>6, <1>7, QuietStep DEF SameSocket, SameStory

LEMMA RetryTimerStep ==
  ASSUME SessionInv, RetryTimer
  PROVE  SessionInv' /\ Moves
<1> DEFINE R == ToSet(page.pending)
           p == [page EXCEPT !.timer = 0]
<1>0. /\ page \in PageRecord /\ page.pending \in Seq(Requests) /\ Linked(page, R)
      /\ Waits(page, R) /\ Distinct(page.pending) /\ MovesOn(page.room, page.room)
      /\ reloads \in 0..MaxReloads
  BY SessionIs DEF SessionInv
<1>1. /\ page' = IF IsCurrentSocket(p, page.timer) THEN AttemptStoredRoomJoin(p) ELSE p
      /\ truth' = truth /\ reloads' = reloads /\ page.timer # 0
  BY DEF RetryTimer
<1>2. p \in PageRecord
  BY <1>0 DEF PageRecord
<1>3. /\ p.socket = page.socket /\ p.targets = page.targets /\ p.room = page.room
      /\ p.stored = page.stored /\ p.persisted = page.persisted
      /\ p.practice = page.practice /\ p.setup = page.setup
      /\ p.inFlight = page.inFlight /\ p.timer = 0 /\ p.recovery = page.recovery
      /\ p.link = page.link /\ p.pending = page.pending /\ p.member = page.member
  BY <1>0 DEF PageRecord
<1> HIDE DEF p
<1>4. /\ PageType(p) /\ Linked(p, R) /\ Asked(p, R) /\ Kept(p)
      /\ (HasRoom(p) <=> HasRoom(page))
  BY <1>0, <1>2, <1>3, RelinkedIs DEF Linked
<1> HIDE DEF R
<1>5. R = ToSet(page.pending)
  BY DEF R
<1>6. CASE page' = p /\ (p.stored = NoRoom \/ ~IsCurrentSocket(p, page.timer))
  <2>1. Waits(p, R)
    BY <1>0, <1>1, <1>3, <1>4, <1>6 DEF Waits, IsCurrentSocket
  <2>2. Sound(page', R)
    BY <1>4, <1>6, <2>1 DEF Sound
  <2> QED  BY <1>1, <1>3, <1>5, <1>6, <2>2, QuietStep
<1>7. CASE IsCurrentSocket(p, page.timer) /\ p.stored # NoRoom
  <2> DEFINE q == AttemptStoredRoomJoin(p)
             S == R \cup {"stored"}
  <2>1. page' = q
    BY <1>1, <1>7
  <2>2. p.socket # 0
    BY <1>7 DEF IsCurrentSocket
  <2> HIDE DEF q
  <2>3. /\ Sound(q, S) /\ q.room = p.room /\ q.link = p.link /\ q.stored = p.stored
        /\ q.pending = (IF p.inFlight THEN p.pending ELSE Append(p.pending, "stored"))
    BY <1>4, <1>7, <2>2, AttemptIs DEF q
  <2>4. ToSet(q.pending) = S /\ Distinct(q.pending)
    <3>1. p.inFlight <=> "stored" \in R
      BY <1>4 DEF Asked
    <3>2. CASE p.inFlight
      BY <1>0, <1>3, <2>3, <3>1, <3>2 DEF R
    <3>3. CASE ~p.inFlight
      <4>1. "stored" \in Requests
        BY DEF Requests
      <4> QED  BY <1>0, <1>3, <2>3, <3>1, <3>3, <4>1, AppendedQueue DEF R
    <3> QED  BY <3>2, <3>3
  <2>5. Between(q, truth)
    <3>1. "rejoin" \in S => q.link = "open"
      BY <1>3, <1>5, <2>3 DEF SessionInv, Between
    <3>2. q.stored # NoRoom
      BY <1>7, <2>3
    <3> QED  BY <2>4, <3>1, <3>2 DEF Between
  <2> HIDE DEF S
  <2>6. SessionInv'
    BY <1>0, <1>1, <2>1, <2>3, <2>4, <2>5 DEF SessionInv
  <2> QED  BY <1>0, <1>3, <2>1, <2>3, <2>6 DEF Moves
<1>8. CASE IsCurrentSocket(p, page.timer) /\ p.stored = NoRoom
  <2>1. page' = p
    BY <1>1, <1>8 DEF AttemptStoredRoomJoin
  <2> QED  BY <1>6, <1>8, <2>1
<1>9. CASE ~IsCurrentSocket(p, page.timer)
  BY <1>1, <1>6, <1>9
<1> QED  BY <1>7, <1>8, <1>9

\* showModeSetup and showHomeModeMenu: the menu is offered to a page that has
\* no room to come back to.
LEMMA SetupStep ==
  ASSUME SessionInv, OpenSetup \/ CloseSetup
  PROVE  SessionInv' /\ Moves
<1> DEFINE R == ToSet(page.pending)
           q == [page EXCEPT !.setup = ~page.setup]
<1>0. /\ page \in PageRecord /\ Linked(page, R) /\ Waits(page, R) /\ Kept(page)
  BY SessionIs
<1>1. /\ page' = q /\ truth' = truth /\ reloads' = reloads
      /\ ~HasRoom(page) /\ (page.setup \/ page.recovery = "idle")
  BY DEF OpenSetup, CloseSetup, AtHome, AtSetup, Does
<1>2. page.stored = NoRoom
  BY <1>0, <1>1 DEF Kept
<1>3. q \in PageRecord
  BY <1>0 DEF PageRecord
<1>4. /\ SameSocket(page, q) /\ q.inFlight = page.inFlight /\ q.room = page.room
      /\ q.stored = page.stored /\ q.persisted = page.persisted
      /\ q.practice = page.practice /\ q.recovery = page.recovery
  BY <1>0 DEF PageRecord, SameSocket
<1> HIDE DEF q
<1>5. PageType(q) /\ Linked(q, R) /\ Asked(q, R) /\ Kept(q)
  BY <1>0, <1>2, <1>3, <1>4, RelinkedIs DEF SameSocket, Linked
<1>6. Waits(q, R)
  BY <1>2, <1>4 DEF Waits
<1>7. Sound(q, R)
  BY <1>5, <1>6 DEF Sound
<1> HIDE DEF R
<1>8. R = ToSet(page.pending)
  BY DEF R
<1> QED  BY <1>1, <1>4, <1>7, <1>8, QuietStep DEF SameSocket

\* A page that has just asked something of a new socket: of a room it does not
\* have yet, or of the practice gateway.
LEMMA AskingIsSound ==
  ASSUME SessionInv, truth' = truth, reloads' = reloads, NEW request \in Requests,
         NEW target \in Rooms \cup {Practice}, NEW r, r \in PageRecord,
         r.pending = <<>>, r.socket = Len(page.targets) + 1, r.link = "connecting",
         Len(r.targets) = Len(page.targets) + 1, Target(r) = target, ~r.member,
         ~r.inFlight, r.timer = page.timer, r.room = page.room, ~HasRoom(page),
         r.stored = NoRoom, r.persisted = NoRoom,
         IF target = Practice THEN request = "practice"
         ELSE request \in {"create", "join"} /\ ~r.practice,
         page' = Emit(r, request)
  PROVE  SessionInv' /\ Moves
<1> DEFINE more == Append(<<>>, request)
           q == [r EXCEPT !.pending = more]
<1>0. /\ PageType(page) /\ Len(page.targets) \in Nat /\ MovesOn(page.room, page.room)
      /\ reloads \in 0..MaxReloads /\ truth \in Snapshots /\ page.room.code \in Codes
  BY SessionIs DEF SessionInv
<1>1. page' = q
  BY DEF Emit
<1>2. more \in Seq(Requests) /\ Distinct(more) /\ ToSet(more) = {request}
  <2>1. <<>> \in Seq(Requests) /\ Distinct(<<>>) /\ ToSet(<<>>) = {}
    BY NoQueue
  <2> DEFINE empty == <<>>
  <2>2. empty \in Seq(Requests) /\ Distinct(empty) /\ request \notin ToSet(empty)
    BY <2>1
  <2> HIDE DEF empty
  <2>3. /\ Append(empty, request) \in Seq(Requests) /\ Distinct(Append(empty, request))
        /\ ToSet(Append(empty, request)) = ToSet(empty) \cup {request}
    BY <2>2, AppendedQueue
  <2> QED  BY <2>1, <2>3 DEF empty
<1> HIDE DEF more
<1>3. q \in PageRecord
  BY <1>2 DEF PageRecord
<1>4. /\ SameStory(r, q) /\ q.pending = more /\ q.socket = r.socket /\ q.link = r.link
      /\ q.targets = r.targets /\ q.member = r.member /\ q.inFlight = r.inFlight
  BY DEF PageRecord, SameStory
<1> HIDE DEF q
<1>5. Target(q) = target /\ ~HasRoom(q) /\ (OfRoom(q) <=> target # Practice)
  BY <1>0, <1>4 DEF Target, OfRoom, HasRoom, SameStory
<1>6. PageType(q)
  <2>1. page.timer <= Len(page.targets) /\ page.timer \in Nat
    BY <1>0 DEF PageType, PageRecord
  <2> QED  BY <1>0, <1>3, <1>4, <2>1 DEF PageType, SameStory
<1>7. Linked(q, {request})
  BY <1>0, <1>4 DEF Linked
<1>8. Asked(q, {request})
  BY <1>4, <1>5 DEF Asked, SameStory
<1>9. Kept(q)
  BY <1>4, <1>5 DEF Kept, SameStory
<1>10. Waits(q, {request})
  BY DEF Waits
<1>11. Sound(q, {request})
  BY <1>6, <1>7, <1>8, <1>9, <1>10 DEF Sound
<1>12. request # "rejoin"
  OBVIOUS
<1>13. Between(q, truth)
  BY <1>2, <1>4, <1>5, <1>12 DEF Between
<1>14. SessionInv'
  BY <1>0, <1>1, <1>2, <1>4, <1>11, <1>13 DEF SessionInv
<1> QED  BY <1>0, <1>1, <1>4, <1>14 DEF Moves, SameStory

LEMMA CreateRoomStep ==
  ASSUME SessionInv, NEW code \in Rooms, CreateRoom(code)
  PROVE  SessionInv' /\ Moves
<1> DEFINE p == [page EXCEPT !.createPending = TRUE]
           r == ConnectSocket(p, code)
<1>0. page \in PageRecord /\ Kept(page)
  BY SessionIs
<1>1. /\ page' = Emit(r, "create") /\ truth' = truth /\ reloads' = reloads
      /\ ~HasRoom(page) /\ ~page.practice /\ page.setup
  BY DEF CreateRoom, Does, AtSetup
<1>2. page.stored = NoRoom /\ page.persisted = NoRoom
  BY <1>0, <1>1 DEF Kept
<1>3. p \in PageRecord
  BY <1>0 DEF PageRecord
<1>4. SameStory(page, p) /\ p.targets = page.targets
  BY <1>0 DEF PageRecord, SameStory
<1> HIDE DEF p, r
<1>5. /\ r \in PageRecord /\ SameStory(p, r)
      /\ r.socket = Len(p.targets) + 1 /\ r.link = "connecting"
      /\ r.pending = <<>> /\ ~r.member /\ ~r.inFlight
      /\ Len(r.targets) = Len(p.targets) + 1 /\ Target(r) = code
  BY <1>3, ConnectSocketIs DEF r
<1>6. /\ r.timer = page.timer /\ r.room = page.room /\ r.stored = NoRoom
      /\ r.persisted = NoRoom /\ ~r.practice
  BY <1>1, <1>2, <1>4, <1>5 DEF SameStory
<1>7. code # Practice /\ "create" \in Requests
  BY DEF Requests
<1>8. r.socket = Len(page.targets) + 1 /\ Len(r.targets) = Len(page.targets) + 1
  BY <1>4, <1>5
<1> QED  BY <1>1, <1>5, <1>6, <1>7, <1>8, AskingIsSound

LEMMA JoinRoomStep ==
  ASSUME SessionInv, NEW code \in Rooms, JoinRoom(code)
  PROVE  SessionInv' /\ Moves
<1> DEFINE p == ConnectSocket(page, code)
           r == [p EXCEPT !.joinPending = TRUE]
<1>0. page \in PageRecord /\ Kept(page)
  BY SessionIs
<1>1. /\ page' = Emit(r, "join") /\ truth' = truth /\ reloads' = reloads
      /\ ~HasRoom(page) /\ ~page.practice /\ page.setup
  BY DEF JoinRoom, Does, AtSetup
<1>2. page.stored = NoRoom /\ page.persisted = NoRoom
  BY <1>0, <1>1 DEF Kept
<1> HIDE DEF p
<1>3. /\ p \in PageRecord /\ SameStory(page, p)
      /\ p.socket = Len(page.targets) + 1 /\ p.link = "connecting"
      /\ p.pending = <<>> /\ ~p.member /\ ~p.inFlight
      /\ Len(p.targets) = Len(page.targets) + 1 /\ Target(p) = code
  BY <1>0, ConnectSocketIs DEF p
<1>4. r \in PageRecord
  BY <1>3 DEF PageRecord
<1>5. SameSocket(p, r) /\ SameStory(p, r) /\ r.inFlight = p.inFlight
  BY <1>3 DEF PageRecord, SameSocket, SameStory
<1> HIDE DEF r
<1>6. /\ r.timer = page.timer /\ r.room = page.room /\ r.stored = NoRoom
      /\ r.persisted = NoRoom /\ ~r.practice /\ ~r.inFlight
  BY <1>1, <1>2, <1>3, <1>5 DEF SameStory
<1>7. code # Practice /\ "join" \in Requests
  BY DEF Requests
<1>8. /\ r.socket = Len(page.targets) + 1 /\ Len(r.targets) = Len(page.targets) + 1
      /\ r.link = "connecting" /\ r.pending = <<>> /\ ~r.member /\ Target(r) = code
  BY <1>3, <1>5 DEF SameSocket, Target
<1> QED  BY <1>1, <1>4, <1>6, <1>7, <1>8, AskingIsSound

LEMMA StartPracticeStep ==
  ASSUME SessionInv, StartPractice
  PROVE  SessionInv' /\ Moves
<1> DEFINE p == ConnectSocket(page, Practice)
           r == [p EXCEPT !.setup = FALSE]
<1>0. page \in PageRecord /\ Kept(page)
  BY SessionIs
<1>1. /\ page' = Emit(r, "practice") /\ truth' = truth /\ reloads' = reloads
      /\ (page.practice \/ (~HasRoom(page) /\ page.setup))
  BY DEF StartPractice, Does, AtSetup
<1>2. page.stored = NoRoom /\ page.persisted = NoRoom /\ ~HasRoom(page)
  BY <1>0, <1>1 DEF Kept
<1> HIDE DEF p
<1>3. /\ p \in PageRecord /\ SameStory(page, p)
      /\ p.socket = Len(page.targets) + 1 /\ p.link = "connecting"
      /\ p.pending = <<>> /\ ~p.member /\ ~p.inFlight
      /\ Len(p.targets) = Len(page.targets) + 1 /\ Target(p) = Practice
  BY <1>0, ConnectSocketIs DEF p
<1>4. r \in PageRecord
  BY <1>3 DEF PageRecord
<1>5. /\ SameSocket(p, r) /\ r.inFlight = p.inFlight /\ r.room = p.room
      /\ r.stored = p.stored /\ r.persisted = p.persisted
  BY <1>3 DEF PageRecord, SameSocket
<1> HIDE DEF r
<1>6. /\ r.timer = page.timer /\ r.room = page.room /\ r.stored = NoRoom
      /\ r.persisted = NoRoom /\ ~r.inFlight
  BY <1>1, <1>2, <1>3, <1>5 DEF SameStory, SameSocket
<1>7. "practice" \in Requests
  BY DEF Requests
<1>8. /\ r.socket = Len(page.targets) + 1 /\ Len(r.targets) = Len(page.targets) + 1
      /\ r.link = "connecting" /\ r.pending = <<>> /\ ~r.member /\ Target(r) = Practice
  BY <1>3, <1>5 DEF SameSocket, Target
<1> QED  BY <1>1, <1>2, <1>4, <1>6, <1>7, <1>8, AskingIsSound

LEMMA ReturnToPracticeMenuStep ==
  ASSUME SessionInv, ReturnToPracticeMenu
  PROVE  SessionInv' /\ Moves
<1> DEFINE R == ToSet(page.pending)
           p == DisconnectPracticeSocket(page)
           q == [p EXCEPT !.practice = FALSE, !.setup = TRUE]
<1>0. /\ page \in PageRecord /\ PageType(page) /\ Linked(page, R) /\ Asked(page, R)
      /\ Kept(page) /\ Distinct(page.pending) /\ MovesOn(page.room, page.room)
      /\ reloads \in 0..MaxReloads /\ truth \in Snapshots
  BY SessionIs DEF SessionInv
<1>1. page' = q /\ truth' = truth /\ reloads' = reloads /\ page.practice
  BY DEF ReturnToPracticeMenu, Does
<1>2. ~HasRoom(page) /\ page.stored = NoRoom /\ page.persisted = NoRoom /\ ~OfRoom(page)
  BY <1>0, <1>1 DEF Kept
<1> HIDE DEF R, p
<1>3. /\ p \in PageRecord /\ SameStory(page, p) /\ p.socket = 0 /\ p.link = "none"
      /\ ~p.member /\ ~p.inFlight /\ p.targets = page.targets
      /\ ToSet(p.pending) = {} /\ Distinct(p.pending)
  <2>1. CASE Target(page) = Practice
    <3>1. p = LetGo(page)
      BY <2>1 DEF p, DisconnectPracticeSocket
    <3>2. ~page.inFlight
      BY <1>0, <1>2 DEF Asked
    <3> QED  BY <1>0, <3>1, <3>2, LetGoIs, NoQueue
  <2>2. CASE Target(page) # Practice
    <3>1. page.socket = 0
      <4>1. page.socket # 0 => Target(page) \in Rooms \cup {Practice}
        <5>1. page.targets \in Seq(Rooms \cup {Practice}) /\ page.socket \in Nat
              /\ page.socket <= Len(page.targets)
          BY <1>0 DEF PageType, PageRecord
        <5> QED  BY <5>1, ElementOfSeq, LenProperties DEF Target
      <4> QED  BY <1>2, <2>2, <4>1 DEF OfRoom
    <3>2. p = page
      BY <2>2 DEF p, DisconnectPracticeSocket
    <3>3. R = {} /\ page.link = "none" /\ ~page.member /\ ~page.inFlight
      BY <1>0, <3>1 DEF Linked, Asked
    <3> QED  BY <1>0, <3>1, <3>2, <3>3 DEF SameStory, R
  <2> QED  BY <2>1, <2>2
<1>4. q \in PageRecord
  BY <1>3 DEF PageRecord
<1>5. /\ q.socket = 0 /\ q.link = "none" /\ ~q.member /\ ~q.inFlight /\ ~q.practice
      /\ q.targets = page.targets /\ q.room = page.room /\ q.stored = NoRoom
      /\ q.persisted = NoRoom /\ q.timer = page.timer /\ q.pending = p.pending
  BY <1>2, <1>3 DEF PageRecord, SameStory
<1> HIDE DEF q
<1>6. PageType(q)
  BY <1>0, <1>4, <1>5 DEF PageType, PageRecord
<1>7. Sound(q, {})
  BY <1>5, <1>6, GoneIsSound
<1>8. Between(q, truth)
  BY <1>3, <1>5 DEF Between
<1>9. SessionInv'
  BY <1>0, <1>1, <1>3, <1>5, <1>7, <1>8 DEF SessionInv
<1> QED  BY <1>0, <1>1, <1>5, <1>9 DEF Moves

LEMMA RetryRecoveryStep ==
  ASSUME SessionInv, RetryRecovery
  PROVE  SessionInv' /\ Moves
<1> DEFINE R == ToSet(page.pending)
           p == [page EXCEPT !.attempts = 0, !.recovery = "reconnecting"]
<1>0. /\ page \in PageRecord /\ page.pending \in Seq(Requests) /\ PageType(page)
      /\ Linked(page, R) /\ Kept(page) /\ page.stored \in Codes
      /\ Distinct(page.pending) /\ MovesOn(page.room, page.room)
      /\ Len(page.targets) \in Nat /\ reloads \in 0..MaxReloads /\ truth \in Snapshots
  BY SessionIs DEF SessionInv
<1>1. /\ page' = RetryStoredRoomJoin(page) /\ truth' = truth /\ reloads' = reloads
      /\ page.recovery = "failed"
  BY DEF RetryRecovery, Does
<1>2. p \in PageRecord
  <2>1. 0 \in 0..(MaxJoins + 1)
    OBVIOUS
  <2> QED  BY <1>0, <2>1 DEF PageRecord
<1>3. /\ SameSocket(page, p) /\ p.inFlight = page.inFlight /\ p.room = page.room
      /\ p.stored = page.stored /\ p.persisted = page.persisted
      /\ p.practice = page.practice /\ p.setup = page.setup
      /\ p.recovery = "reconnecting"
  BY <1>0 DEF PageRecord, SameSocket
<1> HIDE DEF p
<1>4. /\ PageType(p) /\ Linked(p, R) /\ Asked(p, R) /\ Kept(p)
      /\ (OfRoom(p) <=> OfRoom(page)) /\ (HasRoom(p) <=> HasRoom(page))
  BY <1>0, <1>2, <1>3, RelinkedIs DEF SameSocket, Linked
<1> HIDE DEF R
<1>5. R = ToSet(page.pending)
  BY DEF R
<1>6. CASE page.stored = NoRoom
  <2> DEFINE q == [page EXCEPT !.recovery = "idle"]
  <2>1. page' = q
    BY <1>1, <1>6 DEF RetryStoredRoomJoin
  <2>2. q \in PageRecord
    BY <1>0 DEF PageRecord
  <2>3. /\ SameSocket(page, q) /\ q.inFlight = page.inFlight /\ q.room = page.room
        /\ q.stored = page.stored /\ q.persisted = page.persisted
        /\ q.practice = page.practice /\ q.setup = page.setup
    BY <1>0 DEF PageRecord, SameSocket
  <2> HIDE DEF q
  <2>4. PageType(q) /\ Target(q) = Target(page) /\ (OfRoom(q) <=> OfRoom(page)) /\ Linked(q, R)
    BY <1>0, <2>2, <2>3, SameSocketIs
  <2>5. HasRoom(q) <=> HasRoom(page)
    BY <2>3 DEF HasRoom
  <2>6. Asked(page, R)
    BY <1>5, SessionIs
  <2>7. Asked(q, R) /\ Kept(q)
    BY <1>0, <1>6, <2>3, <2>4, <2>5, <2>6 DEF Asked, Kept, SameSocket
  <2>8. Waits(q, R)
    BY <1>6, <2>3 DEF Waits
  <2>9. Sound(q, R)
    BY <2>4, <2>7, <2>8 DEF Sound
  <2> QED  BY <1>1, <1>5, <2>1, <2>3, <2>9, QuietStep DEF SameSocket
<1>7. CASE page.stored # NoRoom /\ OfRoom(page) /\ page.link = "open"
  <2> DEFINE q == AttemptStoredRoomJoin(p)
             S == R \cup {"stored"}
  <2>1. page' = q
    BY <1>1, <1>7 DEF RetryStoredRoomJoin, p
  <2>2. p.socket # 0 /\ p.stored # NoRoom
    BY <1>0, <1>3, <1>7 DEF Linked, SameSocket
  <2> HIDE DEF q
  <2>3. /\ Sound(q, S) /\ q.room = p.room /\ q.link = p.link /\ q.stored = p.stored
        /\ q.pending = (IF p.inFlight THEN p.pending ELSE Append(p.pending, "stored"))
    BY <1>4, <2>2, AttemptIs DEF q
  <2>4. p.pending = page.pending /\ p.link = "open"
    BY <1>3, <1>7 DEF SameSocket
  <2>5. ToSet(q.pending) = S /\ Distinct(q.pending)
    <3>1. p.inFlight <=> "stored" \in R
      BY <1>4 DEF Asked
    <3>2. CASE p.inFlight
      BY <1>0, <2>3, <2>4, <3>1, <3>2 DEF R
    <3>3. CASE ~p.inFlight
      <4>1. "stored" \in Requests
        BY DEF Requests
      <4> QED  BY <1>0, <2>3, <2>4, <3>1, <3>3, <4>1, AppendedQueue DEF R
    <3> QED  BY <3>2, <3>3
  <2>6. Between(q, truth)
    BY <2>2, <2>3, <2>4, <2>5 DEF Between
  <2> HIDE DEF S
  <2>7. SessionInv'
    BY <1>0, <1>1, <2>1, <2>3, <2>5, <2>6 DEF SessionInv
  <2> QED  BY <1>0, <1>3, <2>1, <2>3, <2>7 DEF Moves
<1>8. CASE page.stored # NoRoom /\ ~(OfRoom(page) /\ page.link = "open")
  <2> DEFINE q == ConnectSocket(p, page.stored)
  <2>1. page' = q
    BY <1>1, <1>8 DEF RetryStoredRoomJoin, p
  <2>2. page.stored \in Rooms /\ Len(p.targets) = Len(page.targets)
    BY <1>0, <1>3, <1>8 DEF Codes, SameSocket
  <2> HIDE DEF q
  <2>3. /\ q \in PageRecord /\ SameStory(p, q)
        /\ q.socket = Len(page.targets) + 1 /\ q.link = "connecting"
        /\ q.pending = <<>> /\ ~q.member /\ ~q.inFlight
        /\ Len(q.targets) = Len(page.targets) + 1 /\ Target(q) = page.stored
    BY <1>2, <2>2, ConnectSocketIs DEF q
  <2>4. /\ OfRoom(q) /\ (HasRoom(q) <=> HasRoom(p)) /\ q.stored = page.stored
        /\ q.room = page.room
    BY <1>3, <2>2, <2>3 DEF OfRoom, HasRoom, SameStory
  <2>5. PageType(q)
    <3>1. p.timer \in Nat /\ p.timer <= Len(page.targets)
      BY <1>4, <2>2 DEF PageType, PageRecord
    <3> QED  BY <1>0, <2>3, <3>1 DEF PageType, SameStory
  <2>6. Linked(q, {})
    BY <1>0, <2>3 DEF Linked
  <2>7. Asked(q, {})
    BY <1>8, <2>3, <2>4 DEF Asked
  <2>8. Kept(q)
    BY <1>3, <1>4, <1>8, <2>3, <2>4 DEF Kept, SameStory
  <2>9. Waits(q, {})
    BY <2>3 DEF Waits
  <2>10. Sound(q, {})
    BY <2>5, <2>6, <2>7, <2>8, <2>9 DEF Sound
  <2>11. SessionInv'
    BY <1>0, <1>1, <2>1, <2>3, <2>10, IdleIsSound
  <2> QED  BY <1>0, <2>1, <2>4, <2>11 DEF Moves
<1> QED  BY <1>6, <1>7, <1>8

LEMMA LeaveRoomStep ==
  ASSUME SessionInv, LeaveRoom
  PROVE  SessionInv' /\ Moves
<1> DEFINE p == DiscardStoredRoom(page)
           q == [p EXCEPT !.room = Nothing, !.result = FALSE,
                          !.practice = FALSE, !.setup = FALSE]
<1>0. /\ PageType(page) /\ Kept(page) /\ reloads \in 0..MaxReloads /\ truth \in Snapshots
  BY SessionIs DEF SessionInv
<1>1. page' = q /\ truth' = truth /\ reloads' = reloads /\ HasRoom(page)
  BY DEF LeaveRoom, Does
<1> HIDE DEF p
<1>2. Sound(p, {}) /\ p.socket = 0 /\ p.pending = <<>> /\ p.stored = NoRoom
  BY <1>0, DiscardIsSound DEF Kept, p
<1>3. /\ p \in PageRecord /\ PageType(p) /\ p.link = "none" /\ ~p.member /\ ~p.inFlight
      /\ p.persisted = NoRoom
  BY <1>2 DEF Sound, PageType, Linked, Asked, Kept
<1>4. Nothing \in RoomRecord
  BY DEF Nothing, RoomRecord, Codes
<1>5. q \in PageRecord
  BY <1>3, <1>4 DEF PageRecord
<1>6. /\ SameSocket(p, q) /\ q.inFlight = p.inFlight /\ q.stored = NoRoom
      /\ q.persisted = NoRoom /\ q.room = Nothing /\ ~q.practice
  BY <1>2, <1>3 DEF PageRecord, SameSocket
<1> HIDE DEF q
<1>7. PageType(q)
  BY <1>3, <1>5, <1>6, SameSocketIs
<1>8. Sound(q, {}) /\ q.pending = <<>>
  BY <1>2, <1>3, <1>6, <1>7, GoneIsSound DEF SameSocket
<1>9. SessionInv'
  BY <1>0, <1>1, <1>8, IdleIsSound
<1>10. MovesOn(page.room, page'.room)
  BY <1>1, <1>6 DEF MovesOn, HasRoom, Nothing
<1> QED  BY <1>9, <1>10 DEF Moves

LEMMA ReloadStep ==
  ASSUME SessionInv, Reload
  PROVE  SessionInv' /\ Moves
<1>1. page.persisted \in Codes /\ truth \in Snapshots /\ reloads \in 0..MaxReloads
  BY SessionIs DEF SessionInv, PageRecord
<1>2. /\ page' = Mounted(page.persisted) /\ truth' = truth
      /\ reloads' = reloads + 1 /\ reloads < MaxReloads
  BY DEF Reload
<1>3. Sound(page', {}) /\ page'.pending = <<>>
  BY <1>1, <1>2, MountedIsSound
<1>4. reloads' \in 0..MaxReloads /\ reloads' # reloads
  BY <1>1, <1>2
<1>5. SessionInv'
  BY <1>1, <1>2, <1>3, <1>4, IdleIsSound
<1> QED  BY <1>4, <1>5 DEF Moves

\* An answer, at once or after the page has waited long enough.
LEMMA AnswersStep ==
  ASSUME SessionInv, NEW request \in Requests, NEW answer \in {"ok", "refused", "failed"},
         Answers(request, answer)
  PROVE  SessionInv' /\ Moves
<1> DEFINE R == ToSet(page.pending)
           rest == RemoveFirst(page.pending, request)
           p == [page EXCEPT !.pending = rest]
           q == Answered(p, p.socket, request, answer, truth)
<1>0. /\ page \in PageRecord /\ page.pending \in Seq(Requests) /\ page.room \in RoomRecord
      /\ page.room.code \in Codes /\ truth \in Snapshots /\ truth.round \in 1..MaxRounds
      /\ PageType(page) /\ Linked(page, R) /\ Asked(page, R) /\ Kept(page)
      /\ Waits(page, R) /\ Distinct(page.pending) /\ MovesOn(page.room, page.room)
      /\ reloads \in 0..MaxReloads
  BY SessionIs DEF SessionInv
<1>1. request \in R /\ R = {page.pending[i] : i \in 1..Len(page.pending)}
  BY <1>0, ToSetIs DEF Answers, Contains
<1>2. /\ answer = "ok" => page.link = "open" /\ (page.member \/ request = "practice")
      /\ truth' = truth /\ reloads' = reloads
  BY DEF Answers
<1>3. rest \in Seq(Requests) /\ Distinct(rest) /\ ToSet(rest) = R \ {request}
  BY <1>0, RemovedFirst
<1>4. page' = q
  <2>1. p.socket = page.socket
    BY <1>0 DEF PageRecord
  <2> QED  BY <2>1 DEF Answers
<1> HIDE DEF rest, q
<1>5. p \in PageRecord
  BY <1>0, <1>3 DEF PageRecord
<1>6. /\ SameStory(page, p) /\ p.pending = rest /\ p.socket = page.socket
      /\ p.link = page.link /\ p.targets = page.targets /\ p.member = page.member
      /\ p.inFlight = page.inFlight
  BY <1>0 DEF PageRecord, SameStory
<1> HIDE DEF p, R
<1>7. Sound(p, R)
  <2>1. /\ PageType(p) /\ Target(p) = Target(page) /\ (OfRoom(p) <=> OfRoom(page))
        /\ (HasRoom(p) <=> HasRoom(page))
    BY <1>0, <1>5, <1>6 DEF PageType, Target, OfRoom, HasRoom, SameStory
  <2>2. Linked(p, R)
    BY <1>0, <1>6 DEF Linked
  <2>3. Asked(p, R)
    BY <1>0, <1>6, <2>1 DEF Asked, SameStory
  <2>4. Kept(p)
    BY <1>0, <1>6, <2>1 DEF Kept, SameStory
  <2>5. Waits(p, R)
    BY <1>0, <1>6, <2>1 DEF Waits, SameStory
  <2> QED  BY <2>1, <2>2, <2>3, <2>4, <2>5 DEF Sound
<1>8. /\ p.socket # 0 /\ Settled(p, R, request, q)
      /\ answer # "ok" => q.room = p.room
      /\ request \in {"create", "join"} /\ answer = "ok" => q.room = Shown(Target(p), truth)
      /\ request \notin {"create", "join", "stored"} => MovesOn(p.room, q.room)
      /\ request = "stored" => ~q.inFlight
  <2>1. (answer = "ok" => p.link = "open") /\ request \in R /\ truth \in Snapshots
    BY <1>0, <1>1, <1>2, <1>6
  <2> QED  BY <1>7, <2>1, AnsweredIsSettled DEF q
<1>9. SessionInv'
  <2>1. CASE q.socket = 0
    <3>1. Sound(q, {}) /\ q.pending = <<>>
      BY <1>8, <2>1 DEF Settled
    <3> QED  BY <1>0, <1>2, <1>4, <3>1, IdleIsSound
  <2>2. CASE q.socket # 0
    <3>1. /\ Sound(q, R \ {request}) /\ q.pending = rest /\ q.link = page.link
          /\ q.member = page.member
          /\ q.stored = NoRoom => page.stored = NoRoom /\ q.room = page.room
      BY <1>6, <1>8, <2>2 DEF Settled, SameStory
    <3>2. "rejoin" \in ToSet(rest) => page.link = "open"
      BY <1>3 DEF SessionInv, Between, R
    <3>3. HasRoom(q) /\ q.stored = NoRoom => page.member /\ NotAhead(q.room, truth)
      BY <1>6, <1>8, <3>1 DEF SessionInv, Between, HasRoom
    <3>4. Between(q, truth)
      BY <1>3, <3>1, <3>2, <3>3 DEF Between
    <3>5. Sound(q, ToSet(q.pending))
      BY <1>3, <3>1
    <3> QED  BY <1>0, <1>2, <1>4, <3>4, <3>5 DEF SessionInv
  <2> QED  BY <2>1, <2>2
<1>10. Moves
  <2>1. CASE answer # "ok"
    <3>1. q.room = page.room
      BY <1>6, <1>8, <2>1 DEF SameStory
    <3> QED  BY <1>0, <1>4, <3>1 DEF Moves
  <2>2. CASE answer = "ok" /\ request \in {"create", "join"}
    <3>1. OfRoom(page) /\ page.stored = NoRoom /\ page.socket # 0 /\ page.member
      BY <1>0, <1>1, <1>2, <2>2, TargetIs DEF Asked
    <3>2. Target(p) = Target(page) /\ Target(page) \in Rooms /\ Target(page) \in Codes
      BY <1>0, <1>6, <3>1, TargetIs DEF Target
    <3>3. /\ q.room.code = Target(page) /\ q.room.round = truth.round
          /\ q.room.over = truth.over
      BY <1>0, <1>8, <2>2, <3>2, ShownIs
    <3>4. MovesOn(page.room, q.room)
      <4>1. CASE HasRoom(page)
        <5>1. NotAhead(page.room, truth)
          BY <3>1, <4>1 DEF SessionInv, Between
        <5>2. page.room.round \in Nat /\ truth.round \in Nat
          BY <1>0 DEF RoomRecord
        <5> QED  BY <3>3, <5>1, <5>2 DEF NotAhead, MovesOn
      <4>2. CASE ~HasRoom(page)
        BY <3>2, <3>3, <4>2 DEF HasRoom, MovesOn
      <4> QED  BY <4>1, <4>2
    <3> QED  BY <1>4, <3>4 DEF Moves
  <2>3. CASE request = "stored"
    <3>1. page.inFlight
      BY <1>0, <1>1, <2>3 DEF Asked
    <3> QED  BY <1>4, <1>8, <2>3, <3>1 DEF Moves
  <2>4. CASE request \notin {"create", "join", "stored"}
    <3>1. MovesOn(page.room, q.room)
      BY <1>6, <1>8, <2>4 DEF SameStory
    <3> QED  BY <1>4, <3>1 DEF Moves
  <2> QED  BY <2>1, <2>2, <2>3, <2>4
<1> QED  BY <1>9, <1>10

-----------------------------------------------------------------------------
(* The theorems.                                                           *)

LEMMA SessionStep == SessionInv /\ Next => SessionInv' /\ Moves
<1> SUFFICES ASSUME SessionInv, Next PROVE SessionInv' /\ Moves
  OBVIOUS
<1>1. CASE Opens
  BY <1>1, OpensStep
<1>2. CASE \E replaced \in BOOLEAN : Closes(replaced)
  BY <1>2, ClosesStep
<1>3. CASE Reconnects
  BY <1>3, ReconnectsStep
<1>4. CASE \E s \in Sockets : ShowsResult(s)
  BY <1>4, ShowsResultStep
<1>5. CASE \E s \in Sockets : \E snap \in Snapshots : ShowsRoom(s, snap)
  BY <1>5, ShowsRoomStep
<1>6. CASE Accepts
  BY <1>6, AcceptsStep
<1>7. CASE MatchGoesOn
  BY <1>7, MatchGoesOnStep
<1>8. CASE ShowsError
  BY <1>8, ShowsErrorStep
<1>9. CASE RetryTimer
  BY <1>9, RetryTimerStep
<1>10. CASE \E request \in Requests, answer \in {"ok", "refused", "failed"} :
              Answers(request, answer)
  BY <1>10, AnswersStep
<1>11. CASE OpenSetup \/ CloseSetup
  BY <1>11, SetupStep
<1>12. CASE StartPractice
  BY <1>12, StartPracticeStep
<1>13. CASE ReturnToPracticeMenu
  BY <1>13, ReturnToPracticeMenuStep
<1>14. CASE \E code \in Rooms : CreateRoom(code)
  BY <1>14, CreateRoomStep
<1>15. CASE \E code \in Rooms : JoinRoom(code)
  BY <1>15, JoinRoomStep
<1>16. CASE RetryRecovery
  BY <1>16, RetryRecoveryStep
<1>17. CASE LeaveRoom
  BY <1>17, LeaveRoomStep
<1>18. CASE Reload
  BY <1>18, ReloadStep
<1> QED
  BY <1>1, <1>2, <1>3, <1>4, <1>5, <1>6, <1>7, <1>8, <1>9, <1>10, <1>11, <1>12,
     <1>13, <1>14, <1>15, <1>16, <1>17, <1>18 DEF Next

LEMMA SessionStays == SessionInv /\ [Next]_vars => SessionInv'
<1>1. SessionInv /\ UNCHANGED vars => SessionInv'
  BY DEF vars, SessionInv
<1> QED  BY <1>1, SessionStep

LEMMA SessionHolds == Spec => []SessionInv
  BY InitIsSound, SessionStays, PTL DEF Spec

LEMMA SessionIsPage == SessionInv => PageInv
<1> SUFFICES ASSUME SessionInv PROVE PageInv
  OBVIOUS
<1> DEFINE R == ToSet(page.pending)
<1>0. /\ page \in PageRecord /\ page.pending \in Seq(Requests) /\ page.room \in RoomRecord
      /\ truth \in Snapshots /\ reloads \in 0..MaxReloads /\ Len(page.targets) \in Nat
      /\ PageType(page) /\ Linked(page, R) /\ Asked(page, R) /\ Kept(page)
      /\ Waits(page, R)
  BY SessionIs DEF SessionInv
<1>1. /\ \A request : Contains(page.pending, request) <=> request \in R
      /\ page.pending = <<>> => R = {}
  <2>1. R = {page.pending[i] : i \in 1..Len(page.pending)}
    BY <1>0, ToSetIs
  <2>2. page.pending = <<>> => R = {}
    BY NoQueue
  <2> HIDE DEF R
  <2> QED  BY <2>1, <2>2 DEF Contains
<1> HIDE DEF R
<1>2. TypeOK
  <2>1. /\ page.targets \in Seq(Rooms \cup {Practice})
        /\ page.socket \in 0..Len(page.targets) /\ page.timer \in 0..Len(page.targets)
        /\ page.link \in Links
    BY <1>0 DEF PageType, PageRecord
  <2>2. /\ page.stored \in Codes /\ page.persisted \in Codes
        /\ page.attempts \in 0..(MaxJoins + 1) /\ page.tried \in 0..(MaxJoins + 1)
        /\ page.recovery \in {"idle", "reconnecting", "failed"}
    BY <1>0 DEF PageRecord
  <2>3. /\ page.member \in BOOLEAN /\ page.result \in BOOLEAN
        /\ page.createPending \in BOOLEAN /\ page.joinPending \in BOOLEAN
        /\ page.inFlight \in BOOLEAN /\ page.practice \in BOOLEAN
        /\ page.setup \in BOOLEAN
    BY <1>0 DEF PageRecord
  <2>4. {page.member, page.result, page.createPending, page.joinPending,
         page.inFlight, page.practice, page.setup} \subseteq BOOLEAN
    BY <2>3
  <2> QED  BY <1>0, <2>1, <2>2, <2>4 DEF TypeOK, Links, RoomRecord
<1>3. InFlightIsReal
  BY <1>0, <1>1 DEF InFlightIsReal, Asked
<1>4. ShownRoomIsServed
  <2> SUFFICES ASSUME HasRoom(page), page.socket # 0
               PROVE  /\ page.room.code = Target(page)
                      /\ page.stored = page.room.code \/ "join" \in R \/ "create" \in R
                      /\ page.persisted = page.stored
    BY <1>1 DEF ShownRoomIsServed
  <2>1. page.room.code = Target(page) /\ page.persisted = page.stored
    BY <1>0 DEF Kept
  <2>2. OfRoom(page)
    BY <1>0, <2>1 DEF OfRoom, HasRoom, RoomRecord, Codes
  <2>3. page.stored = page.room.code \/ "join" \in R \/ "create" \in R
    BY <1>0, <2>2 DEF Asked, Kept
  <2> QED  BY <2>1, <2>3
<1>5. WaitsOnlyForReconnect
  BY <1>0, <1>1 DEF Waits, WaitsOnlyForReconnect
<1> QED  BY <1>2, <1>3, <1>4, <1>5 DEF PageInv

\* In every state of the page the mark of a stored join is true, the room on the
\* screen is the one the socket and a reload come back to, and a page that says
\* it is reconnecting has something to wait for.
THEOREM PageIsSound == Spec => []PageInv
  BY SessionHolds, SessionIsPage, PTL

\* Whatever a socket still reports, and whatever a server that has restarted
\* sends again, the room on the screen goes back neither to an earlier round nor
\* from a match that is over, but for the answer to an attempt to come back.
THEOREM RoomNeverGoesBack == Spec => RoomMovesOn
<1> DEFINE Forward ==
      \/ page'.room.code # page.room.code
      \/ page'.room.round > page.room.round
      \/ page'.room.round = page.room.round /\ (page.room.over => page'.room.over)
      \/ page.inFlight /\ ~page'.inFlight
      \/ reloads' # reloads
<1>1. SessionInv /\ [Next]_vars => [Forward]_vars
  <2>1. SessionInv /\ Next => Forward
    BY SessionStep DEF Moves, MovesOn
  <2> HIDE DEF Forward
  <2> QED  BY <2>1
<1>2. Spec => [][Forward]_vars
  <2> HIDE DEF Forward
  <2> QED  BY <1>1, SessionHolds, PTL DEF Spec
<1> QED  BY <1>2 DEF RoomMovesOn

=============================================================================
