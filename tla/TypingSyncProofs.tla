-------------------------- MODULE TypingSyncProofs --------------------------
(***************************************************************************)
(* Proofs about TypingSync, for every prompt, number of keystrokes,        *)
(* connections and messages on their way.                                  *)
(*                                                                         *)
(* The inductive invariant has four parts.  SyncType: the kinds of values, *)
(* and that connections after the latest do not exist yet.  Marked: the    *)
(* keystrokes on their way are in the order they were typed, across all    *)
(* connections.  Counted: what was counted and what is on its way was      *)
(* typed.  Agreed: without throttling the browser is ahead of the room     *)
(* authority by exactly what its connection still has on its way.          *)
(***************************************************************************)
EXTENDS TypingSync, FiniteSetTheorems, SequenceTheorems, TLAPS

InputMsg == [kind : {"input"}, seq : Nat, char : 1..PromptLength, mark : Nat]
UpMsg    == {Join} \cup InputMsg
ViewMsg  == [kind : {"ack", "state"}, total : Nat, prog : 0..PromptLength]
DownMsg  == [kind : {"replaced"}] \cup ViewMsg

BrowserType ==
  /\ calm \in BOOLEAN /\ conn \in Conns /\ link \in Links
  /\ ctotal \in Nat /\ cprog \in 0..PromptLength /\ cseq \in Nat /\ typed \in Nat
ServerType ==
  /\ speaker \in 0..conn /\ sseq \in Nat /\ stotal \in Nat
  /\ sprog \in 0..PromptLength /\ lastMark \in Nat
UpType ==
  /\ up \in [Conns -> Seq(UpMsg)]
  /\ \A c \in Conns : c > conn => up[c] = <<>>
DownType == down \in Seq(DownMsg) /\ (~Open => down = <<>>)

SyncType == BrowserType /\ ServerType /\ UpType /\ DownType

IsInput(c, i) == i \in 1..Len(up[c]) /\ up[c][i].kind = "input"

\* Keystrokes typed later are on later connections, or later in the queue.
InOrder ==
  \A c, d \in Conns : \A i, j \in Nat :
    IsInput(c, i) /\ IsInput(d, j) /\ (c < d \/ (c = d /\ i < j))
      => up[c][i].mark < up[d][j].mark
OnceTyped ==
  \A c \in Conns, i \in Nat : IsInput(c, i) => up[c][i].mark \in 1..typed
\* What the browser's connection has on its way is not counted yet.
AfterLast ==
  /\ lastMark <= typed
  /\ \A i \in Nat : IsInput(conn, i) => lastMark < up[conn][i].mark

Marked == InOrder /\ OnceTyped /\ AfterLast

MarksInFlight ==
  {m \in 1..typed : \E c \in Conns, i \in Nat : IsInput(c, i) /\ up[c][i].mark = m}

Counted == sprog <= stotal /\ stotal + Cardinality(MarksInFlight) <= typed

\* The states on their way to the browser are of total keystrokes or fewer, and
\* every keystroke between advanced the position by one.
Behind(first, total, prog) ==
  \A i \in first..Len(down) :
    \/ down[i].kind = "replaced"
    \/ /\ down[i].kind = "state" /\ down[i].total <= total
       /\ down[i].total + prog = down[i].prog + total
\* The browser is ahead by what its connection has on its way.
Ahead ==
  /\ stotal + Len(up[conn]) = ctotal /\ sprog + Len(up[conn]) = cprog
  /\ sseq + Len(up[conn]) = cseq
  /\ \A i \in 1..Len(up[conn]) :
       up[conn][i].seq = sseq + i /\ up[conn][i].char = sprog + i
Joined ==
  /\ \A i \in 1..Len(up[conn]) : up[conn][i].kind = "input"
  /\ Behind(1, ctotal, cprog)
  /\ speaker = conn => Ahead
Asked == up[conn] = <<Join>> /\ down = <<>> /\ speaker # conn
Answered ==
  /\ up[conn] = <<>> /\ down # <<>> /\ down[1].kind = "ack"
  /\ Behind(2, down[1].total, down[1].prog)
  /\ speaker = conn => stotal = down[1].total /\ sprog = down[1].prog /\ sseq = 0
Agreed ==
  calm => /\ link = "joined" => Joined
          /\ link \in {"rejoining", "loading"} => Asked \/ Answered

-----------------------------------------------------------------------------
(* Queues.                                                                 *)

\* The messages of c lose their first one.
Served(c) ==
  /\ up' \in [Conns -> Seq(UpMsg)]
  /\ \A d \in Conns \ {c} : up'[d] = up[d]
  /\ Len(up[c]) \in Nat \ {0} /\ Len(up'[c]) = Len(up[c]) - 1
  /\ \A i \in 1..Len(up'[c]) : up'[c][i] = up[c][i + 1]
  /\ Head(up[c]) = up[c][1] /\ up[c][1] \in UpMsg

LEMMA ServedQueue ==
  ASSUME UpType, NEW c \in Conns, up[c] # <<>>,
         up' = [up EXCEPT ![c] = Tail(@)]
  PROVE  Served(c)
<1>1. up[c] \in Seq(UpMsg)
  BY DEF UpType
<1>2. /\ Tail(up[c]) \in Seq(UpMsg) /\ Len(Tail(up[c])) = Len(up[c]) - 1
      /\ \A i \in 1..Len(Tail(up[c])) : Tail(up[c])[i] = up[c][i + 1]
  BY <1>1, HeadTailProperties
<1>3. Len(up[c]) \in Nat \ {0}
  BY <1>1, EmptySeq
<1>4. up[c][1] \in UpMsg
  BY <1>1, <1>3, ElementOfSeq
<1>5. Head(up[c]) = up[c][1]
  BY <1>1, <1>3
<1>6. up'[c] = Tail(up[c]) /\ \A d \in Conns \ {c} : up'[d] = up[d]
  BY DEF UpType
<1>7. up' \in [Conns -> Seq(UpMsg)]
  BY <1>2 DEF UpType
<1> QED  BY <1>2, <1>3, <1>4, <1>5, <1>6, <1>7 DEF Served

\* A message m is added to those of c.
Added(c, m) ==
  /\ up' \in [Conns -> Seq(UpMsg)]
  /\ \A d \in Conns \ {c} : up'[d] = up[d]
  /\ Len(up[c]) \in Nat /\ Len(up'[c]) = Len(up[c]) + 1
  /\ \A i \in 1..Len(up[c]) : up'[c][i] = up[c][i]
  /\ up'[c][Len(up[c]) + 1] = m

LEMMA AddedQueue ==
  ASSUME UpType, NEW c \in Conns, NEW m \in UpMsg,
         up' = [up EXCEPT ![c] = Append(@, m)]
  PROVE  Added(c, m)
<1>1. up[c] \in Seq(UpMsg)
  BY DEF UpType
<1>2. /\ Append(up[c], m) \in Seq(UpMsg) /\ Len(Append(up[c], m)) = Len(up[c]) + 1
      /\ \A i \in 1..Len(up[c]) : Append(up[c], m)[i] = up[c][i]
      /\ Append(up[c], m)[Len(up[c]) + 1] = m
      /\ Len(up[c]) \in Nat
  BY <1>1
<1>3. up'[c] = Append(up[c], m) /\ \A d \in Conns \ {c} : up'[d] = up[d]
  BY DEF UpType
<1>4. up' \in [Conns -> Seq(UpMsg)]
  BY <1>2 DEF UpType
<1> QED  BY <1>2, <1>3, <1>4 DEF Added

\* The messages of c after the first k are lost.
CutTo(c, k) ==
  /\ up' \in [Conns -> Seq(UpMsg)]
  /\ \A d \in Conns \ {c} : up'[d] = up[d]
  /\ Len(up'[c]) = k /\ k <= Len(up[c]) /\ Len(up[c]) \in Nat
  /\ \A i \in 1..k : up'[c][i] = up[c][i]

LEMMA CutQueue ==
  ASSUME UpType, NEW c \in Conns, NEW k \in 0..Len(up[c]),
         up' = [up EXCEPT ![c] = SubSeq(@, 1, k)]
  PROVE  CutTo(c, k)
<1>1. up[c] \in Seq(UpMsg)
  BY DEF UpType
<1>2. Len(up[c]) \in Nat /\ \A i \in 1..Len(up[c]) : up[c][i] \in UpMsg
  BY <1>1, LenProperties, ElementOfSeq
<1>3. /\ SubSeq(up[c], 1, k) \in Seq(UpMsg) /\ Len(SubSeq(up[c], 1, k)) = k
      /\ \A i \in 1..k : SubSeq(up[c], 1, k)[i] = up[c][i]
  BY <1>2, SubSeqProperties
<1>4. up'[c] = SubSeq(up[c], 1, k) /\ \A d \in Conns \ {c} : up'[d] = up[d]
  BY DEF UpType
<1>5. up' \in [Conns -> Seq(UpMsg)]
  BY <1>3 DEF UpType
<1> QED  BY <1>2, <1>3, <1>4, <1>5 DEF CutTo

\* The next connection begins with its join.
LEMMA NewQueue ==
  ASSUME SyncType, conn < MaxConns, up' = [up EXCEPT ![conn + 1] = <<Join>>]
  PROVE  /\ up' \in [Conns -> Seq(UpMsg)] /\ conn + 1 \in Conns
         /\ \A d \in Conns \ {conn + 1} : up'[d] = up[d]
         /\ up'[conn + 1] = <<Join>> /\ Len(up'[conn + 1]) = 1
         /\ up'[conn + 1][1] = Join
<1>1. conn + 1 \in Conns
  BY TypingAssumption DEF SyncType, BrowserType, Conns
<1>2. <<Join>> \in Seq(UpMsg)
  BY DEF UpMsg
<1> QED  BY <1>1, <1>2 DEF SyncType, UpType

\* What the room authority sends.
LEMMA SentQueue ==
  ASSUME DownType, NEW c, NEW m \in DownMsg, Send(c, m), UNCHANGED <<conn, link>>
  PROVE  /\ DownType' /\ Len(down) \in Nat
         /\ IF c = conn /\ Open
            THEN /\ Len(down') = Len(down) + 1
                 /\ \A i \in 1..Len(down) : down'[i] = down[i]
                 /\ down'[Len(down) + 1] = m
            ELSE down' = down
<1>1. down \in Seq(DownMsg) /\ Len(down) \in Nat
  BY DEF DownType
<1>2. /\ Append(down, m) \in Seq(DownMsg) /\ Len(Append(down, m)) = Len(down) + 1
      /\ \A i \in 1..Len(down) : Append(down, m)[i] = down[i]
      /\ Append(down, m)[Len(down) + 1] = m
  BY <1>1
<1>3. Open' = Open
  BY DEF Open
<1> QED  BY <1>1, <1>2, <1>3 DEF Send, DownType

\* What the browser receives.
LEMMA ReceivedQueue ==
  ASSUME DownType, down # <<>>
  PROVE  /\ Tail(down) \in Seq(DownMsg)
         /\ Len(down) \in Nat \ {0} /\ Len(Tail(down)) = Len(down) - 1
         /\ \A i \in 1..Len(Tail(down)) : Tail(down)[i] = down[i + 1]
         /\ Head(down) = down[1] /\ down[1] \in DownMsg
<1>1. down \in Seq(DownMsg)
  BY DEF DownType
<1>2. /\ Tail(down) \in Seq(DownMsg) /\ Len(Tail(down)) = Len(down) - 1
      /\ \A i \in 1..Len(Tail(down)) : Tail(down)[i] = down[i + 1]
  BY <1>1, HeadTailProperties
<1>3. Len(down) \in Nat \ {0}
  BY <1>1, EmptySeq
<1>4. down[1] \in DownMsg
  BY <1>1, <1>3, ElementOfSeq
<1>5. Head(down) = down[1]
  BY <1>1, <1>3
<1> QED  BY <1>2, <1>3, <1>4, <1>5

-----------------------------------------------------------------------------
(* Types.                                                                  *)

USE TypingAssumption DEF browserVars, serverVars

LEMMA BrowserSteps ==
  ASSUME SyncType, Receive \/ Break \/ Reconnect \/ Type
  PROVE  SyncType'
<1>1. CASE Type
  <2> DEFINE m == Input(cseq + 1, cprog + 1)
  <2>1. m \in UpMsg /\ cprog + 1 \in 0..PromptLength
    BY <1>1 DEF Type, Input, UpMsg, InputMsg, SyncType, BrowserType
  <2>2. Added(conn, m)
    BY <1>1, <2>1, AddedQueue DEF Type, SyncType, BrowserType
  <2> HIDE DEF m
  <2>3. BrowserType' /\ ServerType' /\ DownType'
    BY <1>1, <2>1 DEF Type, SyncType, BrowserType, ServerType, DownType, Open
  <2>4. UpType'
    BY <1>1, <2>2 DEF Type, Added, SyncType, UpType, BrowserType, Conns
  <2> QED  BY <2>3, <2>4 DEF SyncType
<1>2. CASE Receive
  <2>1. down # <<>> /\ UNCHANGED <<calm, conn, typed, up, serverVars>>
    BY <1>2 DEF Receive, ApplyState, ApplyJoinAck, ApplyReplaced
  <2>2. /\ Tail(down) \in Seq(DownMsg) /\ Head(down) = down[1]
        /\ down[1] \in DownMsg /\ Open
    BY <2>1, ReceivedQueue DEF SyncType, DownType
  <2>3. CASE ApplyState
    BY <2>1, <2>2, <2>3 DEF ApplyState, DownMsg, ViewMsg, SyncType, BrowserType,
         ServerType, UpType, DownType, Open
  <2>4. CASE ApplyJoinAck
    BY <2>1, <2>2, <2>4 DEF ApplyJoinAck, DownMsg, ViewMsg, SyncType, BrowserType,
         ServerType, UpType, DownType, Open, Links
  <2>5. CASE ApplyReplaced
    BY <2>1, <2>2, <2>5 DEF ApplyReplaced, SyncType, BrowserType,
         ServerType, UpType, DownType, Open, Links
  <2> QED  BY <1>2, <2>3, <2>4, <2>5 DEF Receive
<1>3. CASE Break
  <2>1. PICK k \in 0..Len(up[conn]) : up' = [up EXCEPT ![conn] = SubSeq(@, 1, k)]
    BY <1>3 DEF Break
  <2>2. CutTo(conn, k)
    BY <2>1, CutQueue DEF SyncType, BrowserType
  <2>3. BrowserType' /\ ServerType' /\ DownType'
    BY <1>3 DEF Break, SyncType, BrowserType, ServerType, DownType, Open, Links
  <2>4. UpType'
    BY <1>3, <2>2 DEF Break, CutTo, SyncType, UpType, BrowserType
  <2> QED  BY <2>3, <2>4 DEF SyncType
<1>4. CASE Reconnect
  <2>1. /\ up' \in [Conns -> Seq(UpMsg)] /\ conn + 1 \in Conns
        /\ \A d \in Conns \ {conn + 1} : up'[d] = up[d]
    BY <1>4, NewQueue DEF Reconnect
  <2>2. BrowserType' /\ ServerType' /\ DownType'
    BY <1>4, <2>1 DEF Reconnect, SyncType, BrowserType, ServerType, DownType, Open,
         Links, Conns
  <2>3. UpType'
    BY <1>4, <2>1 DEF Reconnect, SyncType, UpType, BrowserType, Conns
  <2> QED  BY <2>2, <2>3 DEF SyncType
<1> QED  BY <1>1, <1>2, <1>3, <1>4

\* The queue that is served is one of a connection that exists.
LEMMA ServedExists ==
  ASSUME SyncType, NEW c \in Conns, up[c] # <<>>
  PROVE  c <= conn /\ c \in Nat
  BY DEF SyncType, UpType, Conns, BrowserType

LEMMA ServedTypes ==
  ASSUME SyncType, NEW c \in Conns, Served(c), UNCHANGED browserVars
  PROVE  BrowserType' /\ UpType'
<1>1. c <= conn /\ conn \in Nat /\ c \in Nat
  BY DEF SyncType, UpType, BrowserType, Served, Conns
<1> QED  BY <1>1 DEF SyncType, UpType, BrowserType, Served, Conns

LEMMA ServerSteps ==
  ASSUME SyncType, NEW c \in Conns, Serve(c) \/ ServeClose(c) \/ Broadcast
  PROVE  SyncType' /\ (Serve(c) => Served(c))
<1>1. ASSUME Serve(c) PROVE Served(c) /\ UNCHANGED browserVars /\ up[c] # <<>>
  BY <1>1, ServedQueue DEF Serve, ServeJoin, DropInput, CountInput, RejectSequence,
     Throttle, SyncType
<1>2. CASE ServeJoin(c)
  <2> DEFINE m == IF speaker = conn /\ c # conn THEN [kind |-> "replaced"]
                  ELSE View("ack")
             to == IF speaker = conn /\ c # conn THEN conn ELSE c
  <2>1. ServerType' /\ c <= conn
    BY <1>2, ServedExists DEF ServeJoin, SyncType, ServerType, BrowserType, Conns
  <2>2. m \in DownMsg
    BY <2>1 DEF View, DownMsg, ViewMsg, ServerType
  <2>3. Send(to, m)
    BY <1>2 DEF ServeJoin
  <2>4. DownType'
    BY <1>2, <2>2, <2>3, SentQueue DEF ServeJoin, SyncType
  <2> QED  BY <1>1, <1>2, <2>1, <2>4, ServedTypes DEF Serve, SyncType
<1>3. CASE CountInput(c)
  <2>1. Served(c) /\ up[c][1] \in InputMsg
    BY <1>1, <1>3 DEF Serve, Served, CountInput, UpMsg, Join
  <2>2. ServerType' /\ UNCHANGED browserVars
    BY <1>3, <2>1 DEF CountInput, Served, InputMsg, SyncType, ServerType, BrowserType
  <2>3. View("state") \in DownMsg
    BY <2>2 DEF View, DownMsg, ViewMsg, ServerType
  <2>4. DownType'
    BY <1>3, <2>3, SentQueue DEF CountInput, SyncType
  <2> QED  BY <2>1, <2>2, <2>4, ServedTypes DEF SyncType
<1>4. CASE DropInput(c) \/ RejectSequence(c) \/ Throttle(c)
  <2>1. Served(c) /\ UNCHANGED browserVars /\ up[c][1] \in UpMsg
        /\ Head(up[c]).kind = "input"
    BY <1>1, <1>4 DEF Serve, Served, DropInput, RejectSequence, Throttle
  <2>2. Head(up[c]).seq \in Nat
    BY <2>1 DEF Served, UpMsg, InputMsg, Join
  <2>3. ServerType' /\ DownType'
    BY <1>4, <2>1, <2>2 DEF DropInput, RejectSequence, Throttle, SyncType,
         ServerType, DownType, Open
  <2> QED  BY <2>1, <2>3, ServedTypes DEF SyncType
<1>5. CASE ServeClose(c)
  <2>1. SyncType'
    BY <1>5 DEF ServeClose, SyncType, BrowserType, ServerType, UpType, DownType, Open
  <2> QED  BY <1>1, <2>1
<1>6. CASE Broadcast
  <2>1. BrowserType' /\ ServerType' /\ UpType'
    BY <1>6 DEF Broadcast, SyncType, BrowserType, ServerType, UpType
  <2>2. View("state") \in DownMsg
    BY <2>1 DEF View, DownMsg, ViewMsg, ServerType
  <2>3. DownType'
    BY <1>6, <2>2, SentQueue DEF Broadcast, SyncType
  <2> QED  BY <1>1, <2>1, <2>3 DEF SyncType
<1> QED  BY <1>1, <1>2, <1>3, <1>4, <1>5, <1>6 DEF Serve

-----------------------------------------------------------------------------
(* The marks of the keystrokes on their way.                               *)

\* Messages leave a queue at its two ends.
Shrunk(k) ==
  \A c \in Conns : /\ Len(up'[c]) \in Nat /\ Len(up[c]) \in Nat
                   /\ Len(up'[c]) + k[c] <= Len(up[c])
                   /\ \A i \in 1..Len(up'[c]) : up'[c][i] = up[c][i + k[c]]

LEMMA LengthType ==
  ASSUME UpType, NEW c \in Conns
  PROVE  Len(up[c]) \in Nat
  BY DEF UpType

LEMMA ServedShrinks ==
  ASSUME UpType, NEW c \in Conns, Served(c)
  PROVE  \E k \in [Conns -> Nat] : Shrunk(k) /\ k[c] = 1 /\ \A d \in Conns \ {c} : k[d] = 0
<1> DEFINE k == [d \in Conns |-> IF d = c THEN 1 ELSE 0]
<1>1. k \in [Conns -> Nat] /\ k[c] = 1 /\ \A d \in Conns \ {c} : k[d] = 0
  OBVIOUS
<1> HIDE DEF k
<1>2. ASSUME NEW d \in Conns
      PROVE  /\ Len(up'[d]) \in Nat /\ Len(up[d]) \in Nat
             /\ Len(up'[d]) + k[d] <= Len(up[d])
             /\ \A i \in 1..Len(up'[d]) : up'[d][i] = up[d][i + k[d]]
  <2>1. CASE d = c
    BY <1>1, <2>1, LengthType DEF Served
  <2>2. CASE d # c
    BY <1>1, <2>2, LengthType DEF Served
  <2> QED  BY <2>1, <2>2
<1> QED  BY <1>1, <1>2 DEF Shrunk

LEMMA CutShrinks ==
  ASSUME UpType, NEW c \in Conns, NEW n \in Nat, CutTo(c, n)
  PROVE  \E k \in [Conns -> Nat] : Shrunk(k)
<1> DEFINE k == [d \in Conns |-> 0]
<1>1. k \in [Conns -> Nat] /\ \A d \in Conns : k[d] = 0
  OBVIOUS
<1> HIDE DEF k
<1>2. ASSUME NEW d \in Conns
      PROVE  /\ Len(up'[d]) \in Nat /\ Len(up[d]) \in Nat
             /\ Len(up'[d]) + k[d] <= Len(up[d])
             /\ \A i \in 1..Len(up'[d]) : up'[d][i] = up[d][i + k[d]]
  <2>1. Len(up[d]) \in Nat /\ k[d] = 0
    BY <1>1, LengthType
  <2>2. CASE d = c
    BY <2>1, <2>2 DEF CutTo
  <2>3. CASE d # c
    <3>1. up'[d] = up[d]
      BY <2>3 DEF CutTo
    <3> QED  BY <2>1, <3>1
  <2> QED  BY <2>2, <2>3
<1> QED  BY <1>1, <1>2 DEF Shrunk

LEMMA ShrunkInput ==
  ASSUME NEW k \in [Conns -> Nat], Shrunk(k), NEW c \in Conns, NEW i \in Nat,
         IsInput(c, i)'
  PROVE  IsInput(c, i + k[c]) /\ up'[c][i].mark = up[c][i + k[c]].mark /\ k[c] \in Nat
<1> DEFINE n == k[c]
<1>1. n \in Nat
  OBVIOUS
<1>2. i \in 1..Len(up'[c]) /\ up'[c][i].kind = "input"
  BY DEF IsInput
<1>3. /\ Len(up'[c]) \in Nat /\ Len(up[c]) \in Nat /\ Len(up'[c]) + n <= Len(up[c])
      /\ up'[c][i] = up[c][i + n]
  BY <1>2 DEF Shrunk
<1> HIDE DEF n
<1>4. i + n \in 1..Len(up[c])
  BY <1>1, <1>2, <1>3
<1>5. IsInput(c, i + n)
  BY <1>2, <1>3, <1>4 DEF IsInput
<1> QED  BY <1>1, <1>3, <1>5 DEF n

LEMMA ShrunkOrder ==
  ASSUME InOrder, OnceTyped, typed' = typed, NEW k \in [Conns -> Nat], Shrunk(k)
  PROVE  InOrder' /\ OnceTyped' /\ MarksInFlight' \subseteq MarksInFlight
<1>1. InOrder'
  <2> SUFFICES ASSUME NEW c \in Conns, NEW d \in Conns, NEW i \in Nat, NEW j \in Nat,
                      IsInput(c, i)', IsInput(d, j)', c < d \/ (c = d /\ i < j)
               PROVE  up'[c][i].mark < up'[d][j].mark
    BY DEF InOrder
  <2>1. /\ IsInput(c, i + k[c]) /\ up'[c][i].mark = up[c][i + k[c]].mark
        /\ IsInput(d, j + k[d]) /\ up'[d][j].mark = up[d][j + k[d]].mark
        /\ k[c] \in Nat /\ k[d] \in Nat
    BY ShrunkInput
  <2>2. c < d \/ (c = d /\ i + k[c] < j + k[d])
    BY <2>1
  <2> QED  BY <2>1, <2>2 DEF InOrder
<1>2. OnceTyped'
  <2> SUFFICES ASSUME NEW c \in Conns, NEW i \in Nat, IsInput(c, i)'
               PROVE  up'[c][i].mark \in 1..typed
    BY DEF OnceTyped
  <2> QED  BY ShrunkInput DEF OnceTyped
<1>3. ASSUME NEW m \in MarksInFlight' PROVE m \in MarksInFlight
  <2>1. PICK c \in Conns, i \in Nat : IsInput(c, i)' /\ up'[c][i].mark = m
    BY DEF MarksInFlight
  <2>2. IsInput(c, i + k[c]) /\ up[c][i + k[c]].mark = m /\ i + k[c] \in Nat
    BY <2>1, ShrunkInput
  <2> QED  BY <2>2 DEF MarksInFlight
<1> QED  BY <1>1, <1>2, <1>3

\* The keystroke served first is not on its way any more.
LEMMA ServedMark ==
  ASSUME UpType, InOrder, OnceTyped, typed' = typed, NEW c \in Conns, Served(c),
         IsInput(c, 1)
  PROVE  up[c][1].mark \in MarksInFlight /\ up[c][1].mark \notin MarksInFlight'
<1>1. up[c][1].mark \in MarksInFlight
  BY DEF OnceTyped, MarksInFlight
<1>2. ASSUME up[c][1].mark \in MarksInFlight' PROVE FALSE
  <2>1. PICK d \in Conns, i \in Nat : IsInput(d, i)' /\ up'[d][i].mark = up[c][1].mark
    BY <1>2 DEF MarksInFlight
  <2>2. PICK k \in [Conns -> Nat] :
          Shrunk(k) /\ k[c] = 1 /\ \A e \in Conns \ {c} : k[e] = 0
    BY ServedShrinks
  <2>3. IsInput(d, i + k[d]) /\ up[d][i + k[d]].mark = up[c][1].mark /\ k[d] \in Nat
    BY <2>1, <2>2, ShrunkInput
  <2>4. i \in 1..Len(up'[d])
    BY <2>1 DEF IsInput
  <2>5. up[c][1].mark \in Nat
    BY DEF OnceTyped
  <2>6. CASE d = c
    <3>1. 1 < i + k[c]
      BY <2>2, <2>4, <2>6
    <3>2. up[c][1].mark < up[c][i + k[c]].mark
      BY <2>3, <2>6, <3>1 DEF InOrder
    <3> QED  BY <2>3, <2>5, <2>6, <3>2
  <2>7. CASE d # c
    <3>1. c < d \/ d < c
      BY <2>7 DEF Conns
    <3>2. up[c][1].mark < up[d][i + k[d]].mark \/ up[d][i + k[d]].mark < up[c][1].mark
      BY <2>3, <3>1 DEF InOrder
    <3> QED  BY <2>3, <2>5, <3>2
  <2> QED  BY <2>6, <2>7
<1> QED  BY <1>1, <1>2

LEMMA MarksAreFinite ==
  ASSUME typed \in Nat
  PROVE  IsFiniteSet(MarksInFlight) /\ Cardinality(MarksInFlight) \in Nat
<1>1. IsFiniteSet(1..typed)
  BY FS_Interval
<1>2. MarksInFlight \in SUBSET (1..typed)
  BY DEF MarksInFlight
<1>3. IsFiniteSet(MarksInFlight)
  BY <1>1, <1>2, FS_Subset
<1> QED  BY <1>3, FS_CardinalityType

LEMMA FewerMarks ==
  ASSUME typed \in Nat, MarksInFlight' \subseteq MarksInFlight
  PROVE  /\ Cardinality(MarksInFlight') \in Nat
         /\ Cardinality(MarksInFlight') <= Cardinality(MarksInFlight)
         /\ \A m \in MarksInFlight \ MarksInFlight' :
              Cardinality(MarksInFlight') + 1 <= Cardinality(MarksInFlight)
<1>1. IsFiniteSet(MarksInFlight) /\ Cardinality(MarksInFlight) \in Nat
  BY MarksAreFinite
<1>2. /\ IsFiniteSet(MarksInFlight')
      /\ Cardinality(MarksInFlight') <= Cardinality(MarksInFlight)
      /\ Cardinality(MarksInFlight') = Cardinality(MarksInFlight)
           => MarksInFlight = MarksInFlight'
  BY <1>1, FS_Subset
<1>3. Cardinality(MarksInFlight') \in Nat
  BY <1>2, FS_CardinalityType
<1> QED  BY <1>1, <1>2, <1>3

\* Keystrokes are counted in order while the browser's connection speaks.
LEMMA MarksStep ==
  ASSUME SyncType, SyncType', Marked, Counted, Next
  PROVE  Marked' /\ Counted'
<1>0. conn \in Conns /\ conn \in Nat /\ conn' \in Conns /\ typed \in Nat
  BY DEF SyncType, BrowserType, Conns
<1>1. CASE Type
  <2> DEFINE m == Input(cseq + 1, cprog + 1)
             n == Len(up[conn])
  <2>1. /\ m \in UpMsg /\ m.kind = "input" /\ m.mark = typed + 1
        /\ typed' = typed + 1 /\ conn' = conn /\ UNCHANGED serverVars
    BY <1>1 DEF Type, Input, UpMsg, InputMsg, SyncType, BrowserType
  <2>2. Added(conn, m) /\ n \in Nat
    BY <1>0, <1>1, <2>1, AddedQueue, LengthType DEF Type, SyncType
  <2> HIDE DEF m
  <2>3. ASSUME NEW c \in Conns, NEW i \in Nat, IsInput(c, i)'
        PROVE  \/ IsInput(c, i) /\ up'[c][i].mark = up[c][i].mark
               \/ c = conn /\ i = n + 1 /\ up'[c][i].mark = typed + 1
    BY <2>1, <2>2, <2>3 DEF Added, IsInput
  <2>4. ASSUME NEW c \in Conns, NEW i \in Nat, IsInput(c, i)
        PROVE  /\ c <= conn /\ (c = conn => i <= n)
               /\ up[c][i].mark \in 1..typed
    BY <2>4, <1>0 DEF SyncType, UpType, IsInput, Conns, Marked, OnceTyped
  <2>5. InOrder'
    <3> SUFFICES ASSUME NEW c \in Conns, NEW d \in Conns, NEW i \in Nat, NEW j \in Nat,
                        IsInput(c, i)', IsInput(d, j)', c < d \/ (c = d /\ i < j)
                 PROVE  up'[c][i].mark < up'[d][j].mark
      BY DEF InOrder
    <3>1. c \in Nat /\ d \in Nat
      BY DEF Conns
    <3>2. CASE IsInput(c, i) /\ up'[c][i].mark = up[c][i].mark
      <4>1. CASE IsInput(d, j) /\ up'[d][j].mark = up[d][j].mark
        BY <3>2, <4>1 DEF Marked, InOrder
      <4>2. CASE d = conn /\ j = n + 1 /\ up'[d][j].mark = typed + 1
        BY <3>2, <4>2, <2>4, <1>0
      <4> QED  BY <2>3, <4>1, <4>2
    <3>3. CASE c = conn /\ i = n + 1 /\ up'[c][i].mark = typed + 1
      <4>1. CASE IsInput(d, j)
        BY <3>1, <3>3, <4>1, <2>2, <2>4, <1>0
      <4>2. CASE d = conn /\ j = n + 1
        BY <3>1, <3>3, <4>2, <2>2
      <4> QED  BY <2>3, <4>1, <4>2
    <3> QED  BY <2>3, <3>2, <3>3
  <2>6. OnceTyped'
    BY <1>0, <2>1, <2>3, <2>4 DEF OnceTyped
  <2>7. AfterLast'
    <3> SUFFICES ASSUME NEW i \in Nat, IsInput(conn, i)'
                 PROVE  lastMark < up'[conn][i].mark
      BY <1>0, <2>1 DEF AfterLast, Marked, SyncType, ServerType
    <3>1. lastMark \in Nat /\ lastMark <= typed
      BY DEF AfterLast, Marked, SyncType, ServerType
    <3>2. \/ IsInput(conn, i) /\ up'[conn][i].mark = up[conn][i].mark
          \/ up'[conn][i].mark = typed + 1
      BY <1>0, <2>1, <2>3
    <3> QED  BY <1>0, <2>1, <3>1, <3>2 DEF AfterLast, Marked
  <2>8. MarksInFlight' \subseteq MarksInFlight \cup {typed + 1}
    <3> SUFFICES ASSUME NEW x \in MarksInFlight', x # typed + 1 PROVE x \in MarksInFlight
      OBVIOUS
    <3>1. PICK c \in Conns, i \in Nat : IsInput(c, i)' /\ up'[c][i].mark = x
      BY DEF MarksInFlight
    <3>2. IsInput(c, i) /\ up[c][i].mark = x
      BY <2>3, <3>1
    <3> QED  BY <2>4, <3>2 DEF MarksInFlight
  <2>9. Cardinality(MarksInFlight') \in Nat
        /\ Cardinality(MarksInFlight') <= Cardinality(MarksInFlight) + 1
    <3>1. IsFiniteSet(MarksInFlight) /\ Cardinality(MarksInFlight) \in Nat
      BY <1>0, MarksAreFinite
    <3>2. /\ IsFiniteSet(MarksInFlight \cup {typed + 1})
          /\ Cardinality(MarksInFlight \cup {typed + 1})
               <= Cardinality(MarksInFlight) + 1
      BY <3>1, FS_AddElement
    <3>3. /\ IsFiniteSet(MarksInFlight')
          /\ Cardinality(MarksInFlight') <= Cardinality(MarksInFlight \cup {typed + 1})
      BY <2>8, <3>2, FS_Subset
    <3> QED  BY <3>1, <3>2, <3>3, FS_CardinalityType
  <2>10. Counted'
    BY <1>0, <2>1, <2>9, MarksAreFinite DEF Counted, SyncType, ServerType
  <2> QED  BY <2>5, <2>6, <2>7, <2>10 DEF Marked
<1>2. CASE Receive \/ Broadcast \/ \E c \in Conns : ServeClose(c)
  <2>1. UNCHANGED <<up, typed, conn, stotal, sprog, lastMark>>
    BY <1>2 DEF Receive, ApplyState, ApplyJoinAck, ApplyReplaced, Broadcast, ServeClose
  <2>2. MarksInFlight' = MarksInFlight
    BY <2>1 DEF MarksInFlight, IsInput
  <2> QED  BY <2>1, <2>2 DEF Marked, InOrder, OnceTyped, AfterLast, IsInput, Counted
<1>3. CASE Break
  <2>1. PICK n \in 0..Len(up[conn]) : up' = [up EXCEPT ![conn] = SubSeq(@, 1, n)]
    BY <1>3 DEF Break
  <2>2. CutTo(conn, n) /\ n \in Nat
    <3>1. Len(up[conn]) \in Nat
      BY <1>0, LengthType DEF SyncType
    <3>2. CutTo(conn, n)
      BY <1>0, <2>1, CutQueue DEF SyncType
    <3> QED  BY <3>1, <3>2
  <2>3. PICK k \in [Conns -> Nat] : Shrunk(k)
    BY <1>0, <2>2, CutShrinks DEF SyncType
  <2>4. UNCHANGED <<typed, conn, serverVars>>
    BY <1>3 DEF Break
  <2>5. InOrder' /\ OnceTyped' /\ MarksInFlight' \subseteq MarksInFlight
    BY <2>3, <2>4, ShrunkOrder DEF Marked
  <2>6. AfterLast'
    BY <1>0, <2>3, <2>4, ShrunkInput DEF Marked, AfterLast
  <2>7. Counted'
    BY <1>0, <2>4, <2>5, FewerMarks, MarksAreFinite DEF Counted, SyncType, ServerType
  <2> QED  BY <2>5, <2>6, <2>7 DEF Marked
<1>4. CASE Reconnect
  <2>1. /\ up'[conn + 1] = <<Join>> /\ Len(up'[conn + 1]) = 1
        /\ up'[conn + 1][1] = Join /\ conn + 1 \in Conns
        /\ \A d \in Conns \ {conn + 1} : up'[d] = up[d]
        /\ UNCHANGED <<typed, serverVars>> /\ conn' = conn + 1
    BY <1>4, NewQueue DEF Reconnect
  <2>2. ASSUME NEW c \in Conns, NEW i \in Nat, IsInput(c, i)'
        PROVE  c # conn + 1 /\ IsInput(c, i) /\ up'[c] = up[c]
    <3>1. c # conn + 1
      BY <2>1, <2>2 DEF IsInput, Join
    <3> QED  BY <2>1, <2>2, <3>1 DEF IsInput
  <2>3. InOrder' /\ OnceTyped' /\ AfterLast'
    <3>1. InOrder'
      BY <2>2 DEF Marked, InOrder
    <3>2. OnceTyped'
      BY <2>1, <2>2 DEF Marked, OnceTyped
    <3>3. AfterLast'
      BY <2>1, <2>2 DEF Marked, AfterLast
    <3> QED  BY <3>1, <3>2, <3>3
  <2>4. MarksInFlight' \subseteq MarksInFlight
    <3> SUFFICES ASSUME NEW x \in MarksInFlight' PROVE x \in MarksInFlight
      OBVIOUS
    <3>1. PICK c \in Conns, i \in Nat : IsInput(c, i)' /\ up'[c][i].mark = x /\ x \in 1..typed
      BY <2>1 DEF MarksInFlight
    <3> QED  BY <2>2, <3>1 DEF MarksInFlight
  <2>5. Counted'
    BY <1>0, <2>1, <2>4, FewerMarks, MarksAreFinite DEF Counted, SyncType, ServerType
  <2> QED  BY <2>3, <2>5 DEF Marked
<1>5. ASSUME NEW c \in Conns, Serve(c) PROVE Marked' /\ Counted'
  <2>1. Served(c)
    BY <1>5, ServerSteps
  <2>2. PICK k \in [Conns -> Nat] :
          Shrunk(k) /\ k[c] = 1 /\ \A d \in Conns \ {c} : k[d] = 0
    BY <2>1, ServedShrinks DEF SyncType
  <2>3. UNCHANGED browserVars
    BY <1>5 DEF Serve, ServeJoin, DropInput, CountInput, RejectSequence, Throttle
  <2>4. InOrder' /\ OnceTyped' /\ MarksInFlight' \subseteq MarksInFlight
    BY <2>2, <2>3, ShrunkOrder DEF Marked
  <2>5. Cardinality(MarksInFlight') \in Nat
        /\ Cardinality(MarksInFlight') <= Cardinality(MarksInFlight)
        /\ Cardinality(MarksInFlight) \in Nat
    BY <1>0, <2>4, FewerMarks, MarksAreFinite
  <2>6. CASE CountInput(c)
    <3> DEFINE m == up[c][1]
    <3>1. IsInput(c, 1) /\ Head(up[c]) = m /\ m.mark \in 1..typed /\ c = speaker
      BY <2>1, <2>6 DEF CountInput, Served, IsInput, Marked, OnceTyped
    <3>2. /\ stotal' = stotal + 1 /\ lastMark' = m.mark
          /\ sprog' = sprog + 1 \/ sprog' = sprog
      BY <2>6, <3>1 DEF CountInput
    <3>3. m.mark \in MarksInFlight \ MarksInFlight'
      BY <2>1, <2>3, <3>1, ServedMark DEF Marked, SyncType
    <3>4. Cardinality(MarksInFlight') + 1 <= Cardinality(MarksInFlight)
      BY <1>0, <2>4, <3>3, FewerMarks
    <3>5. Counted'
      BY <1>0, <2>3, <2>5, <3>2, <3>4 DEF Counted, SyncType, ServerType
    <3>6. ASSUME NEW i \in Nat, IsInput(conn, i)' PROVE lastMark' < up'[conn][i].mark
      <4>1. IsInput(conn, i + k[conn]) /\ up'[conn][i].mark = up[conn][i + k[conn]].mark
            /\ k[conn] \in Nat
        <5>1. conn' = conn
          BY <2>3
        <5> QED  BY <1>0, <2>2, <3>6, <5>1, ShrunkInput
      <4>2. c < conn \/ (c = conn /\ 1 < i + k[conn])
        <5>1. c <= conn /\ c \in Nat
          BY <3>1 DEF SyncType, ServerType, Conns
        <5>2. i >= 1
          BY <3>6 DEF IsInput
        <5> QED  BY <1>0, <2>2, <5>1, <5>2
      <4> QED  BY <1>0, <3>1, <3>2, <4>1, <4>2 DEF Marked, InOrder
    <3>7. AfterLast'
      BY <1>0, <2>3, <3>1, <3>2, <3>6 DEF AfterLast
    <3> QED  BY <2>4, <3>5, <3>7 DEF Marked
  <2>7. CASE ~CountInput(c)
    <3>1. UNCHANGED <<stotal, sprog, lastMark>>
      BY <1>5, <2>7 DEF Serve, ServeJoin, DropInput, RejectSequence, Throttle
    <3>2. AfterLast'
      BY <1>0, <2>2, <2>3, <3>1, ShrunkInput DEF Marked, AfterLast
    <3>3. Counted'
      BY <1>0, <2>3, <2>5, <3>1 DEF Counted, SyncType, ServerType
    <3> QED  BY <2>4, <3>2, <3>3 DEF Marked
  <2> QED  BY <2>6, <2>7
<1> QED  BY <1>1, <1>2, <1>3, <1>4, <1>5 DEF Next

-----------------------------------------------------------------------------
(* What the browser has on its screen and the room authority counts.       *)

LEMMA BrowserAgrees ==
  ASSUME SyncType, SyncType', Agreed, Type \/ Receive \/ Break \/ Reconnect, calm
  PROVE  Agreed'
<1>0. /\ conn \in Conns /\ ctotal \in Nat /\ cprog \in Nat /\ cseq \in Nat
      /\ stotal \in Nat /\ sprog \in Nat /\ sseq \in Nat
  BY DEF SyncType, BrowserType, ServerType
<1>1. CASE Type
  <2> DEFINE m == Input(cseq + 1, cprog + 1)
             n == Len(up[conn])
  <2>1. /\ m \in UpMsg /\ m.kind = "input" /\ m.seq = cseq + 1 /\ m.char = cprog + 1
        /\ ctotal' = ctotal + 1 /\ cprog' = cprog + 1 /\ cseq' = cseq + 1
        /\ UNCHANGED <<calm, conn, link, down, serverVars>> /\ link = "joined"
    BY <1>1 DEF Type, Input, UpMsg, InputMsg, SyncType, BrowserType
  <2>2. Added(conn, m) /\ n \in Nat /\ Len(up'[conn]) = n + 1
    <3>1. Added(conn, m)
      BY <1>0, <1>1, <2>1, AddedQueue DEF Type, SyncType
    <3> QED  BY <3>1 DEF Added
  <2> HIDE DEF m
  <2>3. Joined
    BY <2>1 DEF Agreed
  <2>4. \A i \in 1..n + 1 : up'[conn][i] = IF i = n + 1 THEN m ELSE up[conn][i]
    BY <2>2 DEF Added
  <2>5. \A i \in 1..Len(up'[conn]) : up'[conn][i].kind = "input"
    <3> SUFFICES ASSUME NEW i \in 1..n + 1 PROVE up'[conn][i].kind = "input"
      BY <2>2
    <3>1. CASE i = n + 1
      BY <2>1, <2>4, <3>1
    <3>2. CASE i # n + 1
      <4>1. i \in 1..n
        BY <2>2, <3>2
      <4> QED  BY <2>3, <2>4, <3>2, <4>1 DEF Joined
    <3> QED  BY <3>1, <3>2
  <2>6. Behind(1, ctotal, cprog)'
    <3> SUFFICES ASSUME NEW i \in 1..Len(down), down[i].kind # "replaced"
                 PROVE  /\ down[i].kind = "state" /\ down[i].total <= ctotal + 1
                        /\ down[i].total + (cprog + 1) = down[i].prog + (ctotal + 1)
      BY <2>1 DEF Behind
    <3>1. /\ down[i].kind = "state" /\ down[i].total <= ctotal
          /\ down[i].total + cprog = down[i].prog + ctotal
      BY <2>3 DEF Joined, Behind
    <3>2. down[i].total \in Nat /\ down[i].prog \in Nat
      <4>1. down[i] \in DownMsg
        BY ElementOfSeq DEF SyncType, DownType
      <4> QED  BY <3>1, <4>1 DEF DownMsg, ViewMsg
    <3>3. ctotal <= ctotal + 1 /\ ctotal \in Nat /\ cprog \in Nat
      BY <1>0
    <3>4. down[i].total <= ctotal + 1
      BY <3>1, <3>2, <3>3
    <3>5. down[i].total + (cprog + 1) = down[i].prog + (ctotal + 1)
      <4> DEFINE t == down[i].total
                 p == down[i].prog
      <4>1. t \in Nat /\ p \in Nat /\ t + cprog = p + ctotal
        BY <3>1, <3>2
      <4> HIDE DEF t, p
      <4>2. t + (cprog + 1) = p + (ctotal + 1)
        BY <3>3, <4>1
      <4> QED  BY <4>2 DEF t, p
    <3> QED  BY <3>1, <3>4, <3>5
  <2>7. ASSUME speaker = conn PROVE Ahead'
    <3>1. Ahead
      BY <2>3, <2>7 DEF Joined
    <3>2. Len(up'[conn]) = n + 1
      BY <2>2 DEF Added
    <3>3. ASSUME NEW i \in 1..n + 1
          PROVE  up'[conn][i].seq = sseq + i /\ up'[conn][i].char = sprog + i
      <4>1. CASE i = n + 1
        <5>1. up'[conn][i].seq = cseq + 1 /\ up'[conn][i].char = cprog + 1
          BY <2>1, <2>4, <4>1
        <5>2. sseq + n = cseq /\ sprog + n = cprog
          BY <3>1 DEF Ahead
        <5>3. sseq + (n + 1) = cseq + 1 /\ sprog + (n + 1) = cprog + 1
          BY <1>0, <2>2, <5>2
        <5> QED  BY <4>1, <5>1, <5>3
      <4>2. CASE i # n + 1
        <5>1. i \in 1..n
          BY <2>2, <4>2
        <5> QED  BY <2>4, <3>1, <4>2, <5>1 DEF Ahead
      <4> QED  BY <4>1, <4>2
    <3>4. stotal + n = ctotal /\ sprog + n = cprog /\ sseq + n = cseq
      BY <3>1 DEF Ahead
    <3>5. /\ stotal + (n + 1) = ctotal + 1 /\ sprog + (n + 1) = cprog + 1
          /\ sseq + (n + 1) = cseq + 1
      <4>1. /\ n \in Nat /\ stotal \in Nat /\ ctotal \in Nat /\ sprog \in Nat
            /\ cprog \in Nat /\ sseq \in Nat /\ cseq \in Nat
        BY <1>0, <2>2
      <4> QED  BY <3>4, <4>1
    <3> QED  BY <2>1, <3>2, <3>3, <3>5 DEF Ahead
  <2>8. Joined'
    BY <2>1, <2>5, <2>6, <2>7 DEF Joined
  <2> QED  BY <2>1, <2>8 DEF Agreed
<1>2. CASE Receive
  <2>1. down # <<>> /\ UNCHANGED <<calm, conn, typed, up, serverVars>> /\ Open
    BY <1>2 DEF Receive, ApplyState, ApplyJoinAck, ApplyReplaced, SyncType, DownType
  <2>2. /\ Head(down) = down[1] /\ down[1] \in DownMsg
        /\ Len(down) \in Nat \ {0} /\ Len(Tail(down)) = Len(down) - 1
        /\ \A i \in 1..Len(Tail(down)) : Tail(down)[i] = down[i + 1]
    BY <2>1, ReceivedQueue DEF SyncType
  <2>3. link = "joined" => Joined
    BY DEF Agreed
  <2>4. link # "joined" => Asked \/ Answered
    BY <2>1 DEF Agreed, Open, SyncType, BrowserType, Links
  <2>5. CASE ApplyState
    <3>1. link = "joined"
      BY <2>1, <2>2, <2>4, <2>5 DEF ApplyState, Asked, Answered
    <3>2. /\ down[1].kind = "state" /\ down[1].total <= ctotal
          /\ down[1].total + cprog = down[1].prog + ctotal
      BY <2>2, <2>3, <2>5, <3>1 DEF ApplyState, Joined, Behind
    <3>3. down[1].total \in Nat /\ down[1].prog \in Nat
      BY <2>2, <3>2 DEF DownMsg, ViewMsg
    <3>4. ctotal' = ctotal /\ cprog' = cprog /\ down' = Tail(down) /\ UNCHANGED <<cseq, link>>
      BY <1>0, <2>2, <2>5, <3>2, <3>3 DEF ApplyState
    <3>5. Behind(1, ctotal, cprog)'
      BY <2>2, <2>3, <3>1, <3>4 DEF Joined, Behind
    <3> QED  BY <2>1, <2>3, <3>1, <3>4, <3>5 DEF Agreed, Joined, Ahead
  <2>6. CASE ApplyJoinAck
    <3>1. down[1].kind = "ack" /\ ctotal' = down[1].total /\ cprog' = down[1].prog
          /\ cseq' = 0 /\ link' = "joined" /\ down' = Tail(down)
      BY <2>2, <2>6 DEF ApplyJoinAck
    <3>2. Answered
      <4>1. link # "joined"
        BY <2>2, <2>3, <3>1 DEF Joined, Behind
      <4> QED  BY <2>1, <2>4, <4>1 DEF Asked
    <3>3. Behind(1, ctotal, cprog)'
      BY <2>2, <3>1, <3>2 DEF Answered, Behind
    <3>4. up'[conn] = <<>> /\ Len(up'[conn]) = 0
      BY <2>1, <3>2 DEF Answered
    <3>5. ASSUME speaker = conn PROVE Ahead'
      BY <1>0, <2>1, <3>1, <3>2, <3>4, <3>5 DEF Answered, Ahead
    <3> QED  BY <2>1, <3>1, <3>3, <3>4, <3>5 DEF Agreed, Joined
  <2>7. CASE ApplyReplaced
    BY <2>7 DEF ApplyReplaced, Agreed
  <2> QED  BY <1>2, <2>5, <2>6, <2>7 DEF Receive
<1>3. CASE Break
  BY <1>3 DEF Break, Agreed
<1>4. CASE Reconnect
  <2>1. /\ up'[conn + 1] = <<Join>> /\ conn' = conn + 1 /\ down' = down /\ link = "down"
        /\ speaker' = speaker /\ link' \in {"rejoining", "loading"}
    BY <1>4, NewQueue DEF Reconnect
  <2>2. down = <<>> /\ speaker \in 0..conn /\ conn \in Nat
    <3>1. down = <<>>
      BY <2>1 DEF SyncType, DownType, Open
    <3>2. speaker \in 0..conn
      BY DEF SyncType, ServerType
    <3>3. conn \in Nat
      BY DEF SyncType, BrowserType, Conns
    <3> QED  BY <3>1, <3>2, <3>3
  <2>3. Asked'
    BY <2>1, <2>2 DEF Asked, Join
  <2> QED  BY <2>1, <2>3 DEF Agreed
<1> QED  BY <1>1, <1>2, <1>3, <1>4

\* A message more to the browser.
LEMMA BehindMore ==
  ASSUME NEW f \in Nat, NEW t, NEW p, Behind(f, t, p), NEW m, Len(down) \in Nat,
         Len(down') = Len(down) + 1, down'[Len(down) + 1] = m,
         \A i \in 1..Len(down) : down'[i] = down[i], f >= 1,
         \/ m.kind = "replaced"
         \/ m.kind = "state" /\ m.total <= t /\ m.total + p = m.prog + t
  PROVE  Behind(f, t, p)'
<1> SUFFICES ASSUME NEW i \in f..Len(down')
             PROVE  \/ down'[i].kind = "replaced"
                    \/ /\ down'[i].kind = "state" /\ down'[i].total <= t
                       /\ down'[i].total + p = down'[i].prog + t
  BY DEF Behind
<1>1. CASE i = Len(down) + 1
  BY <1>1
<1>2. CASE i # Len(down) + 1
  <2>1. i \in f..Len(down) /\ i \in 1..Len(down)
    BY <1>2
  <2> QED  BY <2>1 DEF Behind
<1> QED  BY <1>1, <1>2

\* Nothing of the browser's connection changes, except that it may lose its voice.
LEMMA NothingToAgree ==
  ASSUME Agreed, UNCHANGED browserVars, UNCHANGED down, up'[conn] = up[conn],
         UNCHANGED serverVars \/ speaker' # conn
  PROVE  Agreed'
<1>1. CASE UNCHANGED serverVars
  BY <1>1 DEF Agreed, Joined, Behind, Ahead, Asked, Answered
<1>2. CASE speaker' # conn
  BY <1>2 DEF Agreed, Joined, Behind, Asked, Answered
<1> QED  BY <1>1, <1>2

LEMMA ServerAgrees ==
  ASSUME SyncType, SyncType', Agreed, calm,
         NEW c \in Conns, Serve(c) \/ ServeClose(c) \/ Broadcast
  PROVE  Agreed'
<1>0. /\ conn \in Conns /\ conn \in Nat /\ ctotal \in Nat /\ cprog \in Nat
      /\ cseq \in Nat /\ stotal \in Nat /\ sprog \in Nat /\ sseq \in Nat
      /\ Len(down) \in Nat /\ Len(up[conn]) \in Nat
  <2>1. /\ conn \in Conns /\ conn \in Nat /\ ctotal \in Nat /\ cprog \in Nat
        /\ cseq \in Nat
    BY DEF SyncType, BrowserType, Conns
  <2>2. stotal \in Nat /\ sprog \in Nat /\ sseq \in Nat
    BY DEF SyncType, ServerType
  <2>3. Len(down) \in Nat
    BY LenProperties DEF SyncType, DownType
  <2>4. Len(up[conn]) \in Nat
    BY <2>1, LengthType DEF SyncType
  <2> QED  BY <2>1, <2>2, <2>3, <2>4
<1>1. UNCHANGED browserVars /\ (Serve(c) => Served(c))
  BY ServerSteps DEF Serve, ServeJoin, DropInput, CountInput, RejectSequence, Throttle,
     ServeClose, Broadcast
<1> SUFFICES ASSUME Open PROVE Agreed'
  BY <1>1 DEF Agreed, Open
<1>2. link = "joined" => Joined
  BY DEF Agreed
<1>3. link = "joined" \/ Asked \/ Answered
  BY DEF Agreed, Open, SyncType, BrowserType, Links
<1>4. link = "joined" \/ link \in {"rejoining", "loading"}
  BY DEF Open, SyncType, BrowserType, Links
<1>5. CASE ServeClose(c)
  <2>1. speaker' = 0 /\ UNCHANGED <<up, down>>
    BY <1>5 DEF ServeClose
  <2> QED  BY <1>0, <1>1, <2>1, NothingToAgree DEF Conns
<1>6. ASSUME Serve(c), c # conn, UNCHANGED down, UNCHANGED serverVars \/ speaker' # conn
      PROVE  Agreed'
  <2>1. up'[conn] = up[conn]
    BY <1>0, <1>1, <1>6 DEF Served
  <2> QED  BY <1>1, <1>6, <2>1, NothingToAgree
<1>7. ASSUME up[conn] # <<>>, up[conn][1].kind = "input"
      PROVE  link = "joined" /\ Joined
  <2>1. ~Asked /\ ~Answered
    BY <1>7 DEF Asked, Answered, Join
  <2> QED  BY <1>2, <1>3, <1>4, <2>1
\* the connection the browser uses speaks, and the next input is the expected one
<1>8. ASSUME c = speaker, c = conn, up[c] # <<>>, Head(up[c]).kind = "input", Served(c)
      PROVE  /\ link = "joined" /\ Joined /\ Ahead /\ Len(up[c]) >= 1
             /\ Head(up[c]).seq = sseq + 1 /\ Head(up[c]).char = sprog + 1
  <2>1. Len(up[c]) >= 1 /\ Head(up[c]) = up[c][1]
    BY <1>8 DEF Served
  <2>2. link = "joined" /\ Joined
    BY <1>7, <1>8, <2>1
  <2>3. Ahead
    BY <1>8, <2>2 DEF Joined
  <2>4. up[conn][1].seq = sseq + 1 /\ up[conn][1].char = sprog + 1
    <3>1. 1 \in 1..Len(up[conn])
      BY <1>0, <1>8, <2>1
    <3> QED  BY <2>3, <3>1 DEF Ahead
  <2> QED  BY <1>8, <2>1, <2>2, <2>3, <2>4
<1>9. CASE DropInput(c)
  <2>1. Served(c) /\ UNCHANGED <<down, serverVars>> /\ c # speaker /\ up[c] # <<>>
        /\ Head(up[c]).kind = "input"
    BY <1>1, <1>9 DEF Serve, DropInput
  <2>2. CASE c # conn
    BY <1>6, <1>9, <2>1, <2>2 DEF Serve
  <2>3. CASE c = conn
    <3>1. link = "joined" /\ Joined
      BY <1>7, <2>1, <2>3 DEF Served
    <3>2. ASSUME NEW i \in 1..Len(up'[conn])
          PROVE  up'[conn][i].kind = "input"
      <4>1. up'[conn][i] = up[conn][i + 1] /\ i + 1 \in 1..Len(up[conn])
        BY <2>1, <2>3, <3>2 DEF Served
      <4> QED  BY <3>1, <4>1 DEF Joined
    <3> QED  BY <1>1, <2>1, <2>3, <3>1, <3>2 DEF Agreed, Joined, Behind
  <2> QED  BY <2>2, <2>3
<1>10. CASE RejectSequence(c)
  <2>1. Served(c) /\ UNCHANGED <<down, serverVars>> /\ c = speaker /\ up[c] # <<>>
        /\ Head(up[c]).kind = "input" /\ Head(up[c]).seq <= sseq
    BY <1>1, <1>10 DEF Serve, RejectSequence
  <2>2. c # conn
    BY <1>0, <1>8, <2>1
  <2> QED  BY <1>6, <1>10, <2>1, <2>2 DEF Serve
<1>11. CASE CountInput(c)
  <2> DEFINE m == View("state")
  <2>1. Served(c) /\ c = speaker /\ speaker' = speaker /\ up[c] # <<>>
        /\ Head(up[c]).kind = "input" /\ Send(c, m)
    BY <1>1, <1>11 DEF Serve, CountInput
  <2>2. CASE c # conn
    <3>1. UNCHANGED down
      BY <2>1, <2>2 DEF Send
    <3> QED  BY <1>6, <1>11, <2>1, <2>2, <3>1 DEF Serve
  <2>3. CASE c = conn
    <3>1. /\ link = "joined" /\ Joined /\ Ahead /\ Len(up[c]) >= 1
          /\ Head(up[c]).seq = sseq + 1 /\ Head(up[c]).char = sprog + 1
      BY <1>8, <2>1, <2>3
    <3>2. sseq' = sseq + 1 /\ stotal' = stotal + 1 /\ sprog' = sprog + 1
      BY <1>11, <3>1 DEF CountInput
    <3>3. /\ Len(up'[conn]) = Len(up[conn]) - 1
          /\ \A i \in 1..Len(up'[conn]) :
               i + 1 \in 1..Len(up[conn]) /\ up'[conn][i] = up[conn][i + 1]
      BY <1>0, <2>1, <2>3, <3>1 DEF Served
    <3>4. \A i \in 1..Len(up'[conn]) : up'[conn][i].kind = "input"
      BY <3>1, <3>3 DEF Joined
    <3>5. stotal + Len(up[conn]) = ctotal /\ sprog + Len(up[conn]) = cprog
          /\ sseq + Len(up[conn]) = cseq
      BY <3>1 DEF Ahead
    <3>6. stotal' + Len(up'[conn]) = ctotal /\ sprog' + Len(up'[conn]) = cprog
          /\ sseq' + Len(up'[conn]) = cseq
      <4> DEFINE n == Len(up[conn])
      <4>1. n \in Nat /\ Len(up'[conn]) = n - 1
        BY <1>0, <3>3
      <4>2. stotal + n = ctotal /\ sprog + n = cprog /\ sseq + n = cseq
        BY <3>5
      <4> HIDE DEF n
      <4>3. /\ (stotal + 1) + (n - 1) = ctotal /\ (sprog + 1) + (n - 1) = cprog
            /\ (sseq + 1) + (n - 1) = cseq
        BY <1>0, <4>1, <4>2
      <4> QED  BY <3>2, <4>1, <4>3
    <3>7. ASSUME NEW i \in 1..Len(up'[conn])
          PROVE  up'[conn][i].seq = sseq' + i /\ up'[conn][i].char = sprog' + i
      <4>1. up[conn][i + 1].seq = sseq + (i + 1) /\ up[conn][i + 1].char = sprog + (i + 1)
        BY <3>1, <3>3 DEF Ahead
      <4>2. sseq + (i + 1) = (sseq + 1) + i /\ sprog + (i + 1) = (sprog + 1) + i
        BY <1>0
      <4> QED  BY <3>2, <3>3, <4>1, <4>2
    <3>8. Ahead'
      BY <1>1, <3>6, <3>7 DEF Ahead
    <3>9. /\ m.kind = "state" /\ m.total <= ctotal /\ m.total + cprog = m.prog + ctotal
      <4>1. m.kind = "state" /\ m.total = stotal + 1 /\ m.prog = sprog + 1
        BY <3>2 DEF View
      <4> HIDE DEF m
      <4> QED  BY <1>0, <3>1, <3>5, <4>1, <2>3
    <3>10. m \in DownMsg
      BY DEF View, DownMsg, ViewMsg, SyncType, ServerType
    <3>11. Behind(1, ctotal, cprog)'
      <4>1. /\ Len(down') = Len(down) + 1 /\ down'[Len(down) + 1] = m
            /\ \A i \in 1..Len(down) : down'[i] = down[i]
        BY <1>1, <2>1, <2>3, <3>10, SentQueue DEF SyncType
      <4>2. Behind(1, ctotal, cprog)
        BY <3>1 DEF Joined
      <4> HIDE DEF m
      <4> QED  BY <1>0, <1>1, <3>9, <4>1, <4>2, BehindMore
    <3> QED  BY <1>1, <3>1, <3>4, <3>8, <3>11 DEF Agreed, Joined
  <2> QED  BY <2>2, <2>3
<1>12. CASE ServeJoin(c)
  <2>1. Served(c) /\ up[c] # <<>> /\ up[c][1].kind = "join" /\ speaker' = c
        /\ UNCHANGED <<stotal, sprog>> /\ sseq' = 0
    BY <1>1, <1>12 DEF Serve, ServeJoin, Served
  <2>2. CASE c # conn /\ speaker # conn
    <3>1. UNCHANGED down
      BY <1>12, <2>2 DEF ServeJoin, Send
    <3> QED  BY <1>6, <1>12, <2>1, <2>2, <3>1 DEF Serve
  <2>3. CASE c # conn /\ speaker = conn
    <3> DEFINE m == [kind |-> "replaced"]
    <3>1. Send(conn, m) /\ m \in DownMsg /\ m.kind = "replaced"
      BY <1>12, <2>3 DEF ServeJoin, DownMsg
    <3>2. /\ Len(down') = Len(down) + 1 /\ down'[Len(down) + 1] = m
          /\ \A i \in 1..Len(down) : down'[i] = down[i]
      BY <1>1, <3>1, SentQueue DEF SyncType
    <3> HIDE DEF m
    <3>3. up'[conn] = up[conn]
      BY <1>0, <2>1, <2>3 DEF Served
    <3>4. CASE link = "joined"
      <4>1. Joined
        BY <1>2, <3>4
      <4>2. Behind(1, ctotal, cprog)'
        BY <1>0, <1>1, <3>1, <3>2, <4>1, BehindMore DEF Joined
      <4> QED  BY <1>1, <2>1, <2>3, <3>3, <3>4, <4>1, <4>2 DEF Agreed, Joined
    <3>5. CASE link # "joined"
      <4>1. Answered
        BY <1>3, <2>3, <3>5 DEF Asked
      <4>2. Len(down) >= 1 /\ down' # <<>> /\ down'[1] = down[1]
        BY <1>0, <3>2, <4>1, EmptySeq DEF Answered, SyncType, DownType
      <4>3. Behind(2, down[1].total, down[1].prog)'
        BY <1>0, <3>1, <3>2, <4>1, <4>2, BehindMore DEF Answered
      <4>4. Answered'
        BY <1>1, <2>1, <2>3, <3>3, <4>1, <4>2, <4>3 DEF Answered
      <4> QED  BY <1>1, <3>5, <4>4 DEF Agreed
    <3> QED  BY <3>4, <3>5
  <2>4. CASE c = conn
    <3> DEFINE m == View("ack")
    <3>1. Send(c, m)
      BY <1>12, <2>4 DEF ServeJoin
    <3>2. link # "joined" /\ Asked
      <4>1. ~Joined
        BY <2>1, <2>4 DEF Joined, Served
      <4>2. ~Answered
        BY <2>1, <2>4 DEF Answered
      <4> QED  BY <1>2, <1>3, <4>1, <4>2
    <3>3. up'[conn] = <<>>
      <4>1. Len(up[conn]) = 1
        BY <3>2 DEF Asked
      <4>2. up'[conn] \in Seq(UpMsg) /\ Len(up'[conn]) = 0
        BY <1>0, <2>1, <2>4, <4>1 DEF Served
      <4> QED  BY <4>2, EmptySeq
    <3>4. down' = <<m>>
      BY <1>1, <2>4, <3>1, <3>2 DEF Send, Asked
    <3>5. m.kind = "ack" /\ m.total = stotal /\ m.prog = sprog
      BY <2>1 DEF View
    <3> HIDE DEF m
    <3>6. down' # <<>> /\ down'[1] = m /\ Len(down') = 1
      BY <3>4
    <3>7. Answered'
      BY <1>1, <2>1, <3>3, <3>5, <3>6 DEF Answered, Behind
    <3> QED  BY <1>1, <3>2, <3>7 DEF Agreed
  <2> QED  BY <2>2, <2>3, <2>4
<1>13. CASE Broadcast
  <2> DEFINE m == View("state")
  <2>1. speaker = conn /\ UNCHANGED <<up, serverVars>> /\ Send(conn, m)
    BY <1>13 DEF Broadcast
  <2>2. m.kind = "state" /\ m.total = stotal /\ m.prog = sprog
    BY <2>1 DEF View
  <2>3. m \in DownMsg
    BY DEF View, DownMsg, ViewMsg, SyncType, ServerType
  <2>4. /\ Len(down') = Len(down) + 1 /\ down'[Len(down) + 1] = m
        /\ \A i \in 1..Len(down) : down'[i] = down[i]
    BY <1>1, <2>1, <2>3, SentQueue DEF SyncType
  <2> HIDE DEF m
  <2>5. CASE link = "joined"
    <3>1. Joined /\ Ahead
      BY <1>2, <2>1, <2>5 DEF Joined
    <3>2. stotal + Len(up[conn]) = ctotal /\ sprog + Len(up[conn]) = cprog
      BY <3>1 DEF Ahead
    <3>3. stotal <= ctotal /\ stotal + cprog = sprog + ctotal
      BY <1>0, <3>2
    <3>4. Behind(1, ctotal, cprog)'
      <4>1. m.total <= ctotal /\ m.total + cprog = m.prog + ctotal
        BY <2>2, <3>3
      <4>2. Behind(1, ctotal, cprog)
        BY <3>1 DEF Joined
      <4>3. ctotal' = ctotal /\ cprog' = cprog /\ 1 >= 1 /\ 1 \in Nat
        BY <1>1 DEF browserVars
      <4> QED  BY <1>0, <2>2, <2>4, <4>1, <4>2, <4>3, BehindMore
    <3> QED  BY <1>1, <2>1, <2>5, <3>1, <3>4 DEF Agreed, Joined, Ahead
  <2>6. CASE link # "joined"
    <3>1. Answered
      BY <1>3, <2>1, <2>6 DEF Asked
    <3>2. Len(down) >= 1 /\ down' # <<>> /\ down'[1] = down[1]
      BY <1>0, <2>4, <3>1, EmptySeq DEF Answered, SyncType, DownType
    <3>3. Behind(2, down[1].total, down[1].prog)'
      <4>1. stotal = down[1].total /\ sprog = down[1].prog
        BY <2>1, <3>1 DEF Answered
      <4>2. m.total <= down[1].total /\ m.total + down[1].prog = m.prog + down[1].total
        BY <1>0, <2>2, <4>1
      <4> QED  BY <1>0, <2>2, <2>4, <3>1, <3>2, <4>2, BehindMore DEF Answered
    <3>4. Answered'
      BY <1>1, <2>1, <3>1, <3>2, <3>3 DEF Answered
    <3> QED  BY <1>1, <2>6, <3>4 DEF Agreed
  <2> QED  BY <2>5, <2>6
<1>14. ~Throttle(c)
  BY DEF Throttle
<1> QED  BY <1>5, <1>9, <1>10, <1>11, <1>12, <1>13, <1>14 DEF Serve

-----------------------------------------------------------------------------
(* The invariant and what it says of the runs.                             *)

SyncInv == SyncType /\ Marked /\ Counted /\ Agreed

LEMMA InitSync == Init => SyncInv
<1> SUFFICES ASSUME Init PROVE SyncInv
  OBVIOUS
<1>1. /\ conn = 1 /\ 1 \in Conns /\ up = [c \in Conns |-> <<>>] /\ down = <<>>
      /\ \A c \in Conns : Len(up[c]) = 0
  BY DEF Init, Conns
<1>2. SyncType
  <2>1. BrowserType /\ ServerType
    BY <1>1 DEF Init, BrowserType, ServerType, Links, Conns
  <2>2. UpType /\ DownType
    BY <1>1 DEF UpType, DownType
  <2> QED  BY <2>1, <2>2 DEF SyncType
<1>3. \A c \in Conns, i \in Nat : ~IsInput(c, i)
  BY <1>1 DEF IsInput
<1>4. Marked
  BY <1>1, <1>3 DEF Init, Marked, InOrder, OnceTyped, AfterLast
<1>5. Counted
  <2>1. MarksInFlight = {}
    BY <1>3 DEF MarksInFlight
  <2> QED  BY <2>1, FS_EmptySet DEF Init, Counted
<1>6. Agreed
  BY <1>1 DEF Init, Agreed, Joined, Behind, Ahead
<1> QED  BY <1>2, <1>4, <1>5, <1>6 DEF SyncInv

LEMMA NextSync == SyncInv /\ [Next]_vars => SyncInv'
<1> SUFFICES ASSUME SyncInv, [Next]_vars PROVE SyncInv'
  OBVIOUS
<1>1. CASE Next
  <2>1. SyncType'
    <3>1. conn \in Conns /\ SyncType
      BY DEF SyncInv, SyncType, BrowserType
    <3>2. CASE Type \/ Receive \/ Break \/ Reconnect
      BY <3>1, <3>2, BrowserSteps
    <3>3. CASE Broadcast
      BY <3>1, <3>3, ServerSteps
    <3>4. ASSUME NEW c \in Conns, Serve(c) \/ ServeClose(c) PROVE SyncType'
      BY <3>1, <3>4, ServerSteps
    <3> QED  BY <1>1, <3>2, <3>3, <3>4 DEF Next
  <2>2. Marked' /\ Counted'
    BY <1>1, <2>1, MarksStep DEF SyncInv
  <2>3. calm' = calm
    BY <1>1 DEF Next, Type, Receive, ApplyState, ApplyJoinAck,
       ApplyReplaced, Break, Reconnect, Broadcast, Serve, ServeJoin, DropInput,
       CountInput, RejectSequence, Throttle, ServeClose
  <2>4. Agreed'
    <3>1. CASE ~calm
      BY <2>3, <3>1 DEF Agreed
    <3>2. CASE calm
      BY <1>1, <2>1, <3>2, BrowserAgrees, ServerAgrees DEF Next, SyncInv, SyncType,
         BrowserType
    <3> QED  BY <3>1, <3>2
  <2> QED  BY <2>1, <2>2, <2>4 DEF SyncInv
<1>2. CASE UNCHANGED vars
  <2>1. SyncType'
    BY <1>2 DEF vars, SyncInv, SyncType, BrowserType, ServerType, UpType, DownType, Open
  <2>2. Marked'
    BY <1>2 DEF vars, SyncInv, Marked, InOrder, OnceTyped, AfterLast, IsInput
  <2>3. Counted'
    BY <1>2 DEF vars, SyncInv, Counted, MarksInFlight, IsInput
  <2>4. Agreed'
    BY <1>2 DEF vars, SyncInv, Agreed, Joined, Behind, Ahead, Asked, Answered
  <2> QED  BY <2>1, <2>2, <2>3, <2>4 DEF SyncInv
<1> QED  BY <1>1, <1>2

\* SyncInv holds of every state of the code's behaviours: types, the order of the
\* keystrokes on their way, their number, and what the browser is ahead by.
THEOREM SyncIsSound == Spec => []SyncInv
  BY InitSync, NextSync, PTL DEF Spec

\* applyTypingInput counts no keystroke twice and none that was not typed, whatever
\* connection it comes from and however often the browser rejoins.
THEOREM NoKeystrokeIsInvented == Spec => []TypingInv
<1>1. SyncInv => TypingInv
  <2> SUFFICES ASSUME SyncInv PROVE TypingInv
    OBVIOUS
  <2>1. TypeOK
    <3>1. \A c \in Conns : \A i \in 1..Len(up[c]) : up[c][i] \in UpMsg
      BY ElementOfSeq DEF SyncInv, SyncType, UpType
    <3>2. \A i \in 1..Len(down) : down[i] \in DownMsg
      BY ElementOfSeq DEF SyncInv, SyncType, DownType
    <3>3. /\ calm \in BOOLEAN /\ Counters \subseteq Nat /\ conn \in Conns
          /\ speaker \in 0..MaxConns /\ link \in Links /\ cprog <= PromptLength
      BY DEF Counters, SyncInv, SyncType, BrowserType, ServerType, Conns
    <3>4. ASSUME NEW m \in UpMsg
          PROVE  m = Join \/ (m.kind = "input" /\ {m.seq, m.char, m.mark} \subseteq Nat)
      BY DEF UpMsg, InputMsg
    <3>5. ASSUME NEW m \in DownMsg
          PROVE  \/ m.kind = "replaced"
                 \/ m.kind \in {"ack", "state"} /\ {m.total, m.prog} \subseteq Nat
      BY DEF DownMsg, ViewMsg
    <3> QED  BY <3>1, <3>2, <3>3, <3>4, <3>5 DEF TypeOK
  <2>2. NothingInvented
    BY MarksAreFinite DEF SyncInv, Counted, NothingInvented, SyncType, BrowserType,
       ServerType
  <2> QED  BY <2>1, <2>2 DEF TypingInv
<1> QED  BY <1>1, SyncIsSound, PTL

\* reconcileRoomProgress: once nothing is on its way, the browser and the room
\* authority agree about what was typed.
THEOREM QuietMeansAgreed == Spec => []FewerMeansOlder
<1>1. SyncInv => FewerMeansOlder
  <2> SUFFICES ASSUME SyncInv, calm, link = "joined", speaker = conn, ~InFlight
               PROVE  ctotal = stotal /\ cprog = sprog
    BY DEF FewerMeansOlder
  <2>1. Ahead /\ Len(up[conn]) = 0
    BY DEF SyncInv, Agreed, Joined, InFlight
  <2>2. stotal + 0 = ctotal /\ sprog + 0 = cprog
    BY <2>1 DEF Ahead
  <2> QED  BY <2>2 DEF SyncInv, SyncType, ServerType
<1> QED  BY <1>1, SyncIsSound, PTL

\* applyTypingInput counts keystrokes one by one, and in the order they were typed
\* while the browser's own connection speaks for the player.
THEOREM KeystrokesInOrder == Spec => CountedInOrder
<1> DEFINE Counts == stotal' # stotal
                       => stotal' = stotal + 1 /\ (lastMark' > lastMark \/ speaker < conn)
<1>1. SyncInv /\ [Next]_vars => Counts
  <2> SUFFICES ASSUME SyncInv, [Next]_vars, stotal' # stotal
               PROVE  stotal' = stotal + 1 /\ (lastMark' > lastMark \/ speaker < conn)
    OBVIOUS
  <2>1. PICK c \in Conns : CountInput(c)
    BY DEF vars, Next, Type, Receive, ApplyState, ApplyJoinAck,
       ApplyReplaced, Break, Reconnect, Broadcast, Serve, ServeJoin, DropInput,
       RejectSequence, Throttle, ServeClose
  <2>2. /\ c = speaker /\ up[c] # <<>> /\ Head(up[c]).kind = "input"
        /\ stotal' = stotal + 1 /\ lastMark' = Head(up[c]).mark
    BY <2>1 DEF CountInput
  <2>3. Served(c)
    BY <2>1, ServerSteps DEF Serve, SyncInv
  <2>4. CASE c = conn
    <3>1. IsInput(conn, 1) /\ lastMark' = up[conn][1].mark
      BY <2>2, <2>3, <2>4 DEF Served, IsInput
    <3>2. lastMark < up[conn][1].mark
      BY <3>1 DEF SyncInv, Marked, AfterLast
    <3>3. lastMark \in Nat /\ up[conn][1].mark \in Nat
      BY <3>1 DEF SyncInv, SyncType, BrowserType, ServerType, Marked, OnceTyped
    <3> QED  BY <2>2, <3>1, <3>2, <3>3
  <2>5. CASE c # conn
    BY <2>2, <2>5 DEF SyncInv, SyncType, BrowserType, ServerType, Conns
  <2> QED  BY <2>4, <2>5
<1>2. SyncInv /\ [Next]_vars => [Counts]_vars
  BY <1>1
<1> QED  BY <1>2, SyncIsSound, PTL DEF Spec, CountedInOrder

\* reconcileRoomProgress: a late broadcast never moves the guide of a joined player
\* back to a key already typed.
THEOREM GuideStaysAhead == Spec => GuideNeverMovesBack
<1> DEFINE Forward == calm /\ link = "joined" => cprog' >= cprog
<1>1. SyncInv /\ [Next]_vars => Forward
  <2> SUFFICES ASSUME SyncInv, [Next]_vars, calm, link = "joined"
               PROVE  cprog' >= cprog
    OBVIOUS
  <2>0. cprog \in Nat /\ ctotal \in Nat
    BY DEF SyncInv, SyncType, BrowserType
  <2>1. CASE UNCHANGED cprog
    BY <2>0, <2>1
  <2>2. CASE Type
    BY <2>0, <2>2 DEF Type
  <2>3. CASE Reconnect
    BY <2>3 DEF Reconnect
  <2>4. Joined
    BY DEF SyncInv, Agreed
  <2>5. CASE ApplyJoinAck
    BY <2>4, <2>5, ReceivedQueue DEF ApplyJoinAck, Joined, Behind, SyncInv, SyncType
  <2>6. CASE ApplyState
    <3>1. Head(down) = down[1] /\ 1 \in 1..Len(down) /\ down[1] \in DownMsg
          /\ down[1].kind = "state"
      BY <2>6, ReceivedQueue DEF ApplyState, SyncInv, SyncType
    <3>2. /\ down[1].total <= ctotal
          /\ down[1].total + cprog = down[1].prog + ctotal
      BY <2>4, <3>1 DEF Joined, Behind
    <3>3. down[1].total \in Nat /\ down[1].prog \in Nat
      BY <3>1 DEF DownMsg, ViewMsg
    <3> QED  BY <2>0, <2>6, <3>1, <3>2, <3>3 DEF ApplyState
  <2> QED  BY <2>1, <2>2, <2>3, <2>5, <2>6 DEF vars, Next, Receive, ApplyReplaced,
       Break, Broadcast, Serve, ServeJoin, DropInput, CountInput, RejectSequence,
       Throttle, ServeClose
<1>2. SyncInv /\ [Next]_vars => [Forward]_vars
  BY <1>1
<1> QED  BY <1>2, SyncIsSound, PTL DEF Spec, GuideNeverMovesBack

=============================================================================
