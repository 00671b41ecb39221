----------------------------- MODULE TypingSync -----------------------------
(***************************************************************************)
(* One player's keystrokes on their way through a match: the browser       *)
(* (apps/web/app/page.tsx with reconcile-room-progress.ts and              *)
(* typing-message-batch.ts) advances its own copy of the progress at once  *)
(* and sends each keystroke with a sequence number; the room authority     *)
(* accepts or drops it and broadcasts its state, which the browser merges. *)
(* Connections break and are restored in the middle of this.               *)
(*                                                                         *)
(* The player types the character the guide on the screen asks for.  A     *)
(* connection is a FIFO in each direction; what an old connection still    *)
(* has in flight may be served after the first message of its successor.   *)
(***************************************************************************)
EXTENDS Integers, Sequences

CONSTANTS
  PromptLength,  \* characters of the prompt
  MaxTyped,      \* bound: keystrokes of the player
  MaxConns,      \* bound: connections the player opens
  MaxPending     \* bound: states on their way to the browser

ASSUME TypingAssumption ==
  /\ PromptLength \in Nat /\ MaxTyped \in Nat /\ MaxPending \in Nat
  /\ MaxConns \in Nat \ {0}

Conns == 1..MaxConns

VARIABLES
  calm,       \* no input is rejected by the rate limits of the room authority,
              \* and none is typed while a rejoin is unanswered
  conn,       \* the connection the browser uses, the latest one
  link,       \* what the browser makes of it
  ctotal, cprog,  \* localProgress: keystrokes, position in the prompt
  cseq,       \* inputSequenceRef
  typed,      \* keystrokes so far; the n-th one carries the mark n
  up,         \* per connection: messages to the room authority
  down,       \* messages to the browser on the current connection
  speaker,    \* the connection player.socketId stands for, 0 while offline
  sseq,       \* player.lastInputSequence
  stotal, sprog,  \* player.totalTypedCharacters, player.progressIndex
  lastMark    \* mark of the keystroke counted last

browserVars == <<calm, conn, link, ctotal, cprog, cseq, typed>>
serverVars  == <<speaker, sseq, stotal, sprog, lastMark>>
vars == <<browserVars, up, down, serverVars>>

\* Links: joined; down; rejoining, with the match still on the screen;
\* loading, after a reload, when there is no match to type into yet; or
\* replaced, closed with 4000, after which the browser opens no other
Links == {"joined", "down", "rejoining", "loading", "replaced"}
Open  == link \notin {"down", "replaced"}

Join         == [kind |-> "join"]
Input(q, c)  == [kind |-> "input", seq |-> q, char |-> c, mark |-> typed']
View(kind)   == [kind |-> kind, total |-> stotal', prog |-> sprog']

-----------------------------------------------------------------------------
(* The browser.                                                            *)

\* Mutant: typing goes on after the end of the prompt
TypePastEnd ==
  /\ link = "joined" /\ typed < MaxTyped
  /\ typed' = typed + 1 /\ ctotal' = ctotal + 1 /\ cprog' = cprog + 1
  /\ cseq' = cseq + 1
  /\ up' = [up EXCEPT ![conn] = Append(@, Input(cseq + 1, cprog + 1))]
  /\ UNCHANGED <<calm, conn, link, down, serverVars>>

\* handleTypedText and emitProgress.  Input is accepted as soon as the socket
\* is open (acceptingTextInput); after the last character of the prompt the
\* browser waits for the result (roomFinishPending).
Type ==
  /\ link = "joined" \/ (~calm /\ link = "rejoining")
  /\ cprog < PromptLength /\ typed < MaxTyped
  /\ typed' = typed + 1 /\ ctotal' = ctotal + 1 /\ cprog' = cprog + 1
  /\ cseq' = cseq + 1
  /\ up' = [up EXCEPT ![conn] = Append(@, Input(cseq + 1, cprog + 1))]
  /\ UNCHANGED <<calm, conn, link, down, serverVars>>

\* Mutant: a late broadcast is adopted
ApplyAnyState ==
  /\ down # <<>> /\ Head(down).kind = "state" /\ link = "joined"
  /\ ctotal' = Head(down).total /\ cprog' = Head(down).prog
  /\ down' = Tail(down)
  /\ UNCHANGED <<calm, conn, link, cseq, typed, up, serverVars>>

\* reconcileRoomProgress on a broadcast
ApplyState ==
  /\ down # <<>> /\ Head(down).kind = "state"
  /\ LET v == Head(down) IN
     IF link = "joined" /\ v.total >= ctotal
     THEN ctotal' = v.total /\ cprog' = v.prog
     ELSE UNCHANGED <<ctotal, cprog>>
  /\ down' = Tail(down)
  /\ UNCHANGED <<calm, conn, link, cseq, typed, up, serverVars>>

\* Mutant: the browser keeps what it typed when the connection was lost
KeepProgressOnJoin ==
  /\ down # <<>> /\ Head(down).kind = "ack"
  /\ IF Head(down).total >= ctotal
     THEN ctotal' = Head(down).total /\ cprog' = Head(down).prog
     ELSE UNCHANGED <<ctotal, cprog>>
  /\ cseq' = 0 /\ link' = "joined"
  /\ down' = Tail(down)
  /\ UNCHANGED <<calm, conn, typed, up, serverVars>>

\* the answer to room:join: resetTyping, then the snapshot of the answer
ApplyJoinAck ==
  /\ down # <<>> /\ Head(down).kind = "ack"
  /\ ctotal' = Head(down).total /\ cprog' = Head(down).prog
  /\ cseq' = 0 /\ link' = "joined"
  /\ down' = Tail(down)
  /\ UNCHANGED <<calm, conn, typed, up, serverVars>>

\* the close frame of a connection another one has taken over from
ApplyReplaced ==
  /\ down # <<>> /\ Head(down).kind = "replaced"
  /\ link' = "replaced" /\ down' = <<>>
  /\ UNCHANGED <<calm, conn, ctotal, cprog, cseq, typed, up, serverVars>>

\* The connection breaks: the room authority still gets a prefix of what was
\* sent, the browser nothing more.
Break ==
  /\ Open /\ link' = "down"
  /\ \E k \in 0..Len(up[conn]) : up' = [up EXCEPT ![conn] = SubSeq(@, 1, k)]
  /\ down' = <<>>
  /\ UNCHANGED <<calm, conn, ctotal, cprog, cseq, typed, serverVars>>

\* RealtimeSocket opens a new connection, "connect" emits room:join; or the
\* page is loaded again and attemptStoredRoomJoin does
Reconnect ==
  /\ link = "down" /\ conn < MaxConns
  /\ conn' = conn + 1
  /\ up' = [up EXCEPT ![conn + 1] = <<Join>>]
  /\ \/ link' = "rejoining" /\ UNCHANGED <<ctotal, cprog, cseq>>
     \/ link' = "loading" /\ ctotal' = 0 /\ cprog' = 0 /\ cseq' = 0
  /\ UNCHANGED <<calm, typed, down, serverVars>>

-----------------------------------------------------------------------------
(* The room authority.                                                     *)

Send(c, m) == down' = IF c = conn /\ Open THEN Append(down, m) ELSE down

\* joinRoom of an existing player: resetPlayerInputSession, a new socketId,
\* and the previous socket, if it is still there, is closed with 4000
ServeJoin(c) ==
  /\ up[c] # <<>> /\ Head(up[c]).kind = "join"
  /\ up' = [up EXCEPT ![c] = Tail(@)]
  /\ speaker' = c /\ sseq' = 0
  /\ UNCHANGED <<browserVars, stotal, sprog, lastMark>>
  /\ IF speaker = conn /\ c # conn
     THEN Send(conn, [kind |-> "replaced"])
     ELSE Send(c, View("ack"))

\* input of a connection that does not speak for the player is dropped
DropInput(c) ==
  /\ up[c] # <<>> /\ Head(up[c]).kind = "input" /\ c # speaker
  /\ up' = [up EXCEPT ![c] = Tail(@)]
  /\ UNCHANGED <<browserVars, down, serverVars>>

\* Mutant: input of a replaced connection counts
CountAnyInput(c) ==
  /\ up[c] # <<>> /\ Head(up[c]).kind = "input"
  /\ LET m == Head(up[c]) IN
     /\ m.seq > sseq
     /\ sseq' = m.seq /\ stotal' = stotal + 1 /\ lastMark' = m.mark
     /\ sprog' = IF m.char = sprog + 1 THEN m.char ELSE sprog
  /\ up' = [up EXCEPT ![c] = Tail(@)]
  /\ UNCHANGED <<browserVars, speaker>>
  /\ Send(c, View("state"))

\* applyTypingInput: only a later sequence number counts; a character that is
\* not the expected one is a mistake
CountInput(c) ==
  /\ c = speaker /\ up[c] # <<>> /\ Head(up[c]).kind = "input"
  /\ LET m == Head(up[c]) IN
     /\ m.seq > sseq
     /\ sseq' = m.seq /\ stotal' = stotal + 1 /\ lastMark' = m.mark
     /\ sprog' = IF m.char = sprog + 1 THEN m.char ELSE sprog
  /\ up' = [up EXCEPT ![c] = Tail(@)]
  /\ UNCHANGED <<browserVars, speaker>>
  /\ Send(c, View("state"))

\* ... an earlier one is rejected
RejectSequence(c) ==
  /\ c = speaker /\ up[c] # <<>> /\ Head(up[c]).kind = "input"
  /\ Head(up[c]).seq <= sseq
  /\ up' = [up EXCEPT ![c] = Tail(@)]
  /\ UNCHANGED <<browserVars, down, serverVars>>

\* typingLimiter drops the message; or the token bucket rejects its input and
\* keeps its sequence number consumed.  Neither is answered.
Throttle(c) ==
  /\ ~calm
  /\ c = speaker /\ up[c] # <<>> /\ Head(up[c]).kind = "input"
  /\ sseq' = sseq \/ (Head(up[c]).seq > sseq /\ sseq' = Head(up[c]).seq)
  /\ up' = [up EXCEPT ![c] = Tail(@)]
  /\ UNCHANGED <<browserVars, down, speaker, stotal, sprog, lastMark>>

\* disconnectSocket of a connection the browser has lost
ServeClose(c) ==
  /\ c = speaker /\ up[c] = <<>> /\ (c # conn \/ ~Open)
  /\ speaker' = 0
  /\ UNCHANGED <<browserVars, up, down, sseq, stotal, sprog, lastMark>>

\* another player's progress broadcasts the same room state
Broadcast ==
  /\ speaker = conn /\ Open /\ Len(down) < MaxPending
  /\ UNCHANGED <<browserVars, up, serverVars>>
  /\ Send(conn, View("state"))

-----------------------------------------------------------------------------
Init ==
  /\ calm \in BOOLEAN
  /\ conn = 1 /\ link = "joined" /\ ctotal = 0 /\ cprog = 0 /\ cseq = 0 /\ typed = 0
  /\ up = [c \in Conns |-> <<>>] /\ down = <<>>
  /\ speaker = 1 /\ sseq = 0 /\ stotal = 0 /\ sprog = 0 /\ lastMark = 0

Serve(c) ==
  ServeJoin(c) \/ DropInput(c) \/ CountInput(c) \/ RejectSequence(c) \/ Throttle(c)

Receive == ApplyState \/ ApplyJoinAck \/ ApplyReplaced

Next ==
  \/ Type \/ Receive \/ Break \/ Reconnect \/ Broadcast
  \/ \E c \in Conns : Serve(c) \/ ServeClose(c)

Spec == Init /\ [][Next]_vars

\* messages are delivered, the room authority serves what it received, and a
\* lost connection is opened again as long as the bound allows
FairSpec ==
  Spec /\ WF_vars(Receive) /\ WF_vars(Reconnect) /\ \A c \in Conns : WF_vars(Serve(c))

-----------------------------------------------------------------------------
Counters == {conn, ctotal, cprog, cseq, typed, speaker, sseq, stotal, sprog, lastMark}

\* Every variable holds a value of its kind.
TypeOK ==
  /\ calm \in BOOLEAN
  /\ Counters \subseteq Nat /\ conn \in Conns /\ speaker \in 0..MaxConns
  /\ link \in Links /\ cprog <= PromptLength
  /\ \A c \in Conns : \A i \in 1..Len(up[c]) :
       \/ up[c][i] = Join
       \/ /\ up[c][i].kind = "input"
          /\ {up[c][i].seq, up[c][i].char, up[c][i].mark} \subseteq Nat
  /\ \A i \in 1..Len(down) :
       \/ down[i].kind = "replaced"
       \/ /\ down[i].kind \in {"ack", "state"}
          /\ {down[i].total, down[i].prog} \subseteq Nat

\* Keystrokes are counted in the order they were typed and one by one,
\* although the sequence numbers start again with every rejoin.  Only what
\* was typed on a connection the browser has left, and whose late join took
\* the player over from its successor, may be counted after a later one.
CountedInOrder ==
  [][stotal' # stotal
       => stotal' = stotal + 1 /\ (lastMark' > lastMark \/ speaker < conn)]_vars

\* No keystroke is counted twice: the room authority never has more of them
\* than the player typed, nor a position in the prompt beyond them.
NothingInvented == sprog <= stotal /\ stotal <= typed

\* What holds of browser and room authority in every state.
TypingInv == TypeOK /\ NothingInvented

\* Without throttling, the guide of a joined player never moves back to a key already typed,
\* although broadcasts arrive late and the browser runs ahead of them
\* (reconcileRoomProgress).
GuideNeverMovesBack == [][calm /\ link = "joined" => cprog' >= cprog]_vars

InFlight == up[conn] # <<>> \/ down # <<>>

\* reconcile-room-progress.ts: "A state with fewer processed keystrokes is an
\* older server broadcast", so once nothing is in flight any more, the browser
\* and the room authority agree about what was typed; unless input was
\* throttled, which is not answered.
FewerMeansOlder ==
  calm /\ link = "joined" /\ speaker = conn /\ ~InFlight => ctotal = stotal /\ cprog = sprog

\* A player who stays connected, is not throttled and reaches the end of the prompt is seen to
\* finish: the browser, which takes no more input, does not wait in vain.
FinishIsSeen ==
  (calm /\ cprog = PromptLength /\ link = "joined")
    ~> (sprog = PromptLength \/ link # "joined" \/ cprog < PromptLength)

=============================================================================
