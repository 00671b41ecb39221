--------------------------- MODULE RealtimeClient ---------------------------
(***************************************************************************)
(* One RealtimeSocket of the browser, createCloudflareRealtimeSocket in    *)
(* apps/web/app/_lib/realtime-client.ts: requests with their pending       *)
(* answers, the outbound queue of a socket that is not open, reconnects.   *)
(*                                                                         *)
(* JavaScript runs one event at a time, but the listeners and callbacks it *)
(* calls on the way may call emit and disconnect again.  `calls' is the    *)
(* stack of what is suspended meanwhile, innermost first: while it is not  *)
(* empty, the application may call in, but no event is delivered.          *)
(***************************************************************************)
EXTENDS Integers, Sequences, SequencesExt

CONSTANTS
  Requests,      \* calls of emit, one id each
  Acked,         \* those with a callback
  Replayable,    \* create, join and practice: isReplayableWhenDisconnected
  Bytes,         \* their serialised size
  MaxMessages,   \* MAX_OUTBOUND_QUEUE_MESSAGES
  MaxBytes       \* MAX_OUTBOUND_QUEUE_BYTES

\* the events that are replayed take an answer (ClientToServerEvents)
ASSUME RequestAssumption == Replayable \subseteq Acked /\ Acked \subseteq Requests
ASSUME QueueAssumption ==
  /\ Bytes \in [Requests -> Nat] /\ MaxMessages \in Nat /\ MaxBytes \in Nat

VARIABLES
  ws,              \* readyState of the last WebSocket
  attached,        \* the variable `socket' holds it, false for null
  manuallyClosed, reconnectTimer,
  pending,         \* keys of pendingAcks, each with its running timeout
  failing,         \* entries failPendingAcks has taken but not called yet
  queue,           \* outboundMessages
  calls,           \* what is suspended by a listener or callback
  emitted, wire,   \* requests made; requests the server may still answer
  sent, answers    \* how often a request was sent, its callback called

vars == <<ws, attached, manuallyClosed, reconnectTimer, pending, failing,
          queue, calls, emitted, wire, sent, answers>>

linkVars == <<ws, attached, manuallyClosed, reconnectTimer>>

Idle    == calls = <<>>
IsOpen  == attached /\ ws = "open"
Without(q, r) == RemoveFirst(q, r)
Once(count, R) == [r \in Requests |-> IF r \in R THEN count[r] + 1 ELSE count[r]]

-----------------------------------------------------------------------------
(* emit, called by the application at any time.                            *)

BytesOf(q) == FoldSeq(LAMBDA r, n : n + Bytes[r], 0, q)
Fits(q)    == Len(q) <= MaxMessages /\ BytesOf(q) <= MaxBytes

\* how many of the oldest messages have to go
Excess(q) == CHOOSE k \in 0..Len(q) :
  /\ Fits(SubSeq(q, k + 1, Len(q)))
  /\ \A j \in 0..(k - 1) : ~Fits(SubSeq(q, j + 1, Len(q)))

\* Mutant: a dropped message may still be answered by its timeout
EmitQueuedTwice(r) ==
  LET q == Append(queue, r)  k == Excess(q) IN
  /\ ~IsOpen /\ r \in Replayable
  /\ queue' = SubSeq(q, k + 1, Len(q))
  /\ pending' = pending \cup {r}
  /\ answers' = Once(answers, ToSet(SubSeq(q, 1, k)) \cap pending')
  /\ UNCHANGED <<sent, wire>>

EmitOpen(r) ==
  /\ IsOpen
  /\ sent' = Once(sent, {r}) /\ wire' = wire \cup {r}
  /\ pending' = pending \cup ({r} \cap Acked)
  /\ UNCHANGED <<queue, answers>>

\* not replayable: the request fails at once
EmitRefused(r) ==
  /\ ~IsOpen /\ r \notin Replayable
  /\ answers' = Once(answers, {r} \cap Acked)
  /\ UNCHANGED <<queue, pending, sent, wire>>

\* queued; the oldest messages that do not fit any more fail
EmitQueued(r) ==
  LET q == Append(queue, r)  k == Excess(q)  dropped == ToSet(SubSeq(q, 1, k)) IN
  /\ ~IsOpen /\ r \in Replayable
  /\ queue' = SubSeq(q, k + 1, Len(q))
  /\ pending' = (pending \cup {r}) \ dropped
  /\ answers' = Once(answers, dropped \cap (pending \cup {r}))
  /\ UNCHANGED <<sent, wire>>

Emit(r) ==
  /\ r \notin emitted /\ emitted' = emitted \cup {r}
  /\ EmitOpen(r) \/ EmitRefused(r) \/ EmitQueued(r)
  /\ UNCHANGED <<linkVars, failing, calls>>

-----------------------------------------------------------------------------
(* disconnect, called by the application at any time but from within       *)
(* itself: page.tsx lets go of the socket first, and its callbacks return. *)

\* up to the callbacks of failPendingAcks
Disconnect ==
  /\ \A i \in 1..Len(calls) : calls[i] # "disconnect"
  /\ manuallyClosed' = TRUE /\ reconnectTimer' = FALSE
  /\ queue' = <<>>
  /\ failing' = failing \cup pending /\ pending' = {}
  /\ calls' = <<"disconnect">> \o calls
  /\ UNCHANGED <<ws, attached, emitted, wire, sent, answers>>

\* ... and after them
FinishDisconnect ==
  /\ failing = {} /\ ~Idle /\ Head(calls) = "disconnect"
  /\ attached' = FALSE
  /\ ws' = IF attached /\ ws \in {"connecting", "open"} THEN "closing" ELSE ws
  /\ calls' = Tail(calls)
  /\ UNCHANGED <<manuallyClosed, reconnectTimer, pending, failing, queue,
                 emitted, wire, sent, answers>>

\* failPendingAcks goes on with the next entry it has taken
CallFailed(r) ==
  /\ r \in failing
  /\ failing' = failing \ {r} /\ answers' = Once(answers, {r})
  /\ queue' = Without(queue, r)
  /\ UNCHANGED <<linkVars, pending, calls, emitted, wire, sent>>

-----------------------------------------------------------------------------
(* Events of the WebSocket.                                                *)

\* "open": the connect listeners run before the queue is flushed
OpenEvent ==
  /\ Idle /\ ws = "connecting"
  /\ ws' = "open" /\ calls' = <<"open">>
  /\ UNCHANGED <<attached, manuallyClosed, reconnectTimer, pending, failing,
                 queue, emitted, wire, sent, answers>>

\* flushOutboundMessages
FlushOutboundMessages ==
  /\ failing = {} /\ ~Idle /\ Head(calls) = "open"
  /\ calls' = Tail(calls)
  /\ IF IsOpen
     THEN /\ sent' = Once(sent, ToSet(queue)) /\ wire' = wire \cup ToSet(queue)
          /\ queue' = <<>>
     ELSE UNCHANGED <<queue, wire, sent>>
  /\ UNCHANGED <<linkVars, pending, failing, emitted, answers>>

\* "message": an answer to r, which may come too late
AnswerEvent(r) ==
  /\ Idle /\ ws \in {"open", "closing"} /\ r \in wire
  /\ wire' = wire \ {r}
  /\ pending' = pending \ {r}
  /\ answers' = Once(answers, {r} \cap pending)
  /\ queue' = IF r \in pending THEN Without(queue, r) ELSE queue
  /\ UNCHANGED <<linkVars, failing, calls, emitted, sent>>

\* "close": willReconnect is computed, then the disconnect listeners run
CloseEvent(code) ==
  /\ Idle /\ ws \in {"connecting", "open", "closing"}
  /\ code = 4000 => ws = "open"
  /\ ws' = "closed" /\ wire' = {}
  /\ calls' = << IF code = 4000 THEN "replaced"
                 ELSE IF manuallyClosed THEN "closed" ELSE "lost" >>
  /\ UNCHANGED <<attached, manuallyClosed, reconnectTimer, pending, failing,
                 queue, emitted, sent, answers>>

\* Mutant: a replaced session is treated like a lost connection
FailPendingAcksReconnecting ==
  /\ failing = {} /\ ~Idle /\ Head(calls) \in {"replaced", "lost"}
  /\ failing' = pending /\ pending' = {}
  /\ calls' = <<"reconnect">>
  /\ UNCHANGED <<linkVars, queue, emitted, wire, sent, answers>>

\* Mutant: the pending requests are cleared and not told
FailPendingAcksSilently ==
  /\ failing = {} /\ ~Idle /\ Head(calls) \in {"replaced", "lost"}
  /\ manuallyClosed' = (manuallyClosed \/ Head(calls) = "replaced")
  /\ pending' = {}
  /\ calls' = IF Head(calls) = "lost" THEN <<"reconnect">> ELSE <<"closed">>
  /\ UNCHANGED <<ws, attached, reconnectTimer, failing, queue, emitted, wire,
                 sent, answers>>

\* failPendingAcks, after the listeners: code 4000 also closes for good
FailPendingAcks ==
  /\ failing = {} /\ ~Idle /\ Head(calls) \in {"replaced", "lost"}
  /\ manuallyClosed' = (manuallyClosed \/ Head(calls) = "replaced")
  /\ failing' = pending /\ pending' = {}
  /\ calls' = IF Head(calls) = "lost" THEN <<"reconnect">> ELSE <<"closed">>
  /\ UNCHANGED <<ws, attached, reconnectTimer, queue, emitted, wire, sent, answers>>

\* the end of the close listener, with scheduleReconnect if it came to that
FinishClose ==
  /\ failing = {} /\ ~Idle /\ Head(calls) \in {"reconnect", "closed"}
  /\ reconnectTimer' =
       (reconnectTimer \/ (Head(calls) = "reconnect" /\ ~manuallyClosed))
  /\ attached' = FALSE /\ calls' = <<>>
  /\ UNCHANGED <<ws, manuallyClosed, pending, failing, queue, emitted, wire,
                 sent, answers>>

-----------------------------------------------------------------------------
(* Timers.                                                                 *)

\* Mutant: a request that timed out stays in the queue
TimeoutKeepsMessage(r) ==
  /\ Idle /\ r \in pending
  /\ pending' = pending \ {r} /\ answers' = Once(answers, {r})
  /\ UNCHANGED <<linkVars, failing, queue, calls, emitted, wire, sent>>

\* ACK_TIMEOUT_MS after emit
Timeout(r) ==
  /\ Idle /\ r \in pending
  /\ pending' = pending \ {r} /\ answers' = Once(answers, {r})
  /\ queue' = Without(queue, r)
  /\ UNCHANGED <<linkVars, failing, calls, emitted, wire, sent>>

\* the timer of scheduleReconnect: connect
Reconnect ==
  /\ Idle /\ reconnectTimer /\ reconnectTimer' = FALSE
  /\ IF manuallyClosed THEN UNCHANGED <<ws, attached>>
     ELSE ws' = "connecting" /\ attached' = TRUE
  /\ UNCHANGED <<manuallyClosed, pending, failing, queue, calls, emitted,
                 wire, sent, answers>>

-----------------------------------------------------------------------------
Init ==
  /\ ws = "connecting" /\ attached = TRUE
  /\ manuallyClosed = FALSE /\ reconnectTimer = FALSE
  /\ pending = {} /\ failing = {} /\ queue = <<>> /\ calls = <<>>
  /\ emitted = {} /\ wire = {}
  /\ sent = [r \in Requests |-> 0] /\ answers = [r \in Requests |-> 0]

Running == (\E r \in Requests : CallFailed(r))
           \/ FinishDisconnect \/ FlushOutboundMessages \/ FailPendingAcks \/ FinishClose

Next ==
  \/ \E r \in Requests : Emit(r) \/ AnswerEvent(r) \/ Timeout(r)
  \/ Disconnect \/ Running \/ OpenEvent \/ \E code \in {1006, 4000} : CloseEvent(code)
  \/ Reconnect

Spec == Init /\ [][Next]_vars

\* JavaScript goes on with what it is doing, timers fire, and a WebSocket that
\* was told to close or connect reports an event in the end
Fairness ==
  /\ WF_vars(Running) /\ WF_vars(Reconnect)
  /\ \A r \in Requests : SF_vars(Timeout(r))
  /\ SF_vars(OpenEvent) /\ SF_vars(CloseEvent(1006) /\ ws = "closing")

FairSpec == Spec /\ Fairness

-----------------------------------------------------------------------------
Frames == {"disconnect", "open", "replaced", "lost", "closed", "reconnect"}

\* Every variable holds a value of its kind.
TypeOK ==
  /\ ws \in {"connecting", "open", "closing", "closed"}
  /\ {attached, manuallyClosed, reconnectTimer} \subseteq BOOLEAN
  /\ pending \subseteq Acked /\ failing \subseteq Acked
  /\ emitted \subseteq Requests /\ wire \subseteq Requests
  /\ queue \in Seq(Replayable) /\ calls \in Seq(Frames)
  /\ sent \in [Requests -> Nat] /\ answers \in [Requests -> Nat]

\* No request is answered twice, although its answer, its timeout, the end of
\* the connection, an overflow and a disconnect called from another callback
\* may meet.
AnsweredOnce == \A r \in Requests : answers[r] <= 1

\* No message is sent twice, on one connection or two: a create or a join is
\* carried out once.
SentOnce == \A r \in Requests : sent[r] <= 1

\* What the application was told has failed unsent is never sent afterwards:
\* a create that was given up does not open a room behind the player's back.
FailedIsNotSent ==
  [][\A r \in Acked : answers[r] > 0 => sent'[r] = sent[r]]_vars

\* A connection that is lost is replaced unless the session is over, and one
\* that is over is never opened again.
ReconnectsUnlessOver ==
  /\ Idle /\ ws = "closed" => (reconnectTimer <=> ~manuallyClosed)
  /\ ws # "closed" => ~reconnectTimer

\* The four together: however answers, timeouts, overflows, lost connections and
\* disconnects out of another callback meet, each request is sent at most once
\* and answered at most once, and the connection comes back exactly when it may.
ClientInv == TypeOK /\ AnsweredOnce /\ SentOnce /\ ReconnectsUnlessOver

\* A session another connection has taken over, or that the application has
\* closed, does not come back by itself and fight for the player.
OverIsOver ==
  [](ws = "closed" /\ (manuallyClosed \/ calls = <<"replaced">>) => [](ws = "closed"))

\* Every request with a callback is answered, if only by its timeout.
EveryRequestIsAnswered ==
  \A r \in Acked : r \in emitted ~> answers[r] > 0

=============================================================================
