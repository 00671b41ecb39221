--------------------------- MODULE RealtimeGateway ---------------------------
(***************************************************************************)
(* RealtimeGatewayDurableObject of                                         *)
(* apps/cloudflare-worker/src/realtime-gateway.ts.  It serves the sockets  *)
(* of people who practise alone, and it keeps the counters by which every  *)
(* room authority asks whether a guest may create or join a room.          *)
(*                                                                         *)
(* The two halves share no variable and no step, so a behaviour exercises  *)
(* one of them: half says which.  Counters are stored with an alarm that   *)
(* clears them.  Time is kept as what is left of each deadline; phase is   *)
(* the time within a cleanup bucket.                                       *)
(***************************************************************************)
EXTENDS Integers, Sequences, FiniteSets, FiniteSetsExt, SequencesExt

CONSTANTS
  Sockets, IpOf,        \* IpOf[s]: address of a socket, or NoIp
  NoIp,
  MaxSockets,           \* MAX_GATEWAY_SOCKETS
  MaxPerIp,             \* MAX_GATEWAY_SOCKETS_PER_CLIENT_IP
  MaxSent,              \* bound: MaxSent[s] messages of a socket
  Ips, Guests,          \* who asks for rooms, through the room authorities
  RoomActions,          \* "create" and "join"
  MaxOf,                \* MaxOf[a][d]: requests of one window
  Window,               \* windowMs, in ticks
  Bucket,               \* RATE_LIMIT_CLEANUP_BUCKET_MS, in ticks
  NoAlarm

ASSUME GatewayAssumption ==
  /\ DOMAIN IpOf = Sockets
  /\ {MaxSockets, MaxPerIp} \subseteq Nat
  /\ MaxSent \in [Sockets -> Nat]
  /\ RoomActions \subseteq {"create", "join"}
  /\ MaxOf \in [RoomActions -> [{"ip", "guest"} -> Nat \ {0}]]
  /\ {Window, Bucket} \subseteq Nat \ {0} /\ NoAlarm \notin Nat

VARIABLES
  half,        \* the half of the gateway this behaviour is about
  ready,       \* per socket: readyState on the gateway's side
  registered,  \* keys of sockets and socketStates
  armed,       \* sockets with an idle timer
  chain,       \* socketEventChain: events in the order they arrived
  sent,        \* per socket: messages sent
  owed,        \* per socket: requests whose answer is outstanding
  failed,      \* history: sockets to which a send has failed
  record,      \* per key: count and what is left of the window; count 0: none
  alarm,       \* ticks until the alarm of the object, 0 when it is due
  cleaning,    \* the alarm handler has been called and has not run yet
  phase,       \* ticks since the last cleanup bucket began
  recent       \* per key: requests counted 0, 1, ... ticks ago

socketVars == <<ready, registered, armed, chain, sent, owed, failed>>
limitVars  == <<record, alarm, cleaning, phase, recent>>
vars == <<half, socketVars, limitVars>>

-----------------------------------------------------------------------------
(* Sockets.                                                                *)

\* Every detachSocket clears the idle timer and forgets the socket
Detach(s) ==
  /\ registered' = registered \ {s}
  /\ armed' = armed \ {s}
  /\ owed' = [owed EXCEPT ![s] = 0]

Full(s) ==
  \/ Cardinality(registered) >= MaxSockets
  \/ IpOf[s] # NoIp /\ Cardinality({t \in registered : IpOf[t] = IpOf[s]}) >= MaxPerIp

\* attachSocket
AttachSocket(s) ==
  /\ ready[s] = "new"
  /\ IF Full(s)
     THEN /\ ready' = [ready EXCEPT ![s] = "closing"]
          /\ UNCHANGED <<registered, armed>>
     ELSE /\ ready' = [ready EXCEPT ![s] = "open"]
          /\ registered' = registered \union {s}
          /\ armed' = armed \union {s}
  /\ UNCHANGED <<chain, sent, owed, failed>>

\* Messages: a request, one that is no text and is ignored, and one above
\* the size limit
Kinds == {"request", "binary", "oversized"}

ClientSends(s, kind) ==
  /\ ready[s] = "open" /\ sent[s] < MaxSent[s]
  /\ sent' = [sent EXCEPT ![s] = @ + 1]
  /\ owed' = IF kind = "request" THEN [owed EXCEPT ![s] = @ + 1] ELSE owed
  /\ chain' = Append(chain, [socket |-> s, kind |-> kind])
  /\ UNCHANGED <<ready, registered, armed, failed>>

\* The close event is queued behind the messages; a socket that was refused
\* has no listeners
ClientCloses(s) ==
  /\ ready[s] \in {"open", "closing"}
  /\ ready' = [ready EXCEPT ![s] = "closed"]
  /\ chain' = IF s \in registered \/ sent[s] > 0
              THEN Append(chain, [socket |-> s, kind |-> "close"]) ELSE chain
  /\ UNCHANGED <<registered, armed, sent, owed, failed>>

\* handlePracticeStart, handleDailyPracticeStart and the refusal of what
\* only a room answers, each with sendMessage.  It drops a socket that it does
\* not know or that is not open any more, and one on which send throws: that
\* one is not closed, and nobody looks after it from then on.
Reply(s) ==
  /\ UNCHANGED ready
  /\ LET sendable == s \in registered /\ ready[s] = "open"
     IN \/ /\ sendable
           /\ owed' = [owed EXCEPT ![s] = @ - 1]
           /\ armed' = armed \union {s}
           /\ UNCHANGED <<registered, failed>>
        \/ sendable /\ Detach(s) /\ failed' = failed \union {s}
        \/ ~sendable /\ Detach(s) /\ UNCHANGED failed

\* Mutant: an oversized message drops the socket but does not close it
OversizedLeftOpen(s) == Detach(s) /\ UNCHANGED <<ready, failed>>

\* The idle timer is set again first, and cleared with the rest
Oversized(s) ==
  /\ Detach(s)
  /\ ready' = IF s \in registered /\ ready[s] = "open"
              THEN [ready EXCEPT ![s] = "closing"] ELSE ready
  /\ UNCHANGED failed

\* Mutant: a message that is ignored clears the idle timer all the same
HandleEventDisarming ==
  /\ chain # <<>>
  /\ chain' = Tail(chain)
  /\ LET s == Head(chain).socket
     IN CASE Head(chain).kind = "close" -> Detach(s) /\ UNCHANGED <<ready, failed>>
          [] Head(chain).kind = "oversized" -> Oversized(s)
          [] Head(chain).kind = "binary" ->
               armed' = armed \ {s} /\ UNCHANGED <<ready, registered, owed, failed>>
          [] OTHER -> Reply(s)
  /\ UNCHANGED sent

\* One event of the chain: handleSocketMessage or detachSocket
HandleEvent ==
  /\ chain # <<>>
  /\ chain' = Tail(chain)
  /\ LET s == Head(chain).socket
     IN CASE Head(chain).kind = "close" -> Detach(s) /\ UNCHANGED <<ready, failed>>
          [] Head(chain).kind = "oversized" -> Oversized(s)
          [] Head(chain).kind = "binary" ->
               /\ armed' = IF s \in registered THEN armed \union {s} ELSE armed
               /\ UNCHANGED <<ready, registered, owed, failed>>
          [] OTHER -> Reply(s)
  /\ UNCHANGED sent

\* The timer of scheduleSocketIdleTimeout, which runs when the events of the
\* socket have been handled: nothing in the chain waits for anything
IdleTimeout(s) ==
  /\ s \in armed
  /\ \A i \in DOMAIN chain : chain[i].socket # s
  /\ Detach(s)
  /\ ready' = IF ready[s] = "open" THEN [ready EXCEPT ![s] = "closing"] ELSE ready
  /\ UNCHANGED <<chain, sent, failed>>

SocketStep ==
  /\ half = "practice" /\ UNCHANGED <<half, limitVars>>
  /\ \/ \E s \in Sockets : \/ AttachSocket(s) \/ ClientCloses(s) \/ IdleTimeout(s)
                           \/ \E kind \in Kinds : ClientSends(s, kind)
     \/ HandleEvent

-----------------------------------------------------------------------------
(* Rate limits of the rooms.                                               *)

Keys == {<<a, "ip", x>> : a \in RoomActions, x \in Ips}
          \union {<<a, "guest", g>> : a \in RoomActions, g \in Guests}
Limit(k) == MaxOf[k[1]][k[2]]

\* consumeRateLimit: the record in use, or a new one
Current(k) ==
  IF record[k].count > 0 /\ record[k].left > 0 THEN record[k]
  ELSE [count |-> 0, left |-> Window]

Refuses(k) == Current(k).count >= Limit(k)
Consumed(k) == [count |-> Current(k).count + 1, left |-> Current(k).left]

\* ceilToBucket: ticks from now to the end of the bucket a deadline falls in
BucketEnd(left) == left + ((Bucket - ((phase + left) % Bucket)) % Bucket)

\* scheduleRateLimitCleanup: an alarm that is already due is left alone
CleanupAlarm(left) ==
  IF alarm = NoAlarm \/ (alarm > 0 /\ BucketEnd(left) < alarm)
  THEN BucketEnd(left) ELSE alarm

Counted(keys) ==
  recent' = [k \in Keys |-> IF k \in keys THEN [recent[k] EXCEPT ![0] = @ + 1] ELSE recent[k]]

\* checkRoomRequestRateLimit, one transaction.  The address pays even if the
\* guest is then refused.
CheckRoomRequest(a, ip, guest) ==
  LET x == <<a, "ip", ip>>
      g == <<a, "guest", guest>>
  IN /\ CASE Refuses(x) ->
               /\ alarm' = CleanupAlarm(record[x].left)
               /\ UNCHANGED <<record, recent>>
          [] ~Refuses(x) /\ Refuses(g) ->
               /\ record' = [record EXCEPT ![x] = Consumed(x)]
               /\ Counted({x})
               /\ alarm' = CleanupAlarm(Min({Current(x).left, Current(g).left}))
          [] OTHER ->
               /\ record' = [record EXCEPT ![x] = Consumed(x), ![g] = Consumed(g)]
               /\ Counted({x, g})
               /\ alarm' = CleanupAlarm(Min({Current(x).left, Current(g).left}))
     /\ UNCHANGED <<cleaning, phase>>

\* While the handler of an alarm runs the object has no alarm
AlarmFires ==
  /\ alarm = 0 /\ ~cleaning
  /\ alarm' = NoAlarm /\ cleaning' = TRUE
  /\ UNCHANGED <<record, phase, recent>>

\* Mutant: the alarm is not set again for the records that stay
CleanupWithoutAlarm ==
  /\ cleaning /\ cleaning' = FALSE
  /\ record' = [k \in Keys |-> IF record[k].left = 0 THEN [count |-> 0, left |-> 0]
                               ELSE record[k]]
  /\ UNCHANGED <<alarm, phase, recent>>

\* cleanupExpiredRateLimits, one transaction
CleanupExpired ==
  LET live == {k \in Keys : record[k].count > 0 /\ record[k].left > 0}
  IN /\ cleaning /\ cleaning' = FALSE
     /\ record' = [k \in Keys |-> IF k \in live THEN record[k] ELSE [count |-> 0, left |-> 0]]
     /\ alarm' = IF live = {} THEN NoAlarm
                 ELSE BucketEnd(Min({record[k].left : k \in live}))
     /\ UNCHANGED <<phase, recent>>

\* Time passes; an alarm may be late
Less(n) == IF n > 0 THEN n - 1 ELSE 0
Tick ==
  /\ phase' = (phase + 1) % Bucket
  /\ record' = [k \in Keys |-> [record[k] EXCEPT !.left = Less(@)]]
  /\ alarm' = IF alarm = NoAlarm THEN NoAlarm ELSE Less(alarm)
  /\ recent' = [k \in Keys |-> [t \in 0..Window - 1 |-> IF t = 0 THEN 0 ELSE recent[k][t - 1]]]
  /\ UNCHANGED cleaning

LimitStep ==
  /\ half = "rooms" /\ UNCHANGED <<half, socketVars>>
  /\ \/ \E a \in RoomActions, ip \in Ips, g \in Guests : CheckRoomRequest(a, ip, g)
     \/ AlarmFires \/ CleanupExpired \/ Tick

-----------------------------------------------------------------------------

Init ==
  /\ half \in {"practice", "rooms"}
  /\ ready = [s \in Sockets |-> "new"]
  /\ registered = {} /\ armed = {} /\ chain = <<>>
  /\ sent = [s \in Sockets |-> 0] /\ owed = [s \in Sockets |-> 0]
  /\ failed = {}
  /\ record = [k \in Keys |-> [count |-> 0, left |-> 0]]
  /\ alarm = NoAlarm /\ cleaning = FALSE /\ phase = 0
  /\ recent = [k \in Keys |-> [t \in 0..Window - 1 |-> 0]]

Next == SocketStep \/ LimitStep

Spec == Init /\ [][Next]_vars

Practice(A) == half = "practice" /\ A /\ UNCHANGED <<half, limitVars>>
Rooms(A) == half = "rooms" /\ A /\ UNCHANGED <<half, socketVars>>

\* Queued events run, timers and alarms fire, and time passes
Fairness ==
  /\ WF_vars(Practice(HandleEvent))
  /\ \A s \in Sockets : WF_vars(Practice(IdleTimeout(s)))
  /\ WF_vars(Rooms(AlarmFires)) /\ WF_vars(Rooms(CleanupExpired)) /\ WF_vars(Rooms(Tick))

FairSpec == Spec /\ Fairness

-----------------------------------------------------------------------------
(* Properties.                                                             *)

TypeOK ==
  /\ ready \in [Sockets -> {"new", "open", "closing", "closed"}]
  /\ registered \subseteq Sockets
  /\ owed \in [Sockets -> Nat] /\ \A s \in Sockets : owed[s] <= MaxSent[s]
  /\ failed \subseteq Sockets
  /\ record \in [Keys -> [count : Nat, left : 0..Window]]
  /\ alarm \in {NoAlarm} \union 0..Window + Bucket

\* The limits on connections hold among the sockets the gateway knows, every
\* one of them has a timer that will free its place, also when the peer is
\* gone without a close event, and a request that is not answered is still
\* waiting its turn.  An open socket the gateway does not know, which the
\* limits miss, is one on which a send has thrown: nothing else, a refusal,
\* a timer, a message or a close in any order, leaves one behind.
SocketsInv ==
  /\ Cardinality(registered) <= MaxSockets
  /\ \A s \in registered : IpOf[s] # NoIp =>
       Cardinality({t \in registered : IpOf[t] = IpOf[s]}) <= MaxPerIp
  /\ {s \in Sockets : ready[s] = "open"} \ registered \subseteq failed
  /\ registered = armed
  /\ \A s \in registered : owed[s] > 0 =>
       \E i \in DOMAIN chain : chain[i].socket = s /\ chain[i].kind = "request"

\* Sums(f)[t] is f[0] + ... + f[t]
Sums(f) ==
  LET sum[t \in 0..Window - 1] == IF t = 0 THEN f[0] ELSE sum[t - 1] + f[t] IN sum

\* Nobody is refused who has not used up the limit within the last window,
\* and a fixed window lets through at most two limits' worth in that time,
\* however requests, cleanup and late alarms interleave
LimitsInv ==
  \A k \in Keys :
    LET spent == Sums(recent[k])[Window - 1]
    IN (Refuses(k) => spent >= Limit(k)) /\ spent <= 2 * Limit(k)

\* No record is forgotten: an alarm is set for the end of its bucket at the
\* latest, or the cleanup is about to run
AlarmInv ==
  \A k \in Keys : record[k].count > 0 =>
    cleaning \/ (alarm # NoAlarm /\ alarm <= BucketEnd(record[k].left))

\* The gateway as a whole: both halves at every moment
GatewayInv == TypeOK /\ SocketsInv /\ LimitsInv /\ AlarmInv

\* A practice request is answered unless the gateway drops the connection
\* first, and no place is held for ever by a client that went silent
RequestsAreAnswered == \A s \in Sockets : owed[s] > 0 ~> owed[s] = 0
SilentSocketsGo     == \A s \in Sockets : s \in registered ~> s \notin registered
SocketsAreServed    == RequestsAreAnswered /\ SilentSocketsGo

\* Counters that have run out are removed, so that storage does not grow
\* with every guest there ever was
ExpiredRecordsGo ==
  \A k \in Keys : (record[k].count > 0 /\ record[k].left = 0)
                    ~> (record[k].count = 0 \/ record[k].left > 0)

=============================================================================
