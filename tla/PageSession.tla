----------------------------- MODULE PageSession ----------------------------
(***************************************************************************)
(* The session the page keeps with the server: apps/web/app/page.tsx with  *)
(* room-reconnect.ts, room-state-order.ts and practice-socket-lifecycle.ts.*)
(* One RealtimeSocket at a time, for practice or for one room; the room on *)
(* the screen; the room to come back to after a reload; what is pending.   *)
(*                                                                         *)
(* The handlers call each other, so the page is one record and each        *)
(* function of the source an operator from page to page.  RealtimeClient   *)
(* is seen from outside: a request is answered once, by the server, by its *)
(* timeout or by the end of the connection, and a socket that was let go   *)
(* may still report an event or two.  refs and the state of React that     *)
(* follows them are one field.                                             *)
(***************************************************************************)
EXTENDS Integers, Sequences, SequencesExt

CONSTANTS
  Rooms,        \* room codes
  NoRoom,       \* null
  Practice,     \* the address of the practice gateway
  MaxJoins,     \* MAX_STORED_ROOM_REJOIN_ATTEMPTS
  MaxRounds,    \* bound: rounds of a room
  MaxSockets,   \* bound: sockets made by one page
  MaxReloads    \* bound: reloads of the page

ASSUME PageAssumption ==
  /\ NoRoom \notin Rooms /\ Practice \notin Rooms \cup {NoRoom}
  /\ {MaxJoins, MaxRounds, MaxSockets, MaxReloads} \subseteq Nat \ {0}

VARIABLES
  page,     \* the page, with its current RealtimeSocket
  truth,    \* what the server has of the room that socket is connected to
  reloads   \* how often the page was reloaded

vars == <<page, truth, reloads>>

Snapshots == [round : 1..MaxRounds, over : BOOLEAN]
Shown(code, snap) == [code |-> code, round |-> snap.round, over |-> snap.over]
Nothing == [code |-> NoRoom, round |-> 1, over |-> FALSE]

HasRoom(p) == p.room.code # NoRoom
Target(p)  == IF p.socket = 0 THEN NoRoom ELSE p.targets[p.socket]
OfRoom(p)  == Target(p) \in Rooms

\* a page before its first effect, `code' being what localStorage holds
Fresh(code) ==
  [socket |-> 0, targets |-> <<>>, link |-> "none", pending |-> <<>>,
   member |-> FALSE, room |-> Nothing, result |-> FALSE,
   createPending |-> FALSE, joinPending |-> FALSE,
   stored |-> code, persisted |-> code, inFlight |-> FALSE, attempts |-> 0,
   tried |-> 0, timer |-> 0, recovery |-> "idle",
   practice |-> FALSE, setup |-> FALSE]

-----------------------------------------------------------------------------
(* Sockets.                                                                *)

\* Mutant: handlers do not ask whose event it is
IsCurrentSocketOrOlder(p, s) == s \in 1..Len(p.targets) /\ p.socket # 0

IsCurrentSocket(p, s) == s # 0 /\ p.socket = s

\* disconnect() of a socket that is no longer current: its requests fail, and
\* of their callbacks only that of joinRoom still does something
LetGo(p) ==
  [p EXCEPT !.socket = 0, !.link = "none", !.pending = <<>>, !.member = FALSE,
            !.joinPending = @ /\ ~Contains(p.pending, "join")]

ConnectSocket(p, target) ==
  [LetGo(p) EXCEPT !.inFlight = FALSE, !.link = "connecting",
                   !.socket = Len(p.targets) + 1, !.targets = Append(@, target)]

DisconnectCurrentSocket(p) == [LetGo(p) EXCEPT !.inFlight = FALSE]

DisconnectPracticeSocket(p) == IF Target(p) = Practice THEN LetGo(p) ELSE p

\* emit of a request that is sent now or queued for the next connection
Emit(p, request) == [p EXCEPT !.pending = Append(@, request)]

-----------------------------------------------------------------------------
(* The room to come back to.                                               *)

DiscardStoredRoom(p) ==
  DisconnectCurrentSocket(
    [p EXCEPT !.timer = 0, !.stored = NoRoom, !.attempts = 0,
              !.inFlight = FALSE, !.persisted = NoRoom, !.recovery = "idle"])

\* `attempts' is only compared with MaxJoins, so it stops right above it
AttemptStoredRoomJoin(p) ==
  LET n == IF p.attempts > MaxJoins THEN p.attempts ELSE p.attempts + 1 IN
  IF p.stored = NoRoom \/ p.inFlight THEN p
  ELSE Emit([p EXCEPT !.timer = 0, !.inFlight = TRUE, !.attempts = n,
                      !.tried = n, !.recovery = "reconnecting"], "stored")

\* the button beside a recovery that has failed
RetryStoredRoomJoin(p) ==
  LET q == [p EXCEPT !.attempts = 0, !.recovery = "reconnecting"] IN
  IF p.stored = NoRoom THEN [p EXCEPT !.recovery = "idle"]
  ELSE IF OfRoom(p) /\ p.link = "open" THEN AttemptStoredRoomJoin(q)
  ELSE ConnectSocket(q, p.stored)

-----------------------------------------------------------------------------
(* Snapshots of a room.                                                    *)

\* Mutant: within a round the newest message wins
ShouldApplyLatest(p, next) ==
  next.code # p.room.code \/ next.round >= p.room.round

ShouldApplyRoomSnapshot(p, next) ==
  \/ next.code # p.room.code
  \/ next.round > p.room.round
  \/ next.round = p.room.round /\ (p.room.over \/ p.result => next.over)

\* applyRoomSnapshot: a page that creates a room waits for its answer
ApplyRoomSnapshot(p, next) ==
  IF \/ OfRoom(p) /\ p.createPending /\ ~HasRoom(p)
     \/ ~ShouldApplyRoomSnapshot(p, next)
  THEN p
  ELSE [p EXCEPT !.room = next, !.result = next.over]

-----------------------------------------------------------------------------
(* Answers: "ok" with the room as it is now, a "refused" that will not     *)
(* change (PERMANENT_ROOM_JOIN_ERRORS), or "failed" for any other reason.  *)

Created(p, answer, snap) ==
  LET q == [p EXCEPT !.createPending = FALSE]  code == Target(p) IN
  IF answer # "ok" THEN DisconnectCurrentSocket(q)
  ELSE [q EXCEPT !.room = Shown(code, snap), !.stored = code,
                 !.persisted = code, !.practice = FALSE, !.result = FALSE]

Joined(p, answer, snap) ==
  LET q == [p EXCEPT !.joinPending = FALSE]  code == Target(p) IN
  IF answer # "ok" THEN DisconnectCurrentSocket(q)
  ELSE [q EXCEPT !.room = Shown(code, snap), !.stored = code,
                 !.persisted = code, !.practice = FALSE, !.result = FALSE]

\* the join a connect handler sends for the room on the screen
Rejoined(p, answer, snap) ==
  IF answer # "ok" THEN [p EXCEPT !.recovery = "failed"]
  ELSE ApplyRoomSnapshot([p EXCEPT !.recovery = "idle", !.stored = Target(p)],
                         Shown(Target(p), snap))

\* getStoredRoomJoinFailureAction
FailureAction(answer, attempts) ==
  IF answer = "refused" THEN "discard"
  ELSE IF attempts >= MaxJoins THEN "pause" ELSE "retry"

\* Mutant: a failed attempt leaves its mark
StoredJoinedInFlight(p, answer, snap) ==
  CASE answer = "ok" ->
         [p EXCEPT !.inFlight = FALSE, !.attempts = 0, !.recovery = "idle",
                   !.room = Shown(Target(p), snap), !.result = snap.over,
                   !.stored = Target(p), !.practice = FALSE]
    [] OTHER ->
         CASE FailureAction(answer, p.tried) = "discard" -> DiscardStoredRoom(p)
           [] FailureAction(answer, p.tried) = "pause" -> [p EXCEPT !.recovery = "failed"]
           [] FailureAction(answer, p.tried) = "retry" ->
                [p EXCEPT !.recovery = "reconnecting", !.timer = p.socket]

\* the callback of attemptStoredRoomJoin
StoredJoined(p, answer, snap) ==
  LET q == [p EXCEPT !.inFlight = FALSE] IN
  CASE answer = "ok" ->
         [q EXCEPT !.attempts = 0, !.recovery = "idle", !.stored = Target(p),
                   !.room = Shown(Target(p), snap), !.result = snap.over,
                   !.practice = FALSE]
    [] OTHER ->
         CASE FailureAction(answer, p.tried) = "discard" -> DiscardStoredRoom(q)
           [] FailureAction(answer, p.tried) = "pause" -> [q EXCEPT !.recovery = "failed"]
           [] FailureAction(answer, p.tried) = "retry" ->
                [q EXCEPT !.recovery = "reconnecting", !.timer = p.socket]

Practised(p, answer) ==
  [DisconnectPracticeSocket(p) EXCEPT !.practice = @ \/ answer = "ok"]

\* the callback of a request of socket s
Answered(p, s, request, answer, snap) ==
  IF ~IsCurrentSocket(p, s)
  THEN [p EXCEPT !.joinPending = @ /\ request # "join"]
  ELSE CASE request = "create"   -> Created(p, answer, snap)
         [] request = "join"     -> Joined(p, answer, snap)
         [] request = "rejoin"   -> Rejoined(p, answer, snap)
         [] request = "stored"   -> StoredJoined(p, answer, snap)
         [] request = "practice" -> Practised(p, answer)

-----------------------------------------------------------------------------
(* Events of the sockets: any socket made so far may report one.           *)

Sockets == 1..Len(page.targets)

\* connect: the room on the screen is joined again, or the stored one; the
\* server may have restarted and be behind what it sent before
Opens ==
  /\ page.link = "connecting"
  /\ LET p == [page EXCEPT !.link = "open"] IN
     page' = IF ~OfRoom(p) THEN p
             ELSE IF HasRoom(p) THEN Emit(p, "rejoin")
             ELSE AttemptStoredRoomJoin(p)
  /\ truth' \in Snapshots /\ UNCHANGED reloads

\* the disconnect handler
Disconnected(p, willReconnect) ==
  LET q == [p EXCEPT !.createPending = @ /\ (HasRoom(p) \/ ~OfRoom(p))] IN
  IF OfRoom(p)
  THEN [q EXCEPT !.recovery = IF willReconnect THEN "reconnecting" ELSE "failed"]
  ELSE q

\* failPendingAcks: the requests of socket s fail one after the other
AllFailed(p, s, requests, snap) ==
  LET after[n \in 0..Len(requests)] ==
        IF n = 0 THEN p
        ELSE Answered(after[n - 1], s, requests[n], "failed", snap)
  IN  after[Len(requests)]

\* close of the current socket: the handler, then the callbacks in their order;
\* `replaced' by another connection of the player, it does not come back.  The
\* close of a socket that was let go is not looked at
Closes(replaced) ==
  LET s == page.socket
      p == [Disconnected(page, ~replaced) EXCEPT !.pending = <<>>, !.member = FALSE,
                                  !.link = IF replaced THEN "over" ELSE "waiting"] IN
  /\ page.link \in {"connecting", "open"} /\ (replaced => page.member)
  /\ page' = AllFailed(p, s, page.pending, truth) /\ UNCHANGED <<truth, reloads>>

\* scheduleReconnect
Reconnects ==
  /\ page.link = "waiting" /\ page' = [page EXCEPT !.link = "connecting"]
  /\ UNCHANGED <<truth, reloads>>

\* the server seats the player; its broadcast may precede its answer
Accepts ==
  /\ page.link = "open" /\ ~page.member
  /\ \E request \in {"create", "join", "rejoin", "stored"} :
       /\ Contains(page.pending, request)
       /\ truth' = IF request = "create" THEN [round |-> 1, over |-> FALSE] ELSE truth
  /\ page' = [page EXCEPT !.member = TRUE] /\ UNCHANGED reloads

\* an answer, or ACK_TIMEOUT_MS without one
Answers(request, answer) ==
  /\ Contains(page.pending, request)
  /\ answer # "failed" => page.link = "open"
  /\ answer = "ok" => page.member \/ request = "practice"
  /\ answer = "refused" => ~page.member
  /\ page' = Answered([page EXCEPT !.pending = RemoveFirst(@, request)],
                      page.socket, request, answer, truth)
  /\ UNCHANGED <<truth, reloads>>

\* the match goes on: it ends, or a rematch begins the next round
MatchGoesOn ==
  /\ page.member
  /\ truth' \in {[truth EXCEPT !.over = TRUE],
                 [round |-> truth.round + 1, over |-> FALSE]} \cap Snapshots
  /\ UNCHANGED <<page, reloads>>

\* room:state, player:progress, match:countdown, match:started
ShowsRoom(s, snap) ==
  /\ IsCurrentSocket(page, s) /\ page.targets[s] \in Rooms
  /\ s = page.socket => page.member /\ snap = truth
  /\ page' = ApplyRoomSnapshot(page, Shown(page.targets[s], snap))
  /\ UNCHANGED <<truth, reloads>>

\* match:result
ShowsResult(s) ==
  /\ IsCurrentSocket(page, s) /\ page.room.code = page.targets[s]
  /\ s = page.socket => page.member /\ truth.over
  /\ page' = [page EXCEPT !.room.over = TRUE, !.result = TRUE]
  /\ UNCHANGED <<truth, reloads>>

\* match:error; without a room to create it is only shown
ShowsError ==
  /\ OfRoom(page) /\ page.createPending /\ ~HasRoom(page)
  /\ page' = [page EXCEPT !.createPending = FALSE]
  /\ UNCHANGED <<truth, reloads>>

\* the timer of attemptStoredRoomJoin
RetryTimer ==
  /\ page.timer # 0
  /\ LET p == [page EXCEPT !.timer = 0] IN
     page' = IF IsCurrentSocket(p, page.timer) THEN AttemptStoredRoomJoin(p) ELSE p
  /\ UNCHANGED <<truth, reloads>>

-----------------------------------------------------------------------------
(* The player, as far as the page offers it: showHomeModeMenu,             *)
(* showModeSetup and the buttons of both.                                  *)

AtHome  == ~HasRoom(page) /\ ~page.practice /\ ~page.setup /\ page.recovery = "idle"
AtSetup == ~HasRoom(page) /\ ~page.practice /\ page.setup
MayConnect == Len(page.targets) < MaxSockets

Does(p) == page' = p /\ UNCHANGED <<truth, reloads>>

OpenSetup  == AtHome  /\ Does([page EXCEPT !.setup = TRUE])
CloseSetup == AtSetup /\ Does([page EXCEPT !.setup = FALSE])

CreateRoom(code) ==
  /\ AtSetup /\ ~page.createPending /\ MayConnect
  /\ Does(Emit(ConnectSocket([page EXCEPT !.createPending = TRUE], code), "create"))

JoinRoom(code) ==
  /\ AtSetup /\ ~page.joinPending /\ MayConnect
  /\ Does(Emit([ConnectSocket(page, code) EXCEPT !.joinPending = TRUE], "join"))

\* startPractice and startDailyChallenge, from the menu or for another go
StartPractice ==
  /\ AtSetup \/ page.practice
  /\ MayConnect
  /\ Does(Emit([ConnectSocket(page, Practice) EXCEPT !.setup = FALSE], "practice"))

ReturnToPracticeMenu ==
  /\ page.practice
  /\ Does([DisconnectPracticeSocket(page) EXCEPT !.practice = FALSE, !.setup = TRUE])

RetryRecovery ==
  /\ page.recovery = "failed" /\ MayConnect
  /\ Does(RetryStoredRoomJoin(page))

LeaveRoom ==
  /\ HasRoom(page)
  /\ Does([DiscardStoredRoom(page) EXCEPT !.room = Nothing, !.result = FALSE,
                                          !.practice = FALSE, !.setup = FALSE])

\* the effect that mounts the page
Mounted(code) ==
  IF code = NoRoom THEN Fresh(code)
  ELSE ConnectSocket([Fresh(code) EXCEPT !.recovery = "reconnecting"], code)

Reload ==
  /\ reloads < MaxReloads /\ reloads' = reloads + 1
  /\ page' = Mounted(page.persisted) /\ UNCHANGED truth

-----------------------------------------------------------------------------
Init ==
  /\ \E code \in Rooms \cup {NoRoom} : page = Mounted(code)
  /\ truth = [round |-> 1, over |-> FALSE] /\ reloads = 0

Requests == {"create", "join", "rejoin", "stored", "practice"}

Next ==
  \/ Opens \/ (\E replaced \in BOOLEAN : Closes(replaced)) \/ Reconnects
  \/ \E s \in Sockets : ShowsResult(s) \/ \E snap \in Snapshots : ShowsRoom(s, snap)
  \/ Accepts \/ MatchGoesOn \/ ShowsError \/ RetryTimer
  \/ \E request \in Requests, answer \in {"ok", "refused", "failed"} :
       Answers(request, answer)
  \/ OpenSetup \/ CloseSetup \/ StartPractice \/ ReturnToPracticeMenu
  \/ \E code \in Rooms : CreateRoom(code) \/ JoinRoom(code)
  \/ RetryRecovery \/ LeaveRoom \/ Reload

Spec == Init /\ [][Next]_vars

\* timers fire, every request times out in the end, and a network that was
\* lost comes back
Fairness ==
  /\ \A request \in Requests : SF_vars(Answers(request, "failed"))
  /\ WF_vars(RetryTimer) /\ WF_vars(Reconnects) /\ SF_vars(Opens)

FairSpec == Spec /\ Fairness

-----------------------------------------------------------------------------
Codes == Rooms \cup {NoRoom}

\* Every field holds a value of its kind.
TypeOK ==
  /\ truth \in Snapshots /\ reloads \in 0..MaxReloads
  /\ page.targets \in Seq(Rooms \cup {Practice})
  /\ page.socket \in 0..Len(page.targets) /\ page.timer \in 0..Len(page.targets)
  /\ page.link \in {"none", "connecting", "open", "waiting", "over"}
  /\ page.pending \in Seq(Requests)
  /\ page.room \in [code : Codes, round : 1..MaxRounds, over : BOOLEAN]
  /\ {page.stored, page.persisted} \subseteq Codes
  /\ {page.member, page.result, page.createPending, page.joinPending,
      page.inFlight, page.practice, page.setup} \subseteq BOOLEAN
  /\ {page.attempts, page.tried} \subseteq 0..(MaxJoins + 1)
  /\ page.recovery \in {"idle", "reconnecting", "failed"}

\* A stored join is thought to be under way exactly while its answer is still
\* to come on the current socket: were the mark to stay behind when a socket is
\* replaced or dropped, no attempt would ever be made again.
InFlightIsReal == page.inFlight <=> Contains(page.pending, "stored")

\* The room on the screen is the one the socket is connected to, and the one a
\* reload comes back to (once the create or join has been answered): whatever an earlier
\* socket still reports does not mix two rooms.
ShownRoomIsServed ==
  HasRoom(page) /\ page.socket # 0 =>
    /\ page.room.code = Target(page)
    /\ \/ page.stored = page.room.code
       \/ Contains(page.pending, "join") \/ Contains(page.pending, "create")
    /\ page.persisted = page.stored

\* While a page that has a stored room says that it is reconnecting to it, a
\* connection, an answer or an attempt is to come (room-reconnect.test.ts:
\* "keeps waiting only when the transport will reconnect").
WaitsOnlyForReconnect ==
  /\ page.recovery = "reconnecting" /\ page.stored # NoRoom
  /\ ~HasRoom(page) \/ page.link # "open"
  => \/ page.link \in {"connecting", "waiting"}
     \/ page.pending # <<>>
     \/ page.timer # 0 /\ page.timer = page.socket

\* The page in every state: its fields are of their kind, the mark of a stored
\* join is true, two rooms are never mixed, and it never waits for nothing.
PageInv == TypeOK /\ InFlightIsReal /\ ShownRoomIsServed /\ WaitsOnlyForReconnect

\* The room on the screen goes back neither to an earlier round nor from a
\* match that is over to one that is not, although messages of a server that
\* has restarted may be older than what was shown; only a player who asks for
\* another attempt to come back is shown what the server has.
RoomMovesOn ==
  [][ \/ page'.room.code # page.room.code
      \/ page'.room.round > page.room.round
      \/ page'.room.round = page.room.round /\ (page.room.over => page'.room.over)
      \/ page.inFlight /\ ~page'.inFlight
      \/ reloads' # reloads ]_vars

\* A page that has a stored room and is not connected to it does not say for
\* ever that it is reconnecting: it gets the room back, gives it up, or offers a
\* button to try again.  A join is not pending for ever either.
RecoveryEnds ==
  /\ /\ page.recovery = "reconnecting" /\ page.stored # NoRoom
     /\ ~HasRoom(page) \/ page.link # "open"
     ~> page.recovery # "reconnecting"
  /\ page.joinPending ~> ~page.joinPending

=============================================================================
