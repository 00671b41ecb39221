--------------------------- MODULE RoomAuthority ---------------------------
(***************************************************************************)
(* The Durable Object that owns one room: RoomAuthorityDurableObject in    *)
(* apps/cloudflare-worker/src/room-authority.ts.                           *)
(*                                                                         *)
(* Socket messages, socket closes and the alarm are jobs of one serial     *)
(* promise chain (socketEventChain).  Timers run beside the chain, so they *)
(* interleave with a job at each of its awaits.  `job' names the await the *)
(* chain is suspended at; a handler that does not wait before it changes   *)
(* the room is one step.                                                   *)
(*                                                                         *)
(* Time is abstracted to "the deadline derived from this timestamp has     *)
(* passed": the sets and flags below are set by the actions at the end of  *)
(* the module and cleared where the code rewrites the timestamp.  What a   *)
(* player types is abstracted to whether the message decides the match.    *)
(* Map order is abstracted: where the code takes the first player of a     *)
(* kind, any player of that kind may be taken.                             *)
(***************************************************************************)
EXTENDS Integers, FiniteSets

CONSTANTS
  Guests,      \* guest ids of human players
  Sockets,     \* WebSocket connections; a detached one may stand for a new one
  Owner,       \* the guest whose browser opens each socket
  MaxPlayers,  \* MAX_PLAYERS, the COM player included
  MaxSockets,  \* MAX_ROOM_SOCKETS
  MaxRound,    \* bound: no match is started beyond this round
  Rules,       \* the match rules a host may choose from
  NoGuest, NoSocket

ASSUME OwnerAssumption   == Owner \in [Sockets -> Guests]
ASSUME SeatsAssumption   == MaxPlayers \in Nat /\ MaxPlayers >= 2
ASSUME RulesAssumption   == Rules \subseteq {"race", "timeAttack", "hpBattle"} /\ "race" \in Rules
ASSUME LimitAssumption   == MaxSockets \in Nat /\ MaxRound \in Nat
ASSUME NoGuestAssumption == NoGuest \notin Guests /\ NoSocket \notin Sockets

VARIABLES
  status,        \* room.status, "none" when this.room is null
  rule,          \* room.matchRule
  round,         \* room.round
  host,          \* room.hostPlayerId
  players,       \* the human entries of room.players
  bot,           \* room.players has the COM player
  connected,     \* players with connected = true
  ready,         \* players with ready = true
  away,          \* players whose disconnectedAt is defined
  overdue,       \* ... and more than DISCONNECT_GRACE_MS ago
  forfeited,     \* players with forfeited = true
  socketId,      \* player.socketId, NoSocket once that socket is gone
  result,        \* the round room.result belongs to, 0 when it is undefined
  notified,      \* the round of lastFinalizedNotificationKey, 0 for null
  matchEnds,     \* room.matchEndsAt: undefined, in the future or passed
  suddenDeath,   \* room.suddenDeath
  idle,          \* nobody is connected and lastActivityAt + its TTL has passed
  aged,          \* finishedAt + FINISHED_RESULT_RETENTION_MS has passed
  sockets,       \* keys of this.sockets
  socketPlayer,  \* socketStates.get(s)?.playerId
  closing,       \* sockets with a disconnectSocket job in the chain
  job,           \* where the chain is suspended, "idle" between jobs
  jobSocket,     \* the socket whose create or join is suspended
  countdownTimer, botTimer   \* this.timers.countdown, this.timers.bot

roomVars    == <<status, rule, round, host, players, bot>>
peopleVars  == <<connected, ready, away, overdue, forfeited, socketId>>
matchVars   == <<result, matchEnds, suddenDeath>>
ageVars     == <<idle, aged>>
socketVars  == <<sockets, socketPlayer, closing>>
chainVars   == <<job, jobSocket>>
timerVars   == <<countdownTimer, botTimer>>
vars == <<roomVars, peopleVars, matchVars, notified, ageVars, socketVars,
          chainVars, timerVars>>

Statuses == {"none", "waiting", "countdown", "playing", "finished"}
Jobs     == {"idle", "create", "join", "players", "forfeits", "expiry"}

-----------------------------------------------------------------------------
(* Helpers on the room.  "Mutant" marks a definition that no specification *)
(* uses: it is the one that follows it, with a mistake a property detects. *)

Seats == Cardinality(players) + (IF bot THEN 1 ELSE 0)

\* The next host: a connected human if there is one, else any human, else
\* the host is left as it is.  C are the connected ones of the humans P.
NextHosts(P, C) == IF C # {} THEN C ELSE IF P # {} THEN P ELSE {host}

\* ensureConnectedHost
EnsuredHosts(P, C) == IF host \in C THEN {host} ELSE NextHosts(P, C)

\* clearMatchTimers
ClearMatchTimers == countdownTimer' = FALSE /\ botTimer' = FALSE

\* Mutant: the players are reset but the room stays in its countdown
AbortHalfway ==
  /\ status' = status /\ result' = 0 /\ matchEnds' = "none" /\ aged' = FALSE
  /\ ready' = {} /\ forfeited' = {} /\ idle' = FALSE

\* abortCountdown, its resetPlayers(room, true) included
AbortCountdown ==
  /\ status' = "waiting" /\ result' = 0 /\ matchEnds' = "none" /\ aged' = FALSE
  /\ ready' = {} /\ forfeited' = {} /\ idle' = FALSE

\* Mutant: finalizeRoom without notifyMatchFinalized
FinalizeSilently ==
  /\ status' = "finished" /\ result' = round /\ aged' = FALSE
  /\ UNCHANGED notified
  /\ ClearMatchTimers

\* finalizeRoom followed, in the same turn, by notifyMatchFinalized
FinalizeAndNotify ==
  /\ status' = "finished" /\ result' = round /\ aged' = FALSE
  /\ notified' = round
  /\ ClearMatchTimers

\* Mutant: the result and the forfeits of the last round are kept
BeginCountdownUnreset(r) ==
  /\ status' = "countdown" /\ round' = r
  /\ bot' = (bot \/ Seats < MaxPlayers)
  /\ matchEnds' = IF rule = "race" THEN "none" ELSE "ahead"
  /\ suddenDeath' = FALSE /\ aged' = FALSE /\ idle' = FALSE
  /\ ready' = {} /\ away' = {} /\ overdue' = {}
  /\ countdownTimer' = TRUE /\ botTimer' = FALSE
  /\ UNCHANGED <<rule, host, players, connected, socketId, notified, result,
                 forfeited, socketVars, chainVars>>

\* The common tail of startMatch, rematch and the last READY of a finished
\* room: addBotPlayer, the new deadlines, resetPlayers, scheduleMatchStart.
BeginCountdown(r) ==
  /\ status' = "countdown" /\ round' = r
  /\ bot' = (bot \/ Seats < MaxPlayers)
  /\ matchEnds' = IF rule = "race" THEN "none" ELSE "ahead"
  /\ suddenDeath' = FALSE /\ result' = 0 /\ aged' = FALSE /\ idle' = FALSE
  /\ ready' = {} /\ away' = {} /\ overdue' = {} /\ forfeited' = {}
  /\ countdownTimer' = TRUE /\ botTimer' = FALSE
  /\ UNCHANGED <<rule, host, players, connected, socketId, notified,
                 socketVars, chainVars>>

\* this.room = null
DropRoom ==
  /\ status' = "none" /\ rule' = "race" /\ round' = 0 /\ host' = NoGuest
  /\ players' = {} /\ bot' = FALSE
  /\ connected' = {} /\ ready' = {} /\ away' = {} /\ overdue' = {}
  /\ forfeited' = {} /\ socketId' = [g \in Guests |-> NoSocket]
  /\ result' = 0 /\ matchEnds' = "none" /\ suddenDeath' = FALSE
  /\ idle' = FALSE /\ aged' = FALSE

-----------------------------------------------------------------------------
(* Sockets.                                                                *)

\* attachSocket: the upgrade request is served outside the chain
AttachSocket(s) ==
  /\ s \notin sockets \cup closing /\ s # jobSocket
  /\ Cardinality(sockets) < MaxSockets
  /\ sockets' = sockets \cup {s}
  /\ UNCHANGED <<roomVars, peopleVars, matchVars, notified, ageVars,
                 socketPlayer, closing, chainVars, timerVars>>

\* The peer goes away: the close event queues a disconnectSocket job
CloseEvent(s) ==
  /\ s \in sockets \ closing
  /\ closing' = closing \cup {s}
  /\ UNCHANGED <<roomVars, peopleVars, matchVars, notified, ageVars,
                 sockets, socketPlayer, chainVars, timerVars>>

\* scheduleUnjoinedSocketTimeout: the timer is armed whenever the socket has
\* no player, and runs beside the chain
UnjoinedTimeout(s) ==
  /\ s \in sockets /\ socketPlayer[s] = NoGuest
  /\ sockets' = sockets \ {s}
  /\ socketId' = [g \in Guests |-> IF socketId[g] = s THEN NoSocket ELSE socketId[g]]
  /\ UNCHANGED <<roomVars, connected, ready, away, overdue, forfeited,
                 matchVars, notified, ageVars, socketPlayer, closing,
                 chainVars, timerVars>>

\* Mutant: the record of the socket survives it
DetachConnectionOnly(s) ==
  /\ sockets' = sockets \ {s} /\ closing' = closing \ {s}
  /\ UNCHANGED socketPlayer

\* detachSocket, as far as the sockets are concerned
DetachSocket(s) ==
  /\ sockets' = sockets \ {s}
  /\ socketPlayer' = [socketPlayer EXCEPT ![s] = NoGuest]
  /\ closing' = closing \ {s}

\* leaveBySocket for player g, who keeps the seat and goes offline
GoOffline(g) ==
  /\ connected' = connected \ {g}
  /\ away' = away \cup {g} /\ overdue' = overdue \ {g}
  /\ host' \in IF host = g THEN NextHosts(players, connected \ {g}) ELSE {host}
  /\ idle' = FALSE
  /\ IF status = "countdown"
     THEN AbortCountdown /\ ClearMatchTimers
     ELSE /\ ready' = ready \ {g}
          /\ UNCHANGED <<status, result, matchEnds, aged, forfeited, timerVars>>
  /\ UNCHANGED <<rule, round, players, bot, suddenDeath, notified>>

\* disconnectSocket: after a close event, or after a send that failed
DisconnectSocket(s) ==
  /\ job = "idle" /\ s \in closing
  /\ DetachSocket(s)
  /\ socketId' = [g \in Guests |-> IF socketId[g] = s THEN NoSocket ELSE socketId[g]]
  /\ IF socketPlayer[s] = NoGuest
     THEN UNCHANGED <<roomVars, connected, ready, away, overdue, forfeited,
                      matchVars, notified, ageVars, timerVars>>
     ELSE GoOffline(socketPlayer[s])
  /\ UNCHANGED chainVars

\* A message above MAX_WEB_SOCKET_MESSAGE_BYTES: closeSocket forgets the socket
\* at once, so its close event finds nothing to disconnect.
CloseOversized(s) ==
  /\ job = "idle" /\ s \in sockets
  /\ DetachSocket(s)
  /\ socketId' = [g \in Guests |-> IF socketId[g] = s THEN NoSocket ELSE socketId[g]]
  /\ UNCHANGED <<roomVars, connected, ready, away, overdue, forfeited,
                 matchVars, notified, ageVars, chainVars, timerVars>>

-----------------------------------------------------------------------------
(* Create and join: the handler awaits the rate limiter of the gateway and *)
(* does not look again at whether its socket is still there.               *)

\* handleSocketMessage up to checkRoomRequestRateLimit
BeginRequest(kind, s) ==
  /\ job = "idle" /\ s \in sockets
  /\ job' = kind /\ jobSocket' = s
  /\ UNCHANGED <<roomVars, peopleVars, matchVars, notified, ageVars,
                 socketVars, timerVars>>

EndRequest == job' = "idle" /\ jobSocket' = NoSocket

\* sendAck to s: a send to a socket that is gone queues its disconnectSocket
AckTo(s) == closing' = IF s \in sockets THEN closing ELSE closing \cup {s}

\* The request is denied; a join of an existing room has still touched it
RefuseRequest(touch) ==
  /\ EndRequest /\ AckTo(jobSocket)
  /\ idle' = (idle /\ ~touch)
  /\ UNCHANGED <<roomVars, peopleVars, matchVars, notified, aged,
                 sockets, socketPlayer, timerVars>>

\* createInitialRoom, setSocketRoom
FinishCreate ==
  /\ job = "create" /\ status = "none"
  /\ LET s == jobSocket  g == Owner[jobSocket] IN
     /\ status' = "waiting" /\ rule' = "race" /\ round' = 1 /\ host' = g
     /\ players' = {g} /\ bot' = FALSE /\ connected' = {g}
     /\ socketId' = [socketId EXCEPT ![g] = s]
     /\ socketPlayer' = [socketPlayer EXCEPT ![s] = g]
     /\ notified' = 0 /\ idle' = FALSE
     /\ AckTo(s)
  /\ EndRequest
  /\ UNCHANGED <<ready, away, overdue, forfeited, matchVars, aged, sockets,
                 timerVars>>

\* the gateway denies the create, or the room exists already
RefuseCreate == job = "create" /\ RefuseRequest(FALSE)

\* joinRoom by a guest that is already a player: the new socket replaces the
\* previous one, which is closed
FinishRejoin ==
  /\ job = "join" /\ Owner[jobSocket] \in players
  /\ LET s == jobSocket  g == Owner[jobSocket]
         old == socketId[g]
         replaced == {old} \ {s, NoSocket}
     IN
     /\ connected' = connected \cup {g}
     /\ away' = away \ {g} /\ overdue' = overdue \ {g}
     /\ socketId' = [socketId EXCEPT ![g] = s]
     /\ sockets' = sockets \ replaced
     /\ socketPlayer' = [t \in Sockets |-> IF t = s THEN g
                          ELSE IF t \in replaced THEN NoGuest ELSE socketPlayer[t]]
     /\ host' \in EnsuredHosts(players, connected \cup {g})
     /\ AckTo(s)
  /\ idle' = FALSE
  /\ EndRequest
  /\ UNCHANGED <<status, rule, round, players, bot, ready, forfeited,
                 matchVars, notified, aged, timerVars>>

\* joinRoom by a new guest: only into a waiting room with a free seat
FinishJoin ==
  /\ job = "join" /\ Owner[jobSocket] \notin players
  /\ status = "waiting" /\ Seats < MaxPlayers
  /\ LET s == jobSocket  g == Owner[jobSocket] IN
     /\ players' = players \cup {g} /\ connected' = connected \cup {g}
     /\ socketId' = [socketId EXCEPT ![g] = s]
     /\ socketPlayer' = [socketPlayer EXCEPT ![s] = g]
     /\ host' \in EnsuredHosts(players \cup {g}, connected \cup {g})
     /\ AckTo(s)
  /\ idle' = FALSE
  /\ EndRequest
  /\ UNCHANGED <<status, rule, round, bot, ready, away, overdue, forfeited,
                 matchVars, notified, aged, sockets, timerVars>>

\* the gateway denies the join (the room is not touched), or joinRoom does
RefuseJoin ==
  /\ job = "join"
  /\ \/ RefuseRequest(FALSE)
     \/ /\ status # "none" /\ Owner[jobSocket] \notin players
        /\ status # "waiting" \/ Seats >= MaxPlayers
        /\ RefuseRequest(TRUE)

-----------------------------------------------------------------------------
(* Commands of a player.  getContext finds the player through the socket,  *)
(* and handleSocketMessage drops what a detached socket still had queued.  *)

Commands(s, g) == job = "idle" /\ s \in sockets /\ g = socketPlayer[s] /\ g # NoGuest

Settled == status \in {"waiting", "finished"}

\* handleLeaveRoom, explicitLeaveBySocket in a match: an immediate forfeit
LeaveMatch(s, g) ==
  /\ Commands(s, g) /\ status = "playing"
  /\ connected' = connected \ {g} /\ ready' = ready \ {g}
  /\ away' = away \cup {g} /\ overdue' = overdue \ {g}
  /\ forfeited' = forfeited \cup {g}
  /\ host' \in IF host = g THEN NextHosts(players \ {g}, connected \ {g}) ELSE {host}
  /\ idle' = FALSE
  /\ FinalizeAndNotify
  /\ socketPlayer' = [socketPlayer EXCEPT ![s] = NoGuest]
  /\ UNCHANGED <<rule, round, players, bot, socketId, matchEnds, suddenDeath,
                 sockets, closing, chainVars>>

\* ... in a countdown: as if the connection was lost
LeaveCountdown(s, g) ==
  /\ Commands(s, g) /\ status = "countdown"
  /\ GoOffline(g)
  /\ socketPlayer' = [socketPlayer EXCEPT ![s] = NoGuest]
  /\ UNCHANGED <<socketId, sockets, closing, chainVars>>

\* ... otherwise: the seat is given up; a room without players is dropped.
\* A finished room goes through notifyMatchFinalized once more, which
\* broadcasts its result only if this instance has not done so.
LeaveSettled(s, g) ==
  /\ Commands(s, g) /\ Settled
  /\ socketPlayer' = [socketPlayer EXCEPT ![s] = NoGuest]
  /\ IF players = {g} /\ ~bot
     THEN DropRoom /\ UNCHANGED <<notified, timerVars>>
     ELSE /\ players' = players \ {g}
          /\ connected' = connected \ {g} /\ ready' = ready \ {g}
          /\ away' = away \ {g} /\ overdue' = overdue \ {g}
          /\ forfeited' = forfeited \ {g}
          /\ socketId' = [socketId EXCEPT ![g] = NoSocket]
          /\ host' \in IF host = g
                       THEN NextHosts(players \ {g}, connected \ {g}) ELSE {host}
          /\ idle' = FALSE
          /\ IF status = "finished"
             THEN notified' = round /\ ClearMatchTimers
             ELSE UNCHANGED <<notified, timerVars>>
          /\ UNCHANGED <<status, rule, round, bot, matchVars, aged>>
  /\ UNCHANGED <<sockets, closing, chainVars>>

\* setReady, when it does not complete a finished room
SetReady(s, g) ==
  /\ Commands(s, g) /\ Settled
  /\ ready' = IF g \in ready THEN ready \ {g} ELSE ready \cup {g}
  /\ ~(status = "finished" /\ players \subseteq ready' \cap connected)
  /\ idle' = FALSE
  /\ UNCHANGED <<roomVars, connected, away, overdue, forfeited, socketId,
                 matchVars, notified, aged, socketVars, chainVars, timerVars>>

\* setReady by the last human of a finished room: the next round begins
ReadyRematch(s, g) ==
  /\ Commands(s, g) /\ status = "finished"
  /\ g \notin ready /\ players \subseteq (ready \cup {g}) \cap connected
  /\ round < MaxRound
  /\ BeginCountdown(round + 1)

\* setPromptCategory, setBotDifficulty: the value is not modelled, but a
\* change clears every READY
ChangeSetting(s, g) ==
  /\ Commands(s, g) /\ g = host /\ Settled
  /\ ready' = {} /\ idle' = FALSE
  /\ UNCHANGED <<roomVars, connected, away, overdue, forfeited, socketId,
                 matchVars, notified, aged, socketVars, chainVars, timerVars>>

\* setMatchRule with syncMatchRuleState
SetMatchRule(s, g, r) ==
  /\ Commands(s, g) /\ g = host /\ Settled /\ r # rule
  /\ rule' = r /\ matchEnds' = "none" /\ suddenDeath' = FALSE
  /\ ready' = {} /\ idle' = FALSE
  /\ UNCHANGED <<status, round, host, players, bot, connected, away, overdue,
                 forfeited, socketId, result, notified, aged, socketVars,
                 chainVars, timerVars>>

\* handlePlayerEquipment: the equipment is not modelled
ChangeEquipment(s, g) ==
  /\ Commands(s, g) /\ Settled
  /\ idle' = FALSE
  /\ UNCHANGED <<roomVars, peopleVars, matchVars, notified, aged, socketVars,
                 chainVars, timerVars>>

StartMatch(s, g) ==
  /\ Commands(s, g) /\ g = host /\ status = "waiting"
  /\ players \subseteq connected \cap ready
  /\ round <= MaxRound
  /\ BeginCountdown(round)

\* Mutant: the rematch replays the round
RematchSameRound(s, g) ==
  /\ Commands(s, g) /\ g = host /\ status = "finished"
  /\ players \subseteq connected
  /\ BeginCountdown(round)

Rematch(s, g) ==
  /\ Commands(s, g) /\ g = host /\ status = "finished"
  /\ players \subseteq connected
  /\ round < MaxRound
  /\ BeginCountdown(round + 1)

\* updateProgress, finishTyping: the message counts without deciding the
\* match (a rejected one changes nothing).  A time attack whose deadline has
\* passed does not count another message.
TypingCounts(s, g) ==
  /\ Commands(s, g) /\ status = "playing"
  /\ ~(rule = "timeAttack" /\ matchEnds = "passed")
  /\ idle' = FALSE
  /\ UNCHANGED <<roomVars, peopleVars, matchVars, notified, aged, socketVars,
                 chainVars, timerVars>>

\* ... or it decides the match: the prompt is complete, a player has no HP
\* left, or the deadline of the time attack has passed
TypingDecides(s, g) ==
  /\ Commands(s, g) /\ status = "playing"
  /\ rule = "timeAttack" => matchEnds = "passed"
  /\ idle' = (idle /\ rule = "timeAttack")
  /\ FinalizeAndNotify
  /\ UNCHANGED <<rule, round, host, players, bot, peopleVars, matchEnds,
                 suddenDeath, socketVars, chainVars>>

-----------------------------------------------------------------------------
(* Timers, beside the chain.                                               *)

\* Mutant: the match begins although a player is gone
CountdownFiresAnyway ==
  /\ countdownTimer
  /\ countdownTimer' = FALSE
  /\ IF status # "countdown"
     THEN UNCHANGED <<status, idle, botTimer>>
     ELSE status' = "playing" /\ idle' = FALSE /\ botTimer' = (botTimer \/ bot)
  /\ UNCHANGED <<rule, round, host, players, bot, peopleVars, matchVars,
                 notified, aged, socketVars, chainVars>>

\* scheduleMatchStart's timer: markPlaying, then scheduleBotProgress
CountdownFires ==
  /\ countdownTimer
  /\ countdownTimer' = FALSE
  /\ IF status # "countdown"
     THEN UNCHANGED <<status, result, matchEnds, aged, ready, forfeited, idle,
                      botTimer>>
     ELSE IF players = {} \/ players \ connected # {}
     THEN AbortCountdown /\ UNCHANGED botTimer
     ELSE /\ status' = "playing" /\ idle' = FALSE
          /\ botTimer' = (botTimer \/ bot)
          /\ UNCHANGED <<result, matchEnds, aged, ready, forfeited>>
  /\ UNCHANGED <<rule, round, host, players, bot, connected, away, overdue,
                 socketId, suddenDeath, notified, socketVars, chainVars>>

\* scheduleBotProgress' timer, advanceBot: the COM player decides the match,
\* or its timer finds that the time attack is over.  A tick that only moves
\* the COM player changes nothing here.
BotTickDecides ==
  /\ botTimer /\ status = "playing"
  /\ rule = "timeAttack" => matchEnds = "passed"
  /\ FinalizeAndNotify
  /\ UNCHANGED <<rule, round, host, players, bot, peopleVars, matchEnds,
                 suddenDeath, idle, socketVars, chainVars>>

-----------------------------------------------------------------------------
(* alarm: runMaintenance.  Each part reads the room again after the await  *)
(* of the part before it.                                                  *)

\* Mutant: a finished room expires under its players
ExpiredInUse == IF status = "finished" THEN aged ELSE connected = {} /\ idle

\* Mutant: a finished room expires with its last connection
ExpiredUnread == connected = {} /\ status # "none" /\ (status = "finished" \/ idle)

\* shouldExpireRoom
Expired ==
  /\ connected = {}
  /\ IF status = "finished" THEN aged ELSE status # "none" /\ idle

\* cleanupStaleRoom
CleanupStaleRoom ==
  /\ job = "idle" /\ job' = "players"
  /\ IF Expired
     THEN DropRoom /\ ClearMatchTimers
     ELSE UNCHANGED <<roomVars, peopleVars, matchVars, ageVars, timerVars>>
  /\ UNCHANGED <<notified, jobSocket, socketVars>>

\* cleanupDisconnectedPlayers
CleanupDisconnectedPlayers ==
  LET gone == overdue \ connected IN
  /\ job = "players" /\ job' = "forfeits"
  /\ IF Settled /\ connected # {} /\ gone # {} /\ (status = "finished" => aged)
     THEN /\ players' = players \ gone
          /\ away' = away \ gone /\ overdue' = overdue \ gone
          /\ host' \in EnsuredHosts(players \ gone, connected)
          /\ socketId' = [g \in Guests |-> IF g \in gone THEN NoSocket ELSE socketId[g]]
          /\ idle' = FALSE
          /\ IF status = "finished"
             THEN /\ status' = "waiting" /\ round' = round + 1
                  /\ result' = 0 /\ matchEnds' = "none" /\ aged' = FALSE
                  /\ ready' = {} /\ forfeited' = {}
             ELSE /\ ready' = ready \ gone /\ forfeited' = forfeited \ gone
                  /\ UNCHANGED <<status, round, result, matchEnds, aged>>
          /\ UNCHANGED <<rule, bot, connected, suddenDeath>>
     ELSE UNCHANGED <<roomVars, peopleVars, matchVars, ageVars>>
  /\ UNCHANGED <<notified, jobSocket, socketVars, timerVars>>

\* Mutant: without the grace period
ForfeitAtOnce ==
  LET late == away \ (connected \cup forfeited) IN
  /\ job = "forfeits" /\ job' = "expiry"
  /\ IF status = "playing" /\ late # {}
     THEN /\ forfeited' = forfeited \cup late
          /\ FinalizeAndNotify
     ELSE UNCHANGED <<status, result, aged, forfeited, notified, timerVars>>
  /\ UNCHANGED <<rule, round, host, players, bot, connected, ready, away,
                 overdue, socketId, matchEnds, suddenDeath, idle, jobSocket,
                 socketVars>>

\* handleForfeits
HandleForfeits ==
  LET late == overdue \ (connected \cup forfeited) IN
  /\ job = "forfeits" /\ job' = "expiry"
  /\ IF status = "playing" /\ late # {}
     THEN /\ forfeited' = forfeited \cup late
          /\ FinalizeAndNotify
     ELSE UNCHANGED <<status, result, aged, forfeited, notified, timerVars>>
  /\ UNCHANGED <<rule, round, host, players, bot, connected, ready, away,
                 overdue, socketId, matchEnds, suddenDeath, idle, jobSocket,
                 socketVars>>

\* handleTimeAttackExpirations: an HP battle that is tied goes on without a
\* deadline
HandleExpirations ==
  /\ job = "expiry" /\ EndRequest
  /\ IF status = "playing" /\ rule # "race" /\ matchEnds = "passed"
     THEN \/ /\ FinalizeAndNotify
             /\ UNCHANGED <<matchEnds, suddenDeath>>
          \/ /\ rule = "hpBattle"
             /\ suddenDeath' = TRUE /\ matchEnds' = "none"
             /\ UNCHANGED <<status, result, aged, notified, timerVars>>
     ELSE UNCHANGED <<status, matchVars, aged, notified, timerVars>>
  /\ UNCHANGED <<rule, round, host, players, bot, peopleVars, idle, socketVars>>

-----------------------------------------------------------------------------
(* Time and restarts.                                                      *)

\* getNextMaintenanceAlarmAt: disconnectedAt + DISCONNECT_GRACE_MS
GraceElapses(g) ==
  /\ g \in away \ overdue
  /\ overdue' = overdue \cup {g}
  /\ UNCHANGED <<roomVars, connected, ready, away, forfeited, socketId,
                 matchVars, notified, ageVars, socketVars, chainVars, timerVars>>

\* the deadline of getRoomExpirationDeadline exists while nobody is connected
IdleElapses ==
  /\ status \notin {"none", "finished"} /\ connected = {} /\ ~idle
  /\ idle' = TRUE
  /\ UNCHANGED <<roomVars, peopleVars, matchVars, notified, aged, socketVars,
                 chainVars, timerVars>>

RetentionElapses ==
  /\ status = "finished" /\ ~aged /\ aged' = TRUE
  /\ UNCHANGED <<roomVars, peopleVars, matchVars, notified, idle, socketVars,
                 chainVars, timerVars>>

\* matchEndsAt
MatchTimeElapses ==
  /\ status = "playing" /\ matchEnds = "ahead" /\ matchEnds' = "passed"
  /\ UNCHANGED <<roomVars, peopleVars, result, suddenDeath, notified, ageVars,
                 socketVars, chainVars, timerVars>>

\* The Durable Object is evicted or crashes: the sockets and the chain are
\* lost, restoreRoom reads the room back and syncRestoredRoom re-arms its
\* timers.  Every handler above persists what it changes; a snapshot that
\* was not written is the subject of another module.
Restart ==
  /\ sockets' = {} /\ closing' = {}
  /\ socketPlayer' = [s \in Sockets |-> NoGuest]
  /\ socketId' = [g \in Guests |-> NoSocket]
  /\ connected' = {} /\ ready' = {} /\ away' = players
  /\ host' \in EnsuredHosts(players, {})
  /\ notified' = 0
  /\ job' = "idle" /\ jobSocket' = NoSocket
  /\ countdownTimer' = (status = "countdown")
  /\ botTimer' = (status = "playing" /\ bot)
  /\ UNCHANGED <<status, rule, round, players, bot, overdue, forfeited,
                 matchVars, ageVars>>

-----------------------------------------------------------------------------
Init ==
  /\ status = "none" /\ rule = "race" /\ round = 0 /\ host = NoGuest
  /\ players = {} /\ bot = FALSE
  /\ connected = {} /\ ready = {} /\ away = {} /\ overdue = {}
  /\ forfeited = {} /\ socketId = [g \in Guests |-> NoSocket]
  /\ result = 0 /\ notified = 0 /\ matchEnds = "none" /\ suddenDeath = FALSE
  /\ idle = FALSE /\ aged = FALSE
  /\ sockets = {} /\ socketPlayer = [s \in Sockets |-> NoGuest] /\ closing = {}
  /\ job = "idle" /\ jobSocket = NoSocket
  /\ countdownTimer = FALSE /\ botTimer = FALSE

SocketStep(s) ==
  \/ AttachSocket(s) \/ CloseEvent(s) \/ UnjoinedTimeout(s) \/ DisconnectSocket(s)
  \/ \E kind \in {"create", "join"} : BeginRequest(kind, s)

PlayerStep(s, g) ==
  \/ LeaveMatch(s, g) \/ LeaveCountdown(s, g) \/ LeaveSettled(s, g)
  \/ SetReady(s, g) \/ ReadyRematch(s, g)
  \/ ChangeSetting(s, g) \/ ChangeEquipment(s, g)
  \/ \E r \in Rules : SetMatchRule(s, g, r)
  \/ StartMatch(s, g) \/ Rematch(s, g)
  \/ TypingCounts(s, g) \/ TypingDecides(s, g)

RequestStep ==
  FinishCreate \/ RefuseCreate \/ FinishRejoin \/ FinishJoin \/ RefuseJoin

TimerStep == CountdownFires \/ BotTickDecides

MaintenanceStep ==
  \/ CleanupStaleRoom \/ CleanupDisconnectedPlayers
  \/ HandleForfeits \/ HandleExpirations

TimeStep ==
  \/ \E g \in Guests : GraceElapses(g)
  \/ IdleElapses \/ RetentionElapses \/ MatchTimeElapses

Live ==
  \/ \E s \in Sockets : SocketStep(s)
  \/ \E s \in Sockets, g \in Guests : PlayerStep(s, g)
  \/ RequestStep \/ TimerStep \/ MaintenanceStep \/ TimeStep

Next == Live \/ Restart

\* The room authority with peers that keep to the message size limit
Spec == Init /\ [][Next]_vars

-----------------------------------------------------------------------------
(* Safety.                                                                 *)

RoomType ==
  /\ status \in Statuses /\ rule \in Rules /\ round \in Nat
  /\ host \in Guests \cup {NoGuest} /\ players \subseteq Guests
  /\ bot \in BOOLEAN
PeopleType ==
  /\ connected \subseteq players /\ ready \subseteq players
  /\ away \subseteq players /\ overdue \subseteq away
  /\ forfeited \subseteq players
  /\ socketId \in [Guests -> Sockets \cup {NoSocket}]
MatchType ==
  /\ result \in Nat /\ notified \in Nat
  /\ matchEnds \in {"none", "ahead", "passed"} /\ suddenDeath \in BOOLEAN
  /\ idle \in BOOLEAN /\ aged \in BOOLEAN
SocketType ==
  /\ sockets \subseteq Sockets /\ closing \subseteq Sockets
  /\ socketPlayer \in [Sockets -> Guests \cup {NoGuest}]
  /\ job \in Jobs /\ jobSocket \in Sockets \cup {NoSocket}
TimerType == countdownTimer \in BOOLEAN /\ botTimer \in BOOLEAN

\* Every variable holds a value of its kind; players who are ready, absent or
\* forfeited have a seat, and only absent ones have exceeded the grace period.
TypeOK == RoomType /\ PeopleType /\ MatchType /\ SocketType /\ TimerType

\* Whoever may start the match is there: as long as a human is connected, the
\* host is one of the connected humans, never the COM player, somebody
\* offline or somebody who left (leaveBySocket, ensureConnectedHost).
HostIsConnected == connected # {} => host \in connected

\* A player counts as connected exactly while one socket speaks for them,
\* the one their record points to.  So a socket that was replaced, left or
\* timed out can neither act for a player nor, when its late close event is
\* handled, take the player's new connection offline.
OneSocketPerPlayer ==
  \A s \in Sockets, g \in Guests :
    socketPlayer[s] = g <=> (g \in connected /\ socketId[g] = s)

\* Nobody is connected through a dead socket for good: when the socket of a
\* connected player is gone, because it timed out while its join waited for
\* the rate limiter, a disconnectSocket job for it is in the chain.
NoLostPlayer ==
  \A g \in connected : socketId[g] \in sockets \cup closing

\* Exactly the humans who are not connected have a disconnectedAt: without it
\* an absent player would never be forfeited or removed, with it a connected
\* one could be.
AwayIsTimed == away = players \ connected

\* The timer that has to move the room on is armed exactly when it is needed:
\* the countdown timer in a countdown, the COM timer in a match against the
\* COM player.
TimersMatchStatus ==
  /\ countdownTimer <=> status = "countdown"
  /\ botTimer <=> (status = "playing" /\ bot)

\* A room has a result exactly while it is finished, and it is the result of
\* the current round: a result never leaks into the next round.
ResultMatchesStatus == result = (IF status = "finished" THEN round ELSE 0)

\* No seat is given twice, however joins interleave with the COM player being
\* added, and a countdown or match always has an opponent.
SeatsRespected ==
  /\ Seats <= MaxPlayers
  /\ status \in {"countdown", "playing"} => Seats >= 2 /\ players # {}

\* A forfeit decides the match: no player of a match that goes on, of a
\* countdown or of a lobby carries one, not even after an aborted countdown
\* or a maintenance pass that clears the result.
ForfeitsEndTheMatch == forfeited # {} => status = "finished"

-----------------------------------------------------------------------------
(* The inductive invariant: the properties above and what they rest on.    *)

\* this.room = null keeps nothing of a room
NoRoomIsEmpty == status = "none" => players = {} /\ ~bot /\ round = 0

\* a create or join is suspended for a socket
JobHasSocket == job \in {"create", "join"} <=> jobSocket # NoSocket

\* a player's record points to a socket of that player's browser
OwnSocket == \A g \in Guests : socketId[g] # NoSocket => Owner[socketId[g]] = g

\* the notification key is never ahead of the room, and during a match it is
\* still that of an earlier round
NotifiedIsPast ==
  status # "none" => /\ notified <= round
                     /\ status = "finished" => notified \in {0, round}
                     /\ status # "finished" => notified < round

\* About people: the properties above, and what they rest on.
PeopleInv == /\ HostIsConnected /\ OneSocketPerPlayer /\ NoLostPlayer
             /\ AwayIsTimed /\ JobHasSocket /\ OwnSocket

\* About the match: the timer that has to move the room on is armed exactly
\* when it is needed, a result and a forfeit belong to the round that has
\* ended and never leak into the next, an earlier announcement cannot
\* silence a later one, and a room that is gone leaves nothing behind.
MatchInv  == /\ TimersMatchStatus /\ ResultMatchesStatus /\ NotifiedIsPast
             /\ ForfeitsEndTheMatch /\ NoRoomIsEmpty

\* Every variable holds a value of its kind, and what the code keeps about
\* people and about the match agrees: the host is connected while anybody is, a
\* connected player has exactly one socket, an absent one a deadline, and the
\* timers, the result and the announcement are those of the round.
RoomInv == TypeOK /\ PeopleInv /\ MatchInv

\* Rounds, seats and timers through every rule and rematch: MatchInv, and no
\* seat is given twice.
RoundInv == MatchInv /\ SeatsRespected

-----------------------------------------------------------------------------
(* What a step may never do.                                               *)

\* A match begins only with every human connected and after a countdown, also
\* when a restart or a leave raced with the countdown timer.
StartsTogether ==
  [][status # "playing" /\ status' = "playing"
       => status = "countdown" /\ connected' = players' /\ players' # {}]_vars

\* The result of a round is broadcast exactly once by a running instance: the
\* step that ends the match does it, and leaves no timer behind; no later step
\* does it again, nor for an earlier round (lastFinalizedNotificationKey).
AnnouncedOnce ==
  [][/\ status = "playing" /\ status' = "finished"
         => notified' = round /\ ~countdownTimer' /\ ~botTimer'
     /\ notified' \notin {0, notified}
         => status' = "finished" /\ notified' = round' /\ notified' > notified]_vars

\* A player is forfeited only after the grace period without a connection, or
\* by leaving: never one who came back in time.
ForfeitIsEarned ==
  [][\A g \in forfeited' \ forfeited :
        g \notin connected' /\ (g \in overdue \/ g \in connected)]_vars

\* The seat of a human is taken away only when they leave it themselves, when
\* they were away for the grace period, or with a whole room in which
\* nobody is connected.
SeatIsKept ==
  [][\A g \in players \ players' :
        \/ status' = "none" /\ connected = {}
        \/ g \in overdue \ connected
        \/ \E s \in Sockets : socketPlayer[s] = g /\ socketPlayer'[s] = NoGuest]_vars

\* The four ways in which a result goes: into the next round, and then nobody
\* is absent who could still come back for it; with the last player, who leaves
\* of their own accord; with a room that nobody is connected to; or into the
\* lobby, because an opponent has been gone for the grace time.  The last two wait
\* for the retention time, but not for the players who still look at the result:
\* README, section 4.
ResultIsRetained ==
  [][result # 0 /\ result' # result =>
       /\ result' = 0
       /\ \/ status' = "countdown" /\ round' > round /\ players \subseteq connected
          \/ status' = "none" /\ \E s \in Sockets : /\ players = {socketPlayer[s]} /\ ~bot
                                                    /\ socketPlayer'[s] = NoGuest
          \/ status' = "none" /\ connected = {} /\ aged
          \/ status' = "waiting" /\ overdue \ connected # {} /\ aged]_vars

-----------------------------------------------------------------------------
(* Liveness.  The timers of a live instance fire, the clock advances, the  *)
(* gateway answers (or the fetch fails), and the chain is first in, first  *)
(* out, so a queued job gets its turn however many others are queued.      *)

Fairness ==
  /\ WF_vars(CountdownFires) /\ WF_vars(RequestStep)
  /\ WF_vars(CleanupDisconnectedPlayers) /\ WF_vars(HandleForfeits)
  /\ WF_vars(HandleExpirations) /\ SF_vars(CleanupStaleRoom)
  /\ \A g \in Guests : WF_vars(GraceElapses(g))
  /\ \A s \in Sockets : SF_vars(DisconnectSocket(s))

\* An instance that is not restarted, and peers that do not keep to the message
\* size limit
OversizedSpec ==
  /\ Init /\ [][Live \/ \E s \in Sockets : CloseOversized(s)]_vars
  /\ Fairness

\* Every countdown ends, in a match or back in the lobby.
CountdownEnds == status = "countdown" ~> status # "countdown"

\* A player who disappears from a match and does not come back cannot hold it
\* up: the match ends.
AbsenceEndsMatch ==
  \A g \in Guests :
    (status = "playing" /\ g \in away) ~> (status # "playing" \/ g \notin away)

\* A player whose socket is gone is seen to be offline in the end, also when
\* it died while the join was waiting (disconnect-reconnect.md: on a
\* disconnect, player.connected becomes false).
LostSocketIsNoticed ==
  \A g \in Guests :
    (g \in connected /\ socketId[g] \notin sockets)
      ~> (g \notin connected \/ socketId[g] \in sockets)

=============================================================================
