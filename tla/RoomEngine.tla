----------------------------- MODULE RoomEngine -----------------------------
(***************************************************************************)
(* The shared room engine: packages/shared/src/room-engine.ts, with the    *)
(* effect on the match of applyProgress and applyBotProgress in            *)
(* room-engine-progress.ts.                                                *)
(*                                                                         *)
(* The engine is synchronous: each exported function is one step on two    *)
(* maps of the module, `rooms' (by room code) and `socketIndex' (which     *)
(* player of which room a socket speaks for).  The hazards are the order   *)
(* in which a server calls the functions, and entries of one map that are  *)
(* out of date with the other.                                             *)
(*                                                                         *)
(* A room is a record.  Timestamps are abstracted to whether the deadline  *)
(* counted from them has passed (late, ends, idle), and late is kept only  *)
(* during a match, when checkForForfeits asks for it.  Typing is           *)
(* abstracted to the number of correct and wrong keys of a message.        *)
(* Message sequence numbers, the statistics and the equipment are left     *)
(* out.                                                                    *)
(***************************************************************************)
EXTENDS Integers, FiniteSets

CONSTANTS
  Guests, Bot,   \* guest ids of humans, the id of the COM player
  Sockets,       \* socket ids
  Owner,         \* the guest each socket belongs to
  Codes,         \* room codes that createRoomCode may draw
  MaxPlayers,    \* MAX_PLAYERS
  Rules, Categories,
  PromptsIn,     \* the valid prompts of each category
  NoPrompt, NoRoom, NoEntry,
  Length,        \* of the prompt
  MaxHp,         \* HP_BATTLE_MAX_HP
  MaxKeys,       \* bound: keys of one message
  MaxRound,      \* bound: no match is started beyond this round
  MaxRestarts    \* bound: restarts of the server

ASSUME GuestsAssumption == Bot \notin Guests /\ Owner \in [Sockets -> Guests]
ASSUME EngineBoundsAssumption ==
  /\ MaxPlayers = 2 /\ Length \in Nat \ {0} /\ MaxHp \in Nat \ {0}
  /\ MaxKeys \in Nat /\ MaxRound \in Nat \ {0} /\ MaxRestarts \in Nat
ASSUME PromptsAssumption ==
  /\ "standard" \in Categories
  /\ \A k \in Categories : PromptsIn[k] # {} /\ NoPrompt \notin PromptsIn[k]
ASSUME EngineRulesAssumption ==
  "race" \in Rules /\ Rules \subseteq {"race", "timeAttack", "hpBattle"}

VARIABLES
  room,         \* rooms: code -> room, NoRoom when the map has no such key
  socketIndex,  \* socket -> <<code, guest>>, or NoEntry
  restarts,
  slips,        \* history: what callers have done since the last restart that the
                \* engine does not look at
  played        \* history: the prompts of a room's countdowns, see NotePlayed

maps == <<room, socketIndex>>
vars == <<room, socketIndex, restarts, slips, played>>

Ids      == Guests \cup {Bot}
Statuses == {"waiting", "countdown", "playing", "finished"}
Finishes == {"none", "finished", "unfinished", "eliminated", "forfeited"}
Prompts  == UNION {PromptsIn[k] : k \in Categories}
Open     == {c \in Codes : room[c] # NoRoom}

RoomRecord ==
  [status : Statuses, rule : Rules, category : Categories, round : 1..MaxRound,
   prompt : Prompts \cup {NoPrompt}, history : SUBSET Prompts,
   players : SUBSET Ids, host : Ids, connected : SUBSET Guests, ready : SUBSET Guests,
   away : SUBSET Guests, late : SUBSET Guests, forfeited : SUBSET Guests,
   finish : [Ids -> Finishes], progress : [Ids -> 0..Length], hp : [Ids -> 0..MaxHp],
   socket : [Guests -> SUBSET Sockets], ends : {"none", "ahead", "passed"},
   sudden : BOOLEAN, result : BOOLEAN, idle : BOOLEAN]

ASSUME NoneAssumption == NoEntry \notin Codes \X Guests /\ NoRoom \notin RoomRecord

-----------------------------------------------------------------------------
(* Functions of a room. *)

Humans(r) == r.players \ {Bot}

\* A fresh match state for everybody (resetPlayers); the COM player is never
\* disconnected, so `connected' and `away' only hold humans.
Reset(r) ==
  [r EXCEPT !.ready = {}, !.forfeited = {},
            !.finish = [i \in Ids |-> "none"], !.progress = [i \in Ids |-> 0],
            !.hp = [i \in Ids |-> IF r.rule = "hpBattle" THEN MaxHp ELSE 0]]

\* Mutant: the room forgets what it has played
AbortedForgets(r) ==
  Reset([r EXCEPT !.status = "waiting", !.prompt = NoPrompt, !.history = {},
                  !.ends = "none", !.sudden = FALSE, !.result = FALSE, !.idle = FALSE])

\* abortCountdown: who is away since when is preserved
Aborted(r) ==
  Reset([r EXCEPT !.status = "waiting", !.prompt = NoPrompt, !.ends = "none",
                  !.sudden = FALSE, !.result = FALSE, !.idle = FALSE])

\* What selectPromptFromPool can return, for some seed
Selectable(r) ==
  LET all    == PromptsIn[r.category]
      unseen == all \ r.history
      pool   == IF unseen # {} THEN unseen ELSE all
  IN IF Cardinality(pool) > 1 THEN pool \ {r.prompt} ELSE pool

\* The room in its countdown: setReady, startMatch and rematch end alike
Begun(r, n, p) ==
  LET q == [r EXCEPT !.players = IF Cardinality(@) < MaxPlayers THEN @ \cup {Bot} ELSE @,
                     !.status = "countdown", !.round = n, !.prompt = p,
                     !.history = @ \cup {p},
                     !.ends = IF r.rule = "race" THEN "none" ELSE "ahead",
                     !.sudden = FALSE, !.result = FALSE]
  IN [Reset(q) EXCEPT !.away = {}, !.late = {}]

\* finalizeRoom; whether somebody's grace has passed is not asked any more
Finalized(r) == [r EXCEPT !.status = "finished", !.result = TRUE, !.late = {}]

\* finalizeUnfinishedBots, finalizeUnfinishedRacePlayers
Unfinished(r, who) ==
  [r EXCEPT !.finish = [i \in Ids |->
     IF i \in who /\ r.progress[i] < Length /\ (i = Bot \/ @[i] # "finished")
     THEN "unfinished" ELSE @[i]]]

\* areHumansFinished
HumansDone(r) ==
  CASE r.rule = "timeAttack" -> FALSE
    [] r.rule = "hpBattle"   -> \A g \in Humans(r) : g \in r.forfeited \/ r.hp[g] = 0
    [] r.rule = "race"       -> \A g \in Humans(r) : g \in r.forfeited \/ r.progress[g] >= Length

\* maybeFinalizeRoom, and the check that follows it in advanceBot and finishTyping
Settled(r) ==
  IF r.rule = "timeAttack" THEN r
  ELSE IF r.rule = "hpBattle" /\ \E i \in r.players : r.hp[i] = 0 THEN Finalized(r)
  ELSE IF r.rule = "race" /\ \E i \in r.players : r.finish[i] = "finished"
  THEN Finalized(Unfinished(r, r.players))
  ELSE IF HumansDone(r) THEN Finalized(Unfinished(r, {Bot})) ELSE r

\* applyHpDamage to the players in `who'
Damaged(r, who, n) ==
  LET left(i) == IF i \in who THEN r.hp[i] - (IF r.sudden THEN 2 * n ELSE n) ELSE r.hp[i]
      hit(i)  == i \in who /\ n > 0 /\ r.hp[i] > 0
  IN [r EXCEPT
        !.hp = [i \in Ids |-> IF left(i) > 0 THEN left(i) ELSE IF hit(i) THEN 0 ELSE r.hp[i]],
        !.finish = [i \in Ids |-> IF hit(i) /\ left(i) <= 0 THEN "eliminated" ELSE @[i]]]

\* applyProgress and applyBotProgress: d correct keys and w unguarded mistakes.
\* What is typed in a time attack is read by its ranking alone: left out.
Typed(r, i, d, w) ==
  LET n == r.progress[i] + d IN
  CASE r.rule = "timeAttack" -> r
    [] r.rule = "hpBattle" ->
         Damaged(Damaged([r EXCEPT !.progress[i] = n % Length], r.players \ {i}, d), {i}, w)
    [] r.rule = "race" ->
         [r EXCEPT !.progress[i] = IF n > Length THEN Length ELSE n,
                   !.finish[i] = IF n >= Length /\ @ # "finished" THEN "finished" ELSE @]

\* applyBotProgress: as a player's message, with either progress or a mistake
BotTyped(r, d, w) == Typed(r, Bot, d, w)

\* ensureConnectedHost: a COM player that hosts keeps the role
EnsuredHosts(r) ==
  IF r.host \in r.connected \/ r.host = Bot THEN {r.host}
  ELSE IF r.connected # {} THEN r.connected
  ELSE IF Bot \in r.players THEN {Bot} ELSE {r.host}

\* The rooms that leaveBySocket can leave behind
Left(r, g) ==
  LET q == [r EXCEPT !.connected = @ \ {g}, !.ready = @ \ {g}, !.away = @ \cup {g},
                     !.late = @ \ {g}, !.idle = FALSE]
      after == IF r.status = "countdown" THEN Aborted(q) ELSE q
      next == IF g # r.host THEN {r.host}
              ELSE IF q.connected # {} THEN q.connected
              ELSE IF Bot \in q.players THEN {Bot} ELSE {r.host}
  IN {[after EXCEPT !.host = h] : h \in next}

-----------------------------------------------------------------------------
(* Who is in the room. *)

\* getContext: the entry of the socket must be for the room it names, and the
\* player must still be there.
Speaks(s, c) == /\ c \in Open /\ socketIndex[s] = <<c, Owner[s]>>
                /\ Owner[s] \in room[c].players
Hosts(s, c)  == Speaks(s, c) /\ Owner[s] = room[c].host

\* What the engine leaves to its callers when socket s sits down in room c:
\* that no other entry is left from an earlier room of that code, and that no
\* seat of another room still names the socket.
StaleCode(s, c) ==
  \E t \in Sockets \ {s} : socketIndex[t] # NoEntry /\ socketIndex[t][1] = c
SecondRoom(s, c) ==
  \E d \in Open \ {c} : \E g \in Guests : s \in room[d].socket[g]
SitsDown(s, c) == slips' = slips \cup IF SecondRoom(s, c) THEN {"secondRoom"} ELSE {}

\* createUniqueRoomCode looks at the rooms there are, and at nothing else
CreateRoom(s) ==
  \E c \in Codes \ Open :
    /\ slips' = slips \cup (IF StaleCode(s, c) THEN {"staleCode"} ELSE {})
                     \cup (IF SecondRoom(s, c) THEN {"secondRoom"} ELSE {})
    /\ room' = [room EXCEPT ![c] =
         [status |-> "waiting", rule |-> "race", category |-> "standard",
          host |-> Owner[s], round |-> 1, prompt |-> NoPrompt, history |-> {},
          players |-> {Owner[s]}, connected |-> {Owner[s]}, ready |-> {},
          away |-> {}, late |-> {}, forfeited |-> {},
          finish |-> [i \in Ids |-> "none"], progress |-> [i \in Ids |-> 0],
          hp |-> [i \in Ids |-> 0],
          socket |-> [g \in Guests |-> IF g = Owner[s] THEN {s} ELSE {}],
          ends |-> "none", sudden |-> FALSE, result |-> FALSE, idle |-> FALSE]]
    /\ socketIndex' = [socketIndex EXCEPT ![s] = <<c, Owner[s]>>]
    /\ UNCHANGED restarts

\* Mutant: the entry of the replaced socket stays
RejoinBeside(s, c) ==
  LET g == Owner[s]
      q == [room[c] EXCEPT !.connected = @ \cup {g}, !.away = @ \ {g}, !.late = @ \ {g},
                           !.socket[g] = {s}, !.idle = FALSE]
  IN /\ c \in Open /\ g \in room[c].players
     /\ \E h \in EnsuredHosts(q) : room' = [room EXCEPT ![c] = [q EXCEPT !.host = h]]
     /\ socketIndex' = [socketIndex EXCEPT ![s] = <<c, g>>]
     /\ SitsDown(s, c) /\ UNCHANGED restarts

\* joinRoom of a player who has a seat: the socket of the seat is replaced
Rejoin(s, c) ==
  LET g == Owner[s]
      q == [room[c] EXCEPT !.connected = @ \cup {g}, !.away = @ \ {g}, !.late = @ \ {g},
                           !.socket[g] = {s}, !.idle = FALSE]
  IN /\ c \in Open /\ g \in room[c].players
     /\ \E h \in EnsuredHosts(q) : room' = [room EXCEPT ![c] = [q EXCEPT !.host = h]]
     /\ socketIndex' = [t \in Sockets |->
          IF t = s THEN <<c, g>>
          ELSE IF t \in room[c].socket[g] THEN NoEntry ELSE socketIndex[t]]
     /\ SitsDown(s, c) /\ UNCHANGED restarts

JoinRoom(s, c) ==
  LET g == Owner[s]
      q == [room[c] EXCEPT !.players = @ \cup {g}, !.connected = @ \cup {g},
                           !.away = @ \ {g}, !.late = @ \ {g}, !.ready = @ \ {g},
                           !.progress[g] = 0, !.finish[g] = "none", !.hp[g] = 0,
                           !.socket[g] = {s}, !.idle = FALSE]
  IN /\ c \in Open /\ g \notin room[c].players
     /\ room[c].status = "waiting" /\ Cardinality(room[c].players) < MaxPlayers
     /\ \E h \in EnsuredHosts(q) : room' = [room EXCEPT ![c] = [q EXCEPT !.host = h]]
     /\ socketIndex' = [socketIndex EXCEPT ![s] = <<c, g>>]
     /\ SitsDown(s, c) /\ UNCHANGED restarts

\* The other ends of joinRoom: another session holds the seat, the match has
\* begun, the room is full.  The room counts as active all the same (if it
\* does already, nothing changes).
RefuseJoin(s, c) ==
  /\ c \in Open /\ room[c].idle
  /\ \/ Owner[s] \in room[c].players
     \/ room[c].status # "waiting"
     \/ Cardinality(room[c].players) >= MaxPlayers
  /\ room' = [room EXCEPT ![c].idle = FALSE]
  /\ UNCHANGED <<socketIndex, restarts, slips>>

\* leaveBySocket; the entry goes even if the room or the player is gone
LeaveBySocket(s) ==
  LET e == socketIndex[s] IN
  /\ e # NoEntry
  /\ socketIndex' = [socketIndex EXCEPT ![s] = NoEntry]
  /\ IF e[1] \notin Open THEN UNCHANGED room
     ELSE IF e[2] \in room[e[1]].players
     THEN \E q \in Left(room[e[1]], e[2]) : room' = [room EXCEPT ![e[1]] = q]
     ELSE room' = [room EXCEPT ![e[1]] =
            IF @.status = "countdown" THEN Aborted(@) ELSE [@ EXCEPT !.idle = FALSE]]
  /\ UNCHANGED <<restarts, slips>>

\* explicitLeaveBySocket outside a match: the seat is given up, and the last
\* to leave takes the room along.
ExplicitLeave(s) ==
  LET e == socketIndex[s]
      r == room[e[1]]
      left == r.players \ {e[2]}
  IN /\ e # NoEntry /\ e[1] \in Open /\ r.status \in {"waiting", "finished"}
     /\ socketIndex' = [socketIndex EXCEPT ![s] = NoEntry]
     /\ IF left = {} THEN room' = [room EXCEPT ![e[1]] = NoRoom]
        ELSE \E h \in IF e[2] # r.host THEN {r.host}
                      ELSE IF left \ {Bot} # {} THEN left \ {Bot} ELSE {Bot} :
               room' = [room EXCEPT ![e[1]] =
                 [r EXCEPT !.players = left, !.host = h, !.idle = FALSE,
                           !.connected = @ \ {e[2]}, !.ready = @ \ {e[2]},
                           !.away = @ \ {e[2]}, !.late = @ \ {e[2]},
                           !.forfeited = @ \ {e[2]}, !.socket[e[2]] = {},
                           !.finish[e[2]] = "none", !.progress[e[2]] = 0,
                           !.hp[e[2]] = 0]]
     /\ UNCHANGED <<restarts, slips>>

-----------------------------------------------------------------------------
(* Settings and the start of a match. *)

\* setPromptCategory; setBotDifficulty changes as much of this model, or less
SetPromptCategory(s, c) ==
  /\ Hosts(s, c) /\ room[c].status \in {"waiting", "finished"}
  /\ \E k \in Categories :
       room' = [room EXCEPT ![c].category = k, ![c].ready = {}]
  /\ UNCHANGED <<socketIndex, restarts, slips>>

\* setMatchRule and syncMatchRuleState
SetMatchRule(s, c) ==
  /\ Hosts(s, c) /\ room[c].status \in {"waiting", "finished"}
  /\ \E k \in Rules :
       room' = [room EXCEPT ![c].rule = k, ![c].ready = {}, ![c].ends = "none",
                            ![c].sudden = FALSE]
  /\ UNCHANGED <<socketIndex, restarts, slips>>

\* setReady; the last READY of a finished room starts the next round
SetReady(s, c) ==
  /\ Speaks(s, c) /\ room[c].status \in {"waiting", "finished"}
  /\ \E on \in BOOLEAN :
       LET q == [room[c] EXCEPT !.ready = IF on THEN @ \cup {Owner[s]} ELSE @ \ {Owner[s]}]
       IN IF q.status = "finished" /\ Humans(q) \subseteq q.ready \cap q.connected
          THEN /\ q.round < MaxRound
               /\ \E p \in Selectable(q) : room' = [room EXCEPT ![c] = Begun(q, q.round + 1, p)]
          ELSE room' = [room EXCEPT ![c] = q]
  /\ UNCHANGED <<socketIndex, restarts, slips>>

StartMatch(s, c) ==
  /\ Hosts(s, c) /\ room[c].status = "waiting"
  /\ Humans(room[c]) \subseteq room[c].connected \cap room[c].ready
  /\ \E p \in Selectable(room[c]) :
       room' = [room EXCEPT ![c] = Begun(room[c], room[c].round, p)]
  /\ UNCHANGED <<socketIndex, restarts, slips>>

Rematch(s, c) ==
  /\ Hosts(s, c) /\ room[c].status = "finished" /\ room[c].round < MaxRound
  /\ Humans(room[c]) \subseteq room[c].connected
  /\ \E p \in Selectable(room[c]) :
       room' = [room EXCEPT ![c] = Begun(room[c], room[c].round + 1, p)]
  /\ UNCHANGED <<socketIndex, restarts, slips>>

\* markPlaying, called when the countdown is over
MarkPlaying(c) ==
  /\ c \in Open /\ room[c].status = "countdown"
  /\ room' = [room EXCEPT ![c] =
       IF Humans(@) = {} \/ ~(Humans(@) \subseteq @.connected) THEN Aborted(@)
       ELSE [@ EXCEPT !.status = "playing"]]
  /\ UNCHANGED <<socketIndex, restarts, slips>>

-----------------------------------------------------------------------------
(* The match. *)

Expired(r) == r.rule = "timeAttack" /\ r.ends = "passed"

\* updateProgress; a player who has forfeited and returned may type again
UpdateProgress(s, c) ==
  /\ Speaks(s, c) /\ room[c].status = "playing"
  /\ \E d \in 0..MaxKeys, w \in 0..MaxKeys :
       /\ d + w > 0
       /\ room' = [room EXCEPT ![c] = IF Expired(@) THEN Finalized(@)
                                      ELSE Settled(Typed(@, Owner[s], d, w))]
  /\ UNCHANGED <<socketIndex, restarts, slips>>

\* finishTyping: it marks a player at the end of the prompt as finished again
FinishTyping(s, c) ==
  /\ Speaks(s, c) /\ room[c].status = "playing"
  /\ \E d \in 1..MaxKeys :
       LET t == Typed(room[c], Owner[s], d, 0)
       IN room' = [room EXCEPT ![c] =
            IF Expired(@) THEN Finalized(@)
            ELSE IF @.rule = "timeAttack" \/ t.progress[Owner[s]] < Length THEN Settled(t)
            ELSE Settled([t EXCEPT !.finish[Owner[s]] = "finished"])]
  /\ UNCHANGED <<socketIndex, restarts, slips>>

AdvanceBot(c) ==
  /\ c \in Open /\ room[c].status = "playing" /\ Bot \in room[c].players
  /\ \E d \in 0..MaxKeys, w \in 0..MaxKeys :
       /\ (d > 0) # (w > 0)
       /\ room' = [room EXCEPT ![c] = IF Expired(@) THEN Finalized(@)
                                      ELSE Settled(BotTyped(@, d, w))]
  /\ UNCHANGED <<socketIndex, restarts, slips>>

\* Mutant: the match is not ended with the last human
ForfeitOnly(r) ==
  LET gone == (r.late \cap Humans(r)) \ r.forfeited
  IN [r EXCEPT !.forfeited = @ \cup gone,
               !.finish = [i \in Ids |-> IF i \in gone THEN "forfeited" ELSE @[i]]]

\* Only rooms in their match, and only players not forfeited before
Forfeit(r) ==
  LET gone == (r.late \cap Humans(r)) \ r.forfeited
      q == [r EXCEPT !.forfeited = @ \cup gone,
                     !.finish = [i \in Ids |-> IF i \in gone THEN "forfeited" ELSE @[i]]]
  IN IF gone # {} /\ HumansDone(q) THEN Finalized(Unfinished(q, {Bot})) ELSE q

CheckForForfeits ==
  /\ \E c \in Open : room[c].status = "playing" /\ Forfeit(room[c]) # room[c]
  /\ room' = [c \in Codes |-> IF c \in Open /\ room[c].status = "playing"
                              THEN Forfeit(room[c]) ELSE room[c]]
  /\ UNCHANGED <<socketIndex, restarts, slips>>

\* checkExpiredTimeAttackMatches: a tie in an HP battle has no deadline any more
TimeUp(r) ==
  IF r.rule = "hpBattle" /\ \A i, j \in r.players : r.hp[i] = r.hp[j]
  THEN [r EXCEPT !.sudden = TRUE, !.ends = "none"]
  ELSE Finalized(Unfinished(r, {Bot}))

CheckExpired ==
  LET due == {c \in Open : room[c].status = "playing" /\ room[c].ends = "passed"}
  IN /\ due # {}
     /\ room' = [c \in Codes |-> IF c \in due THEN TimeUp(room[c]) ELSE room[c]]
     /\ UNCHANGED <<socketIndex, restarts, slips>>

-----------------------------------------------------------------------------
(* The end of a room. *)

\* Mutant: a single absent player makes a room abandoned
DisposableEarly(r) ==
  r.idle /\ (r.status \in {"waiting", "finished"} \/ ~(Humans(r) \subseteq r.connected))

\* cleanupExpiredRooms: the COM player counts as connected
Abandoned(r)  == r.connected = {} /\ Bot \notin r.players
Disposable(r) == r.idle /\ (r.status \in {"waiting", "finished"} \/ Abandoned(r))

CleanupExpiredRooms ==
  /\ \E c \in Open : Disposable(room[c])
  /\ room' = [c \in Codes |-> IF c \in Open /\ Disposable(room[c]) THEN NoRoom ELSE room[c]]
  /\ UNCHANGED <<socketIndex, restarts, slips>>

\* The part of a room that toPublicRoom and toPublicPlayers carry over to
\* restoreRoomState: who is connected stays so, but nobody has a socket (the
\* field gets the player's own id) or a disconnectedAt, only the current prompt
\* is remembered and the rounds are counted from one again.
PublicRoom(r) ==
  [r EXCEPT !.round = 1, !.history = {r.prompt} \ {NoPrompt},
            !.away = {}, !.late = {}, !.idle = FALSE,
            !.socket = [g \in Guests |-> {}]]

\* The server restarts with empty maps and restores each of its rooms
Restore ==
  /\ restarts < MaxRestarts /\ Open # {}
  /\ restarts' = restarts + 1
  /\ room' = [c \in Codes |-> IF c \in Open THEN PublicRoom(room[c]) ELSE NoRoom]
  /\ socketIndex' = [s \in Sockets |-> NoEntry]
  /\ slips' = {}

-----------------------------------------------------------------------------
(* Time. *)

\* DISCONNECT_GRACE_MS since a player's disconnectedAt; a match begins with
\* nobody away
GraceElapses(c) ==
  /\ c \in Open /\ room[c].status = "playing"
  /\ \E g \in room[c].away \ room[c].late : room' = [room EXCEPT ![c].late = @ \cup {g}]
  /\ UNCHANGED <<socketIndex, restarts, slips>>

\* ROOM_TTL_MS since lastActivityAt: longer than the grace of whoever left
IdleElapses(c) ==
  /\ c \in Open /\ ~room[c].idle
  /\ room[c].status = "playing" => room[c].away = room[c].late
  /\ room' = [room EXCEPT ![c].idle = TRUE]
  /\ UNCHANGED <<socketIndex, restarts, slips>>

MatchTimeElapses(c) ==
  /\ c \in Open /\ room[c].status = "playing" /\ room[c].ends = "ahead"
  /\ room' = [room EXCEPT ![c].ends = "passed"]
  /\ UNCHANGED <<socketIndex, restarts, slips>>

-----------------------------------------------------------------------------
Init ==
  /\ room = [c \in Codes |-> NoRoom]
  /\ socketIndex = [s \in Sockets |-> NoEntry]
  /\ restarts = 0 /\ slips = {} /\ played = [c \in Codes |-> {}]

\* Kept from outside: the prompts a room has begun a countdown with since it was
\* created or restored.  No function of the engine reads it.
NotePlayed ==
  played' = [c \in Codes |->
    IF room'[c] = NoRoom THEN {}
    ELSE IF restarts' # restarts THEN {room'[c].prompt} \ {NoPrompt}
    ELSE IF room[c] # NoRoom /\ room[c].status # "countdown" /\ room'[c].status = "countdown"
    THEN played[c] \cup {room'[c].prompt} ELSE played[c]]

Step ==
  \/ \E s \in Sockets : CreateRoom(s) \/ LeaveBySocket(s) \/ ExplicitLeave(s)
  \/ \E s \in Sockets, c \in Codes :
       \/ Rejoin(s, c) \/ JoinRoom(s, c) \/ RefuseJoin(s, c)
       \/ SetPromptCategory(s, c) \/ SetMatchRule(s, c) \/ SetReady(s, c)
       \/ StartMatch(s, c) \/ Rematch(s, c)
       \/ UpdateProgress(s, c) \/ FinishTyping(s, c)
  \/ \E c \in Codes : \/ MarkPlaying(c) \/ AdvanceBot(c)
                      \/ GraceElapses(c) \/ IdleElapses(c) \/ MatchTimeElapses(c)
  \/ CheckForForfeits \/ CheckExpired \/ CleanupExpiredRooms \/ Restore

Next == Step /\ NotePlayed

Spec == Init /\ [][Next]_vars

\* The server calls the periodic functions that end a match while they have work,
\* and time passes.  Nothing is assumed of players, the COM player or the cleanup.
Fairness ==
  /\ \A c \in Codes : /\ WF_maps(MarkPlaying(c)) /\ WF_maps(GraceElapses(c))
                      /\ WF_maps(MatchTimeElapses(c))
  /\ WF_maps(CheckForForfeits) /\ WF_maps(CheckExpired)

FairSpec == Spec /\ Fairness

-----------------------------------------------------------------------------
(* Properties. *)

\* Who sits at the table: one of them is the host, and only humans are
\* connected, away, ready or out of the match.
Seated(r) ==
  /\ r.players # {} /\ Cardinality(r.players) <= MaxPlayers /\ r.host \in r.players
  /\ r.connected \subseteq Humans(r) /\ r.away \subseteq Humans(r) \ r.connected
  /\ r.late \subseteq r.away /\ r.ready \subseteq Humans(r)
  /\ r.forfeited \subseteq Humans(r) /\ r.prompt \in r.history \cup {NoPrompt}

\* The maps hold what the functions expect of them.
TypeOK ==
  /\ room \in [Codes -> RoomRecord \cup {NoRoom}]
  /\ socketIndex \in [Sockets -> (Codes \X Guests) \cup {NoEntry}]
  /\ restarts \in 0..MaxRestarts /\ slips \subseteq {"staleCode", "secondRoom"}
  /\ played \in [Codes -> SUBSET Prompts]
  /\ \A c \in Open : Seated(room[c])

\* The two maps agree: a connected player is spoken for by exactly the socket
\* its seat names, and a socket speaks for nobody else.  Otherwise a player
\* could neither act nor be noticed to leave, or act after being replaced.  A
\* connected player on no socket at all has come with a restored room.  The
\* engine keeps the maps so unless a caller slips: a code drawn again under a
\* leftover entry, a socket seated in a second room.
IndexAgrees ==
  \A c \in Open, s \in Sockets :
    \/ socketIndex[s] = NoEntry
    \/ socketIndex[s][1] # c
    \/ /\ socketIndex[s][2] \in room[c].connected
       /\ room[c].socket[socketIndex[s][2]] = {s}
ConnectedIsReachable ==
  \A c \in Open : \A g \in room[c].connected :
    \/ \E s \in Sockets : room[c].socket[g] = {s} /\ socketIndex[s] = <<c, g>>
    \/ room[c].socket[g] = {} /\ restarts > 0
IndexInv == /\ "staleCode" \notin slips => IndexAgrees
            /\ slips = {} => ConnectedIsReachable

\* A match has what it needs to end, and ends as soon as it is decided: it has
\* a prompt and two players, a deadline exactly under the rules that have one
\* (an HP battle until it goes to sudden death), and no winner, no eliminated
\* player and no table full of forfeits yet.  A result is there exactly when
\* the match is over.
MatchFits(r) ==
  /\ r.result <=> r.status = "finished"
  /\ r.status \in {"countdown", "playing"} =>
       /\ r.prompt # NoPrompt /\ Cardinality(r.players) = MaxPlayers
       /\ Humans(r) # {}
       /\ (r.ends = "none") <=> (r.rule = "race" \/ r.sudden)
       /\ r.sudden => r.rule = "hpBattle"
  /\ r.status = "waiting" => r.ends = "none" /\ r.forfeited = {}
  /\ r.status = "playing" =>
       /\ ~HumansDone(r)
       /\ r.rule = "race" => \A i \in r.players : r.finish[i] # "finished"
       /\ r.rule = "hpBattle" => \A i \in r.players : r.hp[i] > 0
MatchInv == \A c \in Open : MatchFits(room[c])

\* The three together, in every reachable state of the maps.
EngineInv == TypeOK /\ IndexInv /\ MatchInv

\* A match starts with all its players at the table, and, until it is decided,
\* is only given up when they have all gone.
MatchIsHeld ==
  [][\A c \in Open :
       /\ room[c].status = "countdown" /\ room'[c] # NoRoom /\ room'[c].status = "playing"
            => Humans(room[c]) \subseteq room[c].connected
       /\ room[c].status = "playing" /\ room'[c] = NoRoom => room[c].connected = {}]_vars

\* A room begins no countdown with a prompt it has begun one with before, called
\* off or not, while its category has another, unless it was restored in
\* between: restoreRoomState remembers the current prompt only.
PromptsAreFresh ==
  [][\A c \in Open :
       room[c].status # "countdown" /\ room'[c] # NoRoom /\ room'[c].status = "countdown"
         => \/ room'[c].prompt \notin played[c]
            \/ PromptsIn[room[c].category] \subseteq played[c]]_vars

\* A match that everybody has left ends or is given up, unless somebody
\* returns or a restart makes the server forget when they left.
LeftMatchEnds ==
  \A c \in Codes :
    LET left == /\ room[c] # NoRoom /\ room[c].status \in {"countdown", "playing"}
                /\ Humans(room[c]) = room[c].away
    IN left ~> ~left

=============================================================================
