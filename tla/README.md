# Verification of type-battle

TLA+ models of the parts of type-battle that keep state: the Durable Object that
owns a room, its persistence and recovery, the rules of a match, the typing of a
player in the browser and on the server, the WebSocket client, the page's session
with the server, the gateway, the shared room engine, and the player's records in
the browser. TLC checks them on small instances; TLAPS proves, for every value
of the constants, the safety of the room authority, its refinement of the
lifecycle of a room, its recovery, and the safety of the match, of typing, of the
realtime client, of the gateway, of the page's session, of the shared room engine
and of the player's records.

    tlc -workers 2 -config MCRoomRules.cfg MCRoomAuthority
    tlapm RoomAuthorityProofs.tla
    tlapm MatchPlayProofs.tla
    tlapm TypingSyncProofs.tla
    tlapm RealtimeClientProofs.tla
    tlapm RealtimeGatewayProofs.tla
    tlapm PageSessionProofs.tla
    tlapm LocalRecordsProofs.tla
    tlapm RoomEngineProofs.tla

`PROJECT.json` maps every definition to the source lines it stands for, lists
the runs, the hazards and the theorems, and gives for each property a mutant of
a definition, a plausible bug, that the property detects. A definition marked
"Mutant" in a module is such a bug; no specification uses it.

## 1. The system

| Component | State | Operations | Interacts with |
|---|---|---|---|
| Room authority (`room-authority.ts`) | `room`, `sockets`, `socketStates`, timers, `socketEventChain`, `lastFinalizedNotificationKey` | create, join, leave, ready, settings, start, rematch, typing; socket close; alarm; countdown and COM timers | browser over WebSocket, gateway over fetch, storage |
| Persistence of the room (same file) | snapshot, guest sessions, match results | `persistRoom`, debounced persist, `restoreRoom`, retention | storage, alarm |
| Match rules (`applyTypingInput`, `applyHpDamage`, `scoring.ts`) | HP, guards, typing budget, elimination, sudden death | a message, a COM tick, a deadline, the ranking | room authority |
| Romaji typing (`romaji-typing.ts`, `looping-typing.ts`, `typing-input-strategy.ts`, `time-attack.ts`) | position in kana, position in the guide, pending letters, input mode, on both sides | a key in kana or romaji, a change of mode, a lap, the next text | page, room authority |
| Typing synchronisation (`page.tsx`, `reconcile-room-progress.ts`, `typing-message-batch.ts`) | `localProgress`, input sequence; `player` progress, last sequence | keystroke, broadcast, rejoin | browser and room authority |
| Realtime client (`realtime-client.ts`) | pending answers, outbound queue, WebSocket, reconnect timer | emit, disconnect, open, message, close, timeouts | page (callbacks), room authority |
| Session of the page (`page.tsx`, `room-reconnect.ts`, `room-state-order.ts`) | current socket, room and result on the screen, stored room, attempts, retry timer, what is pending | create, join, leave, practice, retry, reload; connect, disconnect, snapshots | realtime client, `localStorage` |
| Realtime gateway (`realtime-gateway.ts`) | sockets, idle timers, event chain; persisted rate limits, cleanup alarm | attach, message, close, idle timeout; check, clean up | browser, room authority over fetch, storage |
| Shared room engine (`room-engine.ts`, `room-engine-progress.ts`) | `rooms`, `socketIndex` | as the room authority, as synchronous functions of a server with many rooms | its tests, which take the part of the server |
| Local records (`cosmetic-progress.ts`, `daily-challenge.ts`, `page.tsx`) | coins, cosmetics, claimed rewards; record of each day | practice, daily challenge, match result, purchase | `localStorage`, other tabs |
| Mobile input, matchmaking queue, socket hub, routing, wire protocol, prompts, user interface | see section 6 | | |

How they interact. A browser opens a WebSocket; the worker routes it to the
Durable Object of the room code. Messages, close events and the alarm become
jobs of one promise chain, `socketEventChain`. The countdown timer, the COM
timer, the timeout of unjoined sockets and new upgrade requests run beside the
chain, so they run at each `await` of a job: the rate limiter of the gateway in
a create or join, storage in the four parts of `runMaintenance`. Every change is
persisted best-effort and broadcast. The page holds one socket at a time, to
the gateway for practice or to a room, and replaces it when the player moves on;
answers to requests of earlier sockets still arrive.

What is hard, and what makes each part correct (the hazards in `PROJECT.json`
give the lines):

* Room authority: joins suspended at the rate limiter whose socket dies
  meanwhile; a rejoin that replaces a socket whose close event comes later;
  four ways to end the same match; timers that fire after what they were armed
  for has gone; maintenance that removes players while others come back. It is
  correct when a player is connected exactly through one socket, the host can
  act, seats are neither doubled nor lost, matches start complete, each round
  has one result that is announced once, forfeits are earned, and nothing
  waits for ever for a player who is gone.
* Persistence: a crash between any two steps, writes that fail, timers that do
  not survive. It is correct when the stored room is the room, whatever is
  restored is sound, and what was going on still ends.
* Romaji typing: the same text is followed in two coordinates on two sides, one
  kana has several spellings, two kana one spelling, and the player may change
  between kana and romaji anywhere. It is correct when both sides are at the
  same place, no place is a dead end, and a character counts once.
* Typing: optimistic progress, late broadcasts, lost keystrokes, sequence
  numbers that start again. It is correct when keystrokes count once and in
  order and both sides agree when nothing is in flight.
* Realtime client: callbacks that call back in, answers that meet timeouts, the
  end of the connection or an overflow. It is correct when each request is
  answered once, nothing reported as failed is sent later, and it reconnects
  unless the session is over.
* Session of the page: events of sockets that were let go, joins of three kinds,
  a retry timer beside the transport's own reconnect. It is correct when two
  rooms are never mixed, an older snapshot does not undo a newer one, and
  coming back to a room ends.
* Gateway: places freed in many ways, windows at their boundary, an alarm that
  may be late. It is correct when limits hold, places come free and records go.
* Room engine: two maps that point at each other; a server that may call the
  functions in any order. It is correct when the maps agree and matches end.
* Local records: tabs with copies of their own, a timer that races the end of a
  run, midnight. It is correct when coins are earned and the best is kept.

## 2. Modules

| Module | What it is |
|---|---|
| `RoomAuthority` | the Durable Object: every handler of sockets, timers and the alarm that changes the room, the sockets, the chain with its awaits, time |
| `RoomLifecycle` | what a room promises its players: seats, connections, host, rounds; no sockets, timers, jobs or COM player |
| `RoomRefinement` | `RoomAuthority` implements `RoomLifecycle` (INSTANCE with a refinement mapping) |
| `RoomRecovery` | `RoomAuthority` with storage: which step persists, failed writes, crashes, restore |
| `MatchPlay` | one match: keys, budget, HP, COM player, deadline, sudden death, ranking |
| `RomajiTyping` | one player's text in kana and romaji, in the browser and on the server |
| `TypingSync` | one player's browser and the room authority: keystrokes, broadcasts, lost and replaced connections |
| `RealtimeClient` | one `RealtimeSocket`: requests, queue, reconnects, calls from within callbacks |
| `PageSession` | the page: its sockets, the room on the screen, the room to come back to |
| `RealtimeGateway` | the gateway: practice sockets; rate limits of the rooms |
| `RoomEngine` | the shared engine: rooms, socket index, matches, cleanup, restore |
| `LocalRecords` | tabs over one `localStorage`: coins, cosmetics, daily challenges |
| `RoomAuthorityProofs` | the inductive invariant of `RoomAuthority`, with its proof; its steps, rounds and seats; the refinement of `RoomLifecycle`; what a snapshot keeps of the room, and that a restored room is sound |
| `MatchPlayProofs` | bounds, budget, end and winner of a match |
| `TypingSyncProofs` | what is on its way between browser and room authority, and that it is counted once |
| `RealtimeClientProofs` | what is owed to the application, and what may still be sent |
| `RealtimeGatewayProofs` | places of the practice sockets; buckets, windows and alarms of the rate limits |
| `PageSessionProofs` | what the page is owed, what it keeps of a room, and that it waits for something |
| `LocalRecordsProofs` | sums over finite sets; earned progress, records and limits of the days |
| `RoomEngineProofs` | what each function of the engine makes of a room; the rooms of the map; the socket index, and who can be reached |
| `MC*` | small instances for TLC |

### RoomAuthority and the code

`status`, `rule`, `round`, `host`, `result`, `suddenDeath` are the fields of
`room`; `players`, `connected`, `ready`, `forfeited` are the sets of players
whose flag is true; `away` are those with a `disconnectedAt`; `socketId` is
`player.socketId` and `socketPlayer` is `socketStates`. `job` says where the
chain is suspended: `create` and `join` in `checkRoomRequestRateLimit`,
`players`, `forfeits` and `expiry` between the parts of `runMaintenance`;
`idle` between jobs. A handler that does not wait before it changes the room is
one action, with its guards, its forfeits, finalisation, timers and
`touchActivity` included. `closing` holds the queued `disconnectSocket` jobs,
those of close events and those a failed send queues.

Time is abstracted to flags: `overdue` (away for `DISCONNECT_GRACE_MS`),
`idle`, `aged`, `matchEnds`. The actions of the section on time set them at any
moment, the code's assignments of the timestamps clear them. What is typed is
abstracted to whether the message decides the match (`TypingDecides`) or not
(`TypingCounts`). Left out because they only change counters of their own:
reactions, the control-command budget, the number of sockets per address.

Maintenance may start whenever the chain is idle, although the code starts it
from the alarm, a fallback timer, or a request: that is more behaviour than the
code has for safety, and for liveness the alarm is set to the earliest of the
deadlines the model keeps.

`Spec` assumes peers that keep to the 16 KB message limit. `OversizedSpec` drops
the assumption and shows what happens then (section 4).

### RoomRecovery and the code

`Snapshot` is `createPersistedRoomSnapshot` reduced to what a restore depends
on. Each action of `RoomAuthority` is conjoined with `PersistRoom` where its
handler calls `persistRoom`, or with `NoPersist`. A write may fail, as the code
swallows a failed `put`; `lost` counts failures since the last write that
succeeded, and `MaxLost` bounds it. `RestoreRoom` is `restoreRoom` with
`syncRestoredRoom`, and may happen at any moment, any number of times: nobody is
connected, timers follow the status, the host is chosen again.

### MatchPlay and the code

`player` holds the fields of `room.players` that decide a match. A message is a
sequence of keys, each of which completes a character, is a letter inside of
one, or is a miss; `Press` is `advanceProgress` or `advanceRomajiProgress` under
`applyGuardedProgress`. `Type` is `applyTypingInput` with `maybeFinalizeRoom`: a
message above the budget changes nothing, so it has no action. The streak is
kept modulo `GuardStreak`, which is all that guards depend on. `Beats` is
`comparePlayers` up to the point where times, WPM and accuracy decide; there any
order is possible. `accepted` counts what the budget has let through.

### RomajiTyping and the code

`server` is `progressIndex`, `typingProgressIndex`, `pendingInput` and
`inputMode` of the player in the room authority; `client` is the page's
`localProgress` with its input mode. `Units` builds the plan of a text with the
rules for digraphs, the small tsu and the n, from a selection of the kana
tables; `AdvanceRomaji` takes one letter. `ApplyTypingInput` is the room
authority, `AdvanceTypingProgress` the page; the conversions between the two
coordinates (`KanaOfGuide`, `GuideOfKana`) are translated from each side on its
own. `Type` gives the same text to both, `ReconcileRoomProgress` is a broadcast
that arrives with nothing in flight. Mistakes, guards and speed are left out:
they do not move the position.

Two inputs are excluded by guards. In a time attack a message is one character
(`Messages`), since the sides treat the rest of a longer one differently when it
crosses the end of a text. And with `SwitchAnywhere = FALSE` the player does not
change from romaji to kana in the middle of a digraph, where the page loses half
of it until the next broadcast (section 4).

### TypingSync and the code

The browser's `localProgress`, sequence counter and connection; per connection a
FIFO to the room authority, one FIFO back. `Type` is `handleTypedText` with
`emitProgress`, `ApplyState` is `reconcileRoomProgress`, `ApplyJoinAck` resets as
`resetTyping` does, `ServeJoin` is `joinRoom` of an existing player,
`CountInput` is `applyTypingInput`. The page accepts typing as soon as the socket
is open, before the rejoin is answered. A behaviour is `calm` when nothing is
typed in that time and the rate limits reject nothing; some properties are only
true of calm behaviours and say so. The player types what the guide shows, so a
mistake on the server stands for a lost keystroke.

### RealtimeClient and the code

`pending` and `queue` are `pendingAcks` and `outboundMessages`. Listeners and
callbacks run in the middle of a handler and may call `emit` or `disconnect`:
`calls` is the stack of what is suspended, `failing` what `failPendingAcks` has
taken out but not called. While the stack is not empty only the application acts.
The order of the callbacks of one `failPendingAcks` is not kept. Listener
registration and the length of reconnect delays are left out.

### PageSession and the code

`page` is one record, the refs of `page.tsx` and the React state that follows
them; each function of the source is an operator from page to page, since the
handlers call each other. `socket` is `socketRef`, `targets` what each socket
made so far is connected to, `pending` the requests of the current one. The
realtime client is seen from outside, as `RealtimeClient` describes it: a request
is answered once, by the server, its timeout or the end of the connection.
`truth` is the server's room; it may fall back when a connection opens, as a
restarted server may have an older snapshot. Only buttons the page shows can be
pressed (`AtHome`, `AtSetup`).

### RealtimeGateway and the code

Two halves that share no state: `half` says which of them a behaviour is about,
so that TLC does not multiply them. The sockets: `chain` is `socketEventChain`,
`armed` the sockets with an idle timer. The rate limits: `record` is the
persisted `count` and what is left until `resetAt`; time is a tick, `Bucket` is
`RATE_LIMIT_CLEANUP_BUCKET_MS`; transactions are atomic; an alarm that is due may
be late, and while its handler runs there is none. `recent`, which the code does
not have, remembers the requests of the last window for the property; `failed`
remembers the sockets on which a send has thrown. `Reply` is `sendMessage`: it
answers, or drops a socket that is not open any more, or the send throws and it
drops an open one, which it does not close.

### RoomEngine and the code

A room is a record with the fields of `InternalRoom`, sets for the flags of its
players, timestamps as in `RoomAuthority`, typing as numbers of correct and wrong
keys. Every exported function that changes something is an action; the periodic
ones (`CheckForForfeits`, `CheckExpired`, `CleanupExpiredRooms`) go over all rooms
at once. The server that calls them is not in the repository's worker, so
fairness states what the engine needs from it. `PublicRoom` is `toPublicRoom`
followed by `restoreRoomState`: who is connected comes back connected, on no
socket, without a `disconnectedAt`, with the current prompt as the whole history.
Two variables the code does not have: `played` are the prompts a room has begun
countdowns with, kept by `NotePlayed` outside of every action, so that what the
engine does to its own `promptHistory` can be held against it; `slips` says which of
two things the engine does not look at a caller has done since the last restart: a
code drawn while an entry of another socket still names it (`StaleCode`), a socket
seated in a second room (`SecondRoom`).

### LocalRecords and the code

`stored` is the cosmetic progress in `localStorage`, `progress` the copy of each
tab, which a tab stores whole after each change; the record of a day is read
again before each change. `claimed` has what each reward was worth, of which the
code keeps the key. `asked` is the day on whose record `startDailyChallenge` let a
tab in; `StartDaily` is its callback, which starts a run of the server's day. Two
variables the code does not have: `played` counts the runs that should count, and
`unchecked` those that were let in on the record of an earlier day.

## 3. Runs

| Run | Question |
|---|---|
| `room_reconnect` | two guests, one with two connections that replace each other: does the inductive invariant hold, does a match start complete, is every forfeit earned, is a seat kept until it is left or overdue? |
| `room_rules` | two rounds of all three rules: seats, deadlines and timers where needed, a result announced once and retained until nobody can miss it or its time is over; and does `RoomAuthority` implement `RoomLifecycle`? |
| `recovery` | a crash after any step, any number of times, and writes that fail: is the stored room the room, the restored room sound, a stored result safe, and does a countdown or match that was going on end once crashes stop? |
| `match` | keys, budget, COM player, deadlines, forfeits under each rule: is the budget kept however input is cut, is a decided match over, is the winner right, does a match against the COM player or the clock end? |
| `romaji` | eight texts in three rules, every message of one or two keys: are both sides at the same place in the same mode, do they agree on the end, is no place a dead end, does each character count once? |
| `typing` | three connections, with and without rejected input and early typing: counted once and in order? When calm: do both sides agree, is the end seen, does the guide never move back? |
| `client` | requests, callbacks, timeouts, overflow, lost and replaced connections: answered once, sent at most once, never sent after a failure, reconnected unless over? |
| `page` | two rooms, practice, a reload, lost, replaced and let go connections: is one room shown at a time, does it never go back, does coming back end? |
| `gateway` | limits on connections and requests, idle and oversized sockets, late alarms: do the limits hold, are requests answered, do silent sockets and expired records go? |
| `engine` | two guests with three sockets, COM player, three rules, two rounds, a code used again, a restart with players connected: do the maps agree, is a match held until it is decided or left, are prompts fresh, does a match everybody left end? |
| `records` | two tabs, midnight, a shared limit: are coins earned, is each run counted once, is the best kept, by how much can the limit be exceeded? |
| `room_oversized` | is a player taken offline whose connection ended with an oversized message? Violated. |

All others hold.

### Bounds

`room_reconnect` has three sockets because a replacement needs an old and a new
connection of one guest and a second guest to see it; one round and the race
rule suffice, as connections do not depend on the rule. `room_rules` has one
socket per guest, which may be attached again, two rounds, so that everything a
round could leave behind can be left, and all rules. Two seats let the COM
player compete with the second guest. `recovery` bounds neither crashes nor the
number of failed writes, only how many fail in a row: after one, the stored room
is already an older one, which is what matters to a restore.

`match` has a prompt of two characters, three HP, messages of up to two keys and
a budget of two that grows by one: enough to guard, to fall by one message of
two, to fall together, and to be held back by the budget; two units of time put
the deadline between two moments of typing. The texts of `romaji` hold every
rule of the plan: a digraph with two spellings, a small tsu before a consonant,
before a vowel and at the end, an n before a vowel, a consonant and at the end, a
kana with two readings and the long vowel mark; seven counted kana make two
laps of an HP battle and the whole of a time attack of three texts. `typing` has
a prompt of two characters, four keystrokes and up to three connections, so that
a keystroke can be lost and typed again, and a join of an old connection can come
after that of a newer one.

`client` has three replayable requests and a queue that holds two small ones or
the large one. `page` makes at most two sockets per load, enough for one to be
replaced by another of a different kind; two attempts stand for the five, so
that there is a first, a last, and the pause after it; two rounds order the
snapshots. `gateway` has two sockets behind one address and one without, two
places and one per address; the last sends two messages, so that it can go on
after a send to it has failed, the others one; a window of four ticks over buckets of two, limits
of three and two. `engine` has one code, which is drawn again as soon as its room is gone, a prompt
of one character and one HP. Two prompts let the history be exhausted, which is when
it repeats one. A second code only adds what `slips` records; there the proof
is for any number of codes.
`records` has two tabs, one attempt per day and two days, so that the second tab
can exceed the limit and a run can end on another day than it began; the tabs
are symmetric, and only safety is checked there. No other run uses symmetry.

Deadlock is not checked: a room without connections, a typing session at its
bounds, a page without a socket and a closed client may rest.

### Fairness

A Durable Object with an alarm is woken by it, its timers fire, and a promise
chain that is not waiting runs its next job: weak fairness of the timers, of the
parts of maintenance and of the deadlines. The chain is first in, first out, so
a queued job gets its turn although other jobs are queued all the time: strong
fairness of `DisconnectSocket` and of `CleanupStaleRoom`, which starts
maintenance. The fetch to the gateway returns or fails: weak fairness of
`RequestStep`. No player has to do anything: no fairness on commands, joins,
closes or typing. `FairRecoverySpec` adds that crashes stop in the end, as an
instance that is evicted again and again makes no progress; nothing bounds how
many come before.

In `MatchPlay` the clock and the alarm go on and the COM player, whose mistakes
are a matter of chance, types correctly now and then. In `TypingSync` what was
sent is delivered or its connection breaks, and a lost connection is opened
again. In `RealtimeClient` the browser's timers fire and JavaScript returns from
its callbacks; a server need not answer. In `PageSession` timers fire, every
request times out in the end (`ACK_TIMEOUT_MS`), and a network that was lost comes
back: strong fairness of `Opens`, as a connection attempt may be interrupted. In
`RealtimeGateway` queued events run, timers and alarms fire and time passes. In
`RoomEngine` the server calls, while they have work, the functions that end a
countdown or a match, and their deadlines pass.

## 4. Where code and documentation disagree

`room_oversized` shows the first; the others were met while modelling, and the
models leave them out or state the property so that it is true, as said.

* A message above the size limit is answered with `closeSocket`, which forgets
  the socket without taking its player offline (`room-authority.ts:473`); the
  close event then finds no record. The player stays `connected` without a socket
  and without a `disconnectedAt`, against
  `docs/features/disconnect-reconnect.md:66`, until they join again.
* `docs/features/room-lifecycle.md:91` wants a finished result to stay at least as
  long as the result screen is shown. `cleanupDisconnectedPlayers`
  (`room-authority.ts:1578-1587`) puts a finished room back into the lobby while a
  player is connected and looks at it, once `FINISHED_RESULT_RETENTION_MS` is over
  and the opponent has been gone for the grace time; the `room:state` it broadcasts
  has no result. The model follows the code: in `ResultIsRetained` this is the last
  of the ways in which a result goes. Without it, TLC finds this as a
  counterexample.
* `docs/features/disconnect-reconnect.md:115-116` decides that when the opponent is
  gone for long the match waits for the remaining player to complete the prompt.
  `handleForfeits` (`room-authority.ts:1593`) ends the match in the turn in which
  it forfeits the absent player. The models follow the code.
* Input above the rate budget is dropped without an answer
  (`room-authority.ts:3003`), so the browser stays ahead of the room authority
  until the next join and ignores its states as old ones; the comment of
  `reconcile-room-progress.ts:9-10` assumes this cannot be. `TypingSync` has
  this behaviour, and `FewerMeansOlder` is stated for calm behaviours.
* A change from romaji to kana in the middle of a digraph makes the page forget
  half of it: `getCanonicalProgressIndex` converts from the guide, which stands
  before the digraph, while the room authority keeps its kana position. With
  `SwitchAnywhere = TRUE` TLC finds the difference; the next `room:state` repairs
  it.
* The daily challenge may be played more often than its limit: `startDailyChallenge`
  looks at the record before its request, so several tabs may be let in, and
  `finishPractice` records a run whose attempt could not be consumed. It also looks
  at the record of the page's day while the server chooses the day of the run, so
  a page that still goes by the day before is let in whatever the new day's record
  says. `daily-challenge.test.ts:126` has one tab and one day. `AttemptsAreLimited`
  states the bound that does hold: less than the limit, the tabs and the runs let
  in unchecked together. Reaching it with unchecked runs takes more runs than the
  instance has; the proof is for any number.
* `docs/features/room-lifecycle.md:90` wants a room code to be used again after its
  room is deleted without a collision. In the shared engine `cleanupExpiredRooms`
  deletes the room and leaves the entries of its sockets, and
  `createUniqueRoomCode` looks at the rooms only (`room-engine.ts:1138-1146`). A
  socket of the old room then names the new one: if its guest has taken a seat
  there on another socket, both speak for it, and when it closes it takes that player
  offline or, if its guest is not there, calls off the countdown of strangers.
  `IndexInv` says that this is the only way the index comes to disagree; without
  the condition on `slips` TLC finds the counterexample. In the worker there is one
  object per code, which `RoomAuthority` models, and nothing of this kind.
* `docs/requirements.md:58` limits the idle time of sockets, and the gateway gives
  every socket it attaches a timer that closes it. When a send throws, `sendMessage`
  (`realtime-gateway.ts:488-492`) forgets the socket and clears its timer but does
  not close it: it may stay open, outside the limits, without answers, until the
  peer or the platform ends it. The model has the behaviour; `SocketsInv` says
  that no other way leads there, and `SocketsAreServed` promises that the place
  becomes free, not that the connection ends.
* When the socket of a room that is being created is replaced, the callback of
  the create returns before it clears `createPending` (`page.tsx`, `createRoom`):
  no room can be created until the page is reloaded. The model has the
  behaviour; `RecoveryEnds` promises the end of a join, not of a create.
* A page whose connection to a room breaks says that it is reconnecting; if it
  has no stored room, which is so after a failed create or join, nothing takes
  the notice away when the transport is back (compare `room-reconnect.test.ts:10`).
  `WaitsOnlyForReconnect` and `RecoveryEnds` are about pages with a stored room.

## 5. Proofs

`RoomAuthorityProofs` proves, for any `Guests`, `Sockets`, `Owner`, `MaxPlayers >= 2`,
`MaxSockets`, `MaxRound` and any set of rules with the race, that `RoomInv` is an
invariant of `Spec`. Assumptions: those named in `RoomAuthority`, all about the
constants.

`RoomInv` is `TypeOK`, `PeopleInv` and `MatchInv`. Their conjuncts are not
inductive one by one. `OneSocketPerPlayer` carries the argument about
people: a command comes from a socket, and only this invariant says that the
socket's player is connected, has a seat and is the one whose record points
back (lemma `SpeakerIsConnected`, used in every command). It needs `OwnSocket`,
since a rejoin must not take the record of another player, and `JobHasSocket`,
since a suspended request comes back for its socket. `NoLostPlayer` holds at the
end of a join because a failed acknowledgement queues a disconnect. `AwayIsTimed`
makes `overdue` players absent, which is what makes forfeits earned and
`HostIsConnected` survive the cleanup. On the match side `ResultMatchesStatus`
needs `NoRoomIsEmpty` for a new room and `NotifiedIsPast` says that no earlier
announcement can silence a later one. Lemmas prove one step per action, split
into the three parts and, where an action disturbs them, their conjuncts;
`PeopleUnchanged` and `MatchUnchanged` serve the actions that touch only the other
half.

From `RoomInv` follow the theorems about its parts and about
the action properties `StartsTogether`, `AnnouncedOnce`,
`ForfeitIsEarned`, `SeatIsKept` and `ResultIsRetained`: lemmas about `[Next]_vars`
with one step per group of actions. `SeatsAreRespected` is proved apart, with
`SeatsInv`, because it counts: it adds that the set of players is finite.
`RoundIsSound` puts it together with `MatchInv`.

`RoomImplementsLifecycle` shows step by step that a step of `RoomAuthority` is,
under the mapping of `RoomRefinement`, a step of `RoomLifecycle` or none. Each
group of actions has a lemma that names the abstract action it is; the invariant
supplies the abstract guards, such as that the room is empty before it is
created, or that who is removed has been away long enough.

### RoomRecovery

A crash may bring back a snapshot that is several writes old, so `RoomInv`
alone says nothing about it. `SnapshotSound` is what a snapshot keeps of
`MatchInv` however old it is; it is added to the invariant, holds of each
snapshot of a sound room, and is enough for the room that `RestoreRoom` makes of
it. Every other step is one of `RoomAuthority`, whose lemmas are used. While no
write has failed (`lost = 0`), `Agrees` says that the snapshot is the room up to
its host; `StoredIsCurrent` and `ResultSurvives` follow from it.

### MatchPlay

Any players, prompt, HP, budget and message length; of the rooms it is assumed
(`RoomAssumption`) that they have at most two players, one of them human. A message is a run of keys (`Typed`, a
recursive function), so the lemmas about it go by induction over its keys:
`TypedTyped` for the bounds, others for what it counts. `Ledger` is the
invariant behind `BudgetHolds`: what was accepted plus the tokens left is at most
the burst plus what was refilled until `refilledAt`. `WinnerIsRight` needs
`DecidedIsOver`: that the match ends in the very step in which somebody finishes
or falls is what leaves the ranking with one finisher, or with both fallen in one
moment.

### TypingSync

`SyncInv` has four parts. `SyncType` adds to the types that queues of later
connections are empty. `Marked` orders the keystrokes in flight over all
connections, and puts what is counted before them as long as the browser's own
connection speaks. `Counted` bounds what the server has by what was typed.
`Agreed`, for calm behaviours, says for each stage of a connection how far the
browser is ahead: joined, by exactly what is on its way (`Ahead`), with every
broadcast under way older than the screen (`Behind`); rejoining, the join is
still on its way, or its answer has what the server counts (`Answered`). `GuideNeverMovesBack` and
`FewerMeansOlder` are read off it.

### RealtimeClient

`SocketInv`: types, with the shapes the stack of calls can have (`ClientType`); `Owed`, which
requests the pending answers, the queue and the callbacks still to be called
belong to, each once; `Unsent`, that a failed request is nowhere it could be
sent from; `Link`, that the timer, the WebSocket and the stack of suspended
calls fit together, which says when a lost connection is still to come back. The
stack makes it hard: a callback may emit or disconnect in the middle of any
handler, so `Owed` and `Unsent` must hold between the handler's parts.

### RealtimeGateway

The two halves are proved apart. For the sockets, `registered = armed`, the
places counted are enough for those registered, and what a socket is owed is
what it still has in the chain (`InTurn`, with the cardinality of its places
there). `Known` says that an open socket is registered or one to which a send has
failed: `Reply` is the only step that leaves an open socket unregistered. For the rate limits, `Ledger` splits the requests of the last window at
the beginning of the record in use and bounds both parts, which gives that a
window lets at most two limits through and that nobody below the limit is
refused; `Alarmed` says of each record that the alarm is set for the end of the
bucket in which it runs out or earlier, or that the handler that sets it runs. The lemmas about buckets
(`ceilToBucket` is the least multiple) and about sums over the ages of a window
are by arithmetic and by induction.

### PageSession

The page is one record, and its functions call each other, so the invariant is one
of a page `p` and the set `R` of requests it is still owed an answer to: `Sound(p, R)`.
`Linked`: without a socket nothing is owed. `Asked`: what may be asked of which
socket; a page is creating or joining a room exactly while it is connected to one
it has not stored, and `inFlight` is true exactly while a stored join is owed.
`Kept`: the stored room, the persisted one, the one on the screen and the target
of the socket agree as far as there are any. `Waits`: what
`WaitsOnlyForReconnect` says. `AnsweredIsSettled` shows of every callback that the
page it leaves is sound with one request less, or has let its socket go and owes
nothing. It has no need of the state of the connection, so it also serves
`failPendingAcks`: `AllFailed` calls the callbacks one after the other, each on the
page the ones before it left, and `AllFailedIsSound` goes by induction over them. A
callback may disconnect in the middle; the rest then come from a socket that is no
longer current and must leave the page as it is (`LateAnswerIsSound`).

Between the steps more is true (`Between`), and that is what `RoomMovesOn` needs:
a rejoin is only asked of an open connection, and a room that is on the screen
before the page has stored it came over this very connection from a server that
has not restarted since, so the answer that is still to come cannot be older.
`PageInv` and `RoomMovesOn` follow from `SessionStep`.

### LocalRecords

Any tabs, as long as they are finitely many, prices, days and limit; the keys of
practice, daily runs and matches differ (`RecordsAssumption`). Progress and days
are proved apart: what a step does to one does not depend on the other. A tab may
store an old progress over a newer one, so nothing can be said about which progress
is in `localStorage`; `Earned` is true of each of them by itself, wherever it came
from. It needs that what is owned and claimed stays finite, since coins are sums:
`SumWithout` shows that the fold of the library, which takes elements in an order
of its own, may be taken in any order, and `SameSums` that it depends on no more
than the values summed. For the days, `Limited` bounds the attempts of a day
together with the tabs that may still add one (`Pending`: let in on its record, or
in a run that has not been consumed). A run that counts takes its tab out
of them, an attempt left lets anybody in, and otherwise only an unchecked run
enters (`LimitIsCounted`, `LimitIsKept`, `LimitIsUnchecked`). `RunsAreTrue` says
that a run under way was consumed exactly if it has lasted, which is why a run is
counted once, by its timer or at its end. `BestIsKept` is a lemma about one step.

### RoomEngine

Any guests, sockets, codes, pools of prompts, lengths, rounds and restarts, and
any of the three rules as long as the race is one of them. The functions of the
engine are operators from room to room, and so are the lemmas: `RoomOK` is kept,
`Moves` says which changes of status an operator may make, `SameSeats` that the
index has nothing to notice. `RoomOK` is `Seated` and `MatchFits`, which the run
checks, with `Fresh`: a room in its countdown has no score. It is needed because `MatchFits`
says of a match that it is not decided, and a match begins with whatever score the
countdown left it. Typing is the other hard case: `Damaged` is applied twice in a
message, to the opponents and to the player who mistyped, and `SettledIs` shows of
any score in bounds that the room that comes out is over or undecided. The
actions put such a room back into the map (`PutRoom`, `QuietRooms` for the
periodic functions that go over all rooms), which gives `RoomsInv` for any number of
rooms, whatever sockets do. `MatchIsHeld` and
`PromptsAreFresh` are read off `Moves`; for the first, what the cleanup removes
has no match that anybody is connected to.

The index is another matter, because the engine leaves two things to whoever calls
it. The theorem assumes neither: `slips` records when one of them has happened
since the last restart, and `IndexInv` says what still holds. TLC finds
counterexamples without the two conditions.

* Cleaning a room up leaves the entries of its sockets behind, and
  `createUniqueRoomCode` may draw the code again (section 4). Unless it has
  (`"staleCode" \notin slips`) `IndexAgrees` holds, with `Entries`; a socket may be in
  any number of rooms.
* A socket that creates or joins a second room has its entry overwritten while the
  first room still shows its player as connected: nobody can act for that player and
  no close event takes them offline. Until a caller has done either
  (`slips = {}`) `ConnectedIsReachable` holds, with `SeatsOwned`, since a rejoin that
  clears the entry of the socket it replaces must not clear one of another
  player, and `OneRoomEach`: a socket that speaks for a room is in no seat of
  another.

A restart is the third exception and is in the property itself: a player who was
connected when the room was stored is restored connected, on no socket. Nobody
speaks for them, no close event and no forfeit takes them offline, and only their own
rejoin ends it. `EngineIInv` collects the three levels; `EngineIsSound` holds of
every behaviour. Only the six actions of `Seating` touch the index; every other step
is a `QuietStep`.

`PromptsAreFresh` is about `played`. `Records` shows that `played` is the engine's own
`promptHistory`, step by step: it is what would break if an abort or a setting
cleared it.

### Form

Lemmas about data, such as `InductionOnNat`, `LeastExists`, `RemovedFirst` and
`AppendedQueue`, are stated at the head of each module that uses them.

Induction is over a set: `InductionOnNat` (with `AgeByAge` for the ages of a window)
takes the set of numbers a statement holds of, as the theorems of the library
that take an operator cannot be instantiated here. `Typed`, `Sums` and the helpers
`Without` and `BytesOf` are written as recursive functions or with operators of
`SequencesExt` whose definitions a proof can use; TLC checks the same
definitions.

Only model-checked:

* liveness and everything under fairness (`MatchesMoveOn`, `LostSocketIsNoticed`,
  `FinishIsSeen`, `EveryRequestIsAnswered`, `MatchEnds`, `SocketsAreServed`,
  `ExpiredRecordsGo` and the rest): outside of the prover's reach;
* `PositionInv` and `CountedOnce` of `RomajiTyping`: both depend on what
  the plans of a text, which are folds over its tokens, compute for every text, and
  that is an induction over data with operators as parameters.

## 6. Not modelled

* Mobile input (`mobile-input-buffer.ts`, `mobile-ime-input-buffer.ts`): guesses
  what an input method has committed from the buffer it shows. What is right
  depends on the input method; the models start from the text that comes out.
* Matchmaking queue and room socket hub: no code of the worker uses them in this
  version.
* Worker routing, wire protocol and validation, prompts: no state.
* The route `/rooms/:roomCode/state` of the room authority (`handleStateRequest`), for
  operators who hold `ROOM_STATE_WRITE_TOKEN`: POST and PUT replace the room by a given
  snapshot, beside the chain and whatever a handler that waits has read, and
  then broadcast and persist it. With it a room may be anything, so nothing the
  models promise of a room holds across such a write.
* In the room authority: reactions, the control-command budget, guest-session
  and match-result records and their retention. The records are written once
  and read by nobody in the room; a room code that is used again overwrites the
  record of the earlier room and finds its reward claimed.
* In the gateway: the readiness probe, the text of practice answers.
* In the engine and the match rules: statistics, the choice of prompts beyond
  their history.
* In the browser: rendering, settings, tutorial, sounds, guest identity, mistake
  trends, blocked players: single values that are read and written back.
