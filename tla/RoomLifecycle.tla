--------------------------- MODULE RoomLifecycle ---------------------------
(***************************************************************************)
(* What a room promises to its players, without sockets, timers, jobs and  *)
(* the COM player: who has a seat, who is connected, who hosts, and how    *)
(* the rounds of matches follow one another.                               *)
(***************************************************************************)
EXTENDS Integers, FiniteSets

CONSTANTS Guests, NoGuest, MaxPlayers

VARIABLES phase,    \* none, waiting, countdown, playing, finished
          round,
          seats,    \* the humans that have a seat
          online,   \* those of them that are connected
          host,
          verdict   \* the round that has been decided and not been left yet

vars == <<phase, round, seats, online, host, verdict>>

Init ==
  /\ phase = "none" /\ round = 0 /\ seats = {} /\ online = {}
  /\ host = NoGuest /\ verdict = 0

\* The host keeps the role while connected, and then passes it to somebody
\* who is connected, if anybody is.
HostFollows(on) ==
  /\ host' \in Guests \cup {NoGuest}
  /\ IF host \in on THEN host' = host ELSE on # {} => host' \in on

Open(g) ==
  /\ phase = "none"
  /\ phase' = "waiting" /\ round' = 1 /\ verdict' = 0
  /\ seats' = {g} /\ online' = {g} /\ host' = g

Arrive(g) ==
  /\ phase = "waiting" /\ g \notin seats /\ Cardinality(seats) < MaxPlayers
  /\ seats' = seats \cup {g} /\ online' = online \cup {g} /\ HostFollows(online')
  /\ UNCHANGED <<phase, round, verdict>>

Return(g) ==
  /\ g \in seats
  /\ online' = online \cup {g} /\ HostFollows(online')
  /\ UNCHANGED <<phase, round, seats, verdict>>

\* A lost connection calls a countdown off but does not stop a match
GoOffline(g) ==
  /\ g \in online
  /\ online' = online \ {g} /\ HostFollows(online')
  /\ phase' = IF phase = "countdown" THEN "waiting" ELSE phase
  /\ UNCHANGED <<round, seats, verdict>>

Quit(g) ==
  /\ phase \in {"waiting", "finished"} /\ g \in online
  /\ seats' = seats \ {g} /\ online' = online \ {g} /\ HostFollows(online')
  /\ UNCHANGED <<phase, round, verdict>>

\* Leaving a match decides it
GiveUp(g) ==
  /\ phase = "playing" /\ g \in online
  /\ online' = online \ {g} /\ HostFollows(online')
  /\ phase' = "finished" /\ verdict' = round
  /\ UNCHANGED <<round, seats>>

\* The next match is agreed on by a complete table: the first one of a lobby
\* in its round, a rematch in the next round
Gather ==
  /\ phase \in {"waiting", "finished"} /\ seats # {} /\ online = seats
  /\ phase' = "countdown" /\ verdict' = 0
  /\ round' = IF phase = "finished" THEN round + 1 ELSE round
  /\ UNCHANGED <<seats, online, host>>

Go ==
  /\ phase = "countdown" /\ seats # {} /\ online = seats
  /\ phase' = "playing"
  /\ UNCHANGED <<round, seats, online, host, verdict>>

CallOff ==
  /\ phase = "countdown" /\ online # seats
  /\ phase' = "waiting"
  /\ UNCHANGED <<round, seats, online, host, verdict>>

Decide ==
  /\ phase = "playing"
  /\ phase' = "finished" /\ verdict' = round
  /\ UNCHANGED <<round, seats, online, host>>

\* Absent players lose their seats; a decided round is over with them
Evict ==
  /\ phase \in {"waiting", "finished"} /\ online # {}
  /\ \E gone \in SUBSET (seats \ online) : gone # {} /\ seats' = seats \ gone
  /\ phase' = "waiting" /\ verdict' = 0
  /\ round' = IF phase = "finished" THEN round + 1 ELSE round
  /\ HostFollows(online)
  /\ UNCHANGED online

\* Only a room without connected players is given up
Vanish ==
  /\ phase # "none" /\ online = {}
  /\ phase' = "none" /\ round' = 0 /\ seats' = {} /\ host' = NoGuest
  /\ verdict' = 0
  /\ UNCHANGED online

\* ... or one whose last player leaves
Close(g) ==
  /\ phase \in {"waiting", "finished"} /\ seats = {g} /\ online = {g}
  /\ phase' = "none" /\ round' = 0 /\ seats' = {} /\ online' = {}
  /\ host' = NoGuest /\ verdict' = 0

\* The server loses every connection at once
Outage ==
  /\ online' = {} /\ HostFollows({})
  /\ UNCHANGED <<phase, round, seats, verdict>>

Next ==
  \/ \E g \in Guests : \/ Open(g) \/ Arrive(g) \/ Return(g) \/ GoOffline(g)
                       \/ Quit(g) \/ GiveUp(g) \/ Close(g)
  \/ Gather \/ Go \/ CallOff \/ Decide \/ Evict \/ Vanish \/ Outage

Spec == Init /\ [][Next]_vars

=============================================================================
