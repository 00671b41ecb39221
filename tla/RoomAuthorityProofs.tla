------------------------ MODULE RoomAuthorityProofs ------------------------
(***************************************************************************)
(* Proofs about RoomAuthority for every set of guests and sockets, every   *)
(* number of seats and every bound: RoomInv is inductive, and the safety   *)
(* properties follow from it; its action properties follow from it and one *)
(* step of Next; the seats need an invariant of their own; every step is   *)
(* one of RoomLifecycle; and RoomRecovery restores sound rooms.            *)
(***************************************************************************)
EXTENDS RoomRefinement, RoomRecovery, FiniteSetTheorems, TLAPS

USE OwnerAssumption, RulesAssumption, LimitAssumption, SeatsAssumption,
    NoGuestAssumption
USE DEF roomVars, peopleVars, matchVars, ageVars, socketVars, chainVars,
        timerVars

-----------------------------------------------------------------------------
(* What a job may rely on about the socket it serves.                      *)

LEMMA SpeakerIsConnected ==
  ASSUME RoomInv, NEW s \in Sockets, socketPlayer[s] # NoGuest
  PROVE  /\ socketPlayer[s] \in connected /\ socketPlayer[s] \in players
         /\ socketPlayer[s] \in Guests /\ socketId[socketPlayer[s]] = s
  BY DEF RoomInv, TypeOK, RoomType, PeopleType, SocketType, PeopleInv,
         OneSocketPerPlayer

LEMMA RequesterIsKnown ==
  ASSUME RoomInv, job \in {"create", "join"}
  PROVE  jobSocket \in Sockets /\ Owner[jobSocket] \in Guests
  BY DEF RoomInv, TypeOK, SocketType, PeopleInv, JobHasSocket

-----------------------------------------------------------------------------
(* Every step preserves RoomInv.  First, the steps that do not touch what  *)
(* one of its two halves is about.                                         *)

LEMMA PeopleUnchanged ==
  ASSUME PeopleInv, UNCHANGED <<host, players, connected, away, socketId,
                                sockets, socketPlayer, closing, job, jobSocket>>
  PROVE  PeopleInv'
  BY DEF PeopleInv, HostIsConnected, OneSocketPerPlayer, NoLostPlayer,
         AwayIsTimed, JobHasSocket, OwnSocket

LEMMA MatchUnchanged ==
  ASSUME MatchInv, UNCHANGED <<status, round, players, bot, forfeited, result,
                               notified, countdownTimer, botTimer>>
  PROVE  MatchInv'
  BY DEF MatchInv, TimersMatchStatus, ResultMatchesStatus, NotifiedIsPast,
         ForfeitsEndTheMatch, NoRoomIsEmpty

\* A new connection speaks for nobody.
LEMMA AttachSocketStep ==
  ASSUME RoomInv, NEW s \in Sockets, AttachSocket(s)
  PROVE  RoomInv'
<1> USE DEF AttachSocket
<1>1. TypeOK'
  BY DEF RoomInv, TypeOK, RoomType, PeopleType, MatchType, SocketType,
         TimerType
<1>2. PeopleInv'
  BY DEF RoomInv, PeopleInv, HostIsConnected, OneSocketPerPlayer,
         NoLostPlayer, AwayIsTimed, JobHasSocket, OwnSocket
<1>3. MatchInv'
  BY MatchUnchanged DEF RoomInv
<1> QED  BY <1>1, <1>2, <1>3 DEF RoomInv

\* A close event only queues a job.
LEMMA CloseEventStep ==
  ASSUME RoomInv, NEW s \in Sockets, CloseEvent(s)
  PROVE  RoomInv'
<1> USE DEF CloseEvent
<1>1. TypeOK'
  BY DEF RoomInv, TypeOK, RoomType, PeopleType, MatchType, SocketType,
         TimerType
<1>2. PeopleInv'
  BY DEF RoomInv, PeopleInv, HostIsConnected, OneSocketPerPlayer,
         NoLostPlayer, AwayIsTimed, JobHasSocket, OwnSocket
<1>3. MatchInv'
  BY MatchUnchanged DEF RoomInv
<1> QED  BY <1>1, <1>2, <1>3 DEF RoomInv

\* The timed-out socket speaks for nobody, so nobody is connected through it.
LEMMA UnjoinedTimeoutStep ==
  ASSUME RoomInv, NEW s \in Sockets, UnjoinedTimeout(s)
  PROVE  RoomInv'
<1> USE DEF UnjoinedTimeout
<1>1. TypeOK'
  BY DEF RoomInv, TypeOK, RoomType, PeopleType, MatchType, SocketType,
         TimerType
<1>2. PeopleInv'
  BY DEF RoomInv, PeopleInv, HostIsConnected, OneSocketPerPlayer,
         NoLostPlayer, AwayIsTimed, JobHasSocket, OwnSocket, RoomType,
         PeopleType, TypeOK
<1>3. MatchInv'
  BY MatchUnchanged DEF RoomInv
<1> QED  BY <1>1, <1>2, <1>3 DEF RoomInv

\* The socket and the player it speaks for go together.
LEMMA DisconnectSocketStep ==
  ASSUME RoomInv, NEW s \in Sockets, DisconnectSocket(s)
  PROVE  RoomInv'
<1> USE DEF DisconnectSocket, DetachSocket, GoOffline, AbortCountdown,
       ClearMatchTimers, NextHosts
<1>1. TypeOK'
  <2>1. RoomType'
    <3>1. CASE socketPlayer[s] = NoGuest
      BY <3>1 DEF RoomInv, TypeOK, RoomType
    <3>2. CASE socketPlayer[s] # NoGuest
      BY DEF RoomInv, TypeOK, RoomType, PeopleType, Statuses
    <3> QED  BY <3>1, <3>2
  <2>2. PeopleType'
    <3>1. CASE socketPlayer[s] = NoGuest
      BY <3>1 DEF RoomInv, TypeOK, PeopleType
    <3>2. CASE socketPlayer[s] # NoGuest
      BY SpeakerIsConnected DEF RoomInv, TypeOK, PeopleType
    <3> QED  BY <3>1, <3>2
  <2>3. MatchType'
    <3>1. (result \in Nat /\ notified \in Nat)'
      BY DEF RoomInv, TypeOK, MatchType
    <3>2. (matchEnds \in {"none", "ahead", "passed"})'
      BY DEF RoomInv, TypeOK, MatchType
    <3>3. (suddenDeath \in BOOLEAN)'
      BY DEF RoomInv, TypeOK, MatchType
    <3>4. (idle \in BOOLEAN /\ aged \in BOOLEAN)'
      BY DEF RoomInv, TypeOK, MatchType
    <3> QED  BY <3>1, <3>2, <3>3, <3>4 DEF MatchType
  <2>4. SocketType'
    BY DEF RoomInv, TypeOK, SocketType
  <2>5. TimerType'
    BY DEF RoomInv, TypeOK, TimerType
  <2> QED  BY <2>1, <2>2, <2>3, <2>4, <2>5 DEF TypeOK
<1>2. PeopleInv'
  <2>1. HostIsConnected'
    BY DEF RoomInv, PeopleInv, HostIsConnected
  <2>2. OneSocketPerPlayer'
    BY DEF RoomInv, PeopleInv, OneSocketPerPlayer, SocketType, TypeOK
  <2>3. NoLostPlayer'
    BY DEF RoomInv, PeopleInv, NoLostPlayer, RoomType, PeopleType, TypeOK,
           OneSocketPerPlayer
  <2>4. AwayIsTimed'
    BY SpeakerIsConnected DEF RoomInv, PeopleInv, AwayIsTimed
  <2>5. JobHasSocket'
    BY DEF RoomInv, PeopleInv, JobHasSocket
  <2>6. OwnSocket'
    BY DEF RoomInv, PeopleInv, OwnSocket
  <2> QED  BY <2>1, <2>2, <2>3, <2>4, <2>5, <2>6 DEF PeopleInv
<1>3. MatchInv'
  <2>1. TimersMatchStatus'
    BY DEF RoomInv, MatchInv, TimersMatchStatus
  <2>2. ResultMatchesStatus'
    BY DEF RoomInv, MatchInv, ResultMatchesStatus
  <2>3. NotifiedIsPast'
    BY DEF RoomInv, MatchInv, NotifiedIsPast
  <2>4. ForfeitsEndTheMatch'
    BY DEF RoomInv, MatchInv, ForfeitsEndTheMatch
  <2>5. NoRoomIsEmpty'
    BY DEF RoomInv, MatchInv, NoRoomIsEmpty
  <2> QED  BY <2>1, <2>2, <2>3, <2>4, <2>5 DEF MatchInv
<1> QED  BY <1>1, <1>2, <1>3 DEF RoomInv

\* The chain is suspended for a socket that is attached.
LEMMA BeginRequestStep ==
  ASSUME RoomInv, NEW s \in Sockets, NEW kind \in {"create", "join"}, BeginRequest(kind, s)
  PROVE  RoomInv'
<1> USE DEF BeginRequest
<1>1. TypeOK'
  BY DEF RoomInv, TypeOK, RoomType, PeopleType, MatchType, SocketType,
         TimerType, Jobs
<1>2. PeopleInv'
  BY DEF RoomInv, PeopleInv, HostIsConnected, OneSocketPerPlayer,
         NoLostPlayer, AwayIsTimed, JobHasSocket, OwnSocket
<1>3. MatchInv'
  BY MatchUnchanged DEF RoomInv
<1> QED  BY <1>1, <1>2, <1>3 DEF RoomInv

\* Without a room no socket speaks for anybody.
LEMMA FinishCreateStep ==
  ASSUME RoomInv, FinishCreate
  PROVE  RoomInv'
<1> USE DEF FinishCreate, AckTo, EndRequest
<1>0. jobSocket \in Sockets /\ Owner[jobSocket] \in Guests
  BY RequesterIsKnown
<1>1. TypeOK'
  <2>1. RoomType'
    BY <1>0 DEF RoomType, Statuses
  <2>2. PeopleType'
    <3>1. (connected \subseteq players /\ ready \subseteq players)'
      BY DEF RoomInv, TypeOK, PeopleType, MatchInv, NoRoomIsEmpty
    <3>2. (away \subseteq players /\ overdue \subseteq away /\ forfeited \subseteq players)'
      BY DEF RoomInv, TypeOK, PeopleType, MatchInv, NoRoomIsEmpty
    <3>3. (socketId \in [Guests -> Sockets \cup {NoSocket}])'
      BY <1>0 DEF RoomInv, TypeOK, PeopleType
    <3> QED  BY <3>1, <3>2, <3>3 DEF PeopleType
  <2>3. MatchType'
    BY DEF RoomInv, TypeOK, MatchType
  <2>4. SocketType'
    BY <1>0 DEF RoomInv, TypeOK, SocketType, Jobs
  <2>5. TimerType'
    BY DEF RoomInv, TypeOK, TimerType
  <2> QED  BY <2>1, <2>2, <2>3, <2>4, <2>5 DEF TypeOK
<1>2. PeopleInv'
  <2>1. HostIsConnected'
    BY DEF HostIsConnected
  <2>2. OneSocketPerPlayer'
    BY DEF RoomInv, PeopleInv, OneSocketPerPlayer, PeopleType, SocketType,
           TypeOK, MatchInv, NoRoomIsEmpty
  <2>3. NoLostPlayer'
    BY <1>0 DEF RoomInv, NoLostPlayer, PeopleType, TypeOK
  <2>4. AwayIsTimed'
    BY DEF RoomInv, PeopleInv, AwayIsTimed, MatchInv, NoRoomIsEmpty
  <2>5. JobHasSocket'
    BY DEF JobHasSocket
  <2>6. OwnSocket'
    BY DEF RoomInv, PeopleInv, OwnSocket
  <2> QED  BY <2>1, <2>2, <2>3, <2>4, <2>5, <2>6 DEF PeopleInv
<1>3. MatchInv'
  <2>1. TimersMatchStatus'
    BY DEF RoomInv, MatchInv, TimersMatchStatus
  <2>2. ResultMatchesStatus'
    BY DEF RoomInv, MatchInv, ResultMatchesStatus
  <2>3. NotifiedIsPast'
    BY DEF NotifiedIsPast
  <2>4. ForfeitsEndTheMatch'
    BY DEF RoomInv, MatchInv, ForfeitsEndTheMatch
  <2>5. NoRoomIsEmpty'
    BY DEF NoRoomIsEmpty
  <2> QED  BY <2>1, <2>2, <2>3, <2>4, <2>5 DEF MatchInv
<1> QED  BY <1>1, <1>2, <1>3 DEF RoomInv

\* A refusal changes nothing but the chain.
LEMMA RefuseCreateStep ==
  ASSUME RoomInv, RefuseCreate
  PROVE  RoomInv'
<1> USE DEF RefuseCreate, RefuseRequest, AckTo, EndRequest
<1>0. jobSocket \in Sockets /\ Owner[jobSocket] \in Guests
  BY RequesterIsKnown
<1>1. TypeOK'
  BY <1>0 DEF RoomInv, TypeOK, RoomType, PeopleType, MatchType, SocketType,
         TimerType, Jobs
<1>2. PeopleInv'
  BY DEF RoomInv, PeopleInv, HostIsConnected, OneSocketPerPlayer,
         NoLostPlayer, AwayIsTimed, JobHasSocket, OwnSocket
<1>3. MatchInv'
  BY MatchUnchanged DEF RoomInv
<1> QED  BY <1>1, <1>2, <1>3 DEF RoomInv

\* The previous socket cannot speak for another player, by OwnSocket.
LEMMA FinishRejoinStep ==
  ASSUME RoomInv, FinishRejoin
  PROVE  RoomInv'
<1> USE DEF FinishRejoin, AckTo, EndRequest, EnsuredHosts, NextHosts
<1>0. jobSocket \in Sockets /\ Owner[jobSocket] \in Guests
  BY RequesterIsKnown
<1>1. TypeOK'
  <2>1. RoomType'
    BY DEF RoomInv, TypeOK, RoomType, PeopleType
  <2>2. PeopleType'
    BY <1>0 DEF RoomInv, TypeOK, PeopleType
  <2>3. MatchType'
    BY DEF RoomInv, TypeOK, MatchType
  <2>4. SocketType'
    BY <1>0 DEF RoomInv, TypeOK, SocketType, Jobs
  <2>5. TimerType'
    BY DEF RoomInv, TypeOK, TimerType
  <2> QED  BY <2>1, <2>2, <2>3, <2>4, <2>5 DEF TypeOK
<1>2. PeopleInv'
  <2>1. HostIsConnected'
    BY DEF HostIsConnected
  <2>2. OneSocketPerPlayer'
    BY <1>0 DEF RoomInv, PeopleInv, OneSocketPerPlayer, PeopleType, TypeOK,
           OwnSocket
  <2>3. NoLostPlayer'
    BY DEF RoomInv, PeopleInv, NoLostPlayer, RoomType, PeopleType, TypeOK,
           OwnSocket
  <2>4. AwayIsTimed'
    BY DEF RoomInv, PeopleInv, AwayIsTimed
  <2>5. JobHasSocket'
    BY DEF JobHasSocket
  <2>6. OwnSocket'
    BY DEF RoomInv, PeopleInv, OwnSocket
  <2> QED  BY <2>1, <2>2, <2>3, <2>4, <2>5, <2>6 DEF PeopleInv
<1>3. MatchInv'
  BY MatchUnchanged DEF RoomInv
<1> QED  BY <1>1, <1>2, <1>3 DEF RoomInv

\* The joining guest had no socket in the room.
LEMMA FinishJoinStep ==
  ASSUME RoomInv, FinishJoin
  PROVE  RoomInv'
<1> USE DEF FinishJoin, AckTo, EndRequest, EnsuredHosts, NextHosts
<1>0. jobSocket \in Sockets /\ Owner[jobSocket] \in Guests
  BY RequesterIsKnown
<1>1. TypeOK'
  <2>1. RoomType'
    BY <1>0 DEF RoomInv, TypeOK, RoomType, PeopleType
  <2>2. PeopleType'
    BY <1>0 DEF RoomInv, TypeOK, PeopleType
  <2>3. MatchType'
    BY DEF RoomInv, TypeOK, MatchType
  <2>4. SocketType'
    BY <1>0 DEF RoomInv, TypeOK, SocketType, Jobs
  <2>5. TimerType'
    BY DEF RoomInv, TypeOK, TimerType
  <2> QED  BY <2>1, <2>2, <2>3, <2>4, <2>5 DEF TypeOK
<1>2. PeopleInv'
  <2>1. HostIsConnected'
    BY DEF HostIsConnected
  <2>2. OneSocketPerPlayer'
    BY DEF RoomInv, PeopleInv, OneSocketPerPlayer, PeopleType, SocketType,
           TypeOK, OwnSocket
  <2>3. NoLostPlayer'
    BY <1>0 DEF RoomInv, PeopleInv, NoLostPlayer, PeopleType, TypeOK
  <2>4. AwayIsTimed'
    BY DEF RoomInv, PeopleInv, AwayIsTimed
  <2>5. JobHasSocket'
    BY DEF JobHasSocket
  <2>6. OwnSocket'
    BY DEF RoomInv, PeopleInv, OwnSocket
  <2> QED  BY <2>1, <2>2, <2>3, <2>4, <2>5, <2>6 DEF PeopleInv
<1>3. MatchInv'
  <2>1. TimersMatchStatus'
    BY DEF RoomInv, MatchInv, TimersMatchStatus
  <2>2. ResultMatchesStatus'
    BY DEF RoomInv, MatchInv, ResultMatchesStatus
  <2>3. NotifiedIsPast'
    BY DEF RoomInv, MatchInv, NotifiedIsPast
  <2>4. ForfeitsEndTheMatch'
    BY DEF RoomInv, MatchInv, ForfeitsEndTheMatch
  <2>5. NoRoomIsEmpty'
    BY DEF NoRoomIsEmpty
  <2> QED  BY <2>1, <2>2, <2>3, <2>4, <2>5 DEF MatchInv
<1> QED  BY <1>1, <1>2, <1>3 DEF RoomInv

\* A refusal changes nothing but the chain and lastActivityAt.
LEMMA RefuseJoinStep ==
  ASSUME RoomInv, RefuseJoin
  PROVE  RoomInv'
<1> USE DEF RefuseJoin, RefuseRequest, AckTo, EndRequest
<1>0. jobSocket \in Sockets /\ Owner[jobSocket] \in Guests
  BY RequesterIsKnown
<1>1. TypeOK'
  <2>1. RoomType'
    BY DEF RoomInv, TypeOK, RoomType
  <2>2. PeopleType'
    BY DEF RoomInv, TypeOK, PeopleType
  <2>3. MatchType'
    BY DEF RoomInv, TypeOK, MatchType
  <2>4. SocketType'
    BY <1>0 DEF RoomInv, TypeOK, SocketType, Jobs
  <2>5. TimerType'
    BY DEF RoomInv, TypeOK, TimerType
  <2> QED  BY <2>1, <2>2, <2>3, <2>4, <2>5 DEF TypeOK
<1>2. PeopleInv'
  BY DEF RoomInv, PeopleInv, HostIsConnected, OneSocketPerPlayer,
         NoLostPlayer, AwayIsTimed, JobHasSocket, OwnSocket
<1>3. MatchInv'
  BY MatchUnchanged DEF RoomInv
<1> QED  BY <1>1, <1>2, <1>3 DEF RoomInv

\* The leaver passes the host role on before the match is finalized.
LEMMA LeaveMatchStep ==
  ASSUME RoomInv, NEW s \in Sockets, NEW g \in Guests, LeaveMatch(s, g)
  PROVE  RoomInv'
<1> USE DEF LeaveMatch, Commands, NextHosts, FinalizeAndNotify,
       ClearMatchTimers
<1>0. g \in connected /\ g \in players /\ socketId[g] = s
  BY SpeakerIsConnected
<1>1. TypeOK'
  <2>1. RoomType'
    BY DEF RoomInv, TypeOK, RoomType, PeopleType, Statuses
  <2>2. PeopleType'
    BY <1>0 DEF RoomInv, TypeOK, PeopleType
  <2>3. MatchType'
    BY DEF RoomInv, TypeOK, RoomType, MatchType
  <2>4. SocketType'
    BY DEF RoomInv, TypeOK, SocketType
  <2>5. TimerType'
    BY DEF TimerType
  <2> QED  BY <2>1, <2>2, <2>3, <2>4, <2>5 DEF TypeOK
<1>2. PeopleInv'
  <2>1. HostIsConnected'
    BY DEF RoomInv, PeopleInv, HostIsConnected
  <2>2. OneSocketPerPlayer'
    BY DEF RoomInv, PeopleInv, OneSocketPerPlayer, SocketType, TypeOK
  <2>3. NoLostPlayer'
    BY DEF RoomInv, PeopleInv, NoLostPlayer
  <2>4. AwayIsTimed'
    BY <1>0 DEF RoomInv, PeopleInv, AwayIsTimed
  <2>5. JobHasSocket'
    BY DEF RoomInv, PeopleInv, JobHasSocket
  <2>6. OwnSocket'
    BY DEF RoomInv, PeopleInv, OwnSocket
  <2> QED  BY <2>1, <2>2, <2>3, <2>4, <2>5, <2>6 DEF PeopleInv
<1>3. MatchInv'
  <2>1. TimersMatchStatus'
    BY DEF TimersMatchStatus
  <2>2. ResultMatchesStatus'
    BY DEF ResultMatchesStatus
  <2>3. NotifiedIsPast'
    BY DEF RoomInv, NotifiedIsPast, RoomType, TypeOK
  <2>4. ForfeitsEndTheMatch'
    BY DEF ForfeitsEndTheMatch
  <2>5. NoRoomIsEmpty'
    BY DEF NoRoomIsEmpty
  <2> QED  BY <2>1, <2>2, <2>3, <2>4, <2>5 DEF MatchInv
<1> QED  BY <1>1, <1>2, <1>3 DEF RoomInv

\* Leaving a countdown calls it off with its timer.
LEMMA LeaveCountdownStep ==
  ASSUME RoomInv, NEW s \in Sockets, NEW g \in Guests, LeaveCountdown(s, g)
  PROVE  RoomInv'
<1> USE DEF LeaveCountdown, Commands, GoOffline, AbortCountdown,
       ClearMatchTimers, NextHosts
<1>0. g \in connected /\ g \in players /\ socketId[g] = s
  BY SpeakerIsConnected
<1>1. TypeOK'
  <2>1. RoomType'
    BY DEF RoomInv, TypeOK, RoomType, PeopleType, Statuses
  <2>2. PeopleType'
    BY <1>0 DEF RoomInv, TypeOK, PeopleType
  <2>3. MatchType'
    <3>1. (result \in Nat /\ notified \in Nat)'
      BY DEF RoomInv, TypeOK, MatchType
    <3>2. (matchEnds \in {"none", "ahead", "passed"})'
      OBVIOUS
    <3>3. (suddenDeath \in BOOLEAN)'
      BY DEF RoomInv, TypeOK, MatchType
    <3>4. (idle \in BOOLEAN /\ aged \in BOOLEAN)'
      OBVIOUS
    <3> QED  BY <3>1, <3>2, <3>3, <3>4 DEF MatchType
  <2>4. SocketType'
    BY DEF RoomInv, TypeOK, SocketType
  <2>5. TimerType'
    BY DEF TimerType
  <2> QED  BY <2>1, <2>2, <2>3, <2>4, <2>5 DEF TypeOK
<1>2. PeopleInv'
  <2>1. HostIsConnected'
    BY DEF RoomInv, PeopleInv, HostIsConnected
  <2>2. OneSocketPerPlayer'
    BY DEF RoomInv, PeopleInv, OneSocketPerPlayer, SocketType, TypeOK
  <2>3. NoLostPlayer'
    BY DEF RoomInv, PeopleInv, NoLostPlayer
  <2>4. AwayIsTimed'
    BY <1>0 DEF RoomInv, PeopleInv, AwayIsTimed
  <2>5. JobHasSocket'
    BY DEF RoomInv, PeopleInv, JobHasSocket
  <2>6. OwnSocket'
    BY DEF RoomInv, PeopleInv, OwnSocket
  <2> QED  BY <2>1, <2>2, <2>3, <2>4, <2>5, <2>6 DEF PeopleInv
<1>3. MatchInv'
  <2>1. TimersMatchStatus'
    BY DEF TimersMatchStatus
  <2>2. ResultMatchesStatus'
    BY DEF ResultMatchesStatus
  <2>3. NotifiedIsPast'
    BY DEF RoomInv, MatchInv, NotifiedIsPast
  <2>4. ForfeitsEndTheMatch'
    BY DEF ForfeitsEndTheMatch
  <2>5. NoRoomIsEmpty'
    BY DEF NoRoomIsEmpty
  <2> QED  BY <2>1, <2>2, <2>3, <2>4, <2>5 DEF MatchInv
<1> QED  BY <1>1, <1>2, <1>3 DEF RoomInv

\* The seat, the session and the socket's player go together.
LEMMA LeaveSettledStep ==
  ASSUME RoomInv, NEW s \in Sockets, NEW g \in Guests, LeaveSettled(s, g)
  PROVE  RoomInv'
<1> USE DEF LeaveSettled, Commands, Settled, DropRoom, NextHosts,
       ClearMatchTimers
<1>0. g \in connected /\ g \in players /\ socketId[g] = s
  BY SpeakerIsConnected
<1>1. TypeOK'
  <2>1. RoomType'
    <3>1. (status \in Statuses /\ rule \in Rules)'
      BY DEF RoomInv, TypeOK, RoomType, Statuses
    <3>2. (round \in Nat)'
      BY DEF RoomInv, TypeOK, RoomType
    <3>3. (host \in Guests \cup {NoGuest} /\ players \subseteq Guests)'
      BY DEF RoomInv, TypeOK, RoomType, PeopleType
    <3>4. (bot \in BOOLEAN)'
      BY DEF RoomInv, TypeOK, RoomType
    <3> QED  BY <3>1, <3>2, <3>3, <3>4 DEF RoomType
  <2>2. PeopleType'
    BY DEF RoomInv, TypeOK, PeopleType
  <2>3. MatchType'
    <3>1. (result \in Nat /\ notified \in Nat)'
      BY DEF RoomInv, TypeOK, RoomType, MatchType
    <3>2. (matchEnds \in {"none", "ahead", "passed"})'
      BY DEF RoomInv, TypeOK, MatchType
    <3>3. (suddenDeath \in BOOLEAN)'
      BY DEF RoomInv, TypeOK, MatchType
    <3>4. (idle \in BOOLEAN /\ aged \in BOOLEAN)'
      BY DEF RoomInv, TypeOK, MatchType
    <3> QED  BY <3>1, <3>2, <3>3, <3>4 DEF MatchType
  <2>4. SocketType'
    BY DEF RoomInv, TypeOK, SocketType
  <2>5. TimerType'
    BY DEF RoomInv, TypeOK, TimerType
  <2> QED  BY <2>1, <2>2, <2>3, <2>4, <2>5 DEF TypeOK
<1>2. PeopleInv'
  <2>1. HostIsConnected'
    BY DEF RoomInv, PeopleInv, HostIsConnected
  <2>2. OneSocketPerPlayer'
    BY DEF RoomInv, PeopleInv, OneSocketPerPlayer, PeopleType, SocketType,
           TypeOK
  <2>3. NoLostPlayer'
    BY DEF RoomInv, PeopleInv, NoLostPlayer, RoomType, PeopleType, TypeOK
  <2>4. AwayIsTimed'
    BY DEF RoomInv, PeopleInv, AwayIsTimed
  <2>5. JobHasSocket'
    BY DEF RoomInv, PeopleInv, JobHasSocket
  <2>6. OwnSocket'
    BY DEF RoomInv, PeopleInv, OwnSocket, PeopleType, TypeOK
  <2> QED  BY <2>1, <2>2, <2>3, <2>4, <2>5, <2>6 DEF PeopleInv
<1>3. MatchInv'
  <2>1. TimersMatchStatus'
    BY DEF RoomInv, MatchInv, TimersMatchStatus
  <2>2. ResultMatchesStatus'
    BY DEF RoomInv, MatchInv, ResultMatchesStatus
  <2>3. NotifiedIsPast'
    BY DEF RoomInv, MatchInv, NotifiedIsPast, RoomType, TypeOK
  <2>4. ForfeitsEndTheMatch'
    BY DEF RoomInv, MatchInv, ForfeitsEndTheMatch
  <2>5. NoRoomIsEmpty'
    BY DEF NoRoomIsEmpty
  <2> QED  BY <2>1, <2>2, <2>3, <2>4, <2>5 DEF MatchInv
<1> QED  BY <1>1, <1>2, <1>3 DEF RoomInv

LEMMA SetReadyStep ==
  ASSUME RoomInv, NEW s \in Sockets, NEW g \in Guests, SetReady(s, g)
  PROVE  RoomInv'
<1> USE DEF SetReady, Commands, Settled
<1>0. g \in connected /\ g \in players /\ socketId[g] = s
  BY SpeakerIsConnected
<1>1. TypeOK'
  <2>1. RoomType'
    BY DEF RoomInv, TypeOK, RoomType
  <2>2. PeopleType'
    BY <1>0 DEF RoomInv, TypeOK, PeopleType
  <2>3. MatchType'
    BY DEF RoomInv, TypeOK, MatchType
  <2>4. SocketType'
    BY DEF RoomInv, TypeOK, SocketType
  <2>5. TimerType'
    BY DEF RoomInv, TypeOK, TimerType
  <2> QED  BY <2>1, <2>2, <2>3, <2>4, <2>5 DEF TypeOK
<1>2. PeopleInv'
  BY PeopleUnchanged DEF RoomInv
<1>3. MatchInv'
  BY MatchUnchanged DEF RoomInv
<1> QED  BY <1>1, <1>2, <1>3 DEF RoomInv

LEMMA ReadyRematchStep ==
  ASSUME RoomInv, NEW s \in Sockets, NEW g \in Guests, ReadyRematch(s, g)
  PROVE  RoomInv'
<1> USE DEF ReadyRematch, Commands, BeginCountdown
<1>0. g \in connected /\ g \in players /\ socketId[g] = s
  BY SpeakerIsConnected
<1>1. TypeOK'
  <2>1. RoomType'
    BY DEF RoomInv, TypeOK, RoomType, Statuses
  <2>2. PeopleType'
    BY DEF RoomInv, TypeOK, PeopleType
  <2>3. MatchType'
    BY DEF RoomInv, TypeOK, MatchType
  <2>4. SocketType'
    BY DEF RoomInv, TypeOK, SocketType
  <2>5. TimerType'
    BY DEF TimerType
  <2> QED  BY <2>1, <2>2, <2>3, <2>4, <2>5 DEF TypeOK
<1>2. PeopleInv'
  <2>1. HostIsConnected'
    BY DEF RoomInv, PeopleInv, HostIsConnected
  <2>2. OneSocketPerPlayer'
    BY DEF RoomInv, PeopleInv, OneSocketPerPlayer
  <2>3. NoLostPlayer'
    BY DEF RoomInv, PeopleInv, NoLostPlayer
  <2>4. AwayIsTimed'
    BY DEF AwayIsTimed
  <2>5. JobHasSocket'
    BY DEF RoomInv, PeopleInv, JobHasSocket
  <2>6. OwnSocket'
    BY DEF RoomInv, PeopleInv, OwnSocket
  <2> QED  BY <2>1, <2>2, <2>3, <2>4, <2>5, <2>6 DEF PeopleInv
<1>3. MatchInv'
  <2>1. TimersMatchStatus'
    BY DEF TimersMatchStatus
  <2>2. ResultMatchesStatus'
    BY DEF ResultMatchesStatus
  <2>3. NotifiedIsPast'
    BY DEF RoomInv, MatchInv, NotifiedIsPast, RoomType, TypeOK
  <2>4. ForfeitsEndTheMatch'
    BY DEF ForfeitsEndTheMatch
  <2>5. NoRoomIsEmpty'
    BY DEF NoRoomIsEmpty
  <2> QED  BY <2>1, <2>2, <2>3, <2>4, <2>5 DEF MatchInv
<1> QED  BY <1>1, <1>2, <1>3 DEF RoomInv

LEMMA ChangeSettingStep ==
  ASSUME RoomInv, NEW s \in Sockets, NEW g \in Guests, ChangeSetting(s, g)
  PROVE  RoomInv'
<1> USE DEF ChangeSetting, Commands, Settled
<1>0. g \in connected /\ g \in players /\ socketId[g] = s
  BY SpeakerIsConnected
<1>1. TypeOK'
  <2>1. RoomType'
    BY DEF RoomInv, TypeOK, RoomType
  <2>2. PeopleType'
    BY DEF RoomInv, TypeOK, PeopleType
  <2>3. MatchType'
    BY DEF RoomInv, TypeOK, MatchType
  <2>4. SocketType'
    BY DEF RoomInv, TypeOK, SocketType
  <2>5. TimerType'
    BY DEF RoomInv, TypeOK, TimerType
  <2> QED  BY <2>1, <2>2, <2>3, <2>4, <2>5 DEF TypeOK
<1>2. PeopleInv'
  BY PeopleUnchanged DEF RoomInv
<1>3. MatchInv'
  BY MatchUnchanged DEF RoomInv
<1> QED  BY <1>1, <1>2, <1>3 DEF RoomInv

LEMMA ChangeEquipmentStep ==
  ASSUME RoomInv, NEW s \in Sockets, NEW g \in Guests, ChangeEquipment(s, g)
  PROVE  RoomInv'
<1> USE DEF ChangeEquipment, Commands, Settled
<1>0. g \in connected /\ g \in players /\ socketId[g] = s
  BY SpeakerIsConnected
<1>1. TypeOK'
  <2>1. RoomType'
    BY DEF RoomInv, TypeOK, RoomType
  <2>2. PeopleType'
    BY DEF RoomInv, TypeOK, PeopleType
  <2>3. MatchType'
    BY DEF RoomInv, TypeOK, MatchType
  <2>4. SocketType'
    BY DEF RoomInv, TypeOK, SocketType
  <2>5. TimerType'
    BY DEF RoomInv, TypeOK, TimerType
  <2> QED  BY <2>1, <2>2, <2>3, <2>4, <2>5 DEF TypeOK
<1>2. PeopleInv'
  BY PeopleUnchanged DEF RoomInv
<1>3. MatchInv'
  BY MatchUnchanged DEF RoomInv
<1> QED  BY <1>1, <1>2, <1>3 DEF RoomInv

LEMMA StartMatchStep ==
  ASSUME RoomInv, NEW s \in Sockets, NEW g \in Guests, StartMatch(s, g)
  PROVE  RoomInv'
<1> USE DEF StartMatch, Commands, BeginCountdown
<1>0. g \in connected /\ g \in players /\ socketId[g] = s
  BY SpeakerIsConnected
<1>1. TypeOK'
  <2>1. RoomType'
    BY DEF RoomInv, TypeOK, RoomType, Statuses
  <2>2. PeopleType'
    BY DEF RoomInv, TypeOK, PeopleType
  <2>3. MatchType'
    BY DEF RoomInv, TypeOK, MatchType
  <2>4. SocketType'
    BY DEF RoomInv, TypeOK, SocketType
  <2>5. TimerType'
    BY DEF TimerType
  <2> QED  BY <2>1, <2>2, <2>3, <2>4, <2>5 DEF TypeOK
<1>2. PeopleInv'
  <2>1. HostIsConnected'
    BY <1>0 DEF HostIsConnected
  <2>2. OneSocketPerPlayer'
    BY DEF RoomInv, PeopleInv, OneSocketPerPlayer
  <2>3. NoLostPlayer'
    BY DEF RoomInv, PeopleInv, NoLostPlayer
  <2>4. AwayIsTimed'
    BY DEF AwayIsTimed
  <2>5. JobHasSocket'
    BY DEF RoomInv, PeopleInv, JobHasSocket
  <2>6. OwnSocket'
    BY DEF RoomInv, PeopleInv, OwnSocket
  <2> QED  BY <2>1, <2>2, <2>3, <2>4, <2>5, <2>6 DEF PeopleInv
<1>3. MatchInv'
  <2>1. TimersMatchStatus'
    BY DEF TimersMatchStatus
  <2>2. ResultMatchesStatus'
    BY DEF ResultMatchesStatus
  <2>3. NotifiedIsPast'
    BY DEF RoomInv, MatchInv, NotifiedIsPast
  <2>4. ForfeitsEndTheMatch'
    BY DEF ForfeitsEndTheMatch
  <2>5. NoRoomIsEmpty'
    BY DEF NoRoomIsEmpty
  <2> QED  BY <2>1, <2>2, <2>3, <2>4, <2>5 DEF MatchInv
<1> QED  BY <1>1, <1>2, <1>3 DEF RoomInv

LEMMA RematchStep ==
  ASSUME RoomInv, NEW s \in Sockets, NEW g \in Guests, Rematch(s, g)
  PROVE  RoomInv'
<1> USE DEF Rematch, Commands, BeginCountdown
<1>0. g \in connected /\ g \in players /\ socketId[g] = s
  BY SpeakerIsConnected
<1>1. TypeOK'
  <2>1. RoomType'
    BY DEF RoomInv, TypeOK, RoomType, Statuses
  <2>2. PeopleType'
    BY DEF RoomInv, TypeOK, PeopleType
  <2>3. MatchType'
    BY DEF RoomInv, TypeOK, MatchType
  <2>4. SocketType'
    BY DEF RoomInv, TypeOK, SocketType
  <2>5. TimerType'
    BY DEF TimerType
  <2> QED  BY <2>1, <2>2, <2>3, <2>4, <2>5 DEF TypeOK
<1>2. PeopleInv'
  <2>1. HostIsConnected'
    BY <1>0 DEF HostIsConnected
  <2>2. OneSocketPerPlayer'
    BY DEF RoomInv, PeopleInv, OneSocketPerPlayer
  <2>3. NoLostPlayer'
    BY DEF RoomInv, PeopleInv, NoLostPlayer
  <2>4. AwayIsTimed'
    BY DEF AwayIsTimed
  <2>5. JobHasSocket'
    BY DEF RoomInv, PeopleInv, JobHasSocket
  <2>6. OwnSocket'
    BY DEF RoomInv, PeopleInv, OwnSocket
  <2> QED  BY <2>1, <2>2, <2>3, <2>4, <2>5, <2>6 DEF PeopleInv
<1>3. MatchInv'
  <2>1. TimersMatchStatus'
    BY DEF TimersMatchStatus
  <2>2. ResultMatchesStatus'
    BY DEF ResultMatchesStatus
  <2>3. NotifiedIsPast'
    BY DEF RoomInv, MatchInv, NotifiedIsPast, RoomType, TypeOK
  <2>4. ForfeitsEndTheMatch'
    BY DEF ForfeitsEndTheMatch
  <2>5. NoRoomIsEmpty'
    BY DEF NoRoomIsEmpty
  <2> QED  BY <2>1, <2>2, <2>3, <2>4, <2>5 DEF MatchInv
<1> QED  BY <1>1, <1>2, <1>3 DEF RoomInv

LEMMA TypingCountsStep ==
  ASSUME RoomInv, NEW s \in Sockets, NEW g \in Guests, TypingCounts(s, g)
  PROVE  RoomInv'
<1> USE DEF TypingCounts, Commands
<1>0. g \in connected /\ g \in players /\ socketId[g] = s
  BY SpeakerIsConnected
<1>1. TypeOK'
  <2>1. RoomType'
    BY DEF RoomInv, TypeOK, RoomType
  <2>2. PeopleType'
    BY DEF RoomInv, TypeOK, PeopleType
  <2>3. MatchType'
    BY DEF RoomInv, TypeOK, MatchType
  <2>4. SocketType'
    BY DEF RoomInv, TypeOK, SocketType
  <2>5. TimerType'
    BY DEF RoomInv, TypeOK, TimerType
  <2> QED  BY <2>1, <2>2, <2>3, <2>4, <2>5 DEF TypeOK
<1>2. PeopleInv'
  BY PeopleUnchanged DEF RoomInv
<1>3. MatchInv'
  BY MatchUnchanged DEF RoomInv
<1> QED  BY <1>1, <1>2, <1>3 DEF RoomInv

LEMMA TypingDecidesStep ==
  ASSUME RoomInv, NEW s \in Sockets, NEW g \in Guests, TypingDecides(s, g)
  PROVE  RoomInv'
<1> USE DEF TypingDecides, Commands, FinalizeAndNotify, ClearMatchTimers
<1>0. g \in connected /\ g \in players /\ socketId[g] = s
  BY SpeakerIsConnected
<1>1. TypeOK'
  <2>1. RoomType'
    BY DEF RoomInv, TypeOK, RoomType, Statuses
  <2>2. PeopleType'
    BY DEF RoomInv, TypeOK, PeopleType
  <2>3. MatchType'
    BY DEF RoomInv, TypeOK, RoomType, MatchType
  <2>4. SocketType'
    BY DEF RoomInv, TypeOK, SocketType
  <2>5. TimerType'
    BY DEF TimerType
  <2> QED  BY <2>1, <2>2, <2>3, <2>4, <2>5 DEF TypeOK
<1>2. PeopleInv'
  BY PeopleUnchanged DEF RoomInv
<1>3. MatchInv'
  BY DEF RoomInv, MatchInv, TimersMatchStatus, ResultMatchesStatus,
         NotifiedIsPast, ForfeitsEndTheMatch, NoRoomIsEmpty, RoomType, TypeOK
<1> QED  BY <1>1, <1>2, <1>3 DEF RoomInv

LEMMA CountdownFiresStep ==
  ASSUME RoomInv, CountdownFires
  PROVE  RoomInv'
<1> USE DEF CountdownFires, AbortCountdown
<1>1. TypeOK'
  <2>1. RoomType'
    BY DEF RoomInv, TypeOK, RoomType, Statuses
  <2>2. PeopleType'
    BY DEF RoomInv, TypeOK, PeopleType
  <2>3. MatchType'
    <3>1. (result \in Nat /\ notified \in Nat)'
      BY DEF RoomInv, TypeOK, MatchType
    <3>2. (matchEnds \in {"none", "ahead", "passed"})'
      BY DEF RoomInv, TypeOK, MatchType
    <3>3. (suddenDeath \in BOOLEAN)'
      BY DEF RoomInv, TypeOK, MatchType
    <3>4. (idle \in BOOLEAN /\ aged \in BOOLEAN)'
      BY DEF RoomInv, TypeOK, MatchType
    <3> QED  BY <3>1, <3>2, <3>3, <3>4 DEF MatchType
  <2>4. SocketType'
    BY DEF RoomInv, TypeOK, SocketType
  <2>5. TimerType'
    BY DEF RoomInv, TypeOK, TimerType
  <2> QED  BY <2>1, <2>2, <2>3, <2>4, <2>5 DEF TypeOK
<1>2. PeopleInv'
  BY PeopleUnchanged DEF RoomInv
<1>3. MatchInv'
  <2>1. TimersMatchStatus'
    BY DEF RoomInv, MatchInv, TimersMatchStatus
  <2>2. ResultMatchesStatus'
    BY DEF RoomInv, MatchInv, ResultMatchesStatus
  <2>3. NotifiedIsPast'
    BY DEF RoomInv, MatchInv, NotifiedIsPast
  <2>4. ForfeitsEndTheMatch'
    BY DEF RoomInv, MatchInv, ForfeitsEndTheMatch
  <2>5. NoRoomIsEmpty'
    BY DEF RoomInv, MatchInv, NoRoomIsEmpty
  <2> QED  BY <2>1, <2>2, <2>3, <2>4, <2>5 DEF MatchInv
<1> QED  BY <1>1, <1>2, <1>3 DEF RoomInv

LEMMA BotTickDecidesStep ==
  ASSUME RoomInv, BotTickDecides
  PROVE  RoomInv'
<1> USE DEF BotTickDecides, FinalizeAndNotify, ClearMatchTimers
<1>1. TypeOK'
  <2>1. RoomType'
    BY DEF RoomInv, TypeOK, RoomType, Statuses
  <2>2. PeopleType'
    BY DEF RoomInv, TypeOK, PeopleType
  <2>3. MatchType'
    BY DEF RoomInv, TypeOK, RoomType, MatchType
  <2>4. SocketType'
    BY DEF RoomInv, TypeOK, SocketType
  <2>5. TimerType'
    BY DEF TimerType
  <2> QED  BY <2>1, <2>2, <2>3, <2>4, <2>5 DEF TypeOK
<1>2. PeopleInv'
  BY PeopleUnchanged DEF RoomInv
<1>3. MatchInv'
  BY DEF RoomInv, MatchInv, TimersMatchStatus, ResultMatchesStatus,
         NotifiedIsPast, ForfeitsEndTheMatch, NoRoomIsEmpty, RoomType, TypeOK
<1> QED  BY <1>1, <1>2, <1>3 DEF RoomInv

LEMMA CleanupStaleRoomStep ==
  ASSUME RoomInv, CleanupStaleRoom
  PROVE  RoomInv'
<1> USE DEF CleanupStaleRoom, Expired, DropRoom, ClearMatchTimers
<1>1. TypeOK'
  <2>1. RoomType'
    <3>1. (status \in Statuses /\ rule \in Rules)'
      BY DEF RoomInv, TypeOK, RoomType, Statuses
    <3>2. (round \in Nat)'
      BY DEF RoomInv, TypeOK, RoomType
    <3>3. (host \in Guests \cup {NoGuest} /\ players \subseteq Guests)'
      BY DEF RoomInv, TypeOK, RoomType
    <3>4. (bot \in BOOLEAN)'
      BY DEF RoomInv, TypeOK, RoomType
    <3> QED  BY <3>1, <3>2, <3>3, <3>4 DEF RoomType
  <2>2. PeopleType'
    BY DEF RoomInv, TypeOK, PeopleType
  <2>3. MatchType'
    <3>1. (result \in Nat /\ notified \in Nat)'
      BY DEF RoomInv, TypeOK, MatchType
    <3>2. (matchEnds \in {"none", "ahead", "passed"})'
      BY DEF RoomInv, TypeOK, MatchType
    <3>3. (suddenDeath \in BOOLEAN)'
      BY DEF RoomInv, TypeOK, MatchType
    <3>4. (idle \in BOOLEAN /\ aged \in BOOLEAN)'
      BY DEF RoomInv, TypeOK, MatchType
    <3> QED  BY <3>1, <3>2, <3>3, <3>4 DEF MatchType
  <2>4. SocketType'
    BY DEF RoomInv, TypeOK, SocketType, Jobs
  <2>5. TimerType'
    BY DEF RoomInv, TypeOK, TimerType
  <2> QED  BY <2>1, <2>2, <2>3, <2>4, <2>5 DEF TypeOK
<1>2. PeopleInv'
  <2>1. HostIsConnected'
    BY DEF RoomInv, PeopleInv, HostIsConnected
  <2>2. OneSocketPerPlayer'
    BY DEF RoomInv, PeopleInv, OneSocketPerPlayer
  <2>3. NoLostPlayer'
    BY DEF RoomInv, PeopleInv, NoLostPlayer
  <2>4. AwayIsTimed'
    BY DEF RoomInv, PeopleInv, AwayIsTimed
  <2>5. JobHasSocket'
    BY DEF RoomInv, PeopleInv, JobHasSocket
  <2>6. OwnSocket'
    BY DEF RoomInv, PeopleInv, OwnSocket
  <2> QED  BY <2>1, <2>2, <2>3, <2>4, <2>5, <2>6 DEF PeopleInv
<1>3. MatchInv'
  <2>1. TimersMatchStatus'
    BY DEF RoomInv, MatchInv, TimersMatchStatus
  <2>2. ResultMatchesStatus'
    BY DEF RoomInv, MatchInv, ResultMatchesStatus
  <2>3. NotifiedIsPast'
    BY DEF RoomInv, MatchInv, NotifiedIsPast
  <2>4. ForfeitsEndTheMatch'
    BY DEF RoomInv, MatchInv, ForfeitsEndTheMatch
  <2>5. NoRoomIsEmpty'
    BY DEF RoomInv, MatchInv, NoRoomIsEmpty
  <2> QED  BY <2>1, <2>2, <2>3, <2>4, <2>5 DEF MatchInv
<1> QED  BY <1>1, <1>2, <1>3 DEF RoomInv

LEMMA CleanupDisconnectedPlayersStep ==
  ASSUME RoomInv, CleanupDisconnectedPlayers
  PROVE  RoomInv'
<1> USE DEF CleanupDisconnectedPlayers, Settled, EnsuredHosts, NextHosts
<1>1. TypeOK'
  <2>1. RoomType'
    BY DEF RoomInv, TypeOK, RoomType, PeopleType, Statuses
  <2>2. PeopleType'
    BY DEF RoomInv, TypeOK, PeopleType
  <2>3. MatchType'
    <3>1. (result \in Nat /\ notified \in Nat)'
      BY DEF RoomInv, TypeOK, MatchType
    <3>2. (matchEnds \in {"none", "ahead", "passed"})'
      BY DEF RoomInv, TypeOK, MatchType
    <3>3. (suddenDeath \in BOOLEAN)'
      BY DEF RoomInv, TypeOK, MatchType
    <3>4. (idle \in BOOLEAN /\ aged \in BOOLEAN)'
      BY DEF RoomInv, TypeOK, MatchType
    <3> QED  BY <3>1, <3>2, <3>3, <3>4 DEF MatchType
  <2>4. SocketType'
    BY DEF RoomInv, TypeOK, SocketType, Jobs
  <2>5. TimerType'
    BY DEF RoomInv, TypeOK, TimerType
  <2> QED  BY <2>1, <2>2, <2>3, <2>4, <2>5 DEF TypeOK
<1>2. PeopleInv'
  <2>1. HostIsConnected'
    BY DEF RoomInv, PeopleInv, HostIsConnected
  <2>2. OneSocketPerPlayer'
    BY DEF RoomInv, PeopleInv, OneSocketPerPlayer
  <2>3. NoLostPlayer'
    BY DEF RoomInv, PeopleInv, NoLostPlayer, RoomType, PeopleType, TypeOK
  <2>4. AwayIsTimed'
    BY DEF RoomInv, PeopleInv, AwayIsTimed
  <2>5. JobHasSocket'
    BY DEF RoomInv, PeopleInv, JobHasSocket
  <2>6. OwnSocket'
    BY DEF RoomInv, PeopleInv, OwnSocket
  <2> QED  BY <2>1, <2>2, <2>3, <2>4, <2>5, <2>6 DEF PeopleInv
<1>3. MatchInv'
  <2>1. TimersMatchStatus'
    BY DEF RoomInv, MatchInv, TimersMatchStatus
  <2>2. ResultMatchesStatus'
    BY DEF RoomInv, MatchInv, ResultMatchesStatus
  <2>3. NotifiedIsPast'
    BY DEF RoomInv, MatchInv, NotifiedIsPast, RoomType, TypeOK
  <2>4. ForfeitsEndTheMatch'
    BY DEF RoomInv, MatchInv, ForfeitsEndTheMatch
  <2>5. NoRoomIsEmpty'
    BY DEF RoomInv, MatchInv, NoRoomIsEmpty
  <2> QED  BY <2>1, <2>2, <2>3, <2>4, <2>5 DEF MatchInv
<1> QED  BY <1>1, <1>2, <1>3 DEF RoomInv

LEMMA HandleForfeitsStep ==
  ASSUME RoomInv, HandleForfeits
  PROVE  RoomInv'
<1> USE DEF HandleForfeits, FinalizeAndNotify, ClearMatchTimers
<1>1. TypeOK'
  <2>1. RoomType'
    BY DEF RoomInv, TypeOK, RoomType, Statuses
  <2>2. PeopleType'
    BY DEF RoomInv, TypeOK, PeopleType
  <2>3. MatchType'
    BY DEF RoomInv, TypeOK, RoomType, MatchType
  <2>4. SocketType'
    BY DEF RoomInv, TypeOK, SocketType, Jobs
  <2>5. TimerType'
    BY DEF RoomInv, TypeOK, TimerType
  <2> QED  BY <2>1, <2>2, <2>3, <2>4, <2>5 DEF TypeOK
<1>2. PeopleInv'
  BY DEF RoomInv, PeopleInv, HostIsConnected, OneSocketPerPlayer,
         NoLostPlayer, AwayIsTimed, JobHasSocket, OwnSocket
<1>3. MatchInv'
  <2>1. TimersMatchStatus'
    BY DEF RoomInv, MatchInv, TimersMatchStatus
  <2>2. ResultMatchesStatus'
    BY DEF RoomInv, MatchInv, ResultMatchesStatus
  <2>3. NotifiedIsPast'
    BY DEF RoomInv, MatchInv, NotifiedIsPast, RoomType, TypeOK
  <2>4. ForfeitsEndTheMatch'
    BY DEF RoomInv, MatchInv, ForfeitsEndTheMatch
  <2>5. NoRoomIsEmpty'
    BY DEF RoomInv, MatchInv, NoRoomIsEmpty
  <2> QED  BY <2>1, <2>2, <2>3, <2>4, <2>5 DEF MatchInv
<1> QED  BY <1>1, <1>2, <1>3 DEF RoomInv

LEMMA HandleExpirationsStep ==
  ASSUME RoomInv, HandleExpirations
  PROVE  RoomInv'
<1> USE DEF HandleExpirations, EndRequest, FinalizeAndNotify, ClearMatchTimers
<1>1. TypeOK'
  <2>1. RoomType'
    BY DEF RoomInv, TypeOK, RoomType, Statuses
  <2>2. PeopleType'
    BY DEF RoomInv, TypeOK, PeopleType
  <2>3. MatchType'
    BY DEF RoomInv, TypeOK, RoomType, MatchType
  <2>4. SocketType'
    BY DEF RoomInv, TypeOK, SocketType, Jobs
  <2>5. TimerType'
    BY DEF RoomInv, TypeOK, TimerType
  <2> QED  BY <2>1, <2>2, <2>3, <2>4, <2>5 DEF TypeOK
<1>2. PeopleInv'
  BY DEF RoomInv, PeopleInv, HostIsConnected, OneSocketPerPlayer,
         NoLostPlayer, AwayIsTimed, JobHasSocket, OwnSocket
<1>3. MatchInv'
  <2>1. TimersMatchStatus'
    BY DEF RoomInv, MatchInv, TimersMatchStatus
  <2>2. ResultMatchesStatus'
    BY DEF RoomInv, MatchInv, ResultMatchesStatus
  <2>3. NotifiedIsPast'
    BY DEF RoomInv, MatchInv, NotifiedIsPast, RoomType, TypeOK
  <2>4. ForfeitsEndTheMatch'
    BY DEF RoomInv, MatchInv, ForfeitsEndTheMatch
  <2>5. NoRoomIsEmpty'
    BY DEF RoomInv, MatchInv, NoRoomIsEmpty
  <2> QED  BY <2>1, <2>2, <2>3, <2>4, <2>5 DEF MatchInv
<1> QED  BY <1>1, <1>2, <1>3 DEF RoomInv

LEMMA GraceElapsesStep ==
  ASSUME RoomInv, NEW g \in Guests, GraceElapses(g)
  PROVE  RoomInv'
<1> USE DEF GraceElapses
<1>1. TypeOK'
  BY DEF RoomInv, TypeOK, RoomType, PeopleType, MatchType, SocketType,
         TimerType
<1>2. PeopleInv'
  BY PeopleUnchanged DEF RoomInv
<1>3. MatchInv'
  BY MatchUnchanged DEF RoomInv
<1> QED  BY <1>1, <1>2, <1>3 DEF RoomInv

LEMMA IdleElapsesStep ==
  ASSUME RoomInv, IdleElapses
  PROVE  RoomInv'
<1> USE DEF IdleElapses
<1>1. TypeOK'
  BY DEF RoomInv, TypeOK, RoomType, PeopleType, MatchType, SocketType,
         TimerType
<1>2. PeopleInv'
  BY PeopleUnchanged DEF RoomInv
<1>3. MatchInv'
  BY MatchUnchanged DEF RoomInv
<1> QED  BY <1>1, <1>2, <1>3 DEF RoomInv

LEMMA RetentionElapsesStep ==
  ASSUME RoomInv, RetentionElapses
  PROVE  RoomInv'
<1> USE DEF RetentionElapses
<1>1. TypeOK'
  BY DEF RoomInv, TypeOK, RoomType, PeopleType, MatchType, SocketType,
         TimerType
<1>2. PeopleInv'
  BY PeopleUnchanged DEF RoomInv
<1>3. MatchInv'
  BY MatchUnchanged DEF RoomInv
<1> QED  BY <1>1, <1>2, <1>3 DEF RoomInv

LEMMA MatchTimeElapsesStep ==
  ASSUME RoomInv, MatchTimeElapses
  PROVE  RoomInv'
<1> USE DEF MatchTimeElapses
<1>1. TypeOK'
  BY DEF RoomInv, TypeOK, RoomType, PeopleType, MatchType, SocketType,
         TimerType
<1>2. PeopleInv'
  BY PeopleUnchanged DEF RoomInv
<1>3. MatchInv'
  BY MatchUnchanged DEF RoomInv
<1> QED  BY <1>1, <1>2, <1>3 DEF RoomInv

LEMMA RestartStep ==
  ASSUME RoomInv, Restart
  PROVE  RoomInv'
<1> USE DEF Restart, EnsuredHosts, NextHosts
<1>1. TypeOK'
  BY DEF RoomInv, TypeOK, RoomType, PeopleType, MatchType, SocketType,
         TimerType, Jobs
<1>2. PeopleInv'
  <2>1. HostIsConnected'
    BY DEF HostIsConnected
  <2>2. OneSocketPerPlayer'
    BY DEF OneSocketPerPlayer
  <2>3. NoLostPlayer'
    BY DEF NoLostPlayer
  <2>4. AwayIsTimed'
    BY DEF AwayIsTimed
  <2>5. JobHasSocket'
    BY DEF JobHasSocket
  <2>6. OwnSocket'
    BY DEF OwnSocket
  <2> QED  BY <2>1, <2>2, <2>3, <2>4, <2>5, <2>6 DEF PeopleInv
<1>3. MatchInv'
  <2>1. TimersMatchStatus'
    BY DEF TimersMatchStatus
  <2>2. ResultMatchesStatus'
    BY DEF RoomInv, MatchInv, ResultMatchesStatus
  <2>3. NotifiedIsPast'
    BY DEF RoomInv, MatchInv, NotifiedIsPast, RoomType, MatchType, TypeOK
  <2>4. ForfeitsEndTheMatch'
    BY DEF RoomInv, MatchInv, ForfeitsEndTheMatch
  <2>5. NoRoomIsEmpty'
    BY DEF RoomInv, MatchInv, NoRoomIsEmpty
  <2> QED  BY <2>1, <2>2, <2>3, <2>4, <2>5 DEF MatchInv
<1> QED  BY <1>1, <1>2, <1>3 DEF RoomInv

LEMMA SetMatchRuleStep ==
  ASSUME RoomInv, NEW s \in Sockets, NEW g \in Guests, NEW r \in Rules, SetMatchRule(s, g, r)
  PROVE  RoomInv'
<1> USE DEF SetMatchRule, Commands, Settled
<1>0. g \in connected /\ g \in players /\ socketId[g] = s
  BY SpeakerIsConnected
<1>1. TypeOK'
  <2>1. RoomType'
    BY DEF RoomInv, TypeOK, RoomType
  <2>2. PeopleType'
    BY DEF RoomInv, TypeOK, PeopleType
  <2>3. MatchType'
    BY DEF RoomInv, TypeOK, MatchType
  <2>4. SocketType'
    BY DEF RoomInv, TypeOK, SocketType
  <2>5. TimerType'
    BY DEF RoomInv, TypeOK, TimerType
  <2> QED  BY <2>1, <2>2, <2>3, <2>4, <2>5 DEF TypeOK
<1>2. PeopleInv'
  BY PeopleUnchanged DEF RoomInv
<1>3. MatchInv'
  BY MatchUnchanged DEF RoomInv
<1> QED  BY <1>1, <1>2, <1>3 DEF RoomInv

LEMMA StutterStep == ASSUME RoomInv, UNCHANGED vars PROVE RoomInv'
<1> USE DEF vars
<1>1. TypeOK'
  BY DEF RoomInv, TypeOK, RoomType, PeopleType, MatchType, SocketType,
         TimerType
<1>2. PeopleInv'
  BY PeopleUnchanged DEF RoomInv
<1>3. MatchInv'
  BY MatchUnchanged DEF RoomInv
<1> QED  BY <1>1, <1>2, <1>3 DEF RoomInv

-----------------------------------------------------------------------------
LEMMA RoomInvInit == Init => RoomInv
<1> SUFFICES ASSUME Init PROVE RoomInv
  OBVIOUS
<1> USE DEF Init
<1>1. TypeOK
  <2>1. RoomType
    BY DEF RoomType, Statuses
  <2>2. PeopleType
    BY DEF PeopleType
  <2>3. MatchType
    BY DEF MatchType
  <2>4. SocketType
    BY DEF SocketType, Jobs
  <2>5. TimerType
    BY DEF TimerType
  <2> QED  BY <2>1, <2>2, <2>3, <2>4, <2>5 DEF TypeOK
<1>2. PeopleInv
  BY DEF PeopleInv, HostIsConnected, OneSocketPerPlayer, NoLostPlayer,
         AwayIsTimed, JobHasSocket, OwnSocket
<1>3. MatchInv
  BY DEF MatchInv, TimersMatchStatus, ResultMatchesStatus, NotifiedIsPast,
         ForfeitsEndTheMatch, NoRoomIsEmpty
<1> QED  BY <1>1, <1>2, <1>3 DEF RoomInv

LEMMA RoomInvNext == RoomInv /\ [Next]_vars => RoomInv'
<1> SUFFICES ASSUME RoomInv, [Next]_vars PROVE RoomInv'
  OBVIOUS
<1>1. ASSUME NEW s \in Sockets, SocketStep(s) PROVE RoomInv'
  BY <1>1, AttachSocketStep, CloseEventStep, UnjoinedTimeoutStep,
     DisconnectSocketStep, BeginRequestStep DEF SocketStep
<1>2. ASSUME NEW s \in Sockets, NEW g \in Guests, PlayerStep(s, g)
      PROVE  RoomInv'
  BY <1>2, LeaveMatchStep, LeaveCountdownStep, LeaveSettledStep, SetReadyStep,
     ReadyRematchStep, ChangeSettingStep, ChangeEquipmentStep,
     SetMatchRuleStep, StartMatchStep, RematchStep, TypingCountsStep,
     TypingDecidesStep DEF PlayerStep
<1>3. CASE RequestStep
  BY <1>3, FinishCreateStep, RefuseCreateStep, FinishRejoinStep,
     FinishJoinStep, RefuseJoinStep DEF RequestStep
<1>4. CASE TimerStep
  BY <1>4, CountdownFiresStep, BotTickDecidesStep DEF TimerStep
<1>5. CASE MaintenanceStep
  BY <1>5, CleanupStaleRoomStep, CleanupDisconnectedPlayersStep,
     HandleForfeitsStep, HandleExpirationsStep DEF MaintenanceStep
<1>6. CASE TimeStep
  BY <1>6, GraceElapsesStep, IdleElapsesStep, RetentionElapsesStep,
     MatchTimeElapsesStep DEF TimeStep
<1>7. CASE Restart
  BY <1>7, RestartStep
<1>8. CASE UNCHANGED vars
  BY <1>8, StutterStep
<1> QED  BY <1>1, <1>2, <1>3, <1>4, <1>5, <1>6, <1>7, <1>8 DEF Next, Live

\* RoomInv holds in every reachable state: however joins, leaves, closes,
\* timers, maintenance and restarts interleave, the host is connected, each
\* connected player has one socket, each absent one a deadline, each timer
\* that is needed is armed, and a result belongs to its round.
THEOREM RoomInvariant == Spec => []RoomInv
<1>1. Init => RoomInv
  BY RoomInvInit
<1>2. RoomInv /\ [Next]_vars => RoomInv'
  BY RoomInvNext
<1> QED  BY <1>1, <1>2, PTL DEF Spec

\* Type correctness of the room authority.
THEOREM TypeCorrect == Spec => []TypeOK
<1>1. RoomInv => TypeOK
  BY DEF RoomInv
<1> QED  BY <1>1, RoomInvariant, PTL

(* The safety properties of the runs, for every value of the constants.    *)

\* As long as a human is connected, one of them is the host, whatever leaves,
\* losses, rejoins and cleanups went before.
THEOREM HostStaysConnected == Spec => []HostIsConnected
<1>1. RoomInv => HostIsConnected
  BY DEF RoomInv, PeopleInv
<1> QED  BY <1>1, RoomInvariant, PTL

\* A replaced, left or timed-out socket never speaks for a player, for any
\* number of guests, sockets and replacements.
THEOREM SocketsSpeakForTheirPlayers == Spec => []OneSocketPerPlayer
<1>1. RoomInv => OneSocketPerPlayer
  BY DEF RoomInv, PeopleInv
<1> QED  BY <1>1, RoomInvariant, PTL

\* A connected player whose socket is gone has a disconnect job waiting.
THEOREM NobodyIsLost == Spec => []NoLostPlayer
<1>1. RoomInv => NoLostPlayer
  BY DEF RoomInv, PeopleInv
<1> QED  BY <1>1, RoomInvariant, PTL

\* Exactly the absent humans have a disconnectedAt to be judged by.
THEOREM AbsenceIsTimed == Spec => []AwayIsTimed
<1>1. RoomInv => AwayIsTimed
  BY DEF RoomInv, PeopleInv
<1> QED  BY <1>1, RoomInvariant, PTL

\* Timers, results, forfeits and announcements belong to the status and the
\* round of the room, through any number of rounds, rematches and restarts.
THEOREM MatchIsConsistent == Spec => []MatchInv
<1>1. RoomInv => MatchInv
  BY DEF RoomInv
<1> QED  BY <1>1, RoomInvariant, PTL

-----------------------------------------------------------------------------
(* The action properties, one lemma about a step for each.                 *)

LEMMA StartsTogetherStep ==
  ASSUME RoomInv, [Next]_vars
  PROVE  status # "playing" /\ status' = "playing"
      => status = "countdown" /\ connected' = players' /\ players' # {}
<1> DEFINE A == status # "playing" /\ status' = "playing"
      => status = "countdown" /\ connected' = players' /\ players' # {}
<1> SUFFICES A OBVIOUS
<1>1. ASSUME NEW s \in Sockets, SocketStep(s) PROVE A
  BY <1>1 DEF SocketStep, AttachSocket, CloseEvent, UnjoinedTimeout,
         DisconnectSocket, GoOffline, AbortCountdown, BeginRequest
<1>2. ASSUME NEW s \in Sockets, NEW g \in Guests, PlayerStep(s, g) PROVE A
  BY <1>2 DEF PlayerStep, LeaveMatch, LeaveCountdown, LeaveSettled, SetReady,
         ReadyRematch, ChangeSetting, ChangeEquipment, SetMatchRule,
         StartMatch, Rematch, TypingCounts, TypingDecides, BeginCountdown,
         DropRoom, GoOffline, AbortCountdown
<1>3. ASSUME RequestStep PROVE A
  BY <1>3 DEF RequestStep, FinishCreate, RefuseCreate, FinishRejoin,
         FinishJoin, RefuseJoin, RefuseRequest
<1>4. ASSUME TimerStep PROVE A
  <2>1. CASE CountdownFires
    <3> SUFFICES ASSUME status # "playing", status' = "playing"
                 PROVE  /\ status = "countdown"
                        /\ connected' = players' /\ players' # {}
      OBVIOUS
    <3>1. status = "countdown"
      BY <2>1 DEF CountdownFires
    <3>2. players # {} /\ players \ connected = {}
      BY <2>1, <3>1 DEF CountdownFires, AbortCountdown
    <3>3. connected \subseteq players /\ UNCHANGED <<players, connected>>
      BY <2>1 DEF CountdownFires, RoomInv, TypeOK, RoomType, PeopleType
    <3> QED  BY <3>1, <3>2, <3>3
  <2>2. CASE BotTickDecides
    BY <2>2 DEF BotTickDecides
  <2> QED  BY <1>4, <2>1, <2>2 DEF TimerStep
<1>5. ASSUME MaintenanceStep PROVE A
  BY <1>5 DEF MaintenanceStep, CleanupStaleRoom, CleanupDisconnectedPlayers,
         HandleForfeits, HandleExpirations, DropRoom
<1>6. ASSUME TimeStep PROVE A
  BY <1>6 DEF TimeStep, GraceElapses, IdleElapses, RetentionElapses,
         MatchTimeElapses
<1>7. ASSUME Restart PROVE A
  BY <1>7 DEF Restart
<1>8. CASE UNCHANGED vars
  BY <1>8 DEF vars
<1> QED  BY <1>1, <1>2, <1>3, <1>4, <1>5, <1>6, <1>7, <1>8 DEF Next, Live

\* However joins, losses and the countdown interleave, a match begins with
\* every player connected.
THEOREM AlwaysStartsTogether == Spec => StartsTogether
<1>1. RoomInv /\ [Next]_vars => [status # "playing" /\ status' = "playing"
      => status = "countdown" /\ connected' = players' /\ players' # {}]_vars
  BY StartsTogetherStep
<1> QED  BY <1>1, RoomInvariant, PTL DEF Spec, StartsTogether

LEMMA ResultStaysStep ==
  ASSUME RoomInv, [Next]_vars
  PROVE  result # 0 /\ result' # result
      => status' = "none" \/ (result' = 0 /\ round' > round)
<1> DEFINE A == result # 0 /\ result' # result
      => status' = "none" \/ (result' = 0 /\ round' > round)
<1> SUFFICES A OBVIOUS
<1>1. ASSUME NEW s \in Sockets, SocketStep(s) PROVE A
  BY <1>1 DEF RoomInv, MatchInv, ResultMatchesStatus, SocketStep,
         AttachSocket, CloseEvent, UnjoinedTimeout, DisconnectSocket,
         GoOffline, BeginRequest
<1>2. ASSUME NEW s \in Sockets, NEW g \in Guests, PlayerStep(s, g) PROVE A
  BY <1>2 DEF RoomInv, TypeOK, MatchType, MatchInv, ResultMatchesStatus,
         PlayerStep, LeaveMatch, LeaveCountdown, LeaveSettled, SetReady,
         ReadyRematch, ChangeSetting, ChangeEquipment, SetMatchRule,
         StartMatch, Rematch, TypingCounts, TypingDecides, BeginCountdown,
         DropRoom
<1>3. ASSUME RequestStep PROVE A
  BY <1>3 DEF RequestStep, FinishCreate, RefuseCreate, FinishRejoin,
         FinishJoin, RefuseJoin, RefuseRequest
<1>4. ASSUME TimerStep PROVE A
  BY <1>4 DEF RoomInv, MatchInv, ResultMatchesStatus, TimerStep,
         CountdownFires, BotTickDecides
<1>5. ASSUME MaintenanceStep PROVE A
  BY <1>5 DEF RoomInv, TypeOK, RoomType, MatchInv, ResultMatchesStatus,
         MaintenanceStep, CleanupStaleRoom, CleanupDisconnectedPlayers,
         HandleForfeits, HandleExpirations, DropRoom
<1>6. ASSUME TimeStep PROVE A
  BY <1>6 DEF TimeStep, GraceElapses, IdleElapses, RetentionElapses,
         MatchTimeElapses
<1>7. ASSUME Restart PROVE A
  BY <1>7 DEF Restart
<1>8. CASE UNCHANGED vars
  BY <1>8 DEF vars
<1> QED  BY <1>1, <1>2, <1>3, <1>4, <1>5, <1>6, <1>7, <1>8 DEF Next, Live

LEMMA AnnouncedOnceStep ==
  ASSUME RoomInv, [Next]_vars
  PROVE  notified' \notin {0, notified}
      => status' = "finished" /\ notified' = round' /\ notified' > notified
<1> DEFINE A == notified' \notin {0, notified}
      => status' = "finished" /\ notified' = round' /\ notified' > notified
<1> SUFFICES A OBVIOUS
<1>1. ASSUME NEW s \in Sockets, SocketStep(s) PROVE A
  BY <1>1 DEF SocketStep, AttachSocket, CloseEvent, UnjoinedTimeout,
         DisconnectSocket, GoOffline, BeginRequest
<1>2. ASSUME NEW s \in Sockets, NEW g \in Guests, PlayerStep(s, g) PROVE A
  BY <1>2 DEF RoomInv, TypeOK, MatchType, MatchInv, ResultMatchesStatus,
         NotifiedIsPast, PlayerStep, LeaveMatch, LeaveCountdown, LeaveSettled,
         SetReady, ReadyRematch, ChangeSetting, ChangeEquipment, SetMatchRule,
         StartMatch, Rematch, TypingCounts, TypingDecides, BeginCountdown,
         FinalizeAndNotify, GoOffline
<1>3. ASSUME RequestStep PROVE A
  BY <1>3 DEF RequestStep, FinishCreate, RefuseCreate, FinishRejoin,
         FinishJoin, RefuseJoin, RefuseRequest
<1>4. ASSUME TimerStep PROVE A
  BY <1>4 DEF RoomInv, MatchInv, NotifiedIsPast, TimerStep, CountdownFires,
         BotTickDecides, FinalizeAndNotify
<1>5. ASSUME MaintenanceStep PROVE A
  BY <1>5 DEF RoomInv, MatchInv, NotifiedIsPast, MaintenanceStep,
         CleanupStaleRoom, CleanupDisconnectedPlayers, HandleForfeits,
         HandleExpirations, FinalizeAndNotify
<1>6. ASSUME TimeStep PROVE A
  BY <1>6 DEF TimeStep, GraceElapses, IdleElapses, RetentionElapses,
         MatchTimeElapses
<1>7. ASSUME Restart PROVE A
  BY <1>7 DEF Restart
<1>8. CASE UNCHANGED vars
  BY <1>8 DEF vars
<1> QED  BY <1>1, <1>2, <1>3, <1>4, <1>5, <1>6, <1>7, <1>8 DEF Next, Live

LEMMA EndIsAnnouncedStep ==
  ASSUME RoomInv, [Next]_vars
  PROVE  status = "playing" /\ status' = "finished"
      => notified' = round /\ ~countdownTimer' /\ ~botTimer'
<1> DEFINE A == status = "playing" /\ status' = "finished"
      => notified' = round /\ ~countdownTimer' /\ ~botTimer'
<1> SUFFICES A OBVIOUS
<1>1. ASSUME NEW s \in Sockets, SocketStep(s) PROVE A
  BY <1>1 DEF SocketStep, AttachSocket, CloseEvent, UnjoinedTimeout,
         DisconnectSocket, GoOffline, BeginRequest
<1>2. ASSUME NEW s \in Sockets, NEW g \in Guests, PlayerStep(s, g) PROVE A
  BY <1>2 DEF PlayerStep, LeaveMatch, LeaveCountdown, LeaveSettled, SetReady,
         ReadyRematch, ChangeSetting, ChangeEquipment, SetMatchRule,
         StartMatch, Rematch, TypingCounts, TypingDecides, FinalizeAndNotify,
         ClearMatchTimers, DropRoom
<1>3. ASSUME RequestStep PROVE A
  BY <1>3 DEF RequestStep, FinishCreate, RefuseCreate, FinishRejoin,
         FinishJoin, RefuseJoin, RefuseRequest
<1>4. ASSUME TimerStep PROVE A
  BY <1>4 DEF TimerStep, CountdownFires, BotTickDecides, FinalizeAndNotify,
         ClearMatchTimers
<1>5. ASSUME MaintenanceStep PROVE A
  BY <1>5 DEF MaintenanceStep, CleanupStaleRoom, CleanupDisconnectedPlayers,
         HandleForfeits, HandleExpirations, DropRoom, FinalizeAndNotify,
         ClearMatchTimers
<1>6. ASSUME TimeStep PROVE A
  BY <1>6 DEF TimeStep, GraceElapses, IdleElapses, RetentionElapses,
         MatchTimeElapses
<1>7. ASSUME Restart PROVE A
  BY <1>7 DEF Restart
<1>8. CASE UNCHANGED vars
  BY <1>8 DEF vars
<1> QED  BY <1>1, <1>2, <1>3, <1>4, <1>5, <1>6, <1>7, <1>8 DEF Next, Live

\* Each of the ways a match ends announces the round and stops the timers, and
\* nothing announces it again (notifyMatchFinalized).
THEOREM AlwaysAnnouncedOnce == Spec => AnnouncedOnce
<1> DEFINE Announces ==
      /\ status = "playing" /\ status' = "finished"
           => notified' = round /\ ~countdownTimer' /\ ~botTimer'
      /\ notified' \notin {0, notified}
           => status' = "finished" /\ notified' = round' /\ notified' > notified
<1>1. RoomInv /\ [Next]_vars => [Announces]_vars
  BY AnnouncedOnceStep, EndIsAnnouncedStep
<1> QED  BY <1>1, RoomInvariant, PTL DEF Spec, AnnouncedOnce

LEMMA ForfeitIsEarnedStep ==
  ASSUME RoomInv, [Next]_vars
  PROVE  \A h \in forfeited' \ forfeited :
      h \notin connected' /\ (h \in overdue \/ h \in connected)
<1> DEFINE A == \A h \in forfeited' \ forfeited :
      h \notin connected' /\ (h \in overdue \/ h \in connected)
<1> SUFFICES A OBVIOUS
<1>1. ASSUME NEW s \in Sockets, SocketStep(s) PROVE A
  BY <1>1 DEF SocketStep, AttachSocket, CloseEvent, UnjoinedTimeout,
         DisconnectSocket, GoOffline, AbortCountdown, BeginRequest
<1>2. ASSUME NEW s \in Sockets, NEW g \in Guests, PlayerStep(s, g) PROVE A
  BY <1>2, SpeakerIsConnected DEF PlayerStep, LeaveMatch, LeaveCountdown,
         LeaveSettled, SetReady, ReadyRematch, ChangeSetting, ChangeEquipment,
         SetMatchRule, StartMatch, Rematch, TypingCounts, TypingDecides,
         BeginCountdown, DropRoom, GoOffline, AbortCountdown, Commands
<1>3. ASSUME RequestStep PROVE A
  BY <1>3 DEF RequestStep, FinishCreate, RefuseCreate, FinishRejoin,
         FinishJoin, RefuseJoin, RefuseRequest
<1>4. ASSUME TimerStep PROVE A
  BY <1>4 DEF TimerStep, CountdownFires, BotTickDecides, AbortCountdown
<1>5. ASSUME MaintenanceStep PROVE A
  BY <1>5 DEF MaintenanceStep, CleanupStaleRoom, CleanupDisconnectedPlayers,
         HandleForfeits, HandleExpirations, DropRoom
<1>6. ASSUME TimeStep PROVE A
  BY <1>6 DEF TimeStep, GraceElapses, IdleElapses, RetentionElapses,
         MatchTimeElapses
<1>7. ASSUME Restart PROVE A
  BY <1>7 DEF Restart
<1>8. CASE UNCHANGED vars
  BY <1>8 DEF vars
<1> QED  BY <1>1, <1>2, <1>3, <1>4, <1>5, <1>6, <1>7, <1>8 DEF Next, Live

\* Only players who left the match or were away for the whole grace time
\* forfeit.
THEOREM AlwaysForfeitIsEarned == Spec => ForfeitIsEarned
<1>1. RoomInv /\ [Next]_vars => [\A g \in forfeited' \ forfeited :
      g \notin connected' /\ (g \in overdue \/ g \in connected)]_vars
  BY ForfeitIsEarnedStep
<1> QED  BY <1>1, RoomInvariant, PTL DEF Spec, ForfeitIsEarned

LEMMA SeatIsKeptStep ==
  ASSUME RoomInv, [Next]_vars
  PROVE  \A h \in players \ players' :
      \/ status' = "none" /\ connected = {}
      \/ h \in overdue \ connected
      \/ \E t \in Sockets : socketPlayer[t] = h /\ socketPlayer'[t] = NoGuest
<1> DEFINE A == \A h \in players \ players' :
      \/ status' = "none" /\ connected = {}
      \/ h \in overdue \ connected
      \/ \E t \in Sockets : socketPlayer[t] = h /\ socketPlayer'[t] = NoGuest
<1> SUFFICES A OBVIOUS
<1>1. ASSUME NEW s \in Sockets, SocketStep(s) PROVE A
  BY <1>1 DEF SocketStep, AttachSocket, CloseEvent, UnjoinedTimeout,
         DisconnectSocket, GoOffline, BeginRequest
<1>2. ASSUME NEW s \in Sockets, NEW g \in Guests, PlayerStep(s, g) PROVE A
  <2>1. CASE LeaveSettled(s, g)
    <3>1. socketPlayer[s] = g /\ socketPlayer'[s] = NoGuest
      BY <2>1 DEF LeaveSettled, Commands, RoomInv, TypeOK, SocketType
    <3>2. CASE players = {g} /\ ~bot
      BY <3>1, <3>2
    <3>3. CASE ~(players = {g} /\ ~bot)
      <4>1. players' = players \ {g}
        BY <2>1, <3>3 DEF LeaveSettled
      <4> QED  BY <3>1, <4>1
    <3> QED  BY <3>2, <3>3
  <2>2. CASE ~LeaveSettled(s, g)
    BY <1>2, <2>2 DEF PlayerStep, LeaveMatch, LeaveCountdown, SetReady,
         ReadyRematch, ChangeSetting, ChangeEquipment, SetMatchRule,
         StartMatch, Rematch, TypingCounts, TypingDecides, BeginCountdown,
         GoOffline
  <2> QED  BY <2>1, <2>2
<1>3. ASSUME RequestStep PROVE A
  BY <1>3 DEF RoomInv, MatchInv, NoRoomIsEmpty, RequestStep, FinishCreate,
         RefuseCreate, FinishRejoin, FinishJoin, RefuseJoin, RefuseRequest
<1>4. ASSUME TimerStep PROVE A
  BY <1>4 DEF TimerStep, CountdownFires, BotTickDecides
<1>5. ASSUME MaintenanceStep PROVE A
  BY <1>5 DEF MaintenanceStep, CleanupStaleRoom, CleanupDisconnectedPlayers,
         HandleForfeits, HandleExpirations, Expired, DropRoom
<1>6. ASSUME TimeStep PROVE A
  BY <1>6 DEF TimeStep, GraceElapses, IdleElapses, RetentionElapses,
         MatchTimeElapses
<1>7. ASSUME Restart PROVE A
  BY <1>7 DEF Restart
<1>8. CASE UNCHANGED vars
  BY <1>8 DEF vars
<1> QED  BY <1>1, <1>2, <1>3, <1>4, <1>5, <1>6, <1>7, <1>8 DEF Next, Live

\* A seat is lost only by leaving, by being away too long, or with the room.
THEOREM AlwaysSeatIsKept == Spec => SeatIsKept
<1>1. RoomInv /\ [Next]_vars => [\A g \in players \ players' :
      \/ status' = "none" /\ connected = {}
      \/ g \in overdue \ connected
      \/ \E s \in Sockets : socketPlayer[s] = g /\ socketPlayer'[s] =
           NoGuest]_vars
  BY SeatIsKeptStep
<1> QED  BY <1>1, RoomInvariant, PTL DEF Spec, SeatIsKept

\* What may become of a result in one step.
MayClear ==
  result # 0 /\ result' # result =>
    /\ result' = 0
    /\ \/ status' = "countdown" /\ round' > round /\ players \subseteq connected
       \/ status' = "none" /\ \E s \in Sockets : /\ players = {socketPlayer[s]} /\ ~bot
                                                 /\ socketPlayer'[s] = NoGuest
       \/ status' = "none" /\ connected = {} /\ aged
       \/ status' = "waiting" /\ overdue \ connected # {} /\ aged

LEMMA ResultIsRetainedStep ==
  ASSUME RoomInv, [Next]_vars
  PROVE  MayClear
<1>0. /\ result = (IF status = "finished" THEN round ELSE 0) /\ round \in Nat
      /\ socketPlayer \in [Sockets -> Guests \cup {NoGuest}]
  BY DEF RoomInv, TypeOK, RoomType, SocketType, MatchInv, ResultMatchesStatus
<1>1. ASSUME NEW s \in Sockets, SocketStep(s) PROVE MayClear
  BY <1>0, <1>1 DEF MayClear, SocketStep, AttachSocket, CloseEvent, UnjoinedTimeout,
         DisconnectSocket, GoOffline, AbortCountdown, BeginRequest
<1>2. ASSUME NEW s \in Sockets, NEW g \in Guests, PlayerStep(s, g) PROVE MayClear
  <2>1. CASE LeaveSettled(s, g)
    BY <1>0, <2>1 DEF MayClear, LeaveSettled, Commands, DropRoom
  <2>2. CASE Rematch(s, g) \/ ReadyRematch(s, g)
    BY <1>0, <2>2, SpeakerIsConnected DEF MayClear, Rematch, ReadyRematch, BeginCountdown
  <2>3. CASE LeaveMatch(s, g) \/ LeaveCountdown(s, g) \/ StartMatch(s, g)
    BY <1>0, <2>3 DEF MayClear, LeaveMatch, LeaveCountdown, StartMatch
  <2>4. CASE TypingCounts(s, g) \/ TypingDecides(s, g)
    BY <1>0, <2>4 DEF MayClear, TypingCounts, TypingDecides
  <2>5. ASSUME \/ SetReady(s, g) \/ ChangeSetting(s, g) \/ ChangeEquipment(s, g)
               \/ \E r \in Rules : SetMatchRule(s, g, r)
        PROVE  MayClear
    BY <2>5 DEF MayClear, SetReady, ChangeSetting, ChangeEquipment, SetMatchRule, matchVars
  <2> QED  BY <1>2, <2>1, <2>2, <2>3, <2>4, <2>5 DEF PlayerStep
<1>3. ASSUME RequestStep PROVE MayClear
  BY <1>0, <1>3 DEF MayClear, RequestStep, FinishCreate, RefuseCreate, FinishRejoin,
         FinishJoin, RefuseJoin, RefuseRequest
<1>4. ASSUME TimerStep PROVE MayClear
  BY <1>0, <1>4 DEF MayClear, TimerStep, CountdownFires, BotTickDecides
<1>5. ASSUME MaintenanceStep PROVE MayClear
  BY <1>0, <1>5 DEF MayClear, MaintenanceStep, CleanupStaleRoom,
         CleanupDisconnectedPlayers, HandleForfeits, HandleExpirations, Expired, DropRoom
<1>6. ASSUME TimeStep PROVE MayClear
  BY <1>6 DEF MayClear, TimeStep, GraceElapses, IdleElapses, RetentionElapses,
         MatchTimeElapses, matchVars
<1>7. ASSUME Restart PROVE MayClear
  BY <1>7 DEF MayClear, Restart, matchVars
<1>8. CASE UNCHANGED vars
  BY <1>8 DEF MayClear, vars, matchVars
<1> QED  BY <1>1, <1>2, <1>3, <1>4, <1>5, <1>6, <1>7, <1>8 DEF Next, Live

\* A result goes only into the next round, with nobody absent, with the last
\* player, or after its retention time.
THEOREM AlwaysResultIsRetained == Spec => ResultIsRetained
<1>1. RoomInv /\ [Next]_vars => [MayClear]_vars
  BY ResultIsRetainedStep
<1> QED  BY <1>1, RoomInvariant, PTL DEF Spec, ResultIsRetained, MayClear

-----------------------------------------------------------------------------
(* The seats.  They are counted, so this part needs the cardinality of the *)
(* set of players.                                                         *)

SeatsInv == IsFiniteSet(players) /\ SeatsRespected

\* A step that leaves the players, the COM player and the status alone, or
\* only ends a match or a countdown, keeps the seats.
LEMMA SeatsUnchanged ==
  ASSUME SeatsInv, UNCHANGED <<players, bot>>,
         status' \in {"countdown", "playing"} => status \in {"countdown",
              "playing"}
  PROVE  SeatsInv'
  BY DEF SeatsInv, SeatsRespected, Seats

\* Players go: their seats are free again.  Only a room outside of matches
\* loses players.
LEMMA SeatsFreed ==
  ASSUME SeatsInv, bot \in BOOLEAN, bot' \in BOOLEAN,
         players' \subseteq players, bot' => bot,
         status' \notin {"countdown", "playing"}
  PROVE  SeatsInv'
<1>1. IsFiniteSet(players') /\ Cardinality(players') <= Cardinality(players)
  BY FS_Subset DEF SeatsInv
<1>2. Cardinality(players) \in Nat /\ Cardinality(players') \in Nat
  BY <1>1, FS_CardinalityType DEF SeatsInv
<1> QED  BY <1>1, <1>2 DEF SeatsInv, SeatsRespected, Seats

\* The COM player takes a seat that is free, and then there are two.
LEMMA SeatsOfMatch ==
  ASSUME SeatsInv, NEW r, BeginCountdown(r), bot \in BOOLEAN, players # {}
  PROVE  SeatsInv'
<1>1. Cardinality(players) \in Nat /\ Cardinality(players) # 0
  BY FS_CardinalityType, FS_EmptySet DEF SeatsInv
<1>2. players' = players /\ bot' = (bot \/ Seats < MaxPlayers)
  BY DEF BeginCountdown
<1>3. CASE Seats < MaxPlayers
  <2>1. bot'
    BY <1>2, <1>3
  <2> QED  BY <1>1, <1>2, <1>3, <2>1 DEF SeatsInv, SeatsRespected, Seats
<1>4. CASE ~(Seats < MaxPlayers)
  <2>1. bot' = bot
    BY <1>2, <1>4
  <2> QED  BY <1>1, <1>2, <1>4, <2>1 DEF SeatsInv, SeatsRespected, Seats
<1> QED  BY <1>3, <1>4

LEMMA SeatsOfNewRoom ==
  ASSUME RoomInv, SeatsInv, FinishCreate
  PROVE  SeatsInv'
<1>1. PICK g : players' = {g} /\ ~bot' /\ status' = "waiting"
  BY DEF FinishCreate
<1>2. IsFiniteSet({g}) /\ Cardinality({g}) = 1
  BY FS_Singleton
<1> QED  BY <1>1, <1>2 DEF SeatsInv, SeatsRespected, Seats

\* A new guest is counted before being seated.
LEMMA SeatsOfNewGuest ==
  ASSUME RoomInv, SeatsInv, FinishJoin
  PROVE  SeatsInv'
<1>1. PICK g : players' = players \cup {g} /\ g \notin players
  BY DEF FinishJoin
<1>2. /\ IsFiniteSet(players')
      /\ Cardinality(players') = Cardinality(players) + 1
  BY <1>1, FS_AddElement DEF SeatsInv
<1>3. Cardinality(players) \in Nat
  BY FS_CardinalityType DEF SeatsInv
<1>4. Seats < MaxPlayers /\ bot' = bot /\ status' = "waiting"
  BY DEF FinishJoin
<1> QED  BY <1>2, <1>3, <1>4 DEF SeatsInv, SeatsRespected, Seats

LEMMA SeatsStep == RoomInv /\ SeatsInv /\ [Next]_vars => SeatsInv'
<1> SUFFICES ASSUME RoomInv, SeatsInv, [Next]_vars PROVE SeatsInv'
  OBVIOUS
<1>9. bot \in BOOLEAN
  BY DEF RoomInv, TypeOK, RoomType
<1>1. ASSUME NEW s \in Sockets, SocketStep(s) PROVE SeatsInv'
  BY <1>1, SeatsUnchanged DEF SocketStep, AttachSocket, CloseEvent,
       UnjoinedTimeout, DisconnectSocket, GoOffline, AbortCountdown,
       BeginRequest
<1>2. ASSUME NEW s \in Sockets, NEW g \in Guests, PlayerStep(s, g)
      PROVE  SeatsInv'
  <2>1. CASE StartMatch(s, g) \/ Rematch(s, g) \/ ReadyRematch(s, g)
    <3>1. players # {} /\ \E r : BeginCountdown(r)
      BY <2>1, SpeakerIsConnected
         DEF StartMatch, Rematch, ReadyRematch, Commands
    <3> QED  BY <3>1, <1>9, SeatsOfMatch
  <2>2. CASE LeaveSettled(s, g)
    BY <2>2, <1>9, SeatsFreed DEF LeaveSettled, DropRoom, Settled
  <2>3. CASE SetReady(s, g) \/ ChangeSetting(s, g) \/ ChangeEquipment(s, g) \/
       TypingCounts(s, g) \/ TypingDecides(s, g)
    BY <2>3, SeatsUnchanged DEF SetReady, ChangeSetting, ChangeEquipment,
         TypingCounts, TypingDecides, FinalizeAndNotify, roomVars
  <2>4. CASE \E r \in Rules : SetMatchRule(s, g, r)
    BY <2>4, SeatsUnchanged DEF SetMatchRule
  <2>5. CASE LeaveMatch(s, g) \/ LeaveCountdown(s, g)
    BY <2>5, SeatsUnchanged DEF LeaveMatch, LeaveCountdown, GoOffline,
         AbortCountdown, FinalizeAndNotify
  <2> QED  BY <1>2, <2>1, <2>2, <2>3, <2>4, <2>5 DEF PlayerStep
<1>3. CASE RequestStep
  BY <1>3, SeatsOfNewRoom, SeatsOfNewGuest, SeatsUnchanged
     DEF RequestStep, RefuseCreate, FinishRejoin, RefuseJoin, RefuseRequest
<1>4. CASE TimerStep
  BY <1>4, SeatsUnchanged DEF TimerStep, CountdownFires, BotTickDecides,
       AbortCountdown, FinalizeAndNotify
<1>5. CASE MaintenanceStep
  <2>1. CASE CleanupStaleRoom
    <3>1. CASE Expired
      BY <2>1, <3>1, <1>9, SeatsFreed DEF CleanupStaleRoom, DropRoom
    <3>2. CASE ~Expired
      BY <2>1, <3>2, SeatsUnchanged DEF CleanupStaleRoom
    <3> QED  BY <3>1, <3>2
  <2>2. CASE CleanupDisconnectedPlayers
    <3>1. CASE UNCHANGED <<players, bot, status>>
      BY <3>1, SeatsUnchanged
    <3>2. CASE ~UNCHANGED <<players, bot, status>>
      BY <2>2, <3>2, <1>9, SeatsFreed DEF CleanupDisconnectedPlayers, Settled
    <3> QED  BY <3>1, <3>2
  <2>3. CASE HandleForfeits \/ HandleExpirations
    BY <2>3, SeatsUnchanged DEF HandleForfeits, HandleExpirations,
         FinalizeAndNotify
  <2> QED  BY <1>5, <2>1, <2>2, <2>3 DEF MaintenanceStep
<1>6. CASE TimeStep
  BY <1>6, SeatsUnchanged DEF TimeStep, GraceElapses, IdleElapses,
       RetentionElapses, MatchTimeElapses
<1>7. CASE Restart
  BY <1>7, SeatsUnchanged DEF Restart
<1>8. CASE UNCHANGED vars
  BY <1>8, SeatsUnchanged DEF vars
<1> QED  BY <1>1, <1>2, <1>3, <1>4, <1>5, <1>6, <1>7, <1>8 DEF Next, Live

LEMMA SeatsInvariant == Spec => []SeatsInv
<1>1. Init => SeatsInv
  BY FS_EmptySet DEF Init, SeatsInv, SeatsRespected, Seats
<1>2. RoomInv /\ SeatsInv /\ [Next]_vars => SeatsInv'
  BY SeatsStep
<1> QED  BY <1>1, <1>2, RoomInvariant, PTL DEF Spec

\* No seat is given twice and a match has an opponent, for any number of
\* guests competing for any number of seats.
THEOREM SeatsAreRespected == Spec => []SeatsRespected
<1>1. SeatsInv => SeatsRespected
  BY DEF SeatsInv
<1> QED  BY <1>1, SeatsInvariant, PTL

\* The two together, as the runs check them: through any number of rounds the
\* timers, the results and the seats agree with the status.
THEOREM RoundIsSound == Spec => []RoundInv
<1>1. RoomInv => MatchInv
  BY DEF RoomInv
<1>2. MatchInv /\ SeatsRespected => RoundInv
  BY DEF RoundInv
<1> QED  BY <1>1, <1>2, RoomInvariant, SeatsAreRespected, PTL

-----------------------------------------------------------------------------
(* The refinement of RoomLifecycle: each action of the room authority is   *)
(* an action of the life cycle, or changes nothing that it shows.          *)

\* What the life cycle shows of a room.
LEMMA UnseenStep ==
  ASSUME UNCHANGED <<status, round, players, connected, host, result>>
  PROVE  [Lifecycle!Next]_(Lifecycle!vars)
  BY DEF Lifecycle!vars

\* A lost connection: the host role goes on only if the host is the one who
\* is lost, and then to somebody connected.
LEMMA GoOfflineRefines ==
  ASSUME RoomInv, NEW g \in connected, GoOffline(g)
  PROVE  [Lifecycle!Next]_(Lifecycle!vars)
<1>1. g \in Guests /\ host \in connected
  BY DEF RoomInv, TypeOK, RoomType, PeopleType, PeopleInv, HostIsConnected
<1>2. host' \in Guests \cup {NoGuest}
  BY <1>1 DEF GoOffline, NextHosts, RoomInv, TypeOK, RoomType, PeopleType
<1>3. IF host \in connected' THEN host' = host
      ELSE connected' # {} => host' \in connected'
  BY <1>1 DEF GoOffline, NextHosts
<1>4. result' = result
  BY DEF GoOffline, AbortCountdown, RoomInv, MatchInv, ResultMatchesStatus
<1>5. Lifecycle!GoOffline(g)
  BY <1>2, <1>3, <1>4
     DEF GoOffline, AbortCountdown, Lifecycle!GoOffline, Lifecycle!HostFollows
<1> QED  BY <1>1, <1>5 DEF Lifecycle!Next

LEMMA SocketRefines ==
  ASSUME RoomInv, NEW s \in Sockets, SocketStep(s)
  PROVE  [Lifecycle!Next]_(Lifecycle!vars)
<1>1. CASE DisconnectSocket(s) /\ socketPlayer[s] # NoGuest
  BY <1>1, SpeakerIsConnected, GoOfflineRefines DEF DisconnectSocket
<1>2. CASE DisconnectSocket(s) /\ socketPlayer[s] = NoGuest
  BY <1>2, UnseenStep DEF DisconnectSocket
<1>3. CASE AttachSocket(s) \/ CloseEvent(s) \/ UnjoinedTimeout(s)
           \/ \E kind \in {"create", "join"} : BeginRequest(kind, s)
  BY <1>3, UnseenStep DEF AttachSocket, CloseEvent, UnjoinedTimeout, BeginRequest
<1> QED  BY <1>1, <1>2, <1>3 DEF SocketStep

\* A create opens the room, a rejoin returns to it, a join takes a seat.
LEMMA RequestRefines ==
  ASSUME RoomInv, SeatsInv, RequestStep
  PROVE  [Lifecycle!Next]_(Lifecycle!vars)
<1>1. CASE FinishCreate
  <2>1. Owner[jobSocket] \in Guests
    BY <1>1, RequesterIsKnown DEF FinishCreate
  <2>2. result = 0
    BY <1>1 DEF FinishCreate, RoomInv, MatchInv, ResultMatchesStatus
  <2>3. Lifecycle!Open(Owner[jobSocket])
    BY <1>1, <2>2 DEF FinishCreate, Lifecycle!Open
  <2> QED  BY <2>1, <2>3 DEF Lifecycle!Next
<1>2. CASE FinishRejoin
  <2>1. Owner[jobSocket] \in Guests
    BY <1>2, RequesterIsKnown DEF FinishRejoin
  <2>2. host' \in Guests \cup {NoGuest}
    BY <1>2 DEF FinishRejoin, EnsuredHosts, NextHosts, RoomInv, TypeOK, RoomType,
         PeopleType
  <2>3. Lifecycle!Return(Owner[jobSocket])
    BY <1>2, <2>2 DEF FinishRejoin, EnsuredHosts, NextHosts, Lifecycle!Return,
         Lifecycle!HostFollows
  <2> QED  BY <2>1, <2>3 DEF Lifecycle!Next
<1>3. CASE FinishJoin
  <2>1. Owner[jobSocket] \in Guests
    BY <1>3, RequesterIsKnown DEF FinishJoin
  <2>2. host' \in Guests \cup {NoGuest}
    BY <1>3, <2>1 DEF FinishJoin, EnsuredHosts, NextHosts, RoomInv, TypeOK,
         RoomType, PeopleType
  <2>3. Cardinality(players) \in Nat
    BY FS_CardinalityType DEF SeatsInv
  <2>4. Cardinality(players) < MaxPlayers
    BY <1>3, <2>3 DEF FinishJoin, Seats
  <2>5. IF host \in connected' THEN host' = host
        ELSE connected' # {} => host' \in connected'
    BY <1>3 DEF FinishJoin, EnsuredHosts, NextHosts
  <2>6. status = "waiting" /\ Owner[jobSocket] \notin players
        /\ UNCHANGED <<status, round, result>>
    BY <1>3 DEF FinishJoin
  <2>7. players' = players \cup {Owner[jobSocket]}
        /\ connected' = connected \cup {Owner[jobSocket]}
    BY <1>3 DEF FinishJoin
  <2>8. Lifecycle!Cardinality(players) = Cardinality(players)
    BY DEF Lifecycle!Cardinality, Cardinality
  <2>9. Lifecycle!Arrive(Owner[jobSocket])
    BY <2>2, <2>4, <2>5, <2>6, <2>7, <2>8
       DEF Lifecycle!Arrive, Lifecycle!HostFollows
  <2> QED  BY <2>1, <2>9 DEF Lifecycle!Next
<1>4. CASE RefuseCreate \/ RefuseJoin
  BY <1>4, UnseenStep DEF RefuseCreate, RefuseJoin, RefuseRequest
<1> QED  BY <1>1, <1>2, <1>3, <1>4 DEF RequestStep

\* The next match begins at a full table.
LEMMA GatherRefines ==
  ASSUME RoomInv, NEW r, BeginCountdown(r), players # {}, players \subseteq connected,
         \/ status = "waiting" /\ r = round
         \/ status = "finished" /\ r = round + 1
  PROVE  [Lifecycle!Next]_(Lifecycle!vars)
<1>1. connected = players
  BY DEF RoomInv, TypeOK, PeopleType
<1>2. Lifecycle!Gather
  BY <1>1 DEF BeginCountdown, Lifecycle!Gather
<1> QED  BY <1>2 DEF Lifecycle!Next

\* Whatever finishes a match decides its round.
LEMMA DecideRefines ==
  ASSUME status = "playing", FinalizeAndNotify,
         UNCHANGED <<round, players, connected, host>>
  PROVE  [Lifecycle!Next]_(Lifecycle!vars)
<1>1. Lifecycle!Decide
  BY DEF FinalizeAndNotify, Lifecycle!Decide
<1> QED  BY <1>1 DEF Lifecycle!Next

LEMMA PlayerRefines ==
  ASSUME RoomInv, NEW s \in Sockets, NEW g \in Guests, PlayerStep(s, g)
  PROVE  [Lifecycle!Next]_(Lifecycle!vars)
<1>0. Commands(s, g) => g \in connected /\ g \in players /\ host \in connected
  BY SpeakerIsConnected DEF Commands, RoomInv, PeopleInv, HostIsConnected
<1>1. CASE LeaveMatch(s, g)
  <2>1. host' \in Guests \cup {NoGuest}
    BY <1>1 DEF LeaveMatch, NextHosts, RoomInv, TypeOK, RoomType, PeopleType
  <2>2. Lifecycle!GiveUp(g)
    BY <1>0, <1>1, <2>1 DEF LeaveMatch, FinalizeAndNotify, NextHosts,
         Lifecycle!GiveUp, Lifecycle!HostFollows
  <2> QED  BY <2>2 DEF Lifecycle!Next
<1>2. CASE LeaveCountdown(s, g)
  BY <1>0, <1>2, GoOfflineRefines DEF LeaveCountdown
<1>3. CASE LeaveSettled(s, g) /\ players = {g} /\ ~bot
  <2>1. connected = {g}
    BY <1>0, <1>3 DEF LeaveSettled, RoomInv, TypeOK, PeopleType
  <2>2. Lifecycle!Close(g)
    BY <1>3, <2>1 DEF LeaveSettled, Settled, DropRoom, Lifecycle!Close
  <2> QED  BY <2>2 DEF Lifecycle!Next
<1>4. CASE LeaveSettled(s, g) /\ ~(players = {g} /\ ~bot)
  <2>1. host' \in Guests \cup {NoGuest}
    BY <1>4 DEF LeaveSettled, NextHosts, RoomInv, TypeOK, RoomType, PeopleType
  <2>2. IF host \in connected' THEN host' = host
        ELSE connected' # {} => host' \in connected'
    BY <1>0, <1>4 DEF LeaveSettled, NextHosts
  <2>3. Lifecycle!Quit(g)
    BY <1>0, <1>4, <2>1, <2>2 DEF LeaveSettled, Settled, Lifecycle!Quit,
         Lifecycle!HostFollows
  <2> QED  BY <2>3 DEF Lifecycle!Next
<1>5. CASE StartMatch(s, g) \/ Rematch(s, g) \/ ReadyRematch(s, g)
  BY <1>0, <1>5, GatherRefines DEF StartMatch, Rematch, ReadyRematch
<1>6. CASE TypingDecides(s, g)
  BY <1>6, DecideRefines DEF TypingDecides
<1>7. CASE SetReady(s, g) \/ ChangeSetting(s, g) \/ ChangeEquipment(s, g)
           \/ TypingCounts(s, g) \/ \E r \in Rules : SetMatchRule(s, g, r)
  BY <1>7, UnseenStep DEF SetReady, ChangeSetting, ChangeEquipment, TypingCounts,
       SetMatchRule
<1> QED  BY <1>1, <1>2, <1>3, <1>4, <1>5, <1>6, <1>7 DEF PlayerStep

LEMMA TimerRefines ==
  ASSUME RoomInv, SeatsInv, TimerStep
  PROVE  [Lifecycle!Next]_(Lifecycle!vars)
<1>1. CASE CountdownFires
  <2>0. status = "countdown" /\ players # {} /\ result = 0 /\ connected \subseteq players
    BY <1>1 DEF CountdownFires, RoomInv, TypeOK, PeopleType, MatchInv,
         TimersMatchStatus, ResultMatchesStatus, SeatsInv, SeatsRespected
  <2>1. CASE players \ connected # {}
    <3>1. Lifecycle!CallOff
      BY <1>1, <2>0, <2>1 DEF CountdownFires, AbortCountdown, Lifecycle!CallOff
    <3> QED  BY <3>1 DEF Lifecycle!Next
  <2>2. CASE players \ connected = {}
    <3>1. Lifecycle!Go
      BY <1>1, <2>0, <2>2 DEF CountdownFires, Lifecycle!Go
    <3> QED  BY <3>1 DEF Lifecycle!Next
  <2> QED  BY <2>1, <2>2
<1>2. CASE BotTickDecides
  BY <1>2, DecideRefines DEF BotTickDecides
<1> QED  BY <1>1, <1>2 DEF TimerStep

\* Maintenance gives up a deserted room, evicts who has been away too long,
\* and ends a match that waits for somebody or has no time left.
LEMMA MaintenanceRefines ==
  ASSUME RoomInv, MaintenanceStep
  PROVE  [Lifecycle!Next]_(Lifecycle!vars)
<1>1. CASE CleanupStaleRoom /\ Expired
  <2>1. Lifecycle!Vanish
    BY <1>1 DEF CleanupStaleRoom, Expired, DropRoom, Lifecycle!Vanish
  <2> QED  BY <2>1 DEF Lifecycle!Next
<1>2. CASE CleanupStaleRoom /\ ~Expired
  BY <1>2, UnseenStep DEF CleanupStaleRoom
<1>3. CASE CleanupDisconnectedPlayers
  <2> DEFINE gone == overdue \ connected
  <2>1. CASE Settled /\ connected # {} /\ gone # {} /\ (status = "finished" => aged)
    <3>1. gone \in SUBSET (players \ connected)
      BY DEF RoomInv, TypeOK, PeopleType
    <3>2. host' \in Guests \cup {NoGuest}
      BY <1>3, <2>1 DEF CleanupDisconnectedPlayers, EnsuredHosts, NextHosts,
           RoomInv, TypeOK, RoomType, PeopleType
    <3>3. host' \in connected /\ (host \in connected => host' = host)
      BY <1>3, <2>1 DEF CleanupDisconnectedPlayers, EnsuredHosts, NextHosts
    <3>4. result' = 0 /\ status' = "waiting"
          /\ round' = IF status = "finished" THEN round + 1 ELSE round
      BY <1>3, <2>1 DEF CleanupDisconnectedPlayers, Settled, RoomInv, MatchInv,
           ResultMatchesStatus
    <3>5. players' = players \ gone /\ connected' = connected
      BY <1>3, <2>1 DEF CleanupDisconnectedPlayers
    <3>6. Lifecycle!Evict
      BY <2>1, <3>1, <3>2, <3>3, <3>4, <3>5
         DEF Settled, Lifecycle!Evict, Lifecycle!HostFollows
    <3> QED  BY <3>6 DEF Lifecycle!Next
  <2>2. CASE ~(Settled /\ connected # {} /\ gone # {} /\ (status = "finished" => aged))
    BY <1>3, <2>2, UnseenStep DEF CleanupDisconnectedPlayers
  <2> QED  BY <2>1, <2>2
<1>4. CASE HandleForfeits
  BY <1>4, DecideRefines, UnseenStep DEF HandleForfeits
<1>5. CASE HandleExpirations
  BY <1>5, DecideRefines, UnseenStep DEF HandleExpirations
<1> QED  BY <1>1, <1>2, <1>3, <1>4, <1>5 DEF MaintenanceStep

LEMMA RestartRefines ==
  ASSUME RoomInv, Restart
  PROVE  [Lifecycle!Next]_(Lifecycle!vars)
<1>1. host' \in Guests \cup {NoGuest}
  BY DEF Restart, EnsuredHosts, NextHosts, RoomInv, TypeOK, RoomType
<1>2. Lifecycle!Outage
  BY <1>1 DEF Restart, Lifecycle!Outage, Lifecycle!HostFollows
<1> QED  BY <1>2 DEF Lifecycle!Next

LEMMA NextRefines ==
  ASSUME RoomInv, SeatsInv, [Next]_vars
  PROVE  [Lifecycle!Next]_(Lifecycle!vars)
<1>1. CASE TimeStep
  BY <1>1, UnseenStep DEF TimeStep, GraceElapses, IdleElapses, RetentionElapses,
       MatchTimeElapses
<1>2. CASE UNCHANGED vars
  BY <1>2, UnseenStep DEF vars
<1> QED  BY <1>1, <1>2, SocketRefines, PlayerRefines, RequestRefines, TimerRefines,
            MaintenanceRefines, RestartRefines DEF Next, Live

\* The room authority implements the life cycle it promises: for every number
\* of guests, sockets, seats and rounds, whatever its sockets, timers, jobs and
\* restarts do, the players see a room that follows RoomLifecycle.
THEOREM RoomImplementsLifecycle == Spec => ImplementsLifecycle
<1>1. Init => Lifecycle!Init
  BY DEF Init, Lifecycle!Init
<1>2. RoomInv /\ SeatsInv /\ [Next]_vars => [Lifecycle!Next]_(Lifecycle!vars)
  BY NextRefines
<1> QED  BY <1>1, <1>2, RoomInvariant, SeatsInvariant, PTL
            DEF Spec, ImplementsLifecycle, Lifecycle!Spec

-----------------------------------------------------------------------------
(* Recovery.  Whichever writes fail and whenever the instance is lost, the *)
(* room that a restore brings back is a sound one, the snapshot is up to   *)
(* date unless a write failed, and a decided round stays decided.          *)
(* Every step of RoomRecovery but RestoreRoom is a step of RoomAuthority,  *)
(* so the proofs rest on those of its invariant; what is new is an         *)
(* invariant of the snapshot, which may be several writes older than the   *)
(* room.                                                                   *)

SnapshotType ==
  [status : Statuses, rule : Rules, round : Nat, host : Guests \cup {NoGuest},
   players : SUBSET Guests, bot : BOOLEAN, forfeited : SUBSET Guests,
   result : Nat, timed : BOOLEAN, suddenDeath : BOOLEAN]

\* What a snapshot keeps of MatchInv, however old it is.
SnapshotSound(m) ==
  /\ m \in SnapshotType
  /\ m.forfeited \subseteq m.players
  /\ m.result = (IF m.status = "finished" THEN m.round ELSE 0)
  /\ m.forfeited # {} => m.status = "finished"
  /\ m.status = "none" => m.players = {} /\ ~m.bot /\ m.round = 0
  /\ m.status \notin {"none", "finished"} => m.round > 0

RecoveryInv == RoomInv /\ SnapshotSound(stored) /\ lost \in Nat

\* The stored room and the room agree in everything but the host.
Agrees(m) ==
  /\ m.status = status /\ m.rule = rule /\ m.round = round
  /\ m.players = players /\ m.bot = bot /\ m.forfeited = forfeited
  /\ m.result = result /\ m.timed = (matchEnds # "none")
  /\ m.suddenDeath = suddenDeath

-----------------------------------------------------------------------------
(* The snapshot of a sound room is sound.                                  *)

LEMMA SnapshotOfRoom ==
  ASSUME RoomInv
  PROVE  SnapshotSound(Snapshot)
<1>1. Snapshot \in SnapshotType
  BY DEF Snapshot, SnapshotType, RoomInv, TypeOK, RoomType, PeopleType, MatchType
<1>2. status \notin {"none", "finished"} => round > 0
  BY DEF RoomInv, TypeOK, RoomType, MatchType, MatchInv, NotifiedIsPast
<1>3. /\ forfeited \subseteq players
      /\ result = (IF status = "finished" THEN round ELSE 0)
      /\ forfeited # {} => status = "finished"
      /\ status = "none" => players = {} /\ ~bot /\ round = 0
  BY DEF RoomInv, TypeOK, PeopleType, MatchInv, ResultMatchesStatus,
       ForfeitsEndTheMatch, NoRoomIsEmpty
<1> QED  BY <1>1, <1>2, <1>3 DEF SnapshotSound, Snapshot

LEMMA SnapshotOfNextRoom ==
  ASSUME RoomInv'
  PROVE  SnapshotSound(Snapshot')
<1>1. Snapshot' \in SnapshotType
  BY DEF Snapshot, SnapshotType, RoomInv, TypeOK, RoomType, PeopleType, MatchType
<1>2. status' \notin {"none", "finished"} => round' > 0
  BY DEF RoomInv, TypeOK, RoomType, MatchType, MatchInv, NotifiedIsPast
<1>3. /\ forfeited' \subseteq players'
      /\ result' = (IF status' = "finished" THEN round' ELSE 0)
      /\ forfeited' # {} => status' = "finished"
      /\ status' = "none" => players' = {} /\ ~bot' /\ round' = 0
  BY DEF RoomInv, TypeOK, PeopleType, MatchInv, ResultMatchesStatus,
       ForfeitsEndTheMatch, NoRoomIsEmpty
<1> QED  BY <1>1, <1>2, <1>3 DEF SnapshotSound, Snapshot

\* The comparison of StoredIsCurrent, field by field.
LEMMA SameSnapshot ==
  ASSUME NEW m \in SnapshotType
  PROVE  [m EXCEPT !.host = NoGuest] = [Snapshot EXCEPT !.host = NoGuest]
           <=> Agrees(m)
  BY DEF SnapshotType, Snapshot, Agrees

-----------------------------------------------------------------------------
(* Every step but the restore is one of the room authority, and either     *)
(* writes or leaves the stored room alone.                                 *)

LiveStep ==
  \/ PersistingStep /\ PersistRoom
  \/ CleanupStaleStep \/ CleanupPlayersStep \/ ForfeitsStep \/ ExpirationsStep
  \/ DebouncedPersist
  \/ QuietStep /\ NoPersist

LEMMA LiveStepIsNext ==
  ASSUME LiveStep
  PROVE  [Next]_vars
<1>1. CASE PersistingStep \/ QuietStep
  BY <1>1 DEF PersistingStep, QuietStep, PlayerCommand, Next, Live, SocketStep,
       PlayerStep, RequestStep
<1>2. CASE \/ CleanupStaleStep \/ CleanupPlayersStep \/ ForfeitsStep
           \/ ExpirationsStep \/ DebouncedPersist
  BY <1>2 DEF CleanupStaleStep, CleanupPlayersStep, ForfeitsStep, ExpirationsStep,
       DebouncedPersist, Next, Live, MaintenanceStep
<1> QED  BY <1>1, <1>2 DEF LiveStep

\* The room as far as a snapshot keeps it, the host aside.
RoomUnwritten ==
  /\ UNCHANGED <<status, rule, round, players, bot, forfeited, result, suddenDeath>>
  /\ matchEnds' = "none" <=> matchEnds = "none"

LEMMA SnapshotUnchanged ==
  ASSUME Snapshot' = Snapshot
  PROVE  RoomUnwritten
<1>1. /\ Snapshot'.status = Snapshot.status /\ Snapshot'.rule = Snapshot.rule
      /\ Snapshot'.round = Snapshot.round /\ Snapshot'.players = Snapshot.players
      /\ Snapshot'.bot = Snapshot.bot /\ Snapshot'.timed = Snapshot.timed
      /\ Snapshot'.forfeited = Snapshot.forfeited
      /\ Snapshot'.result = Snapshot.result
      /\ Snapshot'.suddenDeath = Snapshot.suddenDeath
  OBVIOUS
<1> QED  BY <1>1 DEF Snapshot, RoomUnwritten

\* A step that does not write changes nothing that a snapshot keeps.
LEMMA UnwrittenStep ==
  ASSUME LiveStep
  PROVE  PersistRoom \/ (NoPersist /\ RoomUnwritten)
<1>1. CASE PersistingStep /\ PersistRoom
  BY <1>1
<1>2. CASE DebouncedPersist
  BY <1>2 DEF DebouncedPersist
<1>3. CASE CleanupStaleStep
  BY <1>3 DEF CleanupStaleStep, CleanupStaleRoom, RoomUnwritten
<1>4. CASE CleanupPlayersStep \/ ForfeitsStep \/ ExpirationsStep
  BY <1>4, SnapshotUnchanged
     DEF CleanupPlayersStep, ForfeitsStep, ExpirationsStep
<1>5. CASE QuietStep /\ NoPersist
  <2>1. ASSUME NEW s \in Sockets,
               AttachSocket(s) \/ CloseEvent(s) \/ UnjoinedTimeout(s)
        PROVE  RoomUnwritten
    BY <2>1 DEF AttachSocket, CloseEvent, UnjoinedTimeout, RoomUnwritten
  <2>2. ASSUME NEW s \in Sockets, NEW kind \in {"create", "join"},
               BeginRequest(kind, s)
        PROVE  RoomUnwritten
    BY <2>2 DEF BeginRequest, RoomUnwritten
  <2>3. ASSUME NEW s \in Sockets, socketPlayer[s] = NoGuest, DisconnectSocket(s)
        PROVE  RoomUnwritten
    BY <2>3 DEF DisconnectSocket, RoomUnwritten
  <2>4. ASSUME RefuseCreate \/ RefuseJoin PROVE RoomUnwritten
    <3>1. UNCHANGED <<status, rule, round, players, bot, forfeited, result,
                      suddenDeath, matchEnds>>
      BY <2>4 DEF RefuseCreate, RefuseJoin, RefuseRequest
    <3> QED  BY <3>1 DEF RoomUnwritten
  <2>5. ASSUME NEW s \in Sockets, NEW g \in Guests, TypingCounts(s, g)
        PROVE  RoomUnwritten
    BY <2>5 DEF TypingCounts, RoomUnwritten
  <2>6. ASSUME TimeStep PROVE RoomUnwritten
    <3>1. CASE MatchTimeElapses
      BY <3>1 DEF MatchTimeElapses, RoomUnwritten
    <3>2. CASE ~MatchTimeElapses
      <4>1. UNCHANGED <<status, rule, round, players, bot, forfeited, result,
                        suddenDeath, matchEnds>>
        BY <2>6, <3>2 DEF TimeStep, GraceElapses, IdleElapses, RetentionElapses
      <4> QED  BY <4>1 DEF RoomUnwritten
    <3> QED  BY <3>1, <3>2
  <2> QED  BY <1>5, <2>1, <2>2, <2>3, <2>4, <2>5, <2>6 DEF QuietStep
<1> QED  BY <1>1, <1>2, <1>3, <1>4, <1>5 DEF LiveStep

-----------------------------------------------------------------------------
(* A restored room is sound.                                               *)

LEMMA RestoreRoomStep ==
  ASSUME RecoveryInv, RestoreRoom
  PROVE  RoomInv'
<1> DEFINE m == stored
<1>0. /\ m.status \in Statuses /\ m.rule \in Rules /\ m.round \in Nat
      /\ m.host \in Guests \cup {NoGuest} /\ m.players \subseteq Guests
      /\ m.bot \in BOOLEAN /\ m.forfeited \subseteq m.players /\ m.result \in Nat
      /\ m.timed \in BOOLEAN /\ m.suddenDeath \in BOOLEAN
  BY DEF RecoveryInv, SnapshotSound, SnapshotType
<1>1. TypeOK'
  BY <1>0 DEF RestoreRoom, TypeOK, RoomType, PeopleType, MatchType, SocketType,
       TimerType, Jobs
<1>2. PeopleInv'
  BY DEF RestoreRoom, PeopleInv, HostIsConnected, OneSocketPerPlayer,
       NoLostPlayer, AwayIsTimed, JobHasSocket, OwnSocket
<1>3. MatchInv'
  <2>1. TimersMatchStatus' /\ ResultMatchesStatus'
    BY DEF RestoreRoom, RecoveryInv, SnapshotSound, TimersMatchStatus,
         ResultMatchesStatus
  <2>2. NotifiedIsPast'
    BY <1>0 DEF RestoreRoom, RecoveryInv, SnapshotSound, NotifiedIsPast, Statuses
  <2>3. ForfeitsEndTheMatch' /\ NoRoomIsEmpty'
    BY DEF RestoreRoom, RecoveryInv, SnapshotSound, ForfeitsEndTheMatch,
         NoRoomIsEmpty
  <2> QED  BY <2>1, <2>2, <2>3 DEF MatchInv
<1> QED  BY <1>1, <1>2, <1>3 DEF RoomInv

LEMMA RecoveryInvInit == RecoveryInit => RecoveryInv
<1> SUFFICES ASSUME RecoveryInit PROVE RecoveryInv
  OBVIOUS
<1>1. RoomInv
  BY RoomInvInit DEF RecoveryInit
<1>2. SnapshotSound(stored) /\ lost \in Nat
  BY <1>1, SnapshotOfRoom DEF RecoveryInit
<1> QED  BY <1>1, <1>2 DEF RecoveryInv

LEMMA RecoveryInvNext ==
  RecoveryInv /\ [RecoveryNext]_recoveryVars => RecoveryInv'
<1> SUFFICES ASSUME RecoveryInv, [RecoveryNext]_recoveryVars
             PROVE  RecoveryInv'
  OBVIOUS
<1>1. CASE LiveStep
  <2>1. RoomInv'
    BY <1>1, LiveStepIsNext, RoomInvNext DEF RecoveryInv
  <2>2. CASE PersistRoom
    BY <2>1, <2>2, SnapshotOfNextRoom DEF PersistRoom, RecoveryInv
  <2>3. CASE NoPersist
    BY <2>1, <2>3 DEF NoPersist, RecoveryInv
  <2> QED  BY <1>1, <2>2, <2>3, UnwrittenStep DEF RecoveryInv
<1>2. CASE RestoreRoom
  <2>1. RoomInv'
    BY <1>2, RestoreRoomStep
  <2> QED  BY <1>2, <2>1 DEF RestoreRoom, RecoveryInv
<1>3. CASE UNCHANGED recoveryVars
  <2>1. RoomInv'
    BY <1>3, RoomInvNext DEF recoveryVars, RecoveryInv
  <2> QED  BY <1>3, <2>1 DEF recoveryVars, RecoveryInv
<1> QED  BY <1>1, <1>2, <1>3 DEF RecoveryNext, LiveStep

LEMMA RecoveryInvariant == RecoverySpec => []RecoveryInv
  BY RecoveryInvInit, RecoveryInvNext, PTL DEF RecoverySpec

\* Whatever snapshot a restart finds, however many writes failed before it, the
\* room goes on with its timers, deadlines, host and result in order: RoomInv
\* holds in every state of the room with crashes and lost writes.
THEOREM RestoredRoomIsSound == RecoverySpec => []RestoredIsSound
<1>1. RecoveryInv => RestoredIsSound
  BY DEF RecoveryInv, RestoredIsSound
<1> QED  BY <1>1, RecoveryInvariant, PTL

-----------------------------------------------------------------------------
(* The stored room is the room.                                            *)

Current == lost = 0 => Agrees(stored)

LEMMA CurrentMeansStored ==
  ASSUME RecoveryInv
  PROVE  Current <=> StoredIsCurrent
  BY SameSnapshot DEF RecoveryInv, SnapshotSound, Current, StoredIsCurrent

LEMMA CurrentInit == RecoveryInit => Current
  BY DEF RecoveryInit, Current, Agrees, Snapshot

LEMMA CurrentNext ==
  RecoveryInv /\ Current /\ [RecoveryNext]_recoveryVars => Current'
<1> SUFFICES ASSUME RecoveryInv, Current, [RecoveryNext]_recoveryVars
             PROVE  Current'
  OBVIOUS
<1>1. CASE LiveStep
  <2>1. CASE PersistRoom
    BY <2>1 DEF PersistRoom, Snapshot, Current, Agrees, RecoveryInv
  <2>2. CASE NoPersist /\ RoomUnwritten
    BY <2>2 DEF NoPersist, RoomUnwritten, Current, Agrees
  <2> QED  BY <1>1, <2>1, <2>2, UnwrittenStep DEF RecoveryInv
<1>2. CASE RestoreRoom
  BY <1>2 DEF RestoreRoom, RecoveryInv, SnapshotSound, SnapshotType, Current,
       Agrees
<1>3. CASE UNCHANGED recoveryVars
  BY <1>3 DEF recoveryVars, vars, Current, Agrees
<1> QED  BY <1>1, <1>2, <1>3 DEF RecoveryNext, LiveStep

LEMMA CurrentInvariant == RecoverySpec => []Current
  BY CurrentInit, CurrentNext, RecoveryInvariant, PTL DEF RecoverySpec

\* No handler forgets to persist: unless a write failed since, the stored room
\* is the room in everything but the host, after every step.
THEOREM StoredRoomIsCurrent == RecoverySpec => []StoredIsCurrent
<1>1. RecoveryInv /\ Current => StoredIsCurrent
  BY CurrentMeansStored
<1> QED  BY <1>1, CurrentInvariant, RecoveryInvariant, PTL

\* A decided round stays decided across any number of crashes, unless a write
\* has failed since the last one that succeeded.
THEOREM ResultSurvivesCrashes == RecoverySpec => ResultSurvives
<1> DEFINE Kept == result # 0 /\ result' # result
                     => \/ status' = "none" \/ lost > 0
                        \/ result' = 0 /\ round' > round
<1>1. RecoveryInv /\ Current /\ [RecoveryNext]_recoveryVars => [Kept]_recoveryVars
  <2> SUFFICES ASSUME RecoveryInv, Current, [RecoveryNext]_recoveryVars
               PROVE  [Kept]_recoveryVars
    OBVIOUS
  <2>1. CASE LiveStep
    BY <2>1, LiveStepIsNext, ResultStaysStep DEF RecoveryInv
  <2>2. CASE RestoreRoom
    BY <2>2 DEF RestoreRoom, RecoveryInv, Current, Agrees
  <2> QED  BY <2>1, <2>2 DEF RecoveryNext, LiveStep
<1> QED  BY <1>1, RecoveryInvariant, CurrentInvariant, PTL
            DEF RecoverySpec, ResultSurvives

=============================================================================
