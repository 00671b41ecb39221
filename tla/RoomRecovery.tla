---------------------------- MODULE RoomRecovery ----------------------------
(***************************************************************************)
(* The room authority with its storage: persistRoom writes a snapshot of   *)
(* the room after a change, a write may fail ("persistence is best-effort  *)
(* for live gameplay"), and after a crash or an eviction restoreRoom       *)
(* starts from the last snapshot that was written.                         *)
(*                                                                         *)
(* A snapshot is kept as far as a restore depends on it: connections and   *)
(* READY are not restored, and a deadline that was stored passes again, in *)
(* no time if need be, after the restore.                                  *)
(***************************************************************************)
EXTENDS RoomAuthority

CONSTANT MaxLost   \* bound: so many writes in a row fail, never more

ASSUME RecoveryAssumption == MaxLost \in Nat

VARIABLES
  stored,      \* the value under ROOM_STORAGE_KEY
  lost         \* writes that failed since the last one that succeeded

recoveryVars == <<vars, stored, lost>>

\* Mutant: the result is not part of the snapshot
SnapshotWithoutResult ==
  [status |-> status, rule |-> rule, round |-> round, host |-> host,
   players |-> players, bot |-> bot, forfeited |-> forfeited,
   result |-> 0, timed |-> matchEnds # "none", suddenDeath |-> suddenDeath]

\* createPersistedRoomSnapshot
Snapshot ==
  [status |-> status, rule |-> rule, round |-> round, host |-> host,
   players |-> players, bot |-> bot, forfeited |-> forfeited,
   result |-> result, timed |-> matchEnds # "none",
   suddenDeath |-> suddenDeath]

\* persistRoom: one put or delete of ROOM_STORAGE_KEY, its failure is caught
PersistRoom ==
  \/ stored' = Snapshot' /\ lost' = 0
  \/ lost < MaxLost /\ lost' = lost + 1 /\ stored' = stored

NoPersist == UNCHANGED <<stored, lost>>

-----------------------------------------------------------------------------
(* Which handlers persist.                                                 *)

PlayerCommand(s, g) ==
  \/ LeaveMatch(s, g) \/ LeaveCountdown(s, g) \/ LeaveSettled(s, g)
  \/ SetReady(s, g) \/ ReadyRematch(s, g)
  \/ ChangeSetting(s, g) \/ ChangeEquipment(s, g)
  \/ \E r \in Rules : SetMatchRule(s, g, r)
  \/ StartMatch(s, g) \/ Rematch(s, g) \/ TypingDecides(s, g)

\* disconnectSocket of a joined player, an accepted create or join, every
\* command that changes the room, and the timers that move the match on
PersistingStep ==
  \/ \E s \in Sockets : socketPlayer[s] # NoGuest /\ DisconnectSocket(s)
  \/ FinishCreate \/ FinishRejoin \/ FinishJoin
  \/ \E s \in Sockets, g \in Guests : PlayerCommand(s, g)
  \/ TimerStep

\* Maintenance persists what it has changed; without a room it deletes the
\* stored one.
CleanupStaleStep ==
  CleanupStaleRoom /\ IF status = "none" \/ Expired THEN PersistRoom ELSE NoPersist

\* Mutant: the players removed by maintenance come back with a restart
CleanupUnsaved == CleanupDisconnectedPlayers /\ NoPersist

CleanupPlayersStep ==
  CleanupDisconnectedPlayers /\ IF Snapshot' # Snapshot THEN PersistRoom ELSE NoPersist

ForfeitsStep ==
  HandleForfeits /\ IF Snapshot' # Snapshot THEN PersistRoom ELSE NoPersist

ExpirationsStep ==
  HandleExpirations /\ IF Snapshot' # Snapshot THEN PersistRoom ELSE NoPersist

\* schedulePersistRoom's timer, which progress arms and persistRoom clears: it
\* matters here when an earlier write failed
DebouncedPersist ==
  /\ status = "playing" /\ stored # Snapshot
  /\ UNCHANGED vars
  /\ PersistRoom

\* Everything else leaves the stored room alone.
QuietStep ==
  \/ \E s \in Sockets :
       \/ AttachSocket(s) \/ CloseEvent(s) \/ UnjoinedTimeout(s)
       \/ socketPlayer[s] = NoGuest /\ DisconnectSocket(s)
       \/ \E kind \in {"create", "join"} : BeginRequest(kind, s)
  \/ RefuseCreate \/ RefuseJoin
  \/ \E s \in Sockets, g \in Guests : TypingCounts(s, g)
  \/ TimeStep

-----------------------------------------------------------------------------
\* restoreRoom: createRoomStateFromSnapshot, then syncRestoredRoom
RestoreRoom ==
  /\ status' = stored.status /\ rule' = stored.rule /\ round' = stored.round
  /\ players' = stored.players /\ bot' = stored.bot
  /\ host' \in IF stored.players = {} THEN {stored.host} ELSE stored.players
  /\ connected' = {} /\ ready' = {} /\ away' = stored.players /\ overdue' = {}
  /\ forfeited' = stored.forfeited
  /\ socketId' = [g \in Guests |-> NoSocket]
  /\ result' = stored.result
  /\ matchEnds' = IF stored.timed THEN "ahead" ELSE "none"
  /\ suddenDeath' = stored.suddenDeath
  /\ notified' = 0 /\ idle' = FALSE /\ aged' = FALSE
  /\ sockets' = {} /\ closing' = {}
  /\ socketPlayer' = [s \in Sockets |-> NoGuest]
  /\ job' = "idle" /\ jobSocket' = NoSocket
  /\ countdownTimer' = (stored.status = "countdown")
  /\ botTimer' = (stored.status = "playing" /\ stored.bot)
  /\ lost' = 0 /\ UNCHANGED stored

RecoveryInit == Init /\ stored = Snapshot /\ lost = 0

RecoveryNext ==
  \/ PersistingStep /\ PersistRoom
  \/ CleanupStaleStep \/ CleanupPlayersStep \/ ForfeitsStep \/ ExpirationsStep
  \/ DebouncedPersist
  \/ QuietStep /\ NoPersist
  \/ RestoreRoom

RecoverySpec == RecoveryInit /\ [][RecoveryNext]_recoveryVars

-----------------------------------------------------------------------------
\* No handler forgets to persist: unless a write failed, the stored room is
\* the room, whatever step ran last, so a crash between any two steps loses
\* nothing that a restore could bring back.  The host is the exception, since
\* a restore chooses one anew.
StoredIsCurrent ==
  lost = 0 => [stored EXCEPT !.host = NoGuest] = [Snapshot EXCEPT !.host = NoGuest]

\* Whatever snapshot a restart finds, an outdated one included, the restored
\* room is a sound one: it has its timers, its absent players have their
\* deadlines, its host is nobody who is gone while others are connected, and
\* no socket of the old instance speaks for anybody.
RestoredIsSound == RoomInv

\* A decided round stays decided across crashes; only a failed write can take
\* the announced result back.
ResultSurvives ==
  [][result # 0 /\ result' # result
       => \/ status' = "none" \/ lost > 0
          \/ result' = 0 /\ round' > round]_recoveryVars

-----------------------------------------------------------------------------
(* A restarted instance is as live as the one before: restoreRoom re-arms  *)
(* the timers and scheduleMaintenanceAlarm the alarm; and in the end an    *)
(* instance lives long enough for them.                                    *)

FairRecoverySpec ==
  RecoverySpec /\ Fairness /\ <>[][~RestoreRoom]_recoveryVars

\* What is going on moves on, also when the instance crashes meanwhile: a
\* countdown ends, in a match or in the lobby, and a match does not wait for a
\* player who stays away, even if nobody ever comes back to the new instance.
MatchesMoveOn == CountdownEnds /\ AbsenceEndsMatch

=============================================================================
