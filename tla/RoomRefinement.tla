-------------------------- MODULE RoomRefinement ---------------------------
(* The room authority implements the life cycle it promises.               *)
EXTENDS RoomAuthority

Lifecycle == INSTANCE RoomLifecycle
  WITH phase <- status, seats <- players, online <- connected, verdict <- result

\* Whatever sockets, timers, jobs and restarts do, the players see a room
\* that follows RoomLifecycle: a seat is only taken and lost by its rules,
\* matches start at a full table, each round is decided once, the host role
\* follows the connected players.
ImplementsLifecycle == Lifecycle!Spec

=============================================================================
