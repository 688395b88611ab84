---------------------------- MODULE MCGameServer ----------------------------
(***************************************************************************)
(* Small instances of GameServer.                                          *)
(***************************************************************************)
EXTENDS GameServer, TLC

CONSTANTS s1, s2

MCSessions == {s1, s2}

\* One creates a room and starts a game, another comes to its room.
RoomPackets ==
  s1 :> <<{"CREATE_ROOM"}, {"START", "ATTACK"}, {"MOVE", "ATTACKED"}>>
  @@ s2 :> <<{"CREATE_ROOM", "ENTER_ROOM", "ATTACK"}, {"ENTER_ROOM", "READY"}>>

\* Any four packets each.
AllPackets ==
  [s \in MCSessions |->
    [i \in 1..4 |-> {"CREATE_ROOM", "ENTER_ROOM", "READY", "START", "MOVE", "ATTACK", "ATTACKED"}]]
=============================================================================
