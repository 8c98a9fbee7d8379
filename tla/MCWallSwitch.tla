---------------------------- MODULE MCWallSwitch ----------------------------
(* Two panels with a Di switch each for the same channel, one also with a    *)
(* hand at a button that the other one follows; or one panel with a switch   *)
(* at its first Di input, channel 4 by default                               *)
EXTENDS WallSwitch

CONSTANTS hall, room

SharedHands == {<<hall, 0>>, <<room, 0>>, <<room, 1>>}
DiSwitch == {<<hall, 4>>}
=============================================================================
