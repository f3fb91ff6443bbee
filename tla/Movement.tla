------------------------------- MODULE Movement -------------------------------
(* apply_move_flags (common/include/Movement.hpp), which the game server runs  *)
(* in each tick and the client in each prediction, on integers: positions in   *)
(* thousandths of a unit, facings in quarter turns.                            *)
EXTENDS Integers

MoveFlags == {"Up", "Down", "Left", "Right"}
Facings == 0..3
Vec2 == [x : Int, z : Int]

\* PLAYER_SPEED_PER_SEC over one client tick (1/64 s) and one server tick (1/20 s).
PLAYER_SPEED_PER_SEC == 1280
ClientDelta == PLAYER_SPEED_PER_SEC \div 64
ServerDelta == PLAYER_SPEED_PER_SEC \div 20

Sin(yaw) == CASE yaw = 1 -> 1 [] yaw = 3 -> -1 [] OTHER -> 0
Cos(yaw) == CASE yaw = 0 -> 1 [] yaw = 2 -> -1 [] OTHER -> 0

\* What a pair of opposite flags adds up to: 1, 0 or -1.
Along(moveFlags, forth, back) ==
  (IF forth \in moveFlags THEN 1 ELSE 0) - (IF back \in moveFlags THEN 1 ELSE 0)

\* One step of length delta per flag along the local axes: forward is (sin, cos),
\* right is (cos, -sin).
apply_move_flags(pos, moveFlags, delta, yaw) ==
  LET localForward == Along(moveFlags, "Up", "Down")
      localRight == Along(moveFlags, "Right", "Left")
  IN [x |-> pos.x + (localForward * Sin(yaw) + localRight * Cos(yaw)) * delta,
      z |-> pos.z + (localForward * Cos(yaw) - localRight * Sin(yaw)) * delta]
=============================================================================
