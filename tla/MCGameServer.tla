----------------------------- MODULE MCGameServer -----------------------------
(* Small instances of GameServer for TLC: a two-cell world in which walking   *)
(* moves to the other cell, Say reaches the own cell and Yell both.           *)
EXTENDS GameServer, TLC

CONSTANTS s1, s2, alice, bob, t1, t2, here, there, stand, walk

MCMoved == [pi \in Positions \X Inputs |->
              IF pi[2] = stand THEN pi[1] ELSE IF pi[1] = here THEN there ELSE here]
MCHears == [c \in {"Say", "Yell"} |->
              IF c = "Say" THEN {<<p, p>> : p \in Positions} ELSE Positions \X Positions]

\* The tokens of one account (it logs in twice), or of two.
OneOwner == [t \in Tokens |-> alice]
TwoOwners == [t \in Tokens |-> IF t = t1 THEN alice ELSE bob]

Packet(op, body) == [op |-> op, body |-> body]
Auth(t) == Packet("auth", t)
Whisper == [channel |-> "Whisper", target |-> alice]
Say == [channel |-> "Say", target |-> alice]
Guild == [channel |-> "Guild", target |-> alice]

\* Everybody sends every token, too small a one, and something before it.
AuthPackets ==
  [s \in Sessions |-> {Auth(t) : t \in Tokens} \cup {Packet("auth", Short)}]
\* Two players, each with a token; they ping.
PairPackets ==
  [s \in Sessions |-> IF s = s1 THEN {Auth(t1)} ELSE {Auth(t2), Packet("ping", NoBody)}]
\* One logs in and walks; the second connection logs in to the same account.
ReturnPackets ==
  [s \in Sessions |-> IF s = s1 THEN {Auth(t1), Packet("move", walk)} ELSE {Auth(t2)}]
\* One player, every kind of packet.
AllPackets ==
  [s \in Sessions |->
     {Auth(t1), Packet("ping", NoBody), Packet("move", walk), Packet("move", NoBody),
      Packet("move", Short), Packet("chat", Say), Packet("chat", Guild),
      Packet("chat", Whisper), Packet("chat", NoBody), Packet("other", NoBody)}]
SessionSymmetry == Permutations(Sessions)
=============================================================================
