---------------------------- MODULE MCClientWorld ----------------------------
(* A small instance of ClientWorld for TLC: both keys of one flag, and one    *)
(* other character.                                                          *)
EXTENDS ClientWorld

CONSTANTS A, LEFT, alice, bob

MCFlag == [k \in Keys |-> "Left"]
MCPlaces == {[x |-> 0, z |-> 0], [x |-> 1, z |-> 0]}
=============================================================================
