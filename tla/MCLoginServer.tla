---------------------------- MODULE MCLoginServer ----------------------------
(* Small instances of LoginServer for TLC: one of each kind of request.      *)
EXTENDS LoginServer

CONSTANTS alice, bob, s1, s2, t1, t2

Request(op, size, user, right) ==
  [op |-> op, size |-> size, user |-> user, right |-> right]
MCRequests ==
  {Request("auth", "full", alice, TRUE), Request("auth", "full", bob, TRUE),
   Request("auth", "full", alice, FALSE), Request("auth", "small", alice, FALSE),
   Request("auth", "bare", alice, FALSE), Request("auth", "under", alice, FALSE),
   Request("other", "full", alice, FALSE)}
=============================================================================
