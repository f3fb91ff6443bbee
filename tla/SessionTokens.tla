---------------------------- MODULE SessionTokens ----------------------------
(* What the session tokens promise to the rest of the system: a token is     *)
(* issued once by the login server, admits at most one player to the world,  *)
(* and admits nobody once it has been consumed or has lapsed.                *)
EXTENDS Naturals

CONSTANT Tokens

VARIABLES
  status,   \* per token: "unissued", "valid" or "spent"
  entries   \* per token: how many times it admitted a player

tokenVars == <<status, entries>>

Init ==
  /\ status = [t \in Tokens |-> "unissued"]
  /\ entries = [t \in Tokens |-> 0]

Issue(t) ==
  /\ status[t] = "unissued"
  /\ status' = [status EXCEPT ![t] = "valid"]
  /\ UNCHANGED entries

\* The five minutes passed, or the token was consumed and its player rejected.
Lapse(t) ==
  /\ status[t] = "valid"
  /\ status' = [status EXCEPT ![t] = "spent"]
  /\ UNCHANGED entries

\* Consuming a token and admitting its player is one step.
Enter(t) ==
  /\ status[t] = "valid"
  /\ status' = [status EXCEPT ![t] = "spent"]
  /\ entries' = [entries EXCEPT ![t] = @ + 1]

Next == \E t \in Tokens : Issue(t) \/ Lapse(t) \/ Enter(t)

Spec == Init /\ [][Next]_tokenVars
=============================================================================
