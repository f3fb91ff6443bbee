----------------------------- MODULE ClientWorld -----------------------------
(* The client's copy of the world (LogicThreadEntry in client/src/main.cpp)   *)
(* against the game server's: the player's keys, prediction and reports of    *)
(* intent on one side, the simulation and its broadcasts on the other.        *)
(*                                                                           *)
(* Threads.  The main thread runs the input callbacks; the logic thread pops *)
(* one packet per action, then samples the camera, then predicts, publishes  *)
(* and reports; the game server's strand runs packets, ticks and reapers.    *)
(* Each direction of the connection is a queue, the mailbox included.        *)
EXTENDS Movement, Sequences, FiniteSets, SequencesExt

CONSTANTS
  Me, Others,      \* the player's character and everybody else's
  Keys, Flag,      \* the keys of the keyboard and the flag each stands for
  Yaws,            \* facings the camera takes
  Width,           \* bound: coordinates are folded at this width
  Places,          \* where characters enter, and where the others walk
  MaxUp, MaxDown   \* bounds: packets under way to and from the server

Characters == {Me} \cup Others
\* The bound (floats are not folded).
Wrapped(pos) == [x |-> pos.x % Width, z |-> pos.z % Width]
Origin == [x |-> 0, z |-> 0]
Positions == [x : 0..Width - 1, z : 0..Width - 1]

ASSUME CharactersAssumption == Me \notin Others
ASSUME InputAssumption ==
  Flag \in [Keys -> MoveFlags] /\ Yaws \subseteq Facings /\ 0 \in Yaws
ASSUME BoundsAssumption ==
  /\ Width \in Nat \ {0} /\ Places \subseteq Positions
  /\ MaxUp \in Nat \ {0} /\ MaxDown \in Nat \ {0}

VARIABLES
  \* the game server
  world,         \* character -> Position of its entity
  input,         \* PlayerInput of Me
  toServer,      \* CMSG_PLAYER_MOVEs under way
  toClient,      \* packets under way, the client's mailbox included
  \* the renderer's input state, written by the callbacks
  held,          \* the keys that are down
  is_moving,     \* the flags is_moving_left_ ...
  cameraYaw_,
  \* the logic thread
  logic,         \* "drain" or "predict"
  seen,          \* the flags that were set at "some" time, and at "all" times,
                 \* since the tick began to look
  inWorld,
  registry,      \* client_registry: entity -> Transform
  local_player,  \* its entity, or Null
  yaw,           \* the Transform's yaw of local_player
  remote_players,\* character -> entity
  players        \* renderState->players: remote character -> position

serverVars == <<world, input>>
inputVars == <<held, is_moving, cameraYaw_>>
tickVars == <<logic, seen, yaw>>
replicaVars == <<inWorld, registry, local_player, remote_players>>
vars == <<serverVars, toServer, toClient, inputVars, tickVars, replicaVars, players>>

Null == 0
Intent == [moveFlags : SUBSET MoveFlags, yaw : Facings]
Messages == [op : {"ok"}, about : {Me}] \cup [op : {"leave"}, about : Characters]
              \cup [op : {"state"}, about : Characters, pos : Positions]
Unread == [some |-> {}, all |-> {}]
Ok == [op |-> "ok", about |-> Me]
State(c, w) == [op |-> "state", about |-> c, pos |-> w[c]]
Leave(c) == [op |-> "leave", about |-> c]

Init ==
  /\ world = [e \in {} |-> Origin]
  /\ input = [moveFlags |-> {}, yaw |-> 0]
  /\ toServer = <<>> /\ toClient = <<>>
  /\ held = {} /\ is_moving = {} /\ cameraYaw_ = 0
  /\ logic = "drain" /\ seen = Unread /\ yaw = 0
  /\ inWorld = FALSE /\ registry = [i \in {} |-> Origin] /\ local_player = Null
  /\ remote_players = [c \in {} |-> Null]
  /\ players = [c \in {} |-> Origin]

-----------------------------------------------------------------------------
(* The game server.  Broadcasts reach Me once it is in the world.             *)

Tell(packets) == toClient' = IF Me \in DOMAIN world THEN toClient \o packets ELSE toClient
Room(n) == Len(toClient) + n <= MaxDown

\* handle_auth: at the saved position; AUTH_OK goes out before anything else.
Enter ==
  /\ Me \notin DOMAIN world /\ Room(1)
  /\ \E p \in Places :
       world' = [c \in DOMAIN world \cup {Me} |-> IF c = Me THEN p ELSE world[c]]
  /\ toClient' = Append(toClient, Ok)
  /\ UNCHANGED <<input, toServer, inputVars, tickVars, replicaVars, players>>

\* Nobody is told of an entity before the next tick.
OtherEnters(c) ==
  /\ c \notin DOMAIN world
  /\ \E p \in Places :
       world' = [d \in DOMAIN world \cup {c} |-> IF d = c THEN p ELSE world[d]]
  /\ UNCHANGED <<input, toServer, toClient, inputVars, tickVars, replicaVars, players>>

\* The reaper of another session: destroy, then tell everybody.
OtherLeaves(c) ==
  /\ c \in DOMAIN world /\ Room(1)
  /\ world' = [d \in DOMAIN world \ {c} |-> world[d]]
  /\ Tell(<<Leave(c)>>)
  /\ UNCHANGED <<input, toServer, inputVars, tickVars, replicaVars, players>>

\* CMSG_PLAYER_MOVE
Receive ==
  /\ toServer # <<>> /\ Me \in DOMAIN world
  /\ input' = Head(toServer) /\ toServer' = Tail(toServer)
  /\ UNCHANGED <<world, toClient, inputVars, tickVars, replicaVars, players>>

\* Mutant of Broadcast: only who moved is broadcast.
BroadcastMoved(w) ==
  LET moved == {c \in DOMAIN w : w[c] # world[c]}
  IN [i \in 1..Cardinality(moved) |-> State(SetToSeq(moved)[i], w)]
Broadcast(w) ==
  [i \in 1..Cardinality(DOMAIN w) |-> State(SetToSeq(DOMAIN w)[i], w)]

\* simulate_movement and broadcast_player_states; the others walk as they like.
Tick ==
  /\ Room(Cardinality(DOMAIN world))
  /\ \E w \in [DOMAIN world -> Positions] :
       /\ \A c \in DOMAIN world :
            IF c = Me
            THEN w[c] = Wrapped(apply_move_flags(world[c], input.moveFlags,
                                                 ServerDelta, input.yaw))
            ELSE w[c] \in Places
       /\ world' = w
       /\ Tell(Broadcast(w))
  /\ UNCHANGED <<input, toServer, inputVars, tickVars, replicaVars, players>>

-----------------------------------------------------------------------------
(* The main thread: GLFW's callbacks.                                        *)

\* The logic thread may be reading the flags.
Observed ==
  /\ seen' = IF logic = "predict"
             THEN [some |-> seen.some \cup is_moving', all |-> seen.all \cap is_moving']
             ELSE seen
  /\ UNCHANGED <<logic, yaw>>

\* Mutant of FlagsAfterPress: the key's code is stored.
FlagsAfterPressRaw(k) == is_moving \cup {k}
FlagsAfterPress(k) == is_moving \cup {Flag[k]}

Press(k) ==
  /\ k \notin held /\ held' = held \cup {k}
  /\ is_moving' = FlagsAfterPress(k) /\ Observed
  /\ UNCHANGED <<serverVars, toServer, toClient, cameraYaw_, replicaVars, players>>

\* Mutant of FlagsAfterRelease: the flag stays while the pair's key is up too.
FlagsAfterReleaseSticky(k) ==
  IF \E j \in Keys \ {k} : Flag[j] = Flag[k] /\ j \notin held THEN is_moving
  ELSE is_moving \ {Flag[k]}

\* The flag is cleared whatever else is held.
FlagsAfterRelease(k) == is_moving \ {Flag[k]}

Release(k) ==
  /\ k \in held /\ held' = held \ {k}
  /\ is_moving' = FlagsAfterRelease(k) /\ Observed
  /\ UNCHANGED <<serverVars, toServer, toClient, cameraYaw_, replicaVars, players>>

\* A drag with the right button down (bound: the camera turns through Yaws once).
Look ==
  /\ cameraYaw_' \in Yaws /\ cameraYaw_' > cameraYaw_
  /\ UNCHANGED <<serverVars, toServer, toClient, held, is_moving, tickVars,
                 replicaVars, players>>

-----------------------------------------------------------------------------
(* The logic thread: draining the mailbox.                                    *)

Next1(op) == logic = "drain" /\ toClient # <<>> /\ Head(toClient).op = op
Popped == /\ toClient' = Tail(toClient)
          /\ UNCHANGED <<serverVars, toServer, inputVars, tickVars, players>>

\* client_registry.create(): an identifier that is not in use.
Created == CHOOSE i \in 1..(Cardinality(DOMAIN registry) + 1) : i \notin DOMAIN registry
Placed(i, pos) == [j \in DOMAIN registry \cup {i} |-> IF j = i THEN pos ELSE registry[j]]

\* SMSG_GAME_AUTH_OK: the local player's entity.
HandleOk ==
  /\ Next1("ok") /\ Popped
  /\ inWorld' = TRUE /\ local_player' = Created
  /\ registry' = Placed(Created, Origin)
  /\ UNCHANGED remote_players

\* character_id == local_character_id
IsSelf(c) == c = Me

\* SMSG_PLAYER_STATE of the player itself: the prediction snaps to it.
HandleOwnState ==
  /\ Next1("state") /\ Popped
  /\ inWorld /\ IsSelf(Head(toClient).about) /\ local_player \in DOMAIN registry
  /\ registry' = [registry EXCEPT ![local_player] = Head(toClient).pos]
  /\ UNCHANGED <<inWorld, local_player, remote_players>>

\* Of somebody else: get or create their entity and update it.  (Before AUTH_OK
\* it would be dropped; nothing is sent before.)
HandleOtherState ==
  LET c == Head(toClient).about
      known == c \in DOMAIN remote_players
      remote == IF known THEN remote_players[c] ELSE Created
  IN /\ Next1("state") /\ Popped
     /\ ~(inWorld /\ IsSelf(c) /\ local_player \in DOMAIN registry)
     /\ IF inWorld /\ ~IsSelf(c)
        THEN /\ remote_players' = [d \in DOMAIN remote_players \cup {c} |->
                                     IF d = c THEN remote ELSE remote_players[d]]
             /\ registry' = Placed(remote, Head(toClient).pos)
        ELSE UNCHANGED <<remote_players, registry>>
     /\ UNCHANGED <<inWorld, local_player>>

\* Mutant of Forget: the entity stays.
ForgetEntry(c) ==
  /\ remote_players' = [d \in DOMAIN remote_players \ {c} |-> remote_players[d]]
  /\ UNCHANGED registry

\* destroy the entity and erase it from the map
Forget(c) ==
  /\ remote_players' = [d \in DOMAIN remote_players \ {c} |-> remote_players[d]]
  /\ registry' = [i \in DOMAIN registry \ {remote_players[c]} |-> registry[i]]

\* SMSG_PLAYER_LEAVE
HandleLeave ==
  /\ Next1("leave") /\ Popped
  /\ IF Head(toClient).about \in DOMAIN remote_players
     THEN Forget(Head(toClient).about)
     ELSE UNCHANGED <<registry, remote_players>>
  /\ UNCHANGED <<inWorld, local_player>>

-----------------------------------------------------------------------------
(* The logic thread: the rest of the tick.                                    *)

\* try_pop() found nothing: facing follows the camera.
Sample ==
  /\ logic = "drain" /\ toClient = <<>>
  /\ inWorld /\ local_player \in DOMAIN registry
  /\ logic' = "predict" /\ yaw' = cameraYaw_
  /\ seen' = [some |-> is_moving, all |-> is_moving]
  /\ UNCHANGED <<serverVars, toServer, toClient, inputVars, replicaVars, players>>

\* The four flags are read one by one while the callbacks write them: each may be
\* read as it was at any time since the tick began to look.
Readings == {f \in SUBSET MoveFlags : seen.all \subseteq f /\ f \subseteq seen.some}

\* renderState->players: every remote player that is valid.  The player's own
\* entry is always there, and is what was predicted.
Snapshot(r) ==
  [c \in {d \in DOMAIN remote_players : remote_players[d] \in DOMAIN r} |->
     r[remote_players[c]]]

\* Mutant of Report: a player who stands reports nothing.
ReportMoving(f) ==
  toServer' = IF f = {} THEN toServer ELSE Append(toServer, [moveFlags |-> f, yaw |-> yaw])
Report(f) == toServer' = Append(toServer, [moveFlags |-> f, yaw |-> yaw])

\* Predict as the server simulates, publish, report the intent.
Predict ==
  /\ logic = "predict" /\ logic' = "drain" /\ Len(toServer) < MaxUp
  /\ \E f \in Readings :
       /\ registry' = [registry EXCEPT ![local_player] =
                         Wrapped(apply_move_flags(@, f, ClientDelta, yaw))]
       /\ Report(f)
  /\ players' = Snapshot(registry')
  /\ seen' = Unread /\ yaw' = 0   \* both are read afresh before they are used again
  /\ UNCHANGED <<serverVars, toClient, inputVars, inWorld, local_player, remote_players>>

-----------------------------------------------------------------------------
Server == Enter \/ Receive \/ Tick \/ \E c \in Others : OtherEnters(c) \/ OtherLeaves(c)
Callbacks == Look \/ \E k \in Keys : Press(k) \/ Release(k)
Drain == HandleOk \/ HandleOwnState \/ HandleOtherState \/ HandleLeave

Next == Server \/ Callbacks \/ Drain \/ Sample \/ Predict
Spec == Init /\ [][Next]_vars

\* Both threads and the strand run, and what is under way arrives.  The logic
\* thread drains faster than the server ticks (64 against 20 a second), so the
\* mailbox is empty again and again; the bound on it may disable Tick in between.
Fairness ==
  /\ WF_vars(Enter) /\ WF_vars(Receive) /\ SF_vars(Tick)
  /\ WF_vars(Drain) /\ SF_vars(Sample) /\ WF_vars(Predict)
  /\ []<>(toClient = <<>>)
FairSpec == Spec /\ Fairness

-----------------------------------------------------------------------------
(* Properties.                                                               *)

\* Every variable keeps its type, and the bounds hold.
TypeOK ==
  /\ DOMAIN world \subseteq Characters /\ world \in [DOMAIN world -> Positions]
  /\ input \in Intent
  /\ toServer \in Seq(Intent) /\ Len(toServer) <= MaxUp
  /\ toClient \in Seq(Messages) /\ Len(toClient) <= MaxDown
  /\ held \subseteq Keys /\ is_moving \subseteq MoveFlags /\ cameraYaw_ \in Facings
  /\ logic \in {"drain", "predict"} /\ yaw \in Facings
  /\ seen \in [some : SUBSET MoveFlags, all : SUBSET MoveFlags]
  /\ inWorld \in BOOLEAN /\ local_player \in Nat
  /\ DOMAIN registry \subseteq Nat \ {Null} /\ registry \in [DOMAIN registry -> Positions]
  /\ DOMAIN remote_players \subseteq Characters
  /\ remote_players \in [DOMAIN remote_players -> Nat \ {Null}]
  /\ DOMAIN players \subseteq Characters /\ players \in [DOMAIN players -> Positions]

\* The registry and the map agree: one entity per remote player, one for the
\* player itself, which is nobody's remote player, and none besides (a leak that
\* would never be drawn nor freed).
RegistryAgrees ==
  /\ inWorld <=> local_player # Null
  /\ DOMAIN registry = {remote_players[c] : c \in DOMAIN remote_players}
                         \cup (IF inWorld THEN {local_player} ELSE {})
  /\ \A c, d \in DOMAIN remote_players :
       remote_players[c] = remote_players[d] => c = d
  /\ \A c \in DOMAIN remote_players : c # Me /\ remote_players[c] # local_player

\* No ghosts: a remote player whose character left the server's world is about to
\* be removed, by a leave under way behind every state that still shows it.
Mentions(packets, c) == \E i \in 1..Len(packets) : packets[i].about = c
LeavesLast(packets, c) ==
  \E i \in 1..Len(packets) :
    packets[i] = Leave(c) /\ \A j \in i + 1..Len(packets) : packets[j].about # c
NoGhosts ==
  \A c \in Others \ DOMAIN world :
    c \in DOMAIN remote_players \/ Mentions(toClient, c) => LeavesLast(toClient, c)

\* The two records of who is there agree with one another and with the server.
RegistryTrue == RegistryAgrees /\ NoGhosts

\* The callbacks: with every key up no flag is left set.
KeysUpMeansStill == held = {} => is_moving = {}

\* "reconciles against the server's answer" (README.md): when the player lets go
\* of the keys for good, the server stops the character and client and server
\* agree on where it stands.
Reconciles ==
  <>[](held = {}) =>
    <>[](Me \in DOMAIN world /\ inWorld /\ world[Me] = registry[local_player])

\* The client draws the others as they are: once they neither come, go nor walk,
\* those in the world are drawn where they stand and nobody else is.
OthersAt == [c \in DOMAIN world \ {Me} |-> world[c]]
ViewConverges == <>[][OthersAt' = OthersAt]_vars => <>[](players = OthersAt)
=============================================================================
