-------------------------- MODULE ClientWorldProofs --------------------------
(* Theorems of the client's input, of its copy of the world and of the       *)
(* packets between, for any keyboard and any assignment of keys to flags, any *)
(* number of characters and any bounds.                                      *)
EXTENDS ClientWorld, FiniteSetTheorems, SequenceTheorems, TLAPS

\* A flag is only set while a key that stands for it is down: the property alone
\* says nothing of flags while some key is down, and the last key to go up clears
\* its own flag only.
FlagsFromKeys == held \subseteq Keys /\ is_moving \subseteq {Flag[k] : k \in held}

\* The input callbacks, in whatever order the keys of one flag go down and up:
\* with every key up no flag is left set.
THEOREM KeysCorrect == Spec => []KeysUpMeansStill
<1>1. Init => FlagsFromKeys
  BY DEF Init, FlagsFromKeys
<1>2. FlagsFromKeys /\ [Next]_vars => FlagsFromKeys'
  <2> SUFFICES ASSUME FlagsFromKeys, [Next]_vars PROVE FlagsFromKeys'
    OBVIOUS
  <2>1. ASSUME NEW k \in Keys, Press(k) PROVE FlagsFromKeys'
    BY <2>1 DEF Press, FlagsAfterPress, FlagsFromKeys
  <2>2. ASSUME NEW k \in Keys, Release(k) PROVE FlagsFromKeys'
    <3>1. held' = held \ {k} /\ is_moving' = is_moving \ {Flag[k]}
      BY <2>2 DEF Release, FlagsAfterRelease
    <3>2. ASSUME NEW f \in is_moving' PROVE f \in {Flag[j] : j \in held'}
      <4>1. PICK j \in held : f = Flag[j]
        BY <3>1 DEF FlagsFromKeys
      <4>2. j # k
        BY <3>1, <3>2, <4>1
      <4> QED
        BY <3>1, <4>1, <4>2
    <3> QED
      BY <3>1, <3>2 DEF FlagsFromKeys
  <2>3. CASE UNCHANGED <<held, is_moving>>
    BY <2>3 DEF FlagsFromKeys
  <2>4. (\E k \in Keys : Press(k) \/ Release(k)) \/ UNCHANGED <<held, is_moving>>
    BY DEF Next, Server, Enter, Receive, Tick, OtherEnters, OtherLeaves, Callbacks, Look,
           Drain, HandleOk, HandleOwnState, HandleOtherState, HandleLeave, Sample, Predict,
           Popped, inputVars, vars
  <2> QED
    BY <2>1, <2>2, <2>3, <2>4
<1>3. FlagsFromKeys => KeysUpMeansStill
  BY DEF FlagsFromKeys, KeysUpMeansStill
<1> QED
  BY <1>1, <1>2, <1>3, PTL DEF Spec

-----------------------------------------------------------------------------
(* The operators the model is built from.                                    *)

\* A step moves a position by whole units, whatever the flags and the facing.
LEMMA MovedIn ==
  ASSUME NEW pos \in Positions, NEW moveFlags, NEW delta \in Int, NEW facing
  PROVE  apply_move_flags(pos, moveFlags, delta, facing) \in Vec2
<1>1. /\ Along(moveFlags, "Up", "Down") \in Int /\ Along(moveFlags, "Right", "Left") \in Int
      /\ Sin(facing) \in Int /\ Cos(facing) \in Int
  BY DEF Along, Sin, Cos
<1>2. pos.x \in Int /\ pos.z \in Int
  BY BoundsAssumption DEF Positions, BoundsAssumption
<1> QED
  BY <1>1, <1>2 DEF apply_move_flags, Vec2

\* Folding brings every position back into the plane.
LEMMA WrappedIn ==
  ASSUME NEW pos \in Vec2
  PROVE  Wrapped(pos) \in Positions
<1>1. \A n \in Int : n % Width \in 0..Width - 1
  BY BoundsAssumption DEF BoundsAssumption
<1> QED
  BY <1>1 DEF Wrapped, Positions, Vec2

LEMMA OriginIn == Origin \in Positions
BY BoundsAssumption DEF Origin, Positions, BoundsAssumption

\* client_registry.create() finds an identifier, and one that is not in use: of
\* one more than there are entities, some is free.
LEMMA CreatedIsFresh ==
  ASSUME IsFiniteSet(DOMAIN registry)
  PROVE  Created \in Nat \ {Null} /\ Created \notin DOMAIN registry
<1> DEFINE n == Cardinality(DOMAIN registry)
<1>1. n \in Nat
  BY FS_CardinalityType
<1>2. IsFiniteSet(1..(n + 1)) /\ Cardinality(1..(n + 1)) = n + 1
  BY <1>1, FS_Interval
<1>3. ~(1..(n + 1) \subseteq DOMAIN registry)
  <2> SUFFICES ASSUME 1..(n + 1) \subseteq DOMAIN registry PROVE FALSE
    OBVIOUS
  <2>1. Cardinality(1..(n + 1)) <= n
    BY FS_Subset
  <2> QED
    BY <1>1, <1>2, <2>1
<1>4. \E i \in 1..(n + 1) : i \notin DOMAIN registry
  BY <1>3
<1>5. Created \in 1..(n + 1) /\ Created \notin DOMAIN registry
  BY <1>4 DEF Created
<1> QED
  BY <1>1, <1>5 DEF Null

\* broadcast_player_states(): one state of each entity, and nothing else.
LEMMA BroadcastStates ==
  ASSUME NEW D \in SUBSET Characters, IsFiniteSet(D), NEW w \in [D -> Positions]
  PROVE  /\ Broadcast(w) \in Seq(Messages) /\ Len(Broadcast(w)) = Cardinality(D)
         /\ \A i \in 1..Cardinality(D) :
              Broadcast(w)[i].op = "state" /\ Broadcast(w)[i].about \in D
<1> DEFINE n == Cardinality(D)
<1> DEFINE s == SetToSeq(D)
<1>1. n \in Nat /\ ExistsBijection(1..n, D)
  BY FS_CardinalityType
<1>2. PICK b \in [1..n -> D] : IsInjective(b)
  BY <1>1 DEF ExistsBijection, Bijection, Injection
<1>3. s \in [1..n -> D]
  BY <1>2 DEF SetToSeq
<1> HIDE DEF s
<1>4. DOMAIN w = D
  OBVIOUS
<1>5. Broadcast(w) = [i \in 1..n |-> State(s[i], w)]
  BY <1>4 DEF Broadcast, s
<1>6. ASSUME NEW i \in 1..n
      PROVE  /\ State(s[i], w) \in Messages
             /\ State(s[i], w).op = "state" /\ State(s[i], w).about \in D
  <2>1. s[i] \in D /\ s[i] \in Characters /\ w[s[i]] \in Positions
    BY <1>3
  <2> QED
    BY <2>1 DEF State, Messages
<1> HIDE DEF n
<1>7. Broadcast(w) \in Seq(Messages) /\ Len(Broadcast(w)) = n
  BY <1>1, <1>5, <1>6
<1>8. \A i \in 1..n : Broadcast(w)[i].op = "state" /\ Broadcast(w)[i].about \in D
  BY <1>5, <1>6
<1> QED
  BY <1>7, <1>8 DEF n

-----------------------------------------------------------------------------
(* Types.                                                                    *)

WorldType ==
  /\ DOMAIN world \subseteq Characters /\ world \in [DOMAIN world -> Positions]
  /\ IsFiniteSet(DOMAIN world)
UpType == input \in Intent /\ toServer \in Seq(Intent) /\ Len(toServer) <= MaxUp
DownType == toClient \in Seq(Messages) /\ Len(toClient) <= MaxDown
InputType == held \subseteq Keys /\ is_moving \subseteq MoveFlags /\ cameraYaw_ \in Facings
TickType ==
  /\ logic \in {"drain", "predict"} /\ yaw \in Facings
  /\ seen \in [some : SUBSET MoveFlags, all : SUBSET MoveFlags]
ReplicaType ==
  /\ inWorld \in BOOLEAN /\ local_player \in Nat
  /\ DOMAIN registry \subseteq Nat \ {Null} /\ registry \in [DOMAIN registry -> Positions]
  /\ IsFiniteSet(DOMAIN registry)
  /\ DOMAIN remote_players \subseteq Characters
  /\ remote_players \in [DOMAIN remote_players -> Nat \ {Null}]
ViewType == DOMAIN players \subseteq Characters /\ players \in [DOMAIN players -> Positions]

\* TypeOK and what counting the entities needs: there are finitely many, on the
\* server and in the client's registry.
Types ==
  /\ WorldType /\ UpType /\ DownType /\ InputType /\ TickType /\ ReplicaType /\ ViewType

LEMMA TypesInit == Init => Types
<1> SUFFICES ASSUME Init PROVE Types
  OBVIOUS
<1>1. IsFiniteSet({})
  BY FS_EmptySet
<1>2. /\ world = [e \in {} |-> Origin] /\ registry = [i \in {} |-> Origin]
      /\ remote_players = [c \in {} |-> Null] /\ players = [c \in {} |-> Origin]
      /\ input = [moveFlags |-> {}, yaw |-> 0] /\ toServer = <<>> /\ toClient = <<>>
      /\ held = {} /\ is_moving = {} /\ cameraYaw_ = 0
      /\ logic = "drain" /\ seen = Unread /\ yaw = 0 /\ inWorld = FALSE /\ local_player = Null
  BY DEF Init
<1>3. WorldType
  BY <1>1, <1>2 DEF WorldType
<1>4. UpType
  BY <1>2, BoundsAssumption DEF UpType, Intent, Facings, BoundsAssumption
<1>5. DownType
  BY <1>2, BoundsAssumption DEF DownType, BoundsAssumption
<1>6. InputType
  BY <1>2 DEF InputType, Facings
<1>7. TickType
  BY <1>2 DEF TickType, Facings, Unread
<1>8. ReplicaType
  BY <1>1, <1>2 DEF ReplicaType, Null
<1>9. ViewType
  BY <1>2 DEF ViewType
<1> QED
  BY <1>3, <1>4, <1>5, <1>6, <1>7, <1>8, <1>9 DEF Types

\* What every action does to the packets for the client: it adds some, or takes
\* the first.
LEMMA DownKeeps ==
  ASSUME Types, Next
  PROVE  DownType'
<1>1. toClient \in Seq(Messages) /\ Len(toClient) \in Nat /\ Len(toClient) <= MaxDown
      /\ MaxDown \in Nat
  BY BoundsAssumption DEF Types, DownType, BoundsAssumption
<1>2. ASSUME NEW packets \in Seq(Messages), Room(Len(packets)),
             toClient' = toClient \o packets
      PROVE  DownType'
  <2>1. Len(packets) \in Nat /\ Len(toClient') = Len(toClient) + Len(packets)
    BY <1>1, <1>2
  <2> QED
    BY <1>1, <1>2, <2>1 DEF DownType, Room
<1>3. CASE Enter
  <2>1. Ok \in Messages
    BY DEF Ok, Messages
  <2>2. toClient' = toClient \o <<Ok>> /\ <<Ok>> \in Seq(Messages) /\ Room(Len(<<Ok>>))
    BY <1>1, <1>3, <2>1 DEF Enter
  <2> QED
    BY <1>2, <2>2
<1>4. ASSUME NEW c \in Others, OtherLeaves(c)
      PROVE  DownType'
  <2>1. Leave(c) \in Messages
    BY DEF Leave, Messages, Characters
  <2>2. <<Leave(c)>> \in Seq(Messages) /\ Room(Len(<<Leave(c)>>))
    BY <1>4, <2>1 DEF OtherLeaves
  <2>3. toClient' = toClient \o <<Leave(c)>> \/ toClient' = toClient
    BY <1>4 DEF OtherLeaves, Tell
  <2> QED
    BY <1>1, <1>2, <2>2, <2>3 DEF DownType
<1>5. CASE Tick
  <2>1. PICK w \in [DOMAIN world -> Positions] : Tell(Broadcast(w))
    BY <1>5 DEF Tick
  <2>2. Broadcast(w) \in Seq(Messages) /\ Len(Broadcast(w)) = Cardinality(DOMAIN world)
    BY BroadcastStates DEF Types, WorldType
  <2>3. Room(Cardinality(DOMAIN world))
    BY <1>5 DEF Tick
  <2>4. toClient' = toClient \o Broadcast(w) \/ toClient' = toClient
    BY <2>1 DEF Tell
  <2>5. Room(Len(Broadcast(w)))
    BY <2>2, <2>3
  <2> QED
    BY <1>1, <1>2, <2>2, <2>4, <2>5 DEF DownType
<1>6. CASE toClient # <<>> /\ toClient' = Tail(toClient)
  <2>1. Tail(toClient) \in Seq(Messages) /\ Len(Tail(toClient)) = Len(toClient) - 1
    BY <1>1, <1>6
  <2> QED
    BY <1>1, <1>6, <2>1 DEF DownType
<1>7. CASE UNCHANGED toClient
  BY <1>1, <1>7 DEF DownType
<1>8. \/ Enter \/ Tick \/ \E c \in Others : OtherLeaves(c)
      \/ toClient # <<>> /\ toClient' = Tail(toClient)
      \/ UNCHANGED toClient
  BY DEF Next, Server, Callbacks, Drain, Receive, OtherEnters, Look, Press, Release, Sample,
         Predict, HandleOk, HandleOwnState, HandleOtherState, HandleLeave, Next1, Popped
<1> QED
  BY <1>3, <1>4, <1>5, <1>6, <1>7, <1>8

\* Who enters is added to the world, who leaves is taken from it.
LEMMA WorldKeeps ==
  ASSUME Types, Next
  PROVE  WorldType'
<1>1. DOMAIN world \subseteq Characters /\ world \in [DOMAIN world -> Positions]
      /\ IsFiniteSet(DOMAIN world)
  BY DEF Types, WorldType
<1>2. ASSUME NEW c \in Characters, NEW p \in Positions,
             world' = [d \in DOMAIN world \cup {c} |-> IF d = c THEN p ELSE world[d]]
      PROVE  WorldType'
  <2>1. IsFiniteSet(DOMAIN world \cup {c})
    BY <1>1, FS_AddElement
  <2>2. DOMAIN world' = DOMAIN world \cup {c}
    BY <1>2
  <2>3. world' \in [DOMAIN world \cup {c} -> Positions]
    BY <1>1, <1>2
  <2> QED
    BY <1>1, <2>1, <2>2, <2>3 DEF WorldType
<1>3. Places \subseteq Positions /\ Me \in Characters /\ Others \subseteq Characters
  BY BoundsAssumption DEF Characters, BoundsAssumption
<1>4. CASE Enter
  <2>1. PICK p \in Places :
          world' = [c \in DOMAIN world \cup {Me} |-> IF c = Me THEN p ELSE world[c]]
    BY <1>4 DEF Enter
  <2> QED
    BY <1>2, <1>3, <2>1
<1>5. ASSUME NEW c \in Others, OtherEnters(c)
      PROVE  WorldType'
  <2>1. PICK p \in Places :
          world' = [d \in DOMAIN world \cup {c} |-> IF d = c THEN p ELSE world[d]]
    BY <1>5 DEF OtherEnters
  <2> QED
    BY <1>2, <1>3, <2>1
<1>6. ASSUME NEW c \in Others, OtherLeaves(c)
      PROVE  WorldType'
  <2>1. world' = [d \in DOMAIN world \ {c} |-> world[d]]
    BY <1>6 DEF OtherLeaves
  <2>2. IsFiniteSet(DOMAIN world \ {c})
    BY <1>1, FS_RemoveElement
  <2>3. DOMAIN world' = DOMAIN world \ {c} /\ world' \in [DOMAIN world \ {c} -> Positions]
    BY <1>1, <2>1
  <2> QED
    BY <1>1, <2>2, <2>3 DEF WorldType
<1>7. CASE Tick
  <2>1. PICK w \in [DOMAIN world -> Positions] : world' = w
    BY <1>7 DEF Tick
  <2> QED
    BY <1>1, <2>1 DEF WorldType
<1>8. CASE UNCHANGED world
  BY <1>1, <1>8 DEF WorldType
<1>9. \/ Enter \/ Tick \/ (\E c \in Others : OtherEnters(c) \/ OtherLeaves(c))
      \/ UNCHANGED world
  BY DEF Next, Server, Callbacks, Drain, Receive, Look, Press, Release, Sample, Predict,
         HandleOk, HandleOwnState, HandleOtherState, HandleLeave, Popped, serverVars
<1> QED
  BY <1>4, <1>5, <1>6, <1>7, <1>8, <1>9

\* The callbacks set and clear flags that stand for keys; the reports carry what
\* was read of them.
LEMMA InputKeeps ==
  ASSUME Types, Next
  PROVE  InputType' /\ TickType' /\ UpType'
<1>1. InputType'
  <2>1. held \subseteq Keys /\ is_moving \subseteq MoveFlags /\ cameraYaw_ \in Facings
    BY DEF Types, InputType
  <2>2. (\E k \in Keys : Press(k) \/ Release(k)) => InputType'
    BY <2>1, InputAssumption DEF Press, Release, FlagsAfterPress, FlagsAfterRelease,
         InputAssumption, InputType
  <2>3. Look => InputType'
    BY <2>1, InputAssumption DEF Look, InputAssumption, InputType
  <2>4. UNCHANGED inputVars => InputType'
    BY <2>1 DEF inputVars, InputType
  <2>5. \/ Look \/ (\E k \in Keys : Press(k) \/ Release(k)) \/ UNCHANGED inputVars
    BY DEF Next, Server, Callbacks, Drain, Enter, OtherEnters, OtherLeaves, Receive, Tick,
           Sample, Predict, HandleOk, HandleOwnState, HandleOtherState, HandleLeave, Popped
  <2> QED
    BY <2>2, <2>3, <2>4, <2>5
<1>2. TickType'
  <2>1. /\ is_moving \subseteq MoveFlags /\ cameraYaw_ \in Facings
        /\ logic \in {"drain", "predict"} /\ yaw \in Facings
        /\ seen \in [some : SUBSET MoveFlags, all : SUBSET MoveFlags]
    BY DEF Types, InputType, TickType
  <2>2. Sample \/ Predict => TickType'
    BY <2>1 DEF Sample, Predict, TickType, Facings, Unread
  <2>3. UNCHANGED tickVars => TickType'
    BY <2>1 DEF tickVars, TickType
  <2>4. Observed => TickType'
    <3>1. is_moving' \subseteq MoveFlags
      BY <1>1 DEF InputType
    <3> QED
      BY <2>1, <3>1 DEF Observed, TickType
  <2>5. Sample \/ Predict \/ Observed \/ UNCHANGED tickVars
    BY DEF Next, Server, Callbacks, Drain, Enter, OtherEnters, OtherLeaves, Receive, Tick,
           Look, Press, Release, HandleOk, HandleOwnState, HandleOtherState, HandleLeave,
           Popped
  <2> QED
    BY <2>2, <2>3, <2>4, <2>5
<1>3. UpType'
  <2>1. /\ input \in Intent /\ toServer \in Seq(Intent) /\ Len(toServer) <= MaxUp
        /\ MaxUp \in Nat
    BY BoundsAssumption DEF Types, UpType, BoundsAssumption
  <2>2. CASE Receive
    <3>1. Head(toServer) \in Intent /\ Tail(toServer) \in Seq(Intent)
          /\ Len(Tail(toServer)) = Len(toServer) - 1
      BY <2>1, <2>2 DEF Receive
    <3> QED
      BY <2>1, <2>2, <3>1 DEF Receive, UpType
  <2>3. CASE Predict
    <3>1. PICK f \in Readings : Report(f)
      BY <2>3 DEF Predict
    <3>2. f \in SUBSET MoveFlags /\ yaw \in Facings
      BY DEF Readings, Types, TickType
    <3>3. toServer' = Append(toServer, [moveFlags |-> f, yaw |-> yaw])
      BY <3>1 DEF Report
    <3>4. [moveFlags |-> f, yaw |-> yaw] \in Intent
      BY <3>2 DEF Intent
    <3>5. toServer' \in Seq(Intent) /\ Len(toServer') = Len(toServer) + 1
      BY <2>1, <3>3, <3>4
    <3>6. Len(toServer) < MaxUp /\ input' = input
      BY <2>3 DEF Predict, serverVars
    <3> QED
      BY <2>1, <3>5, <3>6 DEF UpType
  <2>4. CASE UNCHANGED <<input, toServer>>
    BY <2>1, <2>4 DEF UpType
  <2>5. Receive \/ Predict \/ UNCHANGED <<input, toServer>>
    BY DEF Next, Server, Callbacks, Drain, Enter, OtherEnters, OtherLeaves, Tick, Look,
           Press, Release, Sample, HandleOk, HandleOwnState, HandleOtherState, HandleLeave,
           Popped, serverVars
  <2> QED
    BY <2>2, <2>3, <2>4, <2>5
<1> QED
  BY <1>1, <1>2, <1>3

\* What is drawn is in the registry.
LEMMA SnapshotIn ==
  ASSUME DOMAIN remote_players \subseteq Characters,
         NEW r, r \in [DOMAIN r -> Positions]
  PROVE  /\ DOMAIN Snapshot(r) \subseteq Characters
         /\ Snapshot(r) \in [DOMAIN Snapshot(r) -> Positions]
<1> DEFINE D == {d \in DOMAIN remote_players : remote_players[d] \in DOMAIN r}
<1>1. Snapshot(r) = [c \in D |-> r[remote_players[c]]]
  BY DEF Snapshot
<1>2. DOMAIN Snapshot(r) = D
  BY <1>1
<1>3. \A c \in D : r[remote_players[c]] \in Positions
  OBVIOUS
<1>4. [c \in D |-> r[remote_players[c]]] \in [D -> Positions]
  BY <1>3
<1> QED
  BY <1>1, <1>2, <1>4

\* The drained packets and the prediction place what they are about; everything
\* else leaves the registry alone.
LEMMA PredictedIn ==
  ASSUME Types, NEW f, registry \in [DOMAIN registry -> Positions],
         NEW r, r = [registry EXCEPT ![local_player] =
                       Wrapped(apply_move_flags(@, f, ClientDelta, yaw))]
  PROVE  DOMAIN r = DOMAIN registry /\ r \in [DOMAIN registry -> Positions]
<1>1. ClientDelta \in Int
  BY DEF ClientDelta, PLAYER_SPEED_PER_SEC
<1> DEFINE p == Wrapped(apply_move_flags(registry[local_player], f, ClientDelta, yaw))
<1>2. local_player \in DOMAIN registry => p \in Positions
  BY <1>1, MovedIn, WrappedIn
<1>3. r = [registry EXCEPT ![local_player] = p]
  OBVIOUS
<1> HIDE DEF p
<1> QED
  BY <1>2, <1>3

LEMMA ReplicaKeeps ==
  ASSUME Types, Next
  PROVE  ReplicaType' /\ ViewType'
<1>1. /\ inWorld \in BOOLEAN /\ local_player \in Nat
      /\ DOMAIN registry \subseteq Nat \ {Null} /\ registry \in [DOMAIN registry -> Positions]
      /\ IsFiniteSet(DOMAIN registry)
      /\ DOMAIN remote_players \subseteq Characters
      /\ remote_players \in [DOMAIN remote_players -> Nat \ {Null}]
      /\ DOMAIN players \subseteq Characters /\ players \in [DOMAIN players -> Positions]
      /\ toClient \in Seq(Messages)
  BY DEF Types, ReplicaType, ViewType, DownType
<1>2. Created \in Nat \ {Null} /\ Created \notin DOMAIN registry
  BY <1>1, CreatedIsFresh
<1> HIDE DEF Created
<1>3. ASSUME NEW i \in Nat \ {Null}, NEW pos \in Positions, registry' = Placed(i, pos)
      PROVE  /\ DOMAIN registry' \subseteq Nat \ {Null} /\ IsFiniteSet(DOMAIN registry')
             /\ registry' \in [DOMAIN registry' -> Positions]
  <2>1. registry' = [j \in DOMAIN registry \cup {i} |-> IF j = i THEN pos ELSE registry[j]]
    BY <1>3 DEF Placed
  <2>2. DOMAIN registry' = DOMAIN registry \cup {i}
    BY <2>1
  <2>3. IsFiniteSet(DOMAIN registry \cup {i})
    BY <1>1, FS_AddElement
  <2>4. registry' \in [DOMAIN registry \cup {i} -> Positions]
    BY <1>1, <2>1
  <2> QED
    BY <1>1, <2>2, <2>3, <2>4
<1>4. ASSUME Drain
      PROVE  toClient # <<>> /\ Head(toClient) \in Messages /\ UNCHANGED players
  <2>1. toClient # <<>> /\ UNCHANGED players
    BY <1>4 DEF Drain, HandleOk, HandleOwnState, HandleOtherState, HandleLeave, Next1, Popped
  <2> QED
    BY <1>1, <2>1
<1>5. CASE HandleOk
  <2>1. /\ inWorld' = TRUE /\ local_player' = Created /\ registry' = Placed(Created, Origin)
        /\ remote_players' = remote_players /\ players' = players
    BY <1>5 DEF HandleOk, Popped
  <2>2. /\ DOMAIN registry' \subseteq Nat \ {Null} /\ IsFiniteSet(DOMAIN registry')
        /\ registry' \in [DOMAIN registry' -> Positions]
    BY <1>2, <1>3, <2>1, OriginIn
  <2> QED
    BY <1>1, <1>2, <2>1, <2>2 DEF ReplicaType, ViewType
<1>6. CASE HandleOwnState
  <2>1. /\ registry' = [registry EXCEPT ![local_player] = Head(toClient).pos]
        /\ UNCHANGED <<inWorld, local_player, remote_players, players>>
    BY <1>6 DEF HandleOwnState, Popped
  <2>2. Head(toClient).pos \in Positions
    BY <1>4, <1>6 DEF Drain, HandleOwnState, Next1, Messages
  <2>3. DOMAIN registry' = DOMAIN registry /\ registry' \in [DOMAIN registry -> Positions]
    BY <1>1, <2>1, <2>2
  <2> QED
    BY <1>1, <2>1, <2>3 DEF ReplicaType, ViewType
<1>7. CASE HandleOtherState
  <2> DEFINE c == Head(toClient).about
  <2> DEFINE remote == IF c \in DOMAIN remote_players THEN remote_players[c] ELSE Created
  <2>1. c \in Characters /\ Head(toClient).pos \in Positions
    BY <1>4, <1>7 DEF Drain, HandleOtherState, Next1, Messages
  <2>2. remote \in Nat \ {Null}
    BY <1>1, <1>2
  <2>3. UNCHANGED <<inWorld, local_player, players>>
    BY <1>7 DEF HandleOtherState, Popped
  <2>4. \/ UNCHANGED <<remote_players, registry>>
        \/ /\ remote_players' = [d \in DOMAIN remote_players \cup {c} |->
                                   IF d = c THEN remote ELSE remote_players[d]]
           /\ registry' = Placed(remote, Head(toClient).pos)
    BY <1>7 DEF HandleOtherState
  <2> HIDE DEF remote
  <2>5. CASE UNCHANGED <<remote_players, registry>>
    BY <1>1, <2>3, <2>5 DEF ReplicaType, ViewType
  <2>6. CASE /\ remote_players' = [d \in DOMAIN remote_players \cup {c} |->
                                     IF d = c THEN remote ELSE remote_players[d]]
             /\ registry' = Placed(remote, Head(toClient).pos)
    <3> HIDE DEF c
    <3>1. /\ DOMAIN remote_players' \subseteq Characters
          /\ remote_players' \in [DOMAIN remote_players' -> Nat \ {Null}]
      BY <1>1, <2>1, <2>2, <2>6
    <3>2. /\ DOMAIN registry' \subseteq Nat \ {Null} /\ IsFiniteSet(DOMAIN registry')
          /\ registry' \in [DOMAIN registry' -> Positions]
      BY <1>3, <2>1, <2>2, <2>6
    <3> QED
      BY <1>1, <2>3, <3>1, <3>2 DEF ReplicaType, ViewType
  <2> QED
    BY <2>4, <2>5, <2>6
<1>8. CASE HandleLeave
  <2>1. UNCHANGED <<inWorld, local_player, players>>
    BY <1>8 DEF HandleLeave, Popped
  <2>2. UNCHANGED <<registry, remote_players>> \/ \E c : Forget(c)
    BY <1>8 DEF HandleLeave
  <2>3. ASSUME NEW c, Forget(c)
        PROVE  /\ DOMAIN registry' \subseteq Nat \ {Null} /\ IsFiniteSet(DOMAIN registry')
               /\ registry' \in [DOMAIN registry' -> Positions]
               /\ DOMAIN remote_players' \subseteq Characters
               /\ remote_players' \in [DOMAIN remote_players' -> Nat \ {Null}]
    <3>1. IsFiniteSet(DOMAIN registry \ {remote_players[c]})
      BY <1>1, FS_RemoveElement
    <3> QED
      BY <1>1, <2>3, <3>1 DEF Forget
  <2> QED
    BY <1>1, <2>1, <2>2, <2>3 DEF ReplicaType, ViewType
<1>9. CASE Predict
  <2>1. PICK f \in Readings :
          registry' = [registry EXCEPT ![local_player] =
                         Wrapped(apply_move_flags(@, f, ClientDelta, yaw))]
    BY <1>9 DEF Predict
  <2>2. DOMAIN registry' = DOMAIN registry /\ registry' \in [DOMAIN registry -> Positions]
    BY <1>1, <2>1, PredictedIn
  <2>3. players' = Snapshot(registry') /\ UNCHANGED <<inWorld, local_player, remote_players>>
    BY <1>9 DEF Predict
  <2>4. DOMAIN players' \subseteq Characters /\ players' \in [DOMAIN players' -> Positions]
    BY <1>1, <2>2, <2>3, SnapshotIn
  <2> QED
    BY <1>1, <2>2, <2>3, <2>4 DEF ReplicaType, ViewType
<1>10. CASE UNCHANGED <<replicaVars, players>>
  BY <1>1, <1>10 DEF replicaVars, ReplicaType, ViewType
<1>11. \/ HandleOk \/ HandleOwnState \/ HandleOtherState \/ HandleLeave \/ Predict
       \/ UNCHANGED <<replicaVars, players>>
  BY DEF Next, Server, Callbacks, Drain, Enter, OtherEnters, OtherLeaves, Receive, Tick, Look,
         Press, Release, Sample
<1> QED
  BY <1>5, <1>6, <1>7, <1>8, <1>9, <1>10, <1>11

LEMMA TypesKeep == Types /\ [Next]_vars => Types'
<1>1. Types /\ Next => Types'
  BY DownKeeps, WorldKeeps, InputKeeps, ReplicaKeeps DEF Types
<1>2. Types /\ UNCHANGED vars => Types'
  BY DEF vars, serverVars, inputVars, tickVars, replicaVars, Types, WorldType, UpType,
         DownType, InputType, TickType, ReplicaType, ViewType
<1> QED
  BY <1>1, <1>2

\* Every thread, every packet: the variables keep their types, the queues their
\* bounds, and entities get identifiers that are free.
THEOREM TypeCorrect == Spec => []TypeOK
<1>1. Types => TypeOK
  BY DEF Types, WorldType, UpType, DownType, InputType, TickType, ReplicaType, ViewType, TypeOK
<1> QED
  BY <1>1, TypesInit, TypesKeep, PTL DEF Spec

-----------------------------------------------------------------------------
(* Packets under way: some are added behind, the first is taken.             *)

LEMMA AddedBehind ==
  ASSUME NEW S, NEW q \in Seq(S), NEW p \in Seq(S)
  PROVE  /\ q \o p \in Seq(S) /\ Len(q) \in Nat /\ Len(p) \in Nat
         /\ Len(q \o p) = Len(q) + Len(p)
         /\ \A i \in 1..Len(q) : (q \o p)[i] = q[i]
         /\ \A i \in 1..Len(p) : (q \o p)[Len(q) + i] = p[i]
OBVIOUS

LEMMA FirstTaken ==
  ASSUME NEW S, NEW q \in Seq(S), q # <<>>
  PROVE  /\ Tail(q) \in Seq(S) /\ Len(q) \in Nat \ {0} /\ Len(Tail(q)) = Len(q) - 1
         /\ Head(q) = q[1] /\ Head(q) \in S
         /\ \A i \in 1..Len(Tail(q)) : Tail(q)[i] = q[i + 1]
OBVIOUS

\* Packets about others do not put off a leave.
LEMMA OthersAdded ==
  ASSUME NEW q \in Seq(Messages), NEW p \in Seq(Messages), NEW c, ~Mentions(p, c)
  PROVE  /\ Mentions(q \o p, c) => Mentions(q, c)
         /\ LeavesLast(q, c) => LeavesLast(q \o p, c)
<1> DEFINE r == q \o p
<1>1. /\ Len(q) \in Nat /\ Len(p) \in Nat /\ Len(r) = Len(q) + Len(p)
      /\ \A i \in 1..Len(q) : r[i] = q[i]
      /\ \A i \in 1..Len(p) : r[Len(q) + i] = p[i]
  BY AddedBehind
<1> HIDE DEF r
<1>2. ASSUME NEW i \in 1..Len(r), i > Len(q)
      PROVE  r[i].about # c
  <2>1. i - Len(q) \in 1..Len(p) /\ i = Len(q) + (i - Len(q))
    BY <1>1, <1>2
  <2>2. r[i] = p[i - Len(q)]
    BY <1>1, <2>1
  <2> QED
    BY <2>1, <2>2 DEF Mentions
<1>3. Mentions(r, c) => Mentions(q, c)
  <2> SUFFICES ASSUME NEW i \in 1..Len(r), r[i].about = c
               PROVE  Mentions(q, c)
    BY DEF Mentions
  <2>1. i \in 1..Len(q)
    BY <1>1, <1>2
  <2> QED
    BY <1>1, <2>1 DEF Mentions
<1>4. LeavesLast(q, c) => LeavesLast(r, c)
  <2> SUFFICES ASSUME NEW i \in 1..Len(q), q[i] = Leave(c),
                      \A j \in i + 1..Len(q) : q[j].about # c
               PROVE  LeavesLast(r, c)
    BY DEF LeavesLast
  <2>1. i \in 1..Len(r) /\ r[i] = Leave(c)
    BY <1>1
  <2>2. ASSUME NEW j \in i + 1..Len(r)
        PROVE  r[j].about # c
    <3>1. CASE j <= Len(q)
      <4>1. j \in 1..Len(q) /\ j \in i + 1..Len(q)
        BY <3>1
      <4> QED
        BY <1>1, <4>1
    <3>2. CASE j > Len(q)
      <4>1. j \in 1..Len(r)
        OBVIOUS
      <4> QED
        BY <1>2, <3>2, <4>1
    <3> QED
      BY <1>1, <3>1, <3>2
  <2> QED
    BY <2>1, <2>2 DEF LeavesLast
<1> QED
  BY <1>3, <1>4 DEF r

\* What is taken is no longer mentioned, and puts off no leave behind it.
LEMMA LeaveBehind ==
  ASSUME NEW q \in Seq(Messages), q # <<>>, NEW c
  PROVE  /\ Mentions(Tail(q), c) => Mentions(q, c)
         /\ LeavesLast(q, c) =>
              LeavesLast(Tail(q), c) \/ (Head(q) = Leave(c) /\ ~Mentions(Tail(q), c))
<1> DEFINE r == Tail(q)
<1>1. /\ Len(q) \in Nat \ {0} /\ Len(r) = Len(q) - 1 /\ Head(q) = q[1]
      /\ \A i \in 1..Len(r) : r[i] = q[i + 1]
  BY FirstTaken
<1> HIDE DEF r
<1>2. Mentions(r, c) => Mentions(q, c)
  <2> SUFFICES ASSUME NEW i \in 1..Len(r), r[i].about = c
               PROVE  Mentions(q, c)
    BY DEF Mentions
  <2>1. i + 1 \in 1..Len(q)
    BY <1>1
  <2> QED
    BY <1>1, <2>1 DEF Mentions
<1>3. LeavesLast(q, c) => LeavesLast(r, c) \/ (Head(q) = Leave(c) /\ ~Mentions(r, c))
  <2> SUFFICES ASSUME NEW i \in 1..Len(q), q[i] = Leave(c),
                      \A j \in i + 1..Len(q) : q[j].about # c
               PROVE  LeavesLast(r, c) \/ (Head(q) = Leave(c) /\ ~Mentions(r, c))
    BY DEF LeavesLast
  <2>1. ASSUME NEW j \in 1..Len(r), j >= i
        PROVE  r[j].about # c
    <3>1. j + 1 \in i + 1..Len(q)
      BY <1>1, <2>1
    <3> QED
      BY <1>1, <3>1
  <2>2. CASE i = 1
    <3>1. ~Mentions(r, c)
      BY <2>1, <2>2 DEF Mentions
    <3> QED
      BY <1>1, <2>2, <3>1
  <2>3. CASE i # 1
    <3>1. i - 1 \in 1..Len(r) /\ (i - 1) + 1 = i
      BY <1>1, <2>3
    <3>2. r[i - 1] = Leave(c)
      BY <1>1, <3>1
    <3>3. \A j \in (i - 1) + 1..Len(r) : r[j].about # c
      BY <2>1, <3>1
    <3> QED
      BY <3>1, <3>2, <3>3 DEF LeavesLast
  <2> QED
    BY <2>2, <2>3
<1> QED
  BY <1>2, <1>3 DEF r

LEMMA LeaveAdded ==
  ASSUME NEW q \in Seq(Messages), NEW c, Leave(c) \in Messages
  PROVE  LeavesLast(q \o <<Leave(c)>>, c)
<1> DEFINE r == q \o <<Leave(c)>>
<1>1. Len(r) = Len(q) + 1 /\ Len(q) \in Nat /\ r[Len(q) + 1] = Leave(c)
  OBVIOUS
<1> HIDE DEF r
<1>2. Len(q) + 1 \in 1..Len(r) /\ (Len(q) + 1) + 1..Len(r) = {}
  BY <1>1
<1>3. LeavesLast(r, c)
  BY <1>1, <1>2 DEF LeavesLast
<1> QED
  BY <1>3 DEF r

-----------------------------------------------------------------------------
(* The registry.                                                             *)

\* AUTH_OK comes once and first: the server sends nothing before it, and nobody
\* is a remote player until it is handled.
AuthFirst ==
  /\ Me \notin DOMAIN world => toClient = <<>> /\ ~inWorld
  /\ Me \in DOMAIN world /\ ~inWorld => toClient # <<>>
  /\ \A i \in 1..Len(toClient) : toClient[i].op = "ok" <=> i = 1 /\ ~inWorld
  /\ ~inWorld => DOMAIN remote_players = {}

\* RegistryTrue says too little of the packets: a second AUTH_OK would leave an
\* entity behind, and a packet before the first one is of no registry.
Registry == AuthFirst /\ RegistryAgrees /\ NoGhosts

LEMMA RegistryInit == Init => Registry
<1> SUFFICES ASSUME Init PROVE Registry
  OBVIOUS
<1>1. /\ world = [e \in {} |-> Origin] /\ registry = [i \in {} |-> Origin]
      /\ remote_players = [c \in {} |-> Null] /\ toClient = <<>>
      /\ inWorld = FALSE /\ local_player = Null
  BY DEF Init
<1>2. Len(toClient) = 0 /\ 1..Len(toClient) = {}
  BY <1>1
<1>3. AuthFirst
  BY <1>1, <1>2 DEF AuthFirst
<1>4. RegistryAgrees
  BY <1>1 DEF RegistryAgrees
<1>5. NoGhosts
  BY <1>1, <1>2 DEF NoGhosts, Mentions
<1> QED
  BY <1>3, <1>4, <1>5 DEF Registry

\* While the logic thread drains nothing, AUTH_OK stays first and the registry as
\* it is: the server adds packets behind, and only to a client it has admitted.
LEMMA AddingKeeps ==
  ASSUME Types, Registry, NEW packets \in Seq(Messages),
         \A i \in 1..Len(packets) : packets[i].op # "ok",
         toClient' = IF Me \in DOMAIN world THEN toClient \o packets ELSE toClient,
         Me \in DOMAIN world' <=> Me \in DOMAIN world,
         inWorld' = inWorld, remote_players' = remote_players
  PROVE  AuthFirst'
<1>1. toClient \in Seq(Messages) /\ AuthFirst
  BY DEF Types, DownType, Registry
<1>2. CASE Me \notin DOMAIN world
  <2>1. toClient' = toClient
    BY <1>2
  <2> QED
    BY <1>1, <2>1 DEF AuthFirst
<1>3. CASE Me \in DOMAIN world
  <2>1. /\ toClient' \in Seq(Messages) /\ Len(toClient) \in Nat /\ Len(packets) \in Nat
        /\ Len(toClient') = Len(toClient) + Len(packets)
        /\ \A i \in 1..Len(toClient) : toClient'[i] = toClient[i]
        /\ \A i \in 1..Len(packets) : toClient'[Len(toClient) + i] = packets[i]
    BY <1>1, <1>3, AddedBehind
  <2>2. ASSUME NEW i \in 1..Len(toClient')
        PROVE  toClient'[i].op = "ok" <=> i = 1 /\ ~inWorld
    <3>1. CASE i \in 1..Len(toClient)
      BY <1>1, <2>1, <3>1 DEF AuthFirst
    <3>2. CASE i \notin 1..Len(toClient)
      <4>1. i - Len(toClient) \in 1..Len(packets) /\ i = Len(toClient) + (i - Len(toClient))
        BY <2>1, <3>2
      <4>2. toClient'[i].op # "ok"
        BY <2>1, <4>1
      <4>3. i = 1 => Len(toClient) = 0
        BY <2>1, <3>2
      <4>4. Len(toClient) = 0 => toClient = <<>>
        BY <1>1
      <4>5. i = 1 => inWorld
        BY <1>1, <1>3, <4>3, <4>4 DEF AuthFirst
      <4> QED
        BY <4>2, <4>5
    <3> QED
      BY <3>1, <3>2
  <2>3. ~inWorld => Len(toClient) > 0
    <3>1. ~inWorld => toClient # <<>>
      BY <1>1, <1>3 DEF AuthFirst
    <3>2. toClient # <<>> => Len(toClient) # 0
      BY <1>1
    <3> QED
      BY <2>1, <3>1, <3>2
  <2>4. Len(toClient') > 0 => toClient' # <<>>
    OBVIOUS
  <2>5. ~inWorld => toClient' # <<>>
    BY <2>1, <2>3, <2>4
  <2> QED
    BY <1>1, <1>3, <2>2, <2>5 DEF AuthFirst
<1> QED
  BY <1>2, <1>3

\* What the logic thread takes from the mailbox is AUTH_OK exactly when it is not
\* in the world yet, and what is left behind it is not.
LEMMA FirstPacket ==
  ASSUME Types, AuthFirst, Drain
  PROVE  /\ toClient # <<>> /\ Head(toClient) \in Messages /\ toClient' = Tail(toClient)
         /\ world' = world /\ Me \in DOMAIN world
         /\ Head(toClient).op = "ok" <=> ~inWorld
         /\ \A i \in 1..Len(toClient') : toClient'[i].op # "ok"
<1>1. toClient # <<>> /\ toClient' = Tail(toClient) /\ world' = world
  BY DEF Drain, HandleOk, HandleOwnState, HandleOtherState, HandleLeave, Next1, Popped,
         serverVars
<1>2. toClient \in Seq(Messages)
  BY DEF Types, DownType
<1>3. /\ Len(toClient) \in Nat \ {0} /\ Len(toClient') = Len(toClient) - 1
      /\ Head(toClient) = toClient[1] /\ Head(toClient) \in Messages
      /\ \A i \in 1..Len(toClient') : toClient'[i] = toClient[i + 1]
  BY <1>1, <1>2, FirstTaken
<1>4. Head(toClient).op = "ok" <=> ~inWorld
  <2>1. 1 \in 1..Len(toClient)
    BY <1>3
  <2> QED
    BY <1>3, <2>1 DEF AuthFirst
<1>5. ASSUME NEW i \in 1..Len(toClient')
      PROVE  toClient'[i].op # "ok"
  <2>1. i + 1 \in 1..Len(toClient) /\ i + 1 # 1
    BY <1>3
  <2> QED
    BY <1>3, <2>1 DEF AuthFirst
<1> QED
  BY <1>1, <1>3, <1>4, <1>5 DEF AuthFirst

LEMMA AuthKeeps ==
  ASSUME Types, Registry, Next
  PROVE  AuthFirst'
<1>1. AuthFirst /\ toClient \in Seq(Messages) /\ inWorld \in BOOLEAN
  BY DEF Registry, Types, DownType, ReplicaType
<1>2. CASE Enter
  <2>1. toClient = <<>> /\ ~inWorld /\ DOMAIN remote_players = {}
    BY <1>1, <1>2 DEF Enter, AuthFirst
  <2>2. toClient' = <<Ok>> /\ inWorld' = inWorld /\ remote_players' = remote_players
    BY <1>2, <2>1 DEF Enter, replicaVars
  <2>3. Me \in DOMAIN world'
    BY <1>2 DEF Enter
  <2>4. Len(toClient') = 1 /\ toClient'[1].op = "ok" /\ toClient' # <<>>
    BY <2>2 DEF Ok
  <2> QED
    BY <2>1, <2>2, <2>3, <2>4 DEF AuthFirst
<1>3. ASSUME NEW c \in Others, OtherLeaves(c)
      PROVE  AuthFirst'
  <2>1. Leave(c) \in Messages /\ Leave(c).op = "leave"
    BY DEF Leave, Messages, Characters
  <2>2. <<Leave(c)>> \in Seq(Messages) /\ Len(<<Leave(c)>>) = 1 /\ <<Leave(c)>>[1] = Leave(c)
    BY <2>1
  <2>3. \A i \in 1..Len(<<Leave(c)>>) : <<Leave(c)>>[i].op # "ok"
    BY <2>1, <2>2
  <2>4. /\ toClient' = IF Me \in DOMAIN world THEN toClient \o <<Leave(c)>> ELSE toClient
        /\ inWorld' = inWorld /\ remote_players' = remote_players
        /\ DOMAIN world' = DOMAIN world \ {c}
    BY <1>3 DEF OtherLeaves, Tell, replicaVars
  <2>5. Me \in DOMAIN world' <=> Me \in DOMAIN world
    BY <2>4, CharactersAssumption DEF CharactersAssumption
  <2> QED
    BY <2>2, <2>3, <2>4, <2>5, AddingKeeps
<1>4. CASE Tick
  <2>1. PICK w \in [DOMAIN world -> Positions] : world' = w /\ Tell(Broadcast(w))
    BY <1>4 DEF Tick
  <2>2. /\ Broadcast(w) \in Seq(Messages) /\ Len(Broadcast(w)) = Cardinality(DOMAIN world)
        /\ \A i \in 1..Cardinality(DOMAIN world) : Broadcast(w)[i].op = "state"
    BY BroadcastStates DEF Types, WorldType
  <2>3. \A i \in 1..Len(Broadcast(w)) : Broadcast(w)[i].op # "ok"
    BY <2>2
  <2>4. /\ toClient' = IF Me \in DOMAIN world THEN toClient \o Broadcast(w) ELSE toClient
        /\ inWorld' = inWorld /\ remote_players' = remote_players
    BY <1>4, <2>1 DEF Tick, Tell, replicaVars
  <2>5. DOMAIN world' = DOMAIN world
    BY <2>1
  <2> QED
    BY <2>2, <2>3, <2>4, <2>5, AddingKeeps
<1>5. CASE Drain
  <2>1. /\ world' = world /\ Me \in DOMAIN world
        /\ Head(toClient).op = "ok" <=> ~inWorld
        /\ \A i \in 1..Len(toClient') : toClient'[i].op # "ok"
    BY <1>1, <1>5, FirstPacket
  <2>2. inWorld' = TRUE
    BY <1>1, <1>5, <2>1 DEF Drain, HandleOk, HandleOwnState, HandleOtherState, HandleLeave,
                            Next1
  <2>3. \A i \in 1..Len(toClient') : toClient'[i].op = "ok" <=> i = 1 /\ ~inWorld'
    BY <2>1, <2>2
  <2>4. /\ Me \notin DOMAIN world' => toClient' = <<>> /\ ~inWorld'
        /\ Me \in DOMAIN world' /\ ~inWorld' => toClient' # <<>>
        /\ ~inWorld' => DOMAIN remote_players' = {}
    BY <2>1, <2>2
  <2> QED
    BY <2>3, <2>4 DEF AuthFirst
<1>6. CASE /\ UNCHANGED <<toClient, inWorld, remote_players>>
           /\ Me \in DOMAIN world' <=> Me \in DOMAIN world
  BY <1>1, <1>6 DEF AuthFirst
<1>7. \/ Enter \/ Tick \/ Drain \/ \E c \in Others : OtherLeaves(c)
      \/ /\ UNCHANGED <<toClient, inWorld, remote_players>>
         /\ \/ UNCHANGED world
            \/ \E c \in Others : DOMAIN world' = DOMAIN world \cup {c}
  BY DEF Next, Server, Callbacks, OtherEnters, Receive, Look, Press, Release, Sample, Predict,
         serverVars, replicaVars
<1>8. (\E c \in Others : DOMAIN world' = DOMAIN world \cup {c}) =>
        (Me \in DOMAIN world' <=> Me \in DOMAIN world)
  BY CharactersAssumption DEF CharactersAssumption
<1> QED
  BY <1>2, <1>3, <1>4, <1>5, <1>6, <1>7, <1>8

\* One entity per remote player and one for the player: who is new gets an entity
\* that is nobody's, who leaves takes along no entity but its own.
LEMMA AgreementKeeps ==
  ASSUME Types, Registry, Next
  PROVE  RegistryAgrees'
<1>1. /\ AuthFirst /\ inWorld \in BOOLEAN /\ IsFiniteSet(DOMAIN registry)
      /\ DOMAIN remote_players \subseteq Characters
      /\ remote_players \in [DOMAIN remote_players -> Nat \ {Null}]
  BY DEF Registry, Types, ReplicaType
<1>2. /\ inWorld <=> local_player # Null
      /\ DOMAIN registry = {remote_players[c] : c \in DOMAIN remote_players}
                             \cup (IF inWorld THEN {local_player} ELSE {})
      /\ \A c, d \in DOMAIN remote_players : remote_players[c] = remote_players[d] => c = d
      /\ \A c \in DOMAIN remote_players : c # Me /\ remote_players[c] # local_player
  BY DEF Registry, RegistryAgrees
<1>3. Created \in Nat \ {Null} /\ Created \notin DOMAIN registry
  BY <1>1, CreatedIsFresh
<1> HIDE DEF Created
<1>4. CASE HandleOk
  <2>1. ~inWorld
    BY <1>1, <1>4, FirstPacket DEF Drain, HandleOk, Next1
  <2>2. DOMAIN remote_players = {} /\ DOMAIN registry = {}
    BY <1>1, <1>2, <2>1 DEF AuthFirst
  <2>3. /\ inWorld' = TRUE /\ local_player' = Created /\ remote_players' = remote_players
        /\ registry' = Placed(Created, Origin)
    BY <1>4 DEF HandleOk
  <2>4. DOMAIN registry' = {Created}
    BY <2>2, <2>3 DEF Placed
  <2> QED
    BY <1>3, <2>2, <2>3, <2>4 DEF RegistryAgrees
<1>5. CASE /\ DOMAIN registry' = DOMAIN registry
           /\ UNCHANGED <<inWorld, local_player, remote_players>>
  BY <1>2, <1>5 DEF RegistryAgrees
<1>6. CASE HandleOtherState
  <2> DEFINE c == Head(toClient).about
  <2> DEFINE remote == IF c \in DOMAIN remote_players THEN remote_players[c] ELSE Created
  <2>1. CASE inWorld /\ ~IsSelf(c)
    <3>1. /\ inWorld = TRUE /\ c # Me /\ UNCHANGED <<inWorld, local_player>>
          /\ remote_players' = [d \in DOMAIN remote_players \cup {c} |->
                                  IF d = c THEN remote ELSE remote_players[d]]
          /\ registry' = Placed(remote, Head(toClient).pos)
      BY <1>1, <1>6, <2>1 DEF HandleOtherState, IsSelf
    <3> HIDE DEF c
    <3>2. DOMAIN registry' = DOMAIN registry \cup {remote}
      BY <3>1 DEF Placed
    <3>3. /\ DOMAIN remote_players' = DOMAIN remote_players \cup {c}
          /\ \A d \in DOMAIN remote_players' :
               remote_players'[d] = IF d = c THEN remote ELSE remote_players[d]
      BY <3>1
    <3>4. /\ c \in DOMAIN remote_players => remote = remote_players[c]
          /\ c \notin DOMAIN remote_players => remote \notin DOMAIN registry
      BY <1>3
    <3> HIDE DEF remote
    <3>5. local_player \in DOMAIN registry
      BY <1>2, <3>1
    <3>6. \A d \in DOMAIN remote_players : remote_players[d] \in DOMAIN registry
      BY <1>2
    <3>7. DOMAIN registry' = {remote_players'[d] : d \in DOMAIN remote_players'}
                               \cup {local_player}
      <4>1. ASSUME NEW e \in DOMAIN registry'
            PROVE  e \in {remote_players'[d] : d \in DOMAIN remote_players'}
                           \cup {local_player}
        <5>1. CASE e = remote
          BY <3>3, <5>1
        <5>2. CASE e # remote
          <6>1. e \in DOMAIN registry
            BY <3>2, <5>2
          <6>2. CASE e = local_player
            BY <6>2
          <6>3. CASE e # local_player
            <7>1. PICK d \in DOMAIN remote_players : e = remote_players[d]
              BY <1>2, <6>1, <6>3
            <7>2. d # c
              BY <3>4, <5>2, <7>1
            <7> QED
              BY <3>3, <7>1, <7>2
          <6> QED
            BY <6>2, <6>3
        <5> QED
          BY <5>1, <5>2
      <4>2. ASSUME NEW d \in DOMAIN remote_players'
            PROVE  remote_players'[d] \in DOMAIN registry'
        BY <3>2, <3>3, <3>6
      <4> QED
        BY <3>2, <3>5, <4>1, <4>2
    <3>8. ASSUME NEW d \in DOMAIN remote_players'
          PROVE  d # Me /\ remote_players'[d] # local_player
      BY <1>2, <3>1, <3>3, <3>4, <3>5
    <3>9. ASSUME NEW d \in DOMAIN remote_players', NEW e \in DOMAIN remote_players',
                 remote_players'[d] = remote_players'[e]
          PROVE  d = e
      BY <1>2, <3>3, <3>4, <3>6, <3>9
    <3> QED
      BY <1>2, <3>1, <3>7, <3>8, <3>9 DEF RegistryAgrees
  <2>2. CASE ~(inWorld /\ ~IsSelf(c))
    <3>1. UNCHANGED <<registry, remote_players, inWorld, local_player>>
      BY <1>6, <2>2 DEF HandleOtherState
    <3> QED
      BY <1>5, <3>1
  <2> QED
    BY <2>1, <2>2
<1>7. CASE HandleLeave
  <2>1. inWorld = TRUE /\ UNCHANGED <<inWorld, local_player>>
    BY <1>1, <1>7, FirstPacket DEF Drain, HandleLeave, Next1
  <2>2. CASE UNCHANGED <<registry, remote_players>>
    BY <1>5, <2>1, <2>2
  <2>3. ASSUME NEW c \in DOMAIN remote_players, Forget(c)
        PROVE  RegistryAgrees'
    <3>1. /\ DOMAIN remote_players' = DOMAIN remote_players \ {c}
          /\ \A d \in DOMAIN remote_players' : remote_players'[d] = remote_players[d]
          /\ DOMAIN registry' = DOMAIN registry \ {remote_players[c]}
      BY <2>3 DEF Forget
    <3>2. \A d \in DOMAIN remote_players' : remote_players'[d] # remote_players[c]
      BY <1>2, <3>1
    <3>3. remote_players[c] # local_player
      BY <1>2
    <3>4. DOMAIN registry' = {remote_players'[d] : d \in DOMAIN remote_players'}
                               \cup {local_player}
      BY <1>2, <2>1, <3>1, <3>2, <3>3
    <3>5. /\ \A d \in DOMAIN remote_players' :
               d # Me /\ remote_players'[d] # local_player
          /\ \A d, e \in DOMAIN remote_players' :
               remote_players'[d] = remote_players'[e] => d = e
      BY <1>2, <3>1
    <3> QED
      BY <1>2, <2>1, <3>4, <3>5 DEF RegistryAgrees
  <2>4. \/ UNCHANGED <<registry, remote_players>>
        \/ \E c \in DOMAIN remote_players : Forget(c)
    BY <1>7 DEF HandleLeave
  <2> QED
    BY <2>2, <2>3, <2>4
<1>8. \/ HandleOk \/ HandleOtherState \/ HandleLeave
      \/ /\ DOMAIN registry' = DOMAIN registry
         /\ UNCHANGED <<inWorld, local_player, remote_players>>
  BY DEF Next, Server, Callbacks, Drain, Enter, OtherEnters, OtherLeaves, Receive, Tick, Look,
         Press, Release, Sample, HandleOwnState, Predict, replicaVars
<1> QED
  BY <1>4, <1>5, <1>6, <1>7, <1>8

\* A leave stays behind every state of who left: the server says nothing more of
\* them, and the client takes what it says in order.
LEMMA NoGhostsKeeps ==
  ASSUME Types, Registry, Next
  PROVE  NoGhosts'
<1>1. AuthFirst /\ toClient \in Seq(Messages)
  BY DEF Registry, Types, DownType
<1>2. ASSUME NEW c \in Others \ DOMAIN world
      PROVE  /\ c \in DOMAIN remote_players \/ Mentions(toClient, c) =>
                  LeavesLast(toClient, c)
             /\ Me \notin DOMAIN world =>
                  ~(c \in DOMAIN remote_players \/ Mentions(toClient, c))
  <2>1. c \in DOMAIN remote_players \/ Mentions(toClient, c) => LeavesLast(toClient, c)
    BY DEF Registry, NoGhosts
  <2>2. Me \notin DOMAIN world => toClient = <<>> /\ DOMAIN remote_players = {}
    BY <1>1 DEF AuthFirst
  <2>3. toClient = <<>> => ~Mentions(toClient, c)
    BY DEF Mentions
  <2> QED
    BY <2>1, <2>2, <2>3
<1>3. ASSUME NEW packets \in Seq(Messages), NEW c \in Others \ DOMAIN world,
             ~Mentions(packets, c), remote_players' = remote_players,
             \/ toClient' = toClient \o packets
             \/ toClient' = toClient
      PROVE  c \in DOMAIN remote_players' \/ Mentions(toClient', c) =>
               LeavesLast(toClient', c)
  <2>1. /\ Mentions(toClient \o packets, c) => Mentions(toClient, c)
        /\ LeavesLast(toClient, c) => LeavesLast(toClient \o packets, c)
    BY <1>1, <1>3, OthersAdded
  <2>2. c \in DOMAIN remote_players \/ Mentions(toClient, c) => LeavesLast(toClient, c)
    BY <1>2
  <2>3. CASE toClient' = toClient \o packets
    BY <1>3, <2>1, <2>2, <2>3
  <2>4. CASE toClient' = toClient
    BY <1>3, <2>2, <2>4
  <2> QED
    BY <1>3, <2>3, <2>4
<1>4. CASE Enter
  <2>1. <<Ok>> \in Seq(Messages) /\ toClient' = toClient \o <<Ok>>
    BY <1>1, <1>4 DEF Enter, Ok, Messages
  <2>2. ASSUME NEW c \in Others PROVE ~Mentions(<<Ok>>, c)
    BY CharactersAssumption DEF Mentions, Ok, CharactersAssumption
  <2>3. DOMAIN world' = DOMAIN world \cup {Me} /\ remote_players' = remote_players
    BY <1>4 DEF Enter, replicaVars
  <2> QED
    BY <1>3, <2>1, <2>2, <2>3 DEF NoGhosts
<1>5. ASSUME NEW d \in Others, OtherLeaves(d)
      PROVE  NoGhosts'
  <2>1. Leave(d) \in Messages /\ <<Leave(d)>> \in Seq(Messages)
    BY DEF Leave, Messages, Characters
  <2>2. /\ toClient' = IF Me \in DOMAIN world THEN toClient \o <<Leave(d)>> ELSE toClient
        /\ remote_players' = remote_players /\ DOMAIN world' = DOMAIN world \ {d}
    BY <1>5 DEF OtherLeaves, Tell, replicaVars
  <2>3. ASSUME NEW c \in Others \ DOMAIN world'
        PROVE  c \in DOMAIN remote_players' \/ Mentions(toClient', c) =>
                 LeavesLast(toClient', c)
    <3>1. CASE c = d /\ Me \in DOMAIN world
      BY <1>1, <2>1, <2>2, <3>1, LeaveAdded
    <3>2. CASE c = d /\ Me \notin DOMAIN world
      <4>1. toClient' = <<>> /\ DOMAIN remote_players' = {}
        BY <1>1, <2>2, <3>2 DEF AuthFirst
      <4> QED
        BY <4>1 DEF Mentions
    <3>3. CASE c # d
      <4>1. ~Mentions(<<Leave(d)>>, c)
        BY <3>3 DEF Mentions, Leave
      <4>2. c \in Others \ DOMAIN world
        BY <2>2, <3>3
      <4> QED
        BY <1>3, <2>1, <2>2, <4>1, <4>2
    <3> QED
      BY <3>1, <3>2, <3>3
  <2> QED
    BY <2>3 DEF NoGhosts
<1>6. CASE Tick
  <2>1. PICK w \in [DOMAIN world -> Positions] : world' = w /\ Tell(Broadcast(w))
    BY <1>6 DEF Tick
  <2>2. /\ Broadcast(w) \in Seq(Messages) /\ Len(Broadcast(w)) = Cardinality(DOMAIN world)
        /\ \A i \in 1..Cardinality(DOMAIN world) : Broadcast(w)[i].about \in DOMAIN world
    BY BroadcastStates DEF Types, WorldType
  <2>3. ASSUME NEW c \in Others \ DOMAIN world PROVE ~Mentions(Broadcast(w), c)
    BY <2>2 DEF Mentions
  <2>4. toClient' = toClient \o Broadcast(w) \/ toClient' = toClient
    BY <2>1 DEF Tell
  <2>5. remote_players' = remote_players /\ DOMAIN world' = DOMAIN world
    BY <1>6, <2>1 DEF Tick, replicaVars
  <2> QED
    BY <1>3, <2>2, <2>3, <2>4, <2>5 DEF NoGhosts
<1>7. CASE Drain
  <2>1. /\ toClient # <<>> /\ Head(toClient) \in Messages /\ toClient' = Tail(toClient)
        /\ world' = world
    BY <1>1, <1>7, FirstPacket
  <2>2. ASSUME NEW c \in Others \ DOMAIN world
        PROVE  c \in DOMAIN remote_players' \/ Mentions(toClient', c) =>
                 LeavesLast(toClient', c)
    <3>1. /\ Mentions(toClient', c) => Mentions(toClient, c)
          /\ LeavesLast(toClient, c) =>
               LeavesLast(toClient', c) \/ (Head(toClient) = Leave(c) /\ ~Mentions(toClient', c))
      BY <1>1, <2>1, LeaveBehind
    <3>2. c \in DOMAIN remote_players' =>
            c \in DOMAIN remote_players \/ Head(toClient).about = c
      BY <1>7 DEF Drain, HandleOk, HandleOwnState, HandleOtherState, HandleLeave, Forget
    <3>3. Head(toClient).about = c => Mentions(toClient, c)
      BY <1>1, <2>1, FirstTaken DEF Mentions
    <3>4. Head(toClient) = Leave(c) => c \notin DOMAIN remote_players'
      <4>1. SUFFICES ASSUME Head(toClient) = Leave(c) PROVE c \notin DOMAIN remote_players'
        OBVIOUS
      <4>2. Head(toClient).op = "leave" /\ Head(toClient).about = c
        BY <4>1 DEF Leave
      <4>3. HandleLeave
        BY <1>7, <4>2 DEF Drain, HandleOk, HandleOwnState, HandleOtherState, Next1
      <4> QED
        BY <4>2, <4>3 DEF HandleLeave, Forget
    <3> QED
      BY <1>2, <3>1, <3>2, <3>3, <3>4
  <2> QED
    BY <2>1, <2>2 DEF NoGhosts
<1>8. CASE UNCHANGED <<toClient, remote_players>> /\ DOMAIN world \subseteq DOMAIN world'
  <2>1. ASSUME NEW c \in Others \ DOMAIN world'
        PROVE  c \in DOMAIN remote_players' \/ Mentions(toClient', c) =>
                 LeavesLast(toClient', c)
    <3>1. c \in Others \ DOMAIN world
      BY <1>8
    <3> QED
      BY <1>2, <1>8, <3>1
  <2> QED
    BY <2>1 DEF NoGhosts
<1>9. \/ Enter \/ Tick \/ Drain \/ \E c \in Others : OtherLeaves(c)
      \/ UNCHANGED <<toClient, remote_players>> /\ DOMAIN world \subseteq DOMAIN world'
  BY DEF Next, Server, Callbacks, OtherEnters, Receive, Look, Press, Release, Sample, Predict,
         serverVars, replicaVars
<1> QED
  BY <1>4, <1>5, <1>6, <1>7, <1>8, <1>9

LEMMA RegistryKeeps == Types /\ Registry /\ [Next]_vars => Registry'
<1>1. Types /\ Registry /\ Next => Registry'
  BY AuthKeeps, AgreementKeeps, NoGhostsKeeps DEF Registry
<1>2. Registry /\ UNCHANGED vars => Registry'
  <2> SUFFICES ASSUME Registry, UNCHANGED vars PROVE Registry'
    OBVIOUS
  <2>1. UNCHANGED <<world, toClient, inWorld, registry, local_player, remote_players>>
    BY DEF vars, serverVars, replicaVars
  <2>2. AuthFirst'
    BY <2>1 DEF Registry, AuthFirst
  <2>3. RegistryAgrees'
    BY <2>1 DEF Registry, RegistryAgrees
  <2>4. NoGhosts'
    BY <2>1 DEF Registry, NoGhosts, Mentions, LeavesLast
  <2> QED
    BY <2>2, <2>3, <2>4 DEF Registry
<1> QED
  BY <1>1, <1>2

\* SMSG_PLAYER_STATE and SMSG_PLAYER_LEAVE against destroy and broadcast: one
\* entity per player the client knows, none leaked, and nobody who left stays.
THEOREM RegistryCorrect == Spec => []RegistryTrue
<1>1. Registry => RegistryTrue
  BY DEF Registry, RegistryTrue
<1> QED
  BY <1>1, TypesInit, TypesKeep, RegistryInit, RegistryKeeps, PTL DEF Spec
=============================================================================
