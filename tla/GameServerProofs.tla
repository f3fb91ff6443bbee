--------------------------- MODULE GameServerProofs ---------------------------
(* Theorems of the game server, for every value of the constants.            *)
EXTENDS GameServer, SequenceTheorems, TLAPS

-----------------------------------------------------------------------------
(* The inductive invariant, part by part.                                    *)

\* No task is on the strand twice: a session posts its next packet only once
\* the last was processed, a reaper is posted once, a tick re-arms one timer.
NoTaskTwice == \A i, j \in 1..Len(strand) : strand[i] = strand[j] => i = j

\* A session whose packet waits is alive and not reading; what is not alive has
\* nothing outstanding and owns nothing.
SessionsHeld ==
  \A s \in Sessions :
    /\ Queued(PacketTask(s)) => phase[s] = "alive" /\ reading[s] = "no"
    /\ phase[s] # "alive" => /\ reading[s] = "no" /\ writes[s] = {}
                             /\ entity_id_[s] = NoEntity

\* Who owns which entity, and that identifiers are handed out once.
EntitiesOwned ==
  /\ \A e \in DOMAIN world : e < nextEntity
  /\ \A i \in 1..Len(strand) : strand[i].kind = "reap" => strand[i].who \in DOMAIN world
  /\ \A e \in DOMAIN world :
       (\E s \in Sessions : entity_id_[s] = e) <=> ~Queued(ReapTask(e))
  /\ \A s \in Sessions : entity_id_[s] # NoEntity => entity_id_[s] \in DOMAIN world
  /\ \A s, r \in Sessions :
       entity_id_[s] # NoEntity /\ entity_id_[s] = entity_id_[r] => s = r

\* state_, has_entity_ and g_sessions agree.
SessionsRegistered ==
  \A s \in Sessions :
    /\ phase[s] \in {"unborn", "queued"} => s \notin g_sessions /\ ~Authenticated(s)
    /\ entity_id_[s] # NoEntity => s \in g_sessions /\ Authenticated(s)
    /\ phase[s] = "alive" /\ (s \in g_sessions \/ Authenticated(s))
         => entity_id_[s] # NoEntity

\* Where the one pending tick is; a process that is down holds nothing.
TickPending ==
  /\ ~Up => /\ strand = <<>> /\ ~timer /\ DOMAIN world = {}
            /\ \A s \in Sessions : phase[s] # "alive"
  /\ server = "starting" => ~timer /\ ~Queued(TickTask)
  /\ server = "running" => (timer <=> ~Queued(TickTask))

\* No entity is older than the folded tick count.
AgesBounded == ~DbFaults => \A e \in DOMAIN world : world[e].age <= tick

Core == /\ NoTaskTwice /\ SessionsHeld /\ EntitiesOwned /\ SessionsRegistered
        /\ TickPending /\ AgesBounded /\ TokenAdmitsOnce

IInv == TypeOK /\ Core

-----------------------------------------------------------------------------
(* The strand as a queue.                                                    *)

\* Posting a task keeps what is queued and adds the task at the end.
LEMMA Posted ==
  ASSUME strand \in Seq(Tasks), NEW task \in Tasks, strand' = Append(strand, task)
  PROVE  /\ strand' \in Seq(Tasks)
         /\ Len(strand') = Len(strand) + 1
         /\ \A i \in 1..Len(strand) : strand'[i] = strand[i]
         /\ strand'[Len(strand')] = task
         /\ \A x : Queued(x)' <=> Queued(x) \/ x = task
<1>1. /\ strand' \in Seq(Tasks)
      /\ Len(strand') = Len(strand) + 1
      /\ \A i \in 1..Len(strand) : strand'[i] = strand[i]
      /\ strand'[Len(strand')] = task
  BY AppendProperties
<1>2. Len(strand) \in Nat
  BY LenProperties
<1>3. \A x : Queued(x)' <=> Queued(x) \/ x = task
  BY <1>1, <1>2 DEF Queued
<1> QED
  BY <1>1, <1>3

\* Running the task at the head shifts the others and, where no task is queued
\* twice, removes that task and no other.
LEMMA Ran ==
  ASSUME strand \in Seq(Tasks), strand # <<>>, strand' = Tail(strand)
  PROVE  /\ strand' \in Seq(Tasks)
         /\ Head(strand) \in Tasks
         /\ Len(strand) = Len(strand') + 1
         /\ \A i \in 1..Len(strand') : strand'[i] = strand[i + 1]
         /\ Queued(Head(strand))
         /\ NoTaskTwice => \A x : Queued(x)' <=> Queued(x) /\ x # Head(strand)
<1>1. /\ strand' \in Seq(Tasks)
      /\ Head(strand) \in Tasks
      /\ Len(strand') = Len(strand) - 1
      /\ \A i \in 1..Len(strand') : strand'[i] = strand[i + 1]
  BY HeadTailProperties
<1>2. Len(strand) \in Nat /\ Len(strand) # 0 /\ Len(strand') \in Nat
  BY <1>1, LenProperties, EmptySeq
<1>3. Head(strand) = strand[1]
  OBVIOUS
<1>4. Queued(Head(strand))
  BY <1>2, <1>3 DEF Queued
<1>5. ASSUME NoTaskTwice, NEW x
      PROVE  Queued(x)' <=> Queued(x) /\ x # Head(strand)
  <2>1. ASSUME Queued(x)' PROVE Queued(x) /\ x # Head(strand)
    <3>1. PICK i \in 1..Len(strand') : strand'[i] = x
      BY <2>1 DEF Queued
    <3>2. i + 1 \in 1..Len(strand) /\ 1 \in 1..Len(strand) /\ i + 1 # 1
      BY <1>1, <1>2
    <3> QED
      BY <1>1, <1>3, <1>5, <3>1, <3>2 DEF Queued, NoTaskTwice
  <2>2. ASSUME Queued(x), x # Head(strand) PROVE Queued(x)'
    <3>1. PICK i \in 1..Len(strand) : strand[i] = x
      BY <2>2 DEF Queued
    <3>2. i - 1 \in 1..Len(strand') /\ i = (i - 1) + 1
      BY <1>1, <1>2, <1>3, <2>2, <3>1
    <3> QED
      BY <1>1, <3>1, <3>2 DEF Queued
  <2> QED
    BY <2>1, <2>2
<1> QED
  BY <1>1, <1>2, <1>4, <1>5

LEMMA TasksAreTasks ==
  /\ \A s \in Sessions : PacketTask(s) \in Tasks
  /\ \A e \in EntityIds : ReapTask(e) \in Tasks
  /\ TickTask \in Tasks
BY DEF Tasks, PacketTask, ReapTask, TickTask

-----------------------------------------------------------------------------
(* Types.                                                                    *)

LEMMA TypeInit == Init => TypeOK
<1> SUFFICES ASSUME Init PROVE TypeOK
  OBVIOUS
<1>1. strand \in Seq(Tasks)
  BY EmptySeq DEF Init
<1>2. world \in [DOMAIN world -> Entity] /\ DOMAIN world = {}
  BY DEF Init
<1>3. boots \in Nat /\ tick \in 0..AutosaveTicks /\ nextEntity \in EntityIds
  BY BoundsAssumption DEF Init, EntityIds, NoEntity
<1>4. entity_id_ \in [Sessions -> Nat] /\ redeemed \in [Tokens -> Nat]
  BY DEF Init, NoEntity
<1> QED
  BY <1>1, <1>2, <1>3, <1>4, Zenon DEF Init, TypeOK, Bodies

\* The process and the environment.
LEMMA TypeProcess ==
  ASSUME TypeOK,
         Boot \/ Stop \/ (\E s \in Sessions : AcceptReset(s))
  PROVE  TypeOK'
<1>1. CASE Boot
  <2>1. boots' \in Nat /\ tick' \in 0..AutosaveTicks
    BY <1>1, BoundsAssumption DEF Boot, TypeOK
  <2>2. server' \in {"down", "starting", "running", "aborted"} /\ timer' \in BOOLEAN
    BY <1>1 DEF Boot
  <2>3. UNCHANGED <<strand, connVars, authVars, worldVars, dbVars>>
    BY <1>1 DEF Boot
  <2> QED
    BY <2>1, <2>2, <2>3 DEF TypeOK, connVars, authVars, worldVars, dbVars
<1>2. ASSUME NEW how \in {"down", "aborted"}, ProcessEnds(how) PROVE TypeOK'
  <2>1. strand' \in Seq(Tasks)
    BY <1>2, EmptySeq DEF ProcessEnds
  <2>2. world' \in [DOMAIN world' -> Entity] /\ DOMAIN world' = {}
    BY <1>2 DEF ProcessEnds
  <2>3. /\ boots' \in Nat /\ tick' \in 0..AutosaveTicks /\ nextEntity' \in EntityIds
        /\ entity_id_' \in [Sessions -> Nat]
    BY <1>2, BoundsAssumption DEF ProcessEnds, TypeOK, NoEntity
  <2>4. phase' \in [Sessions -> {"unborn", "queued", "alive", "gone"}]
    BY <1>2 DEF ProcessEnds, TypeOK
  <2>5. server' \in {"down", "starting", "running", "aborted"} /\ timer' \in BOOLEAN
    BY <1>2 DEF ProcessEnds
  <2> QED
    BY <1>2, <2>1, <2>2, <2>3, <2>4, <2>5 DEF ProcessEnds, TypeOK, dbVars, Bodies
<1> QED
  BY <1>1, <1>2 DEF Stop, AcceptReset

LEMMA TypeEnvironment ==
  ASSUME TypeOK,
         \/ \E s \in Sessions : \/ Connect(s) \/ AcceptConnection(s) \/ AcceptVanishing(s)
                                \/ \E how \in Departures : PeerLeaves(s, how)
         \/ \E t \in Tokens : IssueToken(t) \/ ExpireToken(t)
  PROVE  TypeOK'
<1>1. ASSUME NEW s \in Sessions,
             Connect(s) \/ AcceptConnection(s) \/ AcceptVanishing(s)
      PROVE  TypeOK'
  <2>1. CASE Connect(s)
    BY <2>1 DEF Connect, TypeOK, procVars, authVars, worldVars, dbVars
  <2>2. CASE AcceptConnection(s)
    BY <2>2 DEF AcceptConnection, StartRead, TypeOK, procVars, authVars, worldVars, dbVars
  <2>3. CASE AcceptVanishing(s)
    BY <2>3 DEF AcceptVanishing, TypeOK, procVars, authVars, worldVars, dbVars
  <2> QED
    BY <1>1, <2>1, <2>2, <2>3
<1>2. ASSUME NEW s \in Sessions, NEW how \in Departures, PeerLeaves(s, how) PROVE TypeOK'
  <2>1. how \in {"fin", "reset"}
    BY PacketsAssumption
  <2> QED
    BY <1>2, <2>1 DEF PeerLeaves, TypeOK, procVars, authVars, worldVars, dbVars
<1>3. ASSUME NEW t \in Tokens, IssueToken(t) \/ ExpireToken(t) PROVE TypeOK'
  <2>1. sessionRow' \in [Tokens -> {"unissued", "live", "expired", "deleted"}]
    <3>1. CASE IssueToken(t)
      BY <3>1 DEF IssueToken, TypeOK
    <3>2. CASE ExpireToken(t)
      BY <3>2 DEF ExpireToken, TypeOK
    <3> QED
      BY <1>3, <3>1, <3>2
  <2>2. UNCHANGED <<procVars, strand, connVars, authVars, worldVars, redeemed, characters>>
    BY <1>3 DEF IssueToken, ExpireToken
  <2> QED
    BY <2>1, <2>2 DEF TypeOK, procVars, connVars, authVars, worldVars
<1> QED
  BY <1>1, <1>2, <1>3

\* Completion handlers.
LEMMA TypeReadDone ==
  ASSUME TypeOK, NEW s \in Sessions, NEW p \in Packets[s], ReadDone(s, p)
  PROVE  TypeOK'
<1>1. p.op \in Opcodes /\ p.body \in Bodies
  BY PacketsAssumption
<1>2. strand' \in Seq(Tasks)
  BY Posted, TasksAreTasks DEF ReadDone, TypeOK
<1> QED
  BY <1>1, <1>2 DEF ReadDone, TypeOK, procVars, authVars, worldVars, dbVars

LEMMA TypeRelease ==
  ASSUME TypeOK, NEW s \in Sessions, NEW read \in {"no", "live", "dead"},
         NEW out \in SUBSET WriteKinds, NEW socket \in {"open", "closed"},
         Release(s, read, out, socket)
  PROVE  TypeOK'
<1>1. strand' \in Seq(Tasks)
  <2>1. CASE strand' = strand
    BY <2>1 DEF TypeOK
  <2>2. CASE strand' = Append(strand, ReapTask(entity_id_[s])) /\ entity_id_[s] # NoEntity
    <3>1. entity_id_[s] \in EntityIds
      BY <2>2 DEF TypeOK, EntityIds
    <3> QED
      BY <2>2, <3>1, Posted, TasksAreTasks DEF TypeOK
  <2> QED
    BY <2>1, <2>2 DEF Release
<1> QED
  BY <1>1 DEF Release, TypeOK, procVars, worldVars, dbVars, Bodies, NoEntity

LEMMA TypeHandlers ==
  ASSUME TypeOK,
         \/ TimerFires
         \/ \E s \in Sessions :
              \/ ReadFails(s)
              \/ \E kind \in WriteKinds, error, last \in BOOLEAN :
                   WriteDone(s, kind, error, last)
  PROVE  TypeOK'
<1>1. CASE TimerFires
  <2>1. strand' \in Seq(Tasks)
    BY <1>1, Posted, TasksAreTasks DEF TimerFires, TypeOK
  <2> QED
    BY <1>1, <2>1 DEF TimerFires, TypeOK, connVars, authVars, worldVars, dbVars
<1>2. ASSUME NEW s \in Sessions, ReadFails(s) PROVE TypeOK'
  BY <1>2, TypeRelease DEF ReadFails, TypeOK
<1>3. ASSUME NEW s \in Sessions, NEW kind \in WriteKinds, NEW error \in BOOLEAN,
             NEW last \in BOOLEAN, WriteDone(s, kind, error, last)
      PROVE  TypeOK'
  <2>1. PICK out, socket : /\ out \in SUBSET WriteKinds /\ socket \in {"open", "closed"}
                           /\ Release(s, reading[s], out, socket)
    BY <1>3 DEF WriteDone, TypeOK
  <2>2. reading[s] \in {"no", "live", "dead"}
    BY DEF TypeOK
  <2> QED
    BY <2>1, <2>2, TypeRelease
<1> QED
  BY <1>1, <1>2, <1>3

\* What tasks do to the rest of the world.
LEMMA TypeSend ==
  ASSUME TypeOK, NEW kind \in WriteKinds, NEW to, Send(kind, to)
  PROVE  writes' \in [Sessions -> SUBSET WriteKinds]
BY DEF Send, TypeOK

LEMMA TypeBroadcast ==
  ASSUME TypeOK, NEW to, Broadcast(to)
  PROVE  writes' \in [Sessions -> SUBSET WriteKinds] /\ g_sessions' \subseteq Sessions
BY TypeSend DEF Broadcast, Registered, TypeOK, WriteKinds

LEMMA TypeReadNext ==
  ASSUME TypeOK, NEW s \in Sessions, NEW socket \in {"open", "closed"},
         Up, strand # <<>>, ReadNext(s, socket)
  PROVE  /\ strand' \in Seq(Tasks)
         /\ sock' \in [Sessions -> {"open", "closed"}]
         /\ reading' \in [Sessions -> {"no", "live", "dead"}]
         /\ header' \in [Sessions -> [op : Opcodes, bare : BOOLEAN] \cup {NoHeader}]
         /\ UNCHANGED <<server, boots, tick, timer, phase, peer, payload>>
<1>1. strand' \in Seq(Tasks)
  BY Ran DEF ReadNext, TypeOK
<1> QED
  BY <1>1 DEF ReadNext, StartRead, TypeOK, procVars

LEMMA TypeConsume ==
  ASSUME TypeOK, NEW t \in Tokens, ConsumeToken(t)
  PROVE  /\ sessionRow' \in [Tokens -> {"unissued", "live", "expired", "deleted"}]
         /\ characters' \in [Accounts -> Positions \cup {NoRow}]
         /\ characters'[Owner[t]] \in Positions
BY TokensAssumption, MovementAssumption, RowsAssumption DEF ConsumeToken, TypeOK

\* process_packet.
LEMMA TypePacketNoEntity ==
  ASSUME TypeOK, NEW s \in Sessions,
         RefusePacket(s) \/ RejectAuth(s) \/ FailAuth(s) \/ Ping(s) \/ IgnorePacket(s)
  PROVE  TypeOK'
<1>1. PICK socket \in {"open", "closed"} : ReadNext(s, socket)
  BY DEF RefusePacket, RejectAuth, FailAuth, Ping, IgnorePacket, TypeOK
<1>2. Up /\ strand # <<>>
  BY DEF RefusePacket, RejectAuth, FailAuth, Ping, IgnorePacket, HandlingAuth,
         Processing, NextTask
<1>3. writes' \in [Sessions -> SUBSET WriteKinds]
  BY TypeSend DEF RefusePacket, RejectAuth, FailAuth, Ping, IgnorePacket, TypeOK, WriteKinds
<1>4. /\ sessionRow' \in [Tokens -> {"unissued", "live", "expired", "deleted"}]
      /\ characters' \in [Accounts -> Positions \cup {NoRow}]
  <2>1. CASE UNCHANGED <<sessionRow, characters>>
    BY <2>1 DEF TypeOK
  <2>2. CASE TokenValid(payload[s]) /\ ConsumeToken(payload[s])
    BY <2>2, TypeConsume DEF TokenValid
  <2> QED
    BY <2>1, <2>2 DEF RefusePacket, RejectAuth, FailAuth, Ping, IgnorePacket, dbVars
<1>5. UNCHANGED <<redeemed, authVars, worldVars>>
  BY DEF RefusePacket, RejectAuth, FailAuth, Ping, IgnorePacket, dbVars
<1>6. /\ strand' \in Seq(Tasks)
      /\ sock' \in [Sessions -> {"open", "closed"}]
      /\ reading' \in [Sessions -> {"no", "live", "dead"}]
      /\ header' \in [Sessions -> [op : Opcodes, bare : BOOLEAN] \cup {NoHeader}]
      /\ UNCHANGED <<server, boots, tick, timer, phase, peer, payload>>
  BY <1>1, <1>2, TypeReadNext
<1> QED
  BY <1>3, <1>4, <1>5, <1>6 DEF TypeOK, authVars, worldVars

LEMMA TypeAcceptAuth ==
  ASSUME TypeOK, NEW s \in Sessions, AcceptAuth(s)
  PROVE  TypeOK'
<1> DEFINE t == payload[s]
<1>1. t \in Tokens /\ ConsumeToken(t) /\ Up /\ strand # <<>> /\ ReadNext(s, sock[s])
  BY DEF AcceptAuth, TokenValid, HandlingAuth, Processing, NextTask
<1>2. sock[s] \in {"open", "closed"}
  BY DEF TypeOK
<1>3. writes' \in [Sessions -> SUBSET WriteKinds]
  BY TypeSend DEF AcceptAuth, WriteKinds
<1>4. [char |-> Owner[t], pos |-> characters'[Owner[t]], input |-> Idle, age |-> 0] \in Entity
  BY <1>1, TypeConsume, TokensAssumption, MovementAssumption DEF Entity
<1>5. /\ DOMAIN world' \subseteq EntityIds
      /\ world' \in [DOMAIN world' -> Entity]
  BY <1>4 DEF AcceptAuth, TypeOK
<1>6. nextEntity' \in EntityIds /\ redeemed' \in [Tokens -> Nat]
  BY <1>1 DEF AcceptAuth, TypeOK, EntityIds, NoEntity
<1>7. /\ state_' \in [Sessions -> {"WAITING_FOR_AUTH", "AUTHENTICATED"}]
      /\ entity_id_' \in [Sessions -> Nat]
      /\ g_sessions' \subseteq Sessions
  BY DEF AcceptAuth, TypeOK, EntityIds
<1>8. /\ strand' \in Seq(Tasks)
      /\ sock' \in [Sessions -> {"open", "closed"}]
      /\ reading' \in [Sessions -> {"no", "live", "dead"}]
      /\ header' \in [Sessions -> [op : Opcodes, bare : BOOLEAN] \cup {NoHeader}]
      /\ UNCHANGED <<server, boots, tick, timer, phase, peer, payload>>
  BY <1>1, <1>2, TypeReadNext
<1> QED
  BY <1>3, <1>5, <1>6, <1>7, <1>8, TypeConsume, <1>1 DEF TypeOK

LEMMA TypeMoveChat ==
  ASSUME TypeOK, NEW s \in Sessions, Move(s) \/ Chat(s)
  PROVE  TypeOK'
<1>1. Up /\ strand # <<>> /\ ReadNext(s, sock[s]) /\ sock[s] \in {"open", "closed"}
  BY DEF Move, Chat, Processing, NextTask, TypeOK
<1>2. /\ DOMAIN world' = DOMAIN world
      /\ world' \in [DOMAIN world' -> Entity]
  <2>1. CASE Move(s)
    <3>1. PICK i \in Inputs : world' = [world EXCEPT ![entity_id_[s]].input = i]
      BY <2>1 DEF Move, AsInput
    <3>2. entity_id_[s] \in DOMAIN world
      BY <2>1 DEF Move, HasEntity
    <3>3. \A e \in DOMAIN world : world[e] \in Entity
      BY DEF TypeOK
    <3>4. \A e \in DOMAIN world :
            world'[e] = IF e = entity_id_[s] THEN [world[e] EXCEPT !.input = i] ELSE world[e]
      BY <3>1, <3>2 DEF TypeOK
    <3>5. \A x \in Entity : [x EXCEPT !.input = i] \in Entity
      BY DEF Entity
    <3>6. DOMAIN world' = DOMAIN world /\ \A e \in DOMAIN world : world'[e] \in Entity
      BY <3>1, <3>3, <3>4, <3>5
    <3>7. world' = [e \in DOMAIN world' |-> world'[e]]
      BY <3>1 DEF TypeOK
    <3> QED
      BY <3>6, <3>7
  <2> QED
    BY <2>1 DEF Chat, TypeOK
<1>3. writes' \in [Sessions -> SUBSET WriteKinds] /\ g_sessions' \subseteq Sessions
  <2>1. \/ UNCHANGED <<writes, g_sessions>> \/ \E to : Broadcast(to)
    BY DEF Move, Chat
  <2> QED
    BY <2>1, TypeBroadcast DEF TypeOK
<1>4. UNCHANGED <<authVars, nextEntity, dbVars>>
  BY DEF Move, Chat
<1> QED
  BY <1>1, <1>2, <1>3, <1>4, TypeReadNext DEF TypeOK, authVars, dbVars

\* The reaper and the tick.
LEMMA TypeReap ==
  ASSUME TypeOK, NEW e \in Nat, Reap(e)
  PROVE  TypeOK'
<1>1. strand' \in Seq(Tasks)
  BY Ran DEF Reap, NextTask, TypeOK
<1>2. /\ DOMAIN world' \subseteq EntityIds
      /\ world' \in [DOMAIN world' -> Entity]
  BY DEF Reap, TypeOK
<1>3. writes' \in [Sessions -> SUBSET WriteKinds] /\ g_sessions' \subseteq Sessions
  BY TypeBroadcast DEF Reap, TypeOK
<1>4. characters' \in [Accounts -> Positions \cup {NoRow}]
  BY DEF Reap, SavedRows, TypeOK
<1> QED
  BY <1>1, <1>2, <1>3, <1>4 DEF Reap, TypeOK, procVars, authVars

LEMMA TypeTick ==
  ASSUME TypeOK, Tick \/ FirstTick
  PROVE  TypeOK'
<1>1. GameLoopTick
  BY DEF Tick, FirstTick
<1>2. strand' \in Seq(Tasks)
  BY Ran DEF Tick, FirstTick, NextTask, TypeOK
<1>3. server' \in {"down", "starting", "running", "aborted"}
  BY DEF Tick, FirstTick, TypeOK
<1>4. boots' \in Nat /\ tick' \in 0..AutosaveTicks /\ timer' \in BOOLEAN
  <2>1. tick' \in 0..AutosaveTicks
    BY <1>1, BoundsAssumption DEF GameLoopTick, ShouldAutosave, TypeOK
  <2> QED
    BY <1>1, <2>1 DEF GameLoopTick, TypeOK
<1>5. /\ DOMAIN world' = DOMAIN world
      /\ world' \in [DOMAIN world' -> Entity]
  <2>1. PICK saved : world' = [e \in DOMAIN world |->
                      [Simulated[e] EXCEPT
                         !.age = IF e \in saved THEN 0
                                 ELSE IF @ > AutosaveTicks THEN @ ELSE @ + 1]]
    BY <1>1 DEF GameLoopTick, UpdateGameWorld
  <2>2. \A e \in DOMAIN world : Simulated[e] \in Entity
    <3>1. \A x \in Entity : Moved[<<x.pos, x.input>>] \in Positions
      BY MovementAssumption DEF Entity
    <3>2. \A x \in Entity : \A p \in Positions : [x EXCEPT !.pos = p] \in Entity
      BY DEF Entity
    <3>3. \A e \in DOMAIN world : world[e] \in Entity
      BY DEF TypeOK
    <3> QED
      BY <3>1, <3>2, <3>3 DEF Simulated
  <2>3. \A e \in DOMAIN world : world'[e] \in Entity
    BY <2>1, <2>2, BoundsAssumption DEF Entity
  <2> QED
    BY <2>1, <2>3
<1>6. writes' \in [Sessions -> SUBSET WriteKinds] /\ g_sessions' \subseteq Sessions
  BY <1>1, TypeBroadcast DEF GameLoopTick, UpdateGameWorld, TypeOK
<1>7. characters' \in [Accounts -> Positions \cup {NoRow}]
  BY <1>1 DEF GameLoopTick, UpdateGameWorld, SavedRows, TypeOK
<1>8. UNCHANGED <<phase, peer, sock, reading, header, payload, authVars, nextEntity,
                  sessionRow, redeemed>>
  BY <1>1 DEF GameLoopTick, UpdateGameWorld
<1> QED
  BY <1>2, <1>3, <1>4, <1>5, <1>6, <1>7, <1>8 DEF TypeOK, authVars

LEMMA TypeNext == TypeOK /\ [Next]_vars => TypeOK'
<1> SUFFICES ASSUME TypeOK, [Next]_vars PROVE TypeOK'
  OBVIOUS
<1>1. CASE Boot \/ Stop
  BY <1>1, TypeProcess
<1>2. CASE FirstTick
  BY <1>2, TypeTick
<1>3. CASE TimerFires
  BY <1>3, TypeHandlers
<1>4. CASE RunTask
  <2>1. ASSUME NEW s \in Sessions, ProcessPacket(s) PROVE TypeOK'
    BY <2>1, TypePacketNoEntity, TypeAcceptAuth, TypeMoveChat DEF ProcessPacket
  <2>2. ASSUME NEW e \in 1..nextEntity, Reap(e) PROVE TypeOK'
    <3>1. nextEntity \in Nat
      BY DEF TypeOK, EntityIds
    <3>2. e \in Nat
      BY <3>1
    <3> QED
      BY <2>2, <3>2, TypeReap
  <2> QED
    BY <1>4, <2>1, <2>2, TypeTick DEF RunTask
<1>5. ASSUME NEW s \in Sessions, SessionStep(s) PROVE TypeOK'
  BY <1>5, TypeProcess, TypeEnvironment, TypeHandlers, TypeReadDone DEF SessionStep
<1>6. ASSUME NEW t \in Tokens, IssueToken(t) \/ ExpireToken(t) PROVE TypeOK'
  BY <1>6, TypeEnvironment
<1>7. CASE UNCHANGED vars
  BY <1>7 DEF vars, TypeOK, procVars, connVars, authVars, worldVars, dbVars
<1> QED
  BY <1>1, <1>2, <1>3, <1>4, <1>5, <1>6, <1>7 DEF Next

-----------------------------------------------------------------------------
(* The rest of the inductive invariant.                                      *)

LEMMA CoreInit == Init => Core
<1> SUFFICES ASSUME Init PROVE Core
  OBVIOUS
<1>1. Len(strand) = 0 /\ \A x : ~Queued(x)
  BY EmptySeq DEF Init, Queued
<1>2. NoTaskTwice
  BY <1>1 DEF NoTaskTwice
<1>3. SessionsHeld
  BY <1>1 DEF SessionsHeld, Init
<1>4. EntitiesOwned
  BY <1>1 DEF EntitiesOwned, Init, NoEntity
<1>5. SessionsRegistered
  BY DEF SessionsRegistered, Init, Authenticated, NoEntity
<1>6. TickPending
  BY <1>1 DEF TickPending, Init, Up
<1>7. AgesBounded
  BY DEF AgesBounded, Init
<1>8. TokenAdmitsOnce
  BY DEF TokenAdmitsOnce, Init
<1> QED
  BY <1>2, <1>3, <1>4, <1>5, <1>6, <1>7, <1>8 DEF Core

\* Steps that leave the tasks, the entities and the ownership alone.
LEMMA CoreEnvironment ==
  ASSUME TypeOK, Core,
         \/ \E s \in Sessions : \/ Connect(s) \/ AcceptConnection(s) \/ AcceptVanishing(s)
                                \/ \E how \in Departures : PeerLeaves(s, how)
         \/ \E t \in Tokens : IssueToken(t) \/ ExpireToken(t)
         \/ UNCHANGED vars
  PROVE  Core'
<1> USE DEF Core
<1>1. UNCHANGED <<procVars, strand, writes, authVars, worldVars, redeemed>>
  BY DEF Connect, AcceptConnection, AcceptVanishing, PeerLeaves, IssueToken, ExpireToken,
         vars, connVars, dbVars
<1>2. \A x : Queued(x)' <=> Queued(x)
  BY <1>1 DEF Queued
<1>3. \A s \in Sessions :
        /\ phase[s] = "alive" => UNCHANGED <<phase[s], reading[s]>>
        /\ phase'[s] # "alive" => UNCHANGED reading[s]
        /\ phase'[s] = phase[s] \/ phase[s] \in {"unborn", "queued"}
  BY DEF Connect, AcceptConnection, AcceptVanishing, PeerLeaves, IssueToken, ExpireToken,
         vars, connVars, TypeOK
<1>4. NoTaskTwice' /\ AgesBounded'
  BY <1>1 DEF NoTaskTwice, AgesBounded, procVars, worldVars
<1>5. SessionsHeld'
  BY <1>1, <1>2, <1>3 DEF SessionsHeld, authVars, TypeOK
<1>6. EntitiesOwned'
  BY <1>1, <1>2 DEF EntitiesOwned, authVars, worldVars
<1>7. SessionsRegistered'
  BY <1>1, <1>3 DEF SessionsRegistered, SessionsHeld, Authenticated, authVars, worldVars, TypeOK
<1>8. TickPending'
  <2>1. \A s \in Sessions : phase'[s] = "alive" => Up \/ phase[s] = "alive"
    BY DEF Connect, AcceptConnection, AcceptVanishing, PeerLeaves, IssueToken, ExpireToken,
           vars, connVars, TypeOK
  <2> QED
    BY <1>1, <1>2, <2>1 DEF TickPending, Up, procVars, worldVars
<1>9. TokenAdmitsOnce'
  <2>1. \A t \in Tokens : sessionRow'[t] # "deleted" => sessionRow[t] # "deleted"
    BY DEF Connect, AcceptConnection, AcceptVanishing, PeerLeaves, IssueToken, ExpireToken,
           vars, dbVars, TypeOK
  <2> QED
    BY <1>1, <2>1 DEF TokenAdmitsOnce
<1> QED
  BY <1>4, <1>5, <1>6, <1>7, <1>8, <1>9

LEMMA CoreProcess ==
  ASSUME TypeOK, Core, Boot \/ Stop \/ (\E s \in Sessions : AcceptReset(s))
  PROVE  Core'
<1> USE DEF Core
<1>1. CASE Boot
  <2>1. /\ strand' = <<>> /\ DOMAIN world' = {} /\ timer' = FALSE
        /\ server' \in {"starting", "down"} /\ \A s \in Sessions : phase'[s] # "alive"
    BY <1>1 DEF Boot, TickPending, worldVars, connVars
  <2>2. \A x : ~Queued(x)' /\ ~Queued(x)
    BY <1>1, <2>1, EmptySeq DEF Queued, Boot
  <2>3. UNCHANGED <<connVars, authVars, worldVars, dbVars, strand>>
    BY <1>1 DEF Boot
  <2>4. NoTaskTwice'
    BY <2>3 DEF NoTaskTwice
  <2>5. SessionsHeld' /\ EntitiesOwned' /\ SessionsRegistered'
    BY <2>2, <2>3, <2>1 DEF SessionsHeld, EntitiesOwned, SessionsRegistered, Authenticated,
                            connVars, authVars, worldVars
  <2>6. TickPending' /\ AgesBounded'
    BY <2>1, <2>2 DEF TickPending, AgesBounded, Up
  <2>7. TokenAdmitsOnce'
    BY <2>3 DEF TokenAdmitsOnce, dbVars
  <2> QED
    BY <2>4, <2>5, <2>6, <2>7
<1>2. ASSUME NEW how \in {"down", "aborted"}, ProcessEnds(how) PROVE Core'
  <2>1. Len(strand') = 0 /\ \A x : ~Queued(x)'
    BY <1>2, EmptySeq DEF ProcessEnds, Queued
  <2>2. NoTaskTwice'
    BY <2>1 DEF NoTaskTwice
  <2>3. SessionsHeld' /\ EntitiesOwned'
    BY <1>2, <2>1 DEF ProcessEnds, SessionsHeld, EntitiesOwned
  <2>4. SessionsRegistered'
    BY <1>2 DEF ProcessEnds, SessionsRegistered, Authenticated, TypeOK
  <2>5. TickPending' /\ AgesBounded'
    BY <1>2, <2>1 DEF ProcessEnds, TickPending, AgesBounded, Up
  <2>6. TokenAdmitsOnce'
    BY <1>2 DEF ProcessEnds, TokenAdmitsOnce, dbVars
  <2> QED
    BY <2>2, <2>3, <2>4, <2>5, <2>6
<1> QED
  BY <1>1, <1>2 DEF Stop, AcceptReset

LEMMA PostedOnce ==
  ASSUME strand \in Seq(Tasks), NoTaskTwice, NEW task \in Tasks, ~Queued(task),
         strand' = Append(strand, task)
  PROVE  NoTaskTwice'
<1>1. Len(strand) \in Nat
  BY LenProperties
<1> QED
  BY <1>1, Posted DEF NoTaskTwice, Queued

LEMMA RanOnce ==
  ASSUME strand \in Seq(Tasks), NoTaskTwice, strand # <<>>, strand' = Tail(strand)
  PROVE  NoTaskTwice'
<1>1. Len(strand) \in Nat /\ Len(strand') \in Nat
  BY Ran, LenProperties
<1> QED
  BY <1>1, Ran DEF NoTaskTwice

LEMMA CoreReadDone ==
  ASSUME TypeOK, Core, NEW s \in Sessions, NEW p \in Packets[s], ReadDone(s, p)
  PROVE  Core'
<1> USE DEF Core
<1>1. /\ strand \in Seq(Tasks) /\ PacketTask(s) \in Tasks
      /\ strand' = Append(strand, PacketTask(s))
  BY TasksAreTasks DEF ReadDone, TypeOK
<1>2. phase[s] = "alive" /\ ~Queued(PacketTask(s)) /\ strand' # <<>>
  BY <1>1, Posted, EmptySeq DEF ReadDone, SessionsHeld
<1>3. \A x : Queued(x)' <=> Queued(x) \/ x = PacketTask(s)
  BY <1>1, Posted
<1>4. UNCHANGED <<procVars, phase, writes, authVars, worldVars, dbVars>>
  BY DEF ReadDone
<1>5. NoTaskTwice'
  BY <1>1, <1>2, PostedOnce
<1>6. SessionsHeld'
  <2>1. \A r \in Sessions : Queued(PacketTask(r))' <=> Queued(PacketTask(r)) \/ r = s
    BY <1>3 DEF PacketTask
  <2>2. \A r \in Sessions : reading'[r] = IF r = s THEN "no" ELSE reading[r]
    BY DEF ReadDone, TypeOK
  <2>3. UNCHANGED <<phase, writes, entity_id_>>
    BY <1>4 DEF authVars, worldVars
  <2> QED
    BY <1>2, <2>1, <2>2, <2>3 DEF SessionsHeld
<1>7. EntitiesOwned'
  <2>1. \A i \in 1..Len(strand') : strand'[i].kind = "reap" => strand'[i].who \in DOMAIN world
    <3>1. /\ Len(strand') = Len(strand) + 1
          /\ \A i \in 1..Len(strand) : strand'[i] = strand[i]
          /\ strand'[Len(strand')] = PacketTask(s)
      BY <1>1, Posted
    <3>2. Len(strand) \in Nat
      BY <1>1, LenProperties
    <3>3. \A i \in 1..Len(strand') : i \in 1..Len(strand) \/ i = Len(strand')
      BY <3>1, <3>2
    <3>4. PacketTask(s).kind # "reap"
      BY DEF PacketTask
    <3>5. \A i \in 1..Len(strand) : strand[i].kind = "reap" => strand[i].who \in DOMAIN world
      BY DEF EntitiesOwned
    <3> QED
      BY <3>1, <3>3, <3>4, <3>5
  <2>2. \A e : Queued(ReapTask(e))' <=> Queued(ReapTask(e))
    BY <1>3 DEF PacketTask, ReapTask
  <2> QED
    BY <1>4, <2>1, <2>2 DEF EntitiesOwned, authVars, worldVars
<1>8. SessionsRegistered'
  BY <1>4 DEF SessionsRegistered, Authenticated, authVars, worldVars
<1>9. TickPending'
  <2>1. Queued(TickTask)' <=> Queued(TickTask)
    BY <1>3 DEF PacketTask, TickTask
  <2>2. Up
    BY <1>2 DEF TickPending
  <2> QED
    BY <1>4, <2>1, <2>2 DEF TickPending, Up, procVars
<1>10. AgesBounded' /\ TokenAdmitsOnce'
  BY <1>4 DEF AgesBounded, TokenAdmitsOnce, procVars, worldVars, dbVars
<1> QED
  BY <1>5, <1>6, <1>7, <1>8, <1>9, <1>10

LEMMA CoreRelease ==
  ASSUME TypeOK, Core, NEW s \in Sessions, phase[s] = "alive",
         NEW read \in {"no", reading[s]}, NEW out, NEW socket,
         Release(s, read, out, socket)
  PROVE  Core'
<1> USE DEF Core
<1>1. UNCHANGED <<procVars, worldVars, dbVars, state_>>
  BY DEF Release
<1>2. CASE Held(s, read, out)
  <2>1. UNCHANGED <<strand, phase, entity_id_>>
    BY <1>2 DEF Release, TypeOK
  <2>2. \A x : Queued(x)' <=> Queued(x)
    BY <2>1 DEF Queued
  <2>3. SessionsHeld'
    BY <2>1, <2>2 DEF SessionsHeld, Release, TypeOK
  <2>4. NoTaskTwice' /\ EntitiesOwned' /\ SessionsRegistered' /\ TickPending'
    BY <1>1, <2>1, <2>2 DEF NoTaskTwice, EntitiesOwned, SessionsRegistered, Authenticated,
                            TickPending, Up, procVars, worldVars
  <2>5. AgesBounded' /\ TokenAdmitsOnce'
    BY <1>1 DEF AgesBounded, TokenAdmitsOnce, procVars, worldVars, dbVars
  <2> QED
    BY <2>3, <2>4, <2>5
<1>3. CASE ~Held(s, read, out)
  <2>1. /\ read = "no" /\ out = {} /\ ~Queued(PacketTask(s))
        /\ phase' = [phase EXCEPT ![s] = "gone"]
        /\ reading' = [reading EXCEPT ![s] = "no"]
        /\ writes' = [writes EXCEPT ![s] = {}]
        /\ entity_id_' = [entity_id_ EXCEPT ![s] = NoEntity]
    BY <1>3 DEF Release, Held
  <2>2. CASE entity_id_[s] = NoEntity
    <3>1. strand' = strand /\ entity_id_' = entity_id_
      BY <1>3, <2>1, <2>2 DEF Release, TypeOK
    <3>2. \A x : Queued(x)' <=> Queued(x)
      BY <3>1 DEF Queued
    <3>3. SessionsHeld' /\ SessionsRegistered'
      BY <1>1, <2>1, <3>1, <3>2
      DEF SessionsHeld, SessionsRegistered, Authenticated, TypeOK, worldVars
    <3>4. NoTaskTwice' /\ EntitiesOwned' /\ TickPending'
      BY <1>1, <3>1, <3>2 DEF NoTaskTwice, EntitiesOwned, TickPending, Up, procVars, worldVars
    <3>5. AgesBounded' /\ TokenAdmitsOnce'
      BY <1>1 DEF AgesBounded, TokenAdmitsOnce, procVars, worldVars, dbVars
    <3> QED
      BY <3>3, <3>4, <3>5
  <2>3. CASE entity_id_[s] # NoEntity
    <3> DEFINE mine == entity_id_[s]
    <3>1. /\ strand \in Seq(Tasks) /\ ReapTask(mine) \in Tasks
          /\ strand' = Append(strand, ReapTask(mine))
      BY <1>3, <2>3, TasksAreTasks DEF Release, TypeOK, EntityIds
    <3>2. mine \in DOMAIN world /\ ~Queued(ReapTask(mine))
      BY <2>3 DEF EntitiesOwned
    <3>3. \A x : Queued(x)' <=> Queued(x) \/ x = ReapTask(mine)
      BY <3>1, Posted
    <3>4. NoTaskTwice'
      BY <3>1, <3>2, PostedOnce
    <3>5. SessionsHeld'
      <4>1. \A r \in Sessions : Queued(PacketTask(r))' <=> Queued(PacketTask(r))
        BY <3>3 DEF PacketTask, ReapTask
      <4> QED
        BY <2>1, <4>1 DEF SessionsHeld, TypeOK
    <3>6. EntitiesOwned'
      <4>1. \A i \in 1..Len(strand') :
              strand'[i].kind = "reap" => strand'[i].who \in DOMAIN world
        BY <3>1, <3>2, Posted, LenProperties DEF EntitiesOwned, ReapTask
      <4>2. \A e : Queued(ReapTask(e))' <=> Queued(ReapTask(e)) \/ e = mine
        BY <3>3 DEF ReapTask
      <4>3. \A e \in DOMAIN world : e # NoEntity
        BY DEF TypeOK, EntityIds
      <4>4. \A e \in DOMAIN world :
              (\E r \in Sessions : entity_id_'[r] = e)
                <=> (\E r \in Sessions : entity_id_[r] = e) /\ e # mine
        BY <2>1, <2>3, <4>3 DEF EntitiesOwned, TypeOK
      <4>5. \A e \in DOMAIN world :
              (\E r \in Sessions : entity_id_'[r] = e) <=> ~Queued(ReapTask(e))'
        BY <4>2, <4>4 DEF EntitiesOwned
      <4>6. \A r \in Sessions : entity_id_'[r] \in {NoEntity, entity_id_[r]}
        BY <2>1 DEF TypeOK
      <4>7. /\ \A r \in Sessions : entity_id_'[r] # NoEntity => entity_id_'[r] \in DOMAIN world
            /\ \A q, r \in Sessions :
                 entity_id_'[q] # NoEntity /\ entity_id_'[q] = entity_id_'[r] => q = r
        BY <4>6 DEF EntitiesOwned
      <4> QED
        BY <1>1, <4>1, <4>5, <4>7 DEF EntitiesOwned, worldVars
    <3>7. SessionsRegistered'
      BY <1>1, <2>1 DEF SessionsRegistered, Authenticated, TypeOK, worldVars
    <3>8. TickPending'
      <4>1. Queued(TickTask)' <=> Queued(TickTask)
        BY <3>3 DEF ReapTask, TickTask
      <4>2. Up
        BY <3>2 DEF TickPending
      <4> QED
        BY <1>1, <4>1, <4>2 DEF TickPending, Up, procVars
    <3>9. AgesBounded' /\ TokenAdmitsOnce'
      BY <1>1 DEF AgesBounded, TokenAdmitsOnce, procVars, worldVars, dbVars
    <3> QED
      BY <3>4, <3>5, <3>6, <3>7, <3>8, <3>9
  <2> QED
    BY <2>2, <2>3
<1> QED
  BY <1>2, <1>3

LEMMA CoreHandlers ==
  ASSUME TypeOK, Core,
         \/ TimerFires
         \/ \E s \in Sessions :
              \/ ReadFails(s)
              \/ \E kind \in WriteKinds, error, last \in BOOLEAN :
                   WriteDone(s, kind, error, last)
  PROVE  Core'
<1> USE DEF Core
<1>1. CASE TimerFires
  <2>1. strand \in Seq(Tasks) /\ strand' = Append(strand, TickTask) /\ timer /\ ~timer'
    BY <1>1 DEF TimerFires, TypeOK
  <2>2. Up /\ server = "running" /\ ~Queued(TickTask)
    BY <2>1 DEF TickPending, Up
  <2>3. \A x : Queued(x)' <=> Queued(x) \/ x = TickTask
    BY <2>1, Posted, TasksAreTasks
  <2>4. UNCHANGED <<server, tick, connVars, authVars, worldVars, dbVars>>
    BY <1>1 DEF TimerFires
  <2>5. NoTaskTwice'
    BY <2>1, <2>2, PostedOnce, TasksAreTasks
  <2>6. \A s, e : /\ Queued(PacketTask(s))' <=> Queued(PacketTask(s))
                  /\ Queued(ReapTask(e))' <=> Queued(ReapTask(e))
    BY <2>3 DEF PacketTask, ReapTask, TickTask
  <2>7. \A i \in 1..Len(strand') : strand'[i].kind = "reap" => strand'[i].who \in DOMAIN world
    BY <2>1, Posted, TasksAreTasks, LenProperties DEF EntitiesOwned, TickTask
  <2>8. SessionsHeld' /\ EntitiesOwned' /\ SessionsRegistered'
    BY <2>4, <2>6, <2>7 DEF SessionsHeld, EntitiesOwned, SessionsRegistered, Authenticated,
                            connVars, authVars, worldVars
  <2>9. TickPending'
    BY <2>1, <2>2, <2>3, <2>4 DEF TickPending, Up
  <2>10. AgesBounded' /\ TokenAdmitsOnce'
    BY <2>4 DEF AgesBounded, TokenAdmitsOnce, worldVars, dbVars
  <2> QED
    BY <2>5, <2>8, <2>9, <2>10
<1>2. ASSUME NEW s \in Sessions, ReadFails(s) PROVE Core'
  <2>1. phase[s] = "alive" /\ Release(s, "no", writes[s], sock[s])
    BY <1>2 DEF ReadFails, SessionsHeld
  <2> QED
    BY <2>1, CoreRelease
<1>3. ASSUME NEW s \in Sessions, NEW kind \in WriteKinds, NEW error \in BOOLEAN,
             NEW last \in BOOLEAN, WriteDone(s, kind, error, last)
      PROVE  Core'
  <2>1. phase[s] = "alive"
    BY <1>3 DEF WriteDone, SessionsHeld
  <2>2. PICK out, socket : Release(s, reading[s], out, socket)
    BY <1>3 DEF WriteDone
  <2> QED
    BY <2>1, <2>2, CoreRelease
<1> QED
  BY <1>1, <1>2, <1>3

\* A packet task at the head: what running it does to the queue.
LEMMA RanPacket ==
  ASSUME TypeOK, Core, NEW s \in Sessions, NextTask(PacketTask(s)), strand' = Tail(strand)
  PROVE  /\ phase[s] = "alive" /\ reading[s] = "no"
         /\ NoTaskTwice'
         /\ \A r \in Sessions : Queued(PacketTask(r))' <=> Queued(PacketTask(r)) /\ r # s
         /\ \A e : Queued(ReapTask(e))' <=> Queued(ReapTask(e))
         /\ Queued(TickTask)' <=> Queued(TickTask)
         /\ \A i \in 1..Len(strand') :
              strand'[i].kind = "reap" => strand'[i].who \in DOMAIN world
<1>1. strand \in Seq(Tasks) /\ strand # <<>> /\ Head(strand) = PacketTask(s) /\ NoTaskTwice
  BY DEF NextTask, TypeOK, Core
<1>2. \A x : Queued(x)' <=> Queued(x) /\ x # PacketTask(s)
  BY <1>1, Ran
<1>3. Queued(PacketTask(s))
  BY <1>1, Ran
<1>4. NoTaskTwice'
  BY <1>1, RanOnce
<1>5. \A i \in 1..Len(strand') : strand'[i].kind = "reap" => strand'[i].who \in DOMAIN world
  BY <1>1, Ran, LenProperties DEF Core, EntitiesOwned
<1>6. /\ \A r \in Sessions : Queued(PacketTask(r))' <=> Queued(PacketTask(r)) /\ r # s
      /\ \A e : Queued(ReapTask(e))' <=> Queued(ReapTask(e))
      /\ Queued(TickTask)' <=> Queued(TickTask)
  BY <1>2 DEF PacketTask, ReapTask, TickTask
<1> QED
  BY <1>3, <1>4, <1>5, <1>6 DEF Core, SessionsHeld

\* Packets that create no entity: writes only to sessions that are alive, the
\* expired ones may be erased, positions and inputs aside the world stays.
LEMMA CorePacket ==
  ASSUME TypeOK, Core, NEW s \in Sessions,
         \/ RefusePacket(s) \/ RejectAuth(s) \/ FailAuth(s)
         \/ Ping(s) \/ Move(s) \/ Chat(s) \/ IgnorePacket(s)
  PROVE  Core'
<1> USE DEF Core
<1>1. NextTask(PacketTask(s)) /\ \E socket : ReadNext(s, socket)
  BY DEF RefusePacket, RejectAuth, FailAuth, HandlingAuth, Ping, Move, Chat, IgnorePacket,
         Processing
<1>2. /\ strand' = Tail(strand)
      /\ UNCHANGED <<server, tick, timer, phase>>
      /\ \A r \in Sessions : r # s => reading'[r] = reading[r]
  BY <1>1 DEF ReadNext, procVars, TypeOK
<1>3. /\ phase[s] = "alive" /\ reading[s] = "no"
      /\ NoTaskTwice'
      /\ \A r \in Sessions : Queued(PacketTask(r))' <=> Queued(PacketTask(r)) /\ r # s
      /\ \A e : Queued(ReapTask(e))' <=> Queued(ReapTask(e))
      /\ Queued(TickTask)' <=> Queued(TickTask)
      /\ \A i \in 1..Len(strand') :
           strand'[i].kind = "reap" => strand'[i].who \in DOMAIN world
  BY <1>1, <1>2, RanPacket
<1>4. UNCHANGED <<authVars, nextEntity, redeemed>>
  BY DEF RefusePacket, RejectAuth, FailAuth, Ping, Move, Chat, IgnorePacket, worldVars, dbVars
<1>5. DOMAIN world' = DOMAIN world /\ \A e \in DOMAIN world : world'[e].age = world[e].age
  <2>1. CASE Move(s)
    <3>1. PICK i : world' = [world EXCEPT ![entity_id_[s]].input = i]
      BY <2>1 DEF Move
    <3>2. \A e \in DOMAIN world : world[e] \in Entity
      BY DEF TypeOK
    <3> QED
      BY <3>1, <3>2 DEF Entity, TypeOK
  <2> QED
    BY <2>1 DEF RefusePacket, RejectAuth, FailAuth, Ping, Chat, IgnorePacket, worldVars
<1>6. g_sessions' \in {g_sessions, Registered}
  BY DEF RefusePacket, RejectAuth, FailAuth, Ping, Move, Chat, IgnorePacket, Broadcast, worldVars
<1>7. \A r \in Sessions : phase[r] # "alive" => writes'[r] = writes[r]
  <2>1. \/ writes' = writes
        \/ \E kind : Send(kind, {s})
        \/ \E kind, to : Send(kind, to) /\ to \subseteq Registered
    BY DEF RefusePacket, RejectAuth, FailAuth, Ping, Move, Chat, IgnorePacket, Broadcast,
           Recipients
  <2> QED
    BY <1>3, <2>1 DEF Send, Registered
<1>8. SessionsHeld'
  BY <1>2, <1>3, <1>4, <1>7 DEF SessionsHeld, authVars
<1>9. EntitiesOwned'
  BY <1>3, <1>4, <1>5 DEF EntitiesOwned, authVars
<1>10. SessionsRegistered'
  BY <1>2, <1>4, <1>6 DEF SessionsRegistered, SessionsHeld, Authenticated, authVars, Registered
<1>11. TickPending'
  BY <1>1, <1>2, <1>3 DEF TickPending, NextTask, Up
<1>12. AgesBounded'
  BY <1>2, <1>5 DEF AgesBounded
<1>13. TokenAdmitsOnce'
  <2>1. \A t \in Tokens : sessionRow'[t] # "deleted" => sessionRow[t] # "deleted"
    BY DEF RefusePacket, RejectAuth, FailAuth, ConsumeToken, Ping, Move, Chat, IgnorePacket,
           dbVars, TypeOK
  <2> QED
    BY <1>4, <2>1 DEF TokenAdmitsOnce
<1> QED
  BY <1>3, <1>8, <1>9, <1>10, <1>11, <1>12, <1>13

\* handle_auth to its end: a fresh identifier, its owner and its registration.
LEMMA CoreAcceptAuth ==
  ASSUME TypeOK, Core, NEW s \in Sessions, AcceptAuth(s)
  PROVE  Core'
<1> USE DEF Core
<1> DEFINE new == nextEntity
<1>1. NextTask(PacketTask(s)) /\ ReadNext(s, sock[s]) /\ ~Authenticated(s)
  BY DEF AcceptAuth, HandlingAuth, Processing
<1>2. /\ strand' = Tail(strand)
      /\ UNCHANGED <<server, tick, timer, phase>>
      /\ \A r \in Sessions : r # s => reading'[r] = reading[r]
  BY <1>1 DEF ReadNext, procVars, TypeOK
<1>3. /\ phase[s] = "alive" /\ reading[s] = "no"
      /\ NoTaskTwice'
      /\ \A r \in Sessions : Queued(PacketTask(r))' <=> Queued(PacketTask(r)) /\ r # s
      /\ \A e : Queued(ReapTask(e))' <=> Queued(ReapTask(e))
      /\ Queued(TickTask)' <=> Queued(TickTask)
      /\ \A i \in 1..Len(strand') :
           strand'[i].kind = "reap" => strand'[i].who \in DOMAIN world
  BY <1>1, <1>2, RanPacket
<1>4. /\ new \in Nat /\ new # NoEntity /\ new \notin DOMAIN world
      /\ nextEntity' = new + 1 /\ DOMAIN world' = DOMAIN world \cup {new}
      /\ \A e \in DOMAIN world : e \in Nat /\ e < new
  BY DEF AcceptAuth, EntitiesOwned, TypeOK, EntityIds
<1>5. entity_id_[s] = NoEntity
  BY <1>1 DEF SessionsRegistered
<1>6. /\ entity_id_' = [entity_id_ EXCEPT ![s] = new]
      /\ state_' = [state_ EXCEPT ![s] = "AUTHENTICATED"]
      /\ g_sessions' = g_sessions \cup {s}
  BY DEF AcceptAuth
<1>7. ~Queued(ReapTask(new))
  <2>1. ASSUME Queued(ReapTask(new)) PROVE FALSE
    <3>1. PICK i \in 1..Len(strand) : strand[i] = ReapTask(new)
      BY <2>1 DEF Queued
    <3>2. strand[i].kind = "reap" /\ strand[i].who = new
      BY <3>1 DEF ReapTask
    <3> QED
      BY <1>4, <3>2 DEF EntitiesOwned
  <2> QED
    BY <2>1
<1>8. SessionsHeld'
  <2>1. \A r \in Sessions : r # s => writes'[r] = writes[r]
    BY DEF AcceptAuth, Send
  <2> QED
    BY <1>2, <1>3, <1>6, <2>1 DEF SessionsHeld, TypeOK
<1>9. EntitiesOwned'
  <2>1. /\ \A r \in Sessions : r # s => entity_id_'[r] = entity_id_[r]
        /\ entity_id_'[s] = new
    BY <1>6 DEF TypeOK
  <2>2. \A r \in Sessions : entity_id_[r] # new
    BY <1>4 DEF EntitiesOwned
  <2>3. \A e \in DOMAIN world' : e < nextEntity'
    BY <1>4
  <2>4. ASSUME NEW e \in DOMAIN world'
        PROVE  (\E r \in Sessions : entity_id_'[r] = e) <=> ~Queued(ReapTask(e))'
    <3>1. CASE e \in DOMAIN world
      <4>1. e # new /\ e # NoEntity
        BY <1>4, <3>1 DEF TypeOK, EntityIds
      <4>2. (\E r \in Sessions : entity_id_'[r] = e) <=> \E r \in Sessions : entity_id_[r] = e
        BY <1>5, <2>1, <4>1
      <4> QED
        BY <1>3, <3>1, <4>2 DEF EntitiesOwned
    <3>2. CASE e = new
      BY <1>3, <1>7, <2>1, <3>2
    <3> QED
      BY <1>4, <3>1, <3>2
  <2>5. \A r \in Sessions : entity_id_'[r] # NoEntity => entity_id_'[r] \in DOMAIN world'
    BY <1>4, <2>1 DEF EntitiesOwned
  <2>6. \A q, r \in Sessions :
          entity_id_'[q] # NoEntity /\ entity_id_'[q] = entity_id_'[r] => q = r
    BY <1>4, <2>1, <2>2 DEF EntitiesOwned
  <2> QED
    BY <1>3, <1>4, <2>3, <2>4, <2>5, <2>6 DEF EntitiesOwned
<1>10. SessionsRegistered'
  BY <1>2, <1>3, <1>4, <1>6 DEF SessionsRegistered, Authenticated, TypeOK
<1>11. TickPending'
  BY <1>1, <1>2, <1>3 DEF TickPending, NextTask, Up
<1>12. AgesBounded'
  <2>1. /\ \A e \in DOMAIN world : world'[e] = world[e]
        /\ world'[new].age = 0
    BY <1>4 DEF AcceptAuth
  <2>2. 0 <= tick
    BY DEF TypeOK
  <2> QED
    BY <1>2, <1>4, <2>1, <2>2 DEF AgesBounded
<1>13. TokenAdmitsOnce'
  <2> DEFINE t == payload[s]
  <2>1. /\ t \in Tokens /\ sessionRow[t] = "live"
        /\ sessionRow' = [sessionRow EXCEPT ![t] = "deleted"]
        /\ redeemed' = [redeemed EXCEPT ![t] = @ + 1]
    BY DEF AcceptAuth, TokenValid, ConsumeToken
  <2>2. redeemed[t] = 0
    BY <2>1 DEF TokenAdmitsOnce
  <2> QED
    BY <2>1, <2>2 DEF TokenAdmitsOnce, TypeOK
<1> QED
  BY <1>3, <1>8, <1>9, <1>10, <1>11, <1>12, <1>13

LEMMA CoreReap ==
  ASSUME TypeOK, Core, NEW e \in Nat, Reap(e)
  PROVE  Core'
<1> USE DEF Core
<1>1. /\ strand \in Seq(Tasks) /\ strand # <<>> /\ Head(strand) = ReapTask(e)
      /\ strand' = Tail(strand)
  BY DEF Reap, NextTask, TypeOK
<1>2. \A x : Queued(x)' <=> Queued(x) /\ x # ReapTask(e)
  BY <1>1, Ran
<1>3. e \in DOMAIN world /\ Queued(ReapTask(e))
  <2>1. Queued(ReapTask(e))
    BY <1>1, Ran
  <2>2. PICK i \in 1..Len(strand) : strand[i] = ReapTask(e)
    BY <2>1 DEF Queued
  <2>3. strand[i].kind = "reap" /\ strand[i].who = e
    BY <2>2 DEF ReapTask
  <2> QED
    BY <2>1, <2>3 DEF EntitiesOwned
<1>4. /\ world' = [f \in DOMAIN world \ {e} |-> world[f]]
      /\ Broadcast(Registered)
      /\ UNCHANGED <<procVars, phase, reading, authVars, nextEntity, sessionRow, redeemed>>
  BY <1>3 DEF Reap
<1>5. NoTaskTwice'
  BY <1>1, RanOnce
<1>6. \A r \in Sessions : Queued(PacketTask(r))' <=> Queued(PacketTask(r))
  BY <1>2 DEF PacketTask, ReapTask
<1>7. SessionsHeld'
  BY <1>4, <1>6 DEF SessionsHeld, Broadcast, Send, Registered, authVars
<1>8. EntitiesOwned'
  <2>1. \A f : Queued(ReapTask(f))' <=> Queued(ReapTask(f)) /\ f # e
    BY <1>2 DEF ReapTask
  <2>2. \A i \in 1..Len(strand') : strand'[i].kind = "reap" => strand'[i].who \in DOMAIN world'
    <3>1. SUFFICES ASSUME NEW i \in 1..Len(strand'), strand'[i].kind = "reap"
                   PROVE  strand'[i].who \in DOMAIN world'
      OBVIOUS
    <3>2. strand' \in Seq(Tasks)
      BY <1>1, Ran
    <3>3. strand'[i] \in Tasks
      BY <3>2, ElementOfSeq
    <3>4. strand'[i] = ReapTask(strand'[i].who) /\ strand'[i].who \in EntityIds
      BY <3>1, <3>3 DEF Tasks, ReapTask, TickTask
    <3>5. \A w : strand'[i] = ReapTask(w) => Queued(ReapTask(w))'
      BY DEF Queued
    <3>6. strand'[i].who # e
      BY <2>1, <3>4, <3>5
    <3>7. strand'[i].who \in DOMAIN world
      BY <1>1, <3>1, Ran, LenProperties DEF EntitiesOwned
    <3> QED
      BY <1>4, <3>6, <3>7
  <2>3. \A r \in Sessions : entity_id_[r] # e
    BY <1>3 DEF EntitiesOwned
  <2> QED
    BY <1>4, <2>1, <2>2, <2>3 DEF EntitiesOwned, authVars
<1>9. SessionsRegistered'
  BY <1>4 DEF SessionsRegistered, SessionsHeld, Authenticated, Broadcast, Registered, authVars
<1>10. TickPending'
  <2>1. Queued(TickTask)' <=> Queued(TickTask)
    BY <1>2 DEF ReapTask, TickTask
  <2> QED
    BY <1>4, <2>1 DEF TickPending, Up, Reap, NextTask, procVars
<1>11. AgesBounded' /\ TokenAdmitsOnce'
  BY <1>4 DEF AgesBounded, TokenAdmitsOnce, procVars
<1> QED
  BY <1>5, <1>7, <1>8, <1>9, <1>10, <1>11

LEMMA CoreTick ==
  ASSUME TypeOK, Core, Tick \/ FirstTick
  PROVE  Core'
<1> USE DEF Core
<1>1. /\ GameLoopTick /\ UpdateGameWorld
      /\ UNCHANGED <<phase, reading, authVars, nextEntity, sessionRow, redeemed>>
  BY DEF Tick, FirstTick, GameLoopTick, UpdateGameWorld
<1>2. /\ \A s : Queued(PacketTask(s))' <=> Queued(PacketTask(s))
      /\ \A e : Queued(ReapTask(e))' <=> Queued(ReapTask(e))
      /\ ~Queued(TickTask)'
      /\ NoTaskTwice'
      /\ \A i \in 1..Len(strand') : strand'[i].kind = "reap" => strand'[i].who \in DOMAIN world
      /\ Up /\ server' = "running"
  <2>1. CASE Tick
    <3>1. /\ strand \in Seq(Tasks) /\ strand # <<>> /\ Head(strand) = TickTask
          /\ strand' = Tail(strand) /\ Up /\ server' = server
      BY <2>1 DEF Tick, NextTask, TypeOK
    <3>2. /\ \A x : Queued(x)' <=> Queued(x) /\ x # TickTask
          /\ Queued(TickTask)
      BY <3>1, Ran
    <3>3. server = "running"
      BY <3>1, <3>2 DEF TickPending, Up
    <3>4. \A i \in 1..Len(strand') : strand'[i].kind = "reap" => strand'[i].who \in DOMAIN world
      BY <3>1, Ran, LenProperties DEF EntitiesOwned
    <3>5. NoTaskTwice'
      BY <3>1, RanOnce
    <3>6. \A s, e : /\ Queued(PacketTask(s))' <=> Queued(PacketTask(s))
                    /\ Queued(ReapTask(e))' <=> Queued(ReapTask(e))
      BY <3>2 DEF PacketTask, ReapTask, TickTask
    <3> QED
      BY <3>1, <3>2, <3>3, <3>4, <3>5, <3>6
  <2>2. CASE FirstTick
    BY <2>2 DEF FirstTick, TickPending, Up, Queued, NoTaskTwice, EntitiesOwned
  <2> QED
    BY <2>1, <2>2
<1>3. DOMAIN world' = DOMAIN world
  BY <1>1 DEF UpdateGameWorld
<1>4. SessionsHeld'
  <2>1. \A s \in Sessions : phase[s] # "alive" => writes'[s] = writes[s]
    BY <1>1 DEF UpdateGameWorld, Broadcast, Send, Registered
  <2> QED
    BY <1>1, <1>2, <2>1 DEF SessionsHeld, authVars
<1>5. EntitiesOwned'
  BY <1>1, <1>2, <1>3 DEF EntitiesOwned, authVars
<1>6. SessionsRegistered'
  <2>1. g_sessions' \in {g_sessions, Registered}
    BY <1>1 DEF UpdateGameWorld, Broadcast
  <2> QED
    BY <1>1, <2>1 DEF SessionsRegistered, SessionsHeld, Authenticated, Registered, authVars
<1>7. TickPending'
  BY <1>1, <1>2 DEF TickPending, Up, GameLoopTick
<1>8. AgesBounded'
  <2>1. SUFFICES ASSUME ~DbFaults, NEW e \in DOMAIN world PROVE world'[e].age <= tick'
    BY <1>3 DEF AgesBounded
  <2>2. PICK saved :
          /\ saved = IF ShouldAutosave THEN DOMAIN world ELSE {}
          /\ world' = [f \in DOMAIN world |->
                         [Simulated[f] EXCEPT
                            !.age = IF f \in saved THEN 0
                                    ELSE IF @ > AutosaveTicks THEN @ ELSE @ + 1]]
    BY <1>1, <2>1 DEF UpdateGameWorld, SaveOutcomes
  <2>3. world[e] \in Entity
    BY DEF TypeOK
  <2>4. Simulated[e].age = world[e].age /\ world[e].age \in Nat /\ world[e].age <= tick
    BY <2>1, <2>3 DEF Simulated, Entity, AgesBounded
  <2>5. world'[e].age = IF e \in saved THEN 0
                        ELSE IF world[e].age > AutosaveTicks THEN world[e].age
                             ELSE world[e].age + 1
    BY <2>2, <2>3, <2>4 DEF Simulated, Entity
  <2>6. tick \in Nat /\ tick' = IF ShouldAutosave THEN 1 ELSE tick + 1
    BY <1>1, BoundsAssumption DEF GameLoopTick, TypeOK
  <2> QED
    BY <2>2, <2>4, <2>5, <2>6
<1>9. TokenAdmitsOnce'
  BY <1>1 DEF TokenAdmitsOnce
<1> QED
  BY <1>2, <1>4, <1>5, <1>6, <1>7, <1>8, <1>9

LEMMA CoreNext == TypeOK /\ Core /\ [Next]_vars => Core'
<1> SUFFICES ASSUME TypeOK, Core, [Next]_vars PROVE Core'
  OBVIOUS
<1>1. CASE Boot \/ Stop
  BY <1>1, CoreProcess
<1>2. CASE FirstTick
  BY <1>2, CoreTick
<1>3. CASE TimerFires
  BY <1>3, CoreHandlers
<1>4. CASE RunTask
  <2>1. ASSUME NEW s \in Sessions, ProcessPacket(s) PROVE Core'
    BY <2>1, CorePacket, CoreAcceptAuth DEF ProcessPacket
  <2>2. ASSUME NEW e \in 1..nextEntity, Reap(e) PROVE Core'
    BY <2>2, CoreReap DEF TypeOK, EntityIds
  <2> QED
    BY <1>4, <2>1, <2>2, CoreTick DEF RunTask
<1>5. ASSUME NEW s \in Sessions, SessionStep(s) PROVE Core'
  BY <1>5, CoreProcess, CoreEnvironment, CoreHandlers, CoreReadDone DEF SessionStep
<1>6. ASSUME NEW t \in Tokens, IssueToken(t) \/ ExpireToken(t) PROVE Core'
  BY <1>6, CoreEnvironment
<1>7. CASE UNCHANGED vars
  BY <1>7, CoreEnvironment
<1> QED
  BY <1>1, <1>2, <1>3, <1>4, <1>5, <1>6, <1>7 DEF Next

-----------------------------------------------------------------------------
(* Theorems.                                                                 *)

\* The inductive invariant holds in every reachable state of every instance.
THEOREM Invariance == Spec => []IInv
<1>1. Init => IInv
  BY TypeInit, CoreInit DEF IInv
<1>2. IInv /\ [Next]_vars => IInv'
  BY TypeNext, CoreNext DEF IInv
<1> QED
  BY <1>1, <1>2, PTL DEF Spec

\* Every variable of the game server keeps its type.
THEOREM TypeCorrect == Spec => []TypeOK
<1>1. IInv => TypeOK
  BY DEF IInv
<1> QED
  BY <1>1, Invariance, PTL

\* Whatever the order of handlers, packets, reapers and ticks, an entity belongs
\* to exactly one living session or to exactly one queued reaper.
THEOREM OwnershipCorrect == Spec => []EntityOwned
<1>1. IInv => EntityOwned
  BY DEF IInv, Core, EntityOwned, EntitiesOwned, NoTaskTwice, HasEntity
<1> QED
  BY <1>1, Invariance, PTL

\* Every player in the world is among the sessions the broadcasts reach, and
\* nobody is who is not authenticated with an entity.
THEOREM RegistryCorrect == Spec => []RegistryCoversWorld
<1>1. IInv => RegistryCoversWorld
  BY DEF IInv, Core, RegistryCoversWorld, SessionsRegistered, SessionsHeld, Registered
<1> QED
  BY <1>1, Invariance, PTL

\* The loop of ticks neither stops nor doubles.
THEOREM TickCorrect == Spec => []OneTickPending
<1>1. IInv => OneTickPending
  <2> SUFFICES ASSUME IInv PROVE OneTickPending
    OBVIOUS
  <2>1. server = "running" => (timer # Queued(TickTask))
    BY DEF IInv, Core, TickPending, TypeOK
  <2> QED
    BY <2>1 DEF IInv, Core, OneTickPending, NoTaskTwice
<1> QED
  BY <1>1, Invariance, PTL

\* A token admits at most one player, and none before it is consumed.
THEOREM TokenCorrect == Spec => []TokenAdmitsOnce
<1>1. IInv => TokenAdmitsOnce
  BY DEF IInv, Core
<1> QED
  BY <1>1, Invariance, PTL

\* Without database faults no entity goes unsaved for more than AutosaveTicks.
THEOREM AutosaveCorrect == Spec => []AutosaveBound
<1>1. IInv => AutosaveBound
  <2> SUFFICES ASSUME IInv, ~DbFaults, NEW e \in DOMAIN world
               PROVE  world[e].age <= AutosaveTicks
    BY DEF AutosaveBound
  <2>1. world[e].age \in Nat
    BY DEF IInv, TypeOK, Entity
  <2>2. world[e].age <= tick /\ tick \in 0..AutosaveTicks
    BY DEF IInv, Core, TypeOK, AgesBounded
  <2> QED
    BY <2>1, <2>2, BoundsAssumption
<1> QED
  BY <1>1, Invariance, PTL

\* While a packet waits for the strand no handler touches its buffer.
THEOREM BufferCorrect == Spec => BufferStable
<1> DEFINE Stable == \A s \in Sessions :
                       Queued(PacketTask(s)) /\ Queued(PacketTask(s))' =>
                         header'[s] = header[s] /\ payload'[s] = payload[s]
<1>1. IInv /\ [Next]_vars => Stable \/ UNCHANGED vars
  <2> SUFFICES ASSUME TypeOK, Core, Next, NEW s \in Sessions,
                      Queued(PacketTask(s)), Queued(PacketTask(s))'
               PROVE  header'[s] = header[s] /\ payload'[s] = payload[s]
    BY DEF IInv
  <2>1. phase[s] = "alive" /\ reading[s] = "no"
    BY DEF Core, SessionsHeld
  <2>2. CASE Boot \/ FirstTick \/ TimerFires \/ Tick
             \/ \E t \in Tokens : IssueToken(t) \/ ExpireToken(t)
    BY <2>2 DEF Boot, FirstTick, TimerFires, Tick, GameLoopTick, UpdateGameWorld, connVars,
                IssueToken, ExpireToken
  <2>3. ASSUME NEW how \in {"down", "aborted"}, ProcessEnds(how)
        PROVE  FALSE
    BY <2>3, EmptySeq DEF ProcessEnds, Queued
  <2>4. ASSUME NEW r \in Sessions, ProcessPacket(r)
        PROVE  header'[s] = header[s] /\ payload'[s] = payload[s]
    <3>1. NextTask(PacketTask(r)) /\ \E socket : ReadNext(r, socket)
      BY <2>4 DEF ProcessPacket, RefusePacket, RejectAuth, FailAuth, AcceptAuth, HandlingAuth,
                  Ping, Move, Chat, IgnorePacket, Processing
    <3>2. r # s
      BY <3>1, RanPacket DEF ReadNext
    <3> QED
      BY <3>1, <3>2 DEF ReadNext, TypeOK
  <2>5. ASSUME NEW e \in 1..nextEntity, Reap(e)
        PROVE  header'[s] = header[s] /\ payload'[s] = payload[s]
    BY <2>5 DEF Reap
  <2>6. ASSUME NEW r \in Sessions, SessionStep(r), ~AcceptReset(r)
        PROVE  header'[s] = header[s] /\ payload'[s] = payload[s]
    <3>1. CASE Connect(r) \/ AcceptConnection(r) \/ AcceptVanishing(r)
               \/ \E how \in Departures : PeerLeaves(r, how)
      BY <3>1 DEF Connect, AcceptConnection, AcceptVanishing, PeerLeaves
    <3>2. ASSUME NEW p \in Packets[r], ReadDone(r, p)
          PROVE  header'[s] = header[s] /\ payload'[s] = payload[s]
      BY <2>1, <3>2 DEF ReadDone, TypeOK
    <3>3. ASSUME NEW read, NEW out, NEW socket, Release(r, read, out, socket)
          PROVE  header'[s] = header[s] /\ payload'[s] = payload[s]
      BY <3>3 DEF Release, Held, TypeOK
    <3> QED
      BY <2>6, <3>1, <3>2, <3>3 DEF SessionStep, ReadFails, WriteDone
  <2> QED
    BY <2>2, <2>3, <2>4, <2>5, <2>6 DEF Next, RunTask, Stop, AcceptReset
<1>2. IInv /\ [Next]_vars => [Stable]_vars
  BY <1>1
<1> QED
  BY <1>2, Invariance, PTL DEF Spec, BufferStable

\* Without database faults an entity leaves a running world saved where it stood.
THEOREM DepartureCorrect == Spec => DepartureSaved
<1> DEFINE Saved == ~DbFaults =>
                      \A e \in DOMAIN world \ DOMAIN world' :
                        Up' => characters'[world[e].char] = world[e].pos
<1>1. IInv /\ [Next]_vars => Saved
  <2> SUFFICES ASSUME TypeOK, Core, [Next]_vars, ~DbFaults,
                      NEW e \in DOMAIN world, e \notin DOMAIN world', Up'
               PROVE  characters'[world[e].char] = world[e].pos
    BY DEF IInv
  <2>1. world # world'
    OBVIOUS
  <2>2. ASSUME NEW how \in {"down", "aborted"}, ProcessEnds(how) PROVE FALSE
    BY <2>2 DEF ProcessEnds, Up
  <2>3. ASSUME NEW s \in Sessions, ProcessPacket(s) PROVE FALSE
    <3>1. CASE Move(s)
      <4>1. DOMAIN world' = DOMAIN world
        BY <3>1 DEF Move
      <4> QED
        BY <4>1
    <3>2. CASE AcceptAuth(s)
      BY <3>2 DEF AcceptAuth
    <3> QED
      BY <2>1, <2>3, <3>1, <3>2 DEF ProcessPacket, RefusePacket, RejectAuth, FailAuth, Ping,
                                    Chat, IgnorePacket, worldVars
  <2>4. ASSUME NEW f \in 1..nextEntity, Reap(f)
        PROVE  characters'[world[e].char] = world[e].pos
    <3>1. e = f /\ f \in DOMAIN world
      BY <2>1, <2>4 DEF Reap
    <3>2. characters' \in SavedRows(world, {e})
      BY <2>4, <3>1 DEF Reap, SaveOutcomes
    <3>3. world[e].char \in Accounts
      BY DEF TypeOK, Entity
    <3>4. {d \in {e} : world[d].char = world[e].char} = {e}
      OBVIOUS
    <3> QED
      BY <3>2, <3>3, <3>4 DEF SavedRows
  <2>5. CASE Tick \/ FirstTick
    BY <2>5 DEF Tick, FirstTick, GameLoopTick, UpdateGameWorld
  <2>6. ASSUME NEW s \in Sessions, SessionStep(s), ~AcceptReset(s) PROVE FALSE
    BY <2>1, <2>6 DEF SessionStep, Connect, AcceptConnection, AcceptVanishing, PeerLeaves,
                      ReadDone, ReadFails, WriteDone, Release, worldVars
  <2>7. CASE Boot \/ TimerFires \/ UNCHANGED vars
             \/ \E t \in Tokens : IssueToken(t) \/ ExpireToken(t)
    BY <2>1, <2>7 DEF Boot, TimerFires, IssueToken, ExpireToken, vars, worldVars
  <2> QED
    BY <2>2, <2>3, <2>4, <2>5, <2>6, <2>7 DEF Next, RunTask, Stop, AcceptReset
<1>2. IInv /\ [Next]_vars => [Saved]_vars
  BY <1>1
<1> QED
  BY <1>2, Invariance, PTL DEF Spec, DepartureSaved

\* The server with its database implements the promise of the tokens.
THEOREM PromiseCorrect == Spec => KeepsTokenPromise
<1> DEFINE status == [t \in Tokens |-> CASE sessionRow[t] = "unissued" -> "unissued"
                                         [] sessionRow[t] = "live" -> "valid"
                                         [] OTHER -> "spent"]
<1>1. Init => TokenPromise!Init
  BY DEF Init, TokenPromise!Init
<1>2. IInv /\ [Next]_vars => [TokenPromise!Next]_TokenPromise!tokenVars
  <2> SUFFICES ASSUME TypeOK, [Next]_vars
               PROVE  TokenPromise!Next \/ UNCHANGED <<sessionRow, redeemed>>
    BY DEF IInv, TokenPromise!tokenVars
  <2>1. ASSUME NEW t \in Tokens, sessionRow' = [sessionRow EXCEPT ![t] = "live"],
               sessionRow[t] = "unissued", UNCHANGED redeemed
        PROVE  TokenPromise!Issue(t)
    BY <2>1 DEF TokenPromise!Issue, TypeOK
  <2>2. ASSUME NEW t \in Tokens, NEW end \in {"expired", "deleted"}, sessionRow[t] = "live",
               sessionRow' = [sessionRow EXCEPT ![t] = end]
        PROVE  status'= [status EXCEPT ![t] = "spent"] /\ status[t] = "valid"
    BY <2>2 DEF TypeOK
  <2>3. ASSUME NEW t \in Tokens, IssueToken(t) \/ ExpireToken(t) PROVE TokenPromise!Next
    <3>1. CASE IssueToken(t)
      BY <2>1, <3>1 DEF IssueToken, TokenPromise!Next
    <3>2. CASE ExpireToken(t)
      BY <2>2, <3>2 DEF ExpireToken, TokenPromise!Next, TokenPromise!Lapse
    <3> QED
      BY <2>3, <3>1, <3>2
  <2>4. ASSUME NEW s \in Sessions, ProcessPacket(s)
        PROVE  TokenPromise!Next \/ UNCHANGED <<sessionRow, redeemed>>
    <3>1. CASE AcceptAuth(s)
      <4>1. /\ payload[s] \in Tokens /\ sessionRow[payload[s]] = "live"
            /\ sessionRow' = [sessionRow EXCEPT ![payload[s]] = "deleted"]
            /\ redeemed' = [redeemed EXCEPT ![payload[s]] = @ + 1]
        BY <3>1 DEF AcceptAuth, TokenValid, ConsumeToken
      <4> QED
        BY <2>2, <4>1 DEF TokenPromise!Next, TokenPromise!Enter
    <3>2. CASE FailAuth(s) /\ TokenValid(payload[s]) /\ ConsumeToken(payload[s])
      <4>1. /\ payload[s] \in Tokens /\ sessionRow[payload[s]] = "live"
            /\ sessionRow' = [sessionRow EXCEPT ![payload[s]] = "deleted"]
            /\ UNCHANGED redeemed
        BY <3>2 DEF FailAuth, TokenValid, ConsumeToken
      <4> QED
        BY <2>2, <4>1 DEF TokenPromise!Next, TokenPromise!Lapse
    <3> QED
      BY <2>4, <3>1, <3>2 DEF ProcessPacket, RefusePacket, RejectAuth, FailAuth, Ping, Move,
                              Chat, IgnorePacket, dbVars
  <2>5. ASSUME NEW s \in Sessions, SessionStep(s) PROVE UNCHANGED <<sessionRow, redeemed>>
    BY <2>5 DEF SessionStep, Connect, AcceptConnection, AcceptVanishing, AcceptReset,
                ProcessEnds, PeerLeaves, ReadDone, ReadFails, WriteDone, Release, dbVars
  <2>6. CASE Boot \/ Stop \/ TimerFires \/ FirstTick \/ Tick \/ UNCHANGED vars
             \/ \E e \in 1..nextEntity : Reap(e)
    BY <2>6 DEF Boot, Stop, ProcessEnds, TimerFires, FirstTick, Tick, GameLoopTick,
                UpdateGameWorld, Reap, vars, dbVars
  <2> QED
    BY <2>3, <2>4, <2>5, <2>6 DEF Next, RunTask
<1> QED
  BY <1>1, <1>2, Invariance, PTL DEF Spec, KeepsTokenPromise, TokenPromise!Spec
=============================================================================
