------------------------------ MODULE GameServer ------------------------------
(* The game server (server/game/src/main.cpp): the sessions of the connected *)
(* players, the game_strand on which every packet, reaper and tick runs, the *)
(* world they share and the rows they keep in Postgres.                      *)
(*                                                                           *)
(* Threads.  Worker threads run the completion handlers of reads and writes, *)
(* one action each; the handler that drops the last shared_ptr of a session  *)
(* runs its destructor.  The strand runs its tasks in the order they were    *)
(* posted, one at a time: one action per kind of task.  The main thread runs *)
(* the first tick itself, beside the strand.                                 *)
EXTENDS Integers, Sequences, FiniteSets

CONSTANTS
  Sessions,       \* the TCP connections peers make
  Accounts,       \* accounts, each with its one character
  Tokens, Owner,  \* session tokens and the account each is issued for
  Positions, Spawn,
  Inputs, Idle,   \* what a MsgPlayerMove holds, and PlayerInput's default
  Moved,          \* apply_move_flags over one tick
  Hears,          \* per ranged channel, the pairs of positions within range
  Packets,        \* the packets each peer may send
  Departures,     \* how peers leave, of "fin" (close) and "reset"
  NoBody, Short,  \* a header-only packet; a payload smaller than any struct
  NoHeader, NoRow,
  AutosaveTicks,  \* AUTOSAVE_INTERVAL_TICKS
  DbFaults,       \* may database transactions fail?
  MaxBoots        \* bound: how often the process is started

Chats == [channel : {"Say", "Yell", "Whisper", "Guild"}, target : Accounts]
Bodies == {NoBody, Short} \cup Inputs \cup Tokens \cup Chats
Opcodes == {"auth", "ping", "move", "chat", "other"}

ASSUME TokensAssumption == Owner \in [Tokens -> Accounts]
ASSUME MovementAssumption ==
  /\ Spawn \in Positions
  /\ Idle \in Inputs
  /\ Moved \in [Positions \X Inputs -> Positions]
  /\ Hears \in [{"Say", "Yell"} -> SUBSET (Positions \X Positions)]
ASSUME PacketsAssumption ==
  /\ Packets \in [Sessions -> SUBSET [op : Opcodes, body : Bodies]]
  /\ NoHeader \notin [op : Opcodes, bare : BOOLEAN]
  /\ Departures \subseteq {"fin", "reset"}
ASSUME RowsAssumption == NoRow \notin Positions
ASSUME BoundsAssumption ==
  AutosaveTicks \in Nat \ {0} /\ DbFaults \in BOOLEAN /\ MaxBoots \in Nat

VARIABLES
  \* the process
  server,      \* "down", "starting" (first tick to come), "running", "aborted"
  boots,       \* how often it was started
  tick,        \* tick_count, folded at AutosaveTicks: it counts 0, 1..A, 1..A
  timer,       \* is the tick timer armed?
  strand,      \* game_strand: tasks posted and not yet run, oldest first
  \* each PlayerSession and its connection
  phase,       \* "unborn", "queued" (not accepted), "alive", "gone"
  peer,        \* "open", "fin" (closed its end), "reset"
  sock,        \* socket_: "open" or "closed" by this server
  reading,     \* async_read outstanding: "no", "live", or "dead" (must fail)
  writes,      \* the kinds of async_write outstanding
  header,      \* header_: opcode, and whether size leaves no payload
  payload,     \* payload_
  state_, entity_id_,
  \* shared
  world,       \* the registry: entity -> character, Position, PlayerInput, age
  nextEntity,  \* the identifier world.create() returns next
  g_sessions,  \* sessions whose weak_ptr the vector holds
  \* Postgres
  sessionRow,  \* table sessions: "unissued", "live", "expired", "deleted"
  redeemed,    \* history: entities created from each token
  characters   \* table characters: the saved position of each account

procVars == <<server, boots, tick, timer>>
connVars == <<phase, peer, sock, reading, writes, header, payload>>
authVars == <<state_, entity_id_>>
worldVars == <<world, nextEntity, g_sessions>>
dbVars == <<sessionRow, redeemed, characters>>
vars == <<procVars, strand, connVars, authVars, worldVars, dbVars>>

NoEntity == 0
EntityIds == Nat \ {NoEntity}
PacketTask(s) == [kind |-> "packet", who |-> s]
ReapTask(e) == [kind |-> "reap", who |-> e]
TickTask == [kind |-> "tick", who |-> 0]
Tasks == [kind : {"packet"}, who : Sessions] \cup [kind : {"reap"}, who : EntityIds]
           \cup {TickTask}
Entity == [char : Accounts, pos : Positions, input : Inputs, age : Nat]

Up == server \in {"starting", "running"}
Queued(task) == \E i \in 1..Len(strand) : strand[i] = task
NextTask(task) == Up /\ strand # <<>> /\ Head(strand) = task

-----------------------------------------------------------------------------
Init ==
  /\ server = "down" /\ boots = 0 /\ tick = 0 /\ timer = FALSE
  /\ strand = <<>>
  /\ phase = [s \in Sessions |-> "unborn"]
  /\ peer = [s \in Sessions |-> "open"]
  /\ sock = [s \in Sessions |-> "open"]
  /\ reading = [s \in Sessions |-> "no"]
  /\ writes = [s \in Sessions |-> {}]
  /\ header = [s \in Sessions |-> NoHeader]
  /\ payload = [s \in Sessions |-> NoBody]
  /\ state_ = [s \in Sessions |-> "WAITING_FOR_AUTH"]
  /\ entity_id_ = [s \in Sessions |-> NoEntity]
  /\ world = [e \in {} |-> Spawn] /\ nextEntity = 1 /\ g_sessions = {}
  /\ sessionRow = [t \in Tokens |-> "unissued"]
  /\ redeemed = [t \in Tokens |-> 0]
  /\ characters = [a \in Accounts |-> NoRow]

-----------------------------------------------------------------------------
(* The process.                                                              *)

\* main() up to the first tick, the acceptor and the workers running; without a
\* database it returns before it opens the port.
Boot ==
  /\ ~Up /\ boots < MaxBoots /\ boots' = boots + 1
  /\ \/ server' = "starting"
     \/ DbFaults /\ server' = "down"
  /\ tick' = 0 /\ timer' = FALSE
  /\ UNCHANGED <<strand, connVars, authVars, worldVars, dbVars>>

\* The process ends: whatever is in memory is lost and nothing is saved.
ProcessEnds(how) ==
  /\ server' = how /\ tick' = 0 /\ timer' = FALSE
  /\ strand' = <<>>
  /\ phase' = [s \in Sessions |->
                 IF phase[s] \in {"queued", "alive"} THEN "gone" ELSE phase[s]]
  /\ reading' = [s \in Sessions |-> "no"]
  /\ writes' = [s \in Sessions |-> {}]
  /\ header' = [s \in Sessions |-> NoHeader]
  /\ payload' = [s \in Sessions |-> NoBody]
  /\ entity_id_' = [s \in Sessions |-> NoEntity]
  /\ world' = [e \in {} |-> Spawn] /\ g_sessions' = {}
  /\ UNCHANGED <<boots, peer, sock, state_, nextEntity, dbVars>>

\* Enter was pressed, or the process was killed.
Stop == Up /\ ProcessEnds("down")

-----------------------------------------------------------------------------
(* Peers, the login server and the clock: the environment.                   *)

Connect(s) ==
  /\ Up /\ phase[s] = "unborn"
  /\ phase' = [phase EXCEPT ![s] = "queued"]
  /\ UNCHANGED <<procVars, strand, peer, sock, reading, writes, header, payload,
                 authVars, worldVars, dbVars>>

PeerLeaves(s, how) ==
  /\ phase[s] \in {"queued", "alive"}
  /\ peer[s] = "open" \/ (peer[s] = "fin" /\ how = "reset")
  /\ peer' = [peer EXCEPT ![s] = how]
  /\ UNCHANGED <<procVars, strand, phase, sock, reading, writes, header, payload,
                 authVars, worldVars, dbVars>>

\* The login server stores a fresh token for its account.
IssueToken(t) ==
  /\ sessionRow[t] = "unissued"
  /\ sessionRow' = [sessionRow EXCEPT ![t] = "live"]
  /\ UNCHANGED <<procVars, strand, connVars, authVars, worldVars, redeemed, characters>>

\* Its five minutes pass; nobody deletes the row.
ExpireToken(t) ==
  /\ sessionRow[t] = "live"
  /\ sessionRow' = [sessionRow EXCEPT ![t] = "expired"]
  /\ UNCHANGED <<procVars, strand, connVars, authVars, worldVars, redeemed, characters>>

-----------------------------------------------------------------------------
(* Worker threads: completion handlers.                                      *)

\* A read started now: it fails at once on a closed or reset connection.
StartRead(s, socket) ==
  IF socket = "open" /\ peer[s] # "reset" THEN "live" ELSE "dead"

\* The handler of async_accept on a connection that is still there.
AcceptConnection(s) ==
  /\ Up /\ phase[s] = "queued" /\ peer[s] # "reset"
  /\ phase' = [phase EXCEPT ![s] = "alive"]
  /\ reading' = [reading EXCEPT ![s] = StartRead(s, "open")]
  /\ UNCHANGED <<procVars, strand, peer, sock, writes, header, payload,
                 authVars, worldVars, dbVars>>

\* The peer resets between line 556 and start(), which catches the exception
\* of remote_endpoint(); the session has no other owner.
AcceptVanishing(s) ==
  /\ Up /\ phase[s] = "queued" /\ peer[s] # "reset"
  /\ phase' = [phase EXCEPT ![s] = "gone"]
  /\ peer' = [peer EXCEPT ![s] = "reset"]
  /\ UNCHANGED <<procVars, strand, sock, reading, writes, header, payload,
                 authVars, worldVars, dbVars>>

\* The peer reset before line 556: remote_endpoint() throws out of
\* io_context.run() on a worker thread, which ends the process.
AcceptReset(s) ==
  /\ Up /\ phase[s] = "queued" /\ peer[s] = "reset"
  /\ ProcessEnds("aborted")

\* Mutant of ReadDone: the next read starts before the packet is processed.
ReadDoneEager(s, p) ==
  /\ reading[s] = "live"
  /\ header' = [header EXCEPT ![s] = [op |-> p.op, bare |-> p.body = NoBody]]
  /\ payload' = [payload EXCEPT ![s] = IF p.body = NoBody THEN @ ELSE p.body]
  /\ strand' = Append(strand, PacketTask(s))
  /\ UNCHANGED <<procVars, phase, peer, sock, reading, writes, authVars, worldVars, dbVars>>

\* read_header and read_payload delivered packet p: a header-only packet
\* leaves payload_ as the previous packet left it.
ReadDone(s, p) ==
  /\ reading[s] = "live"
  /\ header' = [header EXCEPT ![s] = [op |-> p.op, bare |-> p.body = NoBody]]
  /\ payload' = [payload EXCEPT ![s] = IF p.body = NoBody THEN @ ELSE p.body]
  /\ reading' = [reading EXCEPT ![s] = "no"]
  /\ strand' = Append(strand, PacketTask(s))
  /\ UNCHANGED <<procVars, phase, peer, sock, writes, authVars, worldVars, dbVars>>

\* Mutant of Held: g_sessions holds shared_ptrs.
HeldByRegistry(s, read, out) ==
  read # "no" \/ out # {} \/ Queued(PacketTask(s)) \/ s \in g_sessions

\* Handlers hold the session: an outstanding read or write, or a packet task.
Held(s, read, out) == read # "no" \/ out # {} \/ Queued(PacketTask(s))

\* Mutant of Release: the destructor posts no reaper.
ReleaseSilent(s, read, out, socket) ==
  LET dies == ~Held(s, read, out)
  IN /\ reading' = [reading EXCEPT ![s] = read]
     /\ writes' = [writes EXCEPT ![s] = out]
     /\ sock' = [sock EXCEPT ![s] = IF dies THEN "closed" ELSE socket]
     /\ phase' = [phase EXCEPT ![s] = IF dies THEN "gone" ELSE @]
     /\ payload' = [payload EXCEPT ![s] = IF dies THEN NoBody ELSE @]
     /\ entity_id_' = [entity_id_ EXCEPT ![s] = IF dies THEN NoEntity ELSE @]
     /\ UNCHANGED <<procVars, strand, peer, header, state_, worldVars, dbVars>>

\* A handler of s ends and leaves this read and these writes outstanding.  If
\* nothing holds s any more the destructor runs: it posts the reaper.
Release(s, read, out, socket) ==
  LET dies == ~Held(s, read, out)
  IN /\ reading' = [reading EXCEPT ![s] = read]
     /\ writes' = [writes EXCEPT ![s] = out]
     /\ sock' = [sock EXCEPT ![s] = IF dies THEN "closed" ELSE socket]
     /\ phase' = [phase EXCEPT ![s] = IF dies THEN "gone" ELSE @]
     /\ payload' = [payload EXCEPT ![s] = IF dies THEN NoBody ELSE @]
     /\ entity_id_' = [entity_id_ EXCEPT ![s] = IF dies THEN NoEntity ELSE @]
     /\ strand' = IF dies /\ entity_id_[s] # NoEntity
                  THEN Append(strand, ReapTask(entity_id_[s])) ELSE strand
     /\ UNCHANGED <<procVars, peer, header, state_, worldVars, dbVars>>

\* A read fails: the handler returns without reading again.
ReadFails(s) ==
  /\ reading[s] = "dead" \/ (reading[s] = "live" /\ (peer[s] # "open" \/ sock[s] = "closed"))
  /\ Release(s, "no", writes[s], sock[s])

\* Writes of one kind complete.  The handler of an AUTH_FAIL closes the socket,
\* that of an AUTH_OK does so on an error.
WriteDone(s, kind, error, last) ==
  /\ kind \in writes[s]
  /\ error => peer[s] # "open" \/ sock[s] = "closed"
  /\ last \/ kind = "auth_fail"
  /\ Release(s, reading[s], IF last THEN writes[s] \ {kind} ELSE writes[s],
             IF kind = "auth_fail" \/ (kind = "auth_ok" /\ error) THEN "closed" ELSE sock[s])

\* The timer's handler is bound to the strand.
TimerFires ==
  /\ timer /\ timer' = FALSE
  /\ strand' = Append(strand, TickTask)
  /\ UNCHANGED <<server, boots, tick, connVars, authVars, worldVars, dbVars>>

-----------------------------------------------------------------------------
(* What strand tasks do to sessions other than their own.                    *)

\* Mutant of Registered: sessions that are not reading count as gone.
RegisteredReading == {s \in g_sessions : reading[s] # "no"}

\* Sessions a lock() still finds, of those g_sessions names.
Registered == {s \in g_sessions : phase[s] = "alive"}

\* Writes started, one kind for each session of a set.
Send(kind, to) ==
  writes' = [s \in Sessions |-> IF s \in to THEN writes[s] \cup {kind} ELSE writes[s]]

\* A loop over g_sessions that sends to some sessions and erases the expired.
Broadcast(to) == Send("other", to) /\ g_sessions' = Registered

\* save_character for the entities of a set, in some order: the last one wins.
SavedRows(w, saved) ==
  {rows \in [Accounts -> Positions \cup {NoRow}] :
     \A a \in Accounts :
       LET mine == {e \in saved : w[e].char = a}
       IN IF mine = {} THEN rows[a] = characters[a]
                       ELSE \E e \in mine : rows[a] = w[e].pos}

\* save_character swallows errors: any subset may be saved, if faults occur.
SaveOutcomes(entities) == IF DbFaults THEN SUBSET entities ELSE {entities}

-----------------------------------------------------------------------------
(* Strand tasks: process_packet and the read_header that follows it.         *)

\* The packet s holds is at the head of the strand.
Processing(s, op) == NextTask(PacketTask(s)) /\ header[s].op = op
Authenticated(s) == state_[s] = "AUTHENTICATED"

\* After process_packet: read_header takes header_ over again.
ReadNext(s, socket) ==
  /\ strand' = Tail(strand)
  /\ sock' = [sock EXCEPT ![s] = socket]
  /\ reading' = [reading EXCEPT ![s] = StartRead(s, socket)]
  /\ header' = [header EXCEPT ![s] = NoHeader]
  /\ UNCHANGED <<procVars, phase, peer, payload>>

\* Before authentication anything but CMSG_GAME_AUTH closes the socket, and so
\* does a CMSG_GAME_AUTH whose payload is smaller than a token.
TooSmallForAuth(body) == body \in {NoBody, Short} \cup Inputs
RefusePacket(s) ==
  /\ \E op \in Opcodes :
       Processing(s, op) /\ (op = "auth" => TooSmallForAuth(payload[s]))
  /\ ~Authenticated(s)
  /\ ReadNext(s, "closed")
  /\ UNCHANGED <<writes, authVars, worldVars, dbVars>>

HandlingAuth(s) ==
  Processing(s, "auth") /\ ~Authenticated(s) /\ ~TooSmallForAuth(payload[s])

\* Mutant of TokenValid: expires_at is not compared.
TokenKnown(t) == t \in Tokens /\ sessionRow[t] \in {"live", "expired"}

\* SELECT ... WHERE token = $1 AND expires_at > now()
TokenValid(t) == t \in Tokens /\ sessionRow[t] = "live"

\* No such row: the transaction is dropped.
RejectAuth(s) ==
  /\ HandlingAuth(s) /\ ~TokenValid(payload[s])
  /\ Send("auth_fail", {s})
  /\ ReadNext(s, sock[s])
  /\ UNCHANGED <<authVars, worldVars, dbVars>>

\* Mutant of ConsumeToken: the token is not deleted.
ReadToken(t) ==
  /\ characters' = [characters EXCEPT ![Owner[t]] = IF @ = NoRow THEN Spawn ELSE @]
  /\ UNCHANGED sessionRow

\* DELETE the token; the character's row, inserted at Spawn if there is none.
ConsumeToken(t) ==
  /\ sessionRow' = [sessionRow EXCEPT ![t] = "deleted"]
  /\ characters' = [characters EXCEPT ![Owner[t]] = IF @ = NoRow THEN Spawn ELSE @]

\* The transaction throws: it is rolled back, or the commit is in doubt and
\* took place; the handler cannot tell and answers AUTH_FAIL.
FailAuth(s) ==
  /\ DbFaults /\ HandlingAuth(s)
  /\ Send("auth_fail", {s})
  /\ ReadNext(s, sock[s])
  /\ \/ UNCHANGED <<sessionRow, characters>>
     \/ TokenValid(payload[s]) /\ ConsumeToken(payload[s])
  /\ UNCHANGED <<authVars, worldVars, redeemed>>

\* handle_auth to its end.
AcceptAuth(s) ==
  LET t == payload[s]
  IN /\ HandlingAuth(s) /\ TokenValid(t)
     /\ ConsumeToken(t)
     /\ redeemed' = [redeemed EXCEPT ![t] = @ + 1]
     /\ state_' = [state_ EXCEPT ![s] = "AUTHENTICATED"]
     /\ entity_id_' = [entity_id_ EXCEPT ![s] = nextEntity]
     /\ world' = [e \in DOMAIN world \cup {nextEntity} |->
                    IF e = nextEntity
                    THEN [char |-> Owner[t], pos |-> characters'[Owner[t]],
                          input |-> Idle, age |-> 0]
                    ELSE world[e]]
     /\ nextEntity' = nextEntity + 1
     /\ g_sessions' = g_sessions \cup {s}
     /\ Send("auth_ok", {s})
     /\ ReadNext(s, sock[s])

Ping(s) ==
  /\ Processing(s, "ping") /\ Authenticated(s)
  /\ Send("other", {s})
  /\ ReadNext(s, sock[s])
  /\ UNCHANGED <<authVars, worldVars, dbVars>>

\* has_entity_ && world.valid(entity_id_)
HasEntity(s) == entity_id_[s] # NoEntity /\ entity_id_[s] \in DOMAIN world

\* The inputs a payload is read as: one that was not sent as a MsgPlayerMove
\* but is as long gives whatever its first bytes happen to be.
AsInput(body) == IF body \in Inputs THEN {body}
                 ELSE IF body \in Tokens \cup Chats THEN Inputs ELSE {}

Move(s) ==
  /\ Processing(s, "move") /\ Authenticated(s) /\ HasEntity(s)
  /\ \E i \in AsInput(payload[s]) :
       world' = [world EXCEPT ![entity_id_[s]].input = i]
  /\ ReadNext(s, sock[s])
  /\ UNCHANGED <<writes, authVars, nextEntity, g_sessions, dbVars>>

\* The sessions broadcast_chat sends chat c of entity e to.
Recipients(c, e) ==
  {s \in Registered :
     /\ HasEntity(s)
     /\ \/ c.channel = "Whisper" /\ world[entity_id_[s]].char = c.target
        \/ /\ c.channel \in {"Say", "Yell"}
           /\ <<world[e].pos, world[entity_id_[s]].pos>> \in Hears[c.channel]}

Chat(s) ==
  /\ Processing(s, "chat") /\ Authenticated(s) /\ HasEntity(s)
  /\ payload[s] \in Chats
  /\ IF payload[s].channel = "Guild"
     THEN UNCHANGED <<writes, g_sessions>>
     ELSE Broadcast(Recipients(payload[s], entity_id_[s]))
  /\ ReadNext(s, sock[s])
  /\ UNCHANGED <<authVars, world, nextEntity, dbVars>>

\* Unknown opcodes, a second CMSG_GAME_AUTH, and malformed moves and chats.
IgnorePacket(s) ==
  /\ \/ Processing(s, "other") \/ Processing(s, "auth")
     \/ Processing(s, "move") /\ (AsInput(payload[s]) = {} \/ ~HasEntity(s))
     \/ Processing(s, "chat") /\ (payload[s] \notin Chats \/ ~HasEntity(s))
  /\ Authenticated(s)
  /\ ReadNext(s, sock[s])
  /\ UNCHANGED <<writes, authVars, worldVars, dbVars>>

ProcessPacket(s) ==
  \/ RefusePacket(s) \/ RejectAuth(s) \/ FailAuth(s) \/ AcceptAuth(s)
  \/ Ping(s) \/ Move(s) \/ Chat(s) \/ IgnorePacket(s)

-----------------------------------------------------------------------------
(* Strand tasks: the reaper and the tick.                                    *)

\* Mutant of Reap: the entity is destroyed before it is saved.
ReapUnsaved(e) ==
  /\ NextTask(ReapTask(e))
  /\ strand' = Tail(strand)
  /\ world' = [f \in DOMAIN world \ {e} |-> world[f]]
  /\ Broadcast(Registered)
  /\ UNCHANGED <<procVars, phase, peer, sock, reading, header, payload, authVars,
                 nextEntity, dbVars>>

\* The lambda ~PlayerSession posted: save, destroy, tell everybody.
Reap(e) ==
  /\ NextTask(ReapTask(e))
  /\ strand' = Tail(strand)
  /\ IF e \in DOMAIN world
     THEN /\ \E saved \in SaveOutcomes({e}) : characters' \in SavedRows(world, saved)
          /\ world' = [f \in DOMAIN world \ {e} |-> world[f]]
          /\ Broadcast(Registered)
     ELSE UNCHANGED <<characters, world, writes, g_sessions>>
  /\ UNCHANGED <<procVars, phase, peer, sock, reading, header, payload, authVars,
                 nextEntity, sessionRow, redeemed>>

\* Mutant of ShouldAutosave: one tick late.
AutosaveLate == tick > AutosaveTicks

\* current_tick != 0 and a multiple of AUTOSAVE_INTERVAL_TICKS
ShouldAutosave == tick = AutosaveTicks

\* simulate_movement
Simulated == [e \in DOMAIN world |->
                [world[e] EXCEPT !.pos = Moved[<<@, world[e].input>>]]]

\* update_game_world.  age counts the ticks since an entity was last saved (or
\* entered), up to AutosaveTicks + 1.  No entity: no loop over g_sessions.
UpdateGameWorld ==
  /\ \E saved \in IF ShouldAutosave THEN SaveOutcomes(DOMAIN world) ELSE {{}} :
       /\ characters' \in SavedRows(Simulated, saved)
       /\ world' = [e \in DOMAIN world |->
                      [Simulated[e] EXCEPT
                         !.age = IF e \in saved THEN 0
                                 ELSE IF @ > AutosaveTicks THEN @ ELSE @ + 1]]
  /\ IF DOMAIN world = {} THEN UNCHANGED <<writes, g_sessions>>
                          ELSE Broadcast(Registered)
  /\ UNCHANGED <<phase, peer, sock, reading, header, payload, authVars,
                 nextEntity, sessionRow, redeemed>>

\* Mutant of GameLoopTick: the timer is not re-armed while nobody plays.
GameLoopTickIdle ==
  /\ UpdateGameWorld
  /\ tick' = IF ShouldAutosave THEN 1 ELSE tick + 1
  /\ timer' = (DOMAIN world # {})
  /\ UNCHANGED boots

\* game_loop_tick
GameLoopTick ==
  /\ UpdateGameWorld
  /\ tick' = IF ShouldAutosave THEN 1 ELSE tick + 1
  /\ timer' = TRUE
  /\ UNCHANGED boots

Tick ==
  /\ NextTask(TickTask)
  /\ strand' = Tail(strand)
  /\ GameLoopTick
  /\ UNCHANGED server

\* main() calls game_loop_tick itself, whatever the strand is doing.
FirstTick ==
  /\ server = "starting" /\ server' = "running"
  /\ GameLoopTick
  /\ UNCHANGED strand

-----------------------------------------------------------------------------
WriteKinds == {"auth_ok", "auth_fail", "other"}

RunTask == (\E s \in Sessions : ProcessPacket(s))
           \/ (\E e \in 1..nextEntity : Reap(e)) \/ Tick

SessionStep(s) ==
  \/ Connect(s) \/ (\E how \in Departures : PeerLeaves(s, how))
  \/ AcceptConnection(s) \/ AcceptVanishing(s) \/ AcceptReset(s)
  \/ ReadFails(s) \/ (\E p \in Packets[s] : ReadDone(s, p))
  \/ \E kind \in WriteKinds, error, last \in BOOLEAN : WriteDone(s, kind, error, last)

Next ==
  \/ Boot \/ Stop \/ FirstTick \/ TimerFires \/ RunTask
  \/ \E s \in Sessions : SessionStep(s)
  \/ \E t \in Tokens : IssueToken(t) \/ ExpireToken(t)

Spec == Init /\ [][Next]_vars

\* The io_context runs every ready handler and the timer expires; reads and
\* writes on a connection whose peer is gone, or that was closed, complete with
\* an error once what had arrived is read.
Fairness ==
  /\ WF_vars(FirstTick) /\ WF_vars(TimerFires) /\ WF_vars(RunTask)
  /\ \A s \in Sessions :
       /\ SF_vars(ReadFails(s))
       /\ \A kind \in WriteKinds :
            SF_vars(/\ peer[s] # "open" \/ sock[s] = "closed"
                    /\ \E error \in BOOLEAN : WriteDone(s, kind, error, TRUE))

FairSpec == Spec /\ Fairness

-----------------------------------------------------------------------------
(* Properties.                                                               *)

TypeOK ==
  /\ server \in {"down", "starting", "running", "aborted"}
  /\ boots \in Nat /\ tick \in 0..AutosaveTicks /\ timer \in BOOLEAN
  /\ strand \in Seq(Tasks)
  /\ phase \in [Sessions -> {"unborn", "queued", "alive", "gone"}]
  /\ peer \in [Sessions -> {"open", "fin", "reset"}]
  /\ sock \in [Sessions -> {"open", "closed"}]
  /\ reading \in [Sessions -> {"no", "live", "dead"}]
  /\ writes \in [Sessions -> SUBSET WriteKinds]
  /\ header \in [Sessions -> [op : Opcodes, bare : BOOLEAN] \cup {NoHeader}]
  /\ payload \in [Sessions -> Bodies]
  /\ state_ \in [Sessions -> {"WAITING_FOR_AUTH", "AUTHENTICATED"}]
  /\ entity_id_ \in [Sessions -> Nat]
  /\ DOMAIN world \subseteq EntityIds
  /\ world \in [DOMAIN world -> Entity]
  /\ nextEntity \in EntityIds
  /\ g_sessions \subseteq Sessions
  /\ sessionRow \in [Tokens -> {"unissued", "live", "expired", "deleted"}]
  /\ redeemed \in [Tokens -> Nat]
  /\ characters \in [Accounts -> Positions \cup {NoRow}]

\* ~PlayerSession and its reaper: an entity belongs to exactly one session, or
\* to exactly one reaper on its way; a session's entity is always valid.
EntityOwned ==
  /\ \A e \in DOMAIN world :
       (\E s \in Sessions : entity_id_[s] = e) # Queued(ReapTask(e))
  /\ \A s \in Sessions : entity_id_[s] # NoEntity => HasEntity(s)
  /\ \A s, r \in Sessions :
       entity_id_[s] # NoEntity /\ entity_id_[s] = entity_id_[r] => s = r
  /\ \A i, j \in 1..Len(strand) :
       strand[i].kind = "reap" /\ strand[i] = strand[j] => i = j

\* The weak_ptrs of g_sessions and the prune loops: a player in the world is
\* never dropped from the broadcasts, and who is registered and alive plays.
RegistryCoversWorld ==
  \A s \in Sessions :
    /\ entity_id_[s] # NoEntity => s \in Registered
    /\ s \in Registered => entity_id_[s] # NoEntity /\ Authenticated(s)

\* Comment at 273: the next read starts only once the buffer is processed.
\* While a packet waits for the strand, header_ and payload_ stay as read.
BufferStable ==
  [][\A s \in Sessions :
       Queued(PacketTask(s)) /\ Queued(PacketTask(s))' =>
         header'[s] = header[s] /\ payload'[s] = payload[s]]_vars

\* game_loop_tick re-arms its timer: one tick is pending, never two or none.
OneTickPending ==
  /\ server = "running" => (timer # Queued(TickTask))
  /\ \A i, j \in 1..Len(strand) : strand[i] = TickTask /\ strand[j] = TickTask => i = j

\* README.md:9, single-use tokens, whatever the transaction does: a token that
\* was handed out admits one player at most, one that was not admits nobody.
TokenAdmitsOnce ==
  \A t \in Tokens : /\ redeemed[t] <= 1
                    /\ sessionRow[t] # "deleted" => redeemed[t] = 0

\* handle_auth with the login server implements the promise of the tokens.
TokenPromise == INSTANCE SessionTokens WITH
  status <- [t \in Tokens |-> CASE sessionRow[t] = "unissued" -> "unissued"
                                [] sessionRow[t] = "live" -> "valid"
                                [] OTHER -> "spent"],
  entries <- redeemed
KeepsTokenPromise == TokenPromise!Spec

\* README.md:13, the position is saved periodically: without database faults no
\* entity goes more than AutosaveTicks ticks unsaved, whenever it entered.
AutosaveBound ==
  ~DbFaults => \A e \in DOMAIN world : world[e].age <= AutosaveTicks

\* README.md:13, and on disconnect: without database faults an entity leaves a
\* running world only with its last position in its character's row.
DepartureSaved ==
  [][~DbFaults =>
       \A e \in DOMAIN world \ DOMAIN world' :
         Up' => characters'[world[e].char] = world[e].pos]_vars

\* The player of a connection that is gone leaves the world: its read fails, its
\* writes drain, the destructor posts the reaper and the strand runs it.
GoneLeadsToLeave ==
  \A s \in Sessions : \A e \in 1..Cardinality(Tokens) :
    (entity_id_[s] = e /\ peer[s] # "open") ~> e \notin DOMAIN world

\* A session whose socket the server closed is destroyed.
ClosedSessionEnds ==
  \A s \in Sessions : (sock[s] = "closed") ~> (phase[s] = "gone")

-----------------------------------------------------------------------------
(* What the repository says and the code does not do.                        *)

\* README.md:13, "position is saved to Postgres on disconnect": a player who
\* disconnected and logs in again enters where the disconnected entity stands.
ReturnsWhereLeft ==
  [][\A e \in DOMAIN world' \ DOMAIN world : \A s \in Sessions :
       (/\ HasEntity(s) /\ peer[s] # "open"
        /\ world[entity_id_[s]].char = world'[e].char)
         => world'[e].pos = world[entity_id_[s]].pos]_vars

\* Comments at 297 and 303: the payload of a CMSG_PLAYER_MOVE is checked to match
\* MsgPlayerMove and mapped.  An input is recorded from a packet that has one.
MoveHasPayload ==
  [][\A s \in Sessions :
       (/\ HasEntity(s) /\ entity_id_[s] \in DOMAIN world'
        /\ world'[entity_id_[s]].input # world[entity_id_[s]].input)
         => ~header[s].bare]_vars

\* start(), 136-141: a peer that is gone by the time its address is read costs
\* its own session ("Error starting session"), not the server.
SurvivesReset == server # "aborted"
=============================================================================
