---------------------------- MODULE ClientNetwork ----------------------------
(* The client's NetworkManager and the part of the logic thread that drives  *)
(* it (client/src/NetworkManager.cpp, client/src/main.cpp): one socket that  *)
(* first reaches the login server and then, on its redirect, the game server.*)
(*                                                                           *)
(* Threads.  The network thread alone runs the io_context: it completes      *)
(* outstanding operations and runs the tasks of strand_ in posting order,    *)
(* one action each.  The logic thread drains the inbound queue, then reports *)
(* the player's movement.  A completion is decided when the kernel reports   *)
(* it and handled when its task comes up; the socket may change in between.  *)
EXTENDS Naturals, Sequences

CONSTANTS
  NoServer, NoPacket,
  MaxStates,   \* bound: SMSG_PLAYER_STATEs the game server sends
  MaxMoves,    \* bound: CMSG_PLAYER_MOVEs the client sends
  MaxFaults,   \* bound: refused connections, resets and resolver failures
  CanQuit      \* may the player close the window?

ASSUME ClientAssumption ==
  /\ {MaxStates, MaxMoves, MaxFaults} \subseteq Nat /\ CanQuit \in BOOLEAN
  /\ NoServer \notin {"login", "game"}

Servers == {"login", "game"}

\* A packet: its opcode and its number in what the server sent.
Packet == [op : {"redirect", "ok", "fail", "state"}, n : Nat \ {0}]
HasBody(p) == p.op # "fail"
Pieces == [part : {"header", "payload"}, of : Packet]
\* A packet as the bytes on the wire: a header and, if its size says so, a payload.
Framed(p) == IF HasBody(p)
             THEN <<[part |-> "header", of |-> p], [part |-> "payload", of |-> p]>>
             ELSE <<[part |-> "header", of |-> p]>>

VARIABLES
  \* the connection to each server
  link,      \* the client's socket: "unused", "connecting", "open", "failed", "closed"
  serving,   \* "no", "yes", or "ended" (closed or reset by the server)
  sent,      \* history: the packets the server sent
  wire,      \* the pieces the client has not read yet
  heard,     \* history: the client's packets that reached the server
  \* NetworkManager
  socket_,   \* the server its socket belongs to, or NoServer
  awaiting,  \* per connection: async operation outstanding, of "no", "connect",
             \* "header", "payload"
  strand_,   \* posted tasks, oldest first
  incoming_header_, incoming_payload_,
  inbound_queue_,
  process,   \* "running", "quitting" (~NetworkManager posted its disconnect), "stopped"
  \* the logic thread
  logic,     \* "drain", "redirect" (disconnected, about to connect), "act", "exited"
  inWorld,
  \* histories
  received,  \* per connection, what was pushed to the inbound queue
  faults,
  nullRead   \* was readPayload called without a socket?

linkVars == <<link, serving, sent, wire, heard, faults>>
bufferVars == <<incoming_header_, incoming_payload_>>
logicVars == <<logic, inWorld>>
vars == <<linkVars, socket_, awaiting, strand_, bufferVars, inbound_queue_, process,
          logicVars, received, nullRead>>

Task(kind, about) == [kind |-> kind, about |-> about]
\* A completion handler: the connection, and "ok", "error" or "aborted".
Done(kind, c, ec) == [kind |-> kind, about |-> c, ec |-> ec]
Tasks ==
  [kind : {"disconnect"}, about : {NoServer}] \cup [kind : {"connect"}, about : Servers]
    \cup [kind : {"send"}, about : {"credentials", "token", "move"}]
    \cup [kind : {"connected", "header", "payload"}, about : Servers,
          ec : {"ok", "error", "aborted"}]

IsOpen(c) == c # NoServer /\ link[c] \in {"connecting", "open", "failed"}

Init ==
  /\ link = [c \in Servers |-> "unused"]
  /\ serving = [c \in Servers |-> "no"]
  /\ sent = [c \in Servers |-> <<>>] /\ wire = [c \in Servers |-> <<>>]
  /\ heard = [c \in Servers |-> <<>>] /\ faults = 0
  /\ socket_ = NoServer
  /\ awaiting = [c \in Servers |-> "no"]
  \* main() asks for the login connection before the logic thread starts.
  /\ strand_ = <<Task("connect", "login")>>
  /\ incoming_header_ = NoPacket /\ incoming_payload_ = NoPacket
  /\ inbound_queue_ = <<>> /\ process = "running"
  /\ logic = "drain" /\ inWorld = FALSE
  /\ received = [c \in Servers |-> <<>>] /\ nullRead = FALSE

-----------------------------------------------------------------------------
(* The network thread: the tasks of the strand.                              *)

Running == process # "stopped"
NextTask(kind) == Running /\ strand_ # <<>> /\ Head(strand_).kind = kind
\* The task is done; the ones its handler posted go to the end.
Finish(posted) == strand_' = Tail(strand_) \o posted

\* socket_ leaves c: its operations will complete as aborted.
Closed(c) == IF IsOpen(c) THEN [link EXCEPT ![c] = "closed"] ELSE link

\* The task connect() posts: resolve, emplace a new socket, async_connect.
Connect ==
  /\ NextTask("connect")
  /\ LET c == Head(strand_).about IN
       \/ /\ socket_' = c
          /\ link' = [Closed(socket_) EXCEPT ![c] = "connecting"]
          /\ awaiting' = [awaiting EXCEPT ![c] = "connect"]
          /\ UNCHANGED faults
       \/ /\ faults < MaxFaults /\ faults' = faults + 1
          /\ UNCHANGED <<socket_, link, awaiting>>
  /\ Finish(<<>>)
  /\ UNCHANGED <<serving, sent, wire, heard, bufferVars, inbound_queue_, process,
                 logicVars, received, nullRead>>

\* The task disconnect() posts: it closes whatever socket is there by then.
Disconnect ==
  /\ NextTask("disconnect")
  /\ link' = Closed(socket_)
  /\ socket_' = IF IsOpen(socket_) THEN NoServer ELSE socket_
  /\ Finish(<<>>)
  /\ UNCHANGED <<serving, sent, wire, heard, faults, awaiting, bufferVars,
                 inbound_queue_, process, logicVars, received, nullRead>>

\* The task sendPacket() posts.  A write on a socket that is not connected fails.
SendPacket ==
  /\ NextTask("send")
  /\ heard' = IF IsOpen(socket_) /\ link[socket_] = "open" /\ serving[socket_] = "yes"
              THEN [heard EXCEPT ![socket_] = Append(@, Head(strand_).about)]
              ELSE heard
  /\ Finish(<<>>)
  /\ UNCHANGED <<link, serving, sent, wire, faults, socket_, awaiting, bufferVars,
                 inbound_queue_, process, logicVars, received, nullRead>>

\* startRead(): read a header from whatever socket is there.
StartRead ==
  awaiting' = IF IsOpen(socket_) THEN [awaiting EXCEPT ![socket_] = "header"] ELSE awaiting

\* async_connect's handler: start reading and have onConnected send what this
\* connection opens with.
Opening(c) == IF c = "login" THEN "credentials" ELSE "token"
Connected ==
  /\ NextTask("connected")
  /\ IF Head(strand_).ec = "ok"
     THEN StartRead /\ Finish(<<Task("send", Opening(Head(strand_).about))>>)
     ELSE UNCHANGED awaiting /\ Finish(<<>>)
  /\ UNCHANGED <<linkVars, socket_, bufferVars, inbound_queue_, process, logicVars,
                 received, nullRead>>

\* Push a packet for the logic thread.
Push(c, pkg) ==
  /\ inbound_queue_' = Append(inbound_queue_, pkg)
  /\ received' = [received EXCEPT ![c] = Append(@, pkg)]

HeaderOk == NextTask("header") /\ Head(strand_).ec = "ok"

\* Mutants of BarePacket: with what the payload buffer holds; without header.
BarePacketStale == [header |-> incoming_header_, payload |-> incoming_payload_]
BarePacketUnset == [header |-> NoPacket, payload |-> NoPacket]
BarePacket == [header |-> incoming_header_, payload |-> NoPacket]

\* A header without payload is the whole packet.
ReadBare ==
  /\ HeaderOk /\ ~HasBody(incoming_header_)
  /\ Push(Head(strand_).about, BarePacket)
  /\ StartRead /\ Finish(<<>>)
  /\ UNCHANGED <<linkVars, socket_, bufferVars, process, logicVars, nullRead>>

\* readPayload(): it resizes the buffer and reads from *socket_, unchecked.  On
\* a socket that was reset the read is undefined; it fails in the build.
ReadPayload ==
  /\ HeaderOk /\ HasBody(incoming_header_)
  /\ incoming_payload_' = NoPacket
  /\ IF socket_ # NoServer
     THEN /\ awaiting' = [awaiting EXCEPT ![socket_] = "payload"]
          /\ Finish(<<>>) /\ UNCHANGED nullRead
     ELSE /\ nullRead' = TRUE
          /\ Finish(<<Done("payload", Head(strand_).about, "error")>>)
          /\ UNCHANGED awaiting
  /\ UNCHANGED <<linkVars, socket_, incoming_header_, inbound_queue_, process,
                 logicVars, received>>

\* What a failed read of a header posts: nothing if this client aborted it.
\* Mutant: the end of the stream taken for an orderly end.
OnHeaderErrorNever(ec) == <<>>
OnHeaderError(ec) == IF ec = "aborted" THEN <<>> ELSE <<Task("disconnect", NoServer)>>

HeaderFailed ==
  /\ NextTask("header") /\ Head(strand_).ec # "ok"
  /\ Finish(OnHeaderError(Head(strand_).ec))
  /\ UNCHANGED <<linkVars, socket_, awaiting, bufferVars, inbound_queue_, process,
                 logicVars, received, nullRead>>

\* "Wait for next packet".  Mutant: the last packet was it.
WaitForNoPacket == UNCHANGED awaiting
WaitForNextPacket == StartRead

PayloadRead ==
  /\ NextTask("payload") /\ Head(strand_).ec = "ok"
  /\ Push(Head(strand_).about,
          [header |-> incoming_header_, payload |-> incoming_payload_])
  /\ WaitForNextPacket /\ Finish(<<>>)
  /\ UNCHANGED <<linkVars, socket_, bufferVars, process, logicVars, nullRead>>

\* Unlike the header's, this handler disconnects on an aborted read as well.
PayloadFailed ==
  /\ NextTask("payload") /\ Head(strand_).ec # "ok"
  /\ Finish(<<Task("disconnect", NoServer)>>)
  /\ UNCHANGED <<linkVars, socket_, awaiting, bufferVars, inbound_queue_, process,
                 logicVars, received, nullRead>>

-----------------------------------------------------------------------------
(* The network thread: operations complete and post their handlers.          *)

\* What is outstanding once an operation completed.  Mutant: the next header is
\* read at once.
RearmedEager(kind, ec) == IF kind # "connected" /\ ec = "ok" THEN "header" ELSE "no"
Rearmed(kind, ec) == "no"

\* The handler of c's outstanding operation joins the strand.
Complete(c, kind, ec) ==
  /\ strand_' = Append(strand_, Done(kind, c, ec))
  /\ awaiting' = [awaiting EXCEPT ![c] = Rearmed(kind, ec)]

ConnectCompletes(c) ==
  /\ Running /\ awaiting[c] = "connect"
  /\ \/ /\ link[c] = "connecting"
        /\ link' = [link EXCEPT ![c] = "open"]
        /\ serving' = [serving EXCEPT ![c] = "yes"]
        /\ Complete(c, "connected", "ok") /\ UNCHANGED faults
     \/ /\ link[c] = "connecting" /\ faults < MaxFaults
        /\ link' = [link EXCEPT ![c] = "failed"]
        /\ faults' = faults + 1
        /\ Complete(c, "connected", "error") /\ UNCHANGED serving
     \/ /\ link[c] = "closed"
        /\ Complete(c, "connected", "aborted") /\ UNCHANGED <<link, serving, faults>>
  /\ UNCHANGED <<sent, wire, heard, socket_, bufferVars, inbound_queue_, process,
                 logicVars, received, nullRead>>

\* The kernel copies the next bytes into the buffer of the read.
ReadCompletes(c) ==
  /\ Running /\ awaiting[c] \in {"header", "payload"}
  /\ link[c] = "open" /\ wire[c] # <<>>
  /\ IF awaiting[c] = "header"
     THEN incoming_header_' = Head(wire[c]).of /\ UNCHANGED incoming_payload_
     ELSE incoming_payload_' = Head(wire[c]).of /\ UNCHANGED incoming_header_
  /\ wire' = [wire EXCEPT ![c] = Tail(@)]
  /\ Complete(c, awaiting[c], "ok")
  /\ UNCHANGED <<link, serving, sent, heard, faults, socket_, inbound_queue_, process,
                 logicVars, received, nullRead>>

\* Closed by this client, ended by the server, or not connected at all.
ReadFails(c) ==
  /\ Running /\ awaiting[c] \in {"header", "payload"}
  /\ \/ link[c] = "closed" /\ Complete(c, awaiting[c], "aborted")
     \/ link[c] \in {"connecting", "failed"} /\ Complete(c, awaiting[c], "error")
     \/ /\ link[c] = "open" /\ serving[c] = "ended" /\ wire[c] = <<>>
        /\ Complete(c, awaiting[c], "error")
  /\ UNCHANGED <<linkVars, socket_, bufferVars, inbound_queue_, process, logicVars,
                 received, nullRead>>

-----------------------------------------------------------------------------
(* The logic thread and the end of the process.                              *)

Post(posted) == strand_' = strand_ \o posted

\* The packet that lets the player in.  Mutant: the redirect already does.
EntersWorldEarly(op) == op \in {"redirect", "ok"}
EntersWorld(op) == op = "ok"

\* try_pop() and what the opcode asks for.  Redirect: disconnect() ...
Pop ==
  /\ logic = "drain" /\ inbound_queue_ # <<>>
  /\ inbound_queue_' = Tail(inbound_queue_)
  /\ LET op == Head(inbound_queue_).header.op IN
       /\ inWorld' = (inWorld \/ EntersWorld(op))
       /\ IF op = "redirect"
          THEN logic' = "redirect" /\ Post(<<Task("disconnect", NoServer)>>)
          ELSE UNCHANGED <<logic, strand_>>
  /\ UNCHANGED <<linkVars, socket_, awaiting, bufferVars, process, received, nullRead>>

\* ... then connect(): two posts, between which the network thread may run.
Redirect ==
  /\ logic = "redirect" /\ logic' = "drain"
  /\ Post(<<Task("connect", "game")>>)
  /\ UNCHANGED <<linkVars, socket_, awaiting, bufferVars, inbound_queue_, process,
                 inWorld, received, nullRead>>

Drained ==
  /\ logic = "drain" /\ inbound_queue_ = <<>> /\ logic' = "act"
  /\ UNCHANGED <<linkVars, socket_, awaiting, strand_, bufferVars, inbound_queue_,
                 process, inWorld, received, nullRead>>

\* The rest of the tick: in the world, report the movement intent (bounded to
\* one such task in the strand and MaxMoves arrived).
Posted(task) == \E i \in 1..Len(strand_) : strand_[i] = task
Moves == Len(SelectSeq(heard["game"], LAMBDA p : p = "move"))
Act ==
  /\ logic = "act" /\ logic' = "drain"
  /\ IF inWorld /\ Moves < MaxMoves /\ ~Posted(Task("send", "move"))
     THEN Post(<<Task("send", "move")>>) ELSE UNCHANGED strand_
  /\ UNCHANGED <<linkVars, socket_, awaiting, bufferVars, inbound_queue_, process,
                 inWorld, received, nullRead>>

\* The window closes: g_Running is false and the logic thread leaves its loop.
Exit ==
  /\ CanQuit /\ logic = "act" /\ logic' = "exited"
  /\ UNCHANGED <<linkVars, socket_, awaiting, strand_, bufferVars, inbound_queue_,
                 process, inWorld, received, nullRead>>

\* ~NetworkManager posts a last disconnect() ...
Destroy ==
  /\ logic = "exited" /\ process = "running" /\ process' = "quitting"
  /\ Post(<<Task("disconnect", NoServer)>>)
  /\ UNCHANGED <<linkVars, socket_, awaiting, bufferVars, inbound_queue_, logicVars,
                 received, nullRead>>

\* ... and stops the io_context, whether or not it got to run.
Stop ==
  /\ process = "quitting" /\ process' = "stopped"
  /\ link' = Closed(socket_) /\ socket_' = NoServer /\ strand_' = <<>>
  /\ UNCHANGED <<serving, sent, wire, heard, faults, awaiting, bufferVars,
                 inbound_queue_, logicVars, received, nullRead>>

-----------------------------------------------------------------------------
(* The servers, as far as the client can tell.                               *)

Says(c, op) ==
  LET p == [op |-> op, n |-> Len(sent[c]) + 1] IN
  /\ sent' = [sent EXCEPT ![c] = Append(@, p)]
  /\ wire' = [wire EXCEPT ![c] = IF link[c] = "open" THEN @ \o Framed(p) ELSE @]

Serves(c) == serving[c] = "yes"
serverUnchanged == <<link, heard, faults, socket_, awaiting, strand_, bufferVars,
                     inbound_queue_, process, logicVars, received, nullRead>>

\* The login server redirects who gave the right credentials; the game server
\* answers a token.
Answer(c) ==
  /\ Serves(c) /\ sent[c] = <<>> /\ heard[c] # <<>>
  /\ \/ c = "login" /\ Says(c, "redirect")
     \/ c = "game" /\ Says(c, "ok")
     \/ c = "game" /\ Says(c, "fail")
  /\ UNCHANGED <<serving, serverUnchanged>>

\* The login server closes with its answer written, or instead of it; the game
\* server closes after a refusal.
Close(c) ==
  /\ Serves(c) /\ heard[c] # <<>>
  /\ \/ c = "login"
     \/ c = "game" /\ sent[c] # <<>> /\ Head(sent[c]).op = "fail"
  /\ serving' = [serving EXCEPT ![c] = "ended"]
  /\ UNCHANGED <<sent, wire, serverUnchanged>>

\* The game server's tick sends the player its position.
State ==
  /\ Serves("game") /\ sent["game"] # <<>> /\ Head(sent["game"]).op = "ok"
  /\ Len(sent["game"]) <= MaxStates
  /\ Says("game", "state")
  /\ UNCHANGED <<serving, serverUnchanged>>

\* The connection is reset: what was under way is lost.
Reset(c) ==
  /\ Serves(c) /\ link[c] = "open" /\ faults < MaxFaults
  /\ faults' = faults + 1
  /\ serving' = [serving EXCEPT ![c] = "ended"]
  /\ wire' = [wire EXCEPT ![c] = <<>>]
  /\ UNCHANGED <<link, sent, heard, socket_, awaiting, strand_, bufferVars,
                 inbound_queue_, process, logicVars, received, nullRead>>

-----------------------------------------------------------------------------
RunTask == \/ Connect \/ Disconnect \/ SendPacket \/ Connected
           \/ ReadBare \/ ReadPayload \/ HeaderFailed \/ PayloadRead \/ PayloadFailed
Operations(c) == ConnectCompletes(c) \/ ReadCompletes(c) \/ ReadFails(c)
Logic == Pop \/ Redirect \/ Drained \/ Act
Next ==
  \/ RunTask \/ (\E c \in Servers : Operations(c))
  \/ Logic \/ Exit \/ Destroy \/ Stop
  \/ (\E c \in Servers : Answer(c) \/ Close(c) \/ Reset(c)) \/ State

Spec == Init /\ [][Next]_vars

\* The network thread keeps serving the strand and the sockets, the logic thread
\* keeps ticking, the login server answers the right credentials and closes.
FairSpec ==
  /\ Spec /\ WF_vars(RunTask) /\ WF_vars(Logic)
  /\ \A c \in Servers : WF_vars(Operations(c))

-----------------------------------------------------------------------------
(* Properties.                                                               *)

\* Every variable keeps its type.
TypeOK ==
  /\ link \in [Servers -> {"unused", "connecting", "open", "failed", "closed"}]
  /\ serving \in [Servers -> {"no", "yes", "ended"}]
  /\ sent \in [Servers -> Seq(Packet)] /\ wire \in [Servers -> Seq(Pieces)]
  /\ heard \in [Servers -> Seq({"credentials", "token", "move"})]
  /\ socket_ \in Servers \cup {NoServer}
  /\ awaiting \in [Servers -> {"no", "connect", "header", "payload"}]
  /\ strand_ \in Seq(Tasks)
  /\ incoming_header_ \in Packet \cup {NoPacket}
  /\ incoming_payload_ \in Packet \cup {NoPacket}
  /\ LET Inbound == [header : Packet, payload : Packet \cup {NoPacket}] IN
       /\ inbound_queue_ \in Seq(Inbound)
       /\ received \in [Servers -> Seq(Inbound)]
  /\ process \in {"running", "quitting", "stopped"}
  /\ logic \in {"drain", "redirect", "act", "exited"} /\ inWorld \in BOOLEAN
  /\ faults \in 0..MaxFaults /\ nullRead \in BOOLEAN

\* What the logic thread gets from a connection is a prefix of what that server
\* sent: in order, nothing twice, no header with another packet's payload, and
\* no payload on a header-only packet although the buffer still holds one.
InboundFaithful ==
  \A c \in Servers :
    /\ Len(received[c]) <= Len(sent[c])
    /\ \A i \in 1..Len(received[c]) :
         received[c][i] = [header |-> sent[c][i],
                           payload |-> IF HasBody(sent[c][i]) THEN sent[c][i]
                                       ELSE NoPacket]

\* incoming_header_ and incoming_payload_ serve every connection: while a read
\* that succeeded waits for its handler, no live read can overwrite them, also
\* while the socket moves from the login server to the game server.
OneReader ==
  LET Live == {c \in Servers : awaiting[c] \in {"header", "payload"} /\ link[c] # "closed"}
      Ready == {i \in 1..Len(strand_) :
                  strand_[i].kind \in {"header", "payload"} /\ strand_[i].ec = "ok"}
  IN  \/ Ready = {} /\ \A c, d \in Live : c = d
      \/ Live = {} /\ \A i, j \in Ready : i = j

\* Tasks posted by two threads address "the socket" and not a connection, and
\* still the password goes to the login server only and the game server hears
\* the session token once and before any movement.
OpensWithItsOwn ==
  /\ heard["login"] \in {<<>>, <<"credentials">>}
  /\ \A i \in 1..Len(heard["game"]) : heard["game"][i] = IF i = 1 THEN "token" ELSE "move"

\* readPayload() dereferences socket_ without the check startRead() makes.  A
\* disconnect queued before the header's handler would empty it; that takes the
\* destructor, while the client runs it does not happen.
SocketThereForPayload == nullRead => process # "running"

\* The shared buffers and the shared socket are there for one read at a time.
ReadsSafe == OneReader /\ SocketThereForPayload

\* Whenever a server ended the connection the client is on, its reads notice and
\* the client lets go of the socket.
EndedConnectionDropped ==
  \A c \in Servers :
    (socket_ = c /\ link[c] = "open" /\ serving[c] = "ended") ~> (socket_ # c)

\* Every packet the game server sends over a connection that lasts reaches the
\* logic thread's queue.
PacketsArrive ==
  \A n \in 1..(MaxStates + 1) :
    (Len(sent["game"]) >= n)
      ~> (Len(received["game"]) >= n \/ link["game"] = "closed" \/ process = "stopped")

\* README.md:9: "session-token handoff from the login server to the game
\* server": with no fault of servers or network, a client that was redirected
\* presents its token.
HandoffCompletes == (logic = "redirect") ~> (heard["game"] # <<>>)

=============================================================================
