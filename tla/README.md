# RebelMMO in TLA+

A verification development for RebelMMO: a login server, a game server and a
Vulkan client, written in C++20 over ASIO, EnTT and Postgres. It holds TLA+
modules translated from the code, TLC configurations that check them on small
instances, and TLAPS proofs, for every value of the constants, of all the safety
properties the passing runs check, on the servers and in the client. Paths below
are relative to the repository.

    tlc -workers 2 -config GameServer_pair.cfg MCGameServer
    tlc -workers 2 -config ClientNetwork.cfg ClientNetwork
    tlc -workers 2 -config FrameSync.cfg FrameSync
    tlc -workers 2 -config LoginServer.cfg MCLoginServer
    tlc -workers 2 -config ClientWorld.cfg MCClientWorld
    tlc -workers 2 -config RendererObjects.cfg MCRendererObjects
    tlapm GameServerProofs.tla
    tlapm LoginServerProofs.tla
    tlapm ClientNetworkProofs.tla
    tlapm FrameSyncProofs.tla
    tlapm ClientWorldProofs.tla
    tlapm RendererObjectsProofs.tla

## 1. Inventory

| Component | Code | State | Operations | Model |
|---|---|---|---|---|
| Game server: sessions, strand, world | `server/game/src/main.cpp` | `PlayerSession` (socket, buffers, `state_`, `entity_id_`), `game_strand`, `world`, `g_sessions`, `tick_count` | accept, read, authenticate, process packet, broadcast, chat, tick, autosave, reap, start, stop | `GameServer`, complete |
| Session tokens | both servers' `main.cpp`, table `sessions` | one row per token | issue, expire, consume | `SessionTokens` (abstract), implemented by `GameServer`; the issuing side in `LoginServer` |
| Game server start-up | `main()` lines 564-603 | worker threads beside the main thread | first tick off the strand | atomic action of `GameServer`; finer module planned |
| Login server | `server/login/src/main.cpp` | `LoginSession` (socket, buffers, account, token) | accept, read, verify, issue token, redirect, close, exceptions | `LoginServer`, complete |
| Client network manager | `client/src/NetworkManager.cpp` | optional socket, strand, header and payload buffers, inbound queue | connect, disconnect, send, read loop, destructor | `ClientNetwork`, complete |
| Client logic thread | `client/src/main.cpp` 39-259 | local and remote entities, `inWorld` | drain, redirect, predict, report, publish | `ClientWorld` (the world), `ClientNetwork` (the redirect) |
| Client main | `client/src/main.cpp` 261-381 | threads, `g_Running`, window | start, loop, exceptions, shut down | `RendererObjects` |
| Renderer, frames | `client/src/VulkanRenderer.cpp` | fences, semaphores, command buffers, swapchain, `framebufferResized_` | `drawFrame`, `recreateSwapchain` | `FrameSync`, complete |
| Renderer, resources | same | every Vulkan object, swapchain choice, window state | `init`, `create...`, `cleanupSwapChain`, `cleanup`, `toggleFullscreen` | `RendererObjects`, `SwapchainChoice` |
| Input and camera | same, 1728-1789 | key flags, yaw, pitch, distance | GLFW callbacks | keys and yaw in `ClientWorld`; pitch and zoom left out |
| Movement, protocol | `common/include` | none | `apply_move_flags`, packet structs | `Movement`; packets as data of the other modules |
| Thread utilities | `common/include/ThreadUtility.hpp` | `ThreadSafeQueue` | push, try_pop | an atomic FIFO |

How they interact. The client connects to the login server, which checks the
password, inserts a token into `sessions`, answers with a redirect and closes.
The client's network thread puts the packet in a queue, the logic thread takes
it, posts `disconnect()` and `connect()` to the network thread's strand, and the
game server trades the token for an entity. From then on the logic thread reports
movement 64 times a second, the game server simulates and broadcasts 20 times a
second, and the render thread draws what the logic thread published.

What is hard: the destructor of a session runs on whichever thread drops its last
`shared_ptr` and hands its entity to a task on the strand; reads, writes and
timers complete on worker threads in any order; a transaction may fail or commit
in doubt; peers close or reset at every point; the process stops without saving;
the client posts to "the socket", which changes between posting and running; the
GPU, the presentation engine and the window each proceed on their own.
`PROJECT.json` lists every such hazard with its line and the properties that
would catch it going wrong.

## 2. Modules

### GameServer, MCGameServer, SessionTokens, GameServerProofs

`GameServer` models all of the game server. The variables are the code's: per
connection `phase`/`sock`/`reading`/`writes`/`header`/`payload`, per session
`state_` and `entity_id_`, shared `world`, `g_sessions`, `strand`, the tick
`timer`, and the two tables. Actions are handlers: a worker thread completing a
read (`ReadDone`, `ReadFails`) or a write (`WriteDone`), the accept handler
(`AcceptConnection`, `AcceptVanishing`, `AcceptReset`), the timer, and one action
per task of the strand (`ProcessPacket`, `Reap`, `Tick`). The strand is a sequence
that runs from the head.

* *Destructors.* `Held(s)` is what keeps a `shared_ptr` alive: an outstanding read
  or write, or a queued packet. The handler that drops the last one runs
  `~PlayerSession` (`Release`), which posts the reaper.
* *Strand atomicity.* Tasks of the strand are atomic. Sockets are also touched by
  worker threads; a broadcast that races with a session's death is taken to happen
  before or after it.
* *Writes* are kept as the set of kinds under way (`auth_ok`, `auth_fail`,
  `other`), since only what their handlers do matters.
* *Buffers.* `header` and `payload` are members: a header without payload leaves
  the payload of the packet before.
* *Database.* With `DbFaults` every transaction may fail, and a failing commit may
  have taken effect. A save is one transaction per entity.
* *Time.* `tick` is `tick_count` folded at the autosave interval; an entity's `age`
  counts ticks since it was saved.
* *Movement.* `Moved` stands for `apply_move_flags` over a tick and `Hears` for the
  channels' ranges. Yaw is left out: it is not saved and nothing branches on it.

`SessionTokens` is what tokens promise: issued once, admitting at most one player,
nobody once spent. `GameServer` implements it (`KeepsTokenPromise`): every step is a
step or a stutter of the promise. That a token is new when it is issued is there an
assumption on the environment; `LoginServer` does not make it, and has its own
properties of the tokens it gives out.

`Boot` is `main()` up to the first tick; with `DbFaults` it may return instead,
without a database.

### LoginServer, MCLoginServer, LoginServerProofs

One `LoginSession` per connection, its `phase` the operation outstanding: the
header, the payload, the write of the redirect, and `written` between the kernel
taking the redirect and its handler running. `main()` runs the one io_context, so
a handler with its database calls is an action. `Issue` is the transaction of
`issue_session_token` and the start of the redirect; `FailToIssue` the same with a
failing commit, in doubt included. The generator may give a token it gave before: the
primary key of `sessions` (`Free`) is what refuses it, and the exception takes the
path of every failed transaction. So a token of which the row was consumed may come
again, and `answered`, `maker` and `admitted` are histories that tell whose row
answers to the token a client was told, and whom a row let in. Exceptions that leave a handler leave
`io_context.run()` and end the process: a header size below the header's own
(`ReadHeaderUnder`) and `shutdown()`/`close()` on a connection the client reset
(`RedirectSentToReset`). Clients choose what to send and when to close or reset;
`Redeem` and `ExpireToken` are the game server and the clock (external). Password
hashing is `right`: whether the check succeeds.

### Movement, ClientWorld, MCClientWorld, ClientWorldProofs

`Movement` is `apply_move_flags` on integers for facings that are quarter turns.
`ClientWorld` puts it to use on both sides: the client predicts with its step of
1/64 s, the server simulates with 1/20 s. On the client, the callbacks set and
clear flags (`Press`, `Release`, `Look`); a tick of the logic thread drains the
mailbox one packet at a time (`HandleOk`, `HandleOwnState`, `HandleOtherState`,
`HandleLeave`), takes the camera's yaw (`Sample`), and predicts, publishes and
reports (`Predict`). Flags are read one by one while the main thread may change
them: each is read as it was at some moment since the tick began to look, and
`Readings` is every mixture of those (`seen` remembers which flags were ever, and
which always, set since). The server has the world,
the last input and the broadcasts in the order `GameServer` sends them. Positions
are folded at `Width`, a bound of the model, so that walking does not make the state
infinite.

Abstractions: everybody hears everybody (ranges are `GameServer`'s); the others
walk on their own between a set of places; a connection lasts.

### SwapchainChoice, RendererObjects, MCRendererObjects, RendererObjectsProofs

Every Vulkan object by the member that holds it. `init`, `recreateSwapchain` and
`cleanup` are programs: sequences of calls that create, destroy, use or wait,
translated in the order of the code, with what each object is made from. `live`
is the driver's view (which objects exist, made from which), `handle` the
program's; the properties compare the two. A submission uses the objects of its
image and slot until the GPU finishes. Around that, `main()`: the window, the
logic thread started between renderer and `init`, the loop, an exception in any
create call or in a frame (caught before the thread exists, `std::terminate` with
it joinable), join and clean-up. A window without a size (`minimised`) holds the loop
of `drawFrame()` (phase `resized`) and that of `recreateSwapchain()` (`measure`) in
`glfwWaitEvents()`; neither asks whether the window was closed. `toggleFullscreen` moves the window and keeps
the place to go back to. `SwapchainChoice` is what `createSwapChain` asks for,
given what the surface says; the surface may change between recreations, and the
driver may give more images than asked for.

Pipeline state, shaders, textures' pixels and the memory types chosen are left out.

### ClientNetwork, ClientNetworkProofs

The one socket of the client and everything posted against it. `strand_` holds
posted tasks and completion handlers in order; `awaiting[c]` is the operation
outstanding on connection `c`, whose result is decided when the kernel reports it
(`ConnectCompletes`, `ReadCompletes`, `ReadFails`) and handled when its task comes
up (`Connected`, `ReadBare`, `ReadPayload`, `PayloadRead`, ...). In between the
socket may have been closed or replaced: that gap is what the module is about. The
logic thread drains its queue (`Pop`), makes its two posts on a redirect in two
steps, and acts. On the wire a packet is a header piece and a payload piece, so a
reader out of step would be seen. The servers answer, close and reset as their
code lets them (external).

Abstractions: writes arrive in order and whole; at most one movement is queued
(`Act`); the other packets are alike to this component.

### FrameSync, FrameSyncProofs

`drawFrame()` as a walk of `pc` through its waits and early returns: poll, resize
path with its minimise loop, fence, acquire (success, out of date, failure),
record and submit, present, recreate. The slots' fences and acquire semaphores,
the images' render-finished semaphores, the two queues and the images' owners are
the state; the GPU, the presentation engine and the window are external and take
steps whenever they can. An acquire's semaphore is signalled after the call
returned. `vkDeviceWaitIdle` is taken to cover presents as well as submissions.
The resize path waits for a size and for the device twice in a row; that is
modelled once.

## 3. Runs

Properties are stated with their reason in the modules; each has a mutant of the
code (an operator marked "Mutant" before it) that violates it.

| Run | Checks | What it shows |
|---|---|---|
| `tokens` | `TokenAdmitsOnce`, `BufferStable`, `KeepsTokenPromise` | two connections race with one token; short packets, expiry, failing and in-doubt transactions, a restart |
| `pair` | `EntityOwned`, `RegistryCoversWorld`, `OneTickPending` | two players enter, close and reset in every order with ticks and reapers |
| `walk` | `TypeOK`, `AutosaveBound`, `DepartureSaved`, `GoneLeadsToLeave`, `ClosedSessionEnds` | a player sends every kind of packet, malformed ones too, walks and leaves while the tick count wraps; who is gone leaves the world and who was refused is destroyed |
| `return` | violates `ReturnsWhereLeft` | re-entering before the reaper ran starts from the older row |
| `stale` | violates `MoveHasPayload` | a move without payload is read from the packet before |
| `reset` | violates `SurvivesReset` | a peer that resets before the accept handler ends the process |
| `handover` | `TypeOK`, `InboundFaithful`, `ReadsSafe`, `OpensWithItsOwn`, `EndedConnectionDropped`, `PacketsArrive` | login, redirect, play and quit against servers that answer, close, refuse and reset; the last two are liveness of the read loop |
| `handoff` | violates `HandoffCompletes` | the login connection's end closes the game connection |
| `frames` | `TypeOK`, `ReusedWhenFree`, `FencesReturn`, `DrawFrameReturns`, `ResizeSettles` | two frames in flight over two or three images, resizes, minimising, failing calls; the last two are liveness of the frame loop (`DrawFrameReturns` for a window that is not minimised for good) |
| `login` | `TypeOK`, `TokensEarned`, `OrphansExplained`, `EndsForAReason`, `SessionsEnd`, `Served` | two clients log in with every kind of packet, close and reset at every point, transactions fail or are in doubt, tokens come twice, the server restarts: each client told a token has the row for it, no account has more rows than password checks, a row nobody was told of has a cause, and only the two exceptions named above end the server |
| `world` | `TypeOK`, `RegistryTrue`, `KeysUpMeansStill`, `Reconciles`, `ViewConverges` | the client's world against the server's: two keys of one flag, a turn, another player who comes, walks and goes; the last two are convergence |
| `lifecycle` | `TypeOK`, `LifetimesNest`, `NothingLeaks`, `EveryImageReady`, `AskedIsSupported`, `PlaceGivenBack`, `CloseEnds` | start, two recreations for surfaces of different limits, fullscreen and back, minimised and restored, exceptions everywhere, close; a window closed ends the program unless it stays minimised |

Bounds. Two sessions are the fewest that can race for a token, share an account or
hear each other; one account or two tokens suffice for each question, and runs
that ask about one session have one, with more positions, inputs and packets
instead. `AutosaveTicks` is small because only its wrap matters. `MaxBoots` = 2 in
`tokens` gives a restart. Two positions tell moved from not moved. In
`LoginServer` two clients race for what two accounts may get, two tokens are enough
for one to be taken, free or free again, one transaction fails, and `MaxBoots` = 2 is
a restart. In `ClientWorld` a width of three tells a
step of one from a step back, facings 0 and 2 are opposite, both keys stand for one
flag, and one packet up and two down are enough for a state behind a leave. In
`RendererObjects` two recreations make and replace objects of a changed number of
images, the two surfaces differ in every limit, and two places tell where the
window was put from where it came from. In `ClientNetwork`
there are exactly the two connections the client makes, two faults, two states and
one movement: enough to have a packet in each buffer, queue and wire at once. In
`FrameSync` two slots and two or three images are the code's numbers, the state is
finite without a frame count, and two changes of the window let one arrive
during the recreation for another. Runs disable the deadlock check because the
systems may stop: the server when restarts are used up, the client and the
renderer when they quit.

Fairness. The game server's workers run every ready handler and the strand every
task (weak fairness of `RunTask`, `FirstTick`, `TimerFires`). Reads and writes on a
connection that is closed or whose peer is gone complete (strong fairness: new
writes keep being started in between). A peer that vanishes silently gets no such
fairness: the code has no timeout, and nothing is claimed for it. In the client the
network thread runs tasks and completions and the logic thread ticks; the servers
are under no obligation. The login server's io_context runs every ready handler
(weak fairness of `Handler`). In `ClientWorld` both threads and the strand run and
packets arrive; the mailbox is empty again and again (`[]<>(toClient = <<>>)`),
because the logic thread drains it 64 times a second and the server ticks 20 times,
and `Tick` is strongly fair only because the bound on packets under way, which is
the model's, may disable it in between. In `RendererObjects` both threads run, the GPU finishes what it was given, and
`glfwWaitEvents()` returns once more after the window was restored (the loops test the
size read before the wait, so the event that restores it is not enough). In `FrameSync` the main thread, the GPU and the
engine make progress; input events keep coming, which the minimise loop needs (it tests the
size it read before it waited).

## 4. Findings

Four runs show the code doing other than what its documents or comments say; each
is listed in `PROJECT.json` with the quoted line. The one with the widest effect is
`handoff`: the login server closes right after the redirect, and when the client
handles that end of stream just before the logic thread's `disconnect()` and
`connect()`, the `disconnect()` it posts itself runs behind them and closes the
new connection; the token is never presented and nothing retries.

Seen and not run:
* An account with two tokens enters the world twice, and a whisper to its name
  reaches both ("Whisper goes to exactly one named recipient",
  `server/game/src/main.cpp:503`, against the loop at 512).
* `main()` runs the first tick itself at `server/game/src/main.cpp:603`, though
  `world` and `g_sessions` are "Only touched from code posted to game_strand" (:28).
* The comment at `VulkanRenderer.cpp:1343` says the recreation rebuilds the render
  pass, which it does not, and need not as long as the surface format stays.
* `cleanup()` is documented for a partial-init exception; once the logic thread is
  joinable such an exception ends in `std::terminate` instead (`RendererObjects`
  ends in `terminated`).
* `inWorld` is never cleared, so a client whose connection is lost keeps walking;
  rows of `sessions` that expired are never deleted; the minimise loop waits for
  one event more than it needs (1337); and a window closed while it is minimised leaves
  `main()` in `glfwWaitEvents()` (1337-1340, 1659-1662) until it is restored, hence the
  premise of `CloseEnds`. No code or document says otherwise.

## 5. Proofs

`GameServerProofs` (the core) proves, for all sessions, accounts, tokens, positions, inputs,
packets and bounds: `TypeCorrect`, `OwnershipCorrect`, `RegistryCorrect`,
`TickCorrect`, `TokenCorrect`, `AutosaveCorrect` (invariants), `BufferCorrect`,
`DepartureCorrect` (action properties) and `PromiseCorrect` (refinement of
`SessionTokens`).

Assumptions: those `GameServer` states on its constants (`TokensAssumption`,
`MovementAssumption`, `PacketsAssumption`, `RowsAssumption`, `BoundsAssumption`),
which TLC evaluates on each run.

Argument. None of the properties is inductive. `EntityOwned` alone would allow a
reaper for an entity that is not in the world, or a dead session with a packet
still queued, from which one step breaks it. `IInv` is `TypeOK` with
* `NoTaskTwice`: no task is queued twice, so running one removes it;
* `SessionsHeld`: a queued packet means an alive session that is not reading; a
  session that is not alive has nothing outstanding and owns nothing. This is why
  the buffer cannot be overwritten and the destructor cannot run twice;
* `EntitiesOwned`: identifiers are fresh, reapers name entities of the world, and
  an entity has a session exactly when it has no reaper;
* `SessionsRegistered`: `state_`, `entity_id_` and `g_sessions` agree;
* `TickPending`: a running server has its timer armed or its tick queued, not both;
* `AgesBounded`: an entity is no older than the folded tick count;
* `TokenAdmitsOnce`.

`TypeNext` and `CoreNext` show that every action keeps it, one lemma per group of
actions; `Posted` and `Ran` say what posting to and running from the strand do to
the set of queued tasks. The action properties and the refinement follow from
`IInv` step by step.

`LoginServerProofs` proves all of the login server's safety: `TypeCorrect`,
`TokensCorrect`, `OrphansCorrect` and `ReasonCorrect` (action property), under
`RequestsAssumption`, `NamesAssumption`, `BoundsAssumption` and `SessionsAssumption`
(there are finitely many clients, which the counting needs); nothing is assumed of
the tokens generated. `TokensEarned` says nothing of redirects under way, nor of who
made a row whose transaction was in doubt; the invariant adds that a token is held only
by a session whose password was checked and that has nothing more to read
(`TokensHeld`), that a row has one maker, which holds its token and was let in by no
other (`RowsHeld`), and that the row of a redirect under way or sent is its session's
or let its player in (`RedirectsHeld`). `PhaseMovesKeep` deals at once with the many
steps that only end sessions or move them on. `RowsCounted` is the counting: the rows
of an account and the players one of its rows let in map one to one to clients that
gave its password. For `OrphansExplained`, a step of the first process that makes an
orphan makes only one and counts a fault (`OrphanMade`); every other step leaves the
orphans a subset of what they were (`OrphansStay`).

`ClientNetworkProofs` proves all of the network manager's safety: `TypeCorrect`,
`ReadsCorrect`, `InboundCorrect` and `OpensCorrect`, under `ClientAssumption`: for
any packets, faults and interleaving of the strand, the kernel, the logic thread and
the servers. None of the three properties is inductive, since a posted task speaks of
"the socket", whatever that is by the time it runs. `Inv` says where every task comes
from and what it will meet:
* `SocketInv`, `ChainInv`: each connection has one chain of operations, either
  outstanding or with its handler posted, and the game's comes after the login's;
* `ServersInv`, `RedirectInv`: there is one redirect, in one place (the queue, the
  logic thread's hands or a posted `connect`), and until then no game connection;
* `OpeningInv`: the packet that opens a connection is posted once, by its own
  `Connected`;
* `BuffersInv`, `WireInv`: the two buffers hold what the connection being read sent
  next, and the bytes under way continue where the reading is;
* `DropInv`: what may still post a disconnect when the game's connection is made.
  It is what keeps `readPayload()` from dereferencing an empty socket while the client
  runs. The stray disconnect of the `handoff` finding is within it: that one runs
  before the token is sent, so before the game server answers and a header can come.

`Ran`, `PostedOne` and `RanPosting` say once what taking and posting a task does to the set of
tasks; then there is one lemma per handler.

`FrameSyncProofs` proves `TypeCorrect`, `ReuseCorrect` and `FencesCorrect` for any
number of slots and images and any changes of the window (`FrameAssumption`).
`ReusedWhenFree` says nothing of a slot between its fence and its acquire. `SlotsInv`
adds that a signalled fence means a slot at rest and an unsignalled one an acquire
pending or signalled, never both (`FenceTellsRest`), and one submission per slot;
`ImagesInv` follows an image from the application through submission and present, so
that its semaphore cannot be signalled twice.

`ClientWorldProofs` proves the safety of the client's world: `KeysCorrect` for any
keyboard, `TypeCorrect`, and `RegistryCorrect` for any characters, places and orders.
For the keys, a flag set has a key down (`FlagsFromKeys`). For the registry,
`RegistryTrue` alone would allow a second `AUTH_OK`, which leaks an entity, or a packet
before the first; `AuthFirst` adds that `AUTH_OK` comes once and first. Identifiers are
fresh because the registry stays finite (`CreatedIsFresh`, by counting), and a leave
stays behind every state that mentions its player, because the strand destroys the
entity before it tells of it (`LeaveBehind`).

`RendererObjectsProofs` proves all of the safety of the renderer's objects, for any
surfaces, images, slots, recreations and places (`ObjectsAssumption`).
* `AskedCorrect`: what `createSwapChain` asks for is supported. `ChosenSupported` does
  the arithmetic of limits and clamping, and `ChainChosen` says the swapchain is
  always one that was chosen.
* `PlaceCorrect`: `PlaceGivenBack` does not say that the place saved is the user's;
  `PlaceSaved` adds that.
* `TypeCorrect`, `LifetimesCorrect`, `LeaksCorrect`, `ImagesCorrect`: that the next call
  finds what it needs cannot be known from the state alone, since it depends on all the
  calls before it and after it. So `init`, `recreateSwapchain` and `cleanup` are verified as
  programs over *standings*: which members have live objects, which of those one per
  image, and whether the device is idle. `Allowed` is what a call requires (what it is
  made from stands; what it destroys stands, leaves no child of `Children`, and the
  device is idle) and `Effect` what it leaves. `Runs(where, A, program, B)` says that
  every call of a program is allowed, from standing `A` to `B`; it composes (`RunsThen`)
  and can be taken one call at a time (`RunsHead`). `InitRuns`, `RecreateRuns` and
  `CleanupRuns` verify the three functions call by call: here the order of the code is
  what is proved, and creating the framebuffers before the depth view, for instance,
  makes `RecreateRuns` fail. The invariant `ObjectsInv` joins programs and objects:
  `Named` (what is alive is named by its member and was made from what is alive),
  `InFlightAlive`, and `Program` (what stands now leads over the calls still to come to
  the function's goal). `HoldKeeps` and `DestroyKeeps` are its two hard steps.

Model-checked only: all liveness (`GoneLeadsToLeave`, `ClosedSessionEnds`,
`EndedConnectionDropped`, `PacketsArrive`, `DrawFrameReturns`, `ResizeSettles`,
`SessionsEnd`, `Served`, `Reconciles`, `ViewConverges`, `CloseEnds`): fairness and ENABLED
are outside the proof system's reach. Every other property of a passing run is a
theorem.

## 6. Not modelled, and why

* Struct layout (static, `tests/test_protocol.cpp`), general angles and rounding of
  the movement (`tests/test_movement.cpp`), pitch and zoom, graphics constants.
* Memory visibility inside the GPU (the depth image shared by all frames) and
  partial writes on a socket: below the grain of the modules.
* Password hashing, logging, chat text: no property depends on them.

## 7. Plan

Done, in this order: `GameServer` with its proofs, `ClientNetwork`, `FrameSync`,
`LoginServer` with its proofs, `Movement` and `ClientWorld`, `SwapchainChoice` and
`RendererObjects`.

Next, to model:
1. `ServerStartup`: the first tick at the grain of its accesses, beside the strand.
2. `AsyncWrite` and `PacketReader`: overlapping composed writes and the framing of
   both readers, with 16-bit sizes.
3. `Handoff`, composing `LoginServer`, `ClientNetwork` and the tokens of
   `GameServer`, refining `SessionTokens`.

Proved since: all safety properties of `ClientNetwork`, `FrameSync`, `ClientWorld` and
`RendererObjects`.

Next, to prove: the safety of the three modules above as they are written, first of
all that `Handoff` refines `SessionTokens` as long as no token comes twice; and, of the liveness properties, the
invariants their arguments rest on (what remains enabled, and what decreases).
