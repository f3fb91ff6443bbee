------------------------ MODULE RendererObjectsProofs ------------------------
(* Theorems of the renderer's objects, for every surface, every number of    *)
(* frames in flight, of recreations and of places of the window.             *)
EXTENDS RendererObjects, SequenceTheorems, TLAPS

-----------------------------------------------------------------------------
(* The choice of a swapchain.                                                *)

\* One more image than the minimum, unless that is above a maximum there is.
LEMMA RequestedInLimits ==
  ASSUME NEW caps, IsSurface(caps)
  PROVE  /\ Requested(caps) >= caps.minImageCount
         /\ caps.maxImageCount # 0 => Requested(caps) <= caps.maxImageCount
BY DEF IsSurface, Requested

\* The preferred format is taken only when the surface lists it, and the first
\* one exists.
LEMMA FormatListed ==
  ASSUME NEW formats \in Seq(STRING), formats # <<>>
  PROVE  chooseSwapSurfaceFormat(formats) \in {formats[k] : k \in 1..Len(formats)}
<1>1. 1 \in 1..Len(formats)
  OBVIOUS
<1>2. CASE \E k \in 1..Len(formats) : formats[k] = "B8G8R8A8_SRGB"
  BY <1>2 DEF chooseSwapSurfaceFormat
<1>3. CASE ~\E k \in 1..Len(formats) : formats[k] = "B8G8R8A8_SRGB"
  BY <1>1, <1>3 DEF chooseSwapSurfaceFormat
<1> QED
  BY <1>2, <1>3

\* The extent of the surface, or that of the framebuffer within the limits.
LEMMA ExtentInLimits ==
  ASSUME NEW caps, IsSurface(caps)
  PROVE  chooseSwapExtent(caps) \in caps.minImageExtent..caps.maxImageExtent
BY DEF IsSurface, chooseSwapExtent, Clamp, Unset

\* createSwapChain() asks for what the surface supports, whatever the setting and
\* however many images the driver gives.
LEMMA ChosenSupported ==
  ASSUME NEW caps, IsSurface(caps), NEW setting, NEW count
  PROVE  Supported(Chosen(caps, setting, count))
<1> DEFINE chain == Chosen(caps, setting, count)
<1>1. /\ chain.caps = caps /\ chain.asked = Requested(caps)
      /\ chain.format = chooseSwapSurfaceFormat(caps.formats)
      /\ chain.mode = chooseSwapPresentMode(caps.presentModes, setting)
      /\ chain.extent = chooseSwapExtent(caps)
  BY DEF Chosen
<1>2. chain.mode \in caps.presentModes
  BY <1>1 DEF chooseSwapPresentMode, IsSurface
<1>3. chain.format \in {caps.formats[k] : k \in 1..Len(caps.formats)}
  BY <1>1, FormatListed DEF IsSurface
<1> HIDE DEF chain
<1>4. Supported(chain)
  BY <1>1, <1>2, <1>3, RequestedInLimits, ExtentInLimits DEF Supported
<1> QED
  BY <1>4 DEF chain

\* The swapchain is always one that createSwapChain() chose for a surface.
ChainChosen ==
  \E caps \in Surfaces : \E count : swapchain = Chosen(caps, activeConfig_, count)

\* createSwapChain(): what it asks for is supported, at start and after every
\* recreation, also when the surface changed in between.
THEOREM AskedCorrect == Spec => []AskedIsSupported
<1>1. Init => ChainChosen
  BY DEF Init, ChainChosen
<1>2. ChainChosen /\ [Next]_vars => ChainChosen'
  <2> SUFFICES ASSUME ChainChosen, [Next]_vars PROVE ChainChosen'
    OBVIOUS
  <2>1. CASE CreateSwapChain
    BY <2>1 DEF CreateSwapChain, ChainChosen
  <2>2. CASE swapchain' = swapchain
    BY <2>2 DEF ChainChosen
  <2>3. CreateSwapChain \/ swapchain' = swapchain
    BY DEF Next, Main, Throw, LogicEnds, MoveWindow, Finish, CreateObjects, DestroyObjects,
           WaitForDevice, Upload, SpawnLogicThread, FunctionReturns, Poll, DrawRecreates,
           DrawFrame, Measure, Measured, WaitEvents, Events, Minimise, LeaveLoop, Join,
           Goto, vars, objectVars
  <2> QED
    BY <2>1, <2>2, <2>3
<1>3. ChainChosen => AskedIsSupported
  <2> SUFFICES ASSUME NEW caps \in Surfaces, NEW count,
                      swapchain = Chosen(caps, activeConfig_, count)
               PROVE  AskedIsSupported
    BY DEF ChainChosen
  <2> QED
    BY ObjectsAssumption, ChosenSupported DEF ObjectsAssumption, AskedIsSupported
<1> QED
  BY <1>1, <1>2, <1>3, PTL DEF Spec

-----------------------------------------------------------------------------
(* The place of the window.                                                  *)

\* While the window fills the monitor, what was saved is where the user had it:
\* PlaceGivenBack alone says nothing of the saved place, which the next toggle
\* restores.
PlaceSaved ==
  /\ windowState_.isFullscreen \in BOOLEAN
  /\ PlaceGivenBack
  /\ windowState_.isFullscreen => windowState_.windowed = wanted

LEMMA PlaceStep ==
  ASSUME PlaceSaved, [Next]_vars
  PROVE  PlaceSaved'
<1>1. CASE Events
  <2>1. CASE /\ windowState_' = Toggled
             /\ place' = IF Toggled.isFullscreen THEN "monitor" ELSE Toggled.windowed
             /\ wanted' = wanted
    <3>1. windowState_.isFullscreen \in BOOLEAN
      BY DEF PlaceSaved
    <3>2. CASE windowState_.isFullscreen = TRUE
      <4>1. Toggled = [isFullscreen |-> FALSE, windowed |-> windowState_.windowed]
        BY <3>2 DEF Toggled
      <4>2. /\ windowState_'.isFullscreen = FALSE /\ place' = windowState_.windowed
            /\ wanted' = wanted /\ windowState_.windowed = wanted
        BY <2>1, <3>2, <4>1 DEF PlaceSaved
      <4> QED
        BY <4>2 DEF PlaceSaved, PlaceGivenBack
    <3>3. CASE windowState_.isFullscreen = FALSE
      <4>1. Toggled = [isFullscreen |-> TRUE, windowed |-> place]
        BY <3>3 DEF Toggled
      <4>2. /\ windowState_'.isFullscreen = TRUE /\ place' = "monitor"
            /\ windowState_'.windowed = place /\ wanted' = wanted /\ place = wanted
        BY <2>1, <3>3, <4>1 DEF PlaceSaved, PlaceGivenBack
      <4> QED
        BY <4>2 DEF PlaceSaved, PlaceGivenBack
    <3> QED
      BY <3>1, <3>2, <3>3
  <2>2. CASE UNCHANGED <<windowState_, place, wanted>>
    BY <2>2 DEF PlaceSaved, PlaceGivenBack
  <2>3. \/ UNCHANGED <<windowState_, place, wanted>>
        \/ /\ windowState_' = Toggled /\ wanted' = wanted
           /\ place' = IF Toggled.isFullscreen THEN "monitor" ELSE Toggled.windowed
    BY <1>1 DEF Events
  <2> QED
    BY <2>1, <2>2, <2>3
<1>2. CASE MoveWindow
  BY <1>2 DEF MoveWindow, PlaceSaved, PlaceGivenBack
<1>3. CASE UNCHANGED <<windowState_, place, wanted>>
  BY <1>3 DEF PlaceSaved, PlaceGivenBack
<1>4. Events \/ MoveWindow \/ UNCHANGED <<windowState_, place, wanted>>
  BY DEF Next, Main, Throw, LogicEnds, Finish, CreateObjects, CreateSwapChain,
         DestroyObjects, WaitForDevice, Upload, SpawnLogicThread, FunctionReturns, Poll,
         WaitEvents, DrawRecreates, DrawFrame, Measure, Minimise, LeaveLoop, Join, Done,
         vars, windowVars
<1> QED
  BY <1>1, <1>2, <1>3, <1>4

\* toggleFullscreen(): whatever was moved and toggled before, leaving fullscreen
\* puts the window back where the user had it.
THEOREM PlaceCorrect == Spec => []PlaceGivenBack
<1>1. Init => PlaceSaved
  BY DEF Init, PlaceSaved, PlaceGivenBack
<1>2. PlaceSaved /\ [Next]_vars => PlaceSaved'
  BY PlaceStep
<1>3. PlaceSaved => PlaceGivenBack
  BY DEF PlaceSaved
<1> QED
  BY <1>1, <1>2, <1>3, PTL DEF Spec

-----------------------------------------------------------------------------
(* The functions, as programs over what stands: a member stands while its     *)
(* objects are alive.                                                        *)

\* The members whose objects are made from those of q.  (Taking everything on the
\* device for made from it asks more of cleanup(), not less.)
Children(q) ==
  CASE q = "window_" -> {"surface_"}
    [] q = "instance_" -> {"surface_", "device_"}
    [] q = "surface_" -> {"swapChain_"}
    [] q = "device_" -> Members \ NotDrawn
    [] q = "swapChain_" -> {"swapChainImageViews_"}
    [] q = "renderPass_" -> {"graphicsPipeline_", "swapChainFramebuffers_"}
    [] q = "descriptorSetLayout_" -> {"pipelineLayout_", "descriptorSets_"}
    [] q = "pipelineLayout_" -> {"graphicsPipeline_"}
    [] q \in {"depthImage_", "depthImageMemory_"} -> {"depthImageView_"}
    [] q \in {"swapChainImageViews_", "depthImageView_"} -> {"swapChainFramebuffers_"}
    [] q \in {"textureImage_", "textureImageMemory_"} -> {"textureImageView_"}
    [] q = "commandPool_" -> {"commandBuffers_"}
    [] q = "descriptorPool_" -> {"descriptorSets_"}
    [] OTHER -> {}

AllCalls == [do : {"create", "destroy", "clear", "wait", "spawn", "use"},
             what : Members, from : SUBSET Members, also : SUBSET Members]

\* The members that stand, those of them that have one object per image of the
\* present swapchain, and whether the device is idle.
Standings == [up : SUBSET Members, ready : SUBSET PerImage, idle : BOOLEAN]

\* What a call needs.  Who makes uses what stands, and nothing is made twice; who
\* destroys finds it standing, leaves none of its children, and the GPU is idle.
Allowed(where, c, A) ==
  /\ c.do \in {"create", "use"} => c.from \cup c.also \subseteq A.up
  /\ c.do = "create" => c.what \notin A.up /\ \A q \in c.from : c.what \in Children(q)
  /\ c.do \in {"destroy", "clear"} =>
       /\ A.idle /\ c.what \in A.up
       /\ \A q \in DiesWith(c.what) : Children(q) \cap A.up \subseteq DiesWith(c.what)
  /\ c.do = "spawn" => where = "init"

\* What it leaves.  A new swapchain may have any number of images.
Effect(c, A) ==
  [up |-> IF c.do = "create" THEN A.up \cup {c.what}
          ELSE IF c.do \in {"destroy", "clear"} THEN A.up \ DiesWith(c.what) ELSE A.up,
   ready |-> IF c.do = "create" THEN IF c.what = "swapChain_" THEN {}
                                     ELSE A.ready \cup ({c.what} \cap PerImage)
             ELSE IF c.do \in {"destroy", "clear"} THEN A.ready \ DiesWith(c.what)
             ELSE A.ready,
   idle |-> A.idle \/ c.do = "wait"]

\* Every call of a program is allowed, from one standing to another.
Runs(where, A, program, B) ==
  /\ program \in Seq(AllCalls)
  /\ \E f \in [0..Len(program) -> Standings] :
       /\ f[0] = A /\ f[Len(program)] = B
       /\ \A k \in 1..Len(program) : /\ Allowed(where, program[k], f[k - 1])
                                     /\ f[k] = Effect(program[k], f[k - 1])

LEMMA EffectStands ==
  ASSUME NEW A \in Standings, NEW c \in AllCalls
  PROVE  Effect(c, A) \in Standings
BY DEF Effect, Standings, AllCalls

LEMMA RunsNothing ==
  ASSUME NEW where, NEW A, NEW B, Runs(where, A, <<>>, B)
  PROVE  A = B
BY DEF Runs

LEMMA RunsOne ==
  ASSUME NEW where, NEW A \in Standings, NEW c \in AllCalls, Allowed(where, c, A)
  PROVE  Runs(where, A, <<c>>, Effect(c, A))
<1> DEFINE f == [k \in 0..1 |-> IF k = 0 THEN A ELSE Effect(c, A)]
<1>1. Effect(c, A) \in Standings
  BY EffectStands
<1>2. f \in [0..1 -> Standings] /\ f[0] = A /\ f[1] = Effect(c, A)
  BY <1>1
<1> HIDE DEF f
<1>3. <<c>> \in Seq(AllCalls) /\ Len(<<c>>) = 1 /\ <<c>>[1] = c
  OBVIOUS
<1>4. \A k \in 1..1 : Allowed(where, <<c>>[k], f[k - 1]) /\ f[k] = Effect(<<c>>[k], f[k - 1])
  BY <1>2, <1>3
<1> QED
  BY <1>2, <1>3, <1>4 DEF Runs

\* One program after another.
LEMMA RunsThen ==
  ASSUME NEW where, NEW A, NEW B, NEW C, NEW P, NEW Q,
         Runs(where, A, P, B), Runs(where, B, Q, C)
  PROVE  Runs(where, A, P \o Q, C)
<1>1. PICK f \in [0..Len(P) -> Standings] :
        /\ f[0] = A /\ f[Len(P)] = B
        /\ \A k \in 1..Len(P) : Allowed(where, P[k], f[k - 1]) /\ f[k] = Effect(P[k], f[k - 1])
  BY DEF Runs
<1>2. PICK g \in [0..Len(Q) -> Standings] :
        /\ g[0] = B /\ g[Len(Q)] = C
        /\ \A k \in 1..Len(Q) : Allowed(where, Q[k], g[k - 1]) /\ g[k] = Effect(Q[k], g[k - 1])
  BY DEF Runs
<1>3. P \in Seq(AllCalls) /\ Q \in Seq(AllCalls)
  BY DEF Runs
<1> DEFINE m == Len(P)
<1> DEFINE n == Len(Q)
<1> DEFINE PQ == P \o Q
<1>4. /\ m \in Nat /\ n \in Nat /\ PQ \in Seq(AllCalls) /\ Len(PQ) = m + n
      /\ \A k \in 1..m : PQ[k] = P[k]
      /\ \A k \in m + 1..m + n : PQ[k] = Q[k - m]
  BY <1>3
<1> HIDE DEF m, n, PQ
<1> DEFINE h == [k \in 0..m + n |-> IF k <= m THEN f[k] ELSE g[k - m]]
<1>5. h \in [0..m + n -> Standings]
  <2>1. ASSUME NEW k \in 0..m + n, k > m PROVE k - m \in 0..n
    BY <1>4, <2>1
  <2>2. ASSUME NEW k \in 0..m + n, k <= m PROVE k \in 0..m
    BY <1>4, <2>2
  <2> QED
    BY <1>1, <1>2, <1>4, <2>1, <2>2 DEF m, n
<1>6. \A k \in 0..m : h[k] = f[k]
  BY <1>4
<1>7. \A k \in m..m + n : h[k] = g[k - m]
  <2> SUFFICES ASSUME NEW k \in m..m + n PROVE h[k] = g[k - m]
    OBVIOUS
  <2>1. CASE k = m
    <3>1. h[k] = f[m] /\ k - m = 0
      BY <1>4, <2>1
    <3> QED
      BY <1>1, <1>2, <3>1 DEF m
  <2>2. CASE k > m
    BY <1>4, <2>2
  <2> QED
    BY <1>4, <2>1, <2>2
<1> HIDE DEF h
<1>8. h[0] = A /\ h[m + n] = C
  <2>1. 0 \in 0..m /\ m + n \in m..m + n /\ (m + n) - m = n
    BY <1>4
  <2> QED
    BY <1>1, <1>2, <1>6, <1>7, <2>1 DEF n
<1>9. ASSUME NEW k \in 1..m + n
      PROVE  Allowed(where, PQ[k], h[k - 1]) /\ h[k] = Effect(PQ[k], h[k - 1])
  <2>1. CASE k <= m
    <3>1. k \in 1..m /\ k \in 0..m /\ k - 1 \in 0..m
      BY <1>4, <2>1
    <3> QED
      BY <1>1, <1>4, <1>6, <3>1 DEF m
  <2>2. CASE k > m
    <3>1. /\ k \in m..m + n /\ k - 1 \in m..m + n /\ k \in m + 1..m + n
          /\ k - m \in 1..n /\ (k - 1) - m = (k - m) - 1
      BY <1>4, <2>2
    <3>2. h[k] = g[k - m] /\ h[k - 1] = g[(k - m) - 1] /\ PQ[k] = Q[k - m]
      BY <1>4, <1>7, <3>1
    <3> QED
      BY <1>2, <3>1, <3>2 DEF n
  <2> QED
    BY <1>4, <2>1, <2>2
<1>10. Runs(where, A, PQ, C)
  BY <1>4, <1>5, <1>8, <1>9 DEF Runs
<1> QED
  BY <1>10 DEF PQ

\* The first call of a program, and the rest.
LEMMA RunsHead ==
  ASSUME NEW where, NEW A, NEW B, NEW P, Runs(where, A, P, B), P # <<>>
  PROVE  /\ Head(P) \in AllCalls /\ Allowed(where, Head(P), A)
         /\ Runs(where, Effect(Head(P), A), Tail(P), B)
<1>1. PICK f \in [0..Len(P) -> Standings] :
        /\ f[0] = A /\ f[Len(P)] = B
        /\ \A k \in 1..Len(P) : Allowed(where, P[k], f[k - 1]) /\ f[k] = Effect(P[k], f[k - 1])
  BY DEF Runs
<1> DEFINE n == Len(P) - 1
<1> DEFINE T == Tail(P)
<1>2. P \in Seq(AllCalls)
  BY DEF Runs
<1>3. /\ n \in Nat /\ Len(P) = n + 1 /\ Len(T) = n /\ T \in Seq(AllCalls)
      /\ Head(P) = P[1] /\ Head(P) \in AllCalls
      /\ \A k \in 1..n : T[k] = P[k + 1]
  BY <1>2
<1> HIDE DEF n, T
<1>4. Allowed(where, Head(P), A) /\ f[1] = Effect(Head(P), A)
  <2>1. 1 \in 1..Len(P) /\ 1 - 1 = 0
    BY <1>3
  <2> QED
    BY <1>1, <1>3, <2>1
<1> DEFINE g == [k \in 0..n |-> f[k + 1]]
<1>5. g \in [0..n -> Standings]
  <2>1. \A k \in 0..n : k + 1 \in 0..Len(P)
    BY <1>3
  <2> QED
    BY <1>1, <2>1
<1>6. g[0] = Effect(Head(P), A) /\ g[n] = B
  BY <1>1, <1>3, <1>4
<1>7. ASSUME NEW k \in 1..n
      PROVE  Allowed(where, T[k], g[k - 1]) /\ g[k] = Effect(T[k], g[k - 1])
  <2>1. k + 1 \in 1..Len(P) /\ k \in 0..n /\ k - 1 \in 0..n /\ (k - 1) + 1 = (k + 1) - 1
    BY <1>3
  <2>2. g[k] = f[k + 1] /\ g[k - 1] = f[(k + 1) - 1] /\ T[k] = P[k + 1]
    BY <1>3, <2>1
  <2> QED
    BY <1>1, <2>1, <2>2
<1> HIDE DEF g
<1>8. Runs(where, Effect(Head(P), A), T, B)
  BY <1>3, <1>5, <1>6, <1>7 DEF Runs
<1> QED
  BY <1>3, <1>4, <1>8 DEF T

-----------------------------------------------------------------------------
(* The objects behind a standing.                                            *)

\* What is alive is named by the member it is of, and was made from objects that
\* are alive, of the members it may be made from; per image, from the same image's.
Named ==
  /\ DOMAIN handle = Members
  /\ \A m \in Members : handle[m] \subseteq Objects /\ \A o \in handle[m] : o.of = m
  /\ \A o \in Alive : o.of \in Members /\ o \in handle[o.of]
  /\ \A o \in Alive : \A p \in live[o] :
       /\ p \in Alive /\ o.of \in Children(p.of)
       /\ o.of \in PerImage /\ p.of \in PerImage => p.i = o.i

\* One object for each image.
HasAll(m) == \A i \in 1..swapchain.images : \E o \in handle[m] : o.i = i

Describes(A) ==
  /\ \A m \in A.up : handle[m] # {} /\ handle[m] \subseteq Alive
  /\ \A m \in Members \ A.up : handle[m] \cap Alive = {}
  /\ \A m \in A.ready : HasAll(m)
  /\ A.idle => DeviceIdle

\* Making objects: from what stands, under a member that does not.
LEMMA HoldKeeps ==
  ASSUME Named, InFlightAlive, recreations \in 0..MaxRecreations,
         NEW where, NEW A \in Standings, Describes(A),
         NEW c \in AllCalls, c = Head(calls), c.do = "create", Allowed(where, c, A),
         NEW B, B = Effect(c, A),
         NEW n \in Nat \ {0}, Hold(n), UNCHANGED inFlight,
         \/ What = "swapChain_"
         \/ What # "swapChain_" /\ n = swapchain.images /\ swapchain' = swapchain
  PROVE  Named' /\ InFlightAlive' /\ Describes(B)'
<1> DEFINE made == {[of |-> What, gen |-> recreations, i |-> k] : k \in Indices(What, n)}
<1>1. /\ What \in Members /\ What \notin A.up /\ c.from \subseteq A.up
      /\ \A q \in c.from : What \in Children(q)
      /\ A.up \subseteq Members /\ A.ready \subseteq PerImage /\ A.idle \in BOOLEAN
  BY DEF Allowed, What, AllCalls, Standings
<1>2. /\ Indices(What, n) # {} /\ Indices(What, n) \subseteq Nat
      /\ What \in PerImage => Indices(What, n) = 1..n
  <2>1. MAX_FRAMES_IN_FLIGHT \in Nat \ {0}
    BY ObjectsAssumption DEF ObjectsAssumption
  <2>2. 1 \in 1..n /\ 1..n \subseteq Nat
    OBVIOUS
  <2>3. /\ 0 \in 0..MAX_FRAMES_IN_FLIGHT - 1
        /\ 0..MAX_FRAMES_IN_FLIGHT - 1 \subseteq Nat
    BY <2>1
  <2> QED
    BY <2>2, <2>3 DEF Indices
<1>3. /\ made # {} /\ made \subseteq Objects
      /\ \A o \in made : o.of = What
      /\ What \in PerImage => \A i \in 1..n : \E o \in made : o.i = i
  <2> DEFINE object(k) == [of |-> What, gen |-> recreations, i |-> k]
  <2>1. \A k \in Indices(What, n) : object(k) \in Objects
    BY <1>1, <1>2 DEF Objects
  <2>2. \A k : object(k).of = What /\ object(k).i = k
    OBVIOUS
  <2>3. made = {object(k) : k \in Indices(What, n)}
    OBVIOUS
  <2> HIDE DEF object, made
  <2>4. made # {} /\ made \subseteq Objects /\ \A o \in made : o.of = What
    BY <1>2, <2>1, <2>2, <2>3
  <2>5. \A k \in Indices(What, n) : object(k) \in made
    BY <2>3
  <2> QED
    BY <1>2, <2>2, <2>4, <2>5
<1>4. /\ handle' = [handle EXCEPT ![What] = made]
      /\ live' = [o \in Alive \cup made |-> IF o \in made THEN MadeFrom(o, c.from) ELSE live[o]]
  BY DEF Hold, Alive
<1> HIDE DEF made
<1>5. /\ DOMAIN handle = Members
      /\ \A m \in Members : handle[m] \subseteq Objects /\ \A o \in handle[m] : o.of = m
      /\ \A o \in Alive : o.of \in Members /\ o \in handle[o.of]
      /\ \A o \in Alive : \A p \in live[o] :
           /\ p \in Alive /\ o.of \in Children(p.of)
           /\ o.of \in PerImage /\ p.of \in PerImage => p.i = o.i
  BY DEF Named
<1>6. /\ \A m \in A.up : handle[m] # {} /\ handle[m] \subseteq Alive
      /\ \A m \in Members \ A.up : handle[m] \cap Alive = {}
      /\ \A m \in A.ready : HasAll(m)
      /\ A.idle => DeviceIdle
  BY DEF Describes
<1>7. DOMAIN live' = Alive \cup made /\ Alive' = Alive \cup made
  BY <1>4 DEF Alive
<1>8. /\ DOMAIN handle' = Members /\ handle'[What] = made
      /\ \A m \in Members \ {What} : handle'[m] = handle[m]
  BY <1>1, <1>4, <1>5
<1>9. \A o \in Alive : o.of # What
  BY <1>1, <1>5, <1>6
<1>10. ASSUME NEW o \in made, NEW p \in MadeFrom(o, c.from)
       PROVE  /\ p \in Alive /\ o.of \in Children(p.of)
              /\ o.of \in PerImage /\ p.of \in PerImage => p.i = o.i
  <2>1. PICK q \in c.from : p \in handle[q]
    BY <1>10 DEF MadeFrom
  <2>2. p.of = q /\ p \in Alive
    BY <1>1, <1>5, <1>6, <2>1
  <2>3. o.of \in PerImage /\ p.of \in PerImage => p.i = o.i
    BY <1>10 DEF MadeFrom
  <2> QED
    BY <1>1, <1>3, <2>1, <2>2, <2>3
<1>11. Named'
  <2>1. \A m \in Members : handle'[m] \subseteq Objects /\ \A o \in handle'[m] : o.of = m
    BY <1>1, <1>3, <1>5, <1>8
  <2>2. ASSUME NEW o \in Alive' PROVE o.of \in Members /\ o \in handle'[o.of]
    BY <1>1, <1>3, <1>5, <1>7, <1>8, <1>9
  <2>3. ASSUME NEW o \in Alive', NEW p \in live'[o]
        PROVE  /\ p \in Alive' /\ o.of \in Children(p.of)
               /\ o.of \in PerImage /\ p.of \in PerImage => p.i = o.i
    <3>1. CASE o \in made
      <4>1. p \in MadeFrom(o, c.from)
        BY <1>4, <2>3, <3>1
      <4> QED
        BY <1>7, <1>10, <3>1, <4>1
    <3>2. CASE o \notin made
      <4>1. o \in Alive /\ p \in live[o]
        BY <1>4, <1>7, <2>3, <3>2
      <4> QED
        BY <1>5, <1>7, <4>1
    <3> QED
      BY <3>1, <3>2
  <2> QED
    BY <1>8, <2>1, <2>2, <2>3 DEF Named
<1>12. InFlightAlive'
  BY <1>7 DEF InFlightAlive
<1>13. /\ B.up = A.up \cup {What} /\ B.idle = A.idle
       /\ B.ready = IF What = "swapChain_" THEN {} ELSE A.ready \cup ({What} \cap PerImage)
  BY <1>1 DEF Effect, What
<1>14. Describes(B)'
  <2>1. ASSUME NEW m \in B.up PROVE handle'[m] # {} /\ handle'[m] \subseteq Alive'
    BY <1>1, <1>3, <1>6, <1>7, <1>8, <1>13
  <2>2. ASSUME NEW m \in Members \ B.up PROVE handle'[m] \cap Alive' = {}
    <3>1. m # What /\ m \notin A.up
      BY <1>13
    <3>2. handle'[m] = handle[m] /\ handle[m] \cap Alive = {}
      BY <1>6, <1>8, <3>1
    <3>3. \A o \in handle[m] : o.of = m
      BY <1>5
    <3> QED
      BY <1>3, <1>7, <3>1, <3>2, <3>3
  <2>3. ASSUME NEW m \in B.ready
        PROVE  \A i \in 1..swapchain'.images : \E o \in handle'[m] : o.i = i
    <3>1. What # "swapChain_" /\ n = swapchain.images /\ swapchain' = swapchain
      BY <1>13, <2>3
    <3>2. CASE m = What
      <4>1. What \in PerImage
        BY <1>1, <1>6, <1>13, <2>3, <3>1, <3>2 DEF Standings
      <4> QED
        BY <1>3, <1>8, <3>1, <3>2, <4>1
    <3>3. CASE m # What
      <4>1. m \in A.ready /\ m \in Members
        BY <1>1, <1>13, <2>3, <3>1, <3>3 DEF PerImage, Members
      <4> QED
        BY <1>6, <1>8, <3>1, <3>3, <4>1 DEF HasAll
    <3> QED
      BY <3>2, <3>3
  <2>4. B.idle => DeviceIdle'
    BY <1>6, <1>13 DEF DeviceIdle
  <2> QED
    BY <2>1, <2>2, <2>3, <2>4 DEF Describes, HasAll
<1> QED
  BY <1>11, <1>12, <1>14

\* Destroying objects: what is made from them went before, and the GPU is idle.
LEMMA DestroyKeeps ==
  ASSUME Named, InFlightAlive,
         NEW where, NEW A \in Standings, Describes(A),
         NEW c \in AllCalls, c = Head(calls), c.do \in {"destroy", "clear"},
         Allowed(where, c, A), NEW B, B = Effect(c, A),
         DestroyObjects
  PROVE  Named' /\ InFlightAlive' /\ Describes(B)'
<1> DEFINE gone == DiesWith(c.what)
<1> DEFINE dead == UNION {handle[m] : m \in gone}
<1>1. /\ A.idle = TRUE /\ c.what \in A.up /\ c.what \in Members /\ c.what \in gone
      /\ gone \subseteq Members
      /\ \A q \in gone : Children(q) \cap A.up \subseteq gone
      /\ A.up \subseteq Members /\ A.ready \subseteq PerImage
  BY DEF Allowed, AllCalls, Standings, DiesWith, Members, PerSlot
<1>2. /\ DOMAIN handle = Members
      /\ \A m \in Members : handle[m] \subseteq Objects /\ \A o \in handle[m] : o.of = m
      /\ \A o \in Alive : o.of \in Members /\ o \in handle[o.of]
      /\ \A o \in Alive : \A p \in live[o] :
           /\ p \in Alive /\ o.of \in Children(p.of)
           /\ o.of \in PerImage /\ p.of \in PerImage => p.i = o.i
  BY DEF Named
<1>3. /\ \A m \in A.up : handle[m] # {} /\ handle[m] \subseteq Alive
      /\ \A m \in Members \ A.up : handle[m] \cap Alive = {}
      /\ \A m \in A.ready : HasAll(m)
      /\ A.idle => DeviceIdle
  BY DEF Describes
<1>4. /\ live' = [o \in Alive \ dead |-> live[o]]
      /\ handle' = handle \/ handle' = [handle EXCEPT ![c.what] = {}]
      /\ swapchain' = swapchain /\ inFlight' = inFlight
  BY DEF DestroyObjects, Done, What, Alive, frameVars
<1>5. B.up = A.up \ gone /\ B.ready = A.ready \ gone /\ B.idle = TRUE
  BY <1>1 DEF Effect
<1> HIDE DEF gone
<1>6. Alive' = Alive \ dead /\ \A o \in Alive' : live'[o] = live[o]
  BY <1>4 DEF Alive
<1>7. /\ DOMAIN handle' = Members
      /\ \A m \in Members \ gone : handle'[m] = handle[m]
      /\ \A m \in Members : handle'[m] \subseteq handle[m]
  BY <1>1, <1>2, <1>4
<1>8. \A o : o \in dead <=> \E m \in gone : o \in handle[m]
  OBVIOUS
<1> HIDE DEF dead
<1>9. \A o \in Alive' : o \in Alive /\ o.of \in Members \ gone /\ o.of \in A.up
  BY <1>1, <1>2, <1>3, <1>6, <1>8
<1>10. Named'
  <2>1. \A m \in Members : handle'[m] \subseteq Objects /\ \A o \in handle'[m] : o.of = m
    BY <1>2, <1>7
  <2>2. \A o \in Alive' : o.of \in Members /\ o \in handle'[o.of]
    BY <1>2, <1>7, <1>9
  <2>3. ASSUME NEW o \in Alive', NEW p \in live'[o]
        PROVE  /\ p \in Alive' /\ o.of \in Children(p.of)
               /\ o.of \in PerImage /\ p.of \in PerImage => p.i = o.i
    <3>1. p \in live[o] /\ o \in Alive
      BY <1>6, <1>9, <2>3
    <3>2. /\ p \in Alive /\ o.of \in Children(p.of)
          /\ o.of \in PerImage /\ p.of \in PerImage => p.i = o.i
      BY <1>2, <3>1
    <3>3. p.of \notin gone
      BY <1>1, <1>9, <3>2
    <3>4. p \notin dead
      BY <1>1, <1>2, <1>8, <3>3
    <3> QED
      BY <1>6, <3>2, <3>4
  <2> QED
    BY <1>7, <2>1, <2>2, <2>3 DEF Named
<1>11. InFlightAlive'
  BY <1>1, <1>3, <1>4 DEF InFlightAlive, DeviceIdle
<1>12. Describes(B)'
  <2>1. ASSUME NEW m \in B.up PROVE handle'[m] # {} /\ handle'[m] \subseteq Alive'
    <3>1. m \in Members /\ m \in A.up /\ m \notin gone
      BY <1>1, <1>5
    <3>2. handle'[m] = handle[m] /\ handle[m] # {} /\ handle[m] \subseteq Alive
      BY <1>3, <1>7, <3>1
    <3>3. \A o \in handle[m] : o \notin dead
      BY <1>1, <1>2, <1>8, <3>1
    <3> QED
      BY <1>6, <3>2, <3>3
  <2>2. ASSUME NEW m \in Members \ B.up PROVE handle'[m] \cap Alive' = {}
    <3>1. CASE m \in gone
      BY <1>6, <1>7, <1>8, <3>1
    <3>2. CASE m \notin gone
      <4>1. m \in Members \ A.up
        BY <1>5, <3>2
      <4> QED
        BY <1>3, <1>6, <1>7, <4>1
    <3> QED
      BY <3>1, <3>2
  <2>3. ASSUME NEW m \in B.ready
        PROVE  \A i \in 1..swapchain'.images : \E o \in handle'[m] : o.i = i
    <3>1. m \in A.ready /\ m \in Members \ gone
      BY <1>1, <1>5 DEF PerImage, Members
    <3> QED
      BY <1>3, <1>4, <1>7, <3>1 DEF HasAll
  <2>4. B.idle => DeviceIdle'
    BY <1>1, <1>3, <1>4 DEF DeviceIdle
  <2> QED
    BY <2>1, <2>2, <2>3, <2>4 DEF Describes, HasAll
<1> QED
  BY <1>10, <1>11, <1>12

-----------------------------------------------------------------------------
(* What the functions do to a standing, while the device is idle.            *)

At(up, ready) == [up |-> up, ready |-> ready, idle |-> TRUE]

LEMMA MakeRuns ==
  ASSUME NEW where, NEW U \in SUBSET Members, NEW R \in SUBSET PerImage,
         NEW what \in Members \ U, NEW from \in SUBSET U, NEW also \in SUBSET U,
         \A q \in from : what \in Children(q)
  PROVE  Runs(where, At(U, R), <<Call("create", what, from, also)>>,
              At(U \cup {what}, IF what = "swapChain_" THEN {}
                                ELSE R \cup ({what} \cap PerImage)))
<1> DEFINE c == Call("create", what, from, also)
<1>1. /\ c \in AllCalls /\ c.do = "create" /\ c.what = what
      /\ c.from = from /\ c.also = also
  BY DEF Call, AllCalls
<1> HIDE DEF c
<1>2. At(U, R) \in Standings /\ At(U, R).up = U /\ At(U, R).ready = R /\ At(U, R).idle = TRUE
  BY DEF At, Standings
<1>3. Allowed(where, c, At(U, R))
  BY <1>1, <1>2 DEF Allowed
<1>4. Effect(c, At(U, R)) = At(U \cup {what}, IF what = "swapChain_" THEN {}
                                              ELSE R \cup ({what} \cap PerImage))
  BY <1>1, <1>2 DEF Effect, At
<1> QED
  BY <1>1, <1>2, <1>3, <1>4, RunsOne DEF c

\* Most members are made once and are not per image.
LEMMA OneRuns ==
  ASSUME NEW where, NEW U \in SUBSET Members, NEW R \in SUBSET PerImage,
         NEW what \in Members \ (U \cup PerImage \cup {"swapChain_"}),
         NEW from \in SUBSET U, NEW also \in SUBSET U,
         \A q \in from : what \in Children(q)
  PROVE  Runs(where, At(U, R), <<Call("create", what, from, also)>>, At(U \cup {what}, R))
<1>1. R \cup ({what} \cap PerImage) = R /\ what # "swapChain_"
  OBVIOUS
<1> QED
  BY <1>1, MakeRuns

LEMMA OnePerImageRuns ==
  ASSUME NEW where, NEW U \in SUBSET Members, NEW R \in SUBSET PerImage,
         NEW what \in PerImage \ U, NEW from \in SUBSET U, \A q \in from : what \in Children(q)
  PROVE  Runs(where, At(U, R), <<Make(what, from)>>, At(U \cup {what}, R \cup {what}))
<1>1. /\ R \cup ({what} \cap PerImage) = R \cup {what} /\ what # "swapChain_"
      /\ what \in Members \ U /\ {} \in SUBSET U
  BY DEF PerImage, Members
<1>2. Runs(where, At(U, R), <<Call("create", what, from, {})>>,
           At(U \cup {what}, IF what = "swapChain_" THEN {}
                             ELSE R \cup ({what} \cap PerImage)))
  BY <1>1, MakeRuns
<1> QED
  BY <1>1, <1>2 DEF Make

LEMMA TwoRun ==
  ASSUME NEW where, NEW A, NEW B, NEW C, NEW c, NEW d,
         Runs(where, A, <<c>>, B), Runs(where, B, <<d>>, C)
  PROVE  Runs(where, A, <<c, d>>, C)
<1> DEFINE S == {c, d}
<1>1. /\ <<c>> \in Seq(S) /\ <<d>> \in Seq(S) /\ <<c, d>> \in Seq(S)
      /\ <<c>> \o <<d>> \in Seq(S)
  OBVIOUS
<1>2. Len(<<c>> \o <<d>>) = 2 /\ (<<c>> \o <<d>>)[1] = c /\ (<<c>> \o <<d>>)[2] = d
  OBVIOUS
<1>3. Len(<<c, d>>) = 2 /\ \A i \in 1..2 : <<c, d>>[i] = (<<c>> \o <<d>>)[i]
  BY <1>2
<1>4. <<c, d>> = <<c>> \o <<d>>
  BY <1>1, <1>2, <1>3, SeqEqual
<1> QED
  BY <1>4, RunsThen

\* What only uses the device, waits or starts the thread changes no standing.
LEMMA StayRuns ==
  ASSUME NEW where, NEW U \in SUBSET Members, NEW R \in SUBSET PerImage, NEW c \in AllCalls,
         c.do \in {"use", "spawn", "wait"},
         c.do = "use" => c.from \cup c.also \subseteq U,
         c.do = "spawn" => where = "init"
  PROVE  Runs(where, At(U, R), <<c>>, At(U, R))
<1>1. At(U, R) \in Standings /\ At(U, R).up = U /\ At(U, R).ready = R /\ At(U, R).idle = TRUE
  BY DEF At, Standings
<1>2. Allowed(where, c, At(U, R))
  BY <1>1 DEF Allowed
<1>3. Effect(c, At(U, R)) = At(U, R)
  BY <1>1 DEF Effect, At
<1> QED
  BY <1>1, <1>2, <1>3, RunsOne

\* vkDeviceWaitIdle, whatever is under way.
LEMMA WaitRuns ==
  ASSUME NEW where, NEW U \in SUBSET Members, NEW R \in SUBSET PerImage
  PROVE  Runs(where, [up |-> U, ready |-> R, idle |-> FALSE], WaitIdle, At(U, R))
<1> DEFINE A == [up |-> U, ready |-> R, idle |-> FALSE]
<1> DEFINE c == Call("wait", "device_", {}, {"device_"})
<1>1. c \in AllCalls /\ c.do = "wait"
  BY DEF Call, AllCalls, Members, NotDrawn
<1> HIDE DEF c
<1>2. A \in Standings /\ Allowed(where, c, A) /\ Effect(c, A) = At(U, R)
  BY <1>1 DEF Standings, Allowed, Effect, At
<1> HIDE DEF A
<1>3. Runs(where, A, <<c>>, At(U, R))
  BY <1>1, <1>2, RunsOne
<1> QED
  BY <1>3 DEF A, c, WaitIdle

LEMMA BufferRuns ==
  ASSUME NEW where, NEW U \in SUBSET Members, NEW R \in SUBSET PerImage, "device_" \in U,
         NEW b \in Members \ (U \cup NotDrawn \cup PerImage \cup {"swapChain_"}),
         NEW m \in Members \ (U \cup NotDrawn \cup PerImage \cup {"swapChain_", b})
  PROVE  /\ Runs(where, At(U, R), createBuffer(b, m), At(U \cup {b, m}, R))
         /\ Runs(where, At(U, R), createImage(b, m), At(U \cup {b, m}, R))
<1>1. b \in Children("device_") /\ m \in Children("device_")
  BY DEF Children
<1>2. Runs(where, At(U, R), <<Make(b, OnDevice)>>, At(U \cup {b}, R))
  BY <1>1, OneRuns DEF Make, OnDevice
<1>3. Runs(where, At(U \cup {b}, R), <<Make(m, OnDevice)>>, At((U \cup {b}) \cup {m}, R))
  <2>1. U \cup {b} \in SUBSET Members
    OBVIOUS
  <2> QED
    BY <1>1, <2>1, OneRuns DEF Make, OnDevice
<1>4. (U \cup {b}) \cup {m} = U \cup {b, m}
  OBVIOUS
<1> QED
  BY <1>2, <1>3, <1>4, TwoRun DEF createBuffer, createImage

LEMMA ViewRuns ==
  ASSUME NEW where, NEW U \in SUBSET Members, NEW R \in SUBSET PerImage,
         NEW image \in U, NEW memory \in U,
         NEW view \in Members \ (U \cup PerImage \cup {"swapChain_"}),
         view \in Children(image), view \in Children(memory)
  PROVE  Runs(where, At(U, R), createImageView(view, image, memory), At(U \cup {view}, R))
BY OneRuns DEF createImageView, Make

LEMMA ThreeRun ==
  ASSUME NEW where, NEW A, NEW B, NEW C, NEW D, NEW c, NEW d, NEW e,
         Runs(where, A, <<c>>, B), Runs(where, B, <<d>>, C), Runs(where, C, <<e>>, D)
  PROVE  Runs(where, A, <<c, d, e>>, D)
<1> DEFINE S == {c, d, e}
<1>1. /\ <<c, d>> \in Seq(S) /\ <<e>> \in Seq(S) /\ <<c, d, e>> \in Seq(S)
      /\ <<c, d>> \o <<e>> \in Seq(S)
  OBVIOUS
<1>2. /\ Len(<<c, d>> \o <<e>>) = 3 /\ (<<c, d>> \o <<e>>)[1] = c
      /\ (<<c, d>> \o <<e>>)[2] = d /\ (<<c, d>> \o <<e>>)[3] = e
  OBVIOUS
<1>3. Len(<<c, d, e>>) = 3 /\ \A i \in 1..3 : <<c, d, e>>[i] = (<<c, d>> \o <<e>>)[i]
  BY <1>2
<1>4. <<c, d, e>> = <<c, d>> \o <<e>>
  BY <1>1, <1>2, <1>3, SeqEqual
<1> QED
  BY <1>4, TwoRun, RunsThen

\* What the first k of a list take with them.
Gone(list, k) == UNION {DiesWith(list[j]) : j \in 1..k}

\* A list is destroyed in order when each member stands until its turn and what is
\* made from it goes before it or with it.
Ordered(list, up) ==
  \A k \in 1..Len(list) :
    /\ list[k] \in up /\ list[k] \notin Gone(list, k - 1)
    /\ \A q \in DiesWith(list[k]) : Children(q) \cap up \subseteq Gone(list, k)

LEMMA GoneNext ==
  ASSUME NEW list, NEW k \in Nat
  PROVE  /\ Gone(list, 0) = {}
         /\ Gone(list, k + 1) = Gone(list, k) \cup DiesWith(list[k + 1])
<1>1. 1..0 = {} /\ 1..(k + 1) = 1..k \cup {k + 1}
  OBVIOUS
<1> QED
  BY <1>1 DEF Gone

LEMMA DestroyRuns ==
  ASSUME NEW where, NEW U \in SUBSET Members, NEW R \in SUBSET PerImage,
         NEW list \in Seq(Members), Ordered(list, U), NEW do \in {"destroy", "clear"}
  PROVE  Runs(where, At(U, R), Each(do, list),
              At(U \ Gone(list, Len(list)), R \ Gone(list, Len(list))))
<1> DEFINE n == Len(list)
<1> DEFINE P == Each(do, list)
<1> DEFINE f == [k \in 0..n |-> At(U \ Gone(list, k), R \ Gone(list, k))]
<1>1. n \in Nat /\ \A k \in 1..n : list[k] \in Members
  OBVIOUS
<1>2. \A k \in 1..n : Call(do, list[k], {}, {}) \in AllCalls
  BY <1>1 DEF Call, AllCalls
<1>3. /\ P \in Seq(AllCalls) /\ Len(P) = n
      /\ \A k \in 1..n : P[k] = Call(do, list[k], {}, {})
  BY <1>1, <1>2 DEF Each
<1> HIDE DEF P
<1>4. f \in [0..n -> Standings]
  BY DEF At, Standings
<1>5. \A k \in 0..n : f[k] = At(U \ Gone(list, k), R \ Gone(list, k))
  OBVIOUS
<1> HIDE DEF f, n
<1>6. f[0] = At(U, R)
  <2>1. 0 \in 0..n /\ U \ {} = U /\ R \ {} = R /\ 0 \in Nat
    BY <1>1
  <2> QED
    BY <1>5, <2>1, GoneNext
<1>7. f[n] = At(U \ Gone(list, n), R \ Gone(list, n))
  BY <1>1, <1>5
<1>8. ASSUME NEW k \in 1..n
      PROVE  Allowed(where, P[k], f[k - 1]) /\ f[k] = Effect(P[k], f[k - 1])
  <2> DEFINE before == Gone(list, k - 1)
  <2>1. k - 1 \in 0..n /\ k \in 0..n /\ k - 1 \in Nat /\ (k - 1) + 1 = k
    BY <1>1
  <2>2. Gone(list, k) = before \cup DiesWith(list[k])
    BY <2>1, GoneNext
  <2>3. f[k - 1] = At(U \ before, R \ before)
        /\ f[k] = At(U \ Gone(list, k), R \ Gone(list, k))
    BY <1>5, <2>1
  <2>4. /\ list[k] \in U /\ list[k] \notin before
        /\ \A q \in DiesWith(list[k]) : Children(q) \cap U \subseteq Gone(list, k)
    BY DEF Ordered, n
  <2> HIDE DEF before
  <2> DEFINE c == P[k]
  <2>5. c.do = do /\ c.what = list[k] /\ c.do # "wait"
    BY <1>3 DEF Call
  <2> HIDE DEF c
  <2>6. /\ f[k - 1].up = U \ before /\ f[k - 1].ready = R \ before /\ f[k - 1].idle = TRUE
    BY <2>3 DEF At
  <2>7. Allowed(where, c, f[k - 1])
    BY <2>2, <2>4, <2>5, <2>6 DEF Allowed
  <2>8. Effect(c, f[k - 1]) =
          [up |-> (U \ before) \ DiesWith(list[k]), ready |-> (R \ before) \ DiesWith(list[k]),
           idle |-> TRUE]
    BY <2>5, <2>6 DEF Effect
  <2>9. /\ (U \ before) \ DiesWith(list[k]) = U \ Gone(list, k)
        /\ (R \ before) \ DiesWith(list[k]) = R \ Gone(list, k)
    BY <2>2
  <2>10. f[k] = Effect(c, f[k - 1])
    BY <2>3, <2>8, <2>9 DEF At
  <2> QED
    BY <2>7, <2>10 DEF c
<1>9. Runs(where, At(U, R), P, At(U \ Gone(list, n), R \ Gone(list, n)))
  BY <1>3, <1>4, <1>6, <1>7, <1>8 DEF Runs
<1> QED
  BY <1>9 DEF P, n

\* A single one, that nothing stands on.
LEMMA DestroyOneRuns ==
  ASSUME NEW where, NEW U \in SUBSET Members, NEW R \in SUBSET PerImage,
         NEW what \in U, DiesWith(what) = {what}, Children(what) \cap U = {}
  PROVE  Runs(where, At(U, R), Destroy(<<what>>), At(U \ {what}, R \ {what}))
<1> DEFINE list == <<what>>
<1>1. list \in Seq(Members) /\ Len(list) = 1 /\ list[1] = what
  OBVIOUS
<1> HIDE DEF list
<1>2. Gone(list, 0) = {} /\ Gone(list, 1) = {what}
  <2>1. Gone(list, 0 + 1) = Gone(list, 0) \cup DiesWith(list[0 + 1]) /\ Gone(list, 0) = {}
    BY GoneNext
  <2> QED
    BY <1>1, <2>1
<1>3. Ordered(list, U)
  BY <1>1, <1>2 DEF Ordered
<1> QED
  BY <1>1, <1>2, <1>3, DestroyRuns DEF Destroy, list

LEMMA DestroyTwoRuns ==
  ASSUME NEW where, NEW U \in SUBSET Members, NEW R \in SUBSET PerImage,
         NEW a \in U, NEW b \in U \ {a}, DiesWith(a) = {a}, DiesWith(b) = {b},
         Children(a) \cap U = {}, Children(b) \cap U = {}
  PROVE  Runs(where, At(U, R), Destroy(<<a, b>>), At(U \ {a, b}, R \ {a, b}))
<1> DEFINE list == <<a, b>>
<1>1. list \in Seq(Members) /\ Len(list) = 2 /\ list[1] = a /\ list[2] = b
  OBVIOUS
<1> HIDE DEF list
<1>2. Gone(list, 0) = {} /\ Gone(list, 1) = {a} /\ Gone(list, 2) = {a, b}
  <2>1. /\ Gone(list, 0 + 1) = Gone(list, 0) \cup DiesWith(list[0 + 1]) /\ Gone(list, 0) = {}
        /\ Gone(list, 1 + 1) = Gone(list, 1) \cup DiesWith(list[1 + 1])
    BY GoneNext
  <2> QED
    BY <1>1, <2>1
<1>3. Ordered(list, U)
  <2>1. ASSUME NEW k \in 1..2
        PROVE  /\ list[k] \in U /\ list[k] \notin Gone(list, k - 1)
               /\ \A q \in DiesWith(list[k]) : Children(q) \cap U \subseteq Gone(list, k)
    <3>1. CASE k = 1
      BY <1>1, <1>2, <3>1
    <3>2. CASE k = 2
      BY <1>1, <1>2, <3>2
    <3> QED
      BY <3>1, <3>2
  <2> QED
    BY <1>1, <2>1 DEF Ordered
<1> QED
  BY <1>1, <1>2, <1>3, DestroyRuns DEF Destroy, list

-----------------------------------------------------------------------------
(* init(), recreateSwapchain() and cleanup(), call by call.                   *)

\* "Must precede createFramebuffers()", "Must exist before any one-time transfer
\* command buffer": init() in its order leaves everything standing but what was
\* local to a function.
LEMMA InitRuns ==
  Runs("init", At({}, {}), InitCalls, At(Members \ Temporary, PerImage))
<1> DEFINE U1 == {"window_"}
<1> DEFINE U2 == U1 \cup {"instance_", "surface_"}
<1> DEFINE U3 == U2 \cup {"device_"}
<1> DEFINE U4 == U3 \cup {"swapChain_"}
<1> DEFINE U5 == U4 \cup {"swapChainImageViews_"}
<1> DEFINE U6 == U5 \cup {"renderPass_"}
<1> DEFINE U7 == U6 \cup {"descriptorSetLayout_"}
<1> DEFINE U8 == U7 \cup {"pipelineLayout_", "graphicsPipeline_"}
<1> DEFINE U9 == U8 \cup {"depthImage_", "depthImageMemory_", "depthImageView_"}
<1> DEFINE U10 == U9 \cup {"swapChainFramebuffers_"}
<1> DEFINE U11 == U10 \cup {"commandPool_"}
<1> DEFINE U12 == U11 \cup {"vertexBuffer_", "vertexBufferMemory_"}
<1> DEFINE U13 == U12 \cup {"indexBuffer_", "indexBufferMemory_"}
<1> DEFINE U14 == U13 \cup {"textureImage_", "textureImageMemory_"}
<1> DEFINE U15 == U14 \cup {"textureImageView_"}
<1> DEFINE U16 == U15 \cup {"textureSampler_"}
<1> DEFINE U17 == U16 \cup {"cameraUboBuffers_", "cameraUboBuffersMemory_"}
<1> DEFINE U18 == U17 \cup {"descriptorPool_"}
<1> DEFINE U19 == U18 \cup {"descriptorSets_"}
<1> DEFINE U20 == U19 \cup {"commandBuffers_"}
<1> DEFINE U21 == U20 \cup {"imageAvailableSemaphores_", "inFlightFences_", "renderFinishedSemaphores_"}
<1> DEFINE R5 == {"swapChainImageViews_"}
<1> DEFINE R10 == {"swapChainImageViews_", "swapChainFramebuffers_"}
<1>1. Runs("init", At({}, {}),
           <<Make("window_", {}), Call("spawn", "window_", {}, {})>>, At(U1, {}))
  <2>1. {} \in SUBSET Members /\ {} \in SUBSET PerImage /\ U1 \in SUBSET Members
        /\ {} \cup U1 = U1 /\ "window_" \in Members \ ({} \cup PerImage \cup {"swapChain_"})
    BY DEF PerImage, PerSlot, Temporary, NotDrawn, Members
  <2>2. Runs("init", At({}, {}), <<Make("window_", {})>>, At(U1, {}))
    BY <2>1, OneRuns DEF Make
  <2>3. Runs("init", At(U1, {}), <<Call("spawn", "window_", {}, {})>>, At(U1, {}))
    <3>1. /\ Call("spawn", "window_", {}, {}) \in AllCalls
          /\ Call("spawn", "window_", {}, {}).do = "spawn"
      BY <2>1 DEF Call, AllCalls
    <3> QED
      BY <2>1, <3>1, StayRuns
  <2> QED
    BY <2>2, <2>3, TwoRun
<1>2. Runs("init", At(U1, {}), createInstance, At(U2, {}))
  <2>1. Runs("init", At(U1, {}), <<Make("instance_", {})>>, At(U1 \cup {"instance_"}, {}))
    BY OneRuns DEF Make, PerImage, PerSlot, Temporary, NotDrawn, Members
  <2>2. Runs("init", At(U1 \cup {"instance_"}, {}),
             <<Make("surface_", {"instance_", "window_"})>>,
             At((U1 \cup {"instance_"}) \cup {"surface_"}, {}))
    BY OneRuns DEF Make, Children, PerImage, PerSlot, Temporary, NotDrawn, Members
  <2>3. (U1 \cup {"instance_"}) \cup {"surface_"} = U2
    OBVIOUS
  <2> QED
    BY <2>1, <2>2, <2>3, TwoRun DEF createInstance
<1>3. Runs("init", At(U2, {}), createLogicalDevice, At(U3, {}))
  BY OneRuns DEF createLogicalDevice, Children, PerImage, PerSlot, Temporary, NotDrawn, Members
<1>4. Runs("init", At(U3, {}), createSwapChain, At(U4, {}))
  BY MakeRuns DEF createSwapChain, Make, Children, PerImage, PerSlot, Temporary, NotDrawn,
                  Members
<1>5. Runs("init", At(U4, {}), createImageViews, At(U5, R5))
  <2>1. {} \cup {"swapChainImageViews_"} = R5
    OBVIOUS
  <2>2. Runs("init", At(U4, {}), <<Make("swapChainImageViews_", {"swapChain_"})>>,
             At(U4 \cup {"swapChainImageViews_"}, {} \cup {"swapChainImageViews_"}))
    BY OnePerImageRuns DEF Children, PerImage, PerSlot, Temporary, NotDrawn, Members
  <2> QED
    BY <2>1, <2>2 DEF createImageViews
<1>6. Runs("init", At(U5, R5), createRenderPass, At(U6, R5))
  BY OneRuns DEF createRenderPass, OnDevice, Children, PerImage, PerSlot, Temporary, NotDrawn,
                 Members
<1>7. Runs("init", At(U6, R5), createDescriptorSetLayout, At(U7, R5))
  BY OneRuns DEF createDescriptorSetLayout, Make, OnDevice, Children, PerImage, PerSlot,
                 Temporary, NotDrawn, Members
<1>8. Runs("init", At(U7, R5), createGraphicsPipeline, At(U8, R5))
  <2> DEFINE V1 == U7 \cup {"shaderModules"}
  <2> DEFINE V2 == V1 \cup {"pipelineLayout_"}
  <2> DEFINE V3 == V2 \cup {"graphicsPipeline_"}
  <2>1. Runs("init", At(U7, R5), <<Make("shaderModules", OnDevice)>>, At(V1, R5))
    BY OneRuns DEF Make, OnDevice, Children, PerImage, PerSlot, Temporary, NotDrawn, Members
  <2>2. Runs("init", At(V1, R5), <<Make("pipelineLayout_", {"descriptorSetLayout_"})>>,
             At(V2, R5))
    BY OneRuns DEF Make, Children, PerImage, PerSlot, Temporary, NotDrawn, Members
  <2>3. Runs("init", At(V2, R5),
             <<Call("create", "graphicsPipeline_", {"pipelineLayout_", "renderPass_"},
                    {"shaderModules"})>>, At(V3, R5))
    BY OneRuns DEF Children, PerImage, PerSlot, Temporary, NotDrawn, Members
  <2>4. Runs("init", At(V3, R5), Destroy(<<"shaderModules">>),
             At(V3 \ {"shaderModules"}, R5 \ {"shaderModules"}))
    <3>1. DiesWith("shaderModules") = {"shaderModules"} /\ Children("shaderModules") = {}
      BY DEF DiesWith, Children
    <3>2. V3 \in SUBSET Members /\ R5 \in SUBSET PerImage /\ "shaderModules" \in V3
      BY DEF PerImage, PerSlot, Temporary, NotDrawn, Members
    <3> QED
      BY <3>1, <3>2, DestroyOneRuns
  <2>5. V3 \ {"shaderModules"} = U8 /\ R5 \ {"shaderModules"} = R5
    OBVIOUS
  <2> HIDE DEF V1, V2, V3
  <2> QED
    BY <2>1, <2>2, <2>3, <2>4, <2>5, ThreeRun, RunsThen DEF createGraphicsPipeline
<1>9. Runs("init", At(U8, R5), createDepthResources, At(U9, R5))
  <2> DEFINE V == U8 \cup {"depthImage_", "depthImageMemory_"}
  <2>1. Runs("init", At(U8, R5), createImage("depthImage_", "depthImageMemory_"), At(V, R5))
    BY BufferRuns DEF PerImage, PerSlot, Temporary, NotDrawn, Members
  <2>2. Runs("init", At(V, R5),
             createImageView("depthImageView_", "depthImage_", "depthImageMemory_"),
             At(V \cup {"depthImageView_"}, R5))
    BY ViewRuns DEF Children, PerImage, PerSlot, Temporary, NotDrawn, Members
  <2>3. V \cup {"depthImageView_"} = U9
    OBVIOUS
  <2> QED
    BY <2>1, <2>2, <2>3, RunsThen DEF createDepthResources
<1>10. Runs("init", At(U9, R5), createFramebuffers, At(U10, R10))
  <2>1. R5 \cup {"swapChainFramebuffers_"} = R10
    OBVIOUS
  <2>2. Runs("init", At(U9, R5),
             <<Make("swapChainFramebuffers_",
                    {"renderPass_", "swapChainImageViews_", "depthImageView_"})>>,
             At(U9 \cup {"swapChainFramebuffers_"}, R5 \cup {"swapChainFramebuffers_"}))
    BY OnePerImageRuns DEF Children, PerImage, PerSlot, Temporary, NotDrawn, Members
  <2> QED
    BY <2>1, <2>2 DEF createFramebuffers
<1>11. Runs("init", At(U10, R10), createCommandPool, At(U11, R10))
  BY OneRuns DEF createCommandPool, Make, OnDevice, Children, PerImage, PerSlot, Temporary,
                 NotDrawn, Members
<1>12. Runs("init", At(U11, R10), createVertexBuffer, At(U12, R10))
  BY BufferRuns DEF createVertexBuffer, PerImage, PerSlot, Temporary, NotDrawn, Members
<1>13. Runs("init", At(U12, R10), createIndexBuffer, At(U13, R10))
  BY BufferRuns DEF createIndexBuffer, PerImage, PerSlot, Temporary, NotDrawn, Members
<1>14. Runs("init", At(U13, R10), createTextureImage, At(U14, R10))
  <2> DEFINE V1 == U13 \cup {"stagingBuffer", "stagingMemory"}
  <2> DEFINE V2 == V1 \cup {"textureImage_", "textureImageMemory_"}
  <2>1. Runs("init", At(U13, R10), createBuffer("stagingBuffer", "stagingMemory"),
             At(V1, R10))
    BY BufferRuns DEF PerImage, PerSlot, Temporary, NotDrawn, Members
  <2>2. Runs("init", At(V1, R10), createImage("textureImage_", "textureImageMemory_"),
             At(V2, R10))
    BY BufferRuns DEF PerImage, PerSlot, Temporary, NotDrawn, Members
  <2>3. /\ V2 \in SUBSET Members /\ R10 \in SUBSET PerImage
        /\ {"commandPool_", "textureImage_", "textureImageMemory_", "stagingBuffer",
            "stagingMemory"} \subseteq V2
    BY DEF PerImage, PerSlot, Temporary, NotDrawn, Members
  <2>4. Runs("init", At(V2, R10), transitionImageLayout("textureImage_", "textureImageMemory_"),
             At(V2, R10))
    <3> DEFINE c == Call("use", "commandPool_", {},
                         {"commandPool_", "textureImage_", "textureImageMemory_"})
    <3>1. c \in AllCalls /\ c.do = "use" /\ c.from \cup c.also \subseteq V2
      BY <2>3 DEF Call, AllCalls
    <3> HIDE DEF c, V2
    <3>2. Runs("init", At(V2, R10), <<c>>, At(V2, R10))
      BY <2>3, <3>1, StayRuns
    <3> QED
      BY <3>2 DEF c, transitionImageLayout
  <2>5. Runs("init", At(V2, R10), copyBufferToImage("stagingBuffer", "textureImage_"),
             At(V2, R10))
    <3> DEFINE c == Call("use", "commandPool_", {},
                         {"commandPool_", "stagingBuffer", "textureImage_"})
    <3>1. c \in AllCalls /\ c.do = "use" /\ c.from \cup c.also \subseteq V2
      BY <2>3 DEF Call, AllCalls
    <3> HIDE DEF c, V2
    <3>2. Runs("init", At(V2, R10), <<c>>, At(V2, R10))
      BY <2>3, <3>1, StayRuns
    <3> QED
      BY <3>2 DEF c, copyBufferToImage
  <2>6. Runs("init", At(V2, R10), Destroy(<<"stagingBuffer", "stagingMemory">>),
             At(V2 \ {"stagingBuffer", "stagingMemory"},
                R10 \ {"stagingBuffer", "stagingMemory"}))
    <3>1. /\ DiesWith("stagingBuffer") = {"stagingBuffer"}
          /\ DiesWith("stagingMemory") = {"stagingMemory"}
          /\ Children("stagingBuffer") = {} /\ Children("stagingMemory") = {}
      BY DEF DiesWith, Children
    <3> HIDE DEF V2
    <3> QED
      BY <2>3, <3>1, DestroyTwoRuns
  <2>7. /\ V2 \ {"stagingBuffer", "stagingMemory"} = U14
        /\ R10 \ {"stagingBuffer", "stagingMemory"} = R10
    OBVIOUS
  <2> HIDE DEF V1, V2
  <2> QED
    BY <2>1, <2>2, <2>4, <2>5, <2>6, <2>7, RunsThen DEF createTextureImage
<1>15. Runs("init", At(U14, R10), createTextureImageView, At(U15, R10))
  BY ViewRuns DEF createTextureImageView, Children, PerImage, PerSlot, Temporary, NotDrawn,
                  Members
<1>16. Runs("init", At(U15, R10), createTextureSampler, At(U16, R10))
  BY OneRuns DEF createTextureSampler, Make, OnDevice, Children, PerImage, PerSlot, Temporary,
                 NotDrawn, Members
<1>17. Runs("init", At(U16, R10), createCameraUniformBuffers, At(U17, R10))
  BY BufferRuns DEF createCameraUniformBuffers, PerImage, PerSlot, Temporary, NotDrawn, Members
<1>18. Runs("init", At(U17, R10), createDescriptorPool, At(U18, R10))
  BY OneRuns DEF createDescriptorPool, Make, OnDevice, Children, PerImage, PerSlot, Temporary,
                 NotDrawn, Members
<1>19. Runs("init", At(U18, R10), createDescriptorSets, At(U19, R10))
  BY OneRuns DEF createDescriptorSets, Children, PerImage, PerSlot, Temporary, NotDrawn,
                 Members
<1>20. Runs("init", At(U19, R10), createCommandBuffers, At(U20, R10))
  BY OneRuns DEF createCommandBuffers, Make, Children, PerImage, PerSlot, Temporary, NotDrawn,
                 Members
<1>21. Runs("init", At(U20, R10), createSyncObjects, At(U21, PerImage))
  <2> DEFINE V1 == U20 \cup {"imageAvailableSemaphores_"}
  <2> DEFINE V2 == V1 \cup {"inFlightFences_"}
  <2>1. Runs("init", At(U20, R10), <<Make("imageAvailableSemaphores_", OnDevice)>>, At(V1, R10))
    BY OneRuns DEF Make, OnDevice, Children, PerImage, PerSlot, Temporary, NotDrawn, Members
  <2>2. Runs("init", At(V1, R10), <<Make("inFlightFences_", OnDevice)>>, At(V2, R10))
    BY OneRuns DEF Make, OnDevice, Children, PerImage, PerSlot, Temporary, NotDrawn, Members
  <2>3. Runs("init", At(V2, R10), RenderFinished,
             At(V2 \cup {"renderFinishedSemaphores_"}, R10 \cup {"renderFinishedSemaphores_"}))
    BY OnePerImageRuns DEF RenderFinished, OnDevice, Children, PerImage, PerSlot, Temporary,
                           NotDrawn, Members
  <2>4. /\ V2 \cup {"renderFinishedSemaphores_"} = U21
        /\ R10 \cup {"renderFinishedSemaphores_"} = PerImage
    BY DEF PerImage
  <2> HIDE DEF V1, V2
  <2> QED
    BY <2>1, <2>2, <2>3, <2>4, TwoRun, RunsThen DEF createSyncObjects
<1>22. U21 = Members \ Temporary
  BY DEF PerImage, PerSlot, Temporary, NotDrawn, Members
<1> HIDE DEF U1, U2, U3, U4, U5, U6, U7, U8, U9, U10, U11, U12, U13, U14, U15, U16, U17, U18,
             U19, U20, U21, R5, R10
<1> DEFINE P6 == <<Make("window_", {}), Call("spawn", "window_", {}, {})>>
      \o createInstance \o createLogicalDevice \o createSwapChain \o createImageViews
      \o createRenderPass
<1> DEFINE P12 == P6 \o createDescriptorSetLayout \o createGraphicsPipeline
      \o createDepthResources \o createFramebuffers \o createCommandPool \o createVertexBuffer
<1> DEFINE P17 == P12 \o createIndexBuffer \o createTextureImage \o createTextureImageView
      \o createTextureSampler \o createCameraUniformBuffers
<1>23. Runs("init", At({}, {}), P6, At(U6, R5))
  BY <1>1, <1>2, <1>3, <1>4, <1>5, <1>6, RunsThen
<1> HIDE DEF P6
<1>24. Runs("init", At({}, {}), P12, At(U12, R10))
  BY <1>7, <1>8, <1>9, <1>10, <1>11, <1>12, <1>23, RunsThen
<1> HIDE DEF P12
<1>25. Runs("init", At({}, {}), P17, At(U17, R10))
  BY <1>13, <1>14, <1>15, <1>16, <1>17, <1>24, RunsThen
<1> HIDE DEF P17
<1>26. InitCalls = P17 \o createDescriptorPool \o createDescriptorSets \o createCommandBuffers
                     \o createSyncObjects
  BY DEF InitCalls, P6, P12, P17
<1> QED
  BY <1>18, <1>19, <1>20, <1>21, <1>22, <1>25, <1>26, RunsThen

\* recreateSwapchain(): what depends on the swapchain goes in order, and comes back
\* for the new one; the semaphores too, which are per image.
LEMMA RecreateRuns ==
  Runs("recreate", [up |-> Members \ Temporary, ready |-> PerImage, idle |-> FALSE],
       RecreateCalls, At(Members \ Temporary, PerImage))
<1> DEFINE All == Members \ Temporary
<1> DEFINE list == cleanupSwapChain
<1> DEFINE G1 == {"swapChainFramebuffers_"}
<1> DEFINE G2 == G1 \cup {"swapChainImageViews_"}
<1> DEFINE G3 == G2 \cup {"swapChain_"}
<1> DEFINE G4 == G3 \cup {"depthImageView_"}
<1> DEFINE G5 == G4 \cup {"depthImage_"}
<1> DEFINE G6 == G5 \cup {"depthImageMemory_"}
<1>1. /\ list[1] = "swapChainFramebuffers_" /\ list[2] = "swapChainImageViews_"
      /\ list[3] = "swapChain_" /\ list[4] = "depthImageView_"
      /\ list[5] = "depthImage_" /\ list[6] = "depthImageMemory_"
      /\ Len(list) = 6 /\ list \in Seq(Members)
  BY DEF cleanupSwapChain, PerImage, PerSlot, Temporary, NotDrawn, Members
<1>2. G6 \subseteq All
  BY DEF PerImage, PerSlot, Temporary, NotDrawn, Members
<1>3. \A m \in G6 : DiesWith(m) = {m}
  BY DEF DiesWith
<1> HIDE DEF list
<1>4. /\ Gone(list, 0) = {} /\ Gone(list, 1) = G1 /\ Gone(list, 2) = G2 /\ Gone(list, 3) = G3
      /\ Gone(list, 4) = G4 /\ Gone(list, 5) = G5 /\ Gone(list, 6) = G6
  <2>1. /\ Gone(list, 0) = {} /\ Gone(list, 0 + 1) = Gone(list, 0) \cup DiesWith(list[0 + 1])
        /\ Gone(list, 1 + 1) = Gone(list, 1) \cup DiesWith(list[1 + 1])
        /\ Gone(list, 2 + 1) = Gone(list, 2) \cup DiesWith(list[2 + 1])
        /\ Gone(list, 3 + 1) = Gone(list, 3) \cup DiesWith(list[3 + 1])
        /\ Gone(list, 4 + 1) = Gone(list, 4) \cup DiesWith(list[4 + 1])
        /\ Gone(list, 5 + 1) = Gone(list, 5) \cup DiesWith(list[5 + 1])
    BY GoneNext
  <2>2. \A k \in 1..6 : DiesWith(list[k]) = {list[k]}
    BY <1>1, <1>3
  <2> QED
    BY <1>1, <2>1, <2>2
<1>5. Ordered(list, All)
  <2>1. /\ Children("swapChainFramebuffers_") = {}
        /\ Children("swapChainImageViews_") = {"swapChainFramebuffers_"}
        /\ Children("swapChain_") = {"swapChainImageViews_"}
        /\ Children("depthImageView_") = {"swapChainFramebuffers_"}
        /\ Children("depthImage_") = {"depthImageView_"}
        /\ Children("depthImageMemory_") = {"depthImageView_"}
    BY DEF Children
  <2>2. ASSUME NEW k \in 1..6
        PROVE  /\ list[k] \in All /\ list[k] \notin Gone(list, k - 1)
               /\ Children(list[k]) \subseteq Gone(list, k) /\ DiesWith(list[k]) = {list[k]}
    <3>1. k = 1 \/ k = 2 \/ k = 3 \/ k = 4 \/ k = 5 \/ k = 6
      OBVIOUS
    <3> QED
      BY <1>1, <1>2, <1>3, <1>4, <2>1, <3>1
  <2> QED
    BY <1>1, <2>2 DEF Ordered
<1>6. Runs("recreate", At(All, PerImage), Clear(list), At(All \ G6, PerImage \ G6))
  <2>1. All \in SUBSET Members /\ PerImage \in SUBSET PerImage
    OBVIOUS
  <2> HIDE DEF All, G6
  <2> QED
    BY <1>1, <1>4, <1>5, <2>1, DestroyRuns DEF Clear
<1> DEFINE U1 == All \ G6
<1> DEFINE U2 == U1 \cup {"swapChain_"}
<1> DEFINE U3 == U2 \cup {"swapChainImageViews_"}
<1> DEFINE U4 == U3 \cup {"depthImage_", "depthImageMemory_"}
<1> DEFINE U5 == U4 \cup {"depthImageView_"}
<1> DEFINE U6 == U5 \cup {"swapChainFramebuffers_"}
<1> DEFINE U7 == U6 \ {"renderFinishedSemaphores_"}
<1> DEFINE R3 == {"swapChainImageViews_"}
<1> DEFINE R6 == {"swapChainImageViews_", "swapChainFramebuffers_"}
<1>7. Runs("recreate", [up |-> All, ready |-> PerImage, idle |-> FALSE], WaitIdle,
           At(All, PerImage))
  BY WaitRuns
<1>8. Runs("recreate", At(U1, PerImage \ G6), createSwapChain, At(U2, {}))
  BY MakeRuns DEF createSwapChain, Make, Children, PerImage, PerSlot, Temporary, NotDrawn,
                  Members
<1>9. Runs("recreate", At(U2, {}), createImageViews, At(U3, R3))
  <2>1. {} \cup {"swapChainImageViews_"} = R3
    OBVIOUS
  <2>2. Runs("recreate", At(U2, {}), <<Make("swapChainImageViews_", {"swapChain_"})>>,
             At(U2 \cup {"swapChainImageViews_"}, {} \cup {"swapChainImageViews_"}))
    BY OnePerImageRuns DEF Children, PerImage, PerSlot, Temporary, NotDrawn, Members
  <2> QED
    BY <2>1, <2>2 DEF createImageViews
<1>10. Runs("recreate", At(U3, R3), createImage("depthImage_", "depthImageMemory_"),
            At(U4, R3))
  BY BufferRuns DEF PerImage, PerSlot, Temporary, NotDrawn, Members
<1>11. Runs("recreate", At(U4, R3),
            createImageView("depthImageView_", "depthImage_", "depthImageMemory_"),
            At(U5, R3))
  BY ViewRuns DEF Children, PerImage, PerSlot, Temporary, NotDrawn, Members
<1>12. Runs("recreate", At(U5, R3), createFramebuffers, At(U6, R6))
  <2>1. R3 \cup {"swapChainFramebuffers_"} = R6
    OBVIOUS
  <2>2. Runs("recreate", At(U5, R3),
             <<Make("swapChainFramebuffers_",
                    {"renderPass_", "swapChainImageViews_", "depthImageView_"})>>,
             At(U5 \cup {"swapChainFramebuffers_"}, R3 \cup {"swapChainFramebuffers_"}))
    BY OnePerImageRuns DEF Children, PerImage, PerSlot, Temporary, NotDrawn, Members
  <2> QED
    BY <2>1, <2>2 DEF createFramebuffers
<1>13. Runs("recreate", At(U6, R6), Destroy(<<"renderFinishedSemaphores_">>), At(U7, R6))
  <2>1. /\ DiesWith("renderFinishedSemaphores_") = {"renderFinishedSemaphores_"}
        /\ Children("renderFinishedSemaphores_") = {}
    BY DEF DiesWith, Children
  <2>2. /\ U6 \in SUBSET Members /\ R6 \in SUBSET PerImage /\ "renderFinishedSemaphores_" \in U6
        /\ R6 \ {"renderFinishedSemaphores_"} = R6
    BY DEF PerImage, PerSlot, Temporary, NotDrawn, Members
  <2> HIDE DEF U6, R6
  <2> QED
    BY <2>1, <2>2, DestroyOneRuns
<1>14. Runs("recreate", At(U7, R6), RenderFinished, At(All, PerImage))
  <2>1. /\ U7 \cup {"renderFinishedSemaphores_"} = All
        /\ R6 \cup {"renderFinishedSemaphores_"} = PerImage
    BY <1>2 DEF PerImage, PerSlot, Temporary, NotDrawn, Members
  <2>2. Runs("recreate", At(U7, R6), RenderFinished,
             At(U7 \cup {"renderFinishedSemaphores_"}, R6 \cup {"renderFinishedSemaphores_"}))
    BY OnePerImageRuns DEF RenderFinished, OnDevice, Children, PerImage, PerSlot, Temporary,
                           NotDrawn, Members
  <2> QED
    BY <2>1, <2>2
<1> HIDE DEF All, U1, U2, U3, U4, U5, U6, U7, R3, R6, G1, G2, G3, G4, G5, G6
<1>15. Runs("recreate", At(U3, R3), createDepthResources, At(U5, R3))
  BY <1>10, <1>11, RunsThen DEF createDepthResources
<1>16. Runs("recreate", At(All, PerImage), Clear(list), At(U1, PerImage \ G6))
  BY <1>6 DEF U1
<1>17. Runs("recreate", [up |-> All, ready |-> PerImage, idle |-> FALSE], RecreateCalls,
            At(All, PerImage))
  BY <1>7, <1>8, <1>9, <1>12, <1>13, <1>14, <1>15, <1>16, RunsThen DEF RecreateCalls, list
<1> QED
  BY <1>17 DEF All

LEMMA OneMore ==
  ASSUME NEW S, NEW s, NEW e, NEW t, s \in Seq(S), e \in S, t = s \o <<e>>
  PROVE  /\ t \in Seq(S) /\ Len(t) = Len(s) + 1
         /\ t[Len(s) + 1] = e /\ \A k \in 1..Len(s) : t[k] = s[k]
OBVIOUS

\* When cleanup() destroys a member, by itself or with the pool it is from.
Turn(m) ==
  CASE m = "renderFinishedSemaphores_" -> 1
    [] m = "imageAvailableSemaphores_" -> 2
    [] m = "inFlightFences_" -> 3
    [] m \in {"commandPool_", "commandBuffers_"} -> 4
    [] m = "swapChainFramebuffers_" -> 5
    [] m = "graphicsPipeline_" -> 6
    [] m = "pipelineLayout_" -> 7
    [] m = "renderPass_" -> 8
    [] m = "swapChainImageViews_" -> 9
    [] m = "swapChain_" -> 10
    [] m = "depthImageView_" -> 11
    [] m = "depthImage_" -> 12
    [] m = "depthImageMemory_" -> 13
    [] m = "cameraUboBuffers_" -> 14
    [] m = "cameraUboBuffersMemory_" -> 15
    [] m \in {"descriptorPool_", "descriptorSets_"} -> 16
    [] m = "textureSampler_" -> 17
    [] m = "textureImageView_" -> 18
    [] m = "textureImage_" -> 19
    [] m = "textureImageMemory_" -> 20
    [] m = "descriptorSetLayout_" -> 21
    [] m = "indexBuffer_" -> 22
    [] m = "indexBufferMemory_" -> 23
    [] m = "vertexBuffer_" -> 24
    [] m = "vertexBufferMemory_" -> 25
    [] m = "device_" -> 26
    [] m = "surface_" -> 27
    [] m = "instance_" -> 28
    [] OTHER -> 29

\* cleanup(): in its order nothing is destroyed before what is made from it, and
\* nothing is left.
LEMMA CleanupRuns ==
  Runs("cleanup", [up |-> Members \ Temporary, ready |-> PerImage, idle |-> FALSE],
       CleanupCalls, At({}, {}))
<1> DEFINE All == Members \ Temporary
<1> DEFINE list == CleanupOrder \o <<"window_">>
<1>1. CleanupOrder \in Seq(Members) /\ Len(CleanupOrder) = 28 /\ "window_" \in Members
  BY DEF CleanupOrder, PerImage, PerSlot, Temporary, NotDrawn, Members
<1>2. /\ list \in Seq(Members) /\ Len(list) = 29 /\ list[29] = "window_"
      /\ \A k \in 1..28 : list[k] = CleanupOrder[k]
  <2>1. PICK order : order = CleanupOrder
    OBVIOUS
  <2>2. PICK e : e = "window_"
    OBVIOUS
  <2>3. list = order \o <<e>>
    BY <2>1, <2>2
  <2>4. order \in Seq(Members) /\ e \in Members
    BY <1>1, <2>1, <2>2
  <2> HIDE DEF list
  <2>5. /\ list \in Seq(Members) /\ Len(list) = Len(order) + 1 /\ list[Len(order) + 1] = e
        /\ \A k \in 1..Len(order) : list[k] = order[k]
    BY <2>3, <2>4, OneMore
  <2>6. Len(order) = 28 /\ 28 + 1 = 29
    BY <1>1, <2>1
  <2>7. /\ list \in Seq(Members) /\ Len(list) = 29 /\ list[29] = e
        /\ \A k \in 1..28 : list[k] = order[k]
    BY <2>5, <2>6, Zenon
  <2> QED
    BY <2>1, <2>2, <2>7
<1>3. /\ list[1] = "renderFinishedSemaphores_"
      /\ list[2] = "imageAvailableSemaphores_"
      /\ list[3] = "inFlightFences_"
      /\ list[4] = "commandPool_"
      /\ list[5] = "swapChainFramebuffers_"
      /\ list[6] = "graphicsPipeline_"
      /\ list[7] = "pipelineLayout_"
      /\ list[8] = "renderPass_"
      /\ list[9] = "swapChainImageViews_"
      /\ list[10] = "swapChain_"
      /\ list[11] = "depthImageView_"
      /\ list[12] = "depthImage_"
      /\ list[13] = "depthImageMemory_"
      /\ list[14] = "cameraUboBuffers_"
      /\ list[15] = "cameraUboBuffersMemory_"
      /\ list[16] = "descriptorPool_"
      /\ list[17] = "textureSampler_"
      /\ list[18] = "textureImageView_"
      /\ list[19] = "textureImage_"
      /\ list[20] = "textureImageMemory_"
      /\ list[21] = "descriptorSetLayout_"
      /\ list[22] = "indexBuffer_"
      /\ list[23] = "indexBufferMemory_"
      /\ list[24] = "vertexBuffer_"
      /\ list[25] = "vertexBufferMemory_"
      /\ list[26] = "device_"
      /\ list[27] = "surface_"
      /\ list[28] = "instance_"
      /\ list[29] = "window_"
  BY <1>2 DEF CleanupOrder
<1> HIDE DEF list
<1>4. ASSUME NEW m \in All
      PROVE  Turn(m) \in 1..29 /\ m \in DiesWith(list[Turn(m)])
  <2>1. Turn(m) \in 1..29
    BY DEF Turn
  <2>2. m \notin {"commandBuffers_", "descriptorSets_"} => list[Turn(m)] = m
    BY <1>3 DEF Turn, PerImage, PerSlot, Temporary, NotDrawn, Members
  <2>3. m \in DiesWith(m)
    BY DEF DiesWith
  <2>4. m = "commandBuffers_" => list[Turn(m)] = "commandPool_"
    BY <1>3 DEF Turn
  <2>5. m = "descriptorSets_" => list[Turn(m)] = "descriptorPool_"
    BY <1>3 DEF Turn
  <2>6. /\ "commandBuffers_" \in DiesWith("commandPool_")
        /\ "descriptorSets_" \in DiesWith("descriptorPool_")
    BY DEF DiesWith
  <2> QED
    BY <2>1, <2>2, <2>3, <2>4, <2>5, <2>6
<1>5. ASSUME NEW k \in 1..29
      PROVE  /\ list[k] \in DiesWith(list[k])
             /\ \A m \in DiesWith(list[k]) : m \in All /\ Turn(m) = k
  BY <1>3 DEF Turn, DiesWith, PerImage, PerSlot, Temporary, NotDrawn, Members
<1>6. ASSUME NEW q \in All, NEW m \in Children(q) \cap All
      PROVE  Turn(m) <= Turn(q)
  BY DEF Turn, Children, PerImage, PerSlot, Temporary, NotDrawn, Members
<1>7. ASSUME NEW k \in 0..29, NEW m
      PROVE  m \in Gone(list, k) <=> m \in All /\ Turn(m) <= k
  <2>1. m \in Gone(list, k) <=> \E j \in 1..k : m \in DiesWith(list[j])
    BY DEF Gone
  <2>2. ASSUME NEW j \in 1..k, m \in DiesWith(list[j])
        PROVE  m \in All /\ Turn(m) <= k
    <3>1. j \in 1..29
      OBVIOUS
    <3>2. m \in All /\ Turn(m) = j
      BY <1>5, <2>2, <3>1
    <3> QED
      BY <3>2
  <2>3. ASSUME m \in All, Turn(m) <= k
        PROVE  \E j \in 1..k : m \in DiesWith(list[j])
    <3>1. Turn(m) \in 1..k
      BY <1>4, <2>3
    <3> QED
      BY <1>4, <2>3, <3>1
  <2> QED
    BY <2>1, <2>2, <2>3
<1>8. Ordered(list, All)
  <2> SUFFICES ASSUME NEW k \in 1..29
               PROVE  /\ list[k] \in All /\ list[k] \notin Gone(list, k - 1)
                      /\ \A q \in DiesWith(list[k]) : Children(q) \cap All \subseteq Gone(list, k)
    BY <1>2 DEF Ordered
  <2>1. list[k] \in All /\ Turn(list[k]) = k
    BY <1>5
  <2>2. list[k] \notin Gone(list, k - 1)
    BY <1>7, <2>1
  <2>3. ASSUME NEW q \in DiesWith(list[k]), NEW m \in Children(q) \cap All
        PROVE  m \in Gone(list, k)
    <3>1. q \in All /\ Turn(q) = k
      BY <1>5
    <3>2. Turn(m) <= k
      BY <1>6, <3>1
    <3>3. k \in 0..29
      OBVIOUS
    <3> QED
      BY <1>7, <3>2, <3>3
  <2> QED
    BY <2>1, <2>2, <2>3
<1>9. All \ Gone(list, 29) = {} /\ PerImage \ Gone(list, 29) = {}
  <2>1. ASSUME NEW m \in All PROVE m \in Gone(list, 29)
    <3>1. Turn(m) <= 29 /\ 29 \in 0..29
      BY <1>4
    <3> QED
      BY <1>7, <3>1
  <2>2. PerImage \subseteq All
    BY DEF PerImage, Temporary, Members
  <2> QED
    BY <2>1, <2>2
<1>10. All \in SUBSET Members /\ PerImage \in SUBSET PerImage
  OBVIOUS
<1> HIDE DEF All
<1>11. Runs("cleanup", At(All, PerImage), Destroy(list), At({}, {}))
  <2>1. Runs("cleanup", At(All, PerImage), Each("destroy", list),
             At(All \ Gone(list, Len(list)), PerImage \ Gone(list, Len(list))))
    BY <1>2, <1>8, <1>10, DestroyRuns
  <2>2. Len(list) = 29
    BY <1>2
  <2> QED
    BY <1>9, <2>1, <2>2 DEF Destroy
<1>12. Runs("cleanup", [up |-> All, ready |-> PerImage, idle |-> FALSE], WaitIdle,
            At(All, PerImage))
  BY <1>10, WaitRuns
<1>13. Runs("cleanup", [up |-> All, ready |-> PerImage, idle |-> FALSE], CleanupCalls,
            At({}, {}))
  BY <1>11, <1>12, RunsThen DEF CleanupCalls, list
<1> QED
  BY <1>13 DEF All

-----------------------------------------------------------------------------
(* The inductive invariant.                                                  *)

\* What stands in the loop, and where a function ends.
Standing == [up |-> Members \ Temporary, ready |-> PerImage, idle |-> FALSE]
Goal(where) == IF where = "cleanup" THEN At({}, {}) ELSE At(Members \ Temporary, PerImage)
Functions == {"init", "recreate", "cleanup"}

\* The rest of the function main() is in leads from what stands now to its goal.
Program ==
  /\ phase \in Functions =>
       \E A \in Standings : Describes(A) /\ Runs(phase, A, calls, Goal(phase))
  /\ phase \notin Functions => calls = <<>>
  /\ phase \in {"poll", "draw", "resized", "measure", "join"} => Describes(Standing)
  /\ phase = "returned" => Alive = {}

\* The logic thread runs from its spawn in init() until the join.
Joined ==
  /\ phase \in {"cleanup", "returned"} => logicThread = "joined"
  /\ phase = "caught" => logicThread = "none"

Phases == {"init", "poll", "draw", "resized", "measure", "recreate", "join", "cleanup",
           "returned", "caught", "terminated"}
\* A size is only asked for to make the swapchain anew.
MayRecreate == phase \in {"resized", "measure"} => recreations < MaxRecreations
Types ==
  /\ phase \in Phases /\ MayRecreate
  /\ recreations \in 0..MaxRecreations /\ swapchain.images \in Nat \ {0}
  /\ DOMAIN inFlight = 0..MAX_FRAMES_IN_FLIGHT - 1 /\ currentFrame_ \in DOMAIN inFlight
  /\ framebufferResized_ \in BOOLEAN /\ shouldClose \in BOOLEAN /\ g_Running \in BOOLEAN
  /\ logicThread \in {"none", "running", "ended", "joined"}
  /\ windowState_ \in [isFullscreen : BOOLEAN, windowed : Places]
  /\ place \in Places \cup {"monitor"} /\ wanted \in Places
  /\ minimised \in BOOLEAN /\ size \in {"unread", "zero", "some"}

\* TypeOK and LifetimesNest alone say nothing of the calls still to come: that the
\* next one finds what it needs is known from all of them, and from what stands.
ObjectsInv == Named /\ InFlightAlive /\ Program
Inv == Types /\ PlaceSaved /\ ObjectsInv /\ Joined

\* The next call is allowed, and the others go on from what it leaves.
LEMMA NextCall ==
  ASSUME Program, calls # <<>>
  PROVE  /\ phase \in Functions
         /\ \E A \in Standings :
              /\ Describes(A) /\ Head(calls) \in AllCalls /\ Allowed(phase, Head(calls), A)
              /\ Effect(Head(calls), A) \in Standings
              /\ Runs(phase, Effect(Head(calls), A), Tail(calls), Goal(phase))
<1>1. phase \in Functions
  BY DEF Program
<1>2. PICK A \in Standings : Describes(A) /\ Runs(phase, A, calls, Goal(phase))
  BY <1>1 DEF Program
<1>3. /\ Head(calls) \in AllCalls /\ Allowed(phase, Head(calls), A)
      /\ Runs(phase, Effect(Head(calls), A), Tail(calls), Goal(phase))
  BY <1>2, RunsHead
<1>4. Effect(Head(calls), A) \in Standings
  BY <1>3, EffectStands
<1> QED
  BY <1>1, <1>2, <1>3, <1>4

LEMMA GoesOn ==
  ASSUME phase \in Functions, NEW B \in Standings, Describes(B)',
         Runs(phase, B, Tail(calls), Goal(phase)), phase' = phase, calls' = Tail(calls)
  PROVE  Program'
<1>1. Runs(phase', B, calls', Goal(phase'))
  OBVIOUS
<1>2. phase' \in Functions /\ phase' \notin {"poll", "draw", "resized", "measure", "join"} /\ phase' # "returned"
  BY DEF Functions
<1> QED
  BY <1>1, <1>2 DEF Program

\* Nothing of what a standing is about changes.
LEMMA SameObjects ==
  ASSUME Named, InFlightAlive, UNCHANGED <<objectVars, inFlight>>
  PROVE  Named' /\ InFlightAlive' /\ Alive' = Alive /\ DeviceIdle' = DeviceIdle
         /\ \A A : Describes(A) => Describes(A)'
<1>1. live' = live /\ handle' = handle /\ swapchain' = swapchain /\ inFlight' = inFlight
  BY DEF objectVars
<1> QED
  BY <1>1 DEF Named, InFlightAlive, Alive, DeviceIdle, Describes, HasAll

\* The idle device may get work again.
LEMMA NotIdle ==
  ASSUME Describes(At(Members \ Temporary, PerImage))
  PROVE  Describes(Standing)
BY DEF Describes, At, Standing

-----------------------------------------------------------------------------
(* Every call of a function keeps it.                                        *)

LEMMA CreateKeeps ==
  ASSUME Types, ObjectsInv, CreateObjects \/ CreateSwapChain
  PROVE  ObjectsInv'
<1>1. /\ Doing("create") /\ Done /\ calls # <<>> /\ Head(calls).do = "create"
      /\ Named /\ InFlightAlive /\ Program /\ recreations \in 0..MaxRecreations
  BY DEF CreateObjects, CreateSwapChain, Doing, ObjectsInv, Types
<1>2. PICK c : c = Head(calls)
  OBVIOUS
<1>3. PICK A \in Standings :
        /\ Describes(A) /\ c \in AllCalls /\ Allowed(phase, c, A) /\ Effect(c, A) \in Standings
        /\ Runs(phase, Effect(c, A), Tail(calls), Goal(phase))
  BY <1>1, <1>2, NextCall
<1>4. PICK B : B = Effect(c, A)
  OBVIOUS
<1>5. PICK n \in Nat \ {0} :
        /\ Hold(n)
        /\ \/ What = "swapChain_"
           \/ What # "swapChain_" /\ n = swapchain.images /\ swapchain' = swapchain
  BY DEF CreateObjects, CreateSwapChain, Types
<1>6. UNCHANGED inFlight /\ phase' = phase /\ calls' = Tail(calls)
  BY <1>1 DEF Done, frameVars
<1>7. Named' /\ InFlightAlive' /\ Describes(B)'
  BY <1>1, <1>2, <1>3, <1>4, <1>5, <1>6, HoldKeeps
<1>8. Program'
  BY <1>1, <1>3, <1>4, <1>6, <1>7, NextCall, GoesOn
<1> QED
  BY <1>7, <1>8 DEF ObjectsInv

LEMMA DestructionKeeps ==
  ASSUME ObjectsInv, DestroyObjects
  PROVE  ObjectsInv'
<1>1. /\ calls # <<>> /\ Head(calls).do \in {"destroy", "clear"} /\ Done
      /\ Named /\ InFlightAlive /\ Program
  BY DEF DestroyObjects, Doing, ObjectsInv
<1>2. PICK c : c = Head(calls)
  OBVIOUS
<1>3. PICK A \in Standings :
        /\ Describes(A) /\ c \in AllCalls /\ Allowed(phase, c, A) /\ Effect(c, A) \in Standings
        /\ Runs(phase, Effect(c, A), Tail(calls), Goal(phase))
  BY <1>1, <1>2, NextCall
<1>4. PICK B : B = Effect(c, A)
  OBVIOUS
<1>5. phase' = phase /\ calls' = Tail(calls)
  BY <1>1 DEF Done
<1>6. Named' /\ InFlightAlive' /\ Describes(B)'
  BY <1>1, <1>2, <1>3, <1>4, DestroyKeeps
<1>7. Program'
  BY <1>1, <1>3, <1>4, <1>5, <1>6, NextCall, GoesOn
<1> QED
  BY <1>6, <1>7 DEF ObjectsInv

\* Waiting, uploading and starting the logic thread leave the objects alone.
LEMMA OthersKeep ==
  ASSUME ObjectsInv, WaitForDevice \/ Upload \/ SpawnLogicThread
  PROVE  ObjectsInv'
<1>1. /\ calls # <<>> /\ Head(calls).do \in {"wait", "use", "spawn"} /\ Done
      /\ Named /\ InFlightAlive /\ Program /\ UNCHANGED objectVars
      /\ Head(calls).do = "wait" => DeviceIdle
  BY DEF WaitForDevice, Upload, SpawnLogicThread, Doing, ObjectsInv
<1>2. PICK c : c = Head(calls)
  OBVIOUS
<1>3. PICK A \in Standings :
        /\ Describes(A) /\ c \in AllCalls /\ Allowed(phase, c, A) /\ Effect(c, A) \in Standings
        /\ Runs(phase, Effect(c, A), Tail(calls), Goal(phase))
  BY <1>1, <1>2, NextCall
<1>4. PICK B : B = Effect(c, A)
  OBVIOUS
<1>5. UNCHANGED inFlight /\ phase' = phase /\ calls' = Tail(calls)
  BY <1>1 DEF Done, frameVars
<1>6. B.up = A.up /\ B.ready = A.ready /\ B.idle = (A.idle \/ c.do = "wait")
  BY <1>1, <1>2, <1>4 DEF Effect
<1>7. Describes(B)
  BY <1>1, <1>2, <1>3, <1>6 DEF Describes
<1>8. Named' /\ InFlightAlive' /\ Describes(B)'
  BY <1>1, <1>5, <1>7, SameObjects
<1>9. Program'
  BY <1>1, <1>3, <1>4, <1>5, <1>8, NextCall, GoesOn
<1> QED
  BY <1>8, <1>9 DEF ObjectsInv

\* init() and recreateSwapchain() return with what the loop needs, cleanup() with
\* nothing left.
LEMMA ReturnKeeps ==
  ASSUME ObjectsInv, FunctionReturns
  PROVE  ObjectsInv'
<1>1. /\ calls = <<>> /\ phase \in Functions /\ calls' = <<>>
      /\ phase' = IF phase = "cleanup" THEN "returned" ELSE "poll"
      /\ Named /\ InFlightAlive /\ Program /\ UNCHANGED <<objectVars, inFlight>>
  BY DEF FunctionReturns, Goto, Functions, ObjectsInv
<1>2. PICK A \in Standings : Describes(A) /\ Runs(phase, A, <<>>, Goal(phase))
  BY <1>1 DEF Program
<1>3. Describes(Goal(phase))
  BY <1>2, RunsNothing
<1>4. Named' /\ InFlightAlive' /\ Alive' = Alive /\ \A S : Describes(S) => Describes(S)'
  BY <1>1, SameObjects
<1>5. CASE phase = "cleanup"
  <2>1. Describes(At({}, {}))
    BY <1>3, <1>5 DEF Goal
  <2>2. \A m \in Members : handle[m] \cap Alive = {}
    BY <2>1 DEF Describes, At
  <2>3. Alive = {}
    BY <1>1, <2>2 DEF Named
  <2>4. phase' = "returned" /\ Alive' = {}
    BY <1>1, <1>4, <1>5, <2>3
  <2> QED
    BY <1>1, <1>4, <2>4 DEF ObjectsInv, Program, Functions
<1>6. CASE phase # "cleanup"
  <2>1. phase' = "poll" /\ Describes(Standing)
    BY <1>1, <1>3, <1>6, NotIdle DEF Goal
  <2>2. Describes(Standing)'
    BY <1>4, <2>1
  <2> QED
    BY <1>1, <1>4, <2>1, <2>2 DEF ObjectsInv, Program, Functions
<1> QED
  BY <1>5, <1>6

\* The loops that ask for a size go on, or the recreation begins.
LEMMA MeasureMoves ==
  ASSUME Measure \/ WaitEvents
  PROVE  /\ phase \in {"resized", "measure"}
         /\ UNCHANGED <<live, handle, swapchain, currentFrame_, inFlight, logicThread>>
         /\ \/ phase' \in {phase, "measure"} /\ UNCHANGED <<calls, recreations>>
            \/ /\ phase' = "recreate" /\ calls' = RecreateCalls
               /\ recreations' = recreations + 1
<1>1. CASE Measure
  BY <1>1 DEF Measure, Measuring, Measured, Goto, programVars, frameVars, threadVars
<1>2. CASE WaitEvents
  BY <1>2 DEF WaitEvents, Events, Measuring, Measured, Goto, programVars
<1> QED
  BY <1>1, <1>2

\* An exception, a poll, a frame that gives up, leaving the loop, the logic thread, the
\* user.
LEMMA LoopKeeps ==
  ASSUME ObjectsInv,
         \/ Throw \/ Poll \/ DrawRecreates \/ LeaveLoop \/ LogicEnds \/ MoveWindow \/ Minimise
         \/ (Measure \/ WaitEvents) /\ phase' # "recreate"
  PROVE  ObjectsInv'
<1>1. Named /\ InFlightAlive /\ Program /\ UNCHANGED <<objectVars, inFlight>>
  <2>1. CASE (Measure \/ WaitEvents) /\ phase' # "recreate"
    BY <2>1, MeasureMoves DEF ObjectsInv, objectVars
  <2> QED
    BY <2>1 DEF ObjectsInv, Throw, Poll, Events, DrawRecreates, LeaveLoop, LogicEnds,
                MoveWindow, Minimise, frameVars, objectVars
<1>2. /\ Named' /\ InFlightAlive' /\ Alive' = Alive
      /\ \A S : Describes(S) => Describes(S)'
  BY <1>1, SameObjects
<1>3. \/ phase' = phase /\ calls' = calls
      \/ phase' \in {"caught", "terminated"} /\ calls' = <<>>
      \/ /\ phase \in {"poll", "draw", "resized", "measure", "join"} /\ phase' \in {"poll", "draw", "resized", "measure", "join"}
         /\ calls' = calls \/ calls' = <<>>
  <2>1. CASE (Measure \/ WaitEvents) /\ phase' # "recreate"
    BY <2>1, MeasureMoves
  <2> QED
    BY <2>1 DEF Throw, Poll, DrawRecreates, LeaveLoop, LogicEnds, MoveWindow, Minimise,
                Goto, programVars
<1>4. CASE phase' = phase /\ calls' = calls
  <2>1. ASSUME phase \in Functions
        PROVE  \E A \in Standings : Describes(A)' /\ Runs(phase, A, calls, Goal(phase))
    BY <1>1, <1>2, <2>1 DEF Program
  <2>2. phase \in {"poll", "draw", "resized", "measure", "join"} => Describes(Standing)'
    BY <1>1, <1>2 DEF Program
  <2>3. Program'
    BY <1>1, <1>2, <1>4, <2>1, <2>2 DEF Program
  <2> QED
    BY <1>2, <2>3 DEF ObjectsInv
<1>5. CASE phase' \in {"caught", "terminated"} /\ calls' = <<>>
  BY <1>2, <1>5 DEF ObjectsInv, Program, Functions
<1>6. CASE /\ phase \in {"poll", "draw", "resized", "measure", "join"} /\ phase' \in {"poll", "draw", "resized", "measure", "join"}
           /\ calls' = calls \/ calls' = <<>>
  <2>1. calls' = <<>> /\ Describes(Standing)
    BY <1>1, <1>6 DEF Program, Functions
  <2>2. Describes(Standing)'
    BY <1>2, <2>1
  <2> QED
    BY <1>2, <1>6, <2>1, <2>2 DEF ObjectsInv, Program, Functions
<1> QED
  BY <1>3, <1>4, <1>5, <1>6

\* A frame uses what stands in the loop.
LEMMA FrameAlive ==
  ASSUME Describes(Standing), NEW image
  PROVE  FrameUses(image) \subseteq Alive
<1>1. \A m \in Members \ (Temporary \cup NotDrawn) : handle[m] \subseteq Alive
  BY DEF Describes, Standing
<1> QED
  BY <1>1 DEF FrameUses

\* recreateSwapchain() and cleanup() begin with what stands in the loop.
LEMMA BeginKeeps ==
  ASSUME Named, InFlightAlive', Describes(Standing), UNCHANGED <<live, handle, swapchain>>,
         \/ phase' \in {"poll", "measure"} /\ calls' = <<>>
         \/ phase' = "recreate" /\ calls' = RecreateCalls
         \/ phase' = "cleanup" /\ calls' = CleanupCalls
  PROVE  ObjectsInv'
<1>1. Named'
  BY DEF Named, Alive
<1>2. Describes(Standing)'
  <2>1. Standing.idle = FALSE
    BY DEF Standing
  <2> QED
    BY <2>1 DEF Describes, Alive, HasAll
<1>3. Standing \in Standings
  BY DEF Standing, Standings, Temporary, PerImage
<1>4. CASE phase' \in {"poll", "measure"} /\ calls' = <<>>
  BY <1>1, <1>2, <1>4 DEF ObjectsInv, Program, Functions
<1>5. CASE phase' = "recreate" /\ calls' = RecreateCalls
  <2>1. Runs("recreate", Standing, RecreateCalls, Goal("recreate"))
    BY RecreateRuns DEF Standing, Goal
  <2>2. Runs(phase', Standing, calls', Goal(phase'))
    BY <1>5, <2>1
  <2> QED
    BY <1>1, <1>2, <1>3, <1>5, <2>2 DEF ObjectsInv, Program, Functions
<1>6. CASE phase' = "cleanup" /\ calls' = CleanupCalls
  <2>1. Runs("cleanup", Standing, CleanupCalls, Goal("cleanup"))
    BY CleanupRuns DEF Standing, Goal
  <2>2. Runs(phase', Standing, calls', Goal(phase'))
    BY <1>6, <2>1
  <2> QED
    BY <1>1, <1>2, <1>3, <1>6, <2>2 DEF ObjectsInv, Program, Functions
<1> QED
  BY <1>4, <1>5, <1>6

LEMMA DrawKeeps ==
  ASSUME ObjectsInv, DrawFrame \/ ((Measure \/ WaitEvents) /\ phase' = "recreate")
  PROVE  ObjectsInv'
<1>1. Named /\ InFlightAlive /\ Describes(Standing)
  BY MeasureMoves DEF ObjectsInv, Program, DrawFrame
<1>2. /\ UNCHANGED <<live, handle, swapchain>>
      /\ \/ phase' \in {"poll", "measure"} /\ calls' = <<>>
         \/ phase' = "recreate" /\ calls' = RecreateCalls
  <2>1. CASE DrawFrame
    BY <2>1 DEF DrawFrame, ObjectsInv, Program, Functions, objectVars
  <2>2. CASE (Measure \/ WaitEvents) /\ phase' = "recreate"
    BY <2>2, MeasureMoves
  <2> QED
    BY <2>1, <2>2
<1>3. \/ inFlight' = inFlight
      \/ \E image : inFlight' = [inFlight EXCEPT ![currentFrame_] = FrameUses(image)]
  BY MeasureMoves DEF DrawFrame
<1>4. Alive' = Alive
  BY <1>2 DEF Alive
<1>5. InFlightAlive'
  <2>1. CASE inFlight' = inFlight
    BY <1>1, <1>4, <2>1 DEF InFlightAlive
  <2>2. ASSUME NEW image, inFlight' = [inFlight EXCEPT ![currentFrame_] = FrameUses(image)]
        PROVE  InFlightAlive'
    <3>1. FrameUses(image) \subseteq Alive
      BY <1>1, FrameAlive
    <3> QED
      BY <1>1, <1>4, <2>2, <3>1 DEF InFlightAlive
  <2> QED
    BY <1>3, <2>1, <2>2
<1> QED
  BY <1>1, <1>2, <1>5, BeginKeeps

LEMMA JoinKeeps ==
  ASSUME ObjectsInv, Join
  PROVE  ObjectsInv'
<1>1. Named /\ InFlightAlive /\ Describes(Standing)
  BY DEF ObjectsInv, Program, Join
<1>2. /\ UNCHANGED <<live, handle, swapchain, inFlight>>
      /\ phase' = "cleanup" /\ calls' = CleanupCalls
  BY DEF Join, Goto, objectVars, frameVars
<1>3. InFlightAlive'
  BY <1>1, <1>2 DEF InFlightAlive, Alive
<1> QED
  BY <1>1, <1>2, <1>3, BeginKeeps

\* The GPU finishes: a device that was idle stays so.
LEMMA FinishKeeps ==
  ASSUME ObjectsInv, NEW s \in DOMAIN inFlight, Finish(s)
  PROVE  ObjectsInv'
<1>1. /\ UNCHANGED <<objectVars, phase, calls>>
      /\ inFlight' = [inFlight EXCEPT ![s] = {}]
      /\ Named /\ InFlightAlive /\ Program
  BY DEF Finish, ObjectsInv, programVars
<1>2. live' = live /\ handle' = handle /\ swapchain' = swapchain /\ Alive' = Alive
  BY <1>1 DEF objectVars, Alive
<1>3. Named' /\ InFlightAlive' /\ (DeviceIdle => DeviceIdle')
  BY <1>1, <1>2 DEF Named, InFlightAlive, DeviceIdle
<1>4. ASSUME NEW A, Describes(A) PROVE Describes(A)'
  BY <1>2, <1>3, <1>4 DEF Describes, HasAll
<1>5. ASSUME phase \in Functions
      PROVE  \E A \in Standings : Describes(A)' /\ Runs(phase, A, calls, Goal(phase))
  BY <1>1, <1>4, <1>5 DEF Program
<1>6. phase \in {"poll", "draw", "resized", "measure", "join"} => Describes(Standing)'
  BY <1>1, <1>4 DEF Program
<1>7. Program'
  BY <1>1, <1>2, <1>5, <1>6 DEF Program
<1> QED
  BY <1>3, <1>7 DEF ObjectsInv

LEMMA StepKeepsObjects ==
  ASSUME Types, ObjectsInv, [Next]_vars
  PROVE  ObjectsInv'
<1>1. CASE CreateObjects \/ CreateSwapChain
  BY <1>1, CreateKeeps
<1>2. CASE DestroyObjects
  BY <1>2, DestructionKeeps
<1>3. CASE WaitForDevice \/ Upload \/ SpawnLogicThread
  BY <1>3, OthersKeep
<1>4. CASE FunctionReturns
  BY <1>4, ReturnKeeps
<1>5. CASE Throw \/ Poll \/ DrawRecreates \/ LeaveLoop \/ LogicEnds \/ MoveWindow \/ Minimise
  BY <1>5, LoopKeeps
<1>6. CASE DrawFrame \/ Measure \/ WaitEvents
  BY <1>6, LoopKeeps, DrawKeeps
<1>7. CASE Join
  BY <1>7, JoinKeeps
<1>8. ASSUME NEW s \in DOMAIN inFlight, Finish(s) PROVE ObjectsInv'
  BY <1>8, FinishKeeps
<1>9. CASE UNCHANGED vars
  <2>1. UNCHANGED <<objectVars, inFlight, phase, calls>> /\ Named /\ InFlightAlive /\ Program
    BY <1>9 DEF vars, frameVars, programVars, ObjectsInv
  <2>2. /\ Named' /\ InFlightAlive' /\ Alive' = Alive
        /\ \A A : Describes(A) => Describes(A)'
    BY <2>1, SameObjects
  <2>3. ASSUME phase \in Functions
        PROVE  \E A \in Standings : Describes(A)' /\ Runs(phase, A, calls, Goal(phase))
    BY <2>1, <2>2, <2>3 DEF Program
  <2>4. phase \in {"poll", "draw", "resized", "measure", "join"} => Describes(Standing)'
    BY <2>1, <2>2 DEF Program
  <2>5. Program'
    BY <2>1, <2>2, <2>3, <2>4 DEF Program
  <2> QED
    BY <2>2, <2>5 DEF ObjectsInv
<1> QED
  BY <1>1, <1>2, <1>3, <1>4, <1>5, <1>6, <1>7, <1>8, <1>9 DEF Next, Main

LEMMA InitObjects ==
  ASSUME Init
  PROVE  ObjectsInv
<1>1. /\ phase = "init" /\ calls = InitCalls /\ live = [o \in {} |-> {}]
      /\ handle = [m \in Members |-> {}]
      /\ inFlight = [s \in 0..MAX_FRAMES_IN_FLIGHT - 1 |-> {}]
  BY DEF Init
<1>2. Alive = {} /\ DeviceIdle
  BY <1>1 DEF Alive, DeviceIdle
<1>3. Named /\ InFlightAlive
  BY <1>1, <1>2 DEF Named, InFlightAlive
<1>4. Describes(At({}, {})) /\ At({}, {}) \in Standings
  BY <1>2 DEF Describes, At, Standings
<1>5. Runs("init", At({}, {}), InitCalls, Goal("init"))
  BY InitRuns DEF Goal
<1>6. Runs(phase, At({}, {}), calls, Goal(phase))
  BY <1>1, <1>5
<1>7. Program
  BY <1>1, <1>4, <1>6 DEF Program, Functions
<1> QED
  BY <1>3, <1>7 DEF ObjectsInv

-----------------------------------------------------------------------------
(* Types, and the logic thread.                                              *)

\* As many images as asked for, or more.
LEMMA SomeImages ==
  ASSUME NEW caps \in Surfaces, NEW more \in Nat
  PROVE  Chosen(caps, activeConfig_, Requested(caps) + more).images \in Nat \ {0}
<1>1. IsSurface(caps)
  BY ObjectsAssumption DEF ObjectsAssumption
<1>2. Requested(caps) \in Nat \ {0}
  BY <1>1 DEF IsSurface, Requested
<1>3. Requested(caps) + more \in Nat \ {0}
  BY <1>2
<1> QED
  BY <1>3 DEF Chosen

LEMMA InitTypes ==
  ASSUME Init
  PROVE  Types /\ PlaceSaved /\ Joined
<1>1. MAX_FRAMES_IN_FLIGHT \in Nat \ {0} /\ MaxRecreations \in Nat
  BY ObjectsAssumption DEF ObjectsAssumption
<1>2. PICK caps \in Surfaces : swapchain = Chosen(caps, activeConfig_, Requested(caps))
  BY DEF Init
<1>3. swapchain.images \in Nat \ {0}
  <2>1. IsSurface(caps)
    BY ObjectsAssumption DEF ObjectsAssumption
  <2> QED
    BY <1>2, <2>1 DEF Chosen, IsSurface, Requested
<1>4. /\ DOMAIN inFlight = 0..MAX_FRAMES_IN_FLIGHT - 1 /\ currentFrame_ \in DOMAIN inFlight
      /\ recreations \in 0..MaxRecreations
  BY <1>1 DEF Init
<1>5. /\ windowState_ \in [isFullscreen : BOOLEAN, windowed : Places]
      /\ place \in Places \cup {"monitor"} /\ wanted \in Places
  BY DEF Init
<1>6. Types
  BY <1>3, <1>4, <1>5 DEF Init, Types, Phases, MayRecreate
<1> QED
  BY <1>6 DEF Init, PlaceSaved, PlaceGivenBack, Joined

\* The window and its place.
WindowTypes ==
  /\ windowState_ \in [isFullscreen : BOOLEAN, windowed : Places]
  /\ place \in Places \cup {"monitor"} /\ wanted \in Places

\* Its size.
SizeTypes == minimised \in BOOLEAN /\ size \in {"unread", "zero", "some"}

LEMMA SizeKeepsTypes ==
  ASSUME Types, [Next]_vars
  PROVE  SizeTypes'
<1>1. SizeTypes
  BY DEF Types, SizeTypes
<1>2. CASE Measure \/ WaitEvents
  BY <1>1, <1>2 DEF Measure, WaitEvents, Events, Measured, ReadSize, SizeTypes
<1>3. CASE Poll \/ MoveWindow \/ Minimise
  BY <1>1, <1>3 DEF Poll, Events, MoveWindow, Minimise, SizeTypes
<1>4. CASE UNCHANGED windowVars
  BY <1>1, <1>4 DEF windowVars, SizeTypes
<1>5. \/ Measure \/ WaitEvents \/ Poll \/ MoveWindow \/ Minimise \/ UNCHANGED windowVars
  BY DEF Next, Main, Throw, LogicEnds, Finish, CreateObjects, CreateSwapChain,
         DestroyObjects, WaitForDevice, Upload, SpawnLogicThread, FunctionReturns,
         DrawRecreates, DrawFrame, LeaveLoop, Join, Done, vars
<1> QED
  BY <1>2, <1>3, <1>4, <1>5

LEMMA WindowKeepsTypes ==
  ASSUME Types, PlaceSaved, [Next]_vars
  PROVE  WindowTypes'
<1>1. WindowTypes
  BY DEF Types, WindowTypes
<1>2. CASE /\ windowState_' = Toggled /\ wanted' = wanted
           /\ place' = IF Toggled.isFullscreen THEN "monitor" ELSE Toggled.windowed
  <2>1. ~windowState_.isFullscreen => place \in Places
    BY <1>1 DEF PlaceSaved, PlaceGivenBack, WindowTypes
  <2>2. Toggled \in [isFullscreen : BOOLEAN, windowed : Places]
    BY <1>1, <2>1 DEF Toggled, WindowTypes
  <2>3. Toggled.windowed \in Places
    BY <2>2
  <2> QED
    BY <1>1, <1>2, <2>2, <2>3 DEF WindowTypes
<1>3. CASE MoveWindow
  BY <1>1, <1>3 DEF MoveWindow, WindowTypes
<1>4. CASE UNCHANGED <<windowState_, place, wanted>>
  BY <1>1, <1>4 DEF WindowTypes
<1>5. \/ UNCHANGED <<windowState_, place, wanted>> \/ MoveWindow
      \/ /\ windowState_' = Toggled /\ wanted' = wanted
         /\ place' = IF Toggled.isFullscreen THEN "monitor" ELSE Toggled.windowed
  <2>1. Events \/ MoveWindow \/ UNCHANGED <<windowState_, place, wanted>>
    BY DEF Next, Main, Throw, LogicEnds, Finish, CreateObjects, CreateSwapChain,
           DestroyObjects, WaitForDevice, Upload, SpawnLogicThread, FunctionReturns, Poll,
           WaitEvents, DrawRecreates, DrawFrame, Measure, Minimise, LeaveLoop, Join, Done,
           vars, windowVars
  <2> QED
    BY <2>1 DEF Events
<1> QED
  BY <1>2, <1>3, <1>4, <1>5

\* The swapchain, its recreations and the frames.
FrameTypes ==
  /\ recreations \in 0..MaxRecreations /\ swapchain.images \in Nat \ {0}
  /\ DOMAIN inFlight = 0..MAX_FRAMES_IN_FLIGHT - 1 /\ currentFrame_ \in DOMAIN inFlight
  /\ framebufferResized_ \in BOOLEAN

LEMMA FramesKeepTypes ==
  ASSUME Types, [Next]_vars
  PROVE  FrameTypes'
<1>1. FrameTypes /\ MAX_FRAMES_IN_FLIGHT \in Nat \ {0} /\ MaxRecreations \in Nat
      /\ MoreImages \in Nat
  BY ObjectsAssumption DEF ObjectsAssumption, Types, FrameTypes
<1>2. CASE CreateSwapChain
  <2>1. PICK caps \in Surfaces, more \in 0..MoreImages :
          swapchain' = Chosen(caps, activeConfig_, Requested(caps) + more)
    BY <1>2 DEF CreateSwapChain
  <2>2. more \in Nat
    BY <1>1, <2>1
  <2>3. swapchain'.images \in Nat \ {0}
    BY <2>1, <2>2, SomeImages
  <2>4. UNCHANGED <<recreations, frameVars>>
    BY <1>2 DEF CreateSwapChain, Done
  <2> QED
    BY <1>1, <2>3, <2>4 DEF FrameTypes, frameVars
<1>3. CASE DrawFrame
  <2>1. /\ swapchain' = swapchain /\ DOMAIN inFlight' = DOMAIN inFlight
        /\ currentFrame_' \in {currentFrame_, (currentFrame_ + 1) % MAX_FRAMES_IN_FLIGHT}
        /\ framebufferResized_' = framebufferResized_ /\ recreations' = recreations
    BY <1>3 DEF DrawFrame, objectVars
  <2>2. currentFrame_' \in 0..MAX_FRAMES_IN_FLIGHT - 1
    <3>1. currentFrame_ \in 0..MAX_FRAMES_IN_FLIGHT - 1
      BY <1>1 DEF FrameTypes
    <3>2. (currentFrame_ + 1) % MAX_FRAMES_IN_FLIGHT \in 0..MAX_FRAMES_IN_FLIGHT - 1
      BY <1>1, <3>1
    <3> QED
      BY <2>1, <3>1, <3>2
  <2> QED
    BY <1>1, <2>1, <2>2 DEF FrameTypes
<1>4. CASE Poll \/ FunctionReturns
  BY <1>1, <1>4 DEF Poll, Events, FunctionReturns, FrameTypes, objectVars
<1>5. CASE \E s \in DOMAIN inFlight : Finish(s)
  BY <1>1, <1>5 DEF Finish, FrameTypes, objectVars
<1>6. CASE UNCHANGED <<recreations, swapchain, frameVars>>
  BY <1>1, <1>6 DEF FrameTypes, frameVars
<1>7. CASE Measure \/ WaitEvents
  <2>1. recreations' \in 0..MaxRecreations
    BY <1>1, <1>7, MeasureMoves DEF Types, MayRecreate
  <2>2. framebufferResized_' \in {TRUE, framebufferResized_}
    BY <1>7 DEF Measure, WaitEvents, Events, frameVars
  <2>3. UNCHANGED <<swapchain, currentFrame_, inFlight>>
    BY <1>7, MeasureMoves
  <2> QED
    BY <1>1, <2>1, <2>2, <2>3 DEF FrameTypes
<1>8. \/ CreateSwapChain \/ DrawFrame \/ Poll \/ FunctionReturns \/ Measure \/ WaitEvents
      \/ \E s \in DOMAIN inFlight : Finish(s)
      \/ UNCHANGED <<recreations, swapchain, frameVars>>
  BY DEF Next, Main, Throw, LogicEnds, MoveWindow, Minimise, CreateObjects, DestroyObjects,
         WaitForDevice, Upload, SpawnLogicThread, DrawRecreates, LeaveLoop, Join, Done,
         vars, objectVars
<1> QED
  BY <1>2, <1>3, <1>4, <1>5, <1>6, <1>7, <1>8

\* Where main() is, and the threads.
LEMMA ProgramKeepsTypes ==
  ASSUME Types, [Next]_vars
  PROVE  /\ phase' \in Phases /\ MayRecreate'
         /\ shouldClose' \in BOOLEAN /\ g_Running' \in BOOLEAN
         /\ logicThread' \in {"none", "running", "ended", "joined"}
<1>1. /\ phase \in Phases /\ shouldClose \in BOOLEAN /\ g_Running \in BOOLEAN
      /\ logicThread \in {"none", "running", "ended", "joined"}
  BY DEF Types
<1>2. /\ phase' = phase \/ phase' \in Phases
      /\ \/ phase' = phase /\ recreations' = recreations
         \/ phase' \notin {"resized", "measure"}
         \/ recreations' < MaxRecreations
  <2>1. CASE Measure \/ WaitEvents
    BY <2>1, MeasureMoves DEF Types, MayRecreate, Phases
  <2> QED
    BY <2>1 DEF Next, Main, Throw, LogicEnds, MoveWindow, Minimise, Finish, CreateObjects,
         CreateSwapChain, DestroyObjects, WaitForDevice, Upload, SpawnLogicThread,
         FunctionReturns, Poll, DrawRecreates, DrawFrame, LeaveLoop, Join, Done, Goto, vars,
         programVars, objectVars, Phases
<1>3. /\ shouldClose' \in {shouldClose, TRUE} /\ g_Running' \in {g_Running, FALSE}
      /\ logicThread' \in {logicThread, "running", "ended", "joined"}
  BY DEF Next, Main, Throw, LogicEnds, MoveWindow, Finish, CreateObjects, CreateSwapChain,
         DestroyObjects, WaitForDevice, Upload, SpawnLogicThread, FunctionReturns, Poll,
         DrawRecreates, DrawFrame, Measure, WaitEvents, Events, Minimise, LeaveLoop, Join,
         RunningAfterLoop, vars, threadVars
<1>4. MayRecreate'
  BY <1>2 DEF Types, MayRecreate
<1> QED
  BY <1>1, <1>2, <1>3, <1>4

LEMMA StepKeepsTypes ==
  ASSUME Types, PlaceSaved, [Next]_vars
  PROVE  Types'
<1>1. WindowTypes' /\ SizeTypes' /\ FrameTypes'
  BY WindowKeepsTypes, SizeKeepsTypes, FramesKeepTypes
<1> QED
  BY <1>1, ProgramKeepsTypes DEF Types, WindowTypes, SizeTypes, FrameTypes

\* No call of cleanup() starts the thread again, and an exception is caught only
\* before it was started.
LEMMA StepKeepsJoined ==
  ASSUME ObjectsInv, Joined, [Next]_vars
  PROVE  Joined'
<1>1. CASE SpawnLogicThread
  <2>1. calls # <<>> /\ Head(calls).do = "spawn" /\ phase' = phase
    BY <1>1 DEF SpawnLogicThread, Doing, Done
  <2>2. PICK A : Allowed(phase, Head(calls), A)
    BY <2>1, NextCall DEF ObjectsInv
  <2>3. phase = "init"
    BY <2>1, <2>2 DEF Allowed
  <2> QED
    BY <2>1, <2>3 DEF Joined
<1>2. CASE Throw
  BY <1>2 DEF Throw, Goto, Joined
<1>3. CASE Join
  BY <1>3 DEF Join, Joinable, Goto, Joined
<1>4. CASE LogicEnds
  BY <1>4 DEF LogicEnds, programVars, Joined
<1>5. CASE FunctionReturns
  BY <1>5 DEF FunctionReturns, Goto, threadVars, Joined
<1>6. CASE /\ logicThread' = logicThread
           /\ phase' = phase \/ phase' \in {"poll", "draw", "resized", "measure", "recreate", "join"}
  BY <1>6 DEF Joined
<1>7. \/ SpawnLogicThread \/ Throw \/ Join \/ LogicEnds \/ FunctionReturns
      \/ /\ logicThread' = logicThread
         /\ phase' = phase \/ phase' \in {"poll", "draw", "resized", "measure", "recreate", "join"}
  <2>1. CASE Measure \/ WaitEvents
    BY <2>1, MeasureMoves
  <2> QED
    BY <2>1 DEF Next, Main, MoveWindow, Minimise, Finish, CreateObjects, CreateSwapChain,
                DestroyObjects, WaitForDevice, Upload, Poll, Events, DrawRecreates, DrawFrame,
                LeaveLoop, Done, Goto, vars, programVars, threadVars
<1> QED
  BY <1>1, <1>2, <1>3, <1>4, <1>5, <1>6, <1>7

-----------------------------------------------------------------------------
(* The theorems.                                                             *)

LEMMA InvCorrect == Spec => []Inv
<1>1. Init => Inv
  BY InitTypes, InitObjects DEF Inv
<1>2. Inv /\ [Next]_vars => Inv'
  BY PlaceStep, StepKeepsTypes, StepKeepsObjects, StepKeepsJoined DEF Inv
<1> QED
  BY <1>1, <1>2, PTL DEF Spec

\* What a function still has to do is a sequence of calls.
LEMMA CallsTyped ==
  ASSUME Program
  PROVE  calls \in Seq(AllCalls)
<1>1. CASE phase \in Functions
  BY <1>1 DEF Program, Runs
<1>2. CASE phase \notin Functions
  BY <1>2 DEF Program
<1> QED
  BY <1>1, <1>2

\* Every variable of the renderer's objects keeps its type, in every step of
\* init(), the loop, recreateSwapchain() and cleanup().
THEOREM TypeCorrect == Spec => []TypeOK
<1>1. Inv => TypeOK
  <2> SUFFICES ASSUME Inv PROVE TypeOK
    OBVIOUS
  <2>1. Types /\ Named /\ InFlightAlive /\ Program
    BY DEF Inv, ObjectsInv
  <2>2. \A k \in 1..Len(calls) :
          calls[k].do \in {"create", "destroy", "clear", "wait", "spawn", "use"}
    <3>1. \A k \in 1..Len(calls) : calls[k] \in AllCalls
      BY <2>1, CallsTyped
    <3> QED
      BY <3>1 DEF AllCalls
  <2>3. DOMAIN handle = Members /\ \A m \in Members : handle[m] \subseteq Objects
    BY <2>1 DEF Named
  <2>4. Alive \subseteq Objects
    BY <2>1, <2>3 DEF Named
  <2>5. \A o \in Alive : live[o] \subseteq Objects
    BY <2>1, <2>4 DEF Named
  <2>6. \A s \in DOMAIN inFlight : inFlight[s] \subseteq Objects
    BY <2>1, <2>4 DEF InFlightAlive
  <2> QED
    BY <2>1, <2>2, <2>3, <2>4, <2>5, <2>6 DEF TypeOK, Types, Phases
<1> QED
  BY <1>1, InvCorrect, PTL

\* Objects, GPU and thread nest: whatever init(), recreateSwapchain() and cleanup()
\* do in their order, they build from what is there, destroy what is there and only
\* when the GPU is idle, children first, and after the logic thread.
THEOREM LifetimesCorrect == Spec => []LifetimesNest
<1>1. Inv => LifetimesNest
  <2> SUFFICES ASSUME Inv PROVE LifetimesNest
    OBVIOUS
  <2>1. Types /\ Named /\ InFlightAlive /\ Program /\ Joined
    BY DEF Inv, ObjectsInv
  <2>2. BuiltFromLive
    <3> SUFFICES ASSUME Doing("create") \/ Doing("use"),
                        NEW m \in Head(calls).from \cup Head(calls).also
                 PROVE  handle[m] # {} /\ handle[m] \subseteq Alive
      BY DEF BuiltFromLive
    <3>1. calls # <<>> /\ Head(calls).do \in {"create", "use"}
      BY DEF Doing
    <3>2. PICK A \in Standings : Describes(A) /\ Allowed(phase, Head(calls), A)
      BY <2>1, <3>1, NextCall
    <3>3. m \in A.up
      BY <3>1, <3>2 DEF Allowed
    <3> QED
      BY <3>2, <3>3 DEF Describes
  <2>3. DestroyedOnce
    <3> SUFFICES ASSUME Doing("destroy") \/ Doing("clear")
                 PROVE  handle[What] # {} /\ handle[What] \subseteq Alive
      BY DEF DestroyedOnce
    <3>1. calls # <<>> /\ Head(calls).do \in {"destroy", "clear"}
      BY DEF Doing
    <3>2. PICK A \in Standings : Describes(A) /\ Allowed(phase, Head(calls), A)
      BY <2>1, <3>1, NextCall
    <3>3. What \in A.up
      BY <3>1, <3>2 DEF Allowed, What
    <3> QED
      BY <3>2, <3>3 DEF Describes
  <2>4. ParentsOutlive
    BY <2>1 DEF Named, ParentsOutlive
  <2>5. LogicThreadLast
    BY <2>1 DEF Joined, LogicThreadLast
  <2> QED
    BY <2>1, <2>2, <2>3, <2>4, <2>5 DEF LifetimesNest
<1> QED
  BY <1>1, InvCorrect, PTL

\* Nothing leaks: in the loop what is alive is what the members name, however often
\* the swapchain was recreated, and after cleanup() nothing is.
THEOREM LeaksCorrect == Spec => []NothingLeaks
<1>1. Inv => NothingLeaks
  <2> SUFFICES ASSUME Inv PROVE NothingLeaks
    OBVIOUS
  <2>1. Named /\ Program
    BY DEF Inv, ObjectsInv
  <2>2. ASSUME phase \in {"poll", "draw", "resized", "measure", "join"}
        PROVE  Alive = UNION {handle[m] : m \in Members \ Temporary}
    <3>1. Describes(Standing)
      BY <2>1, <2>2 DEF Program
    <3>2. /\ \A m \in Members \ Temporary : handle[m] \subseteq Alive
          /\ \A m \in Temporary : handle[m] \cap Alive = {}
      BY <3>1 DEF Describes, Standing, Members
    <3>3. \A o \in Alive : o.of \in Members \ Temporary /\ o \in handle[o.of]
      BY <2>1, <3>2 DEF Named
    <3> QED
      BY <3>2, <3>3
  <2> QED
    BY <2>1, <2>2 DEF Program, NothingLeaks, Looping
<1> QED
  BY <1>1, InvCorrect, PTL

\* Every image the driver gave for the present swapchain has its view, framebuffer
\* and semaphore in the loop, the framebuffer on this image's view: also after a
\* recreation with another number of images.
THEOREM ImagesCorrect == Spec => []EveryImageReady
<1>1. Inv => EveryImageReady
  <2> SUFFICES ASSUME Inv, Looping, NEW m \in PerImage,
                      NEW i \in 1..swapchain.images
               PROVE  \E o \in handle[m] :
                        o.i = i /\ \A p \in live[o] : p.of \in PerImage => p.i = i
    BY DEF EveryImageReady
  <2>1. Named /\ Describes(Standing)
    BY DEF Inv, ObjectsInv, Program, Looping
  <2>2. PICK o \in handle[m] : o.i = i
    BY <2>1 DEF Describes, Standing, HasAll
  <2>3. m \in Members /\ m \in Members \ Temporary
    BY DEF PerImage, Members, Temporary
  <2>4. o \in Alive /\ o.of = m
    BY <2>1, <2>3 DEF Named, Describes, Standing
  <2>5. \A p \in live[o] : p.of \in PerImage => p.i = o.i
    BY <2>1, <2>4 DEF Named
  <2> QED
    BY <2>2, <2>5
<1> QED
  BY <1>1, InvCorrect, PTL
=============================================================================
