--------------------------- MODULE RendererObjects ---------------------------
(* The life of the client's graphics objects: what main() and VulkanRenderer  *)
(* create (init), replace when the window changes (recreateSwapchain) and     *)
(* destroy (cleanup), around the logic thread's life and the frames the GPU   *)
(* still executes.                                                            *)
(*                                                                            *)
(* An object is known by the member that holds it, the swapchain recreation   *)
(* it was made in and its index in that member.  Fences and semaphores are    *)
(* FrameSync's.                                                               *)
EXTENDS SwapchainChoice, FiniteSets

CONSTANTS
  MAX_FRAMES_IN_FLIGHT,
  Surfaces,        \* what querySwapChainSupport() may say of the surface
  activeConfig_,   \* the present mode the user wants
  MaxRecreations,  \* bound: how often the swapchain is made anew
  MoreImages,      \* bound: how many images a driver gives beyond those asked for
  Places           \* positions and sizes of the window on the desktop

ASSUME ObjectsAssumption ==
  /\ MAX_FRAMES_IN_FLIGHT \in Nat \ {0} /\ MaxRecreations \in Nat /\ MoreImages \in Nat
  /\ activeConfig_ \in {"TripleBuffer", "Immediate", "VSync"} /\ Places # {}
  /\ \A caps \in Surfaces : IsSurface(caps)

VARIABLES
  phase,           \* where main() is
  calls,           \* what init, recreateSwapchain or cleanup still has to do
  live,            \* the driver: live object -> the objects it was made from
  handle,          \* member -> the objects its handles name
  recreations,
  swapchain,       \* what was chosen for it and for which surface (before: anything)
  currentFrame_,
  inFlight,        \* slot -> the objects a submission under way uses
  framebufferResized_, shouldClose,
  g_Running, logicThread,  \* "none", "running", "ended", "joined"
  windowState_,    \* isFullscreen, and the place to go back to
  place,           \* where the window is, or "monitor"
  wanted,          \* where the user put it
  minimised,       \* its framebuffer has no size
  size             \* what main() last read of it: "unread", "zero", "some"

programVars == <<phase, calls>>
objectVars == <<live, handle, recreations, swapchain>>
frameVars == <<currentFrame_, inFlight, framebufferResized_>>
threadVars == <<shouldClose, g_Running, logicThread>>
windowVars == <<windowState_, place, wanted, minimised, size>>
vars == <<programVars, objectVars, frameVars, threadVars, windowVars>>

-----------------------------------------------------------------------------
(* The members that hold objects.                                             *)

PerImage == {"swapChainImageViews_", "swapChainFramebuffers_", "renderFinishedSemaphores_"}
PerSlot == {"commandBuffers_", "descriptorSets_", "imageAvailableSemaphores_",
            "inFlightFences_", "cameraUboBuffers_", "cameraUboBuffersMemory_"}
Temporary == {"shaderModules", "stagingBuffer", "stagingMemory"}  \* local variables
NotDrawn == {"window_", "instance_", "surface_", "device_"}
Members == PerImage \cup PerSlot \cup Temporary \cup NotDrawn \cup
  {"swapChain_", "renderPass_", "descriptorSetLayout_", "pipelineLayout_",
   "graphicsPipeline_", "depthImage_", "depthImageMemory_", "depthImageView_",
   "commandPool_", "vertexBuffer_", "vertexBufferMemory_", "indexBuffer_",
   "indexBufferMemory_", "textureImage_", "textureImageMemory_", "textureImageView_",
   "textureSampler_", "descriptorPool_"}

\* vkDestroyCommandPool and vkDestroyDescriptorPool free what was allocated.
DiesWith(m) ==
  {m} \cup (CASE m = "commandPool_" -> {"commandBuffers_"}
              [] m = "descriptorPool_" -> {"descriptorSets_"}
              [] OTHER -> {})

-----------------------------------------------------------------------------
(* The functions, as what they create and destroy in their order.  A call has *)
(* the member it is about, the members whose objects the new one is made from *)
(* and must not outlive, and those it uses only while it runs.                *)

Call(do, what, from, also) == [do |-> do, what |-> what, from |-> from, also |-> also]
Make(what, from) == Call("create", what, from, {})
Each(do, members) == [k \in 1..Len(members) |-> Call(do, members[k], {}, {})]
Destroy(members) == Each("destroy", members)  \* the handle stays, dangling
Clear(members) == Each("clear", members)      \* and the handle is reset
WaitIdle == <<Call("wait", "device_", {}, {"device_"})>>

OnDevice == {"device_"}
createBuffer(buffer, memory) == <<Make(buffer, OnDevice), Make(memory, OnDevice)>>
createImage(image, memory) == <<Make(image, OnDevice), Make(memory, OnDevice)>>
createImageView(view, image, memory) == <<Make(view, {image, memory})>>

createInstance == <<Make("instance_", {}), Make("surface_", {"instance_", "window_"})>>
createLogicalDevice == <<Call("create", "device_", {"instance_"}, {"surface_"})>>
createSwapChain == <<Make("swapChain_", {"device_", "surface_"})>>
createImageViews == <<Make("swapChainImageViews_", {"swapChain_"})>>
createRenderPass == <<Call("create", "renderPass_", OnDevice, {"swapChain_"})>>
createDescriptorSetLayout == <<Make("descriptorSetLayout_", OnDevice)>>
createGraphicsPipeline ==
  <<Make("shaderModules", OnDevice), Make("pipelineLayout_", {"descriptorSetLayout_"}),
    Call("create", "graphicsPipeline_", {"pipelineLayout_", "renderPass_"},
         {"shaderModules"})>>
  \o Destroy(<<"shaderModules">>)
createDepthResources ==
  createImage("depthImage_", "depthImageMemory_")
  \o createImageView("depthImageView_", "depthImage_", "depthImageMemory_")
createFramebuffers ==
  <<Make("swapChainFramebuffers_",
         {"renderPass_", "swapChainImageViews_", "depthImageView_"})>>
createCommandPool == <<Make("commandPool_", OnDevice)>>
createVertexBuffer == createBuffer("vertexBuffer_", "vertexBufferMemory_")
createIndexBuffer == createBuffer("indexBuffer_", "indexBufferMemory_")
transitionImageLayout(image, memory) ==
  <<Call("use", "commandPool_", {}, {"commandPool_", image, memory})>>
copyBufferToImage(buffer, image) ==
  <<Call("use", "commandPool_", {}, {"commandPool_", buffer, image})>>
createTextureImage ==
  createBuffer("stagingBuffer", "stagingMemory")
  \o createImage("textureImage_", "textureImageMemory_")
  \o transitionImageLayout("textureImage_", "textureImageMemory_")
  \o copyBufferToImage("stagingBuffer", "textureImage_")
  \o transitionImageLayout("textureImage_", "textureImageMemory_")
  \o Destroy(<<"stagingBuffer", "stagingMemory">>)
createTextureImageView ==
  createImageView("textureImageView_", "textureImage_", "textureImageMemory_")
createTextureSampler == <<Make("textureSampler_", OnDevice)>>
createCameraUniformBuffers == createBuffer("cameraUboBuffers_", "cameraUboBuffersMemory_")
createDescriptorPool == <<Make("descriptorPool_", OnDevice)>>
createDescriptorSets ==
  <<Call("create", "descriptorSets_", {"descriptorPool_", "descriptorSetLayout_"},
         {"textureImageView_", "textureSampler_", "cameraUboBuffers_"})>>
createCommandBuffers == <<Make("commandBuffers_", {"commandPool_"})>>
RenderFinished == <<Make("renderFinishedSemaphores_", OnDevice)>>
createSyncObjects ==
  <<Make("imageAvailableSemaphores_", OnDevice), Make("inFlightFences_", OnDevice)>>
  \o RenderFinished

\* main() up to the loop, with init().
InitCalls ==
  <<Make("window_", {}), Call("spawn", "window_", {}, {})>>
  \o createInstance \o createLogicalDevice \o createSwapChain \o createImageViews
  \o createRenderPass \o createDescriptorSetLayout \o createGraphicsPipeline
  \o createDepthResources \o createFramebuffers \o createCommandPool
  \o createVertexBuffer \o createIndexBuffer
  \o createTextureImage \o createTextureImageView \o createTextureSampler
  \o createCameraUniformBuffers \o createDescriptorPool \o createDescriptorSets
  \o createCommandBuffers \o createSyncObjects

\* Mutant: the depth resources are forgotten.
cleanupSwapChainNoDepth ==
  <<"swapChainFramebuffers_", "swapChainImageViews_", "swapChain_">>
cleanupSwapChain ==
  <<"swapChainFramebuffers_", "swapChainImageViews_", "swapChain_", "depthImageView_",
    "depthImage_", "depthImageMemory_">>

\* Mutant: the semaphores are those of the old swapchain.
RecreateCallsOldSemaphores ==
  WaitIdle \o Clear(cleanupSwapChain)
  \o createSwapChain \o createImageViews \o createDepthResources \o createFramebuffers
\* recreateSwapchain(); the render pass and the pipeline stay.
RecreateCalls ==
  WaitIdle \o Clear(cleanupSwapChain)
  \o createSwapChain \o createImageViews \o createDepthResources \o createFramebuffers
  \o Destroy(<<"renderFinishedSemaphores_">>) \o RenderFinished

CleanupOrder ==
  <<"renderFinishedSemaphores_", "imageAvailableSemaphores_", "inFlightFences_",
    "commandPool_", "swapChainFramebuffers_", "graphicsPipeline_", "pipelineLayout_",
    "renderPass_", "swapChainImageViews_", "swapChain_",
    "depthImageView_", "depthImage_", "depthImageMemory_",
    "cameraUboBuffers_", "cameraUboBuffersMemory_", "descriptorPool_", "textureSampler_",
    "textureImageView_", "textureImage_", "textureImageMemory_", "descriptorSetLayout_",
    "indexBuffer_", "indexBufferMemory_", "vertexBuffer_", "vertexBufferMemory_",
    "device_", "surface_", "instance_">>

\* Mutant: no wait.
CleanupCallsUnwaited == Destroy(CleanupOrder \o <<"window_">>)
\* cleanup(), which has its own copy of cleanupSwapChain(), and glfwDestroyWindow().
CleanupCalls == WaitIdle \o Destroy(CleanupOrder \o <<"window_">>)

-----------------------------------------------------------------------------
Init ==
  /\ phase = "init" /\ calls = InitCalls
  /\ live = [o \in {} |-> {}] /\ handle = [m \in Members |-> {}] /\ recreations = 0
  /\ \E caps \in Surfaces : swapchain = Chosen(caps, activeConfig_, Requested(caps))
  /\ currentFrame_ = 0 /\ inFlight = [s \in 0..MAX_FRAMES_IN_FLIGHT - 1 |-> {}]
  /\ framebufferResized_ = FALSE /\ shouldClose = FALSE
  /\ g_Running = TRUE /\ logicThread = "none"
  /\ place \in Places /\ wanted = place /\ minimised = FALSE /\ size = "unread"
  /\ \E p \in Places : windowState_ = [isFullscreen |-> FALSE, windowed |-> p]

\* One call of the function main() is in.
Doing(do) == calls # <<>> /\ Head(calls).do = do
What == Head(calls).what
Done == calls' = Tail(calls) /\ UNCHANGED <<phase, frameVars, windowVars>>

Indices(m, n) == IF m \in PerImage THEN 1..n
                 ELSE IF m \in PerSlot THEN 0..MAX_FRAMES_IN_FLIGHT - 1 ELSE {0}
\* Of a member with as many, the one with the same index.
MadeFrom(o, parents) ==
  {p \in UNION {handle[q] : q \in parents} :
     o.of \in PerImage /\ p.of \in PerImage => p.i = o.i}
Hold(n) ==
  LET made == {[of |-> What, gen |-> recreations, i |-> k] : k \in Indices(What, n)}
  IN /\ handle' = [handle EXCEPT ![What] = made]
     /\ live' = [o \in DOMAIN live \cup made |->
                   IF o \in made THEN MadeFrom(o, Head(calls).from) ELSE live[o]]

CreateObjects ==
  /\ Doing("create") /\ What # "swapChain_" /\ Done
  /\ Hold(swapchain.images)
  /\ UNCHANGED <<recreations, swapchain, threadVars>>

\* createSwapChain() asks what the surface supports, and for as many images; the
\* driver may give more.
CreateSwapChain ==
  /\ Doing("create") /\ What = "swapChain_" /\ Done
  /\ \E caps \in Surfaces, more \in 0..MoreImages :
       swapchain' = Chosen(caps, activeConfig_, Requested(caps) + more)
  /\ Hold(1)
  /\ UNCHANGED <<recreations, threadVars>>

DestroyObjects ==
  /\ \/ Doing("destroy") /\ UNCHANGED handle
     \/ Doing("clear") /\ handle' = [handle EXCEPT ![What] = {}]
  /\ Done
  /\ LET dead == UNION {handle[m] : m \in DiesWith(What)}
     IN live' = [o \in DOMAIN live \ dead |-> live[o]]
  /\ UNCHANGED <<recreations, swapchain, threadVars>>

DeviceIdle == \A s \in DOMAIN inFlight : inFlight[s] = {}
WaitForDevice ==
  /\ Doing("wait") /\ DeviceIdle /\ Done
  /\ UNCHANGED <<objectVars, threadVars>>

\* endSingleTimeCommands() waits for the queue; nothing stays under way.
Upload == Doing("use") /\ Done /\ UNCHANGED <<objectVars, threadVars>>

SpawnLogicThread ==
  /\ Doing("spawn") /\ Done /\ logicThread' = "running"
  /\ UNCHANGED <<objectVars, shouldClose, g_Running>>

Goto(where, program) == phase' = where /\ calls' = program
\* The frame that needed the recreation clears the flag after it.
FunctionReturns ==
  /\ calls = <<>> /\ phase \in {"init", "recreate", "cleanup"}
  /\ Goto(IF phase = "cleanup" THEN "returned" ELSE "poll", <<>>)
  /\ framebufferResized_' = (framebufferResized_ /\ phase # "recreate")
  /\ UNCHANGED <<objectVars, currentFrame_, inFlight, threadVars, windowVars>>

\* An exception.  With the logic thread joinable, unwinding ends the process in
\* std::terminate; before, main() catches it and returns -1.
Throw ==
  /\ \/ phase \in {"init", "recreate"} /\ Doing("create")
     \/ phase = "draw" /\ ~framebufferResized_
  /\ Goto(IF logicThread = "none" THEN "caught" ELSE "terminated", <<>>)
  /\ g_Running' = IF logicThread = "none" THEN FALSE ELSE g_Running
  /\ UNCHANGED <<objectVars, frameVars, shouldClose, logicThread, windowVars>>

-----------------------------------------------------------------------------
(* The loop.                                                                  *)

\* Mutant of Toggled: the place is saved at every toggle.
ToggledAlwaysSaves ==
  [isFullscreen |-> ~windowState_.isFullscreen, windowed |-> place]
\* toggleFullscreen(): save the place before filling the monitor.
Toggled ==
  [isFullscreen |-> ~windowState_.isFullscreen,
   windowed |-> IF windowState_.isFullscreen THEN windowState_.windowed ELSE place]

\* What a callback may do: nothing, a resize, the window's close button, or F11.
Events ==
  /\ \/ UNCHANGED <<framebufferResized_, shouldClose, windowState_, place>>
     \/ shouldClose' = TRUE /\ UNCHANGED <<framebufferResized_, windowState_, place>>
     \/ /\ recreations < MaxRecreations /\ framebufferResized_' = TRUE
        /\ UNCHANGED <<shouldClose, windowState_, place>>
     \/ /\ recreations < MaxRecreations /\ framebufferResized_' = TRUE
        /\ windowState_' = Toggled
        /\ place' = IF Toggled.isFullscreen THEN "monitor" ELSE Toggled.windowed
        /\ UNCHANGED shouldClose
  /\ UNCHANGED <<live, handle, swapchain, currentFrame_, inFlight, g_Running, logicThread,
                 wanted, minimised>>

\* pollEvents()
Poll ==
  /\ phase = "poll" /\ ~shouldClose /\ phase' = "draw" /\ Events
  /\ UNCHANGED <<calls, recreations, size>>

\* drawFrame(): the flag is set, or acquiring finds the swapchain out of date.
DrawRecreates ==
  /\ phase = "draw" /\ recreations < MaxRecreations
  /\ \/ framebufferResized_ /\ phase' = "resized"
     \/ ~framebufferResized_ /\ inFlight[currentFrame_] = {} /\ phase' = "measure"
  /\ UNCHANGED <<calls, objectVars, frameVars, threadVars, windowVars>>

\* A size was read: drawFrame() goes on to recreateSwapchain(), which reads it anew and
\* then begins.
Measured ==
  /\ size' = "unread"
  /\ IF phase = "resized" THEN phase' = "measure" /\ UNCHANGED <<calls, recreations>>
     ELSE Goto("recreate", RecreateCalls) /\ recreations' = recreations + 1

Measuring == phase \in {"resized", "measure"}
\* Mutant of ReadSize: the loop never reads again.
ReadSizeOnce == size' = "zero"
ReadSize == size' = IF minimised THEN "zero" ELSE "some"

\* drawFrame() for the flag and recreateSwapchain() always: is there a size?
Measure ==
  /\ Measuring /\ size = "unread"
  /\ IF minimised THEN ReadSize /\ UNCHANGED <<programVars, recreations>> ELSE Measured
  /\ UNCHANGED <<live, handle, swapchain, frameVars, threadVars, windowState_, place,
                 wanted, minimised>>

\* Their loops: as long as there was none, handle an event and read it again; one more
\* event is waited for when there is one.  Nobody asks whether the window shall close.
WaitEvents ==
  /\ Measuring /\ size # "unread" /\ Events
  /\ IF size = "zero" THEN ReadSize /\ UNCHANGED <<programVars, recreations>> ELSE Measured

FrameUses(image) ==
  {o \in UNION {handle[m] : m \in Members \ (Temporary \cup NotDrawn)} :
     /\ o.of \in PerImage => o.i = image
     /\ o.of \in PerSlot => o.i = currentFrame_}

\* drawFrame(): wait for the slot's fence, record, submit, present; presenting
\* may find the swapchain out of date.
DrawFrame ==
  /\ phase = "draw" /\ ~framebufferResized_ /\ inFlight[currentFrame_] = {}
  /\ \E image \in 1..swapchain.images :
       inFlight' = [inFlight EXCEPT ![currentFrame_] = FrameUses(image)]
  /\ currentFrame_' = (currentFrame_ + 1) % MAX_FRAMES_IN_FLIGHT
  /\ phase' = "poll" \/ (recreations < MaxRecreations /\ phase' = "measure")
  /\ UNCHANGED <<calls, objectVars, framebufferResized_, threadVars, windowVars>>

\* g_Running is cleared before the join.
RunningAfterLoop == FALSE

LeaveLoop ==
  /\ phase = "poll" /\ shouldClose
  /\ Goto("join", <<>>) /\ g_Running' = RunningAfterLoop
  /\ UNCHANGED <<objectVars, frameVars, shouldClose, logicThread, windowVars>>

Joinable == logicThread = "ended"

Join ==
  /\ phase = "join" /\ Joinable
  /\ Goto("cleanup", CleanupCalls)
  /\ logicThread' = IF logicThread = "ended" THEN "joined" ELSE logicThread
  /\ UNCHANGED <<objectVars, frameVars, shouldClose, g_Running, windowVars>>

-----------------------------------------------------------------------------
(* The others: the logic thread, the GPU, the user.                           *)

\* while (g_Running) of LogicThreadEntry
LogicEnds ==
  /\ logicThread = "running" /\ ~g_Running /\ phase # "terminated"
  /\ logicThread' = "ended"
  /\ UNCHANGED <<programVars, objectVars, frameVars, shouldClose, g_Running, windowVars>>

Finish(s) ==
  /\ inFlight[s] # {} /\ inFlight' = [inFlight EXCEPT ![s] = {}]
  /\ UNCHANGED <<programVars, objectVars, currentFrame_, framebufferResized_, threadVars,
                 windowVars>>

Looping == phase \in {"poll", "draw", "resized", "measure"}
MoveWindow ==
  /\ Looping /\ place # "monitor"
  /\ \E p \in Places \ {place} : place' = p /\ wanted' = p
  /\ UNCHANGED <<programVars, objectVars, frameVars, threadVars, windowState_, minimised,
                 size>>

\* Minimised, or restored; unlike a move, that must not end with the loop.
Minimise ==
  /\ phase \notin {"init", "returned", "caught", "terminated"}
  /\ minimised' = ~minimised
  /\ UNCHANGED <<programVars, objectVars, frameVars, threadVars, windowState_, place,
                 wanted, size>>

-----------------------------------------------------------------------------
Main == \/ CreateObjects \/ CreateSwapChain \/ DestroyObjects \/ WaitForDevice \/ Upload
        \/ SpawnLogicThread \/ FunctionReturns \/ Poll \/ DrawRecreates \/ DrawFrame
        \/ Measure \/ LeaveLoop \/ Join
Next == \/ Main \/ WaitEvents \/ Throw \/ LogicEnds \/ MoveWindow \/ Minimise
        \/ \E s \in DOMAIN inFlight : Finish(s)
Spec == Init /\ [][Next]_vars

\* Both threads run, the GPU finishes what it was given, and the user of a window that
\* is not minimised gives the loops that wait for events some.
FairSpec ==
  /\ Spec /\ WF_vars(Main) /\ WF_vars(LogicEnds) /\ WF_vars(~minimised /\ WaitEvents)
  /\ \A s \in 0..MAX_FRAMES_IN_FLIGHT - 1 : WF_vars(Finish(s))

-----------------------------------------------------------------------------
(* Properties.                                                                *)

Objects == [of : Members, gen : 0..MaxRecreations, i : Nat]
Alive == DOMAIN live

\* Every variable keeps its type.
TypeOK ==
  /\ phase \in {"init", "poll", "draw", "resized", "measure", "recreate", "join",
                "cleanup", "returned", "caught", "terminated"}
  /\ \A k \in 1..Len(calls) :
       calls[k].do \in {"create", "destroy", "clear", "wait", "spawn", "use"}
  /\ Alive \subseteq Objects /\ \A o \in Alive : live[o] \subseteq Objects
  /\ DOMAIN handle = Members /\ \A m \in Members : handle[m] \subseteq Objects
  /\ recreations \in 0..MaxRecreations /\ swapchain.images \in Nat \ {0}
  /\ currentFrame_ \in DOMAIN inFlight
  /\ \A s \in DOMAIN inFlight : inFlight[s] \subseteq Objects
  /\ framebufferResized_ \in BOOLEAN /\ shouldClose \in BOOLEAN /\ g_Running \in BOOLEAN
  /\ logicThread \in {"none", "running", "ended", "joined"}
  /\ windowState_ \in [isFullscreen : BOOLEAN, windowed : Places]
  /\ place \in Places \cup {"monitor"} /\ wanted \in Places
  /\ minimised \in BOOLEAN /\ size \in {"unread", "zero", "some"}

\* init() and recreateSwapchain() build from what is there: "Must precede
\* createFramebuffers()", "Must exist before any one-time transfer command
\* buffer" (VulkanRenderer.cpp).  Whatever the next call uses has been created
\* and not been destroyed.
BuiltFromLive ==
  Doing("create") \/ Doing("use") =>
    \A m \in Head(calls).from \cup Head(calls).also :
      handle[m] # {} /\ handle[m] \subseteq Alive

\* No object outlives one it was made from: not the framebuffers their views, nor
\* anything the device, nor the surface the window.
ParentsOutlive == \A o \in Alive : live[o] \subseteq Alive

\* Nothing is destroyed while the GPU still executes a frame that uses it.
InFlightAlive == \A s \in DOMAIN inFlight : inFlight[s] \subseteq Alive

\* Nothing is destroyed twice: what a call destroys is alive.
DestroyedOnce ==
  Doing("destroy") \/ Doing("clear") => handle[What] # {} /\ handle[What] \subseteq Alive

\* Nothing leaks, however often the window changed: in the loop what is alive is
\* what the members name, and after cleanup() nothing is.
NothingLeaks ==
  /\ Looping \/ phase = "join" =>
       Alive = UNION {handle[m] : m \in Members \ Temporary}
  /\ phase = "returned" => Alive = {}

\* "Image count may change across recreation" (VulkanRenderer.cpp:1673): in the
\* loop every image of the swapchain has its view, framebuffer and semaphore, and
\* the framebuffer is of this image.
EveryImageReady ==
  Looping =>
    \A m \in PerImage : \A i \in 1..swapchain.images :
      \E o \in handle[m] :
        o.i = i /\ \A p \in live[o] : p.of \in PerImage => p.i = i

\* What createSwapChain() asks for is what the surface it asked supports.
AskedIsSupported == Supported(swapchain)

\* Leaving fullscreen gives the window back the place the user had it at.
PlaceGivenBack == place = IF windowState_.isFullscreen THEN "monitor" ELSE wanted

\* The logic thread reads the renderer and the shared state of main()'s frame: it
\* has ended before they go.
LogicThreadLast == phase \in {"cleanup", "returned", "caught"} => logicThread # "running"

\* Objects, GPU and thread: what any of them uses is there, and goes after them.
LifetimesNest ==
  /\ BuiltFromLive /\ ParentsOutlive /\ InFlightAlive /\ DestroyedOnce
  /\ LogicThreadLast

\* while (!renderer.shouldClose()) of main(): closing the window ends the program,
\* provided that it is not minimised for good.  (The loops that wait for a size never
\* ask shouldClose(): a window closed while it is minimised keeps the program.)
CloseEnds ==
  <>[]~minimised => (shouldClose ~> phase \in {"returned", "terminated"})
==============================================================================
