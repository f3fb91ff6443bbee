------------------------------- MODULE FrameSync -------------------------------
(* The client's frame loop (client/src/VulkanRenderer.cpp drawFrame and what  *)
(* it calls, client/src/main.cpp's render loop): the main thread records into *)
(* the slot of the current frame and paces itself by fences, while the GPU    *)
(* executes submissions, the presentation engine shows images, and the window *)
(* is resized, minimised and closed.                                          *)
(*                                                                            *)
(* Vulkan, GLFW and the window are external: a semaphore is signalled or not, *)
(* a queue executes in order, vkAcquireNextImageKHR returns before its        *)
(* semaphore is signalled, and an outdated swapchain may still work.          *)
EXTENDS Naturals, Sequences, FiniteSets

CONSTANTS
  MAX_FRAMES_IN_FLIGHT,
  ImageCounts,   \* how many images a swapchain may turn out to have
  MaxChanges,    \* bound: how often the window changes
  MayFail        \* may a Vulkan call fail for good (device or surface lost)?

ASSUME FrameAssumption ==
  /\ MAX_FRAMES_IN_FLIGHT \in Nat \ {0}
  /\ ImageCounts # {} /\ ImageCounts \subseteq Nat \ {0, 1}
  /\ MaxChanges \in Nat /\ MayFail \in BOOLEAN

Slots == 0..(MAX_FRAMES_IN_FLIGHT - 1)

VARIABLES
  \* the main thread
  pc,                  \* where drawFrame is; see the actions
  currentFrame_,
  imageIndex,          \* the acquired image, from acquire to present
  framebufferResized_,
  shouldClose,
  sized,               \* was the last framebuffer size read not zero?
  \* objects it creates
  imageCount,          \* swapChainImages_.size()
  extent,              \* the size of the window the swapchain was made for
  inFlightFences_,           \* per slot: signalled?
  imageAvailableSemaphores_, \* per slot: signalled?
  renderFinishedSemaphores_, \* per image: signalled?
  \* the GPU and the presentation engine
  acquiring,           \* slots whose semaphore an acquired image will signal
  graphicsQueue,       \* submissions not finished: slot, image, semaphore to signal
  presentQueue,        \* presents waiting: image, semaphore to wait for
  owner,               \* per image: "free", "app", "queued", "shown"
  \* the window
  window,              \* its size: a number that grows with each change
  minimised,
  events               \* undispatched: "resize", "close", "other"

cpuVars == <<pc, currentFrame_, imageIndex, framebufferResized_, shouldClose, sized>>
chainVars == <<imageCount, extent>>
gpuVars == <<inFlightFences_, imageAvailableSemaphores_, renderFinishedSemaphores_,
             acquiring, graphicsQueue, presentQueue, owner>>
windowVars == <<window, minimised, events>>
vars == <<cpuVars, chainVars, gpuVars, windowVars>>

Images == 1..imageCount

\* init(): fences are created signalled, semaphores unsignalled.
Init ==
  /\ pc = "loop" /\ currentFrame_ = 0 /\ imageIndex = 1
  /\ framebufferResized_ = FALSE /\ shouldClose = FALSE /\ sized = TRUE
  /\ imageCount \in ImageCounts /\ extent = 0
  /\ inFlightFences_ = [s \in Slots |-> TRUE]
  /\ imageAvailableSemaphores_ = [s \in Slots |-> FALSE]
  /\ renderFinishedSemaphores_ = [i \in Images |-> FALSE]
  /\ acquiring = {} /\ graphicsQueue = <<>> /\ presentQueue = <<>>
  /\ owner = [i \in Images |-> "free"]
  /\ window = 0 /\ minimised = FALSE /\ events = {}

-----------------------------------------------------------------------------
(* The main thread.                                                           *)

\* Mutant of Dispatch: the resize callback's flag lasts one round of events.
DispatchForgetful ==
  /\ framebufferResized_' = FALSE
  /\ shouldClose' = (shouldClose \/ "close" \in events)
  /\ events' = {}

\* glfwPollEvents and glfwWaitEvents run the callbacks of what is pending.
Dispatch ==
  /\ framebufferResized_' = (framebufferResized_ \/ "resize" \in events)
  /\ shouldClose' = (shouldClose \/ "close" \in events)
  /\ events' = {}

\* The loop of main(): poll, then drawFrame().
PollEvents ==
  /\ pc = "loop" /\ ~shouldClose
  /\ Dispatch
  /\ pc' = IF framebufferResized_' THEN "measure" ELSE "fence"
  /\ UNCHANGED <<currentFrame_, imageIndex, sized, chainVars, gpuVars, window, minimised>>

\* drawFrame() on the resize path and recreateSwapchain() read the framebuffer
\* size and, while it is zero, read it again and wait for events.  (On the
\* resize path the two do so one after the other; once is the same.)
Measure ==
  /\ pc = "measure"
  /\ pc' = IF minimised THEN "reread" ELSE "idle"
  /\ UNCHANGED <<currentFrame_, imageIndex, framebufferResized_, shouldClose, sized,
                 chainVars, gpuVars, windowVars>>
Reread ==
  /\ pc = "reread" /\ pc' = "wait"
  /\ sized' = ~minimised
  /\ UNCHANGED <<currentFrame_, imageIndex, framebufferResized_, shouldClose, chainVars,
                 gpuVars, windowVars>>
\* The condition of the loop sees the size read before the wait.
WaitEvents ==
  /\ pc = "wait" /\ events # {}
  /\ Dispatch
  /\ pc' = IF sized THEN "idle" ELSE "reread"
  /\ UNCHANGED <<currentFrame_, imageIndex, sized, chainVars, gpuVars, window, minimised>>

\* vkDeviceWaitIdle().
Idle == graphicsQueue = <<>> /\ presentQueue = <<>>

\* A semaphore per image.  Mutant: the images are counted anew, the semaphores not.
SemaphoresKept(n) == renderFinishedSemaphores_
SemaphoresMade(n) == [i \in 1..n |-> FALSE]

\* The rest of recreateSwapchain(): destroy and create everything that depends
\* on the swapchain.  The objects of the slots stay.
Recreate ==
  /\ pc = "idle" /\ Idle /\ ~minimised
  /\ pc' = "loop" /\ framebufferResized_' = FALSE
  /\ extent' = window
  /\ \E n \in ImageCounts :
       /\ imageCount' = n
       /\ renderFinishedSemaphores_' = SemaphoresMade(n)
       /\ owner' = [i \in 1..n |-> "free"]
  /\ UNCHANGED <<currentFrame_, imageIndex, shouldClose, sized, inFlightFences_,
                 imageAvailableSemaphores_, acquiring, graphicsQueue, presentQueue,
                 windowVars>>

\* A call fails: the exception leaves drawFrame() and ends the process.  So does
\* creating a swapchain for a window minimised since its size was read.
Throw ==
  /\ \/ pc = "idle" /\ Idle /\ minimised
     \/ pc \in {"acquire", "record", "present"} /\ MayFail
  /\ pc' = "thrown"
  /\ UNCHANGED <<currentFrame_, imageIndex, framebufferResized_, shouldClose, sized,
                 chainVars, gpuVars, windowVars>>

\* vkWaitForFences() on the slot.
FenceWaited == inFlightFences_[currentFrame_]
WaitForFence ==
  /\ pc = "fence" /\ FenceWaited
  /\ pc' = "acquire"
  /\ UNCHANGED <<currentFrame_, imageIndex, framebufferResized_, shouldClose, sized,
                 chainVars, gpuVars, windowVars>>

\* vkAcquireNextImageKHR() gives an image and schedules the slot's semaphore; the
\* frame is now bound to be submitted and the slot's fence is reset.
Acquire ==
  /\ pc = "acquire" /\ pc' = "record"
  /\ \E i \in Images :
       owner[i] = "free" /\ imageIndex' = i /\ owner' = [owner EXCEPT ![i] = "app"]
  /\ acquiring' = acquiring \cup {currentFrame_}
  /\ inFlightFences_' = [inFlightFences_ EXCEPT ![currentFrame_] = FALSE]
  /\ UNCHANGED <<currentFrame_, framebufferResized_, shouldClose, sized, chainVars,
                 imageAvailableSemaphores_, renderFinishedSemaphores_, graphicsQueue,
                 presentQueue, windowVars>>

\* Mutant of AcquireOutOfDate: the fence is reset before the result is known.
AcquireOutOfDateReset ==
  /\ pc = "acquire" /\ extent # window
  /\ pc' = "measure"
  /\ inFlightFences_' = [inFlightFences_ EXCEPT ![currentFrame_] = FALSE]
  /\ UNCHANGED <<currentFrame_, imageIndex, framebufferResized_, shouldClose, sized,
                 chainVars, imageAvailableSemaphores_, renderFinishedSemaphores_, acquiring,
                 graphicsQueue, presentQueue, owner, windowVars>>

\* Mutant of AcquireOutOfDate: it also catches VK_SUBOPTIMAL_KHR, though that
\* gives an image.
AcquireSuboptimal ==
  /\ pc = "acquire" /\ extent # window
  /\ pc' = "measure"
  /\ \E i \in Images : owner[i] = "free" /\ owner' = [owner EXCEPT ![i] = "app"]
  /\ acquiring' = acquiring \cup {currentFrame_}
  /\ UNCHANGED <<currentFrame_, imageIndex, framebufferResized_, shouldClose, sized,
                 chainVars, inFlightFences_, imageAvailableSemaphores_,
                 renderFinishedSemaphores_, graphicsQueue, presentQueue, windowVars>>

\* VK_ERROR_OUT_OF_DATE_KHR: no image, no semaphore; the fence stays signalled.
AcquireOutOfDate ==
  /\ pc = "acquire" /\ extent # window
  /\ pc' = "measure"
  /\ UNCHANGED <<currentFrame_, imageIndex, framebufferResized_, shouldClose, sized,
                 chainVars, gpuVars, windowVars>>

\* The render-finished semaphore of a frame.  Mutant: the slot's.
FinishedOfSlot == currentFrame_ + 1
Finished == imageIndex

\* Write the slot's uniform buffer and command buffer, and vkQueueSubmit().
Submit ==
  /\ pc = "record" /\ pc' = "present"
  /\ graphicsQueue' = Append(graphicsQueue,
                             [slot |-> currentFrame_, image |-> imageIndex, sem |-> Finished])
  /\ UNCHANGED <<currentFrame_, imageIndex, framebufferResized_, shouldClose, sized,
                 chainVars, inFlightFences_, imageAvailableSemaphores_,
                 renderFinishedSemaphores_, acquiring, presentQueue, owner, windowVars>>

\* vkQueuePresentKHR(), which may say that the swapchain is out of date or
\* suboptimal, and on to the next slot.
Present ==
  /\ pc = "present"
  /\ presentQueue' = Append(presentQueue, [image |-> imageIndex, sem |-> Finished])
  /\ owner' = [owner EXCEPT ![imageIndex] = "queued"]
  /\ currentFrame_' = (currentFrame_ + 1) % MAX_FRAMES_IN_FLIGHT
  /\ \/ ~framebufferResized_ /\ pc' = "loop"
     \/ (framebufferResized_ \/ extent # window) /\ pc' = "measure"
  /\ UNCHANGED <<imageIndex, framebufferResized_, shouldClose, sized, chainVars,
                 inFlightFences_, imageAvailableSemaphores_, renderFinishedSemaphores_,
                 acquiring, graphicsQueue, windowVars>>

\* The window is closing: cleanup() waits for the device and destroys everything.
Cleanup ==
  /\ pc = "loop" /\ shouldClose /\ Idle
  /\ pc' = "done"
  /\ UNCHANGED <<currentFrame_, imageIndex, framebufferResized_, shouldClose, sized,
                 chainVars, gpuVars, windowVars>>

-----------------------------------------------------------------------------
(* The GPU and the presentation engine.                                       *)

AcquireSignals(s) ==
  /\ s \in acquiring /\ acquiring' = acquiring \ {s}
  /\ imageAvailableSemaphores_' = [imageAvailableSemaphores_ EXCEPT ![s] = TRUE]
  /\ UNCHANGED <<cpuVars, chainVars, inFlightFences_, renderFinishedSemaphores_,
                 graphicsQueue, presentQueue, owner, windowVars>>

\* A submission waits for its image, draws, and signals its semaphore and fence.
Execute ==
  /\ graphicsQueue # <<>>
  /\ LET work == Head(graphicsQueue) IN
       /\ imageAvailableSemaphores_[work.slot]
       /\ imageAvailableSemaphores_' =
            [imageAvailableSemaphores_ EXCEPT ![work.slot] = FALSE]
       /\ renderFinishedSemaphores_' =
            [renderFinishedSemaphores_ EXCEPT ![work.sem] = TRUE]
       /\ inFlightFences_' = [inFlightFences_ EXCEPT ![work.slot] = TRUE]
  /\ graphicsQueue' = Tail(graphicsQueue)
  /\ UNCHANGED <<cpuVars, chainVars, acquiring, presentQueue, owner, windowVars>>

\* A present waits for the drawing; the image shown until then becomes free.
Show ==
  /\ presentQueue # <<>>
  /\ LET it == Head(presentQueue) IN
       /\ renderFinishedSemaphores_[it.sem]
       /\ renderFinishedSemaphores_' =
            [renderFinishedSemaphores_ EXCEPT ![it.sem] = FALSE]
       /\ owner' = [i \in Images |-> IF i = it.image THEN "shown"
                                     ELSE IF owner[i] = "shown" THEN "free" ELSE owner[i]]
  /\ presentQueue' = Tail(presentQueue)
  /\ UNCHANGED <<cpuVars, chainVars, inFlightFences_, imageAvailableSemaphores_,
                 acquiring, graphicsQueue, windowVars>>

-----------------------------------------------------------------------------
(* The window.                                                                *)

\* Resized, or made fullscreen; minimised or restored.
WindowChanges ==
  /\ window < MaxChanges /\ window' = window + 1
  /\ minimised' \in BOOLEAN
  /\ events' = events \cup {"resize"}
  /\ UNCHANGED <<cpuVars, chainVars, gpuVars>>
WindowEvent(e) ==
  /\ e \notin events /\ events' = events \cup {e}
  /\ UNCHANGED <<cpuVars, chainVars, gpuVars, window, minimised>>

-----------------------------------------------------------------------------
Main == \/ PollEvents \/ Measure \/ Reread \/ WaitEvents \/ Recreate \/ Throw
        \/ WaitForFence \/ Acquire \/ AcquireOutOfDate \/ Submit \/ Present \/ Cleanup
Gpu == (\E s \in Slots : AcquireSignals(s)) \/ Execute \/ Show
Next == \/ Main \/ Gpu
        \/ WindowChanges \/ WindowEvent("close") \/ WindowEvent("other")

Spec == Init /\ [][Next]_vars

\* The main thread runs, the GPU and the engine finish what they were given, and
\* the user keeps producing input events.
FairSpec ==
  /\ Spec /\ WF_vars(Main) /\ WF_vars(WindowEvent("other"))
  /\ WF_vars(Execute) /\ WF_vars(Show) /\ \A s \in Slots : WF_vars(AcquireSignals(s))

-----------------------------------------------------------------------------
(* Properties.                                                                *)

\* Every variable keeps its type; there is one render-finished semaphore per image.
TypeOK ==
  /\ pc \in {"loop", "measure", "reread", "wait", "idle", "fence", "acquire", "record",
             "present", "thrown", "done"}
  /\ currentFrame_ \in Slots /\ imageIndex \in Nat
  /\ framebufferResized_ \in BOOLEAN /\ shouldClose \in BOOLEAN /\ sized \in BOOLEAN
  /\ imageCount \in ImageCounts /\ extent \in 0..MaxChanges
  /\ inFlightFences_ \in [Slots -> BOOLEAN]
  /\ imageAvailableSemaphores_ \in [Slots -> BOOLEAN]
  /\ renderFinishedSemaphores_ \in [Images -> BOOLEAN]
  /\ acquiring \subseteq Slots
  /\ graphicsQueue \in Seq([slot : Slots, image : Nat, sem : Nat])
  /\ presentQueue \in Seq([image : Nat, sem : Nat])
  /\ owner \in [Images -> {"free", "app", "queued", "shown"}]
  /\ window \in 0..MaxChanges /\ minimised \in BOOLEAN
  /\ events \subseteq {"resize", "close", "other"}

\* VulkanRenderer.cpp:1089: "a semaphore must be fully waited-on before it's safe
\* to signal again".  No semaphore is signalled by two operations without a wait
\* between them: not by two submissions, nor by a second acquire of the slot.
SignalledOnce ==
  /\ \A i \in Images :
       LET Signals == {k \in 1..Len(graphicsQueue) : graphicsQueue[k].sem = i} IN
         Cardinality(Signals) + (IF renderFinishedSemaphores_[i] THEN 1 ELSE 0) <= 1
  /\ \A s \in Slots : ~(s \in acquiring /\ imageAvailableSemaphores_[s])
  /\ pc = "acquire" =>
       currentFrame_ \notin acquiring /\ ~imageAvailableSemaphores_[currentFrame_]

\* While the main thread rewrites the slot's command buffer and its mapped camera
\* buffer, no submission that reads them is under way.
SlotUnused ==
  pc = "record" => \A k \in 1..Len(graphicsQueue) : graphicsQueue[k].slot # currentFrame_

\* A fence that is not signalled belongs to a submission, or to the frame being
\* recorded: waiting for it never blocks for good.
FenceWillSignal ==
  \A s \in Slots :
    ~inFlightFences_[s] =>
      \/ \E k \in 1..Len(graphicsQueue) : graphicsQueue[k].slot = s
      \/ pc \in {"record", "thrown"} /\ s = currentFrame_

\* Once the device is idle at a recreation or at the end, no image is acquired,
\* every acquire was consumed and every fence is signalled: the objects of the
\* slots, which outlive the swapchain, are as they were created.
IdleMeansInitial ==
  pc \in {"idle", "done"} /\ Idle =>
    /\ acquiring = {} /\ \A i \in Images : owner[i] # "app"
    /\ \A s \in Slots : inFlightFences_[s] /\ ~imageAvailableSemaphores_[s]

\* The semaphores, the buffers and the fences of a slot are reused, and kept by a
\* recreation, only when whatever used them is through.
ReusedWhenFree == SignalledOnce /\ SlotUnused
FencesReturn == FenceWillSignal /\ IdleMeansInitial

\* drawFrame(), with the recreations it makes, always comes back to the event loop
\* (or throws), however the window changes and whichever calls find the swapchain
\* out of date, unless the window is minimised for good.
DrawFrameReturns ==
  <>[]~minimised => (pc \notin {"loop", "thrown", "done"} ~> pc \in {"loop", "thrown"})

\* No resize is lost: when the window stops changing, the swapchain gets its size.
ResizeSettles ==
  <>[](extent = window \/ minimised \/ shouldClose \/ pc = "thrown")

================================================================================
